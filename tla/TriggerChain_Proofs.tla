------------------------ MODULE TriggerChain_Proofs ------------------------
(***************************************************************************)
(* Proofs about TriggerChain for any number of cameras, any queue sizes,   *)
(* any timing, any failures and any number of coordinator runs.            *)
(***************************************************************************)
EXTENDS TriggerChain, TLAPS

LEMMA Parameters ==
  /\ QueueMax \in Nat /\ ClockBound \in Nat
  /\ Period \in Nat /\ Period > 0 /\ Lead \in Nat /\ Resync \in Nat
  /\ StartDelay \in Nat /\ TickBound \in Nat /\ StartBound \in Nat
  /\ LateDrop \in Nat /\ PendingMax \in Nat /\ PendingMax > 0 /\ LostBound \in Nat
BY SocketAssumption, CoordinatorAssumption, WorkerAssumption

-----------------------------------------------------------------------------
(* Type correctness: sockets, coordinator, workers.                        *)

SocketsOK == now \in Nat /\ bound \subseteq Camera /\ inbox \in [Camera -> Seq(Message)]

LEMMA TypeInit == Init => TypeOK
<1> SUFFICES ASSUME Init PROVE TypeOK
  OBVIOUS
<1> USE DEF Init, SocketsInit, CoordinatorInit, WorkersInit
<1>1. SocketsOK
  BY DEF SocketsOK
<1>2. CoordinatorTypeOK
  BY DEF CoordinatorTypeOK, NeverSent
<1>3. WorkersTypeOK
  BY Parameters DEF WorkersTypeOK, NoTick, NeverShown, Message
<1> QED BY <1>1, <1>2, <1>3 DEF TypeOK, SocketsOK

LEMMA SocketsStep == TypeOK /\ [Next]_vars => SocketsOK'
<1> SUFFICES ASSUME TypeOK, [Next]_vars PROVE SocketsOK'
  OBVIOUS
<1>0. SocketsOK
  BY DEF TypeOK, SocketsOK
<1>1. CASE TimePasses
  BY <1>0, <1>1 DEF TimePasses, SocketsOK
<1>2. ASSUME NEW c \in Camera, SendTo(c) PROVE SocketsOK'
  <2>1. [tick |-> tick, fire |-> fire] \in Message
    BY DEF TypeOK, CoordinatorTypeOK, Message
  <2>2. inbox' \in [Camera -> Seq(Message)]
    <3>1. CASE c \in bound
      <4>1. Append(inbox[c], [tick |-> tick, fire |-> fire]) \in Seq(Message)
        BY <1>0, <2>1 DEF SocketsOK
      <4> QED BY <1>0, <1>2, <3>1, <4>1 DEF SendTo, SocketsOK
    <3>2. CASE c \notin bound
      BY <1>0, <1>2, <3>2 DEF SendTo, SocketsOK
    <3> QED BY <3>1, <3>2
  <2> QED BY <1>0, <1>2, <2>2 DEF SendTo, SocketsOK
<1>3. ASSUME NEW c \in Camera, Worker(c) PROVE SocketsOK'
  <2>1. CASE Bind(c)
    BY <1>0, <2>1 DEF Bind, SocketsOK
  <2>2. CASE WorkerDies(c)
    BY <1>0, <2>2 DEF WorkerDies, SocketsOK
  <2>3. CASE Receive(c)
    <3>1. Tail(inbox[c]) \in Seq(Message)
      BY <1>0, <2>3 DEF Receive, SocketsOK
    <3> QED BY <1>0, <2>3, <3>1 DEF Receive, SocketsOK
  <2>4. CASE OpenSource(c) \/ Fire(c) \/ PushMeta(c) \/ LabelFrame(c) \/ SkipOrphan(c)
    BY <1>0, <2>4 DEF OpenSource, Fire, PushMeta, LabelFrame, SkipOrphan, sockets, SocketsOK
  <2> QED BY <1>3, <2>1, <2>2, <2>3, <2>4 DEF Worker, TriggerThread, ReadThread
<1>4. CASE CoordinatorStarts \/ CoordinatorEnds \/ Sample \/ Record \/ UNCHANGED vars
  BY <1>0, <1>4 DEF CoordinatorStarts, CoordinatorEnds, Sample, Record, vars, sockets, SocketsOK
<1> QED BY <1>1, <1>2, <1>3, <1>4 DEF Next, Coordinator, Announce

LEMMA CoordinatorStep == TypeOK /\ [Next]_vars => CoordinatorTypeOK'
<1> SUFFICES ASSUME TypeOK, [Next]_vars PROVE CoordinatorTypeOK'
  OBVIOUS
<1>0. CoordinatorTypeOK /\ now \in Nat
  BY DEF TypeOK
<1> USE <1>0, Parameters DEF CoordinatorTypeOK
<1>1. CASE CoordinatorStarts
  BY <1>1 DEF CoordinatorStarts
<1>2. CASE CoordinatorEnds
  BY <1>2 DEF CoordinatorEnds
<1>3. CASE Sample
  BY <1>3 DEF Sample
<1>4. ASSUME NEW c \in Camera, SendTo(c) PROVE CoordinatorTypeOK'
  BY <1>4 DEF SendTo
<1>5. CASE Record
  BY <1>5 DEF Record
<1>6. CASE UNCHANGED coordinator
  BY <1>6 DEF coordinator
<1> QED BY <1>1, <1>2, <1>3, <1>4, <1>5, <1>6 DEF Next, Coordinator, Announce, vars

LEMMA WorkersStep == TypeOK /\ [Next]_vars => WorkersTypeOK'
<1> SUFFICES ASSUME TypeOK, [Next]_vars PROVE WorkersTypeOK'
  OBVIOUS
<1>0. WorkersTypeOK /\ SocketsOK
  BY DEF TypeOK, SocketsOK
<1>1. CASE UNCHANGED workers
  BY <1>0, <1>1 DEF workers, WorkersTypeOK
<1>2. ASSUME NEW c \in Camera, Worker(c) PROVE WorkersTypeOK'
  <2> USE <1>0 DEF WorkersTypeOK
  <2>0. <<>> \in Seq(Nat) /\ Len(<<>>) <= PendingMax /\ NoTick \in Message
    BY Parameters DEF NoTick, Message
  <2>1. CASE Bind(c)
    BY <2>1 DEF Bind
  <2>2. CASE OpenSource(c)
    BY <2>2 DEF OpenSource
  <2>3. CASE WorkerDies(c)
    BY <2>0, <2>3 DEF WorkerDies
  <2>4. CASE Receive(c)
    <3>1. Head(inbox[c]) \in Message
      BY <2>4 DEF Receive, SocketsOK
    <3>2. Head(inbox[c]).tick \in Int
      BY <3>1, SMTT(30) DEF Message
    <3>3. cur' \in [Camera -> Message]
      BY <2>4, <3>1 DEF Receive
    <3>4. lastTick' \in [Camera -> Int]
      BY <2>4, <3>2 DEF Receive
    <3>5. wpc' \in [Camera -> {"none", "opening", "recv", "wait", "push", "dead"}]
      BY <2>4 DEF Receive
    <3> QED BY <2>4, <3>3, <3>4, <3>5 DEF Receive
  <2>5. CASE Fire(c)
    <3>1. cur[c].tick \in Nat
      BY DEF Message
    <3>2. Append(frames[c], cur[c].tick) \in Seq(Nat) /\ lost[c] + 1 \in Nat
      BY <3>1
    <3>3. frames' \in [Camera -> Seq(Nat)] /\ lost' \in [Camera -> Nat]
      <4>1. CASE frames' = [frames EXCEPT ![c] = Append(@, cur[c].tick)] /\ UNCHANGED lost
        BY <3>2, <4>1
      <4>2. CASE lost' = [lost EXCEPT ![c] = @ + 1] /\ UNCHANGED frames
        BY <3>2, <4>2
      <4> QED BY <2>5, <4>1, <4>2 DEF Fire
    <3> QED BY <2>5, <3>3 DEF Fire
  <2>6. CASE PushMeta(c)
    <3>1. cur[c].tick \in Nat
      BY DEF Message
    <3> DEFINE full == Len(pending[c]) >= PendingMax
               kept == IF full THEN Tail(pending[c]) ELSE pending[c]
    <3>2. pending[c] \in Seq(Nat) /\ Len(pending[c]) <= PendingMax
      OBVIOUS
    <3>3. kept \in Seq(Nat) /\ Len(kept) + 1 <= PendingMax
      <4>1. CASE full
        <5>1. pending[c] # <<>>
          BY <3>2, <4>1, Parameters
        <5>2. Tail(pending[c]) \in Seq(Nat) /\ Len(Tail(pending[c])) = Len(pending[c]) - 1
          BY <3>2, <5>1
        <5> QED BY <3>2, <4>1, <5>2
      <4>2. CASE ~full
        <5>1. kept = pending[c]
          BY <4>2
        <5>2. Len(pending[c]) \in Nat /\ Len(pending[c]) < PendingMax
          BY <3>2, <4>2, Parameters
        <5> QED BY <3>2, <5>1, <5>2, Parameters
      <4> QED BY <4>1, <4>2
    <3>4. Append(kept, cur[c].tick) \in Seq(Nat) /\ Len(Append(kept, cur[c].tick)) <= PendingMax
      <4> HIDE DEF kept
      <4> QED BY <3>1, <3>3
    <3>5. pending' = [pending EXCEPT ![c] = Append(kept, cur[c].tick)]
      BY <2>6 DEF PushMeta
    <3>6. cut' \in [Camera -> Nat]
      BY <2>6 DEF PushMeta
    <3> HIDE DEF kept
    <3>7. pending' \in [Camera -> Seq(Nat)] /\ \A d \in Camera : Len(pending'[d]) <= PendingMax
      BY <3>4, <3>5
    <3> QED BY <2>0, <2>6, <3>6, <3>7 DEF PushMeta
  <2>7. CASE LabelFrame(c)
    <3>1. Tail(frames[c]) \in Seq(Nat) /\ Tail(pending[c]) \in Seq(Nat)
          /\ Len(Tail(pending[c])) <= PendingMax
          /\ Head(pending[c]) \in Int /\ Head(frames[c]) \in Int
      BY <2>7, Parameters, SMTT(30) DEF LabelFrame
    <3> QED BY <2>7, <3>1 DEF LabelFrame
  <2>8. CASE SkipOrphan(c)
    <3>1. Tail(frames[c]) \in Seq(Nat)
      BY <2>8 DEF SkipOrphan
    <3> QED BY <2>8, <3>1, SMTT(30) DEF SkipOrphan
  <2> QED BY <1>2, <2>1, <2>2, <2>3, <2>4, <2>5, <2>6, <2>7, <2>8
          DEF Worker, TriggerThread, ReadThread
<1> QED BY <1>1, <1>2 DEF Next, vars

\* Types, in every behaviour (TypeOK of the module; pending_meta is bounded by
\* its limit, line 287 of the worker).
THEOREM ChainTypes == Spec => []TypeOK
<1>1. TypeOK /\ [Next]_vars => TypeOK'
  BY SocketsStep, CoordinatorStep, WorkersStep DEF TypeOK, SocketsOK
<1> QED BY TypeInit, <1>1, PTL DEF Spec

-----------------------------------------------------------------------------
(* The coordinator: the next tick is as far from the last one recorded as  *)
(* their ids say, or farther.                                              *)

PaceInv ==
  /\ sent.start <= start
  /\ cpc # "off" /\ sent.start = start =>
       sent.tick < tick /\ fire - sent.fire >= (tick - sent.tick) * Period

LEMMA OneMore == \A n \in Int, p \in Nat : (n + 1) * p = n * p + p
OBVIOUS

LEMMA PaceStep == TypeOK /\ PaceInv /\ [Next]_vars => PaceInv'
<1> SUFFICES ASSUME TypeOK, PaceInv, [Next]_vars PROVE PaceInv'
  OBVIOUS
<1>0. CoordinatorTypeOK /\ now \in Nat
  BY DEF TypeOK
<1> USE <1>0, Parameters DEF CoordinatorTypeOK, PaceInv
<1>1. CASE CoordinatorStarts
  BY <1>1 DEF CoordinatorStarts
<1>2. CASE CoordinatorEnds
  BY <1>2 DEF CoordinatorEnds
<1>3. CASE Sample
  <2>1. CASE TooLate
    <3>1. fire' >= fire + Period /\ fire' \in Int /\ tick' = tick + 1
      BY <1>3, <2>1 DEF Sample, TooLate
    <3>2. UNCHANGED <<cpc, sent, start>>
      BY <1>3, <2>1 DEF Sample
    <3>3. ASSUME cpc # "off", sent.start = start
          PROVE  sent.tick < tick + 1 /\ fire' - sent.fire >= (tick + 1 - sent.tick) * Period
      <4>1. (tick + 1 - sent.tick) * Period = (tick - sent.tick) * Period + Period
        <5>1. tick - sent.tick \in Int /\ (tick - sent.tick) + 1 = tick + 1 - sent.tick
          OBVIOUS
        <5> QED BY <5>1, OneMore
      <4>2. (tick - sent.tick) * Period \in Int
        OBVIOUS
      <4> QED BY <3>1, <3>3, <4>1, <4>2
    <3> QED BY <3>1, <3>2, <3>3
  <2>2. CASE ~TooLate
    BY <1>3, <2>2 DEF Sample
  <2> QED BY <2>1, <2>2
<1>4. ASSUME NEW c \in Camera, SendTo(c) PROVE PaceInv'
  BY <1>4 DEF SendTo
<1>5. CASE Record
  <2>1. sent' = [start |-> start, tick |-> tick, fire |-> fire]
        /\ tick' = tick + 1 /\ fire' = fire + Period /\ start' = start
    BY <1>5 DEF Record
  <2>2. (tick + 1 - tick) * Period = Period
    OBVIOUS
  <2> QED BY <2>1, <2>2
<1>6. CASE UNCHANGED coordinator
  BY <1>6 DEF coordinator
<1> QED BY <1>1, <1>2, <1>3, <1>4, <1>5, <1>6 DEF Next, Coordinator, Announce, vars

\* No camera is asked for more than its frame rate within a run of the
\* coordinator (FiresKeepPace), however late it wakes up.
THEOREM ChainKeepsPace == Spec => FiresKeepPace
<1>1. Init => PaceInv
  BY DEF Init, CoordinatorInit, PaceInv, NeverSent
<1> DEFINE Pace == sent' # sent /\ sent'.start = sent.start
                   => /\ sent'.tick > sent.tick
                      /\ sent'.fire - sent.fire >= (sent'.tick - sent.tick) * Period
<1>2. TypeOK /\ PaceInv /\ [Next]_vars => [Pace]_vars
  <2> SUFFICES ASSUME TypeOK, PaceInv, Next, sent' # sent, sent'.start = sent.start
               PROVE  /\ sent'.tick > sent.tick
                      /\ sent'.fire - sent.fire >= (sent'.tick - sent.tick) * Period
    OBVIOUS
  <2>1. Record
    BY DEF Next, Coordinator, Announce, CoordinatorStarts, CoordinatorEnds, Sample, SendTo,
           coordinator
  <2>2. sent' = [start |-> start, tick |-> tick, fire |-> fire] /\ cpc = "send"
    BY <2>1 DEF Record
  <2> QED BY <2>2 DEF PaceInv, TypeOK, CoordinatorTypeOK
<1> QED BY <1>1, <1>2, ChainTypes, PaceStep, PTL DEF Spec, FiresKeepPace

-----------------------------------------------------------------------------
(* Labels increase.                                                        *)

\* What a worker has published, what waits in pending_meta, and the tick its
\* trigger thread works on follow each other in this order.
OrderInv(c) ==
  /\ \A i \in DOMAIN pending[c] :
       shown[c].label < pending[c][i] /\ pending[c][i] <= lastTick[c]
  /\ \A i, j \in DOMAIN pending[c] : i < j => pending[c][i] < pending[c][j]
  /\ wpc[c] \in {"wait", "push"} =>
       /\ cur[c].tick = lastTick[c] /\ shown[c].label < cur[c].tick
       /\ \A i \in DOMAIN pending[c] : pending[c][i] < cur[c].tick
  /\ wpc[c] # "dead" => shown[c].label <= lastTick[c]
  /\ wpc[c] \in {"none", "opening", "dead"} => pending[c] = <<>> /\ frames[c] = <<>>

LEMMA CameraTypes ==
  ASSUME TypeOK, NEW c \in Camera
  PROVE  /\ pending[c] \in Seq(Nat) /\ frames[c] \in Seq(Nat) /\ inbox[c] \in Seq(Message)
         /\ lastTick[c] \in Int /\ cur[c] \in Message /\ cur[c].tick \in Nat
         /\ shown[c] \in [label : Int, taken : Int]
         /\ shown[c].label \in Int /\ shown[c].taken \in Int
         /\ lost[c] \in Nat /\ cut[c] \in Nat
         /\ wpc \in [Camera -> {"none", "opening", "recv", "wait", "push", "dead"}]
         /\ DOMAIN cur = Camera /\ DOMAIN lastTick = Camera /\ DOMAIN pending = Camera
         /\ DOMAIN frames = Camera /\ DOMAIN shown = Camera /\ DOMAIN inbox = Camera
         /\ DOMAIN lost = Camera /\ DOMAIN cut = Camera
<1>1. WorkersTypeOK /\ inbox \in [Camera -> Seq(Message)]
  BY DEF TypeOK
<1>2. cur[c] \in Message /\ cur[c].tick \in Nat
  BY <1>1 DEF WorkersTypeOK, Message
<1>3. shown[c] \in [label : Int, taken : Int] /\ shown[c].label \in Int /\ shown[c].taken \in Int
  BY <1>1 DEF WorkersTypeOK
<1> QED BY <1>1, <1>2, <1>3 DEF WorkersTypeOK

\* What a step of one worker leaves to another.
Untouched(c) ==
  /\ wpc'[c] = wpc[c] /\ cur'[c] = cur[c] /\ lastTick'[c] = lastTick[c]
  /\ pending'[c] = pending[c] /\ frames'[c] = frames[c] /\ shown'[c] = shown[c]
  /\ lost'[c] = lost[c] /\ cut'[c] = cut[c]

LEMMA OneWorker ==
  ASSUME TypeOK, [Next]_vars, NEW c \in Camera
  PROVE  Untouched(c) \/ Worker(c)
<1>1. CASE UNCHANGED workers
  BY <1>1 DEF workers, Untouched
<1>2. ASSUME NEW d \in Camera, d # c, Worker(d) PROVE Untouched(c)
  BY <1>2, CameraTypes
     DEF Worker, TriggerThread, ReadThread, Bind, OpenSource, WorkerDies, Receive, Fire,
         PushMeta, LabelFrame, SkipOrphan, Untouched
<1> QED BY <1>1, <1>2 DEF Next, vars

\* The sequences a worker's two threads work on.
LEMMA Appended ==
  ASSUME NEW s \in Seq(Nat), NEW t \in Nat
  PROVE  /\ Append(s, t) \in Seq(Nat) /\ Len(Append(s, t)) = Len(s) + 1
         /\ DOMAIN s = 1..Len(s) /\ DOMAIN Append(s, t) = 1..(Len(s) + 1)
         /\ \A i \in 1..Len(s) : Append(s, t)[i] = s[i]
         /\ Append(s, t)[Len(s) + 1] = t /\ Len(s) \in Nat
OBVIOUS

LEMMA Popped ==
  ASSUME NEW s \in Seq(Nat), s # <<>>
  PROVE  /\ Tail(s) \in Seq(Nat) /\ Len(Tail(s)) = Len(s) - 1 /\ Len(s) \in Nat \ {0}
         /\ DOMAIN s = 1..Len(s) /\ DOMAIN Tail(s) = 1..(Len(s) - 1)
         /\ \A i \in 1..(Len(s) - 1) : Tail(s)[i] = s[i + 1]
         /\ Head(s) = s[1] /\ 1 \in DOMAIN s
OBVIOUS

LEMMA OrderStep ==
  ASSUME TypeOK, [Next]_vars, NEW c \in Camera, OrderInv(c)
  PROVE  OrderInv(c)'
<1> USE CameraTypes
<1>1. CASE Untouched(c)
  BY <1>1 DEF Untouched, OrderInv
<1>2. CASE Bind(c) \/ OpenSource(c)
  BY <1>2 DEF Bind, OpenSource, OrderInv
<1>3. CASE WorkerDies(c)
  BY <1>3 DEF WorkerDies, OrderInv
<1>4. CASE Receive(c)
  <2> DEFINE m == Head(inbox[c])
  <2>0. m \in Message
    BY <1>4 DEF Receive
  <2>1. m.tick \in Nat
    BY <2>0 DEF Message
  <2>2. UNCHANGED <<pending, frames, shown>> /\ wpc[c] = "recv"
    BY <1>4 DEF Receive
  <2>3. CASE m.tick <= lastTick[c]
    BY <1>4, <2>2, <2>3 DEF Receive, OrderInv
  <2>4. CASE ~(m.tick <= lastTick[c])
    <3>1. lastTick'[c] = m.tick
      BY <1>4, <2>4 DEF Receive
    <3>2. wpc'[c] = "recv" \/ (wpc'[c] = "wait" /\ cur'[c] = m)
      <4>1. CASE now > m.fire + LateDrop
        BY <1>4, <2>2, <4>1 DEF Receive
      <4>2. CASE ~(now > m.fire + LateDrop)
        BY <1>4, <2>4, <4>2 DEF Receive
      <4> QED BY <4>1, <4>2
    <3>3. \A i \in DOMAIN pending[c] : pending[c][i] \in Nat
      OBVIOUS
    <3> HIDE DEF m
    <3> QED BY <2>1, <2>2, <2>4, <3>1, <3>2, <3>3, SMTT(30) DEF OrderInv
  <2> QED BY <2>3, <2>4
<1>5. CASE Fire(c)
  <2>1. UNCHANGED <<cur, lastTick, pending, shown>> /\ wpc[c] = "wait" /\ wpc'[c] = "push"
    BY <1>5 DEF Fire
  <2> QED BY <2>1 DEF OrderInv
<1>6. CASE PushMeta(c)
  <2> DEFINE t == cur[c].tick
             kept == IF Len(pending[c]) >= PendingMax THEN Tail(pending[c]) ELSE pending[c]
  <2>1. /\ kept \in Seq(Nat)
        /\ \A i \in DOMAIN kept : shown[c].label < kept[i] /\ kept[i] < t
        /\ \A i, j \in DOMAIN kept : i < j => kept[i] < kept[j]
    <3>1. CASE Len(pending[c]) >= PendingMax
      <4>1. pending[c] # <<>> /\ kept = Tail(pending[c])
        BY <3>1, Parameters
      <4> HIDE DEF kept
      <4>2. \A i \in DOMAIN kept : i + 1 \in DOMAIN pending[c] /\ kept[i] = pending[c][i + 1]
        BY <4>1, Popped
      <4>3. kept \in Seq(Nat) /\ \A i \in DOMAIN kept : i \in Nat
        BY <4>1, Popped
      <4>4. wpc[c] = "push"
        BY <1>6 DEF PushMeta
      <4>5. \A i \in DOMAIN kept : shown[c].label < kept[i] /\ kept[i] < t
        BY <4>2, <4>4 DEF OrderInv
      <4>6. ASSUME NEW i \in DOMAIN kept, NEW j \in DOMAIN kept, i < j PROVE kept[i] < kept[j]
        <5>1. i + 1 < j + 1
          BY <4>3, <4>6
        <5> QED BY <4>2, <5>1 DEF OrderInv
      <4> QED BY <4>3, <4>5, <4>6
    <3>2. CASE ~(Len(pending[c]) >= PendingMax)
      BY <1>6, <3>2 DEF PushMeta, OrderInv
    <3> QED BY <3>1, <3>2
  <2>2. pending'[c] = Append(kept, t) /\ wpc'[c] = "recv" /\ UNCHANGED <<lastTick, shown, frames>>
    BY <1>6 DEF PushMeta
  <2>3. t = lastTick[c] /\ shown[c].label < t /\ t \in Nat
    BY <1>6 DEF PushMeta, OrderInv
  <2> HIDE DEF kept, t
  <2>4. /\ DOMAIN kept = 1..Len(kept) /\ Len(kept) \in Nat
        /\ DOMAIN pending'[c] = 1..(Len(kept) + 1)
        /\ \A i \in 1..Len(kept) : pending'[c][i] = kept[i] /\ kept[i] \in Nat
        /\ pending'[c][Len(kept) + 1] = t
    BY <2>1, <2>2, <2>3, Appended
  <2>5. \A i \in DOMAIN pending'[c] : shown[c].label < pending'[c][i] /\ pending'[c][i] <= t
    <3> TAKE i \in DOMAIN pending'[c]
    <3>1. CASE i \in 1..Len(kept)
      BY <2>1, <2>3, <2>4, <3>1
    <3>2. CASE i = Len(kept) + 1
      BY <2>3, <2>4, <3>2
    <3> QED BY <2>4, <3>1, <3>2
  <2>6. ASSUME NEW i \in DOMAIN pending'[c], NEW j \in DOMAIN pending'[c], i < j
        PROVE  pending'[c][i] < pending'[c][j]
    <3>1. i \in 1..Len(kept)
      BY <2>4, <2>6
    <3>2. CASE j \in 1..Len(kept)
      BY <2>1, <2>4, <2>6, <3>1, <3>2
    <3>3. CASE j = Len(kept) + 1
      BY <2>1, <2>4, <3>1, <3>3
    <3> QED BY <2>4, <3>2, <3>3
  <2>7. shown[c].label <= lastTick[c]
    BY <2>3
  <2> QED BY <2>2, <2>3, <2>5, <2>6, <2>7 DEF OrderInv
<1>7. CASE LabelFrame(c)
  <2>1. /\ pending'[c] = Tail(pending[c]) /\ pending[c] # <<>> /\ frames[c] # <<>>
        /\ shown'[c].label = Head(pending[c])
        /\ UNCHANGED <<wpc, cur, lastTick>>
    BY <1>7 DEF LabelFrame
  <2>2. /\ \A i \in DOMAIN pending'[c] :
             i \in Nat \ {0} /\ i + 1 \in DOMAIN pending[c] /\ pending'[c][i] = pending[c][i + 1]
        /\ Head(pending[c]) = pending[c][1] /\ 1 \in DOMAIN pending[c]
        /\ \A i \in DOMAIN pending[c] : pending[c][i] \in Nat
    BY <2>1, Popped, SMTT(30)
  <2>3. wpc[c] \notin {"none", "opening", "dead"}
    BY <2>1 DEF OrderInv
  <2>4. \A i \in DOMAIN pending'[c] :
          shown'[c].label < pending'[c][i] /\ pending'[c][i] <= lastTick[c]
    BY <2>1, <2>2, SMTT(30) DEF OrderInv
  <2>5. ASSUME NEW i \in DOMAIN pending'[c], NEW j \in DOMAIN pending'[c], i < j
        PROVE  pending'[c][i] < pending'[c][j]
    <3>1. i + 1 < j + 1
      BY <2>2, <2>5
    <3> QED BY <2>2, <3>1 DEF OrderInv
  <2>6. shown'[c].label <= lastTick[c]
    BY <2>1, <2>2 DEF OrderInv
  <2>7. wpc[c] \in {"wait", "push"} =>
          /\ cur[c].tick = lastTick[c] /\ shown'[c].label < cur[c].tick
          /\ \A i \in DOMAIN pending'[c] : pending'[c][i] < cur[c].tick
    BY <2>1, <2>2 DEF OrderInv
  <2> QED BY <2>1, <2>3, <2>4, <2>5, <2>6, <2>7 DEF OrderInv
<1>8. CASE SkipOrphan(c)
  <2>1. UNCHANGED <<wpc, cur, lastTick, pending, shown>> /\ frames[c] # <<>>
    BY <1>8 DEF SkipOrphan
  <2> QED BY <2>1 DEF OrderInv
<1> QED BY <1>1, <1>2, <1>3, <1>4, <1>5, <1>6, <1>7, <1>8, OneWorker
        DEF Worker, TriggerThread, ReadThread

Ordered == \A c \in Camera : OrderInv(c)

\* The order of the ticks a worker holds, whatever it receives.
THEOREM ChainOrdered == Spec => []Ordered
<1>1. ASSUME Init, NEW c \in Camera PROVE OrderInv(c)
  <2>1. /\ pending[c] = <<>> /\ frames[c] = <<>> /\ wpc[c] = "none"
        /\ lastTick[c] = -1 /\ shown[c].label = -1
    BY <1>1 DEF Init, WorkersInit, NeverShown
  <2> QED BY <2>1 DEF OrderInv
<1>2. TypeOK /\ Ordered /\ [Next]_vars => Ordered'
  BY OrderStep DEF Ordered
<1>3. Init => Ordered
  BY <1>1 DEF Ordered
<1> QED BY <1>2, <1>3, ChainTypes, PTL DEF Spec

\* No two frames of a camera claim the same tick, and no frame an older one
\* (LabelsIncrease), whatever the coordinator sends again.
THEOREM ChainLabelsIncrease == Spec => LabelsIncrease
<1> DEFINE Increase ==
      \A c \in Camera : shown'[c] # shown[c] => shown'[c].label > shown[c].label
<1>1. TypeOK /\ Ordered /\ [Next]_vars => [Increase]_vars
  <2> SUFFICES ASSUME TypeOK, Ordered, [Next]_vars, NEW c \in Camera, shown'[c] # shown[c]
               PROVE  shown'[c].label > shown[c].label
    OBVIOUS
  <2>1. LabelFrame(c)
    <3>1. Worker(c) \/ Untouched(c)
      BY OneWorker
    <3> QED BY <3>1, CameraTypes
            DEF Untouched, Worker, TriggerThread, ReadThread, Bind, OpenSource, WorkerDies,
                Receive, Fire, PushMeta, SkipOrphan
  <2>2. shown'[c].label = pending[c][1] /\ 1 \in DOMAIN pending[c]
    BY <2>1, CameraTypes, Popped DEF LabelFrame
  <2>3. shown[c].label < pending[c][1] /\ pending[c][1] \in Int /\ shown[c].label \in Int
    BY <2>2, CameraTypes DEF Ordered, OrderInv
  <2> QED BY <2>2, <2>3
<1> QED BY <1>1, ChainTypes, ChainOrdered, PTL DEF Spec, LabelsIncrease

-----------------------------------------------------------------------------
(* Labels are right, or too old for good.                                  *)

\* The metadata of the ticks fired so far: cur is fired and not yet queued
\* while its thread is at "push".
Fired(c) == IF wpc[c] = "push" THEN Append(pending[c], cur[c].tick) ELSE pending[c]

\* Frames f that are to get the labels q: no label is too new, and behind an
\* older one all are older, with one left over.
Behind(q, f, i) == Len(f) < Len(q) /\ \A j \in i..Len(f) : q[j] < f[j]

Matched(q, f) ==
  /\ Len(f) <= Len(q)
  /\ \A i \in 1..Len(f) : q[i] <= f[i] /\ (q[i] < f[i] => Behind(q, f, i))

LabelInv(c) ==
  cut[c] = 0 =>
    /\ Matched(Fired(c), frames[c])
    /\ shown[c].label <= shown[c].taken
    /\ lost[c] = 0 => Fired(c) = frames[c] /\ shown[c].label = shown[c].taken
    /\ shown[c].label < shown[c].taken /\ wpc[c] # "dead" => Behind(Fired(c), frames[c], 1)

\* What a step may do to the metadata q and the frames f of a worker.
Keeps(c) == Fired(c)' = Fired(c) /\ frames'[c] = frames[c] /\ shown'[c] = shown[c] /\ lost'[c] = lost[c]

Exposes(c, t) ==
  /\ \A i \in 1..Len(Fired(c)) : Fired(c)[i] < t
  /\ Fired(c)' = Append(Fired(c), t) /\ shown'[c] = shown[c]
  /\ \/ frames'[c] = Append(frames[c], t) /\ lost'[c] = lost[c]
     \/ frames'[c] = frames[c] /\ lost'[c] = lost[c] + 1

Labels(c) ==
  /\ Fired(c) # <<>> /\ frames[c] # <<>>
  /\ Fired(c)' = Tail(Fired(c)) /\ frames'[c] = Tail(frames[c])
  /\ shown'[c] = [label |-> Head(Fired(c)), taken |-> Head(frames[c])]
  /\ lost'[c] = lost[c]

Orphans(c) ==
  /\ frames[c] # <<>> /\ Len(Fired(c)) <= 1
  /\ Fired(c)' = Fired(c) /\ frames'[c] = Tail(frames[c])
  /\ shown'[c] = shown[c] /\ lost'[c] = lost[c] + 1

Empties(c) ==
  /\ wpc'[c] = "dead" /\ Fired(c)' = <<>> /\ frames'[c] = <<>>
  /\ shown'[c] = shown[c] /\ lost'[c] = lost[c]

LEMMA FiredType ==
  ASSUME TypeOK, NEW c \in Camera
  PROVE  Fired(c) \in Seq(Nat)
BY CameraTypes DEF Fired

LEMMA HeadAndTail ==
  ASSUME NEW s \in Seq(Nat), NEW t \in Nat, s # <<>>
  PROVE  Append(s, t) # <<>> /\ Tail(Append(s, t)) = Append(Tail(s), t)
         /\ Head(Append(s, t)) = Head(s)
<1> DEFINE a == Tail(Append(s, t))
           b == Append(Tail(s), t)
<1>1. Append(s, t) # <<>> /\ Head(Append(s, t)) = Head(s)
  OBVIOUS
<1>2. Append(s, t) \in Seq(Nat) /\ Tail(s) \in Seq(Nat)
      /\ Len(Append(s, t)) = Len(s) + 1 /\ Len(Tail(s)) = Len(s) - 1 /\ Len(s) \in Nat
  OBVIOUS
<1>3. a \in Seq(Nat) /\ Len(a) = Len(s) /\ \A i \in 1..Len(s) : a[i] = Append(s, t)[i + 1]
  BY <1>1, <1>2
<1>4. b \in Seq(Nat) /\ Len(b) = Len(s)
  BY <1>2
<1>5. ASSUME NEW i \in 1..Len(s) PROVE a[i] = b[i]
  <2>1. CASE i = Len(s)
    BY <1>2, <1>3, <2>1, Appended
  <2>2. CASE i # Len(s)
    <3>1. i + 1 \in 1..Len(s) /\ i \in 1..(Len(s) - 1)
      <4>1. PICK n \in Nat : n = Len(s)
        BY <1>2
      <4> QED BY <2>2, <4>1
    <3>2. a[i] = s[i + 1]
      BY <1>3, <3>1, Appended
    <3>3. b[i] = Tail(s)[i]
      BY <1>2, <3>1, Appended
    <3> QED BY <3>1, <3>2, <3>3, Popped
  <2> QED BY <2>1, <2>2
<1> HIDE DEF a, b
<1>6. a = b
  BY <1>3, <1>4, <1>5, SMTT(30)
<1> QED BY <1>1, <1>6 DEF a, b

LEMMA Moves ==
  ASSUME TypeOK, [Next]_vars, NEW c \in Camera, OrderInv(c), cut'[c] = 0
  PROVE  /\ cut[c] = 0
         /\ wpc[c] = "dead" => wpc'[c] = "dead"
         /\ \/ Keeps(c) \/ Labels(c) \/ Orphans(c) \/ Empties(c)
            \/ \E t \in Nat : Exposes(c, t)
<1> USE CameraTypes
<1>1. CASE Untouched(c)
  BY <1>1 DEF Untouched, Keeps, Fired
<1>2. CASE Bind(c) \/ OpenSource(c)
  BY <1>2 DEF Bind, OpenSource, Keeps, Fired
<1>3. CASE WorkerDies(c)
  <2>1. /\ wpc'[c] = "dead" /\ pending'[c] = <<>> /\ frames'[c] = <<>>
        /\ UNCHANGED <<shown, lost, cut>>
    BY <1>3 DEF WorkerDies
  <2>2. Fired(c)' = <<>>
    BY <2>1 DEF Fired
  <2> QED BY <2>1, <2>2 DEF Empties
<1>4. CASE Receive(c)
  <2>1. wpc[c] = "recv" /\ UNCHANGED <<pending, frames, shown, lost, cut>>
    BY <1>4 DEF Receive
  <2>2. wpc'[c] \in {"recv", "wait"}
    BY <1>4 DEF Receive
  <2>3. Fired(c)' = Fired(c)
    BY <2>1, <2>2 DEF Fired
  <2> QED BY <2>1, <2>3 DEF Keeps
<1>5. CASE Fire(c)
  <2> DEFINE t == cur[c].tick
  <2>1. /\ wpc[c] = "wait" /\ wpc'[c] = "push"
        /\ UNCHANGED <<cur, pending, shown, cut>>
    BY <1>5 DEF Fire
  <2>2. Fired(c) = pending[c] /\ Fired(c)' = Append(pending[c], t)
    BY <2>1 DEF Fired
  <2>3. \A i \in 1..Len(pending[c]) : pending[c][i] < t
    BY <2>1 DEF OrderInv
  <2>4. \/ frames'[c] = Append(frames[c], t) /\ lost'[c] = lost[c]
        \/ frames'[c] = frames[c] /\ lost'[c] = lost[c] + 1
    BY <1>5 DEF Fire
  <2>5. Exposes(c, t) /\ t \in Nat
    BY <2>1, <2>2, <2>3, <2>4 DEF Exposes
  <2> QED BY <2>1, <2>5
<1>6. CASE PushMeta(c)
  <2>1. /\ wpc[c] = "push" /\ wpc'[c] = "recv"
        /\ UNCHANGED <<frames, shown, lost>>
    BY <1>6 DEF PushMeta
  <2>2. ~(Len(pending[c]) >= PendingMax)
    BY <1>6 DEF PushMeta
  <2>3. pending'[c] = Append(pending[c], cur[c].tick) /\ cut'[c] = cut[c]
    BY <1>6, <2>2 DEF PushMeta
  <2>4. Fired(c) = Append(pending[c], cur[c].tick) /\ Fired(c)' = pending'[c]
    BY <2>1 DEF Fired
  <2> QED BY <2>1, <2>3, <2>4 DEF Keeps
<1>7. CASE LabelFrame(c)
  <2>1. /\ pending[c] # <<>> /\ frames[c] # <<>>
        /\ pending'[c] = Tail(pending[c]) /\ frames'[c] = Tail(frames[c])
        /\ shown'[c] = [label |-> Head(pending[c]), taken |-> Head(frames[c])]
        /\ UNCHANGED <<wpc, cur, lost, cut>>
    BY <1>7 DEF LabelFrame
  <2>2. /\ Fired(c) # <<>> /\ Fired(c)' = Tail(Fired(c))
        /\ Head(Fired(c)) = Head(pending[c])
    <3>1. CASE wpc[c] = "push"
      <4>1. Fired(c) = Append(pending[c], cur[c].tick)
            /\ Fired(c)' = Append(Tail(pending[c]), cur[c].tick)
        BY <2>1, <3>1 DEF Fired
      <4>2. pending[c] \in Seq(Nat) /\ cur[c].tick \in Nat
        OBVIOUS
      <4> QED BY <2>1, <4>1, <4>2, HeadAndTail, ZenonT(40)
    <3>2. CASE wpc[c] # "push"
      BY <2>1, <3>2 DEF Fired
    <3> QED BY <3>1, <3>2
  <2> QED BY <2>1, <2>2 DEF Labels
<1>8. CASE SkipOrphan(c)
  <2>1. /\ pending[c] = <<>> /\ frames[c] # <<>>
        /\ frames'[c] = Tail(frames[c]) /\ lost'[c] = lost[c] + 1
        /\ UNCHANGED <<wpc, cur, pending, shown, cut>>
    BY <1>8 DEF SkipOrphan
  <2>2. Fired(c)' = Fired(c) /\ Fired(c) \in {<<>>, Append(<<>>, cur[c].tick)}
    BY <2>1 DEF Fired
  <2>3. Len(Fired(c)) <= 1
    <3>1. <<>> \in Seq(Nat) /\ Len(<<>>) = 0
      OBVIOUS
    <3>2. Len(Append(<<>>, cur[c].tick)) = 1
      BY <3>1, Appended
    <3>3. CASE Fired(c) = <<>>
      BY <3>1, <3>3
    <3>4. CASE Fired(c) = Append(<<>>, cur[c].tick)
      BY <3>2, <3>4
    <3> QED BY <2>2, <3>3, <3>4
  <2> QED BY <2>1, <2>2, <2>3 DEF Orphans
<1> QED BY <1>1, <1>2, <1>3, <1>4, <1>5, <1>6, <1>7, <1>8, OneWorker
        DEF Worker, TriggerThread, ReadThread

\* A trigger: its label is appended, and its frame too unless it is missed.
LEMMA MatchedExposed ==
  ASSUME NEW q \in Seq(Nat), NEW f \in Seq(Nat), NEW t \in Nat,
         Matched(q, f), \A i \in 1..Len(q) : q[i] < t
  PROVE  /\ Matched(Append(q, t), Append(f, t))
         /\ Matched(Append(q, t), f)
         /\ Behind(q, f, 1) => Behind(Append(q, t), Append(f, t), 1)
         /\ Behind(q, f, 1) => Behind(Append(q, t), f, 1)
<1> DEFINE r == Append(q, t)
           g == Append(f, t)
<1>1. /\ Len(r) = Len(q) + 1 /\ Len(g) = Len(f) + 1 /\ Len(q) \in Nat /\ Len(f) \in Nat
      /\ \A i \in 1..Len(q) : r[i] = q[i] /\ q[i] \in Nat
      /\ \A i \in 1..Len(f) : g[i] = f[i] /\ f[i] \in Nat
      /\ r[Len(q) + 1] = t /\ g[Len(f) + 1] = t
  BY Appended
<1>2. Len(f) <= Len(q)
  BY DEF Matched
<1> HIDE DEF r, g
<1>3. \A i \in 1..(Len(f) + 1) : Behind(q, f, i) => Behind(r, g, i) /\ Behind(r, f, i)
  <2> SUFFICES ASSUME NEW i \in 1..(Len(f) + 1), Behind(q, f, i)
               PROVE  Behind(r, g, i) /\ Behind(r, f, i)
    OBVIOUS
  <2>1. Len(f) < Len(q)
    BY DEF Behind
  <2>2. \A j \in i..Len(f) : j \in 1..Len(q) /\ r[j] = q[j] /\ q[j] < f[j]
    BY <1>1, <2>1, SMTT(30) DEF Behind
  <2>3. \A j \in i..Len(g) : r[j] < g[j]
    <3> TAKE j \in i..Len(g)
    <3>1. CASE j \in i..Len(f)
      BY <1>1, <2>2, <3>1
    <3>2. CASE j = Len(f) + 1
      BY <1>1, <2>1, <3>2
    <3> QED BY <1>1, <3>1, <3>2
  <2> QED BY <1>1, <2>1, <2>2, <2>3 DEF Behind
<1>4. \A i \in 1..Len(f) : r[i] = q[i] /\ q[i] <= f[i] /\ (q[i] < f[i] => Behind(q, f, i))
  BY <1>1, <1>2 DEF Matched
<1>5. Matched(r, f)
  BY <1>1, <1>2, <1>3, <1>4 DEF Matched
<1>6. Matched(r, g)
  <2>1. ASSUME NEW i \in 1..Len(g)
        PROVE  r[i] <= g[i] /\ (r[i] < g[i] => Behind(r, g, i))
    <3>1. CASE i \in 1..Len(f)
      BY <1>1, <1>3, <1>4, <3>1
    <3>2. CASE i = Len(f) + 1 /\ Len(f) = Len(q)
      <4>1. r[i] = t /\ g[i] = t
        BY <1>1, <3>2
      <4> QED BY <4>1
    <3>3. CASE i = Len(f) + 1 /\ Len(f) < Len(q)
      <4>0. i \in 1..Len(q) /\ g[i] = t /\ r[i] = q[i] /\ q[i] \in Nat
        BY <1>1, <3>3
      <4>1. r[i] < g[i]
        BY <4>0
      <4>2. \A j \in i..Len(g) : j = i
        BY <1>1, <3>3
      <4>3. Behind(r, g, i)
        BY <1>1, <3>3, <4>1, <4>2 DEF Behind
      <4> QED BY <4>0, <4>1, <4>3
    <3> QED BY <1>1, <1>2, <3>1, <3>2, <3>3
  <2> QED BY <1>1, <1>2, <2>1 DEF Matched
<1>7. 1 \in 1..(Len(f) + 1)
  BY <1>1
<1> QED BY <1>3, <1>5, <1>6, <1>7 DEF r, g

\* A frame and a label leave together.
LEMMA MatchedTaken ==
  ASSUME NEW q \in Seq(Nat), NEW f \in Seq(Nat), q # <<>>, f # <<>>, Matched(q, f)
  PROVE  /\ Matched(Tail(q), Tail(f))
         /\ Head(q) <= Head(f)
         /\ Head(q) < Head(f) => Behind(Tail(q), Tail(f), 1)
<1> DEFINE r == Tail(q)
           g == Tail(f)
<1>a. /\ Len(r) = Len(q) - 1 /\ Len(q) \in Nat \ {0}
      /\ Len(g) = Len(f) - 1 /\ Len(f) \in Nat \ {0}
  BY Popped
<1>1. PICK n \in Nat : n = Len(r) /\ Len(q) = n + 1
  <2> HIDE DEF r, g
  <2> WITNESS Len(r) \in Nat
  <2> QED BY <1>a
<1>2. PICK m \in Nat : m = Len(g) /\ Len(f) = m + 1
  <2> HIDE DEF r, g
  <2> WITNESS Len(g) \in Nat
  <2> QED BY <1>a
<1>0. Len(f) <= Len(q)
  BY DEF Matched
<1>3. m <= n /\ Head(q) = q[1] /\ Head(f) = f[1]
  <2>1. m <= n
    BY <1>0, <1>1, <1>2
  <2> QED BY <2>1, Popped
<1>4. \A i \in 1..n : r[i] = q[i + 1]
  BY <1>1, Popped
<1>5. \A i \in 1..m : g[i] = f[i + 1]
  BY <1>2, Popped
<1> HIDE DEF r, g
<1>6. ASSUME NEW i \in 1..(m + 1), NEW k \in {i, i + 1}, Behind(q, f, k)
      PROVE  Behind(r, g, i)
  <2>1. m < n
    BY <1>1, <1>2, <1>6 DEF Behind
  <2>2. ASSUME NEW j \in i..m PROVE r[j] < g[j]
    <3>1. j \in 1..m /\ j \in 1..n /\ j + 1 \in k..(m + 1)
      BY <1>3
    <3>2. q[j + 1] < f[j + 1]
      BY <1>2, <1>6, <3>1 DEF Behind
    <3> QED BY <1>4, <1>5, <3>1, <3>2
  <2> QED BY <1>1, <1>2, <2>1, <2>2 DEF Behind
<1>7. ASSUME NEW i \in 1..m
      PROVE  r[i] <= g[i] /\ (r[i] < g[i] => Behind(r, g, i))
  <2>1. i \in 1..n /\ i + 1 \in 1..(m + 1) /\ i \in 1..(m + 1)
    BY <1>3
  <2>2. q[i + 1] <= f[i + 1] /\ (q[i + 1] < f[i + 1] => Behind(q, f, i + 1))
    BY <1>2, <2>1 DEF Matched
  <2> QED BY <1>4, <1>5, <1>6, <2>1, <2>2
<1>8. Matched(r, g)
  BY <1>1, <1>2, <1>3, <1>7 DEF Matched
<1>9. q[1] <= f[1] /\ (q[1] < f[1] => Behind(q, f, 1))
  BY <1>2 DEF Matched
<1> QED BY <1>3, <1>6, <1>8, <1>9 DEF r, g

LEMMA LabelStep ==
  ASSUME TypeOK, TypeOK', [Next]_vars, NEW c \in Camera, OrderInv(c), LabelInv(c)
  PROVE  LabelInv(c)'
<1> SUFFICES ASSUME cut'[c] = 0 PROVE LabelInv(c)'
  BY DEF LabelInv
<1> DEFINE q == Fired(c)
           f == frames[c]
<1>1. cut[c] = 0 /\ (wpc[c] = "dead" => wpc'[c] = "dead")
  BY Moves
<1>2. /\ q \in Seq(Nat) /\ f \in Seq(Nat) /\ lost[c] \in Nat
      /\ shown[c].label \in Int /\ shown[c].taken \in Int
  BY FiredType, CameraTypes
<1>3. /\ Matched(q, f) /\ shown[c].label <= shown[c].taken
      /\ lost[c] = 0 => q = f /\ shown[c].label = shown[c].taken
      /\ shown[c].label < shown[c].taken /\ wpc[c] # "dead" => Behind(q, f, 1)
  BY <1>1 DEF LabelInv
<1> HIDE DEF q, f
<1> DEFINE Goal(p, g) ==
      /\ Matched(p, g) /\ shown'[c].label <= shown'[c].taken
      /\ lost'[c] = 0 => p = g /\ shown'[c].label = shown'[c].taken
      /\ shown'[c].label < shown'[c].taken /\ wpc'[c] # "dead" => Behind(p, g, 1)
<1>4. \E p, g : p = Fired(c)' /\ g = frames'[c] /\ Goal(p, g)
  <2>1. CASE Keeps(c)
    BY <1>1, <1>2, <1>3, <2>1 DEF Keeps, q, f
  <2>2. ASSUME NEW t \in Nat, Exposes(c, t) PROVE Goal(Fired(c)', frames'[c])
    <3>1. /\ \A i \in 1..Len(q) : q[i] < t
          /\ Fired(c)' = Append(q, t) /\ shown'[c] = shown[c]
      BY <2>2 DEF Exposes, q
    <3>2. CASE frames'[c] = Append(f, t) /\ lost'[c] = lost[c]
      BY <1>1, <1>2, <1>3, <3>1, <3>2, MatchedExposed
    <3>3. CASE frames'[c] = f /\ lost'[c] = lost[c] + 1
      BY <1>1, <1>2, <1>3, <3>1, <3>3, MatchedExposed
    <3> QED BY <2>2, <3>2, <3>3 DEF Exposes, f
  <2>3. CASE Labels(c)
    <3>1. /\ q # <<>> /\ f # <<>> /\ lost'[c] = lost[c]
          /\ Fired(c)' = Tail(q) /\ frames'[c] = Tail(f)
          /\ shown'[c].label = Head(q) /\ shown'[c].taken = Head(f)
      BY <2>3 DEF Labels, q, f
    <3>2. /\ Matched(Tail(q), Tail(f)) /\ Head(q) <= Head(f)
          /\ Head(q) < Head(f) => Behind(Tail(q), Tail(f), 1)
      BY <1>2, <1>3, <3>1, MatchedTaken
    <3> QED BY <1>3, <3>1, <3>2
  <2>4. CASE Orphans(c)
    <3>1. /\ f # <<>> /\ Len(q) <= 1 /\ Fired(c)' = q /\ frames'[c] = Tail(f)
          /\ shown'[c] = shown[c] /\ lost'[c] = lost[c] + 1
      BY <2>4 DEF Orphans, q, f
    <3>2. Len(q) = 1 /\ Len(Tail(f)) = 0
      <4>1. Len(Tail(f)) = Len(f) - 1 /\ Len(f) \in Nat \ {0}
        BY <1>2, <3>1, Popped
      <4>2. Len(f) <= Len(q) /\ Len(q) \in Nat /\ Len(q) <= 1
        BY <1>2, <1>3, <3>1 DEF Matched
      <4>3. PICK m \in Nat, n \in Nat : m = Len(f) /\ n = Len(q) /\ m # 0
        BY <4>1, <4>2
      <4>4. m = 1 /\ n = 1
        BY <4>2, <4>3
      <4> QED BY <4>1, <4>3, <4>4
    <3>3. Matched(q, Tail(f)) /\ Behind(q, Tail(f), 1)
      <4>1. \A i \in 1..Len(Tail(f)) : FALSE
        <5>1. \A i \in 1..0 : FALSE
          OBVIOUS
        <5> QED BY <3>2, <5>1
      <4>2. Len(Tail(f)) < Len(q) /\ Len(Tail(f)) <= Len(q)
        BY <3>2
      <4> QED BY <4>1, <4>2 DEF Matched, Behind
    <3>4. lost'[c] # 0
      BY <1>2, <3>1
    <3> QED BY <1>2, <1>3, <3>1, <3>3, <3>4
  <2>5. CASE Empties(c)
    <3>1. Matched(<<>>, <<>>)
      BY DEF Matched
    <3> QED BY <1>3, <2>5, <3>1 DEF Empties
  <2> QED BY <2>1, <2>2, <2>3, <2>4, <2>5, Moves
<1> QED BY <1>4 DEF LabelInv

LabelsMatched == \A c \in Camera : LabelInv(c)

\* LabelInv of every worker, in every behaviour.
THEOREM ChainMatched == Spec => []LabelsMatched
<1>1. ASSUME Init, NEW c \in Camera PROVE LabelInv(c)
  <2>1. /\ pending[c] = <<>> /\ frames[c] = <<>> /\ wpc[c] = "none"
        /\ shown[c].label = -1 /\ shown[c].taken = -1
    BY <1>1 DEF Init, WorkersInit, NeverShown
  <2>2. Matched(<<>>, <<>>)
    BY DEF Matched
  <2> QED BY <2>1, <2>2 DEF LabelInv, Fired
<1>2. Init => LabelsMatched
  BY <1>1 DEF LabelsMatched
<1>3. TypeOK /\ TypeOK' /\ Ordered /\ LabelsMatched /\ [Next]_vars => LabelsMatched'
  BY LabelStep DEF Ordered, LabelsMatched
<1> QED BY <1>2, <1>3, ChainTypes, ChainOrdered, PTL DEF Spec

\* A frame carries the tick it was taken at until its worker misses one, and
\* a tick too old, never too new, after that (LabelRight).
THEOREM ChainLabelRight == Spec => []LabelRight
<1>1. LabelsMatched => LabelRight
  BY DEF LabelsMatched, LabelInv, LabelRight
<1> QED BY <1>1, ChainMatched, PTL

\* A worker that is behind stays behind (LagNeverHeals).
THEOREM ChainLagNeverHeals == Spec => LagNeverHeals
<1> DEFINE StaysBehind ==
      \A c \in Camera :
        /\ shown'[c] # shown[c] /\ cut[c] = 0
        /\ shown[c].label < shown[c].taken
        => shown'[c].label < shown'[c].taken
<1>1. TypeOK /\ Ordered /\ LabelsMatched /\ [Next]_vars => [StaysBehind]_vars
  <2> SUFFICES ASSUME TypeOK, Ordered, LabelsMatched, [Next]_vars, NEW c \in Camera,
                      shown'[c] # shown[c], cut[c] = 0, shown[c].label < shown[c].taken
               PROVE  shown'[c].label < shown'[c].taken
    OBVIOUS
  <2>1. LabelFrame(c)
    <3>1. Worker(c) \/ Untouched(c)
      BY OneWorker
    <3> QED BY <3>1, CameraTypes
            DEF Untouched, Worker, TriggerThread, ReadThread, Bind, OpenSource, WorkerDies,
                Receive, Fire, PushMeta, SkipOrphan
  <2>2. cut'[c] = 0 /\ wpc[c] # "dead" /\ OrderInv(c)
    BY <2>1 DEF LabelFrame, Ordered, OrderInv
  <2>3. Behind(Fired(c), frames[c], 1)
    BY <2>2 DEF LabelsMatched, LabelInv
  <2>4. /\ frames[c] # <<>> /\ pending[c] # <<>>
        /\ shown'[c].label = Head(pending[c]) /\ shown'[c].taken = Head(frames[c])
    BY <2>1, CameraTypes DEF LabelFrame
  <2>5. Head(Fired(c)) = Head(pending[c]) /\ Fired(c) # <<>>
    <3>1. CASE wpc[c] = "push"
      BY <2>4, <3>1, CameraTypes, HeadAndTail DEF Fired
    <3>2. CASE wpc[c] # "push"
      BY <2>4, <3>2 DEF Fired
    <3> QED BY <3>1, <3>2
  <2>6. /\ Head(Fired(c)) = Fired(c)[1] /\ Head(frames[c]) = frames[c][1]
        /\ 1 \in 1..Len(frames[c])
    BY <2>4, <2>5, FiredType, CameraTypes, Popped
  <2> QED BY <2>3, <2>4, <2>5, <2>6 DEF Behind
<1> QED BY <1>1, ChainTypes, ChainOrdered, ChainMatched, PTL DEF Spec, LagNeverHeals
=============================================================================
