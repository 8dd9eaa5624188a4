----------------------- MODULE GameEventBridge_Proofs -----------------------
(***************************************************************************)
(* Proofs about GameEventBridge for every value of its constants: any      *)
(* events, any time to live, any number of faults and restarts.            *)
(***************************************************************************)
EXTENDS GameEventBridge, TLAPS

-----------------------------------------------------------------------------
(* Type correctness, one group of variables at a time.                     *)

LEMMA ParameterTypes ==
  /\ Backoff \in Nat /\ TtlArg \in Nat /\ Second \in Nat /\ Ttl \in Nat
  /\ MaxLines \in Nat /\ MaxLines > 0
  /\ ReadExisting \in BOOLEAN /\ HitSource \in SourceMode
BY BridgeAssumption DEF Ttl

LEMMA BridgeTypeInit == Init => TypeOK
<1> SUFFICES ASSUME Init PROVE TypeOK
  OBVIOUS
<1>1. FilesOK
  <2>1. file \in Seq(Event) /\ batch \subseteq DOMAIN file BY DEF Init
  <2> QED BY <2>1 DEF Init, FilesOK
<1>2. PeerOK
  <2>1. inbox \in Seq(Nat) /\ sock \in {"none", "live", "stale"} BY DEF Init
  <2>2. faults \in Nat /\ retryAt \in Nat BY DEF Init
  <2>3. peerUp \in BOOLEAN BY DEF Init
  <2> QED BY <2>1, <2>2, <2>3 DEF PeerOK
<1>3. LoopOK
  <2>1. control \in [mtime : Nat, mode : SourceMode \cup {"silent", "unreadable"}]
    BY DEF Init
  <2> QED BY <2>1, ParameterTypes DEF Init, LoopOK
<1>4. HitsOK
  <2>1. seen \in [Key -> Nat \cup {Never}] BY DEF Init
  <2> QED BY <2>1 DEF Init, HitsOK
<1> QED BY <1>1, <1>2, <1>3, <1>4 DEF TypeOK

\* The unchanged-groups of the actions, expanded.
LEMMA FilesFrame ==
  ASSUME FilesOK, UNCHANGED <<exists, file, size, started, off, batch>> PROVE FilesOK'
BY DEF FilesOK

LEMMA PeerFrame ==
  ASSUME PeerOK, UNCHANGED <<peerUp, faults, inbox, sock, retryAt>> PROVE PeerOK'
BY DEF PeerOK

LEMMA LoopFrame ==
  ASSUME LoopOK, UNCHANGED <<control, hitMode, controlSeen, mode, sent, pc>> PROVE LoopOK'
BY DEF LoopOK

LEMMA HitsFrame ==
  ASSUME HitsOK, UNCHANGED <<now, epoch, seen, log>> PROVE HitsOK'
BY DEF HitsOK

LEMMA ClientSendType ==
  ASSUME PeerOK, now \in Nat, NEW ok, NEW arrived, ClientSend(ok, arrived)
  PROVE  /\ sock' \in {"none", "live", "stale"}
         /\ retryAt' \in Nat /\ faults' \in Nat
BY ParameterTypes
   DEF PeerOK, ClientSend, NoConnection, SendBreaks, SendArrives, SendVanishes, sockVars

LEMMA ReadRange ==
  ASSUME FilesOK
  PROVE  LET from == ReadFrom(started, ReadExisting, off, size)
             to   == ReadTo(from, size, MaxLines)
         IN  /\ from \in 0..size /\ to \in from..size
             /\ WholeLines(file, from, to) \subseteq DOMAIN file
             /\ \A i \in WholeLines(file, from, to) :
                   i \in Nat \ {0} /\ from <= 3 * (i - 1) /\ 3 * i - 1 <= to
<1> DEFINE from == ReadFrom(started, ReadExisting, off, size)
           to   == ReadTo(from, size, MaxLines)
<1>1. from \in 0..size
  BY DEF FilesOK, ReadFrom
<1>2. to \in from..size
  <2>1. from \in Nat /\ size \in Nat /\ from <= size
    BY <1>1 DEF FilesOK
  <2> HIDE DEF from
  <2>2. LineEnd(LineAt(from) + MaxLines - 1) \in Nat
        /\ from <= LineEnd(LineAt(from) + MaxLines - 1)
    BY <2>1, ParameterTypes DEF LineEnd, LineAt, Parts
  <2> QED BY <2>1, <2>2 DEF ReadTo
<1>3. file \in Seq(Event)
  BY DEF FilesOK
<1> HIDE DEF from, to
<1>4. WholeLines(file, from, to) \subseteq DOMAIN file
  BY DEF WholeLines
<1>5. \A i \in WholeLines(file, from, to) :
        i \in Nat \ {0} /\ from <= 3 * (i - 1) /\ 3 * i - 1 <= to
  BY <1>3 DEF WholeLines, LineStart, LineEnd, Parts
<1> QED BY <1>1, <1>2, <1>4, <1>5 DEF from, to

LEMMA FilesStep == TypeOK /\ [Next]_vars => FilesOK'
<1> SUFFICES ASSUME TypeOK, [Next]_vars PROVE FilesOK'
  OBVIOUS
<1>0. FilesOK
  BY DEF TypeOK
<1> USE <1>0 DEF fileVars, tailVars, world, bridgeVars
<1>1. CASE CreateEvents
  BY <1>1 DEF CreateEvents, FilesOK
<1>2. ASSUME NEW e \in Event, AppendEvent(e) PROVE FilesOK'
  <2>1. file' \in Seq(Event) /\ DOMAIN file \subseteq DOMAIN file'
    BY <1>2 DEF AppendEvent, FilesOK
  <2>2. size' \in Nat
    BY <1>2 DEF AppendEvent, FilesOK, Parts
  <2> QED BY <1>2, <2>1, <2>2 DEF AppendEvent, FilesOK
<1>3. CASE FlushEvent
  <2>1. Len(file) \in Nat
    BY DEF FilesOK
  <2>2. size' \in Nat
    BY <1>3, <2>1 DEF FlushEvent, LineEnd, Parts
  <2> QED BY <1>3, <2>2 DEF FlushEvent, FilesOK
<1>4. CASE Restart
  BY <1>4 DEF Restart, FilesOK
<1>5. CASE ReadEvents
  <2>1. CASE exists
    BY <1>5, <2>1, ReadRange DEF ReadEvents, FilesOK
  <2>2. CASE ~exists
    BY <1>5, <2>2 DEF ReadEvents, FilesOK
  <2> QED BY <2>1, <2>2
<1>6. ASSUME NEW i \in batch, HandleEvent(i) PROVE FilesOK'
  <2>1. UNCHANGED <<fileVars, started, off>> /\ batch' = batch \ {i}
    BY <1>6 DEF HandleEvent, SkipEvent, DropDuplicate, TakeHit
  <2> QED BY <2>1 DEF FilesOK
<1>7. ASSUME UNCHANGED <<fileVars, tailVars>> PROVE FilesOK'
  BY <1>7, FilesFrame
<1>8. ASSUME NEW m, WriteControl(m) PROVE FilesOK'
  BY <1>7, <1>8 DEF WriteControl
<1>9. CASE PeerDown \/ PeerUp \/ Tick
  BY <1>7, <1>9 DEF PeerDown, PeerUp, Tick
<1>10. CASE PollControl \/ Presence \/ SendHit \/ ShadowHit \/ LogHit \/ FinishPoll
  BY <1>7, <1>10 DEF PollControl, Presence, SendHit, ShadowHit, LogHit, FinishPoll
<1>11. CASE UNCHANGED vars
  BY <1>7, <1>11 DEF vars
<1> QED
  BY <1>1, <1>2, <1>3, <1>4, <1>5, <1>6, <1>8, <1>9, <1>10, <1>11
     DEF Next, Environment, Bridge

LEMMA PeerStep == TypeOK /\ [Next]_vars => PeerOK'
<1> SUFFICES ASSUME TypeOK, [Next]_vars PROVE PeerOK'
  OBVIOUS
<1>0. PeerOK /\ now \in Nat /\ Len(log) \in Nat
  BY DEF TypeOK, HitsOK
<1> USE <1>0 DEF peerVars, sockVars, world, bridgeVars
<1>1. CASE PeerDown
  <2>1. faults' \in Nat /\ peerUp' = FALSE /\ UNCHANGED <<inbox, retryAt>>
    BY <1>1 DEF PeerDown, PeerOK
  <2>2. sock' \in {"none", "live", "stale"}
    BY <1>1 DEF PeerDown, PeerOK
  <2> QED BY <2>1, <2>2 DEF PeerOK
<1>2. CASE PeerUp
  BY <1>2 DEF PeerUp, PeerOK
<1>3. CASE Restart
  BY <1>3 DEF Restart, PeerOK
<1>4. CASE Presence
  <2>1. UNCHANGED <<peerUp, inbox>>
    BY <1>4 DEF Presence
  <2>2. sock' \in {"none", "live", "stale"} /\ retryAt' \in Nat /\ faults' \in Nat
    <3>1. CASE UNCHANGED <<sockVars, faults>>
      BY <3>1 DEF PeerOK
    <3>2. ASSUME NEW ok \in BOOLEAN, NEW arrived \in BOOLEAN, ClientSend(ok, arrived)
          PROVE  sock' \in {"none", "live", "stale"} /\ retryAt' \in Nat /\ faults' \in Nat
      BY <3>2, ClientSendType
    <3> QED BY <1>4, <3>1, <3>2 DEF Presence
  <2> QED BY <2>1, <2>2 DEF PeerOK
<1>5. CASE SendHit
  <2>1. PICK ok \in BOOLEAN, arrived \in BOOLEAN :
          /\ ClientSend(ok, arrived)
          /\ inbox' = IF arrived THEN Append(inbox, Len(log)) ELSE inbox
    BY <1>5 DEF SendHit
  <2>2. inbox' \in Seq(Nat)
    BY <2>1 DEF PeerOK
  <2>3. sock' \in {"none", "live", "stale"} /\ retryAt' \in Nat /\ faults' \in Nat
    BY <2>1, ClientSendType
  <2>4. peerUp' = peerUp
    BY <1>5 DEF SendHit
  <2> QED BY <2>2, <2>3, <2>4 DEF PeerOK
<1>6. ASSUME UNCHANGED <<peerVars, inbox, sockVars>> PROVE PeerOK'
  BY <1>6, PeerFrame
<1>7. ASSUME NEW m, WriteControl(m) PROVE PeerOK'
  BY <1>6, <1>7 DEF WriteControl
<1>8. ASSUME NEW e, AppendEvent(e) PROVE PeerOK'
  BY <1>6, <1>8 DEF AppendEvent
<1>9. CASE CreateEvents \/ FlushEvent \/ Tick
  BY <1>6, <1>9 DEF CreateEvents, FlushEvent, Tick
<1>10. CASE PollControl \/ ReadEvents \/ ShadowHit \/ LogHit \/ FinishPoll
  BY <1>6, <1>10 DEF PollControl, ReadEvents, ShadowHit, LogHit, FinishPoll
<1>11. ASSUME NEW i, HandleEvent(i) PROVE PeerOK'
  BY <1>6, <1>11 DEF HandleEvent, SkipEvent, DropDuplicate, TakeHit
<1>12. CASE UNCHANGED vars
  BY <1>6, <1>12 DEF vars
<1> QED
  BY <1>1, <1>2, <1>3, <1>4, <1>5, <1>7, <1>8, <1>9, <1>10, <1>11, <1>12
     DEF Next, Environment, Bridge

LEMMA LoopStep == TypeOK /\ [Next]_vars => LoopOK'
<1> SUFFICES ASSUME TypeOK, [Next]_vars PROVE LoopOK'
  OBVIOUS
<1>0. LoopOK
  BY DEF TypeOK
<1> USE <1>0 DEF ctlVars, runVars, world, bridgeVars
<1>1. ASSUME NEW m \in SourceMode \cup {"silent", "unreadable"}, WriteControl(m)
      PROVE  LoopOK'
  <2>1. control' \in [mtime : Nat, mode : SourceMode \cup {"silent", "unreadable"}]
    BY <1>1 DEF WriteControl, LoopOK
  <2> QED BY <1>1, <2>1 DEF WriteControl, LoopOK
<1>2. CASE Restart
  BY <1>2, ParameterTypes DEF Restart, LoopOK
<1>3. CASE PollControl
  <2>1. hitMode' \in SourceMode /\ controlSeen' \in Nat
    BY <1>3 DEF PollControl, LoopOK
  <2> QED BY <1>3, <2>1 DEF PollControl, LoopOK
<1>4. ASSUME UNCHANGED <<control, ctlVars, mode>>, sent' \in BOOLEAN,
             pc' \in {"poll", "presence", "read", "events", "send", "log"}
      PROVE  LoopOK'
  BY <1>4 DEF LoopOK
<1>5. ASSUME UNCHANGED <<control, ctlVars, mode, sent, pc>> PROVE LoopOK'
  BY <1>5 DEF LoopOK
<1>6. CASE Presence \/ ReadEvents \/ ShadowHit \/ LogHit \/ FinishPoll
  BY <1>4, <1>6 DEF Presence, ReadEvents, ShadowHit, LogHit, FinishPoll, LoopOK
<1>7. CASE SendHit
  BY <1>4, <1>7 DEF SendHit
<1>8. ASSUME NEW i, TakeHit(i) PROVE LoopOK'
  BY <1>4, <1>8 DEF TakeHit, LoopOK
<1>9. ASSUME NEW i, SkipEvent(i) \/ DropDuplicate(i) PROVE LoopOK'
  BY <1>5, <1>9 DEF SkipEvent, DropDuplicate
<1>10. ASSUME NEW e, AppendEvent(e) PROVE LoopOK'
  BY <1>5, <1>10 DEF AppendEvent
<1>11. CASE CreateEvents \/ FlushEvent \/ PeerDown \/ PeerUp \/ Tick
  BY <1>5, <1>11 DEF CreateEvents, FlushEvent, PeerDown, PeerUp, Tick
<1>12. CASE UNCHANGED vars
  BY <1>5, <1>12 DEF vars
<1> QED
  BY <1>1, <1>2, <1>3, <1>6, <1>7, <1>8, <1>9, <1>10, <1>11, <1>12
     DEF Next, Environment, Bridge, HandleEvent

LEMMA HitsStep == TypeOK /\ [Next]_vars => HitsOK'
<1> SUFFICES ASSUME TypeOK, [Next]_vars PROVE HitsOK'
  OBVIOUS
<1>0. HitsOK
  BY DEF TypeOK
<1> USE <1>0 DEF hitVars, runVars, world, bridgeVars
<1>1. CASE Tick
  BY <1>1 DEF Tick, HitsOK
<1>2. CASE Restart
  <2>1. seen' \in [Key -> Nat \cup {Never}]
    BY <1>2 DEF Restart
  <2> QED BY <1>2, <2>1 DEF Restart, HitsOK
<1>3. ASSUME NEW i \in batch, DropDuplicate(i) PROVE HitsOK'
  <2>1. seen' \in [Key -> Nat \cup {Never}]
    BY <1>3 DEF DropDuplicate, HitsOK
  <2> QED BY <1>3, <2>1 DEF DropDuplicate, HitsOK
<1>4. ASSUME NEW i \in batch, TakeHit(i) PROVE HitsOK'
  <2>1. seen' \in [Key -> Nat \cup {Never}]
    BY <1>4 DEF TakeHit, HitsOK
  <2>2. i \in Nat \ {0} /\ file[i] \in Event
    BY <1>4 DEF TypeOK, FilesOK
  <2>3. KeyOf(file[i]) \in Key
    BY <2>2 DEF Key
  <2>4. log' \in Seq(Entry)
    BY <1>4, <2>2, <2>3 DEF TakeHit, HitsOK, Entry, Result
  <2> QED BY <1>4, <2>1, <2>4 DEF TakeHit, HitsOK
<1>5. CASE LogHit
  <2>1. PICK r \in Result : log' = [log EXCEPT ![Len(log)].res = r]
    BY <1>5 DEF LogHit, Result
  <2>2. log \in Seq(Entry)
    BY DEF HitsOK
  <2>3. ASSUME NEW n \in 1..Len(log) PROVE log'[n] \in Entry
    <3>1. log[n] \in Entry
      BY <2>2
    <3>2. [log[n] EXCEPT !.res = r] \in Entry
      BY <3>1 DEF Entry
    <3>3. log'[n] = log[n] \/ log'[n] = [log[n] EXCEPT !.res = r]
      BY <2>1, <2>2
    <3> QED BY <3>1, <3>2, <3>3
  <2>4. Len(log) \in Nat /\ DOMAIN log = 1..Len(log)
    BY <2>2
  <2>5. log' = [n \in 1..Len(log) |-> log'[n]]
    BY <2>1, <2>4
  <2>6. log' \in Seq(Entry)
    BY <2>3, <2>4, <2>5
  <2> QED BY <1>5, <2>6 DEF LogHit, HitsOK
<1>6. ASSUME UNCHANGED <<now, epoch, hitVars>> PROVE HitsOK'
  BY <1>6, HitsFrame
<1>7. ASSUME NEW m, WriteControl(m) PROVE HitsOK'
  BY <1>6, <1>7 DEF WriteControl
<1>8. ASSUME NEW e, AppendEvent(e) PROVE HitsOK'
  BY <1>6, <1>8 DEF AppendEvent
<1>9. CASE CreateEvents \/ FlushEvent \/ PeerDown \/ PeerUp
  BY <1>6, <1>9 DEF CreateEvents, FlushEvent, PeerDown, PeerUp
<1>10. CASE PollControl \/ Presence \/ ReadEvents \/ SendHit \/ ShadowHit \/ FinishPoll
  BY <1>6, <1>10 DEF PollControl, Presence, ReadEvents, SendHit, ShadowHit, FinishPoll
<1>11. ASSUME NEW i, SkipEvent(i) PROVE HitsOK'
  BY <1>6, <1>11 DEF SkipEvent
<1>12. CASE UNCHANGED vars
  BY <1>6, <1>12 DEF vars
<1> QED
  BY <1>1, <1>2, <1>3, <1>4, <1>5, <1>7, <1>8, <1>9, <1>10, <1>11, <1>12
     DEF Next, Environment, Bridge, HandleEvent

LEMMA BridgeTypeStep == TypeOK /\ [Next]_vars => TypeOK'
BY FilesStep, PeerStep, LoopStep, HitsStep DEF TypeOK

\* The types of GameEventBridge hold in every reachable state.
THEOREM BridgeTypes == Spec => []TypeOK
BY BridgeTypeInit, BridgeTypeStep, PTL DEF Spec

-----------------------------------------------------------------------------
(* The duplicate filter.                                                   *)

\* Of the tries of this incarnation the filter remembers the last of each
\* key, or the time to live of all of them is over.
FilterInv ==
  \A n \in DOMAIN log :
    /\ log[n].at <= now /\ log[n].epoch <= epoch
    /\ log[n].epoch = epoch =>
         IF seen[log[n].key] = Never THEN now - log[n].at > Ttl
                                     ELSE seen[log[n].key] >= log[n].at

\* What identifies a try, whatever became of it.
Id(e) == [line |-> e.line, key |-> e.key, at |-> e.at, epoch |-> e.epoch]

\* Only TakeHit adds to the log, and no step changes what identifies an entry.
LEMMA LogKept ==
  ASSUME TypeOK, [Next]_vars, ~(\E i \in batch : TakeHit(i))
  PROVE  /\ DOMAIN log' = DOMAIN log
         /\ \A n \in DOMAIN log : Id(log'[n]) = Id(log[n])
<1> USE DEF hitVars, world, bridgeVars
<1>1. CASE LogHit
  <2>1. PICK r : log' = [log EXCEPT ![Len(log)].res = r]
    BY <1>1 DEF LogHit
  <2>2. log \in Seq(Entry)
    BY DEF TypeOK, HitsOK
  <2>3. DOMAIN log' = DOMAIN log
    BY <2>1
  <2>4. ASSUME NEW n \in DOMAIN log PROVE Id(log'[n]) = Id(log[n])
    <3>1. log[n] \in Entry
      BY <2>2
    <3>2. log'[n] = log[n] \/ log'[n] = [log[n] EXCEPT !.res = r]
      BY <2>1
    <3> QED BY <3>1, <3>2 DEF Id, Entry
  <2> QED BY <2>3, <2>4
<1>2. CASE log' = log
  BY <1>2
<1>3. ASSUME ~LogHit PROVE log' = log
  <2>1. CASE UNCHANGED vars
    BY <2>1 DEF vars
  <2>2. CASE Environment
    BY <2>2 DEF Environment, CreateEvents, AppendEvent, FlushEvent, WriteControl,
       PeerDown, PeerUp, Tick, Restart
  <2>3. CASE Bridge
    BY <1>3, <2>3 DEF Bridge, HandleEvent, PollControl, Presence, ReadEvents,
       SkipEvent, DropDuplicate, SendHit, ShadowHit, FinishPoll
  <2> QED BY <2>1, <2>2, <2>3 DEF Next
<1> QED BY <1>1, <1>2, <1>3

\* What TakeHit adds, and that its key is not one the filter still holds.
LEMMA TakeHitAdds ==
  ASSUME TypeOK, NEW i \in batch, TakeHit(i)
  PROVE  /\ log' = Append(log, [line |-> i, key |-> KeyOf(file[i]), at |-> now,
                                epoch |-> epoch, res |-> "pending"])
         /\ now' = now /\ epoch' = epoch
         /\ DOMAIN log' = 1..(Len(log) + 1)
         /\ DOMAIN log' = DOMAIN log \cup {Len(log) + 1} /\ Len(log) + 1 \notin DOMAIN log
         /\ \A n \in DOMAIN log : log'[n] = log[n]
         /\ Id(log'[Len(log) + 1]) = [line |-> i, key |-> KeyOf(file[i]), at |-> now, epoch |-> epoch]
<1>1. log \in Seq(Entry) /\ Len(log) \in Nat /\ DOMAIN log = 1..Len(log)
  BY DEF TypeOK, HitsOK
<1>2. log' = Append(log, [line |-> i, key |-> KeyOf(file[i]), at |-> now,
                          epoch |-> epoch, res |-> "pending"])
      /\ now' = now /\ epoch' = epoch
  BY DEF TakeHit, world, runVars
<1>3. DOMAIN log' = 1..(Len(log) + 1) /\ (\A n \in DOMAIN log : log'[n] = log[n])
      /\ log'[Len(log) + 1] = [line |-> i, key |-> KeyOf(file[i]), at |-> now,
                               epoch |-> epoch, res |-> "pending"]
  BY <1>1, <1>2
<1> QED BY <1>1, <1>2, <1>3 DEF Id

LEMMA FilterFresh ==
  ASSUME TypeOK, FilterInv, NEW i \in batch, TakeHit(i),
         NEW n \in DOMAIN log, log[n].key = KeyOf(file[i]), log[n].epoch = epoch
  PROVE  now - log[n].at > Ttl
<1>1. log[n] \in Entry /\ now \in Nat /\ Ttl \in Nat /\ seen \in [Key -> Nat \cup {Never}]
  BY ParameterTypes DEF TypeOK, HitsOK
<1>2. seen[log[n].key] = Never \/ now - seen[log[n].key] > Ttl
  BY <1>1 DEF TakeHit, Remembered, PurgeSet, Expired, Entry
<1> QED BY <1>1, <1>2 DEF FilterInv, Entry, Never

LEMMA FilterStep == TypeOK /\ FilterInv /\ [Next]_vars => FilterInv'
<1> SUFFICES ASSUME TypeOK, FilterInv, [Next]_vars PROVE FilterInv'
  OBVIOUS
<1>0. HitsOK /\ HitsOK' /\ Ttl \in Nat
  BY BridgeTypeStep, ParameterTypes DEF TypeOK
<1>1. ASSUME NEW i \in batch, TakeHit(i) PROVE FilterInv'
  <2>1. PICK X : /\ X \subseteq Expired
                 /\ seen' = [k \in Key |-> IF k = KeyOf(file[i]) THEN now
                                           ELSE IF k \in X THEN Never ELSE seen[k]]
    BY <1>1 DEF TakeHit, PurgeSet
  <2>2. ASSUME NEW n \in DOMAIN log'
        PROVE  /\ log'[n].at <= now' /\ log'[n].epoch <= epoch'
               /\ log'[n].epoch = epoch' =>
                    IF seen'[log'[n].key] = Never THEN now' - log'[n].at > Ttl
                                                  ELSE seen'[log'[n].key] >= log'[n].at
    <3>1. CASE n = Len(log) + 1
      <4>1. log'[n] \in Entry
        BY <1>0, <2>2 DEF HitsOK
      <4>2. log'[n].key = KeyOf(file[i]) /\ log'[n].at = now /\ log'[n].epoch = epoch
        BY <1>1, <3>1, TakeHitAdds DEF Id
      <4>3. log'[n].key \in Key
        BY <4>1 DEF Entry
      <4>4. seen'[log'[n].key] = now
        BY <2>1, <4>2, <4>3
      <4>5. now' = now /\ epoch' = epoch /\ now \in Nat /\ epoch \in Nat
        BY <1>0, <1>1, TakeHitAdds DEF HitsOK
      <4> QED BY <4>2, <4>4, <4>5 DEF Never
    <3>2. CASE n \in DOMAIN log
      <4>1. log'[n] = log[n] /\ now' = now /\ epoch' = epoch
        BY <1>1, <3>2, TakeHitAdds
      <4>2. log[n] \in Entry
        BY <1>0, <3>2 DEF HitsOK
      <4>3. log[n].key \in Key /\ log[n].at \in Nat /\ now \in Nat
        BY <1>0, <4>2 DEF Entry, HitsOK
      <4>4. seen[log[n].key] \in Nat \cup {Never}
        BY <1>0, <4>3 DEF HitsOK
      <4>5. seen'[log[n].key] = now \/ seen'[log[n].key] = seen[log[n].key]
            \/ (seen'[log[n].key] = Never /\ log[n].key \in Expired)
        BY <2>1, <4>3
      <4>6. log[n].key \in Expired => now - seen[log[n].key] > Ttl /\ seen[log[n].key] # Never
        BY DEF Expired
      <4> QED BY <1>0, <3>2, <4>1, <4>3, <4>4, <4>5, <4>6 DEF FilterInv, Never
    <3> QED BY <1>1, <2>2, <3>1, <3>2, TakeHitAdds
  <2> QED BY <2>2, <1>0 DEF FilterInv, Ttl
<1>2. ASSUME ~(\E i \in batch : TakeHit(i)) PROVE FilterInv'
  <2>1. DOMAIN log' = DOMAIN log /\ (\A n \in DOMAIN log : Id(log'[n]) = Id(log[n]))
    BY <1>2, LogKept
  <2>2. \A n \in DOMAIN log : /\ log'[n].key = log[n].key /\ log'[n].at = log[n].at
                              /\ log'[n].epoch = log[n].epoch
    BY <2>1 DEF Id
  <2>3. ASSUME NEW n \in DOMAIN log
        PROVE  log[n].key \in Key /\ log[n].at \in Nat /\ log[n].epoch \in Nat
    <3>1. log[n] \in Entry
      BY <1>0, <2>3 DEF HitsOK
    <3> QED BY <3>1 DEF Entry
  <2>4. CASE Tick
    <3>1. now' = now + 1 /\ epoch' = epoch /\ seen' = seen
      BY <2>4 DEF Tick, bridgeVars, hitVars, runVars
    <3> QED BY <1>0, <2>1, <2>2, <2>3, <3>1, SMTT(30) DEF FilterInv, HitsOK, Ttl
  <2>5. CASE Restart
    <3>1. now' = now /\ epoch' = epoch + 1
      BY <2>5 DEF Restart, world
    <3> QED BY <1>0, <2>1, <2>2, <2>3, <3>1 DEF FilterInv, HitsOK, Ttl
  <2>6. ASSUME NEW i \in batch, DropDuplicate(i) PROVE FilterInv'
    <3>1. PICK X : /\ X \subseteq Expired
                   /\ seen' = [k \in Key |-> IF k \in X THEN Never ELSE seen[k]]
      BY <2>6 DEF DropDuplicate, PurgeSet
    <3>2. now' = now /\ epoch' = epoch
      BY <2>6 DEF DropDuplicate, world, runVars
    <3>3. ASSUME NEW n \in DOMAIN log
          PROVE  \/ seen'[log[n].key] = seen[log[n].key]
                 \/ /\ seen'[log[n].key] = Never
                    /\ seen[log[n].key] # Never /\ now - seen[log[n].key] > Ttl
                    /\ seen[log[n].key] \in Nat
      BY <1>0, <2>3, <3>1, <3>3 DEF Expired, HitsOK
    <3> QED BY <1>0, <2>1, <2>2, <2>3, <3>2, <3>3 DEF FilterInv, HitsOK, Ttl
  <2>7. ASSUME UNCHANGED <<now, epoch, seen>> PROVE FilterInv'
    BY <2>1, <2>2, <2>7 DEF FilterInv, Ttl
  <2>8. CASE UNCHANGED vars
    BY <2>7, <2>8 DEF vars, world, bridgeVars, hitVars, runVars
  <2>9. ASSUME Environment, ~Tick, ~Restart PROVE FilterInv'
    BY <2>7, <2>9 DEF Environment, CreateEvents, AppendEvent, FlushEvent, WriteControl,
       PeerDown, PeerUp, bridgeVars, hitVars, runVars
  <2>10. ASSUME Bridge, ~(\E i \in batch : DropDuplicate(i)) PROVE FilterInv'
    BY <1>2, <2>7, <2>10 DEF Bridge, HandleEvent, PollControl, Presence, ReadEvents,
       SkipEvent, SendHit, ShadowHit, LogHit, FinishPoll, world, hitVars, runVars
  <2> QED BY <2>4, <2>5, <2>6, <2>8, <2>9, <2>10 DEF Next
<1> QED BY <1>1, <1>2

LEMMA FilterAlways == Spec => [](TypeOK /\ FilterInv)
<1>1. Init => FilterInv
  BY DEF Init, FilterInv
<1>2. TypeOK /\ FilterInv /\ [Next]_vars => (TypeOK /\ FilterInv)'
  BY BridgeTypeStep, FilterStep
<1> QED BY <1>1, <1>2, BridgeTypeInit, PTL DEF Spec

LEMMA NoRepeatStep ==
  TypeOK /\ FilterInv /\ NoRepeatWithinTtl /\ [Next]_vars => NoRepeatWithinTtl'
<1> SUFFICES ASSUME TypeOK, FilterInv, NoRepeatWithinTtl, [Next]_vars
             PROVE  NoRepeatWithinTtl'
  OBVIOUS
<1>1. ASSUME NEW i \in batch, TakeHit(i) PROVE NoRepeatWithinTtl'
  <2>1. DOMAIN log = 1..Len(log) /\ Len(log) \in Nat
    BY DEF TypeOK, HitsOK
  <2>2. SUFFICES ASSUME NEW a \in DOMAIN log', NEW b \in DOMAIN log', a < b,
                        log'[a].key = log'[b].key, log'[a].epoch = log'[b].epoch
                 PROVE  log'[b].at - log'[a].at > Ttl
    BY DEF NoRepeatWithinTtl, Ttl
  <2>3. a \in DOMAIN log
    <3>1. DOMAIN log' = 1..(Len(log) + 1)
      BY <1>1, TakeHitAdds
    <3> QED BY <2>1, <2>2, <3>1
  <2>4. CASE b \in DOMAIN log
    BY <1>1, <2>2, <2>3, <2>4, TakeHitAdds DEF NoRepeatWithinTtl
  <2>5. CASE b = Len(log) + 1
    <3>1. log'[b].key = KeyOf(file[i]) /\ log'[b].at = now /\ log'[b].epoch = epoch
      BY <1>1, <2>5, TakeHitAdds DEF Id
    <3>2. log'[a] = log[a]
      BY <1>1, <2>3, TakeHitAdds
    <3> QED BY <1>1, <2>2, <2>3, <3>1, <3>2, FilterFresh
  <2> QED BY <1>1, <2>2, <2>4, <2>5, TakeHitAdds
<1>2. ASSUME ~(\E i \in batch : TakeHit(i)) PROVE NoRepeatWithinTtl'
  <2>1. DOMAIN log' = DOMAIN log
        /\ \A n \in DOMAIN log : /\ log'[n].key = log[n].key /\ log'[n].at = log[n].at
                                 /\ log'[n].epoch = log[n].epoch
    BY <1>2, LogKept DEF Id
  <2> QED BY <2>1 DEF NoRepeatWithinTtl, Ttl
<1> QED BY <1>1, <1>2

\* For any set of events, any time to live, any purge size and however often
\* the game manager fails, one incarnation of the bridge never tries the same
\* hit key twice within the time to live.
THEOREM BridgeNoRepeat == Spec => []NoRepeatWithinTtl
<1>1. Init => NoRepeatWithinTtl
  BY DEF Init, NoRepeatWithinTtl
<1> QED BY <1>1, FilterAlways, NoRepeatStep, PTL DEF Spec

-----------------------------------------------------------------------------
(* The refinement of HitOutlet.                                            *)

Hits == [n \in DOMAIN log |->
           [key |-> log[n].key, at |-> log[n].at, epoch |-> log[n].epoch]]

LEMMA OutletStep ==
  TypeOK /\ FilterInv /\ [Next]_vars => [Outlet!Next]_(Outlet!vars)
<1> SUFFICES ASSUME TypeOK, FilterInv, [Next]_vars
             PROVE  Outlet!Next \/ UNCHANGED Outlet!vars
  OBVIOUS
<1>1. ASSUME NEW i \in batch, TakeHit(i), NEW k \in Key, k = KeyOf(file[i])
      PROVE  Outlet!Publish(k)
  <2>1. DOMAIN log = 1..Len(log) /\ Len(log) \in Nat
    BY DEF TypeOK, HitsOK
  <2>2. Outlet!Fresh(k)
    BY <1>1, FilterFresh DEF Outlet!Fresh
  <2>3. DOMAIN log' = 1..(Len(log) + 1)
    BY <1>1, <2>1, TakeHitAdds
  <2>4. Hits' = Append(Hits, [key |-> k, at |-> now, epoch |-> epoch])
    <3>1. Len(Hits) = Len(log) /\ Hits \in Seq({Hits[n] : n \in DOMAIN log})
      BY <2>1 DEF Hits
    <3>2. \A n \in DOMAIN log : Hits'[n] = Hits[n]
      BY <1>1, <2>1, <2>3, TakeHitAdds DEF Hits
    <3>3. Hits'[Len(log) + 1] = [key |-> k, at |-> now, epoch |-> epoch]
      BY <1>1, <2>1, <2>3, TakeHitAdds DEF Hits, Id
    <3>4. Hits' = [n \in 1..(Len(log) + 1) |-> Hits'[n]]
      BY <2>3 DEF Hits
    <3>5. Append(Hits, [key |-> k, at |-> now, epoch |-> epoch])
            = [n \in 1..(Len(log) + 1) |->
                 IF n = Len(log) + 1 THEN [key |-> k, at |-> now, epoch |-> epoch]
                                     ELSE Hits[n]]
      BY <3>1
    <3> HIDE DEF Hits
    <3> QED BY <2>1, <3>2, <3>3, <3>4, <3>5
  <2>5. now' = now /\ epoch' = epoch
    BY <1>1, TakeHitAdds
  <2> QED BY <2>2, <2>4, <2>5 DEF Outlet!Publish, Hits
<1>2. ASSUME ~(\E i \in batch : TakeHit(i)) PROVE Outlet!Next \/ UNCHANGED Outlet!vars
  <2>1. Hits' = Hits
    BY <1>2, LogKept DEF Hits, Id
  <2>2. CASE Tick
    BY <2>1, <2>2 DEF Tick, bridgeVars, runVars, Hits, Outlet!Next, Outlet!Tick
  <2>3. CASE Restart
    BY <2>1, <2>3 DEF Restart, world, Hits, Outlet!Next, Outlet!Restart
  <2>4. ASSUME UNCHANGED <<now, epoch>> PROVE UNCHANGED Outlet!vars
    BY <2>1, <2>4 DEF Hits, Outlet!vars
  <2>5. CASE UNCHANGED vars
    BY <2>4, <2>5 DEF vars, world, bridgeVars, runVars
  <2>6. ASSUME Environment, ~Tick, ~Restart PROVE UNCHANGED Outlet!vars
    BY <2>4, <2>6 DEF Environment, CreateEvents, AppendEvent, FlushEvent, WriteControl,
       PeerDown, PeerUp, bridgeVars, runVars
  <2>7. CASE Bridge
    BY <1>2, <2>4, <2>7 DEF Bridge, HandleEvent, PollControl, Presence, ReadEvents,
       SkipEvent, DropDuplicate, SendHit, ShadowHit, LogHit, FinishPoll, world, runVars
  <2> QED BY <2>2, <2>3, <2>5, <2>6, <2>7 DEF Next
<1>3. \A i \in batch : KeyOf(file[i]) \in Key
  BY DEF TypeOK, FilesOK, Key
<1>4. ASSUME NEW i \in batch, TakeHit(i) PROVE Outlet!Next
  <2>1. PICK k \in Key : k = KeyOf(file[i])
    BY <1>3
  <2>2. Outlet!Publish(k)
    BY <1>1, <1>4, <2>1
  <2> QED BY <2>2 DEF Outlet!Next
<1> QED BY <1>2, <1>4

\* Seen from the game manager's side the bridge is the abstract outlet: each
\* of its steps is a step of HitOutlet or leaves the outlet as it is.
THEOREM BridgeImplementsOutlet == Spec => ImplementsOutlet
<1>1. Init => Outlet!Init
  <2>1. Init => Hits = << >>
    BY DEF Init, Hits
  <2> QED BY <2>1 DEF Init, Hits, Outlet!Init
<1> QED BY <1>1, FilterAlways, OutletStep, PTL DEF Spec, Outlet!Spec, ImplementsOutlet

-----------------------------------------------------------------------------
(* The sent log and the game manager.                                      *)

\* A hit being sent or logged is the last entry of the log and still pending.
HitUnderWay ==
  pc \in {"send", "log"} =>
    /\ Len(log) \in DOMAIN log
    /\ log[Len(log)].res = "pending" /\ log[Len(log)].epoch = epoch

DeliveryInv == HitUnderWay /\ InboxAgreesWithLog

\* One position of the inbox, as InboxAgreesWithLog has it.
Accounted(n) ==
  /\ inbox[n] \in DOMAIN log
  /\ \/ log[inbox[n]].res = "sent"
     \/ /\ log[inbox[n]].res = "pending"
        /\ \/ log[inbox[n]].epoch < epoch
           \/ pc = "log" /\ sent /\ inbox[n] = Len(log)

\* A hit that has not been sent yet is not in the inbox.
LEMMA NotYetReceived ==
  ASSUME TypeOK, DeliveryInv, pc = "send", NEW n \in DOMAIN inbox
  PROVE  inbox[n] \in DOMAIN log /\ inbox[n] < Len(log)
<1>1. log \in Seq(Entry) /\ Len(log) \in Nat /\ DOMAIN log = 1..Len(log) /\ epoch \in Nat
  BY DEF TypeOK, HitsOK
<1>2. inbox[n] # Len(log)
  BY <1>1 DEF DeliveryInv, HitUnderWay, InboxAgreesWithLog
<1>3. inbox[n] \in DOMAIN log
  BY DEF DeliveryInv, InboxAgreesWithLog
<1> QED BY <1>1, <1>2, <1>3

LEMMA DeliverySend ==
  ASSUME TypeOK, DeliveryInv, SendHit PROVE DeliveryInv'
<1>1. PICK ok \in BOOLEAN, arrived \in BOOLEAN :
        /\ ClientSend(ok, arrived) /\ sent' = ok
        /\ inbox' = IF arrived THEN Append(inbox, Len(log)) ELSE inbox
  BY DEF SendHit
<1>2. pc = "send" /\ pc' = "log" /\ UNCHANGED <<log, epoch>>
  BY DEF SendHit, hitVars, runVars
<1>3. HitUnderWay'
  BY <1>2 DEF DeliveryInv, HitUnderWay
<1>4. \A n \in DOMAIN inbox : inbox[n] \in DOMAIN log /\ inbox[n] < Len(log)
  BY <1>2, NotYetReceived
<1>5. \A n \in DOMAIN inbox :
        \/ log[inbox[n]].res = "sent"
        \/ log[inbox[n]].res = "pending" /\ log[inbox[n]].epoch < epoch
  BY <1>2 DEF DeliveryInv, InboxAgreesWithLog
<1>6. inbox \in Seq(Nat) /\ Len(inbox) \in Nat /\ DOMAIN inbox = 1..Len(inbox)
  BY DEF TypeOK, PeerOK
<1>7. CASE ~arrived
  <2>1. inbox' = inbox
    BY <1>1, <1>7
  <2> QED BY <1>2, <1>3, <1>4, <1>5, <2>1 DEF DeliveryInv, InboxAgreesWithLog
<1>8. CASE arrived
  <2>1. ok
    BY <1>1, <1>8 DEF ClientSend
  <2>2. inbox' = Append(inbox, Len(log)) /\ sent'
    BY <1>1, <1>8, <2>1
  <2>3. /\ DOMAIN inbox' = 1..(Len(inbox) + 1)
        /\ \A n \in DOMAIN inbox : inbox'[n] = inbox[n]
        /\ inbox'[Len(inbox) + 1] = Len(log)
    BY <1>6, <2>2
  <2>4. ASSUME NEW n \in DOMAIN inbox' PROVE Accounted(n)'
    <3>1. CASE n \in DOMAIN inbox
      BY <1>2, <1>4, <1>5, <2>3, <3>1 DEF Accounted
    <3>2. CASE n = Len(inbox) + 1
      BY <1>2, <1>3, <2>2, <2>3, <3>2 DEF Accounted, HitUnderWay
    <3> QED BY <1>6, <2>3, <3>1, <3>2
  <2>5. ASSUME NEW m \in DOMAIN inbox', NEW n \in DOMAIN inbox', m < n
        PROVE  inbox'[m] < inbox'[n]
    <3>1. m \in DOMAIN inbox
      BY <1>6, <2>3, <2>5
    <3>2. CASE n \in DOMAIN inbox
      BY <2>3, <2>5, <3>1, <3>2 DEF DeliveryInv, InboxAgreesWithLog
    <3>3. CASE n = Len(inbox) + 1
      BY <1>4, <2>3, <3>1, <3>3
    <3> QED BY <1>6, <2>3, <3>2, <3>3
  <2> QED BY <1>3, <2>4, <2>5 DEF DeliveryInv, InboxAgreesWithLog, Accounted
<1> QED BY <1>7, <1>8

LEMMA DeliveryLog ==
  ASSUME TypeOK, DeliveryInv, LogHit PROVE DeliveryInv'
<1>1. /\ pc = "log" /\ pc' = "events" /\ UNCHANGED <<inbox, epoch>>
      /\ log' = [log EXCEPT ![Len(log)].res =
                   IF sent THEN "sent" ELSE IF SendsHits THEN "send_failed" ELSE "shadow"]
  BY DEF LogHit, world, runVars
<1>2. log \in Seq(Entry) /\ Len(log) \in Nat /\ epoch \in Nat
  BY DEF TypeOK, HitsOK
<1>3. Len(log) \in DOMAIN log /\ log[Len(log)].res = "pending" /\ log[Len(log)].epoch = epoch
  BY <1>1 DEF DeliveryInv, HitUnderWay
<1>4. DOMAIN log' = DOMAIN log /\ \A n \in DOMAIN log : n # Len(log) => log'[n] = log[n]
  BY <1>1
<1>5. sent => log'[Len(log)].res = "sent"
  <2>1. log[Len(log)] \in Entry
    BY <1>2, <1>3
  <2> QED BY <1>1, <1>3, <2>1 DEF Entry
<1>6. ASSUME NEW n \in DOMAIN inbox PROVE Accounted(n)'
  <2>1. Accounted(n)
    BY DEF DeliveryInv, InboxAgreesWithLog, Accounted
  <2>2. CASE inbox[n] = Len(log)
    <3>1. sent
      BY <1>2, <1>3, <2>1, <2>2 DEF Accounted
    <3> QED BY <1>1, <1>3, <1>4, <1>5, <2>2, <3>1 DEF Accounted
  <2>3. CASE inbox[n] # Len(log)
    <3>1. inbox[n] \in DOMAIN log /\ log'[inbox[n]] = log[inbox[n]]
      BY <1>4, <2>1, <2>3 DEF Accounted
    <3> QED BY <1>1, <1>4, <2>1, <2>3, <3>1 DEF Accounted
  <2> QED BY <2>2, <2>3
<1> QED BY <1>1, <1>6 DEF DeliveryInv, HitUnderWay, InboxAgreesWithLog, Accounted

LEMMA DeliveryTake ==
  ASSUME TypeOK, DeliveryInv, NEW i \in batch, TakeHit(i) PROVE DeliveryInv'
<1>1. pc = "events" /\ pc' = "send" /\ UNCHANGED inbox
  BY DEF TakeHit, NextEvent, world
<1>2. log \in Seq(Entry) /\ Len(log) \in Nat
  BY DEF TypeOK, HitsOK
<1>3. /\ epoch' = epoch /\ Len(log') = Len(log) + 1 /\ Len(log') \in DOMAIN log'
      /\ log'[Len(log')].res = "pending" /\ log'[Len(log')].epoch = epoch
  <2> DEFINE e == [line |-> i, key |-> KeyOf(file[i]), at |-> now,
                   epoch |-> epoch, res |-> "pending"]
  <2>1. log' = Append(log, e) /\ epoch' = epoch /\ DOMAIN log' = 1..(Len(log) + 1)
    BY TakeHitAdds
  <2>2. e.res = "pending" /\ e.epoch = epoch
    OBVIOUS
  <2> HIDE DEF e
  <2>3. Len(log') = Len(log) + 1 /\ log'[Len(log) + 1] = e
    BY <1>2, <2>1
  <2> QED BY <1>2, <2>1, <2>2, <2>3
<1>4. \A n \in DOMAIN log : n \in DOMAIN log' /\ log'[n] = log[n]
  BY TakeHitAdds
<1>5. ASSUME NEW n \in DOMAIN inbox PROVE Accounted(n)'
  <2>1. Accounted(n) /\ pc # "log"
    BY <1>1 DEF DeliveryInv, InboxAgreesWithLog, Accounted
  <2> QED BY <1>1, <1>3, <1>4, <2>1 DEF Accounted
<1> QED BY <1>1, <1>3, <1>5 DEF DeliveryInv, HitUnderWay, InboxAgreesWithLog, Accounted

LEMMA DeliveryRestart ==
  ASSUME TypeOK, FilterInv, DeliveryInv, Restart PROVE DeliveryInv'
<1>1. UNCHANGED <<inbox, log>> /\ epoch' = epoch + 1 /\ pc' = "poll"
  BY DEF Restart, world
<1>2. log \in Seq(Entry) /\ epoch \in Nat
  BY DEF TypeOK, HitsOK
<1>3. ASSUME NEW n \in DOMAIN log PROVE log[n].epoch < epoch + 1
  <2>1. log[n] \in Entry
    BY <1>2
  <2>2. log[n].epoch \in Nat
    BY <2>1 DEF Entry
  <2>3. log[n].epoch <= epoch
    BY DEF FilterInv
  <2> QED BY <1>2, <2>2, <2>3
<1> QED BY <1>1, <1>3 DEF DeliveryInv, HitUnderWay, InboxAgreesWithLog

LEMMA DeliveryFrame ==
  ASSUME DeliveryInv, UNCHANGED <<inbox, log, epoch, sent>>,
         pc' = pc \/ {pc, pc'} \cap {"send", "log"} = {}
  PROVE  DeliveryInv'
<1>1. HitUnderWay'
  BY DEF DeliveryInv, HitUnderWay
<1>2. InboxAgreesWithLog'
  BY DEF DeliveryInv, InboxAgreesWithLog
<1> QED BY <1>1, <1>2 DEF DeliveryInv

LEMMA DeliveryStep == TypeOK /\ FilterInv /\ DeliveryInv /\ [Next]_vars => DeliveryInv'
<1> SUFFICES ASSUME TypeOK, FilterInv, DeliveryInv, [Next]_vars PROVE DeliveryInv'
  OBVIOUS
<1> USE DEF hitVars, runVars, world, bridgeVars
<1>1. ASSUME NEW i \in batch, HandleEvent(i) PROVE DeliveryInv'
  <2>1. CASE TakeHit(i)
    BY <2>1, DeliveryTake
  <2>2. CASE SkipEvent(i) \/ DropDuplicate(i)
    BY <2>2, DeliveryFrame DEF SkipEvent, DropDuplicate
  <2> QED BY <1>1, <2>1, <2>2 DEF HandleEvent
<1>2. CASE ShadowHit
  <2>1. pc = "send" /\ pc' = "log" /\ UNCHANGED <<inbox, log, epoch>>
    BY <1>2 DEF ShadowHit
  <2>2. \A n \in DOMAIN inbox :
          /\ inbox[n] \in DOMAIN log
          /\ \/ log[inbox[n]].res = "sent"
             \/ log[inbox[n]].res = "pending" /\ log[inbox[n]].epoch < epoch
    BY <2>1 DEF DeliveryInv, InboxAgreesWithLog
  <2>3. InboxAgreesWithLog'
    BY <2>1, <2>2 DEF DeliveryInv, InboxAgreesWithLog
  <2> QED BY <2>1, <2>3 DEF DeliveryInv, HitUnderWay
<1>3. CASE PollControl
  BY <1>3, DeliveryFrame DEF PollControl
<1>4. CASE Presence \/ ReadEvents \/ FinishPoll
  BY <1>4, DeliveryFrame DEF Presence, ReadEvents, FinishPoll
<1>5. CASE CreateEvents \/ FlushEvent \/ PeerDown \/ PeerUp \/ Tick
  BY <1>5, DeliveryFrame DEF CreateEvents, FlushEvent, PeerDown, PeerUp, Tick
<1>6. ASSUME NEW e, AppendEvent(e) PROVE DeliveryInv'
  BY <1>6, DeliveryFrame DEF AppendEvent
<1>7. ASSUME NEW m, WriteControl(m) PROVE DeliveryInv'
  BY <1>7, DeliveryFrame DEF WriteControl
<1>8. CASE UNCHANGED vars
  BY <1>8, DeliveryFrame DEF vars
<1> QED
  BY <1>1, <1>2, <1>3, <1>4, <1>5, <1>6, <1>7, <1>8,
     DeliverySend, DeliveryLog, DeliveryRestart DEF Next, Environment, Bridge

\* The game manager has each tried hit at most once and in the order of the log,
\* and only hits whose log line says "sent" or was lost to a crash of the bridge.
THEOREM BridgeInboxAgrees == Spec => []InboxAgreesWithLog
<1>1. Init => DeliveryInv
  BY DEF Init, DeliveryInv, HitUnderWay, InboxAgreesWithLog
<1>2. DeliveryInv => InboxAgreesWithLog
  BY DEF DeliveryInv
<1> QED BY <1>1, <1>2, FilterAlways, DeliveryStep, PTL DEF Spec
=============================================================================
