-------------------------- MODULE ManualHit_Proofs --------------------------
(***************************************************************************)
(* Proofs about the manual hit service, for any persons, bounds and        *)
(* dedup_ms, any clicks and restarts, and writes that fail.                *)
(***************************************************************************)
EXTENDS ManualHit, SequenceTheorems, TLAPS

LEMMA Parameters ==
  /\ Dedup \in Nat /\ Second \in Nat /\ MaxLines \in Nat /\ MaxLines > 0
  /\ PurgeAge \in Nat /\ PurgeAge >= Dedup
  /\ ReadExisting \in BOOLEAN /\ Nobody \notin Person /\ Clicks \subseteq Person \cup {Nobody}
<1>1. /\ Dedup \in Nat /\ Second \in Nat /\ MaxLines \in Nat /\ MaxLines > 0
      /\ ReadExisting \in BOOLEAN /\ Nobody \notin Person /\ Clicks \subseteq Person \cup {Nobody}
  BY ManualAssumption
<1> QED BY <1>1 DEF PurgeAge

\* The steps of one command.  A command that is accepted hands over an event,
\* written or not; what may be refused, confirmed or end in an exception does not.
HandStep(i)  == Accept(i) \/ AcceptFails(i)
OtherStep(i) ==
  Refuse(i) \/ RefuseFails(i) \/ Confirm(i) \/ ConfirmFails(i) \/ RejectException(i) \/ Die(i)

LEMMA ServiceSteps ==
  ASSUME Service
  PROVE  \/ PollControl \/ ReadCommands \/ FinishPoll
         \/ \E i \in queue : HandStep(i) \/ OtherStep(i)
BY DEF Service, HandStep, OtherStep

LEMMA EarlyKept == \A early \in Early : early \subseteq kept
BY DEF Early

LEMMA KeptTypes ==
  ASSUME TypeOK
  PROVE  Kept \in [Person -> {Never} \cup (0 .. now)]
BY DEF TypeOK, Kept

LEMMA Resolved ==
  ASSUME NEW c \in Person \cup {Nobody}, NEW r \in Resolutions(c)
  PROVE  r.who \in Person \cup {Nobody}
BY DEF Resolutions

-----------------------------------------------------------------------------
(* The types.                                                              *)

\* While an event waits for its confirmation there is one.
TypeInv == TypeOK /\ (pc = "confirm" => Len(events) > 0)

LEMMA TypesInit == Init => TypeInv
<1> SUFFICES ASSUME Init PROVE TypeInv
  OBVIOUS
<1>1. /\ commands = <<>> /\ events = <<>> /\ off = 0 /\ queue = {}
      /\ written = {} /\ kept = {} /\ unsaid = {}
  BY DEF Init
<1>2. commands \in Seq(Clicks) /\ events \in Seq(Event) /\ Len(commands) = 0
  <2> DEFINE e == <<>>
  <2>1. e \in Seq(Clicks) /\ e \in Seq(Event) /\ Len(e) = 0
    BY EmptySeq
  <2> HIDE DEF e
  <2>2. commands = e /\ events = e
    BY <1>1 DEF e
  <2> QED BY <2>1, <2>2
<1>3. off \in 0 .. Len(commands) /\ queue \subseteq DOMAIN commands
  BY <1>1, <1>2
<1>4. recent \in [Person -> {Never} \cup (0 .. now)]
  BY DEF Init
<1>5. /\ control \in [mtime : Nat, enabled : BOOLEAN] /\ pc = "poll"
      /\ now \in Nat /\ faults \in Nat /\ epoch \in Nat
      /\ enabled \in BOOLEAN /\ ctlSeen \in 0 .. control.mtime /\ cut \in BOOLEAN
      /\ confirmed \subseteq Answer
  <2>1. control = [mtime |-> 0, enabled |-> TRUE] /\ ctlSeen = 0
    BY DEF Init
  <2>2. pc = "poll" /\ now = 0 /\ faults = 0 /\ epoch = 0 /\ enabled = TRUE /\ cut = FALSE
    BY DEF Init
  <2>3. confirmed \subseteq Answer
    BY DEF Init
  <2>4. control \in [mtime : Nat, enabled : BOOLEAN] /\ control.mtime = 0
    BY <2>1
  <2>5. ctlSeen \in 0 .. control.mtime
    BY <2>1, <2>4
  <2> QED BY <2>2, <2>3, <2>4, <2>5
<1> QED BY <1>1, <1>2, <1>3, <1>4, <1>5 DEF TypeOK, TypeInv

LEMMA TypesEnvironment == ASSUME TypeInv, Environment PROVE TypeInv'
<1> USE DEF TypeOK, TypeInv, service, world, tailer, switch, output
<1>0. commands \in Seq(Clicks) /\ Len(commands) \in Nat /\ DOMAIN commands = 1 .. Len(commands)
  BY LenProperties
<1>1. ASSUME NEW c \in Clicks, Click(c) PROVE TypeInv'
  <2>1. commands' \in Seq(Clicks) /\ Len(commands') = Len(commands) + 1
    BY <1>0, <1>1, AppendProperties DEF Click
  <2>2. DOMAIN commands' = 1 .. Len(commands')
    BY <2>1, LenProperties
  <2>3. off' = off /\ queue' = queue
    BY <1>1 DEF Click
  <2>4. off' \in 0 .. Len(commands') /\ queue' \subseteq DOMAIN commands'
    BY <1>0, <2>1, <2>2, <2>3
  <2> QED BY <1>1, <2>1, <2>4 DEF Click
<1>2. ASSUME NEW b \in BOOLEAN, WriteControl(b) PROVE TypeInv'
  BY <1>2 DEF WriteControl
<1>3. CASE Tick
  BY <1>3 DEF Tick
<1>4. CASE Restart
  <2>1. StartOffset(Len(commands)) \in 0 .. Len(commands)
    BY <1>0, Parameters DEF StartOffset
  <2>2. recent' \in [Person -> {Never} \cup (0 .. now)] /\ epoch' \in Nat
    BY <1>4 DEF Restart
  <2>3. UNCHANGED <<commands, control, now, faults, events>>
    BY <1>4 DEF Restart
  <2>5. written' \subseteq DOMAIN events /\ kept' = {} /\ confirmed' \subseteq Answer /\ unsaid' = {}
    BY <1>4, EarlyKept DEF Restart
  <2>4. off' \in 0 .. Len(commands) /\ queue' = {} /\ ctlSeen' \in 0 .. control.mtime
    BY <1>4, <2>1 DEF Restart
  <2> QED BY <1>4, <2>2, <2>3, <2>4, <2>5 DEF Restart
<1> QED BY <1>1, <1>2, <1>3, <1>4 DEF Environment

LEMMA TypesService == ASSUME TypeInv, Service PROVE TypeInv'
<1> USE DEF TypeOK, TypeInv, service, world, tailer, switch, output
<1>0. commands \in Seq(Clicks) /\ Len(commands) \in Nat /\ DOMAIN commands = 1 .. Len(commands)
  BY LenProperties
<1>1. CASE PollControl
  BY <1>1 DEF PollControl
<1>2. CASE ReadCommands
  <2>1. Batch \subseteq DOMAIN commands
    BY DEF Batch
  <2> QED BY <1>0, <1>2, <2>1 DEF ReadCommands
<1>3. CASE FinishPoll
  BY <1>3 DEF FinishPoll
<1>4. ASSUME NEW i \in queue PROVE i \in Nat /\ commands[i] \in Person \cup {Nobody}
  BY <1>0, Parameters
<1>5. ASSUME NEW i \in queue, HandStep(i) PROVE TypeInv'
  <2>1. /\ events \in Seq(Event) /\ events' \in Seq(Event) /\ Len(events') = Len(events) + 1
        /\ Len(events) \in Nat /\ DOMAIN events = 1 .. Len(events)
        /\ DOMAIN events' = 1 .. Len(events) + 1
        /\ recent' \in [Person -> {Never} \cup (0 .. now)]
    <3>1. PICK r \in Resolutions(commands[i]) :
            /\ r.who \in Person /\ recent' = [Kept EXCEPT ![r.who] = now]
            /\ events' = Append(events, [cmd |-> i, who |-> r.who, at |-> now, epoch |-> epoch])
      BY <1>5 DEF HandStep, Accept, AcceptFails, Hand, Acceptable
    <3>2. [cmd |-> i, who |-> r.who, at |-> now, epoch |-> epoch] \in Event
      BY <1>4, <3>1 DEF Event
    <3>3. events \in Seq(Event) /\ Kept \in [Person -> {Never} \cup (0 .. now)]
      BY KeptTypes
    <3>4. recent' \in [Person -> {Never} \cup (0 .. now)]
      BY <3>1, <3>3
    <3> QED BY <3>1, <3>2, <3>3, <3>4, AppendProperties, LenProperties
  <2>2. written' \subseteq DOMAIN events' /\ kept' \subseteq DOMAIN events'
    <3>1. CASE Accept(i)
      BY <2>1, <3>1 DEF Accept
    <3>2. CASE AcceptFails(i)
      BY <2>1, <3>2, EarlyKept DEF AcceptFails
    <3> QED BY <1>5, <3>1, <3>2 DEF HandStep
  <2>3. /\ UNCHANGED <<commands, control, now, off, cut, enabled, ctlSeen, queue, epoch, confirmed, unsaid>>
        /\ faults' \in Nat /\ pc' \in {"confirm", "exception"}
    BY <1>5 DEF HandStep, Accept, AcceptFails
  <2> QED BY <2>1, <2>2, <2>3
<1>6. ASSUME NEW i \in queue, OtherStep(i) PROVE TypeInv'
  <2>1. i \in Nat
    BY <1>4
  <2>2. Line(i, "exception", Nobody, 0) \in Answer
    BY <2>1 DEF Line, Answer
  <2>3. ASSUME NEW l \in Refusals(i) PROVE l \in Answer
    BY <2>1, <2>3 DEF Refusals, Line, Answer
  <2>4. Kept \in [Person -> {Never} \cup (0 .. now)]
    BY KeptTypes
  <2>5. ASSUME NEW l, Refused(i, l) PROVE recent' \in [Person -> {Never} \cup (0 .. now)]
    BY <2>4, <2>5 DEF Refused
  <2>6. ASSUME pc = "confirm" PROVE Accepted(i) \in Answer
    <3>1. Len(events) \in DOMAIN events /\ Len(events) \in Nat /\ events \in Seq(Event)
      BY <2>6, LenProperties
    <3>2. events[Len(events)] \in Event
      BY <3>1, ElementOfSeq
    <3> QED BY <2>1, <3>1, <3>2 DEF Accepted, Line, Event, Answer
  <2>7. CASE Refuse(i)
    BY <2>3, <2>5, <2>7 DEF Refuse, Say, NextCommand
  <2>8. CASE RefuseFails(i)
    BY <2>3, <2>5, <2>8 DEF RefuseFails, SayFails
  <2>9. CASE Confirm(i)
    BY <2>6, <2>9 DEF Confirm, Say
  <2>10. CASE ConfirmFails(i)
    BY <2>6, <2>10 DEF ConfirmFails, SayFails
  <2>11. CASE RejectException(i)
    BY <2>2, <2>11 DEF RejectException, Say
  <2>12. CASE Die(i)
    BY <2>2, <2>12, EarlyKept DEF Die
  <2> QED BY <1>6, <2>7, <2>8, <2>9, <2>10, <2>11, <2>12 DEF OtherStep
<1> QED BY <1>1, <1>2, <1>3, <1>5, <1>6, ServiceSteps

LEMMA TypesStep == TypeInv /\ [Next]_vars => TypeInv'
<1> SUFFICES ASSUME TypeInv, [Next]_vars PROVE TypeInv'
  OBVIOUS
<1>1. CASE UNCHANGED vars
  BY <1>1 DEF vars, world, service, tailer, switch, output, TypeInv, TypeOK
<1> QED BY <1>1, TypesEnvironment, TypesService DEF Next

\* The types of ManualHit hold in every reachable state.
THEOREM ManualTypes == Spec => []TypeOK
<1>1. TypeInv => TypeOK
  BY DEF TypeInv
<1> QED BY <1>1, TypesInit, TypesStep, PTL DEF Spec

-----------------------------------------------------------------------------
(* The events file.                                                        *)

\* What the other steps of a command leave alone.
LEMMA OtherKeeps ==
  ASSUME NEW i \in queue, OtherStep(i)
  PROVE  /\ events' = events /\ now' = now /\ epoch' = epoch /\ off' = off /\ cut' = cut
         /\ recent' \in {recent, Kept}
BY DEF OtherStep, Refuse, RefuseFails, Refused, SayFails, Confirm, ConfirmFails, RejectException,
       Die, world, tailer

\* A step appends one event or leaves the events alone.
LEMMA EventsKept ==
  ASSUME [Next]_vars, ~(\E i \in queue : HandStep(i))
  PROVE  events' = events
<1>1. CASE UNCHANGED vars
  BY <1>1 DEF vars, service, output
<1>2. CASE Environment
  BY <1>2 DEF Environment, Click, WriteControl, Tick, Restart, service, output
<1>3. CASE Service
  BY <1>3, ServiceSteps, OtherKeeps DEF PollControl, ReadCommands, FinishPoll, output
<1> QED BY <1>1, <1>2, <1>3 DEF Next

LEMMA HandAdds ==
  ASSUME TypeInv, NEW i \in queue, HandStep(i)
  PROVE  \E p \in Person :
           /\ ~CoolingDown(p) /\ recent' = [Kept EXCEPT ![p] = now]
           /\ Len(events') = Len(events) + 1 /\ Len(events) \in Nat
           /\ DOMAIN events = 1 .. Len(events) /\ DOMAIN events' = 1 .. Len(events) + 1
           /\ \A n \in DOMAIN events : events'[n] = events[n]
           /\ events'[Len(events) + 1] = [cmd |-> i, who |-> p, at |-> now, epoch |-> epoch]
<1>1. PICK r \in Resolutions(commands[i]) :
        /\ r.who \in Person /\ ~CoolingDown(r.who) /\ recent' = [Kept EXCEPT ![r.who] = now]
        /\ events' = Append(events, [cmd |-> i, who |-> r.who, at |-> now, epoch |-> epoch])
  BY DEF HandStep, Accept, AcceptFails, Hand, Acceptable
<1> DEFINE e == [cmd |-> i, who |-> r.who, at |-> now, epoch |-> epoch]
<1>2. events \in Seq(Event) /\ e \in Event
  <2>1. i \in Nat
    BY LenProperties DEF TypeInv, TypeOK
  <2> QED BY <1>1, <2>1 DEF TypeInv, TypeOK, Event
<1>3. events' = Append(events, e)
  BY <1>1
<1> HIDE DEF e
<1>4. /\ Len(events') = Len(events) + 1 /\ Len(events) \in Nat
      /\ DOMAIN events = 1 .. Len(events) /\ DOMAIN events' = 1 .. Len(events) + 1
      /\ \A n \in DOMAIN events : events'[n] = events[n]
      /\ events'[Len(events) + 1] = e
  BY <1>2, <1>3, AppendProperties, LenProperties
<1> QED BY <1>1, <1>4 DEF e

-----------------------------------------------------------------------------
(* The cooldown.                                                           *)

\* Of the hits of a person in this incarnation the service remembers the last, or
\* something later, or all of them are older than the purge's age.
RecentInv ==
  \A n \in DOMAIN events :
    /\ events[n].at <= now /\ events[n].epoch <= epoch
    /\ events[n].epoch = epoch =>
         IF recent[events[n].who] = Never THEN now - events[n].at > PurgeAge
                                          ELSE recent[events[n].who] >= events[n].at

CoolInv == RecentInv /\ CooldownKept

\* The dictionary after a purge still tells as much.
LEMMA KeptTells ==
  ASSUME TypeInv, RecentInv, NEW n \in DOMAIN events, events[n].epoch = epoch
  PROVE  IF Kept[events[n].who] = Never THEN now - events[n].at > PurgeAge
                                        ELSE Kept[events[n].who] >= events[n].at
<1>1. events[n] \in Event
  BY ElementOfSeq, LenProperties DEF TypeInv, TypeOK
<1>2. /\ events[n].who \in Person /\ events[n].at \in Nat /\ now \in Nat /\ PurgeAge \in Nat
      /\ recent[events[n].who] \in {Never} \cup (0 .. now)
  BY <1>1, Parameters DEF Event, TypeInv, TypeOK
<1>3. IF recent[events[n].who] = Never THEN now - events[n].at > PurgeAge
                                       ELSE recent[events[n].who] >= events[n].at
  BY DEF RecentInv
<1>4. Kept[events[n].who] = IF Purged(recent[events[n].who]) THEN Never ELSE recent[events[n].who]
  BY <1>2 DEF Kept
<1>5. CASE Purged(recent[events[n].who])
  BY <1>2, <1>3, <1>4, <1>5 DEF Purged, Never
<1>6. CASE ~Purged(recent[events[n].who])
  BY <1>3, <1>4, <1>6
<1> QED BY <1>5, <1>6

\* Who is not cooling down was last hit dedup_ms ago or longer.
LEMMA Cooled ==
  ASSUME TypeInv, RecentInv, NEW p \in Person, ~CoolingDown(p),
         NEW n \in DOMAIN events, events[n].epoch = epoch, events[n].who = p
  PROVE  now - events[n].at >= Dedup
<1>1. /\ now \in Nat /\ Kept \in [Person -> {Never} \cup (0 .. now)]
      /\ Dedup \in Nat /\ PurgeAge \in Nat /\ PurgeAge >= Dedup
  BY KeptTypes, Parameters DEF TypeInv, TypeOK
<1>2. IF Kept[p] = Never THEN now - events[n].at > PurgeAge ELSE Kept[p] >= events[n].at
  BY KeptTells
<1>3. Dedup = 0 \/ Kept[p] = Never \/ now - Kept[p] >= Dedup
  BY <1>1 DEF CoolingDown, Never
<1>4. events[n] \in Event /\ Kept[p] \in {Never} \cup (0 .. now)
  BY <1>1, ElementOfSeq, LenProperties DEF TypeInv, TypeOK
<1>5. events[n].at \in Nat /\ events[n].at <= now
  BY <1>4 DEF Event, RecentInv
<1> QED BY <1>1, <1>2, <1>3, <1>4, <1>5 DEF Never

LEMMA CoolInit == Init => CoolInv
<1> SUFFICES ASSUME Init PROVE CoolInv
  OBVIOUS
<1>1. DOMAIN events = {}
  BY DEF Init
<1> QED BY <1>1 DEF CoolInv, RecentInv, CooldownKept

LEMMA CoolHand ==
  ASSUME TypeInv, TypeInv', CoolInv, NEW i \in queue, HandStep(i)
  PROVE  CoolInv'
<1>1. PICK p \in Person :
        /\ ~CoolingDown(p) /\ recent' = [Kept EXCEPT ![p] = now]
        /\ Len(events') = Len(events) + 1 /\ Len(events) \in Nat
        /\ DOMAIN events = 1 .. Len(events) /\ DOMAIN events' = 1 .. Len(events) + 1
        /\ \A n \in DOMAIN events : events'[n] = events[n]
        /\ events'[Len(events) + 1] = [cmd |-> i, who |-> p, at |-> now, epoch |-> epoch]
  BY HandAdds
<1>2. now' = now /\ epoch' = epoch
  BY DEF HandStep, Accept, AcceptFails, world
<1>3. /\ now \in Nat /\ epoch \in Nat /\ Kept \in [Person -> {Never} \cup (0 .. now)]
      /\ Dedup \in Nat /\ PurgeAge \in Nat /\ PurgeAge >= Dedup
  BY KeptTypes, Parameters DEF TypeInv, TypeOK
<1>4. \A n \in DOMAIN events :
        /\ events[n].who \in Person /\ events[n].at \in Nat /\ events[n].epoch \in Nat
        /\ events[n].at <= now /\ events[n].epoch <= epoch
  <2>1. \A n \in DOMAIN events : events[n] \in Event
    BY <1>1, ElementOfSeq DEF TypeInv, TypeOK
  <2>2. \A n \in DOMAIN events :
          events[n].who \in Person /\ events[n].at \in Nat /\ events[n].epoch \in Nat
    BY <2>1 DEF Event
  <2> QED BY <2>2 DEF CoolInv, RecentInv
<1>5. ASSUME NEW n \in DOMAIN events, events[n].epoch = epoch, events[n].who = p
      PROVE  now - events[n].at >= Dedup
  BY <1>1, <1>5, Cooled DEF CoolInv
<1>6. RecentInv'
  <2>1. ASSUME NEW n \in DOMAIN events'
        PROVE  /\ events'[n].at <= now' /\ events'[n].epoch <= epoch'
               /\ events'[n].epoch = epoch' =>
                    IF recent'[events'[n].who] = Never THEN now' - events'[n].at > PurgeAge
                                                       ELSE recent'[events'[n].who] >= events'[n].at
    <3>1. CASE n = Len(events) + 1
      <4>1. events'[n].who = p /\ events'[n].at = now /\ events'[n].epoch = epoch
        BY <1>1, <3>1
      <4>2. recent'[p] = now
        BY <1>1, <1>3
      <4> QED BY <1>2, <1>3, <4>1, <4>2 DEF Never
    <3>2. CASE n # Len(events) + 1
      <4>1. n \in DOMAIN events /\ events'[n] = events[n]
        BY <1>1, <2>1, <3>2
      <4>2. events[n].who = p => recent'[events[n].who] = now
        BY <1>1, <1>3
      <4>3. events[n].who # p => recent'[events[n].who] = Kept[events[n].who]
        BY <1>1, <1>3, <1>4, <4>1
      <4> QED BY <1>2, <1>3, <1>4, <4>1, <4>2, <4>3, KeptTells DEF CoolInv, Never
    <3> QED BY <3>1, <3>2
  <2> QED BY <2>1 DEF RecentInv, PurgeAge
<1>7. CooldownKept'
  <2>1. ASSUME NEW a \in DOMAIN events', NEW b \in DOMAIN events', a < b,
               events'[a].who = events'[b].who, events'[a].epoch = events'[b].epoch
        PROVE  events'[b].at - events'[a].at >= Dedup
    <3>1. a \in DOMAIN events /\ events'[a] = events[a]
      BY <1>1, <2>1
    <3>2. CASE b = Len(events) + 1
      <4>1. events'[b].who = p /\ events'[b].at = now /\ events'[b].epoch = epoch
        BY <1>1, <3>2
      <4> QED BY <1>5, <2>1, <3>1, <4>1
    <3>3. CASE b # Len(events) + 1
      <4>1. b \in DOMAIN events /\ events'[b] = events[b]
        BY <1>1, <3>3
      <4> QED BY <2>1, <3>1, <4>1 DEF CoolInv, CooldownKept
    <3> QED BY <3>2, <3>3
  <2> QED BY <2>1 DEF CooldownKept
<1> QED BY <1>6, <1>7 DEF CoolInv

\* Other steps purge what is old, or forget everybody in a new incarnation.
LEMMA RecentSteps ==
  ASSUME TypeInv, [Next]_vars, ~(\E i \in queue : HandStep(i))
  PROVE  \/ epoch' = epoch + 1 /\ now' = now
         \/ epoch' = epoch /\ now' \in {now, now + 1} /\ recent' = recent
         \/ epoch' = epoch /\ now' = now /\ recent' = Kept
<1> USE DEF world, service
<1>1. CASE UNCHANGED vars
  BY <1>1 DEF vars
<1>2. CASE Environment
  BY <1>2 DEF Environment, Click, WriteControl, Tick, Restart
<1>3. CASE Service
  <2>1. CASE PollControl \/ ReadCommands \/ FinishPoll
    BY <2>1 DEF PollControl, ReadCommands, FinishPoll
  <2> QED BY <1>3, <2>1, ServiceSteps, OtherKeeps
<1> QED BY <1>1, <1>2, <1>3 DEF Next

LEMMA CoolOther ==
  ASSUME TypeInv, CoolInv, [Next]_vars, ~(\E i \in queue : HandStep(i))
  PROVE  CoolInv'
<1>1. events' = events
  BY EventsKept
<1>2. CooldownKept'
  BY <1>1 DEF CoolInv, CooldownKept
<1>3. now \in Nat /\ epoch \in Nat /\ Kept \in [Person -> {Never} \cup (0 .. now)] /\ PurgeAge \in Nat
  BY KeptTypes, Parameters DEF TypeInv, TypeOK
<1>4. ASSUME NEW n \in DOMAIN events
      PROVE  /\ events[n].at <= now' /\ events[n].epoch <= epoch'
             /\ events[n].epoch = epoch' =>
                  IF recent'[events[n].who] = Never THEN now' - events[n].at > PurgeAge
                                                    ELSE recent'[events[n].who] >= events[n].at
  <2>1. events[n] \in Event
    BY ElementOfSeq, LenProperties DEF TypeInv, TypeOK
  <2>2. events[n].who \in Person /\ events[n].at \in Nat /\ events[n].epoch \in Nat
    BY <2>1 DEF Event
  <2>3. events[n].at <= now /\ events[n].epoch <= epoch
    BY DEF CoolInv, RecentInv
  <2>4. CASE epoch' = epoch + 1 /\ now' = now
    BY <1>3, <2>2, <2>3, <2>4
  <2>5. CASE epoch' = epoch /\ now' \in {now, now + 1} /\ recent' = recent
    BY <1>3, <2>2, <2>3, <2>5 DEF CoolInv, RecentInv
  <2>6. CASE epoch' = epoch /\ now' = now /\ recent' = Kept
    BY <2>3, <2>6, KeptTells DEF CoolInv
  <2> QED BY <2>4, <2>5, <2>6, RecentSteps
<1>5. RecentInv'
  BY <1>1, <1>4 DEF RecentInv, PurgeAge
<1> QED BY <1>2, <1>5 DEF CoolInv

LEMMA CoolStep == TypeInv /\ CoolInv /\ [Next]_vars => CoolInv'
BY TypesStep, CoolHand, CoolOther

\* Two hits of one person in one incarnation lie dedup_ms apart (_dedup), for any
\* dedup_ms, also zero, however often clicks are read and whichever writes fail.
THEOREM ManualCooldown == Spec => []CooldownKept
<1>1. Init => TypeInv /\ CoolInv
  BY TypesInit, CoolInit
<1>2. (TypeInv /\ CoolInv) /\ [Next]_vars => (TypeInv /\ CoolInv)'
  BY TypesStep, CoolStep
<1>3. CoolInv => CooldownKept
  BY DEF CoolInv
<1> QED BY <1>1, <1>2, <1>3, PTL DEF Spec

-----------------------------------------------------------------------------
(* The abstract outlet.                                                    *)

\* What an event tells its readers.
Hits == [n \in DOMAIN events |->
           [key |-> events[n].who, at |-> events[n].at, epoch |-> events[n].epoch]]

LEMMA HandPublishes ==
  ASSUME TypeInv, RecentInv, NEW i \in queue, HandStep(i)
  PROVE  \E p \in Person \ {SourceId} : Outlet!Publish(p)
<1>1. PICK r \in Resolutions(commands[i]) :
        /\ Acceptable(r) /\ ~CoolingDown(r.who)
        /\ events' = Append(events, [cmd |-> i, who |-> r.who, at |-> now, epoch |-> epoch])
  BY DEF HandStep, Accept, AcceptFails, Hand
<1> DEFINE p == r.who
           e == [cmd |-> i, who |-> p, at |-> now, epoch |-> epoch]
           h == [key |-> p, at |-> now, epoch |-> epoch]
<1>2. p \in Person \ {SourceId} /\ now' = now /\ epoch' = epoch
  BY <1>1 DEF Acceptable, HandStep, Accept, AcceptFails, world
<1>3. /\ DOMAIN events = 1 .. Len(events) /\ Len(events) \in Nat
      /\ DOMAIN events' = 1 .. Len(events) + 1
      /\ \A n \in DOMAIN events : events'[n] = events[n]
      /\ events'[Len(events) + 1] = e
  <2>1. events \in Seq(Event) /\ e \in Event
    <3>1. i \in Nat
      BY LenProperties DEF TypeInv, TypeOK
    <3> QED BY <1>2, <3>1 DEF TypeInv, TypeOK, Event
  <2> HIDE DEF e
  <2>2. events' = Append(events, e)
    BY <1>1 DEF e
  <2> QED BY <2>1, <2>2, AppendProperties, LenProperties
<1>4. Outlet!Fresh(p)
  <2> SUFFICES ASSUME NEW n \in DOMAIN Hits, Hits[n].key = p, Hits[n].epoch = epoch
               PROVE  now - Hits[n].at > Dedup - 1
    BY DEF Outlet!Fresh, Hits
  <2>1. /\ n \in DOMAIN events /\ events[n].who = p /\ events[n].epoch = epoch
        /\ Hits[n].at = events[n].at
    BY DEF Hits
  <2>2. now - events[n].at >= Dedup
    BY <1>1, <1>2, <2>1, Cooled
  <2>3. events[n] \in Event /\ now \in Nat /\ Dedup \in Nat
    BY <2>1, Parameters, ElementOfSeq, LenProperties DEF TypeInv, TypeOK
  <2>4. events[n].at \in Nat
    BY <2>3 DEF Event
  <2> QED BY <2>1, <2>2, <2>3, <2>4
<1>5. Hits' = Append(Hits, h)
  <2>1. Hits \in Seq({Hits[n] : n \in DOMAIN events}) /\ Len(Hits) = Len(events)
    BY <1>3 DEF Hits
  <2>2. \A n \in DOMAIN events : Hits'[n] = Hits[n]
    BY <1>3 DEF Hits
  <2>3. Hits'[Len(events) + 1] = h
    BY <1>3 DEF Hits
  <2>4. Hits' = [n \in 1 .. Len(events) + 1 |-> Hits'[n]]
    BY <1>3 DEF Hits
  <2>5. Append(Hits, h)
          = [n \in 1 .. Len(events) + 1 |-> IF n = Len(events) + 1 THEN h ELSE Hits[n]]
    BY <2>1
  <2> HIDE DEF Hits, h
  <2> QED BY <1>3, <2>2, <2>3, <2>4, <2>5
<1>6. Outlet!Publish(p)
  BY <1>2, <1>4, <1>5 DEF Outlet!Publish, Hits
<1> QED BY <1>2, <1>6

LEMMA OutletStep == TypeInv /\ CoolInv /\ [Next]_vars => [Outlet!Next]_(Outlet!vars)
<1> SUFFICES ASSUME TypeInv, CoolInv, [Next]_vars
             PROVE  Outlet!Next \/ UNCHANGED Outlet!vars
  OBVIOUS
<1>1. ASSUME NEW i \in queue, HandStep(i) PROVE Outlet!Next
  BY <1>1, HandPublishes DEF CoolInv, Outlet!Next
<1>2. CASE Tick
  BY <1>2 DEF Tick, service, output, Outlet!Next, Outlet!Tick
<1>3. CASE Restart
  BY <1>3 DEF Restart, world, output, Outlet!Next, Outlet!Restart
<1>4. ASSUME ~(\E i \in queue : HandStep(i)), ~Tick, ~Restart PROVE UNCHANGED Outlet!vars
  <2>1. events' = events
    BY <1>4, EventsKept
  <2>2. now' = now /\ epoch' = epoch
    <3>1. CASE UNCHANGED vars
      BY <3>1 DEF vars, world, service
    <3>2. CASE Environment
      BY <1>4, <3>2 DEF Environment, Click, WriteControl, service
    <3>3. CASE Service
      BY <1>4, <3>3, ServiceSteps, OtherKeeps DEF PollControl, ReadCommands, FinishPoll, world
    <3> QED BY <3>1, <3>2, <3>3 DEF Next
  <2> QED BY <2>1, <2>2 DEF Outlet!vars
<1> QED BY <1>1, <1>2, <1>3, <1>4

\* By the times its events carry the service is the abstract outlet: each of its
\* steps publishes a person who is not cooling down, is a tick or a restart, or
\* leaves the outlet as it is, whatever the purge has removed and whichever writes
\* fail (_dedup, _accept).
THEOREM ManualImplementsOutlet == Spec => ImplementsOutlet
<1>1. Init => Outlet!Init
  <2>1. Init => Hits = << >>
    BY DEF Init, Hits
  <2> QED BY <2>1 DEF Init, Hits, Outlet!Init
<1>2. Init => TypeInv /\ CoolInv
  BY TypesInit, CoolInit
<1>3. (TypeInv /\ CoolInv) /\ [Next]_vars => (TypeInv /\ CoolInv)'
  BY TypesStep, CoolStep
<1> QED BY <1>1, <1>2, <1>3, OutletStep, PTL DEF Spec, Outlet!Spec, ImplementsOutlet

-----------------------------------------------------------------------------
(* Reading commands again.                                                 *)

\* As long as no read was cut, what waits comes after what was turned into hits,
\* but for the command in hand, and the offset after both.
ReadOnceInv ==
  /\ pc \in {"poll", "read"} => queue = {}
  /\ ~cut => /\ \A i \in queue : i <= off
             /\ \A n \in DOMAIN events : events[n].epoch = epoch =>
                  /\ events[n].cmd <= off
                  /\ \A i \in queue : \/ events[n].cmd < i
                                      \/ events[n].cmd = i /\ pc \in {"confirm", "exception"}

RepeatInv == ReadOnceInv /\ RepeatedOnlyAfterCut

LEMMA RepeatInit == Init => RepeatInv
<1> SUFFICES ASSUME Init PROVE RepeatInv
  OBVIOUS
<1>1. DOMAIN events = {} /\ queue = {}
  BY DEF Init
<1> QED BY <1>1 DEF RepeatInv, ReadOnceInv, RepeatedOnlyAfterCut

LEMMA RepeatHand ==
  ASSUME TypeInv, CoolInv, RepeatInv, NEW i \in queue, HandStep(i)
  PROVE  RepeatInv'
<1>1. PICK p \in Person :
        /\ Len(events) \in Nat
        /\ DOMAIN events = 1 .. Len(events) /\ DOMAIN events' = 1 .. Len(events) + 1
        /\ \A n \in DOMAIN events : events'[n] = events[n]
        /\ events'[Len(events) + 1] = [cmd |-> i, who |-> p, at |-> now, epoch |-> epoch]
  BY HandAdds
<1>2. /\ epoch' = epoch /\ off' = off /\ cut' = cut /\ queue' = queue
      /\ pc = "commands" /\ pc' \in {"confirm", "exception"}
      /\ \A j \in queue : i <= j
  BY DEF HandStep, Accept, AcceptFails, tailer, NextCommand, Current
<1>3. queue \subseteq Nat
  BY LenProperties DEF TypeInv, TypeOK
<1>4. ASSUME ~cut, NEW n \in DOMAIN events', events'[n].epoch = epoch
      PROVE  events'[n].cmd <= off /\ \A j \in queue : events'[n].cmd < j \/ events'[n].cmd = j
  <2>1. CASE n = Len(events) + 1
    <3>1. events'[n].cmd = i /\ i <= off
      BY <1>1, <1>4, <2>1 DEF RepeatInv, ReadOnceInv
    <3> QED BY <1>2, <1>3, <3>1
  <2>2. CASE n # Len(events) + 1
    <3>1. n \in DOMAIN events /\ events'[n] = events[n]
      BY <1>1, <1>4, <2>2
    <3> QED BY <1>2, <1>4, <3>1 DEF RepeatInv, ReadOnceInv
  <2> QED BY <2>1, <2>2
<1>5. ReadOnceInv'
  <2>1. ~cut => \A j \in queue' : j <= off
    BY <1>2 DEF RepeatInv, ReadOnceInv
  <2> QED BY <1>2, <1>4, <2>1 DEF ReadOnceInv
<1>6. RepeatedOnlyAfterCut'
  <2>1. ASSUME NEW a \in DOMAIN events', NEW b \in DOMAIN events', a < b,
               events'[a].cmd = events'[b].cmd, events'[a].epoch = epoch, events'[b].epoch = epoch
        PROVE  cut
    <3>1. a \in DOMAIN events /\ events'[a] = events[a]
      BY <1>1, <2>1
    <3>2. CASE b = Len(events) + 1
      <4>1. events'[b].cmd = i
        BY <1>1, <3>2
      <4>2. ~cut => events[a].cmd < i
        BY <1>2, <2>1, <3>1 DEF RepeatInv, ReadOnceInv
      <4> QED BY <1>3, <2>1, <3>1, <4>1, <4>2
    <3>3. CASE b # Len(events) + 1
      <4>1. b \in DOMAIN events /\ events'[b] = events[b]
        BY <1>1, <3>3
      <4> QED BY <2>1, <3>1, <4>1 DEF RepeatInv, RepeatedOnlyAfterCut
    <3> QED BY <3>2, <3>3
  <2> QED BY <1>2, <2>1 DEF RepeatedOnlyAfterCut
<1> QED BY <1>5, <1>6 DEF RepeatInv

LEMMA RepeatOther ==
  ASSUME TypeInv, CoolInv, RepeatInv, [Next]_vars, ~(\E i \in queue : HandStep(i))
  PROVE  RepeatInv'
<1>1. events' = events
  BY EventsKept
<1>2. /\ off \in Nat /\ queue \subseteq Nat /\ Len(commands) \in Nat /\ epoch \in Nat
      /\ off <= Len(commands) /\ MaxLines \in Nat
  BY LenProperties, Parameters DEF TypeInv, TypeOK
<1>3. \A n \in DOMAIN events : events[n].cmd \in Nat /\ events[n].epoch \in Nat /\ events[n].epoch <= epoch
  <2>1. \A n \in DOMAIN events : events[n] \in Event
    BY ElementOfSeq, LenProperties DEF TypeInv, TypeOK
  <2> QED BY <2>1 DEF Event, CoolInv, RecentInv
\* Nothing but what waits is changed, and that becomes less.
<1>4. ASSUME UNCHANGED <<epoch, off, cut>>, queue' \subseteq queue,
             pc' \in {"poll", "read"} => queue' = {},
             queue' # {} /\ pc \in {"confirm", "exception"} => pc' \in {"confirm", "exception"}
      PROVE  RepeatInv'
  BY <1>1, <1>4 DEF RepeatInv, ReadOnceInv, RepeatedOnlyAfterCut
<1> USE DEF tailer, world, service
<1>5. CASE UNCHANGED vars
  BY <1>4, <1>5 DEF vars, RepeatInv, ReadOnceInv
<1>6. CASE Environment /\ ~Restart
  BY <1>4, <1>6 DEF Environment, Click, WriteControl, Tick, RepeatInv, ReadOnceInv
<1>7. CASE Restart
  <2>1. epoch' = epoch + 1 /\ queue' = {}
    BY <1>7 DEF Restart
  <2>2. \A n \in DOMAIN events : events[n].epoch # epoch'
    BY <1>2, <1>3, <2>1
  <2> QED BY <1>1, <2>1, <2>2 DEF RepeatInv, ReadOnceInv, RepeatedOnlyAfterCut
<1>8. CASE ReadCommands
  <2>1. /\ pc = "read" /\ pc' = "commands" /\ queue' = Batch /\ epoch' = epoch
        /\ off' = (IF Len(commands) > off + MaxLines THEN off ELSE Len(commands))
        /\ cut' = (cut \/ Len(commands) > off + MaxLines)
    BY <1>8 DEF ReadCommands
  <2>2. ASSUME ~cut' PROVE ~cut /\ off' = Len(commands)
    BY <1>2, <2>1, <2>2
  <2>3. \A i \in Batch : i \in Nat /\ off < i /\ i <= Len(commands)
    BY LenProperties DEF Batch, TypeInv, TypeOK
  <2>4. ASSUME ~cut', NEW n \in DOMAIN events, events[n].epoch = epoch
        PROVE  events[n].cmd <= off' /\ \A i \in queue' : events[n].cmd < i
    <3>1. events[n].cmd <= off /\ off' = Len(commands)
      BY <2>2, <2>4 DEF RepeatInv, ReadOnceInv
    <3> QED BY <1>2, <1>3, <2>1, <2>3, <3>1
  <2>5. ReadOnceInv'
    BY <1>1, <2>1, <2>2, <2>3, <2>4 DEF ReadOnceInv
  <2>6. RepeatedOnlyAfterCut'
    BY <1>1, <2>1 DEF RepeatInv, RepeatedOnlyAfterCut
  <2> QED BY <2>5, <2>6 DEF RepeatInv
<1>9. CASE PollControl \/ FinishPoll
  BY <1>4, <1>9 DEF PollControl, FinishPoll, RepeatInv, ReadOnceInv
<1>10. ASSUME NEW i \in queue, Confirm(i) \/ RejectException(i) PROVE RepeatInv'
  <2>1. /\ queue' = queue \ {i} /\ pc' = "commands" /\ UNCHANGED <<epoch, off, cut>>
        /\ \A j \in queue : i <= j
    BY <1>10 DEF Confirm, RejectException, Current
  <2>2. ASSUME ~cut, NEW n \in DOMAIN events, events[n].epoch = epoch
        PROVE  events[n].cmd <= off /\ \A j \in queue' : events[n].cmd < j
    <3>1. events[n].cmd <= off /\ events[n].cmd <= i
      BY <1>2, <1>3, <2>2 DEF RepeatInv, ReadOnceInv
    <3>2. ASSUME NEW j \in queue' PROVE i < j
      BY <1>2, <2>1
    <3> QED BY <1>2, <1>3, <2>1, <3>1, <3>2
  <2> QED BY <1>1, <2>1, <2>2 DEF RepeatInv, ReadOnceInv, RepeatedOnlyAfterCut
<1>11. ASSUME NEW i \in queue, Refuse(i) \/ RefuseFails(i) \/ ConfirmFails(i) \/ Die(i)
       PROVE  RepeatInv'
  BY <1>4, <1>11 DEF Refuse, RefuseFails, ConfirmFails, Die, SayFails, NextCommand
<1> QED BY <1>5, <1>6, <1>7, <1>8, <1>9, <1>10, <1>11, ServiceSteps DEF Next, OtherStep

LEMMA RepeatStep == TypeInv /\ CoolInv /\ RepeatInv /\ [Next]_vars => RepeatInv'
BY RepeatHand, RepeatOther

\* A click becomes two hits of one incarnation only after a read was cut, for any
\* max_lines and any clicks (read_new).
THEOREM ManualRepeats == Spec => []RepeatedOnlyAfterCut
<1>1. Init => TypeInv /\ CoolInv /\ RepeatInv
  BY TypesInit, CoolInit, RepeatInit
<1>2. (TypeInv /\ CoolInv /\ RepeatInv) /\ [Next]_vars => (TypeInv /\ CoolInv /\ RepeatInv)'
  BY TypesStep, CoolStep, RepeatStep
<1>3. RepeatInv => RepeatedOnlyAfterCut
  BY DEF RepeatInv
<1> QED BY <1>1, <1>2, <1>3, PTL DEF Spec

-----------------------------------------------------------------------------
(* The confirmations.                                                      *)

\* The last event, as long as the work on its command goes on.
UnderWay(n) ==
  /\ pc \in {"confirm", "exception"} /\ n = Len(events)
  /\ events[n].epoch = epoch /\ Current(events[n].cmd)

Told(n) == (\E l \in confirmed : l.ev = n) \/ Excused(n)

\* Lines that wait in the buffer are as true as those in the file, events that
\* wait are told of like those in the file, and what is about to be confirmed is
\* written.
StoryInv ==
  /\ \A l \in confirmed \cup unsaid : l.res = "accepted" =>
       /\ l.ev \in written
       /\ events[l.ev].cmd = l.cmd /\ events[l.ev].who = l.who
  /\ pc = "confirm" => UnderWay(Len(events)) /\ Len(events) \in written
  /\ \A n \in written \cup kept : Told(n) \/ UnderWay(n)

LEMMA StoryTells == StoryInv => ConfirmationsAgree
BY DEF StoryInv, ConfirmationsAgree, UnderWay, Told

LEMMA StoryInit == Init => StoryInv
<1> SUFFICES ASSUME Init PROVE StoryInv
  OBVIOUS
<1>1. confirmed = {} /\ unsaid = {} /\ written = {} /\ kept = {} /\ pc = "poll"
  BY DEF Init
<1> QED BY <1>1 DEF StoryInv

LEMMA EventNumbers ==
  ASSUME TypeInv, CoolInv
  PROVE  /\ Len(events) \in Nat /\ DOMAIN events = 1 .. Len(events) /\ epoch \in Nat
         /\ written \subseteq DOMAIN events /\ kept \subseteq DOMAIN events
         /\ \A n \in DOMAIN events : events[n].epoch \in Nat /\ events[n].epoch <= epoch
<1>1. /\ Len(events) \in Nat /\ DOMAIN events = 1 .. Len(events) /\ epoch \in Nat
      /\ written \subseteq DOMAIN events /\ kept \subseteq DOMAIN events
  BY LenProperties DEF TypeInv, TypeOK
<1>2. \A n \in DOMAIN events : events[n] \in Event
  BY <1>1, ElementOfSeq DEF TypeInv, TypeOK
<1> QED BY <1>1, <1>2 DEF Event, CoolInv, RecentInv

\* What is told stays told, and what was under way is told when it ends.
LEMMA ToldKept ==
  ASSUME TypeInv, CoolInv, events' = events, confirmed \subseteq confirmed',
         \/ epoch' = epoch /\ (pc = "dead" => pc' = "dead")
         \/ epoch' = epoch + 1,
         NEW n \in DOMAIN events, Told(n)
  PROVE  Told(n)'
<1>1. /\ epoch \in Nat /\ events[n].epoch \in Nat /\ events[n].epoch <= epoch
      /\ Len(events) \in Nat
  BY EventNumbers
<1>2. CASE \E l \in confirmed : l.ev = n
  BY <1>2 DEF Told
<1>3. CASE Excused(n)
  <2>1. events[n].epoch < epoch \/ pc = "dead" => events[n].epoch < epoch' \/ pc' = "dead"
    BY <1>1
  <2>2. Excused(n)'
    BY <1>3, <2>1 DEF Excused
  <2> QED BY <2>2 DEF Told
<1> QED BY <1>2, <1>3 DEF Told

LEMMA ToldAtEnd ==
  ASSUME TypeInv, CoolInv, events' = events, NEW n \in DOMAIN events, UnderWay(n),
         epoch' = epoch + 1 \/ (epoch' = epoch /\ pc' = "dead")
  PROVE  Told(n)'
<1>1. events[n].epoch = epoch /\ epoch \in Nat /\ n = Len(events) /\ Len(events) \in Nat
      /\ DOMAIN events = 1 .. Len(events)
  BY EventNumbers DEF UnderWay
<1>2. ~(\E m \in DOMAIN events : m > n /\ events[m].epoch = events[n].epoch)
  BY <1>1
<1>3. Excused(n)'
  BY <1>1, <1>2 DEF Excused
<1> QED BY <1>3 DEF Told

LEMMA StoryHand ==
  ASSUME TypeInv, CoolInv, StoryInv, NEW i \in queue, HandStep(i)
  PROVE  StoryInv'
<1>1. PICK p \in Person :
        /\ Len(events') = Len(events) + 1 /\ Len(events) \in Nat
        /\ DOMAIN events = 1 .. Len(events) /\ DOMAIN events' = 1 .. Len(events) + 1
        /\ \A n \in DOMAIN events : events'[n] = events[n]
        /\ events'[Len(events) + 1] = [cmd |-> i, who |-> p, at |-> now, epoch |-> epoch]
  BY HandAdds
<1>2. /\ confirmed' = confirmed /\ unsaid' = unsaid /\ epoch' = epoch /\ queue' = queue
      /\ pc = "commands" /\ pc' \in {"confirm", "exception"} /\ Current(i)
  BY DEF HandStep, Accept, AcceptFails, NextCommand
<1>3. /\ written \subseteq written'
      /\ pc' = "confirm" => Len(events) + 1 \in written'
      /\ written' \cup kept' \subseteq written \cup kept \cup {Len(events) + 1}
  BY EarlyKept DEF HandStep, Accept, AcceptFails
<1>4. /\ epoch \in Nat /\ written \subseteq DOMAIN events /\ kept \subseteq DOMAIN events
      /\ \A n \in DOMAIN events : events[n].epoch \in Nat /\ events[n].epoch <= epoch
  BY EventNumbers
<1>8. (Len(events))' = Len(events) + 1
  BY <1>1
<1>5. ASSUME NEW l \in confirmed' \cup unsaid', l.res = "accepted"
      PROVE  l.ev \in written' /\ events'[l.ev].cmd = l.cmd /\ events'[l.ev].who = l.who
  <2>1. l \in confirmed \cup unsaid
    BY <1>2, <1>5
  <2>2. l.ev \in written /\ events[l.ev].cmd = l.cmd /\ events[l.ev].who = l.who
    BY <2>1, <1>5 DEF StoryInv
  <2>3. events'[l.ev] = events[l.ev] /\ l.ev \in written'
    BY <1>1, <1>3, <1>4, <2>2
  <2> QED BY <2>2, <2>3
<1>6. ASSUME NEW n, n = Len(events) + 1 PROVE UnderWay(n)'
  <2>1. Current(i)'
    BY <1>2 DEF Current
  <2>2. events'[n].epoch = epoch' /\ events'[n].cmd = i
    BY <1>1, <1>2, <1>6
  <2> QED BY <1>2, <1>6, <1>8, <2>1, <2>2 DEF UnderWay
<1>7. ASSUME NEW n \in written \cup kept PROVE Told(n)'
  <2>1. n \in DOMAIN events /\ n <= Len(events) /\ events'[n] = events[n]
    BY <1>1, <1>4
  <2>2. Told(n)
    BY <1>2, <1>7 DEF StoryInv, UnderWay
  <2>3. CASE \E l \in confirmed : l.ev = n
    BY <1>2, <2>3 DEF Told
  <2>4. CASE \E l \in confirmed : l.res = "exception" /\ l.cmd = events[n].cmd /\ l.epoch = events[n].epoch
    <3>1. Excused(n)'
      BY <1>2, <2>1, <2>4 DEF Excused
    <3> QED BY <3>1 DEF Told
  <2>5. CASE /\ events[n].epoch < epoch \/ pc = "dead"
             /\ ~(\E m \in DOMAIN events : m > n /\ events[m].epoch = events[n].epoch)
    <3>1. events[n].epoch < epoch
      BY <1>2, <2>5
    <3>2. ASSUME NEW m \in DOMAIN events', m > n PROVE events'[m].epoch # events'[n].epoch
      <4>1. CASE m = Len(events) + 1
        BY <1>1, <1>4, <2>1, <3>1, <4>1
      <4>2. CASE m # Len(events) + 1
        <5>1. m \in DOMAIN events /\ events'[m] = events[m]
          BY <1>1, <3>2, <4>2
        <5> QED BY <2>1, <2>5, <3>2, <5>1
      <4> QED BY <4>1, <4>2
    <3>3. Excused(n)'
      BY <1>2, <2>1, <3>1, <3>2 DEF Excused
    <3> QED BY <3>3 DEF Told
  <2> QED BY <2>2, <2>3, <2>4, <2>5 DEF Told, Excused
<1>9. \A n \in written' \cup kept' : Told(n)' \/ UnderWay(n)'
  BY <1>3, <1>6, <1>7
<1>10. pc' = "confirm" => (UnderWay(Len(events)) /\ Len(events) \in written)'
  <2>1. ASSUME NEW n, n = (Len(events))', pc' = "confirm" PROVE UnderWay(n)' /\ n \in written'
    BY <1>3, <1>6, <1>8, <2>1
  <2> QED BY <2>1 DEF UnderWay
<1> QED BY <1>5, <1>9, <1>10 DEF StoryInv

\* A line is added to the file, or to the buffer, and the events stay as they are.
LEMMA StoryLine ==
  ASSUME TypeInv, CoolInv, StoryInv, NEW l, events' = events, epoch' = epoch, pc # "dead",
         written' = written, kept' = kept,
         confirmed \subseteq confirmed', confirmed' \cup unsaid' \subseteq confirmed \cup unsaid \cup {l},
         l.res = "accepted" => /\ l.ev \in written
                               /\ events[l.ev].cmd = l.cmd /\ events[l.ev].who = l.who,
         pc' # "confirm",
         \A n \in DOMAIN events : UnderWay(n) => Told(n)' \/ UnderWay(n)'
  PROVE  StoryInv'
<1>1. \A n \in written \cup kept : n \in DOMAIN events
  BY EventNumbers
<1>2. ASSUME NEW n \in written \cup kept PROVE Told(n)' \/ UnderWay(n)'
  <2>1. CASE Told(n)
    BY <1>1, <2>1, ToldKept
  <2>2. CASE UnderWay(n)
    BY <1>1, <2>2
  <2> QED BY <2>1, <2>2 DEF StoryInv
<1>3. \A k \in confirmed' \cup unsaid' : k.res = "accepted" =>
        /\ k.ev \in written'
        /\ events'[k.ev].cmd = k.cmd /\ events'[k.ev].who = k.who
  BY DEF StoryInv
<1> QED BY <1>2, <1>3 DEF StoryInv

LEMMA StoryOtherStep ==
  ASSUME TypeInv, CoolInv, StoryInv, NEW i \in queue, OtherStep(i)
  PROVE  StoryInv'
<1>0. events' = events /\ epoch' = epoch
  BY OtherKeeps
<1>1. queue \subseteq Nat /\ Len(events) \in Nat
  BY LenProperties DEF TypeInv, TypeOK
\* The command in hand is the one whose event is under way.
<1>2. ASSUME NEW n, UnderWay(n), Current(i) PROVE events[n].cmd = i
  BY <1>1, <1>2 DEF UnderWay, Current
<1>3. CASE Refuse(i) \/ RefuseFails(i)
  <2>1. /\ pc = "commands" /\ pc' \in {"commands", "exception"}
        /\ UNCHANGED <<written, kept>>
    BY <1>3 DEF Refuse, RefuseFails, SayFails, NextCommand
  <2>2. PICK l \in Refusals(i) : Say(l) \/ SayFails(l)
    BY <1>3 DEF Refuse, RefuseFails
  <2>3. l.res # "accepted"
    BY DEF Refusals, Line
  <2>4. confirmed \subseteq confirmed' /\ confirmed' \cup unsaid' \subseteq confirmed \cup unsaid \cup {l}
    BY <2>2 DEF Say, SayFails
  <2>5. \A n : ~UnderWay(n)
    BY <2>1 DEF UnderWay
  <2> QED BY <1>0, <2>1, <2>3, <2>4, <2>5, StoryLine
<1>4. CASE Confirm(i) \/ ConfirmFails(i)
  <2> DEFINE n == Len(events)
  <2>1. /\ pc = "confirm" /\ Current(i) /\ UNCHANGED <<written, kept>>
        /\ \/ pc' = "commands" /\ Say(Accepted(i))
           \/ pc' = "exception" /\ SayFails(Accepted(i)) /\ queue' = queue
    BY <1>4 DEF Confirm, ConfirmFails, SayFails
  <2>2. UnderWay(n) /\ n \in written /\ events[n].cmd = i
    BY <1>2, <2>1 DEF StoryInv
  <2>3. PICK l : l = Accepted(i)
    OBVIOUS
  <2>4. l.ev = n /\ l.cmd = i /\ l.who = events[n].who
    BY <2>3 DEF Accepted, Line
  <2>5. confirmed \subseteq confirmed' /\ confirmed' \cup unsaid' \subseteq confirmed \cup unsaid \cup {l}
    BY <2>1, <2>3 DEF Say, SayFails
  <2>6. ASSUME NEW k \in DOMAIN events, UnderWay(k) PROVE Told(k)' \/ UnderWay(k)'
    <3>1. k = n
      BY <2>6 DEF UnderWay
    <3>2. CASE Say(Accepted(i))
      BY <2>3, <2>4, <3>1, <3>2 DEF Say, Told
    <3>3. CASE pc' = "exception" /\ queue' = queue
      <4>1. Current(events[k].cmd)'
        BY <1>0, <2>6, <3>3 DEF UnderWay, Current
      <4> QED BY <1>0, <2>6, <3>3, <4>1 DEF UnderWay
    <3> QED BY <2>1, <3>2, <3>3
  <2> QED BY <1>0, <2>1, <2>2, <2>4, <2>5, <2>6, StoryLine
<1>5. CASE RejectException(i)
  <2>1. /\ pc = "exception" /\ pc' = "commands" /\ Current(i) /\ UNCHANGED <<written, kept>>
        /\ Say(Line(i, "exception", Nobody, 0))
    BY <1>5 DEF RejectException
  <2>2. PICK l : l = Line(i, "exception", Nobody, 0)
    OBVIOUS
  <2>3. l.res = "exception" /\ l.cmd = i /\ l.epoch = epoch
    BY <2>2 DEF Line
  <2>4. /\ confirmed \subseteq confirmed' /\ l \in confirmed'
        /\ confirmed' \cup unsaid' \subseteq confirmed \cup unsaid \cup {l}
    BY <2>1, <2>2 DEF Say
  <2>5. ASSUME NEW k \in DOMAIN events, UnderWay(k) PROVE Told(k)'
    <3>1. events[k].cmd = i /\ events[k].epoch = epoch
      BY <1>2, <2>1, <2>5 DEF UnderWay
    <3>2. Excused(k)'
      BY <1>0, <2>3, <2>4, <3>1 DEF Excused
    <3> QED BY <3>2 DEF Told
  <2> QED BY <1>0, <2>1, <2>3, <2>4, <2>5, StoryLine
<1>6. CASE Die(i)
  <2>1. /\ pc' = "dead" /\ pc = "exception" /\ kept' = {} /\ unsaid' = {}
        /\ written \subseteq written' /\ written' \subseteq written \cup kept
        /\ confirmed \subseteq confirmed'
        /\ confirmed' \subseteq confirmed \cup unsaid \cup {Line(i, "exception", Nobody, 0)}
    BY <1>6, EarlyKept DEF Die
  <2>2. Line(i, "exception", Nobody, 0).res # "accepted"
    BY DEF Line
  <2>3. \A l \in confirmed' \cup unsaid' : l.res = "accepted" =>
          /\ l.ev \in written'
          /\ events'[l.ev].cmd = l.cmd /\ events'[l.ev].who = l.who
    BY <1>0, <2>1, <2>2 DEF StoryInv
  <2>4. ASSUME NEW n \in written' \cup kept' PROVE Told(n)'
    <3>1. n \in written \cup kept /\ n \in DOMAIN events
      BY <2>1, EventNumbers
    <3> QED BY <1>0, <2>1, <3>1, ToldKept, ToldAtEnd DEF StoryInv
  <2> QED BY <2>1, <2>3, <2>4 DEF StoryInv
<1> QED BY <1>3, <1>4, <1>5, <1>6 DEF OtherStep

\* A restart leaves the last event of the incarnation that ends, if the work on it
\* was under way, as the one excuse.
LEMMA StoryRestart ==
  ASSUME TypeInv, CoolInv, StoryInv, Restart
  PROVE  StoryInv'
<1>1. /\ events' = events /\ pc' = "poll" /\ epoch' = epoch + 1 /\ kept' = {} /\ unsaid' = {}
      /\ written \subseteq written' /\ written' \subseteq written \cup kept
      /\ confirmed \subseteq confirmed' /\ confirmed' \subseteq confirmed \cup unsaid
  BY EarlyKept DEF Restart
<1>2. \A l \in confirmed' \cup unsaid' : l.res = "accepted" =>
        /\ l.ev \in written'
        /\ events'[l.ev].cmd = l.cmd /\ events'[l.ev].who = l.who
  BY <1>1 DEF StoryInv
<1>3. ASSUME NEW n \in written' \cup kept' PROVE Told(n)'
  <2>1. n \in written \cup kept /\ n \in DOMAIN events
    BY <1>1, <1>3, EventNumbers
  <2>2. CASE Told(n)
    BY <1>1, <2>1, <2>2, ToldKept
  <2>3. CASE UnderWay(n)
    BY <1>1, <2>1, <2>3, ToldAtEnd
  <2> QED BY <2>1, <2>2, <2>3 DEF StoryInv
<1> QED BY <1>1, <1>2, <1>3 DEF StoryInv

LEMMA StoryRest ==
  ASSUME StoryInv, UNCHANGED <<output, epoch>>,
         \/ UNCHANGED <<pc, queue>>
         \/ pc \in {"poll", "read", "commands"} /\ pc' \in {"poll", "read", "commands"}
  PROVE  StoryInv'
<1>1. \A n : Told(n) => Told(n)'
  BY DEF Told, Excused, output
<1>2. \A n : UnderWay(n) => UnderWay(n)'
  BY DEF UnderWay, Current, output
<1>3. pc' = "confirm" => UnderWay(Len(events))' /\ Len(events') \in written'
  BY <1>2 DEF StoryInv, output
<1> QED BY <1>1, <1>2, <1>3 DEF StoryInv, output

LEMMA StoryStep == TypeInv /\ CoolInv /\ StoryInv /\ [Next]_vars => StoryInv'
<1> SUFFICES ASSUME TypeInv, CoolInv, StoryInv, [Next]_vars PROVE StoryInv'
  OBVIOUS
<1>1. CASE UNCHANGED vars
  BY <1>1, StoryRest DEF vars, service
<1>2. CASE Environment /\ ~Restart
  BY <1>2, StoryRest DEF Environment, Click, WriteControl, Tick, service
<1>3. CASE PollControl \/ ReadCommands \/ FinishPoll
  <2>1. UNCHANGED <<output, epoch>>
    BY <1>3 DEF PollControl, ReadCommands, FinishPoll
  <2>2. pc \in {"poll", "read", "commands"} /\ pc' \in {"poll", "read", "commands"}
    BY <1>3 DEF PollControl, ReadCommands, FinishPoll
  <2> QED BY <2>1, <2>2, StoryRest
<1> QED BY <1>1, <1>2, <1>3, StoryRestart, StoryHand, StoryOtherStep, ServiceSteps DEF Next

\* The events file and the confirmation file tell one story, whatever crashes
\* come between their writes, and whichever writes fail and how much of their
\* buffers is written later (_accept, run).
THEOREM ManualConfirmations == Spec => []ConfirmationsAgree
<1>1. Init => TypeInv /\ CoolInv /\ StoryInv
  BY TypesInit, CoolInit, StoryInit
<1>2. (TypeInv /\ CoolInv /\ StoryInv) /\ [Next]_vars => (TypeInv /\ CoolInv /\ StoryInv)'
  BY TypesStep, CoolStep, StoryStep
<1> QED BY <1>1, <1>2, StoryTells, PTL DEF Spec
=============================================================================
