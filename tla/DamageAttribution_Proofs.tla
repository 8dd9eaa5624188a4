---------------------- MODULE DamageAttribution_Proofs ----------------------
(***************************************************************************)
(* Proofs about DamageAttribution for every value of its constants: any    *)
(* persons, slots, candidates, ages, limits and number of restarts.        *)
(***************************************************************************)
EXTENDS DamageAttribution, FiniteSetTheorems, SequenceTheorems, WellFoundedInduction, TLAPS

-----------------------------------------------------------------------------
(* Parameters and sequences.                                               *)

LEMMA ParameterTypes ==
  /\ Person \subseteq Nat /\ Slot \subseteq Nat /\ Reserved \in Nat \cup {Unknown}
  /\ DefaultSource \in Nat /\ Candidate \subseteq CandidateType
  /\ Tracks \subseteq TracksType
  /\ Direct \in BOOLEAN /\ BevDisplay \in BOOLEAN /\ ReadExisting \in BOOLEAN
  /\ Ttl \in Nat /\ Ttl > 0 /\ MaxLines \in Nat /\ MaxLines > 0
  /\ MaxSnapshots \in Nat /\ MaxSnapshots > 0 /\ MaxDisplays \in Nat /\ MaxDisplays > 0
  /\ ClockBound \in Nat /\ RestartBound \in Nat /\ MaxSyncDelta \in Nat
  /\ HistoryAge \in Nat /\ DisplayAge \in Nat /\ SyncBound \in Nat
<1>1. /\ {Direct, BevDisplay, SpatialFallback, StableIdFallback, ReadExisting} \subseteq BOOLEAN
      /\ {MaxSyncDelta, SpatialSyncDelta, HistoryAge, DisplayAge, SyncBound, PublishBound,
          ShowBound, LineBound, ClockBound, RestartBound} \subseteq Nat
      /\ {MaxSnapshots, MaxDisplays, Ttl, PurgeMax, MaxLines} \subseteq Nat \ {0}
  BY AttributionAssumption
<1> QED BY <1>1, AttributionAssumption

\* The last element of a sequence that has one, and what appending does.
LEMMA LastIn ==
  ASSUME NEW S, NEW s \in Seq(S), s # <<>>
  PROVE  Len(s) \in DOMAIN s /\ Last(s) = s[Len(s)] /\ Last(s) \in S
BY DEF Last

LEMMA AppendIs ==
  ASSUME NEW S, NEW s \in Seq(S), NEW e \in S
  PROVE  /\ Append(s, e) \in Seq(S) /\ Append(s, e) # <<>>
         /\ Len(Append(s, e)) = Len(s) + 1 /\ Len(s) \in Nat
         /\ DOMAIN s = 1..Len(s) /\ DOMAIN Append(s, e) = 1..(Len(s) + 1)
         /\ \A n \in DOMAIN s : Append(s, e)[n] = s[n]
         /\ Append(s, e)[Len(s) + 1] = e /\ Last(Append(s, e)) = e
BY DEF Last

\* Keep leaves the last elements, n of them at most.
LEMMA KeepIs ==
  ASSUME NEW S, NEW s \in Seq(S), s # <<>>, NEW n \in Nat, n > 0
  PROVE  /\ Keep(s, n) \in Seq(S) /\ Len(Keep(s, n)) <= n /\ Keep(s, n) # <<>>
         /\ Last(Keep(s, n)) = Last(s)
         /\ \A j \in DOMAIN Keep(s, n) : \E k \in DOMAIN s : Keep(s, n)[j] = s[k]
<1>1. CASE Len(s) <= n
  BY <1>1 DEF Keep
<1>2. CASE Len(s) > n
  <2> DEFINE d == Len(s) - n
             t == SubSeq(s, d + 1, Len(s))
  <2>1. Keep(s, n) = t /\ d \in Nat /\ d > 0 /\ d + n = Len(s)
    BY <1>2 DEF Keep
  <2>2. t \in Seq(S) /\ Len(t) = n /\ (\A j \in 1..n : t[j] = s[d + j])
    BY <2>1
  <2> HIDE DEF t, d
  <2> QED BY <2>1, <2>2 DEF Last
<1> QED BY <1>1, <1>2

\* Remember puts the new file last.
LEMMA RememberIs ==
  ASSUME NEW m \in Seq(Snapshot), NEW snap \in Snapshot, Len(m) <= MaxSnapshots
  PROVE  /\ Remember(m, snap) \in Seq(Snapshot) /\ Remember(m, snap) # <<>>
         /\ Len(Remember(m, snap)) <= MaxSnapshots /\ Last(Remember(m, snap)) = snap
<1>1. CASE m # <<>> /\ Last(m).sync = snap.sync
  <2>1. Front(m) \in Seq(Snapshot) /\ Len(Front(m)) = Len(m) - 1
    <3>1. Len(m) \in Nat /\ Len(m) > 0
      BY <1>1
    <3>2. \A j \in 1..(Len(m) - 1) : m[j] \in Snapshot
      OBVIOUS
    <3>3. Front(m) = SubSeq(m, 1, Len(m) - 1)
      BY DEF Front
    <3> DEFINE n == Len(m) - 1
    <3>4. n \in Int /\ 1 \in Int /\ (\A j \in 1..n : m[j] \in Snapshot) /\ n \in Nat
      BY <3>1, <3>2
    <3> HIDE DEF n
    <3>5. SubSeq(m, 1, n) \in Seq(Snapshot) /\ Len(SubSeq(m, 1, n)) = IF 1 <= n THEN n - 1 + 1 ELSE 0
      BY <3>4, SubSeqProperties
    <3>6. Len(SubSeq(m, 1, n)) = n
      BY <3>4, <3>5
    <3> QED BY <3>3, <3>5, <3>6 DEF n
  <2>2. Remember(m, snap) = Append(Front(m), snap)
    BY <1>1 DEF Remember
  <2> QED BY <2>1, <2>2, AppendIs
<1>2. CASE ~(m # <<>> /\ Last(m).sync = snap.sync)
  <2>1. Remember(m, snap) = Keep(Append(m, snap), MaxSnapshots)
    BY <1>2 DEF Remember
  <2>2. Append(m, snap) \in Seq(Snapshot) /\ Append(m, snap) # <<>> /\ Last(Append(m, snap)) = snap
    BY AppendIs
  <2> QED BY <2>1, <2>2, KeepIs, ParameterTypes
<1> QED BY <1>1, <1>2

\* A finite set of integers has a greatest element.
LEMMA Greatest ==
  ASSUME NEW S \in SUBSET Int, IsFiniteSet(S), S # {}
  PROVE  \E x \in S : \A y \in S : x >= y
<1> DEFINE From(x) == {t \in S : x <= t}
           T == {From(x) : x \in S}
           R == StrictSubsetOrdering(S)
<1>1. IsWellFoundedOn(R, SUBSET S)
  BY FS_StrictSubsetOrderingWellFounded, FS_FiniteSubsetsOfFinite
<1>2. T \subseteq SUBSET S /\ T # {}
  OBVIOUS
<1>3. PICK U \in T : \A V \in T : ~(<<V, U>> \in R)
  <2> HIDE DEF T, R
  <2> QED BY <1>1, <1>2, WFMin
<1>4. PICK m \in S : U = From(m)
  OBVIOUS
<1>5. ASSUME NEW n \in S PROVE n <= m
  <2> SUFFICES ASSUME ~(n <= m) PROVE FALSE
    OBVIOUS
  <2>1. From(n) \in T /\ From(n) \subseteq S /\ From(m) \subseteq S
    OBVIOUS
  <2>2. m \in Int /\ n \in Int /\ m < n
    OBVIOUS
  <2>3. m \in From(m) /\ m \notin From(n)
    BY <2>2
  <2>4. \A t \in S : n <= t => m <= t
    <3>1. ASSUME NEW t \in S, n <= t PROVE m <= t
      <4>1. t \in Int
        OBVIOUS
      <4> QED BY <2>2, <3>1, <4>1
    <3> QED BY <3>1
  <2>5. From(n) \subseteq From(m)
    BY <2>4
  <2> HIDE DEF From
  <2>6. <<From(n), From(m)>> \in R
    BY <2>1, <2>3, <2>5 DEF StrictSubsetOrdering
  <2> HIDE DEF R, T
  <2> QED BY <1>3, <1>4, <2>1, <2>6
<1>6. ASSUME NEW y \in S PROVE m >= y
  <2>1. y \in Int /\ m \in Int /\ y <= m
    BY <1>5
  <2> QED BY <2>1
<1> QED BY <1>6

-----------------------------------------------------------------------------
(* Type correctness, one group of variables at a time.                     *)

File == [sync : Sync \cup {Unknown}, tracks : TracksType]
View == [at : 0..ClockBound,
         slots : [Person -> [slot : Slot \cup {Unknown}, stale : BOOLEAN]]]
Event == [line : DOMAIN lines, key : EventKey, target : Victim, who : Person \cup {Unknown},
          why : Reason \cup {"no_target", "no_slot", "no_source"},
          at : 0..ClockBound, epoch : 0..RestartBound, loop : Nat]

WorldOK ==
  /\ published \in Seq(File) /\ published # <<>>
  /\ shown \in Seq(View) /\ shown # <<>>
  /\ lines \in Seq(Candidate) /\ now \in 0..ClockBound

MemoryOK ==
  /\ persons \in TracksType
  /\ memory \in Seq(Snapshot) /\ Len(memory) <= MaxSnapshots
  /\ displays \in Seq(View) /\ Len(displays) <= MaxDisplays
  /\ loads \in Seq(Snapshot)

TailOK ==
  /\ pc \in {"load", "read", "process"}
  /\ started \in BOOLEAN /\ batch \subseteq DOMAIN lines
  /\ off \in 0..Len(lines) /\ skipped \in 0..off

OutputOK ==
  /\ seen \in [EventKey -> {Unknown} \cup 0..ClockBound]
  /\ epoch \in 0..RestartBound
  /\ dups \subseteq [line : DOMAIN lines, who : Person \cup {Unknown}]
  /\ events \in Seq(Event)

\* TypeOK says nothing of the contents of the files the service reads.
TypeInv == WorldOK /\ MemoryOK /\ TailOK /\ OutputOK

LEMMA TypeInvTypes == TypeInv => TypeOK
BY DEF TypeInv, WorldOK, MemoryOK, TailOK, OutputOK, TypeOK, Event

LEMMA TypeInit == Init => TypeInv
<1> SUFFICES ASSUME Init PROVE TypeInv
  OBVIOUS
<1>1. WorldOK
  <2>1. NoFile \in File
    BY DEF NoFile, File, TracksType
  <2>2. [at |-> 0, slots |-> NoSlots] \in View
    BY ParameterTypes DEF NoSlots, View
  <2>3. 0 \in 0..ClockBound
    BY ParameterTypes
  <2> QED BY <2>1, <2>2, <2>3 DEF Init, WorldOK
<1>2. MemoryOK
  <2>1. NoFile.tracks \in TracksType
    BY DEF NoFile, TracksType
  <2> DEFINE e == <<>>
  <2>2. e \in Seq(Snapshot) /\ e \in Seq(View) /\ Len(e) = 0
    OBVIOUS
  <2>3. memory = e /\ displays = e /\ loads = e /\ persons = NoFile.tracks
    BY DEF Init
  <2> HIDE DEF e
  <2> QED BY <2>1, <2>2, <2>3, ParameterTypes DEF MemoryOK
<1>3. TailOK
  <2>1. Len(lines) = 0 /\ batch = {} /\ off = 0 /\ skipped = 0 /\ 0 \in 0..0
    BY DEF Init
  <2> QED BY <2>1 DEF Init, TailOK
<1>4. OutputOK
  <2>1. seen \in [EventKey -> {Unknown} \cup 0..ClockBound]
    BY DEF Init
  <2>2. epoch \in 0..RestartBound
    BY ParameterTypes DEF Init
  <2> QED BY <2>1, <2>2 DEF Init, OutputOK
<1> QED BY <1>1, <1>2, <1>3, <1>4 DEF TypeInv

\* Candidates stay where they are, and an answer stays an answer to its line.
LEMMA LinesKept ==
  ASSUME TypeInv, [Next]_vars
  PROVE  /\ lines' \in Seq(Candidate) /\ DOMAIN lines \subseteq DOMAIN lines'
         /\ Len(lines) \in Nat /\ Len(lines') \in Nat /\ Len(lines) <= Len(lines')
         /\ \A i \in DOMAIN lines : lines'[i] = lines[i]
<1>1. lines \in Seq(Candidate) /\ Len(lines) \in Nat
  BY DEF TypeInv, WorldOK
<1>2. ASSUME NEW c \in Candidate, Report(c)
      PROVE  /\ lines' \in Seq(Candidate) /\ DOMAIN lines \subseteq DOMAIN lines'
             /\ Len(lines') \in Nat /\ Len(lines) <= Len(lines')
             /\ \A i \in DOMAIN lines : lines'[i] = lines[i]
  <2>1. lines' = Append(lines, c)
    BY <1>2 DEF Report
  <2> QED BY <1>1, <2>1, AppendIs
<1>3. ASSUME ~(\E c \in Candidate : Report(c)) PROVE lines' = lines
  <2>1. CASE UNCHANGED vars
    BY <2>1 DEF vars, world
  <2>2. CASE Environment
    <3>1. CASE \E t \in Sync, u \in Tracks : PublishPersons(t, u)
      BY <3>1 DEF PublishPersons
    <3>2. CASE \E p \in Person, slot \in Slot \cup {Unknown}, stale \in BOOLEAN : ShowSlot(p, slot, stale)
      BY <3>2 DEF ShowSlot
    <3>3. CASE Tick \/ Restart
      BY <3>3 DEF Tick, Restart, world
    <3> QED BY <1>3, <2>2, <3>1, <3>2, <3>3 DEF Environment
  <2>3. CASE Service
    <3>1. ASSUME NEW i \in batch, HandleCandidate(i) PROVE UNCHANGED world
      BY <3>1 DEF HandleCandidate, RejectTarget, RejectSlot, RejectSource, Reject, Attribute, WriteEvent
    <3>2. CASE LoadPersons \/ ReadCandidates \/ FinishPoll
      BY <3>2 DEF LoadPersons, ReadCandidates, FinishPoll, world
    <3> QED BY <2>3, <3>1, <3>2 DEF Service, world
  <2> QED BY <2>1, <2>2, <2>3 DEF Next
<1> QED BY <1>1, <1>2, <1>3

LEMMA WorldStep == TypeInv /\ [Next]_vars => WorldOK'
<1> SUFFICES ASSUME TypeInv, [Next]_vars PROVE WorldOK'
  OBVIOUS
<1>0. WorldOK /\ ClockBound \in Nat
  BY ParameterTypes DEF TypeInv
<1>1. ASSUME NEW s \in Sync, NEW t \in Tracks, PublishPersons(s, t) PROVE WorldOK'
  <2>1. [sync |-> s, tracks |-> t] \in File
    BY ParameterTypes DEF File
  <2>2. published' \in Seq(File) /\ published' # <<>>
    BY <1>0, <1>1, <2>1, AppendIs DEF PublishPersons, WorldOK
  <2> QED BY <1>0, <1>1, <2>2 DEF PublishPersons, WorldOK
<1>2. ASSUME NEW p \in Person, NEW slot \in Slot \cup {Unknown}, NEW stale \in BOOLEAN,
             ShowSlot(p, slot, stale)
      PROVE  WorldOK'
  <2> DEFINE new == [at |-> now,
               slots |-> [Last(shown).slots EXCEPT ![p] = [slot |-> slot, stale |-> stale]]]
  <2>1. Last(shown) \in View
    BY <1>0, LastIn DEF WorldOK
  <2>2. new \in View
    BY <1>0, <2>1 DEF View, WorldOK
  <2>3. shown' = Append(shown, new)
    BY <1>2 DEF ShowSlot
  <2> HIDE DEF new
  <2>4. shown' \in Seq(View) /\ shown' # <<>>
    BY <1>0, <2>2, <2>3, AppendIs DEF WorldOK
  <2> QED BY <1>0, <1>2, <2>4 DEF ShowSlot, WorldOK
<1>3. ASSUME NEW c \in Candidate, Report(c) PROVE WorldOK'
  BY <1>0, <1>3, LinesKept DEF Report, WorldOK
<1>4. CASE Tick
  BY <1>0, <1>4 DEF Tick, WorldOK
<1>5. ASSUME UNCHANGED world PROVE WorldOK'
  BY <1>0, <1>5 DEF WorldOK, world
<1>6. CASE Restart \/ UNCHANGED vars
  BY <1>5, <1>6 DEF Restart, vars
<1>7. CASE Service
  BY <1>5, <1>7, ZenonT(40) DEF Service, LoadPersons, ReadCandidates, HandleCandidate, RejectTarget,
     RejectSlot, RejectSource, Reject, Attribute, WriteEvent, FinishPoll
<1> QED BY <1>1, <1>2, <1>3, <1>4, <1>6, <1>7 DEF Next, Environment

LEMMA DisplaysIs ==
  ASSUME TypeInv
  PROVE  /\ Displays \in Seq(View) /\ Len(Displays) <= MaxDisplays
         /\ \A j \in DOMAIN Displays :
              \/ \E k \in DOMAIN displays : Displays[j] = displays[k]
              \/ Displays[j] = [at |-> now, slots |-> Last(shown).slots]
<1> DEFINE new == [at |-> now, slots |-> Last(shown).slots]
           all == Append(displays, new)
<1>1. Last(shown) \in View
  BY LastIn DEF TypeInv, WorldOK
<1>2. new \in View /\ displays \in Seq(View)
  BY <1>1 DEF View, TypeInv, WorldOK, MemoryOK
<1> HIDE DEF new
<1>3. all \in Seq(View) /\ all # <<>>
      /\ \A k \in DOMAIN all : all[k] = new \/ (k \in DOMAIN displays /\ all[k] = displays[k])
  BY <1>2, AppendIs
<1> HIDE DEF all
<1>4. Displays = Keep(all, MaxDisplays)
  BY DEF Displays, all, new
<1>5. /\ Displays \in Seq(View) /\ Len(Displays) <= MaxDisplays
      /\ \A j \in DOMAIN Displays : \E k \in DOMAIN all : Displays[j] = all[k]
  BY <1>3, <1>4, KeepIs, ParameterTypes
<1>6. ASSUME NEW j \in DOMAIN Displays
      PROVE  \/ \E k \in DOMAIN displays : Displays[j] = displays[k]
             \/ Displays[j] = new
  BY <1>3, <1>5
<1> QED BY <1>5, <1>6 DEF new

LEMMA MemoryStep == TypeInv /\ [Next]_vars => MemoryOK'
<1> SUFFICES ASSUME TypeInv, [Next]_vars PROVE MemoryOK'
  OBVIOUS
<1>0. MemoryOK
  BY DEF TypeInv
<1>1. CASE LoadPersons
  <2> DEFINE snap == [sync |-> Last(published).sync, tracks |-> Last(published).tracks, at |-> now]
  <2>1. Last(published) \in File /\ now \in 0..ClockBound
    BY LastIn DEF TypeInv, WorldOK
  <2>2. snap \in Snapshot /\ Last(published).tracks \in TracksType
    BY <2>1 DEF File, Snapshot
  <2>3. /\ persons' = Last(published).tracks
        /\ memory' = Remember(memory, snap)
        /\ loads' = IF loads # <<>> /\ Last(loads) = snap THEN loads ELSE Append(loads, snap)
        /\ displays' = displays
    BY <1>1 DEF LoadPersons
  <2> HIDE DEF snap
  <2>4. memory' \in Seq(Snapshot) /\ Len(memory') <= MaxSnapshots
    BY <1>0, <2>2, <2>3, RememberIs DEF MemoryOK
  <2>5. loads' \in Seq(Snapshot)
    BY <1>0, <2>2, <2>3, AppendIs DEF MemoryOK
  <2> QED BY <1>0, <2>2, <2>3, <2>4, <2>5 DEF MemoryOK
<1>2. ASSUME UNCHANGED <<persons, memory, loads>>, displays' = displays \/ displays' = Displays
      PROVE  MemoryOK'
  BY <1>0, <1>2, DisplaysIs DEF MemoryOK
<1>3. ASSUME NEW i \in batch, HandleCandidate(i) PROVE MemoryOK'
  BY <1>2, <1>3, ZenonT(40)
     DEF HandleCandidate, RejectTarget, RejectSlot, RejectSource, Reject, Attribute, WriteEvent
<1>4. CASE ReadCandidates \/ FinishPoll
  BY <1>2, <1>4 DEF ReadCandidates, FinishPoll
<1>5. CASE Restart
  <2> DEFINE e == <<>>
  <2>1. e \in Seq(Snapshot) /\ e \in Seq(View) /\ Len(e) = 0
    OBVIOUS
  <2>2. memory' = e /\ displays' = e /\ loads' = e /\ persons' = NoFile.tracks
    BY <1>5 DEF Restart
  <2>3. NoFile.tracks \in TracksType
    BY DEF NoFile, TracksType
  <2> HIDE DEF e
  <2> QED BY <2>1, <2>2, <2>3, ParameterTypes DEF MemoryOK
<1>6. CASE UNCHANGED vars
  BY <1>2, <1>6 DEF vars, service
<1>7. CASE Environment /\ ~Restart
  BY <1>2, <1>7 DEF Environment, PublishPersons, ShowSlot, Report, Tick, service
<1> QED BY <1>1, <1>3, <1>4, <1>5, <1>6, <1>7 DEF Next, Service

LEMMA TailStep == TypeInv /\ [Next]_vars => TailOK'
<1> SUFFICES ASSUME TypeInv, [Next]_vars PROVE TailOK'
  OBVIOUS
<1>0. TailOK /\ lines \in Seq(Candidate) /\ Len(lines) \in Nat
  BY DEF TypeInv, WorldOK
<1>1. CASE ReadCandidates
  <2> DEFINE from == IF started THEN off ELSE IF ReadExisting THEN 0 ELSE Len(lines)
             to   == IF from + MaxLines < Len(lines) THEN from + MaxLines ELSE Len(lines)
  <2>1. from \in 0..Len(lines)
    BY <1>0 DEF TailOK
  <2>2. to \in from..Len(lines)
    BY <1>0, <2>1, ParameterTypes
  <2>3. /\ pc' = "process" /\ off' = to /\ batch' = (from + 1)..to
        /\ skipped' = IF started THEN skipped ELSE from
        /\ started' \in {TRUE, started \/ lines # <<>>} /\ lines' = lines
    BY <1>1 DEF ReadCandidates, world
  <2>4. started => from = off
    OBVIOUS
  <2> HIDE DEF from, to
  <2>5. (from + 1)..to \subseteq 1..Len(lines) /\ DOMAIN lines = 1..Len(lines)
    BY <1>0, <2>1, <2>2
  <2>6. skipped' \in 0..to /\ to \in 0..Len(lines)
    BY <1>0, <2>1, <2>2, <2>3, <2>4 DEF TailOK
  <2>7. started' \in BOOLEAN
    BY <2>3
  <2> QED BY <2>3, <2>5, <2>6, <2>7 DEF TailOK
<1>2. ASSUME UNCHANGED tail, pc' \in {"load", "read", "process"} PROVE TailOK'
  BY <1>0, <1>2, LinesKept DEF TailOK, tail
<1>3. ASSUME NEW i \in batch, HandleCandidate(i) PROVE TailOK'
  <2>1. UNCHANGED <<lines, pc, started, off, skipped>> /\ batch' = batch \ {i}
    BY <1>3 DEF HandleCandidate, RejectTarget, RejectSlot, RejectSource, Reject, Attribute,
       WriteEvent, world
  <2> QED BY <1>0, <2>1 DEF TailOK
<1>4. CASE Restart
  <2>1. pc' = "load" /\ started' = FALSE /\ off' = 0 /\ batch' = {} /\ skipped' = 0
    BY <1>4 DEF Restart
  <2>2. 0 \in 0..Len(lines') /\ 0 \in 0..0
    BY LinesKept
  <2> QED BY <2>1, <2>2 DEF TailOK
<1>5. pc \in {"load", "read", "process"}
  BY <1>0 DEF TailOK
<1>6. CASE LoadPersons \/ FinishPoll
  BY <1>2, <1>6 DEF LoadPersons, FinishPoll
<1>7. CASE UNCHANGED vars
  BY <1>2, <1>5, <1>7 DEF vars, service
<1>8. CASE Environment /\ ~Restart
  <2>1. UNCHANGED service
    BY <1>8 DEF Environment, PublishPersons, ShowSlot, Report, Tick
  <2> QED BY <1>2, <1>5, <2>1 DEF service
<1> QED BY <1>1, <1>3, <1>4, <1>6, <1>7, <1>8 DEF Next, Service

-----------------------------------------------------------------------------
(* What the service writes for a candidate.                                *)

\* The slot shown for p: what the renderer says now, or what it said last.
LEMMA SlotCases ==
  ASSUME TypeInv, NEW p \in Person
  PROVE  \/ DisplayedSlot(p) = Unknown
         \/ Last(shown).slots[p].slot # Unknown /\ DisplayedSlot(p) = Last(shown).slots[p].slot
         \/ \E j \in DOMAIN Displays : /\ Remembers(Displays[j], p)
                                       /\ DisplayedSlot(p) = Displays[j].slots[p].slot
<1> DEFINE known == {i \in DOMAIN Displays : Remembers(Displays[i], p)}
           last  == CHOOSE i \in known : \A j \in known : j <= i
<1>1. Displays \in Seq(View)
  BY DisplaysIs
<1>2. ASSUME known # {} PROVE last \in known
  <2>1. known \subseteq 1..Len(Displays) /\ Len(Displays) \in Nat
    BY <1>1
  <2>2. IsFiniteSet(known) /\ known \in SUBSET Int
    <3>1. IsFiniteSet(1..Len(Displays))
      BY <2>1, FS_Interval
    <3>2. IsFiniteSet(known)
      BY <2>1, <3>1, FS_Subset
    <3> QED BY <2>1, <3>2
  <2>3. \E i \in known : \A j \in known : i >= j
    BY <1>2, <2>2, Greatest
  <2>4. \E i \in known : \A j \in known : j <= i
    BY <2>2, <2>3
  <2> QED BY <2>4
<1>3. DisplayedSlot(p) = IF Last(shown).slots[p].slot # Unknown
        THEN (IF Last(shown).slots[p].stale THEN Unknown ELSE Last(shown).slots[p].slot)
        ELSE IF known # {} THEN Displays[last].slots[p].slot ELSE Unknown
  BY DEF DisplayedSlot
<1>4. ASSUME known # {} PROVE last \in DOMAIN Displays /\ Remembers(Displays[last], p)
  BY <1>2, <1>4
<1> HIDE DEF known, last
<1> QED BY <1>3, <1>4

LEMMA SlotType ==
  ASSUME TypeInv, NEW p \in Person
  PROVE  /\ SlotOf(p) \in Slot \cup {Unknown} /\ (SlotOf(p) # Unknown => SlotOf(p) # Reserved)
         /\ (SlotOf(p) # Unknown => SlotOf(p) = DisplayedSlot(p))
<1>1. Last(shown).slots[p].slot \in Slot \cup {Unknown}
  <2>1. Last(shown) \in View
    BY LastIn DEF TypeInv, WorldOK
  <2> QED BY <2>1 DEF View
<1>2. ASSUME NEW j \in DOMAIN Displays PROVE Displays[j].slots[p].slot \in Slot \cup {Unknown}
  <2>1. Displays[j] \in View
    BY <1>2, DisplaysIs
  <2> QED BY <2>1 DEF View
<1>3. DisplayedSlot(p) \in Slot \cup {Unknown}
  BY <1>1, <1>2, SlotCases
<1> QED BY <1>3 DEF SlotOf

\* The key of a candidate, and the two ways it is made.
LEMMA KeyIs ==
  ASSUME NEW c \in CandidateType, NEW target \in Victim,
         NEW source \in Person \cup {DefaultSource, Unknown}
  PROVE  /\ KeyOf(c, target, source) \in EventKey
         /\ c.eid # Unknown => Len(KeyOf(c, target, source)) = 1
         /\ c.eid = Unknown => /\ Len(KeyOf(c, target, source)) = 3
                               /\ KeyOf(c, target, source)[1] = c.shot
                               /\ KeyOf(c, target, source)[2] = target
<1>1. c.shot \in Shot /\ (c.eid # Unknown => c.eid \in EventId)
  BY DEF CandidateType
<1>2. CASE c.eid # Unknown
  <2>1. KeyOf(c, target, source) = <<c.eid>>
    BY <1>2 DEF KeyOf
  <2>2. <<c.eid>> \in EventKey
    BY <1>1, <1>2 DEF EventKey
  <2> QED BY <1>2, <2>1, <2>2
<1>3. CASE c.eid = Unknown
  <2>1. KeyOf(c, target, source) = <<c.shot, target, source>>
    BY <1>3 DEF KeyOf
  <2>2. <<c.shot, target, source>> \in EventKey
    BY <1>1 DEF EventKey
  <2> QED BY <1>3, <2>1, <2>2
<1> QED BY <1>2, <1>3

\* Line i is answered with this key, for this victim and for this reason.
Answer(i, key, target, who, why) ==
  /\ WriteEvent(i, key, target, who, why) /\ NextLine(i)
  /\ lines[i].eid # Unknown => Len(key) = 1
  /\ lines[i].eid = Unknown => Len(key) = 3 /\ key[1] = lines[i].shot /\ key[2] = target
  /\ (who = Unknown <=> target = Unknown) /\ (~UsesSlots => target = who)
  /\ UsesSlots /\ who # Unknown => target = SlotOf(who) /\ displays' = Displays
  /\ why \in Reason => who \in Person /\ Target(lines[i], who, why)
  /\ why = "no_target" => NoTarget(lines[i])

LEMMA Answers ==
  ASSUME TypeInv, NEW i \in batch, HandleCandidate(i)
  PROVE  \E key \in EventKey, target \in Victim, who \in Person \cup {Unknown},
            why \in Reason \cup {"no_target", "no_slot", "no_source"} : Answer(i, key, target, who, why)
<1>1. lines[i] \in CandidateType /\ lines[i].shot \in Shot
  <2>1. lines[i] \in CandidateType
    BY ParameterTypes DEF TypeInv, WorldOK, TailOK
  <2> QED BY <2>1 DEF CandidateType
<1>2. \A k \in EventKey : TRUE
  OBVIOUS
<1>3. ASSUME NEW why \in {"no_target", "no_slot", "no_source"}, Reject(i, why), NextLine(i),
             why = "no_target" => NoTarget(lines[i])
      PROVE  \E key \in EventKey : Answer(i, key, Unknown, Unknown, why)
  <2> DEFINE key == KeyOf(lines[i], Unknown, Unknown)
  <2>1. Unknown \in Victim /\ Unknown \in Person \cup {DefaultSource, Unknown}
    BY DEF Victim
  <2>2. /\ key \in EventKey
        /\ lines[i].eid # Unknown => Len(key) = 1
        /\ lines[i].eid = Unknown => Len(key) = 3 /\ key[1] = lines[i].shot /\ key[2] = Unknown
    BY <1>1, <2>1, KeyIs
  <2>4. WriteEvent(i, key, Unknown, Unknown, why)
    BY <1>3 DEF Reject
  <2>5. why \notin Reason
    BY DEF Reason
  <2> HIDE DEF key
  <2> QED BY <1>3, <2>2, <2>4, <2>5 DEF Answer
<1>4. ASSUME Attribute(i)
      PROVE  \E key \in EventKey, target \in Victim, who \in Person, why \in Reason : Answer(i, key, target, who, why)
  <2>1. PICK p \in Person, why \in Reason : \E source \in Sources(p) :
          LET target == IF UsesSlots THEN SlotOf(p) ELSE p
          IN  /\ Target(lines[i], p, why) /\ target # Unknown
              /\ WriteEvent(i, KeyOf(lines[i], target, source), target, p, why)
    BY <1>4 DEF Attribute
  <2> DEFINE target == IF UsesSlots THEN SlotOf(p) ELSE p
  <2>2. PICK source \in Sources(p) :
          /\ Target(lines[i], p, why) /\ target # Unknown
          /\ WriteEvent(i, KeyOf(lines[i], target, source), target, p, why)
    BY <2>1
  <2>3. target \in Victim
    BY SlotType DEF Victim
  <2>4. source \in Person \cup {DefaultSource, Unknown}
    BY <2>2 DEF Sources
  <2>5. NextLine(i) /\ (UsesSlots => displays' = Displays)
    BY <1>4 DEF Attribute
  <2>6. p # Unknown
    BY ParameterTypes DEF Unknown
  <2>7. (UsesSlots => target = SlotOf(p)) /\ (~UsesSlots => target = p)
    OBVIOUS
  <2> HIDE DEF target
  <2> DEFINE key == KeyOf(lines[i], target, source)
  <2>8. /\ key \in EventKey
        /\ lines[i].eid # Unknown => Len(key) = 1
        /\ lines[i].eid = Unknown => Len(key) = 3 /\ key[1] = lines[i].shot /\ key[2] = target
    BY <1>1, <2>3, <2>4, KeyIs
  <2>11. WriteEvent(i, key, target, p, why)
    BY <2>2
  <2> HIDE DEF key
  <2>12. why # "no_target"
    BY DEF Reason
  <2>13. Answer(i, key, target, p, why)
    BY <2>2, <2>5, <2>6, <2>7, <2>8, <2>11, <2>12 DEF Answer
  <2> QED BY <2>3, <2>8, <2>13
<1>5. CASE RejectTarget(i)
  <2>1. Reject(i, "no_target") /\ NextLine(i) /\ NoTarget(lines[i])
    BY <1>5 DEF RejectTarget
  <2> QED BY <1>3, <2>1 DEF Victim
<1>6. CASE RejectSlot(i)
  <2>1. Reject(i, "no_slot") /\ NextLine(i)
    BY <1>6 DEF RejectSlot
  <2> QED BY <1>3, <2>1 DEF Victim
<1>7. CASE RejectSource(i)
  <2>1. Reject(i, "no_source") /\ NextLine(i)
    BY <1>7 DEF RejectSource
  <2> QED BY <1>3, <2>1 DEF Victim
<1> QED BY <1>4, <1>5, <1>6, <1>7 DEF HandleCandidate

\* An answer is a new event or a duplicate, and the filter knows which.
LEMMA AnswerEffect ==
  ASSUME TypeInv, NEW i \in batch, NEW key \in EventKey, NEW target, NEW who, NEW why,
         WriteEvent(i, key, target, who, why)
  PROVE  /\ \A k \in EventKey : seen'[k] = Unknown => seen[k] = Unknown \/ now - seen[k] > Ttl
         /\ \A k \in EventKey \ {key} : seen'[k] \in {seen[k], Unknown}
         /\ seen' \in [EventKey -> {Unknown} \cup 0..ClockBound]
         /\ \/ /\ events' = events /\ seen[key] # Unknown /\ seen'[key] \in {seen[key], Unknown}
               /\ dups' = dups \cup {[line |-> i, who |-> who]}
            \/ /\ events' = Append(events, [line |-> i, key |-> key, target |-> target, who |-> who, why |-> why,
                                            at |-> now, epoch |-> epoch, loop |-> Len(loads)])
               /\ dups' = dups /\ seen'[key] = now
               /\ seen[key] = Unknown \/ now - seen[key] > Ttl
         /\ UNCHANGED <<world, pc, persons, memory, loads, started, off, skipped, epoch>>
         /\ batch' = batch \ {i}
<1>1. PICK X \in SUBSET Expired :
       \/ /\ key \in Remembered(X)
          /\ seen' = [k \in EventKey |-> IF k \in X THEN Unknown ELSE seen[k]]
          /\ dups' = dups \cup {[line |-> i, who |-> who]}
          /\ UNCHANGED events
       \/ /\ key \notin Remembered(X)
          /\ seen' = [k \in EventKey |-> IF k = key THEN now
                                          ELSE IF k \in X THEN Unknown ELSE seen[k]]
          /\ events' = Append(events, [line |-> i, key |-> key, target |-> target, who |-> who, why |-> why,
                                       at |-> now, epoch |-> epoch, loop |-> Len(loads)])
          /\ UNCHANGED dups
  BY DEF WriteEvent
<1>2. \A k \in X : k \in EventKey /\ seen[k] # Unknown /\ now - seen[k] > Ttl
  BY DEF Expired
<1>3. seen \in [EventKey -> {Unknown} \cup 0..ClockBound] /\ now \in 0..ClockBound /\ now # Unknown
  BY DEF TypeInv, WorldOK, OutputOK, Unknown
<1>4. batch' = batch \ {i} /\ UNCHANGED <<world, pc, persons, memory, loads, started, off, skipped, epoch>>
  BY DEF WriteEvent
<1>5. CASE /\ key \in Remembered(X)
           /\ seen' = [k \in EventKey |-> IF k \in X THEN Unknown ELSE seen[k]]
           /\ dups' = dups \cup {[line |-> i, who |-> who]}
           /\ UNCHANGED events
  BY <1>2, <1>3, <1>4, <1>5 DEF Remembered
<1>6. CASE /\ key \notin Remembered(X)
           /\ seen' = [k \in EventKey |-> IF k = key THEN now
                                          ELSE IF k \in X THEN Unknown ELSE seen[k]]
           /\ events' = Append(events, [line |-> i, key |-> key, target |-> target, who |-> who, why |-> why,
                                        at |-> now, epoch |-> epoch, loop |-> Len(loads)])
           /\ UNCHANGED dups
  <2>1. seen[key] = Unknown \/ now - seen[key] > Ttl
    BY <1>2, <1>6 DEF Remembered
  <2>2. seen'[key] = now
    BY <1>6
  <2>3. \A k \in EventKey \ {key} : seen'[k] = IF k \in X THEN Unknown ELSE seen[k]
    BY <1>6
  <2>4. seen' \in [EventKey -> {Unknown} \cup 0..ClockBound]
    BY <1>3, <1>6
  <2> QED BY <1>2, <1>3, <1>4, <1>6, <2>1, <2>2, <2>3, <2>4
<1> QED BY <1>1, <1>5, <1>6

\* Every other step leaves the answers alone, except that a restart forgets
\* what was remembered of them.
LEMMA NoAnswer ==
  ASSUME [Next]_vars, ~(\E i \in batch : HandleCandidate(i))
  PROVE  /\ events' = events
         /\ Restart \/ UNCHANGED <<seen, dups, epoch>>
<1>1. CASE UNCHANGED vars
  BY <1>1 DEF vars, service, output
<1>2. CASE Restart
  BY <1>2 DEF Restart
<1>3. CASE LoadPersons \/ ReadCandidates \/ FinishPoll
  BY <1>3 DEF LoadPersons, ReadCandidates, FinishPoll, output
<1>4. CASE Environment /\ ~Restart
  <2>1. UNCHANGED service
    BY <1>4 DEF Environment, PublishPersons, ShowSlot, Report, Tick
  <2> QED BY <2>1 DEF service, output
<1> QED BY <1>1, <1>2, <1>3, <1>4 DEF Next, Service

LEMMA OutputStep == TypeInv /\ [Next]_vars => OutputOK'
<1> SUFFICES ASSUME TypeInv, [Next]_vars PROVE OutputOK'
  OBVIOUS
<1>0. OutputOK /\ lines \in Seq(Candidate) /\ now \in 0..ClockBound /\ TailOK
  BY DEF TypeInv, WorldOK
<1>1. events \in Seq(Event') /\ dups \subseteq [line : DOMAIN lines', who : Person \cup {Unknown}]
  <2>1. DOMAIN lines \subseteq DOMAIN lines'
    BY LinesKept
  <2>2. \A e \in Event : e \in Event'
    BY <2>1 DEF Event
  <2> QED BY <1>0, <2>1, <2>2 DEF OutputOK
<1>2. ASSUME NEW i \in batch, HandleCandidate(i) PROVE OutputOK'
  <2>1. PICK key \in EventKey, target \in Victim, who \in Person \cup {Unknown},
            why \in Reason \cup {"no_target", "no_slot", "no_source"} : Answer(i, key, target, who, why)
    BY <1>2, Answers
  <2> DEFINE e == [line |-> i, key |-> key, target |-> target, who |-> who, why |-> why,
                   at |-> now, epoch |-> epoch, loop |-> Len(loads)]
  <2>2. WriteEvent(i, key, target, who, why)
    BY <2>1 DEF Answer
  <2>3. /\ seen' \in [EventKey -> {Unknown} \cup 0..ClockBound] /\ epoch' = epoch
        /\ \/ events' = events /\ dups' = dups \cup {[line |-> i, who |-> who]}
           \/ events' = Append(events, e) /\ dups' = dups
    BY <2>2, AnswerEffect
  <2>4. i \in DOMAIN lines'
    BY <1>0, LinesKept DEF TailOK
  <2>5. Len(loads) \in Nat
    BY DEF TypeInv, MemoryOK
  <2>6. e \in Event'
    BY <1>0, <2>4, <2>5 DEF Event, OutputOK
  <2> HIDE DEF e
  <2>7. Append(events, e) \in Seq(Event')
    BY <1>1, <2>6
  <2>8. events' \in Seq(Event') /\ dups' \subseteq [line : DOMAIN lines', who : Person \cup {Unknown}]
    BY <1>1, <2>3, <2>4, <2>7
  <2> QED BY <1>0, <2>3, <2>8 DEF OutputOK
<1>3. CASE Restart
  <2>1. /\ seen' = [k \in EventKey |-> Unknown] /\ dups' = {} /\ events' = events
        /\ epoch < RestartBound /\ epoch' = epoch + 1
    BY <1>3 DEF Restart
  <2>2. epoch' \in 0..RestartBound
    BY <1>0, <2>1, ParameterTypes DEF OutputOK
  <2>3. seen' \in [EventKey -> {Unknown} \cup 0..ClockBound]
    BY <2>1
  <2> QED BY <1>1, <2>1, <2>2, <2>3 DEF OutputOK
<1>4. CASE UNCHANGED <<seen, dups, epoch, events>>
  BY <1>0, <1>1, <1>4 DEF OutputOK
<1> QED BY <1>2, <1>3, <1>4, NoAnswer

LEMMA TypeStep == TypeInv /\ [Next]_vars => TypeInv'
BY WorldStep, MemoryStep, TailStep, OutputStep DEF TypeInv

LEMMA TypeAlways == Spec => []TypeInv
BY TypeInit, TypeStep, PTL DEF Spec

\* The types of DamageAttribution hold in every reachable state.
THEOREM AttributionTypes == Spec => []TypeOK
BY TypeAlways, TypeInvTypes, PTL

-----------------------------------------------------------------------------
(* The duplicate filter.                                                   *)

\* Of the events of this incarnation the filter remembers the last of each
\* key, or the time to live of all of them is over.
FilterInv ==
  \A n \in DOMAIN events :
    /\ events[n].at <= now /\ events[n].epoch <= epoch
    /\ events[n].epoch = epoch =>
         \/ now - events[n].at > Ttl
         \/ seen[events[n].key] # Unknown /\ seen[events[n].key] >= events[n].at

\* What is known of an event of the file.
LEMMA EventTypes ==
  ASSUME TypeInv, NEW n \in DOMAIN events
  PROVE  /\ events[n] \in Event /\ events[n].key \in EventKey
         /\ events[n].at \in Nat /\ events[n].epoch \in Nat /\ events[n].loop \in Nat
         /\ events[n].line \in DOMAIN lines /\ events[n].who \in Person \cup {Unknown}
         /\ now \in Nat /\ epoch \in Nat
         /\ seen[events[n].key] \in Nat \cup {Unknown}
<1>1. events[n] \in Event /\ now \in Nat /\ epoch \in Nat
  BY ParameterTypes DEF TypeInv, WorldOK, OutputOK
<1>2. \A k \in EventKey : seen[k] \in Nat \cup {Unknown}
  BY ParameterTypes DEF TypeInv, OutputOK
<1> QED BY <1>1, <1>2, ParameterTypes DEF Event

\* The new event, if there is one.
LEMMA NewEvent ==
  ASSUME TypeInv, NEW i \in batch, NEW key \in EventKey, NEW target, NEW who, NEW why,
         WriteEvent(i, key, target, who, why), events' # events
  PROVE  /\ DOMAIN events' = DOMAIN events \cup {Len(events) + 1}
         /\ DOMAIN events = 1..Len(events) /\ Len(events) \in Nat
         /\ \A n \in DOMAIN events : events'[n] = events[n]
         /\ events'[Len(events) + 1] =
              [line |-> i, key |-> key, target |-> target, who |-> who, why |-> why,
               at |-> now, epoch |-> epoch, loop |-> Len(loads)]
         /\ events' = Append(events, [line |-> i, key |-> key, target |-> target, who |-> who, why |-> why,
                                      at |-> now, epoch |-> epoch, loop |-> Len(loads)])
<1> DEFINE e == [line |-> i, key |-> key, target |-> target, who |-> who, why |-> why,
                 at |-> now, epoch |-> epoch, loop |-> Len(loads)]
<1>1. events' = Append(events, e)
  BY AnswerEffect
<1>2. events \in Seq(Event \cup {e}) /\ e \in Event \cup {e}
  BY DEF TypeInv, OutputOK
<1> HIDE DEF e
<1>3. /\ DOMAIN events' = 1..(Len(events) + 1) /\ DOMAIN events = 1..Len(events) /\ Len(events) \in Nat
      /\ (\A n \in DOMAIN events : events'[n] = events[n]) /\ events'[Len(events) + 1] = e
  BY <1>1, <1>2, AppendIs
<1>4. DOMAIN events' = DOMAIN events \cup {Len(events) + 1}
  BY <1>3
<1> QED BY <1>1, <1>3, <1>4 DEF e

LEMMA FilterStep == TypeInv /\ FilterInv /\ [Next]_vars => FilterInv'
<1> SUFFICES ASSUME TypeInv, FilterInv, [Next]_vars PROVE FilterInv'
  OBVIOUS
<1>0. Ttl \in Nat /\ now \in Nat /\ epoch \in Nat /\ now # Unknown
  BY ParameterTypes DEF TypeInv, WorldOK, OutputOK, Unknown
<1>1. ASSUME NEW i \in batch, HandleCandidate(i) PROVE FilterInv'
  <2>1. PICK key \in EventKey, target \in Victim, who \in Person \cup {Unknown},
            why \in Reason \cup {"no_target", "no_slot", "no_source"} : Answer(i, key, target, who, why)
    BY <1>1, Answers
  <2>2. WriteEvent(i, key, target, who, why)
    BY <2>1 DEF Answer
  <2>3. now' = now /\ epoch' = epoch
    BY <2>2, AnswerEffect DEF world
  <2>4. ASSUME NEW n \in DOMAIN events
        PROVE  /\ events[n].at <= now /\ events[n].epoch <= epoch
               /\ events[n].epoch = epoch =>
                    \/ now - events[n].at > Ttl
                    \/ seen'[events[n].key] # Unknown /\ seen'[events[n].key] >= events[n].at
    <3>0. events[n].at \in Nat /\ seen[events[n].key] \in Nat \cup {Unknown}
          /\ events[n].key \in EventKey
      BY <2>4, EventTypes
    <3>1. /\ events[n].at <= now /\ events[n].epoch <= epoch
          /\ events[n].epoch = epoch =>
               \/ now - events[n].at > Ttl
               \/ seen[events[n].key] # Unknown /\ seen[events[n].key] >= events[n].at
      BY <2>4 DEF FilterInv
    <3>2. /\ seen'[events[n].key] \in {seen[events[n].key], Unknown, now}
          /\ seen'[events[n].key] = Unknown =>
               seen[events[n].key] = Unknown \/ now - seen[events[n].key] > Ttl
      BY <2>2, <3>0, AnswerEffect
    <3> QED BY <1>0, <3>0, <3>1, <3>2
  <2>5. CASE events' = events
    BY <2>3, <2>4, <2>5 DEF FilterInv
  <2>6. CASE events' # events
    <3>1. seen'[key] = now
      BY <2>2, <2>6, AnswerEffect
    <3>2. ASSUME NEW n \in DOMAIN events'
          PROVE  /\ events'[n].at <= now /\ events'[n].epoch <= epoch
                 /\ events'[n].epoch = epoch =>
                      \/ now - events'[n].at > Ttl
                      \/ seen'[events'[n].key] # Unknown /\ seen'[events'[n].key] >= events'[n].at
      <4>1. CASE n \in DOMAIN events
        <5>1. events'[n] = events[n]
          BY <2>2, <2>6, <4>1, NewEvent
        <5> QED BY <2>4, <4>1, <5>1
      <4>2. CASE n = Len(events) + 1
        <5>1. events'[Len(events) + 1] =
                [line |-> i, key |-> key, target |-> target, who |-> who, why |-> why,
                 at |-> now, epoch |-> epoch, loop |-> Len(loads)]
          BY <2>2, <2>6, NewEvent
        <5>2. events'[n].at = now /\ events'[n].epoch = epoch /\ events'[n].key = key
          BY <4>2, <5>1
        <5> QED BY <1>0, <3>1, <5>2
      <4> QED BY <2>2, <2>6, <3>2, <4>1, <4>2, NewEvent
    <3> QED BY <2>3, <3>2 DEF FilterInv
  <2> QED BY <2>5, <2>6
<1>2. CASE Restart
  <2>1. events' = events /\ epoch' = epoch + 1 /\ now' = now
    BY <1>2 DEF Restart, world
  <2>2. ASSUME NEW n \in DOMAIN events
        PROVE  events[n].at <= now /\ events[n].epoch <= epoch + 1 /\ events[n].epoch # epoch + 1
    BY <1>0, <2>2, EventTypes DEF FilterInv
  <2> QED BY <2>1, <2>2 DEF FilterInv
<1>3. CASE Tick
  <2>1. events' = events /\ epoch' = epoch /\ now' = now + 1 /\ seen' = seen
    BY <1>3 DEF Tick, service, output
  <2>2. ASSUME NEW n \in DOMAIN events
        PROVE  events[n].at <= now + 1
               /\ (now - events[n].at > Ttl => now + 1 - events[n].at > Ttl)
    <3>1. events[n].at \in Nat
      BY <2>2, EventTypes
    <3>2. events[n].at <= now
      BY <2>2 DEF FilterInv
    <3> QED BY <1>0, <3>1, <3>2
  <2>3. ASSUME NEW n \in DOMAIN events
        PROVE  /\ events[n].at <= now + 1 /\ events[n].epoch <= epoch
               /\ events[n].epoch = epoch =>
                    \/ now + 1 - events[n].at > Ttl
                    \/ seen[events[n].key] # Unknown /\ seen[events[n].key] >= events[n].at
    BY <2>2, <2>3 DEF FilterInv
  <2>4. ASSUME NEW n \in DOMAIN events'
        PROVE  /\ events'[n].at <= now' /\ events'[n].epoch <= epoch'
               /\ events'[n].epoch = epoch' =>
                    \/ now' - events'[n].at > Ttl
                    \/ seen'[events'[n].key] # Unknown /\ seen'[events'[n].key] >= events'[n].at
    <3>1. n \in DOMAIN events /\ events'[n] = events[n]
      BY <2>1, <2>4
    <3>2. events[n].at \in Nat /\ seen[events[n].key] \in Nat \cup {Unknown} /\ events[n].epoch \in Nat
      BY <3>1, EventTypes
    <3> DEFINE a == events[n].at
               s == seen[events[n].key]
               e == events[n].epoch
    <3>3. /\ a <= now + 1 /\ e <= epoch
          /\ e = epoch => \/ now + 1 - a > Ttl
                          \/ s # Unknown /\ s >= a
      BY <2>3, <3>1
    <3>4. events'[n].at = a /\ events'[n].epoch = e /\ seen'[events'[n].key] = s
          /\ now' = now + 1 /\ epoch' = epoch
      BY <2>1, <3>1
    <3>5. a \in Nat /\ s \in Nat \cup {Unknown} /\ e \in Nat
      BY <3>2
    <3> HIDE DEF a, s, e
    <3> QED BY <1>0, <3>3, <3>4, <3>5 DEF Unknown
  <2> QED BY <2>4 DEF FilterInv
<1>4. CASE UNCHANGED <<events, seen, epoch, now>>
  BY <1>4 DEF FilterInv
<1>5. ASSUME ~(\E i \in batch : HandleCandidate(i)), ~Restart, ~Tick
      PROVE  UNCHANGED <<events, seen, epoch, now>>
  <2>1. UNCHANGED <<events, seen, epoch>>
    BY <1>5, NoAnswer
  <2>2. CASE UNCHANGED vars
    BY <2>1, <2>2 DEF vars, world
  <2>3. CASE Service
    BY <1>5, <2>1, <2>3 DEF Service, LoadPersons, ReadCandidates, FinishPoll, world
  <2>4. CASE Environment
    BY <1>5, <2>1, <2>4 DEF Environment, PublishPersons, ShowSlot, Report
  <2> QED BY <2>2, <2>3, <2>4 DEF Next
<1> QED BY <1>1, <1>2, <1>3, <1>4, <1>5

LEMMA FilterAlways == Spec => [](TypeInv /\ FilterInv)
<1>1. Init => FilterInv
  BY DEF Init, FilterInv
<1>2. TypeInv /\ FilterInv /\ [Next]_vars => (TypeInv /\ FilterInv)'
  BY TypeStep, FilterStep
<1> QED BY <1>1, <1>2, TypeInit, PTL DEF Spec

-----------------------------------------------------------------------------
(* The refinement of HitOutlet.                                            *)

Hits == [n \in DOMAIN events |->
           [key |-> events[n].key, at |-> events[n].at, epoch |-> events[n].epoch]]

LEMMA PublishStep ==
  ASSUME TypeInv, FilterInv, NEW i \in batch, NEW key \in EventKey, NEW target, NEW who, NEW why,
         WriteEvent(i, key, target, who, why), events' # events
  PROVE  Outlet!Publish(key)
<1>1. /\ DOMAIN events' = DOMAIN events \cup {Len(events) + 1}
      /\ DOMAIN events = 1..Len(events) /\ Len(events) \in Nat
      /\ \A n \in DOMAIN events : events'[n] = events[n]
      /\ events'[Len(events) + 1] =
           [line |-> i, key |-> key, target |-> target, who |-> who, why |-> why,
            at |-> now, epoch |-> epoch, loop |-> Len(loads)]
  BY NewEvent
<1>2. Outlet!Fresh(key)
  <2>1. seen[key] = Unknown \/ now - seen[key] > Ttl
    BY AnswerEffect
  <2>2. ASSUME NEW n \in DOMAIN events, events[n].key = key, events[n].epoch = epoch
        PROVE  now - events[n].at > Ttl
    <3>1. events[n].at \in Nat /\ seen[events[n].key] \in Nat \cup {Unknown} /\ now \in Nat
      BY <2>2, EventTypes
    <3>2. \/ now - events[n].at > Ttl
          \/ seen[events[n].key] # Unknown /\ seen[events[n].key] >= events[n].at
      BY <2>2 DEF FilterInv
    <3> QED BY <2>1, <2>2, <3>1, <3>2, ParameterTypes
  <2>3. \A n \in DOMAIN Hits : Hits[n].key = events[n].key /\ Hits[n].at = events[n].at
                               /\ Hits[n].epoch = events[n].epoch
    BY DEF Hits
  <2> QED BY <2>2 DEF Outlet!Fresh
<1>3. Hits' = Append(Hits, [key |-> key, at |-> now, epoch |-> epoch])
  <2>1. DOMAIN events' = 1..(Len(events) + 1)
    BY <1>1
  <2>2. Len(Hits) = Len(events) /\ Hits \in Seq({Hits[n] : n \in DOMAIN events})
    BY <1>1 DEF Hits
  <2>3. \A n \in DOMAIN events : Hits'[n] = Hits[n]
    BY <1>1, <2>1 DEF Hits
  <2>4. Hits'[Len(events) + 1] = [key |-> key, at |-> now, epoch |-> epoch]
    BY <1>1, <2>1 DEF Hits
  <2>5. Hits' = [n \in 1..(Len(events) + 1) |-> Hits'[n]]
    BY <2>1 DEF Hits
  <2>6. Append(Hits, [key |-> key, at |-> now, epoch |-> epoch])
          = [n \in 1..(Len(events) + 1) |->
               IF n = Len(events) + 1 THEN [key |-> key, at |-> now, epoch |-> epoch]
                                      ELSE Hits[n]]
    BY <2>2
  <2> HIDE DEF Hits
  <2> QED BY <1>1, <2>3, <2>4, <2>5, <2>6
<1>4. now' = now /\ epoch' = epoch
  BY AnswerEffect DEF world
<1> QED BY <1>2, <1>3, <1>4 DEF Outlet!Publish, Hits

LEMMA OutletStep ==
  TypeInv /\ FilterInv /\ [Next]_vars => [Outlet!Next]_(Outlet!vars)
<1> SUFFICES ASSUME TypeInv, FilterInv, [Next]_vars
             PROVE  Outlet!Next \/ UNCHANGED Outlet!vars
  OBVIOUS
<1>1. ASSUME UNCHANGED <<events, now, epoch>> PROVE UNCHANGED Outlet!vars
  BY <1>1 DEF Outlet!vars
<1>2. ASSUME NEW i \in batch, HandleCandidate(i) PROVE Outlet!Next \/ UNCHANGED Outlet!vars
  <2>1. PICK key \in EventKey, target \in Victim, who \in Person \cup {Unknown},
            why \in Reason \cup {"no_target", "no_slot", "no_source"} : Answer(i, key, target, who, why)
    BY <1>2, Answers
  <2>2. WriteEvent(i, key, target, who, why)
    BY <2>1 DEF Answer
  <2>3. CASE events' # events
    <3>1. Outlet!Publish(key)
      BY <2>2, <2>3, PublishStep
    <3> QED BY <3>1 DEF Outlet!Next
  <2>4. CASE events' = events
    BY <1>1, <2>2, <2>4, AnswerEffect DEF world
  <2> QED BY <2>3, <2>4
<1>3. CASE Tick
  BY <1>3 DEF Tick, service, output, Outlet!Next, Outlet!Tick
<1>4. CASE Restart
  BY <1>4 DEF Restart, world, Outlet!Next, Outlet!Restart
<1>5. ASSUME ~(\E i \in batch : HandleCandidate(i)), ~Restart, ~Tick
      PROVE  UNCHANGED Outlet!vars
  <2>1. UNCHANGED <<events, epoch>>
    BY <1>5, NoAnswer
  <2>2. CASE UNCHANGED vars
    BY <1>1, <2>1, <2>2 DEF vars, world
  <2>3. CASE Service
    BY <1>1, <1>5, <2>1, <2>3 DEF Service, LoadPersons, ReadCandidates, FinishPoll, world
  <2>4. CASE Environment
    BY <1>1, <1>5, <2>1, <2>4 DEF Environment, PublishPersons, ShowSlot, Report
  <2> QED BY <2>2, <2>3, <2>4 DEF Next
<1> QED BY <1>2, <1>3, <1>4, <1>5

\* To the readers of its events file the service is the abstract outlet: each
\* of its steps is a step of HitOutlet or leaves the outlet as it is, whatever
\* the purge leaves behind (_dedup).
THEOREM AttributionImplementsOutlet == Spec => ImplementsOutlet
<1>1. Init => Outlet!Init
  <2>1. Init => Hits = << >>
    BY DEF Init, Hits
  <2> QED BY <2>1 DEF Init, Hits, Outlet!Init
<1> QED BY <1>1, FilterAlways, OutletStep, PTL DEF Spec, Outlet!Spec, ImplementsOutlet

-----------------------------------------------------------------------------
(* A hit is hidden only by a hit.                                          *)

\* Lines are answered in the order of the file: those answered by this
\* incarnation lie before the rest of the batch, and before the offset.
OrderInv ==
  /\ pc # "process" => batch = {}
  /\ ~started => batch = {} /\ Mine = {}
  /\ \A j \in batch : j <= off
  /\ \A n \in Mine : events[n].line <= off /\ (\A j \in batch : events[n].line < j)

\* What a key says of its event, and that the filter knows no other keys.
KeysInv ==
  /\ \A n \in DOMAIN events :
       LET e == events[n] IN
         /\ CandidateOf(e).eid # Unknown => Len(e.key) = 1
         /\ CandidateOf(e).eid = Unknown =>
              Len(e.key) = 3 /\ e.key[1] = CandidateOf(e).shot /\ e.key[2] = e.target
         /\ (e.who = Unknown <=> e.target = Unknown) /\ (~UsesSlots => e.target = e.who)
  /\ \A k \in EventKey : seen[k] # Unknown => \E n \in Mine : events[n].key = k

HiddenInv == OrderInv /\ KeysInv /\ HitHiddenOnlyByHit

\* Mine is an incarnation's own: no event is newer.
LEMMA MineAfterRestart ==
  ASSUME TypeInv, FilterInv, Restart
  PROVE  Mine' = {}
<1>1. events' = events /\ epoch' = epoch + 1
  BY DEF Restart
<1>2. ASSUME NEW n \in DOMAIN events PROVE events[n].epoch # epoch + 1
  <2>1. events[n].epoch \in Nat /\ epoch \in Nat /\ events[n].epoch <= epoch
    BY EventTypes DEF FilterInv
  <2> QED BY <2>1
<1> QED BY <1>1, <1>2 DEF Mine

LEMMA HiddenAnswer ==
  ASSUME TypeInv, HiddenInv, NEW i \in batch, NEW key \in EventKey,
         NEW target, NEW who \in Person \cup {Unknown}, NEW why, Answer(i, key, target, who, why)
  PROVE  HiddenInv'
<1>0. WriteEvent(i, key, target, who, why) /\ NextLine(i)
  BY DEF Answer
<1>1. /\ UNCHANGED <<lines, pc, started, off, epoch>> /\ batch' = batch \ {i}
      /\ dups \subseteq dups'
  BY <1>0, AnswerEffect DEF world
<1>2. started /\ pc = "process" /\ (\A j \in batch : j \in Nat /\ i <= j) /\ i <= off /\ off \in Nat
  <2>1. batch \subseteq Nat /\ off \in Nat
    BY DEF TypeInv, TailOK, WorldOK
  <2> QED BY <1>0, <2>1 DEF NextLine, HiddenInv, OrderInv
<1>3. /\ DOMAIN events \subseteq DOMAIN events' /\ (\A n \in DOMAIN events : events'[n] = events[n])
      /\ Mine \subseteq Mine'
  BY <1>0, <1>1, NewEvent DEF Mine
<1>4. ASSUME NEW n \in DOMAIN events', n \notin DOMAIN events
      PROVE  /\ n = Len(events) + 1 /\ n \in Mine'
             /\ events'[n].line = i /\ events'[n].key = key /\ events'[n].who = who
             /\ events'[n].target = target
  <2>1. events' # events
    BY <1>4
  <2>2. n = Len(events) + 1
    BY <1>0, <1>4, <2>1, NewEvent
  <2>3. events'[Len(events) + 1] =
          [line |-> i, key |-> key, target |-> target, who |-> who, why |-> why,
           at |-> now, epoch |-> epoch, loop |-> Len(loads)]
    BY <1>0, <2>1, NewEvent
  <2> QED BY <1>1, <1>4, <2>2, <2>3 DEF Mine
<1>5. OrderInv'
  <2>1. ASSUME NEW n \in Mine'
        PROVE  events'[n].line <= off /\ (\A j \in batch' : events'[n].line < j)
    <3>1. CASE n \in DOMAIN events
      <4>1. n \in Mine /\ events'[n] = events[n]
        BY <1>1, <1>3, <2>1, <3>1 DEF Mine
      <4> QED BY <1>1, <4>1 DEF HiddenInv, OrderInv
    <3>2. CASE n \notin DOMAIN events
      <4>1. events'[n].line = i
        BY <1>4, <2>1, <3>2 DEF Mine
      <4> QED BY <1>1, <1>2, <4>1
    <3> QED BY <3>1, <3>2
  <2> QED BY <1>1, <1>2, <2>1 DEF HiddenInv, OrderInv
<1>6. ASSUME NEW n \in DOMAIN events'
      PROVE  LET e == events'[n]
                 c == lines'[e.line]
             IN  /\ c.eid # Unknown => Len(e.key) = 1
                 /\ c.eid = Unknown =>
                      Len(e.key) = 3 /\ e.key[1] = c.shot /\ e.key[2] = e.target
                 /\ (e.who = Unknown <=> e.target = Unknown) /\ (~UsesSlots => e.target = e.who)
  <2>1. CASE n \in DOMAIN events
    <3>1. events'[n] = events[n] /\ lines' = lines
      BY <1>1, <1>3, <2>1
    <3> QED BY <2>1, <3>1 DEF HiddenInv, KeysInv, CandidateOf
  <2>2. CASE n \notin DOMAIN events
    <3>1. /\ events'[n].line = i /\ events'[n].key = key /\ events'[n].who = who
          /\ events'[n].target = target
      BY <1>4, <1>6, <2>2
    <3> QED BY <1>1, <3>1 DEF Answer
  <2> QED BY <2>1, <2>2
<1>7. ASSUME NEW k \in EventKey, seen'[k] # Unknown PROVE \E n \in Mine' : events'[n].key = k
  <2>1. CASE seen[k] # Unknown
    <3>1. PICK n \in Mine : events[n].key = k
      BY <2>1 DEF HiddenInv, KeysInv
    <3> QED BY <1>3, <3>1 DEF Mine
  <2>2. CASE seen[k] = Unknown
    <3>1. k = key /\ seen[key] = Unknown
      BY <1>0, <1>7, <2>2, AnswerEffect
    <3>2. events' # events
      <4>1. events' = Append(events, [line |-> i, key |-> key, target |-> target, who |-> who, why |-> why,
                                      at |-> now, epoch |-> epoch, loop |-> Len(loads)])
        BY <1>0, <3>1, AnswerEffect
      <4>2. Len(events') # Len(events)
        BY <4>1 DEF TypeInv, OutputOK
      <4> QED BY <4>2
    <3>3. Len(events) + 1 \in DOMAIN events' /\ Len(events) + 1 \notin DOMAIN events
      <4>1. DOMAIN events' = DOMAIN events \cup {Len(events) + 1}
            /\ DOMAIN events = 1..Len(events) /\ Len(events) \in Nat
        BY <1>0, <3>2, NewEvent
      <4> QED BY <4>1
    <3> QED BY <1>4, <3>1, <3>3
  <2> QED BY <2>1, <2>2
<1>8. ASSUME NEW d \in dups', d.who # Unknown, lines'[d.line].eid = Unknown
      PROVE  \E n \in Mine' :
               /\ events'[n].line < d.line
               /\ lines'[events'[n].line].eid = Unknown
               /\ lines'[events'[n].line].shot = lines'[d.line].shot
               /\ events'[n].who # Unknown /\ (~UsesSlots => events'[n].who = d.who)
  <2>1. CASE d \in dups
    <3>1. PICK n \in Mine : /\ events[n].line < d.line
                            /\ lines[events[n].line].eid = Unknown
                            /\ lines[events[n].line].shot = lines[d.line].shot
                            /\ events[n].who # Unknown /\ (~UsesSlots => events[n].who = d.who)
      BY <1>1, <1>8, <2>1 DEF HiddenInv, HitHiddenOnlyByHit, CandidateOf
    <3>2. n \in Mine' /\ events'[n] = events[n] /\ lines' = lines
      BY <1>1, <1>3 DEF Mine
    <3> QED BY <3>1, <3>2
  <2>2. CASE d \notin dups
    <3>1. d = [line |-> i, who |-> who] /\ seen[key] # Unknown
      <4>1. dups' = dups \/ (dups' = dups \cup {[line |-> i, who |-> who]} /\ seen[key] # Unknown)
        BY <1>0, AnswerEffect
      <4> QED BY <1>8, <2>2, <4>1
    <3>2. PICK n \in Mine : events[n].key = key
      BY <3>1 DEF HiddenInv, KeysInv
    <3>3. n \in DOMAIN events /\ n \in Mine' /\ events'[n] = events[n] /\ lines' = lines
      BY <1>1, <1>3 DEF Mine
    <3>4. events[n].line < i
      BY DEF HiddenInv, OrderInv
    <3>5. LET e == events[n]
              c == lines[e.line]
          IN  /\ c.eid # Unknown => Len(e.key) = 1
              /\ c.eid = Unknown =>
                   Len(e.key) = 3 /\ e.key[1] = c.shot /\ e.key[2] = e.target
              /\ (e.who = Unknown <=> e.target = Unknown) /\ (~UsesSlots => e.target = e.who)
      BY <3>3 DEF HiddenInv, KeysInv, CandidateOf
    <3>6. d.line = i /\ d.who = who
      BY <3>1
    <3>7. /\ Len(key) = 3 /\ key[1] = lines[i].shot /\ key[2] = target
          /\ (who = Unknown <=> target = Unknown) /\ (~UsesSlots => target = who)
      BY <1>1, <1>8, <3>6 DEF Answer
    <3>8. lines[events[n].line].eid = Unknown
      BY <3>2, <3>5, <3>7
    <3> QED BY <1>8, <3>2, <3>3, <3>4, <3>5, <3>6, <3>7, <3>8
  <2> QED BY <2>1, <2>2
<1>9. KeysInv'
  <2>1. UsesSlots' = UsesSlots
    BY DEF UsesSlots
  <2> QED BY <1>6, <1>7 DEF KeysInv, CandidateOf
<1>10. HitHiddenOnlyByHit'
  BY <1>8 DEF HitHiddenOnlyByHit, CandidateOf
<1> QED BY <1>5, <1>9, <1>10 DEF HiddenInv

LEMMA HiddenKept ==
  ASSUME TypeInv, KeysInv, HitHiddenOnlyByHit, UNCHANGED <<events, seen, dups, epoch>>,
         \A i \in DOMAIN lines : lines'[i] = lines[i]
  PROVE  KeysInv' /\ HitHiddenOnlyByHit'
<1>1. Mine' = Mine /\ UsesSlots' = UsesSlots
  BY DEF Mine, UsesSlots
<1>2. \A n \in DOMAIN events : lines'[events[n].line] = lines[events[n].line]
  BY EventTypes
<1>3. KeysInv'
  BY <1>1, <1>2 DEF KeysInv, CandidateOf
<1>4. ASSUME NEW d \in dups, d.who # Unknown, lines'[d.line].eid = Unknown
      PROVE  \E n \in Mine :
               /\ events[n].line < d.line
               /\ lines'[events[n].line].eid = Unknown
               /\ lines'[events[n].line].shot = lines'[d.line].shot
               /\ events[n].who # Unknown /\ (~UsesSlots => events[n].who = d.who)
  <2>2. d.line \in DOMAIN lines
    BY <1>4 DEF TypeInv, OutputOK
  <2>1. PICK n \in Mine : /\ events[n].line < d.line
                          /\ lines[events[n].line].eid = Unknown
                          /\ lines[events[n].line].shot = lines[d.line].shot
                          /\ events[n].who # Unknown /\ (~UsesSlots => events[n].who = d.who)
    BY <1>4, <2>2 DEF HitHiddenOnlyByHit, CandidateOf
  <2>3. lines'[events[n].line] = lines[events[n].line] /\ lines'[d.line] = lines[d.line]
    BY <1>2, <2>2 DEF Mine
  <2> QED BY <2>1, <2>3
<1> QED BY <1>1, <1>3, <1>4 DEF HitHiddenOnlyByHit, CandidateOf

LEMMA HiddenStep == TypeInv /\ FilterInv /\ HiddenInv /\ [Next]_vars => HiddenInv'
<1> SUFFICES ASSUME TypeInv, FilterInv, HiddenInv, [Next]_vars PROVE HiddenInv'
  OBVIOUS
<1>0. OrderInv /\ KeysInv /\ HitHiddenOnlyByHit /\ TailOK
      /\ \A i \in DOMAIN lines : lines'[i] = lines[i]
  BY LinesKept DEF HiddenInv, TypeInv
<1>1. ASSUME NEW i \in batch, HandleCandidate(i) PROVE HiddenInv'
  <2>1. PICK key \in EventKey, target \in Victim, who \in Person \cup {Unknown},
            why \in Reason \cup {"no_target", "no_slot", "no_source"} : Answer(i, key, target, who, why)
    BY <1>1, Answers
  <2> QED BY <2>1, HiddenAnswer
<1>2. CASE Restart
  <2>1. Mine' = {}
    BY <1>2, MineAfterRestart
  <2>2. /\ seen' = [k \in EventKey |-> Unknown] /\ dups' = {} /\ events' = events
        /\ batch' = {} /\ pc' = "load" /\ lines' = lines
    BY <1>2 DEF Restart, world
  <2>3. KeysInv'
    <3>1. \A n \in DOMAIN events' : CandidateOf(events[n])' = CandidateOf(events[n])
      BY <2>2 DEF CandidateOf
    <3> QED BY <1>0, <2>2, <3>1 DEF KeysInv, CandidateOf, UsesSlots
  <2> QED BY <2>1, <2>2, <2>3 DEF HiddenInv, OrderInv, HitHiddenOnlyByHit
<1>3. ASSUME UNCHANGED <<events, seen, dups, epoch>>, OrderInv' PROVE HiddenInv'
  BY <1>0, <1>3, HiddenKept DEF HiddenInv
<1>4. CASE ReadCandidates
  <2> DEFINE from == IF started THEN off ELSE IF ReadExisting THEN 0 ELSE Len(lines)
             to   == IF from + MaxLines < Len(lines) THEN from + MaxLines ELSE Len(lines)
  <2>1. /\ pc = "read" /\ pc' = "process" /\ off' = to /\ batch' = (from + 1)..to
        /\ started' \in {TRUE, started \/ lines # <<>>} /\ UNCHANGED output /\ epoch' = epoch
    BY <1>4 DEF ReadCandidates
  <2>2. Len(lines) \in Nat /\ off \in 0..Len(lines) /\ lines \in Seq(Candidate)
    BY <1>0 DEF TailOK, TypeInv, WorldOK
  <2>3. from \in 0..Len(lines) /\ to \in from..Len(lines) /\ (started => from = off)
    BY <2>2, ParameterTypes
  <2> HIDE DEF from, to
  <2>4. Mine' = Mine /\ events' = events
    BY <2>1 DEF Mine, output
  <2>5. ASSUME ~started' PROVE batch' = {} /\ Mine' = {}
    <3>1. ~started /\ lines = <<>>
      BY <2>1, <2>5
    <3>2. Len(lines) = 0
      BY <3>1
    <3>3. from = 0 /\ to = 0
      BY <2>3, <3>2
    <3>4. (from + 1)..to = {}
      BY <3>3
    <3> QED BY <1>0, <2>1, <2>4, <3>1, <3>4 DEF OrderInv
  <2>6. ASSUME NEW j \in batch' PROVE j \in Nat /\ from < j /\ j <= to
    BY <2>1, <2>3, <2>6
  <2>7. ASSUME NEW n \in Mine' PROVE events[n].line <= from
    <3>1. n \in Mine /\ started
      BY <1>0, <2>4, <2>7 DEF OrderInv
    <3> QED BY <1>0, <2>3, <3>1 DEF OrderInv
  <2>8. ASSUME NEW n \in Mine' PROVE events[n].line <= to /\ (\A j \in batch' : events[n].line < j)
    <3>1. events[n].line \in Nat
      <4>1. n \in DOMAIN events
        BY <2>4, <2>8 DEF Mine
      <4>2. events[n].line \in DOMAIN lines
        BY <4>1, EventTypes
      <4> QED BY <2>2, <4>2
    <3> QED BY <2>3, <2>6, <2>7, <3>1
  <2>9. OrderInv'
    BY <2>1, <2>4, <2>5, <2>6, <2>8 DEF OrderInv
  <2> QED BY <1>3, <2>1, <2>9 DEF output
<1>5. ASSUME UNCHANGED <<events, epoch, started, off, batch>>, pc' = pc \/ batch = {}
      PROVE  OrderInv'
  <2>1. Mine' = Mine
    BY <1>5 DEF Mine
  <2> QED BY <1>0, <1>5, <2>1 DEF OrderInv
<1>6. CASE LoadPersons \/ FinishPoll
  <2>1. /\ UNCHANGED <<events, seen, dups, epoch, started, off, batch>>
        /\ pc # "process" \/ batch = {}
    BY <1>6 DEF LoadPersons, FinishPoll, tail, output
  <2> QED BY <1>0, <1>3, <1>5, <2>1 DEF OrderInv
<1>7. CASE UNCHANGED vars \/ (Environment /\ ~Restart)
  <2>1. UNCHANGED service
    BY <1>7 DEF Environment, PublishPersons, ShowSlot, Report, Tick, vars
  <2> QED BY <1>3, <1>5, <2>1 DEF service, tail, output
<1> QED BY <1>1, <1>2, <1>4, <1>6, <1>7 DEF Next, Service

\* Whatever persons, slots, ages and limits: a hit of a candidate without an
\* event_id that is dropped as a duplicate was preceded by an event of another
\* candidate without one, for the same shot, that names a victim, and the same
\* one where keys are made of global ids (_event_key, _reject).
THEOREM AttributionHidesOnlyRepeats == Spec => []HitHiddenOnlyByHit
<1>1. Init => HiddenInv
  BY DEF Init, HiddenInv, OrderInv, KeysInv, HitHiddenOnlyByHit, Mine
<1>2. HiddenInv => HitHiddenOnlyByHit
  BY DEF HiddenInv
<1> QED BY <1>1, <1>2, FilterAlways, HiddenStep, PTL DEF Spec

-----------------------------------------------------------------------------
(* The fallback to the current person file.                                *)

\* After the first read the last file remembered is the one the loop works
\* with, and an event made from it says which.
LoadedInv ==
  /\ pc # "load" =>
       /\ loads # <<>> /\ memory # <<>> /\ Last(memory) = Last(loads)
       /\ Last(loads).tracks = persons
  /\ pc = "process" \/ batch = {}
  /\ \A n \in Mine : events[n].loop \in DOMAIN loads

CurrentInv == LoadedInv /\ CurrentOnlyOutOfReach

\* A candidate served by the current file was turned down by the last file
\* remembered, for its age or its distance.
LEMMA TurnedDown ==
  ASSUME TypeInv, LoadedInv, NEW i \in batch, NEW p \in Person, Target(lines[i], p, "current")
  PROVE  \/ now - Last(loads).at > HistoryAge
         \/ /\ lines[i].sync # Unknown /\ Last(loads).sync # Unknown
            /\ Distance(lines[i].sync, Last(loads).sync) > MaxSyncDelta
<1> DEFINE c == lines[i]
           l == Last(loads)
<1>1. Matches(c) = {} /\ Carries(persons, p, c)
  <2>1. Matches(c) = {} /\ Current(c, p)
    BY DEF Target
  <2> QED BY <2>1 DEF Current
<1>2. /\ memory \in Seq(Snapshot) /\ memory # <<>> /\ Last(memory) = l /\ l.tracks = persons
  BY DEF LoadedInv, TypeInv, MemoryOK
<1>3. Len(memory) \in DOMAIN memory /\ memory[Len(memory)] = l /\ l \in Snapshot
  BY <1>2, LastIn DEF Last
<1>4. ~(Fresh(l, HistoryAge) /\ InReach(c, l, MaxSyncDelta))
  <2> DEFINE m == <<Len(memory), p>>
  <2>1. m \in (DOMAIN memory) \X Person /\ m[1] = Len(memory) /\ m[2] = p
    BY <1>1, <1>3
  <2>2. m \notin Matches(c)
    BY <1>1
  <2> HIDE DEF m, c, l
  <2> QED BY <1>1, <1>2, <1>3, <2>1, <2>2 DEF Matches
<1>5. l.at \in Nat /\ now \in Nat /\ l.sync \in Sync \cup {Unknown}
  BY <1>3, ParameterTypes DEF Snapshot, TypeInv, WorldOK
<1>6. c.sync \in Sync \cup {Unknown}
  <2>1. c \in CandidateType
    BY ParameterTypes DEF TypeInv, WorldOK, TailOK
  <2> QED BY <2>1 DEF CandidateType
<1> HIDE DEF c, l
<1>7. CASE ~Fresh(l, HistoryAge)
  <2>1. now - l.at > HistoryAge
    BY <1>5, <1>7, ParameterTypes DEF Fresh
  <2> QED BY <2>1 DEF l
<1>8. CASE ~InReach(c, l, MaxSyncDelta)
  <2>1. SyncDelta(c, l) # FarSync /\ ~(SyncDelta(c, l) <= MaxSyncDelta)
    BY <1>8 DEF InReach
  <2>2. c.sync # Unknown /\ l.sync # Unknown /\ SyncDelta(c, l) = Distance(c.sync, l.sync)
    BY <2>1 DEF SyncDelta
  <2>3. Distance(c.sync, l.sync) \in Int
    BY <1>5, <1>6, <2>2, ParameterTypes DEF Sync, Distance
  <2>4. Distance(c.sync, l.sync) > MaxSyncDelta
    BY <2>1, <2>2, <2>3, ParameterTypes
  <2> QED BY <2>2, <2>4 DEF c, l
<1> QED BY <1>4, <1>7, <1>8

\* What an event of the current file must satisfy.
Late(e, c, l) ==
  \/ e.at - l.at > HistoryAge
  \/ c.sync # Unknown /\ l.sync # Unknown /\ Distance(c.sync, l.sync) > MaxSyncDelta

LEMMA CurrentIs ==
  CurrentOnlyOutOfReach <=>
    \A n \in Mine : events[n].why = "current" =>
       Late(events[n], lines[events[n].line], loads[events[n].loop])
BY DEF CurrentOnlyOutOfReach, Late, CandidateOf

LEMMA CurrentKept ==
  ASSUME TypeInv, CurrentInv, UNCHANGED <<events, epoch>>,
         \A i \in DOMAIN lines : lines'[i] = lines[i],
         DOMAIN loads \subseteq DOMAIN loads', \A k \in DOMAIN loads : loads'[k] = loads[k]
  PROVE  CurrentOnlyOutOfReach' /\ (\A n \in Mine' : events'[n].loop \in DOMAIN loads')
<1>1. Mine' = Mine
  BY DEF Mine
<1>2. ASSUME NEW n \in Mine
      PROVE  /\ lines'[events[n].line] = lines[events[n].line]
             /\ events[n].loop \in DOMAIN loads /\ loads'[events[n].loop] = loads[events[n].loop]
  <2>1. n \in DOMAIN events
    BY DEF Mine
  <2>2. events[n].line \in DOMAIN lines
    BY <2>1, EventTypes
  <2> QED BY <1>2, <2>2 DEF CurrentInv, LoadedInv
<1>3. \A n \in Mine : events[n].why = "current" =>
         Late(events[n], lines'[events[n].line], loads'[events[n].loop])
  BY <1>2, CurrentIs DEF CurrentInv
<1> QED BY <1>1, <1>2, <1>3 DEF CurrentOnlyOutOfReach, Late, CandidateOf

LEMMA CurrentAnswer ==
  ASSUME TypeInv, CurrentInv, NEW i \in batch, NEW key \in EventKey, NEW target, NEW who, NEW why,
         Answer(i, key, target, who, why)
  PROVE  CurrentInv'
<1>1. /\ WriteEvent(i, key, target, who, why)
      /\ why = "current" => who \in Person /\ Target(lines[i], who, "current")
      /\ pc = "process"
  BY DEF Answer, NextLine, Reason
<1>2. UNCHANGED <<lines, pc, persons, memory, loads, epoch>> /\ batch' = batch \ {i}
  BY <1>1, AnswerEffect DEF world
<1>3. loads \in Seq(Snapshot) /\ loads # <<>> /\ Len(loads) \in DOMAIN loads
      /\ loads[Len(loads)] = Last(loads)
  BY <1>1, LastIn DEF TypeInv, MemoryOK, CurrentInv, LoadedInv
<1>4. ASSUME NEW n \in Mine'
      PROVE  /\ events'[n].loop \in DOMAIN loads
             /\ events'[n].why = "current" =>
                  Late(events'[n], lines[events'[n].line], loads[events'[n].loop])
  <2>1. CASE n \in DOMAIN events
    <3>1. n \in Mine /\ events'[n] = events[n]
      BY <1>1, <1>2, <1>4, <2>1, NewEvent DEF Mine
    <3> QED BY <3>1, CurrentIs DEF CurrentInv, LoadedInv
  <2>2. CASE n \notin DOMAIN events
    <3>1. events' # events
      BY <1>4, <2>2 DEF Mine
    <3>2. n = Len(events) + 1
      BY <1>1, <1>4, <2>2, <3>1, NewEvent DEF Mine
    <3>3. events'[Len(events) + 1] =
            [line |-> i, key |-> key, target |-> target, who |-> who, why |-> why,
             at |-> now, epoch |-> epoch, loop |-> Len(loads)]
      BY <1>1, <3>1, NewEvent
    <3>4. /\ events'[n].line = i /\ events'[n].why = why /\ events'[n].at = now
          /\ events'[n].loop = Len(loads)
      BY <3>2, <3>3
    <3>5. ASSUME why = "current" PROVE Late(events'[n], lines[i], Last(loads))
      BY <1>1, <3>4, <3>5, TurnedDown DEF Late, CurrentInv
    <3> QED BY <1>3, <3>4, <3>5
  <2> QED BY <2>1, <2>2
<1>5. CurrentOnlyOutOfReach'
  BY <1>2, <1>4 DEF CurrentOnlyOutOfReach, Late, CandidateOf
<1>6. LoadedInv'
  BY <1>1, <1>2, <1>4 DEF CurrentInv, LoadedInv
<1> QED BY <1>5, <1>6 DEF CurrentInv

LEMMA CurrentStep == TypeInv /\ FilterInv /\ CurrentInv /\ [Next]_vars => CurrentInv'
<1> SUFFICES ASSUME TypeInv, FilterInv, CurrentInv, [Next]_vars PROVE CurrentInv'
  OBVIOUS
<1>0. /\ loads \in Seq(Snapshot) /\ memory \in Seq(Snapshot) /\ Len(memory) <= MaxSnapshots
      /\ \A i \in DOMAIN lines : lines'[i] = lines[i]
  BY LinesKept DEF TypeInv, MemoryOK
<1>1. ASSUME NEW i \in batch, HandleCandidate(i) PROVE CurrentInv'
  <2>1. PICK key \in EventKey, target \in Victim, who \in Person \cup {Unknown},
            why \in Reason \cup {"no_target", "no_slot", "no_source"} : Answer(i, key, target, who, why)
    BY <1>1, Answers
  <2> QED BY <2>1, CurrentAnswer
<1>2. CASE LoadPersons
  <2> DEFINE snap == [sync |-> Last(published).sync, tracks |-> Last(published).tracks, at |-> now]
  <2>1. Last(published) \in File /\ now \in 0..ClockBound
    BY LastIn DEF TypeInv, WorldOK
  <2>2. snap \in Snapshot /\ snap.tracks = Last(published).tracks
    BY <2>1 DEF File, Snapshot
  <2>3. /\ pc' = "read" /\ persons' = Last(published).tracks
        /\ memory' = Remember(memory, snap) /\ batch' = batch /\ pc = "load"
        /\ loads' = IF loads # <<>> /\ Last(loads) = snap THEN loads ELSE Append(loads, snap)
        /\ UNCHANGED <<events, epoch>>
    BY <1>2 DEF LoadPersons, tail, output
  <2> HIDE DEF snap
  <2>4. memory' # <<>> /\ Last(memory') = snap
    BY <1>0, <2>2, <2>3, RememberIs
  <2>5. loads' # <<>> /\ Last(loads') = snap /\ DOMAIN loads \subseteq DOMAIN loads'
        /\ (\A k \in DOMAIN loads : loads'[k] = loads[k])
    <3>1. CASE loads # <<>> /\ Last(loads) = snap
      BY <2>3, <3>1
    <3>2. CASE ~(loads # <<>> /\ Last(loads) = snap)
      <4>1. loads' = Append(loads, snap)
        BY <2>3, <3>2
      <4> QED BY <1>0, <2>2, <4>1, AppendIs
    <3> QED BY <3>1, <3>2
  <2>6. CurrentOnlyOutOfReach' /\ (\A n \in Mine' : events'[n].loop \in DOMAIN loads')
    BY <1>0, <2>3, <2>5, CurrentKept
  <2> QED BY <2>2, <2>3, <2>4, <2>5, <2>6 DEF CurrentInv, LoadedInv
<1>3. CASE Restart
  <2>1. Mine' = {} /\ pc' = "load" /\ batch' = {}
    BY <1>3, MineAfterRestart DEF Restart
  <2> QED BY <2>1 DEF CurrentInv, LoadedInv, CurrentOnlyOutOfReach
<1>4. ASSUME UNCHANGED <<events, epoch, loads, memory, persons>>,
             pc' = "load" \/ pc # "load", pc' = "process" \/ batch' = {}
      PROVE  CurrentInv'
  <2>1. CurrentOnlyOutOfReach' /\ (\A n \in Mine' : events'[n].loop \in DOMAIN loads')
    BY <1>0, <1>4, CurrentKept
  <2> QED BY <1>4, <2>1 DEF CurrentInv, LoadedInv
<1>5. CASE ReadCandidates \/ FinishPoll
  BY <1>4, <1>5 DEF ReadCandidates, FinishPoll, output, tail
<1>6. CASE UNCHANGED vars \/ (Environment /\ ~Restart)
  <2>1. UNCHANGED service
    BY <1>6 DEF Environment, PublishPersons, ShowSlot, Report, Tick, vars
  <2>2. UNCHANGED <<events, epoch, loads, memory, persons, pc, batch>>
    BY <2>1 DEF service, output, tail
  <2> QED BY <1>4, <2>2 DEF CurrentInv, LoadedInv
<1> QED BY <1>1, <1>2, <1>3, <1>5, <1>6 DEF Next, Service

\* For any ages, windows and numbers of files remembered: the fallback to the
\* local ids of the current person file only ever serves a candidate that this
\* very file was too far from, or too old for.
THEOREM AttributionFallsBackLate == Spec => []CurrentOnlyOutOfReach
<1>1. Init => CurrentInv
  BY DEF Init, CurrentInv, LoadedInv, CurrentOnlyOutOfReach, Mine
<1>2. CurrentInv => CurrentOnlyOutOfReach
  BY DEF CurrentInv
<1> QED BY <1>1, <1>2, FilterAlways, CurrentStep, PTL DEF Spec

-----------------------------------------------------------------------------
(* The slot of a victim.                                                   *)

\* The renderer's file held these slots at this time, or changed since.
OnShow(d) ==
  \E k \in DOMAIN shown :
    /\ shown[k].slots = d.slots /\ shown[k].at <= d.at
    /\ k = Len(shown) \/ shown[k + 1].at >= d.at

\* The same of the slot an event names, with the age that is tolerated.
Named(e) ==
  /\ e.target # Reserved
  /\ \E k \in DOMAIN shown :
       /\ shown[k].slots[e.who].slot = e.target /\ shown[k].at <= e.at
       /\ k = Len(shown) \/ shown[k + 1].at >= e.at - DisplayAge

\* The service remembers only what was on show.
DisplayInv ==
  /\ \A k \in DOMAIN shown : shown[k].at <= now
  /\ \A i \in DOMAIN displays : displays[i].at <= now /\ OnShow(displays[i])

ShownInv == DisplayInv /\ SlotWasShown

LEMMA ShownIs ==
  SlotWasShown <=>
    (UsesSlots => \A n \in DOMAIN events : events[n].who # Unknown => Named(events[n]))
BY DEF SlotWasShown, Named

\* A new record in the renderer's file takes nothing from an older one that
\* lasted until t.
LEMMA StillShown ==
  ASSUME NEW s \in Seq(View), NEW d \in View, NEW t \in Int, NEW k \in DOMAIN s,
         k = Len(s) \/ s[k + 1].at >= t, d.at >= t
  PROVE  /\ k \in DOMAIN Append(s, d) /\ Append(s, d)[k] = s[k]
         /\ k = Len(Append(s, d)) \/ Append(s, d)[k + 1].at >= t
<1>1. /\ Len(s) \in Nat /\ DOMAIN s = 1..Len(s) /\ DOMAIN Append(s, d) = 1..(Len(s) + 1)
      /\ \A n \in DOMAIN s : Append(s, d)[n] = s[n]
      /\ Append(s, d)[Len(s) + 1] = d
  BY AppendIs
<1>2. CASE k = Len(s)
  <2>1. k + 1 \in DOMAIN Append(s, d) /\ Append(s, d)[k + 1] = d
    BY <1>1, <1>2
  <2> QED BY <1>1, <2>1
<1>3. CASE k # Len(s)
  <2>1. k + 1 \in DOMAIN s
    BY <1>1, <1>3
  <2> QED BY <1>1, <1>3, <2>1
<1> QED BY <1>2, <1>3

\* The slot found for a person was on display not long ago.
LEMMA SlotWasOn ==
  ASSUME TypeInv, DisplayInv, NEW p \in Person, SlotOf(p) # Unknown
  PROVE  /\ SlotOf(p) # Reserved
         /\ \E k \in DOMAIN shown :
              /\ shown[k].slots[p].slot = SlotOf(p) /\ shown[k].at <= now
              /\ k = Len(shown) \/ shown[k + 1].at >= now - DisplayAge
<1>1. SlotOf(p) # Reserved /\ SlotOf(p) = DisplayedSlot(p) /\ DisplayedSlot(p) # Unknown
  BY SlotType
<1>2. /\ Len(shown) \in DOMAIN shown /\ Last(shown) = shown[Len(shown)]
      /\ shown[Len(shown)].at <= now
  BY LastIn DEF TypeInv, WorldOK, DisplayInv
<1>3. CASE DisplayedSlot(p) = Last(shown).slots[p].slot
  BY <1>1, <1>2, <1>3
<1>4. ASSUME NEW j \in DOMAIN Displays, Remembers(Displays[j], p),
             DisplayedSlot(p) = Displays[j].slots[p].slot
      PROVE  \E k \in DOMAIN shown :
               /\ shown[k].slots[p].slot = SlotOf(p) /\ shown[k].at <= now
               /\ k = Len(shown) \/ shown[k + 1].at >= now - DisplayAge
  <2>1. CASE Displays[j] = [at |-> now, slots |-> Last(shown).slots]
    <3>1. Displays[j].slots = Last(shown).slots
      BY <2>1
    <3> QED BY <1>1, <1>2, <1>4, <3>1
  <2>2. ASSUME NEW i \in DOMAIN displays, Displays[j] = displays[i]
        PROVE  \E k \in DOMAIN shown :
                 /\ shown[k].slots[p].slot = SlotOf(p) /\ shown[k].at <= now
                 /\ k = Len(shown) \/ shown[k + 1].at >= now - DisplayAge
    <3>1. PICK k \in DOMAIN shown :
            /\ shown[k].slots = displays[i].slots /\ shown[k].at <= displays[i].at
            /\ k = Len(shown) \/ shown[k + 1].at >= displays[i].at
      BY DEF DisplayInv, OnShow
    <3>2. now - displays[i].at <= DisplayAge
      BY <1>4, <2>2 DEF Remembers, Fresh
    <3>3. /\ \A v \in View : v.at \in Nat
          /\ displays[i].at \in Nat /\ now \in Nat /\ DisplayAge \in Nat
      <4>1. \A v \in View : v.at \in Nat
        BY ParameterTypes DEF View
      <4>2. displays[i] \in View
        BY DEF TypeInv, MemoryOK
      <4> QED BY <4>1, <4>2, ParameterTypes DEF TypeInv, WorldOK
    <3>4. shown[k].at <= now
      BY DEF DisplayInv
    <3>5. ASSUME k # Len(shown) PROVE shown[k + 1].at >= now - DisplayAge
      <4>1. k + 1 \in DOMAIN shown
        BY <3>5 DEF TypeInv, WorldOK
      <4>2. shown[k + 1].at \in Nat
        <5>1. shown[k + 1] \in View
          BY <4>1 DEF TypeInv, WorldOK
        <5> QED BY <3>3, <5>1
      <4> QED BY <3>1, <3>2, <3>3, <3>5, <4>2
    <3>6. shown[k].slots[p].slot = SlotOf(p)
      BY <1>1, <1>4, <2>2, <3>1
    <3> QED BY <3>4, <3>5, <3>6
  <2> QED BY <2>1, <2>2, DisplaysIs
<1> QED BY <1>1, <1>3, <1>4, SlotCases

LEMMA ShownStep == TypeInv /\ FilterInv /\ ShownInv /\ [Next]_vars => ShownInv'
<1> SUFFICES ASSUME TypeInv, FilterInv, ShownInv, [Next]_vars PROVE ShownInv'
  OBVIOUS
<1>0. /\ now \in Nat /\ DisplayAge \in Nat /\ shown \in Seq(View) /\ displays \in Seq(View)
      /\ \A d \in View : d.at \in Nat
      /\ \A k \in DOMAIN shown : shown[k].at <= now
  BY ParameterTypes DEF TypeInv, WorldOK, MemoryOK, View, ShownInv, DisplayInv
<1>1. ASSUME NEW p \in Person, NEW slot \in Slot \cup {Unknown}, NEW stale \in BOOLEAN,
             ShowSlot(p, slot, stale)
      PROVE  ShownInv'
  <2> DEFINE d == [at |-> now,
               slots |-> [Last(shown).slots EXCEPT ![p] = [slot |-> slot, stale |-> stale]]]
  <2>1. d \in View /\ d.at = now
    <3>1. Last(shown) \in View /\ now \in 0..ClockBound
      BY LastIn DEF TypeInv, WorldOK
    <3> QED BY <3>1 DEF View
  <2>2. shown' = Append(shown, d) /\ UNCHANGED <<now, displays, events>>
    BY <1>1 DEF ShowSlot, service, output
  <2> HIDE DEF d
  <2>3. \A k \in DOMAIN shown' : shown'[k].at <= now
    BY <1>0, <2>1, <2>2, AppendIs
  <2>4. ASSUME NEW i \in DOMAIN displays
        PROVE  \E k \in DOMAIN shown' :
                 /\ shown'[k].slots = displays[i].slots /\ shown'[k].at <= displays[i].at
                 /\ k = Len(shown') \/ shown'[k + 1].at >= displays[i].at
    <3>1. PICK k \in DOMAIN shown :
            /\ shown[k].slots = displays[i].slots /\ shown[k].at <= displays[i].at
            /\ k = Len(shown) \/ shown[k + 1].at >= displays[i].at
      BY <2>4 DEF ShownInv, DisplayInv, OnShow
    <3>2. displays[i].at \in Int /\ now >= displays[i].at
      BY <1>0, <2>4 DEF ShownInv, DisplayInv
    <3>3. /\ k \in DOMAIN Append(shown, d) /\ Append(shown, d)[k] = shown[k]
          /\ k = Len(Append(shown, d)) \/ Append(shown, d)[k + 1].at >= displays[i].at
      BY <1>0, <2>1, <3>1, <3>2, StillShown
    <3> QED BY <2>2, <3>1, <3>3
  <2>5. DisplayInv'
    BY <2>2, <2>3, <2>4 DEF DisplayInv, OnShow, ShownInv
  <2>6. ASSUME UsesSlots, NEW n \in DOMAIN events, events[n].who # Unknown
        PROVE  /\ events[n].target # Reserved
               /\ \E k \in DOMAIN shown' :
                    /\ shown'[k].slots[events[n].who].slot = events[n].target
                    /\ shown'[k].at <= events[n].at
                    /\ k = Len(shown') \/ shown'[k + 1].at >= events[n].at - DisplayAge
    <3>1. Named(events[n])
      BY <2>6, ShownIs DEF ShownInv
    <3>2. PICK k \in DOMAIN shown :
            /\ shown[k].slots[events[n].who].slot = events[n].target
            /\ shown[k].at <= events[n].at
            /\ k = Len(shown) \/ shown[k + 1].at >= events[n].at - DisplayAge
      BY <3>1 DEF Named
    <3>3. events[n].at \in Nat /\ events[n].at <= now
      BY <2>6, EventTypes DEF FilterInv
    <3> DEFINE t == events[n].at - DisplayAge
    <3>4. t \in Int /\ d.at >= t
      BY <1>0, <2>1, <3>3
    <3>5. k = Len(shown) \/ shown[k + 1].at >= t
      BY <3>2
    <3> HIDE DEF t
    <3>6. /\ k \in DOMAIN Append(shown, d) /\ Append(shown, d)[k] = shown[k]
          /\ k = Len(Append(shown, d)) \/ Append(shown, d)[k + 1].at >= t
      BY <1>0, <2>1, <3>4, <3>5, StillShown
    <3> QED BY <2>2, <3>1, <3>2, <3>6 DEF Named, t
  <2>7. SlotWasShown'
    BY <2>2, <2>6 DEF SlotWasShown, UsesSlots
  <2> QED BY <2>5, <2>7 DEF ShownInv
<1>2. ASSUME NEW i \in batch, HandleCandidate(i) PROVE ShownInv'
  <2>1. PICK key \in EventKey, target \in Victim, who \in Person \cup {Unknown},
            why \in Reason \cup {"no_target", "no_slot", "no_source"} : Answer(i, key, target, who, why)
    BY <1>2, Answers
  <2>2. WriteEvent(i, key, target, who, why)
    BY <2>1 DEF Answer
  <2>3. UNCHANGED <<shown, now>> /\ (displays' = displays \/ displays' = Displays)
    BY <1>2, ZenonT(40)
       DEF HandleCandidate, RejectTarget, RejectSlot, RejectSource, Reject, Attribute,
           WriteEvent, world
  <2>4. ASSUME NEW j \in DOMAIN Displays PROVE Displays[j].at <= now /\ OnShow(Displays[j])
    <3>1. CASE Displays[j] = [at |-> now, slots |-> Last(shown).slots]
      <4>1. Displays[j].at = now /\ Displays[j].slots = Last(shown).slots
        BY <3>1
      <4>2. Len(shown) \in DOMAIN shown /\ Last(shown) = shown[Len(shown)]
        BY LastIn DEF TypeInv, WorldOK
      <4> QED BY <1>0, <4>1, <4>2 DEF OnShow
    <3>2. CASE \E k \in DOMAIN displays : Displays[j] = displays[k]
      BY <3>2 DEF ShownInv, DisplayInv
    <3> QED BY <2>4, <3>1, <3>2, DisplaysIs
  <2>5. DisplayInv'
    <3>1. \A j \in DOMAIN displays' : displays'[j].at <= now /\ OnShow(displays'[j])
      BY <2>3, <2>4 DEF ShownInv, DisplayInv
    <3> QED BY <1>0, <2>3, <3>1 DEF DisplayInv, OnShow
  <2>6. ASSUME UsesSlots, NEW n \in DOMAIN events', events'[n].who # Unknown
        PROVE  Named(events'[n])
    <3>1. CASE n \in DOMAIN events
      <4>1. events'[n] = events[n]
        BY <2>2, <3>1, NewEvent
      <4> QED BY <2>6, <3>1, <4>1, ShownIs DEF ShownInv
    <3>2. CASE n \notin DOMAIN events
      <4>1. events' # events
        BY <2>6, <3>2
      <4>2. n = Len(events) + 1
        BY <2>2, <2>6, <3>2, <4>1, NewEvent
      <4>3. events'[Len(events) + 1] =
              [line |-> i, key |-> key, target |-> target, who |-> who, why |-> why,
               at |-> now, epoch |-> epoch, loop |-> Len(loads)]
        BY <2>2, <4>1, NewEvent
      <4>4. events'[n].target = target /\ events'[n].who = who /\ events'[n].at = now
        BY <4>2, <4>3
      <4>5. who \in Person /\ target = SlotOf(who) /\ target # Unknown
        BY <2>1, <2>6, <4>4 DEF Answer
      <4>6. /\ SlotOf(who) # Reserved
            /\ \E k \in DOMAIN shown :
                 /\ shown[k].slots[who].slot = SlotOf(who) /\ shown[k].at <= now
                 /\ k = Len(shown) \/ shown[k + 1].at >= now - DisplayAge
        BY <4>5, SlotWasOn DEF ShownInv
      <4> QED BY <4>4, <4>5, <4>6 DEF Named
    <3> QED BY <3>1, <3>2
  <2>7. SlotWasShown'
    BY <2>3, <2>6 DEF SlotWasShown, Named, UsesSlots
  <2> QED BY <2>5, <2>7 DEF ShownInv
<1>3. ASSUME UNCHANGED <<shown, displays, events>>, now' = now \/ now' = now + 1
      PROVE  ShownInv'
  <2>1. \A k \in DOMAIN shown : shown[k].at <= now'
    <3>1. \A k \in DOMAIN shown : shown[k].at \in Nat
      BY <1>0
    <3> QED BY <1>0, <1>3, <3>1
  <2>2. ASSUME NEW i \in DOMAIN displays PROVE displays[i].at <= now' /\ OnShow(displays[i])
    <3>1. displays[i].at \in Nat /\ displays[i].at <= now /\ OnShow(displays[i])
      BY <1>0, <2>2 DEF ShownInv, DisplayInv
    <3> QED BY <1>0, <1>3, <3>1
  <2>3. DisplayInv'
    BY <1>3, <2>1, <2>2 DEF DisplayInv, OnShow
  <2>4. SlotWasShown'
    BY <1>3 DEF SlotWasShown, ShownInv, UsesSlots
  <2> QED BY <2>3, <2>4 DEF ShownInv
<1>4. CASE Restart
  <2> DEFINE e == <<>>
  <2>1. displays' = e /\ UNCHANGED <<shown, now, events>> /\ DOMAIN e = {}
    BY <1>4 DEF Restart, world
  <2> HIDE DEF e
  <2>2. DisplayInv'
    BY <1>0, <2>1 DEF DisplayInv
  <2>3. SlotWasShown'
    BY <2>1 DEF SlotWasShown, ShownInv, UsesSlots
  <2> QED BY <2>2, <2>3 DEF ShownInv
<1>5. CASE Tick
  BY <1>3, <1>5 DEF Tick, service, output
<1>6. CASE LoadPersons \/ ReadCandidates \/ FinishPoll \/ UNCHANGED vars
  BY <1>3, <1>6 DEF LoadPersons, ReadCandidates, FinishPoll, vars, world, service, output
<1>7. ASSUME NEW s \in Sync, NEW t \in Tracks, PublishPersons(s, t) PROVE ShownInv'
  BY <1>3, <1>7 DEF PublishPersons, service, output
<1>8. ASSUME NEW c \in Candidate, Report(c) PROVE ShownInv'
  BY <1>3, <1>8 DEF Report, service, output
<1> QED BY <1>1, <1>2, <1>4, <1>5, <1>6, <1>7, <1>8 DEF Next, Service, Environment

\* For any ages and any number of records remembered: a slot named in an event
\* was on display for its victim within the age limit, and is not the reserved
\* one (_lookup_global_bev_display_id).
THEOREM AttributionNamesShown == Spec => []SlotWasShown
<1>1. Init => ShownInv
  <2> SUFFICES ASSUME Init PROVE ShownInv
    OBVIOUS
  <2> DEFINE v == [at |-> 0, slots |-> NoSlots]
             e == <<>>
  <2>1. shown = <<v>> /\ now = 0 /\ v.at = 0 /\ displays = e /\ events = e /\ DOMAIN e = {}
    BY DEF Init
  <2> HIDE DEF v, e
  <2> QED BY <2>1 DEF ShownInv, DisplayInv, SlotWasShown
<1>2. ShownInv => SlotWasShown
  BY DEF ShownInv
<1> QED BY <1>1, <1>2, FilterAlways, ShownStep, PTL DEF Spec
-----------------------------------------------------------------------------
(* The frame of a candidate.                                               *)

\* Of the files l, the k-th is the last of its sync index before another one.
Ends(l, k) == k = Len(l) \/ l[k + 1].sync # l[k].sync

\* The memory m, n files long, is what is left of the b files l that were read:
\* f says which of them each remembered one is.  Only the last of a row with one
\* sync index is kept, and none of the last MaxSnapshots files that is such a
\* last one is missing.
Placed(m, l, f, n, b) ==
  /\ f \in [1..n -> 1..b]
  /\ b > 0 => n > 0
  /\ n > 0 => f[n] = b
  /\ \A j \in 1..n : m[j] = l[f[j]] /\ Ends(l, f[j]) /\ n - j <= b - f[j]
  /\ \A i, j \in 1..n : i < j => f[i] < f[j]
  /\ \A k \in 1..b : Ends(l, k) /\ b - k < MaxSnapshots => \E j \in 1..n : f[j] = k

Places(m, l, f) == Placed(m, l, f, Len(m), Len(l))

RecallInv ==
  /\ \E f : Places(memory, loads, f)
  /\ \A k, l \in DOMAIN loads : k <= l => loads[k].at <= loads[l].at
  /\ \A k \in DOMAIN loads : loads[k].at <= now

\* The new file takes the place of the last one, or a place of its own, for
\* which the oldest may have to go.
LEMMA RememberSlots ==
  ASSUME NEW m \in Seq(Snapshot), NEW snap \in Snapshot, Len(m) <= MaxSnapshots,
         NEW r, r = Remember(m, snap), NEW n \in Nat, n = Len(m)
  PROVE  \/ /\ n > 0 /\ m[n].sync = snap.sync
            /\ Len(r) = n /\ r[n] = snap /\ \A j \in 1..(n - 1) : r[j] = m[j]
         \/ /\ n = 0 \/ m[n].sync # snap.sync
            /\ Len(r) = n + 1 /\ r[n + 1] = snap /\ \A j \in 1..n : r[j] = m[j]
         \/ /\ n > 0 /\ n = MaxSnapshots /\ m[n].sync # snap.sync
            /\ Len(r) = n /\ r[n] = snap /\ \A j \in 1..(n - 1) : r[j] = m[j + 1]
<1>1. CASE m # <<>> /\ Last(m).sync = snap.sync
  <2>1. n > 0 /\ m[n].sync = snap.sync
    BY <1>1, LastIn
  <2>2. Front(m) = SubSeq(m, 1, n - 1)
    BY DEF Front
  <2>3. Front(m) \in Seq(Snapshot) /\ Len(Front(m)) = n - 1 /\ (\A j \in 1..(n - 1) : Front(m)[j] = m[j])
    <3>1. PICK p \in Nat : p = n - 1
      BY <2>1
    <3>2. SubSeq(m, 1, p) \in Seq(Snapshot) /\ Len(SubSeq(m, 1, p)) = p
          /\ (\A j \in 1..p : SubSeq(m, 1, p)[j] = m[j])
      <4>1. \A j \in 1..p : m[j] \in Snapshot
        BY <3>1
      <4>2. SubSeq(m, 1, p) \in Seq(Snapshot) /\ Len(SubSeq(m, 1, p)) = (IF 1 <= p THEN p - 1 + 1 ELSE 0)
            /\ (\A j \in 1..(p - 1 + 1) : SubSeq(m, 1, p)[j] = m[1 + j - 1])
        BY <4>1, SubSeqProperties
      <4> QED BY <4>2
    <3> QED BY <2>2, <3>1, <3>2
  <2>4. r = Append(Front(m), snap)
    BY <1>1 DEF Remember
  <2>5. Len(r) = n /\ r[n] = snap /\ (\A j \in 1..(n - 1) : r[j] = m[j])
    BY <2>1, <2>3, <2>4, AppendIs
  <2> QED BY <2>1, <2>5
<1>2. CASE ~(m # <<>> /\ Last(m).sync = snap.sync)
  <2>1. n = 0 \/ m[n].sync # snap.sync
    BY <1>2, LastIn
  <2> DEFINE a == Append(m, snap)
  <2>2. /\ a \in Seq(Snapshot) /\ Len(a) = n + 1 /\ a[n + 1] = snap
        /\ (\A j \in 1..n : a[j] = m[j])
    BY AppendIs
  <2>3. r = Keep(a, MaxSnapshots)
    BY <1>2 DEF Remember
  <2> HIDE DEF a
  <2>4. CASE n + 1 <= MaxSnapshots
    <3>1. r = a
      BY <2>2, <2>3, <2>4 DEF Keep
    <3> QED BY <2>1, <2>2, <3>1
  <2>5. CASE ~(n + 1 <= MaxSnapshots)
    <3>1. n = MaxSnapshots /\ n > 0
      BY <2>5, ParameterTypes
    <3>2. r = SubSeq(a, 2, n + 1)
      <4>1. r = SubSeq(a, Len(a) - MaxSnapshots + 1, Len(a))
        BY <2>2, <2>3, <2>5 DEF Keep
      <4>2. Len(a) - MaxSnapshots + 1 = 2
        BY <2>2, <3>1
      <4> QED BY <2>2, <4>1, <4>2
    <3>3. Len(r) = n /\ (\A j \in 1..n : r[j] = a[j + 1])
      <4>1. \A j \in 2..(n + 1) : a[j] \in Snapshot
        BY <2>2
      <4> QED BY <2>2, <3>1, <3>2
    <3>4. r[n] = snap /\ (\A j \in 1..(n - 1) : r[j] = m[j + 1])
      BY <2>2, <3>1, <3>3
    <3> QED BY <2>1, <3>1, <3>3, <3>4
  <2> QED BY <2>4, <2>5
<1> QED BY <1>1, <1>2

\* Reading one more file keeps the memory in its place.
LEMMA PlacesNext ==
  ASSUME NEW m \in Seq(Snapshot), NEW l \in Seq(Snapshot), NEW snap \in Snapshot,
         Len(m) <= MaxSnapshots, NEW f, Places(m, l, f)
  PROVE  \E g : Places(Remember(m, snap), Append(l, snap), g)
<1>1. PICK n \in Nat : n = Len(m)
  OBVIOUS
<1>2. PICK b \in Nat : b = Len(l)
  OBVIOUS
<1>3. PICK r \in Seq(Snapshot) : r = Remember(m, snap) /\ r # <<>>
  BY RememberIs
<1>4. PICK q \in Seq(Snapshot) : q = Append(l, snap)
  BY AppendIs
<1>5. /\ Len(q) = b + 1 /\ q # <<>> /\ q[b + 1] = snap /\ (\A k \in 1..b : q[k] = l[k])
  BY <1>2, <1>4, AppendIs
<1>6. /\ f \in [1..n -> 1..b]
      /\ n > 0 => f[n] = b /\ b > 0 /\ m[n] = l[b]
      /\ b > 0 => n > 0
      /\ \A j \in 1..n : m[j] = l[f[j]] /\ Ends(l, f[j]) /\ n - j <= b - f[j]
      /\ \A i, j \in 1..n : i < j => f[i] < f[j]
      /\ \A k \in 1..b : Ends(l, k) /\ b - k < MaxSnapshots => \E j \in 1..n : f[j] = k
  <2>1. /\ f \in [1..n -> 1..b]
        /\ b > 0 => n > 0
        /\ n > 0 => f[n] = b
        /\ \A j \in 1..n : m[j] = l[f[j]] /\ Ends(l, f[j]) /\ n - j <= b - f[j]
        /\ \A i, j \in 1..n : i < j => f[i] < f[j]
        /\ \A k \in 1..b : Ends(l, k) /\ b - k < MaxSnapshots => \E j \in 1..n : f[j] = k
    BY <1>1, <1>2 DEF Places, Placed
  <2>2. n > 0 => b > 0 /\ m[n] = l[b]
    <3> SUFFICES ASSUME n > 0 PROVE b > 0 /\ m[n] = l[b]
      OBVIOUS
    <3>1. n \in 1..n /\ f[n] = b
      BY <2>1
    <3>2. f[n] \in 1..b /\ m[n] = l[f[n]]
      BY <2>1, <3>1
    <3> QED BY <3>1, <3>2
  <2> QED BY <2>1, <2>2
<1>7. /\ \A k \in 1..b : k < b => (Ends(q, k) <=> Ends(l, k))
      /\ Ends(q, b + 1)
      /\ b > 0 => (Ends(q, b) <=> l[b].sync # snap.sync)
  <2>1. ASSUME NEW k \in 1..b, k < b PROVE Ends(q, k) <=> Ends(l, k)
    <3>1. k # Len(l) /\ k # Len(q) /\ q[k] = l[k] /\ q[k + 1] = l[k + 1]
      BY <1>2, <1>5, <2>1
    <3> QED BY <3>1 DEF Ends
  <2>2. ASSUME b > 0 PROVE Ends(q, b) <=> l[b].sync # snap.sync
    <3>1. b # Len(q) /\ q[b] = l[b] /\ q[b + 1] = snap
      BY <1>5, <2>2
    <3> QED BY <3>1 DEF Ends
  <2>3. Ends(q, b + 1)
    BY <1>5 DEF Ends
  <2> QED BY <2>1, <2>2, <2>3
<1>8. MaxSnapshots \in Nat /\ MaxSnapshots > 0
  BY ParameterTypes
<1>9. CASE /\ n > 0 /\ m[n].sync = snap.sync
           /\ Len(r) = n /\ r[n] = snap /\ \A j \in 1..(n - 1) : r[j] = m[j]
  <2> DEFINE g == [j \in 1..n |-> IF j = n THEN b + 1 ELSE f[j]]
  <2>1. DOMAIN g = 1..n /\ g[n] = b + 1 /\ (\A j \in 1..(n - 1) : g[j] = f[j] /\ f[j] \in 1..b)
    BY <1>6, <1>9
  <2>2. g \in [1..n -> 1..(b + 1)]
    BY <1>6, SMTT(30)
  <2> HIDE DEF g
  <2>3. \A j \in 1..(n - 1) : f[j] < b
    BY <1>6, <1>9
  <2>4. ASSUME NEW j \in 1..n PROVE r[j] = q[g[j]] /\ Ends(q, g[j]) /\ n - j <= b + 1 - g[j]
    <3>1. CASE j = n
      BY <1>5, <1>7, <1>9, <2>1, <3>1
    <3>2. CASE j # n
      <4>1. j \in 1..(n - 1) /\ g[j] = f[j] /\ f[j] \in 1..b /\ f[j] < b
        BY <2>1, <2>3, <3>2
      <4>2. n - j <= b - f[j] /\ Ends(l, f[j]) /\ m[j] = l[f[j]]
        BY <1>6
      <4> QED BY <1>5, <1>7, <1>9, <4>1, <4>2
    <3> QED BY <3>1, <3>2
  <2>5. ASSUME NEW i \in 1..n, NEW j \in 1..n, i < j PROVE g[i] < g[j]
    <3>1. i \in 1..(n - 1) /\ g[i] = f[i] /\ f[i] \in 1..b /\ f[i] < f[j]
      <4>1. i \in 1..(n - 1)
        BY <2>5
      <4> QED BY <1>6, <2>1, <2>5, <4>1
    <3>2. CASE j = n
      BY <2>1, <3>1, <3>2
    <3>3. CASE j # n
      <4>1. j \in 1..(n - 1)
        BY <3>3
      <4> QED BY <2>1, <3>1, <4>1
    <3> QED BY <3>2, <3>3
  <2>6. ASSUME NEW k \in 1..(b + 1), Ends(q, k), b + 1 - k < MaxSnapshots
        PROVE  \E j \in 1..n : g[j] = k
    <3>1. CASE k = b + 1
      BY <1>9, <2>1, <3>1
    <3>2. CASE k # b + 1
      <4>1. k \in 1..b /\ k # b
        BY <1>6, <1>7, <1>9, <2>6, <3>2, SMTT(30)
      <4>2. PICK j \in 1..n : f[j] = k
        BY <1>6, <1>7, <1>8, <2>6, <4>1
      <4>3. j # n
        BY <1>6, <1>9, <4>1, <4>2
      <4> QED BY <2>1, <4>2, <4>3
    <3> QED BY <3>1, <3>2
  <2>8. n = Len(r) /\ b + 1 \in Nat /\ b + 1 = Len(q)
    BY <1>5, <1>9
  <2>7. Places(r, q, g)
    <3>1. (b + 1 > 0 => n > 0) /\ (n > 0 => g[n] = b + 1)
      BY <1>9, <2>1
    <3>2. Placed(r, q, g, n, b + 1)
      <4>1. \A j \in 1..n : r[j] = q[g[j]] /\ Ends(q, g[j]) /\ n - j <= b + 1 - g[j]
        BY <2>4
      <4>2. \A i, j \in 1..n : i < j => g[i] < g[j]
        BY <2>5
      <4>3. \A k \in 1..(b + 1) : Ends(q, k) /\ b + 1 - k < MaxSnapshots
               => \E j \in 1..n : g[j] = k
        BY <2>6
      <4> QED BY <2>2, <3>1, <4>1, <4>2, <4>3, SMTT(30) DEF Placed
    <3> QED BY <2>8, <3>2 DEF Places
  <2> QED BY <1>3, <1>4, <2>7
<1>10. ASSUME n = 0 \/ m[n].sync # snap.sync
       PROVE  \A k \in 1..b : Ends(l, k) => Ends(q, k)
  <2>1. ASSUME NEW k \in 1..b, Ends(l, k) PROVE Ends(q, k)
    <3>1. CASE k < b
      BY <1>7, <2>1, <3>1
    <3>2. CASE ~(k < b)
      <4>1. k = b /\ b > 0
        BY <3>2
      <4> QED BY <1>6, <1>7, <1>10, <4>1
    <3> QED BY <3>1, <3>2
  <2> QED BY <2>1
<1>11. CASE /\ n = 0 \/ m[n].sync # snap.sync
            /\ Len(r) = n + 1 /\ r[n + 1] = snap /\ \A j \in 1..n : r[j] = m[j]
  <2> DEFINE g == [j \in 1..(n + 1) |-> IF j = n + 1 THEN b + 1 ELSE f[j]]
  <2>1. DOMAIN g = 1..(n + 1) /\ g[n + 1] = b + 1 /\ (\A j \in 1..n : g[j] = f[j] /\ f[j] \in 1..b)
    BY <1>6
  <2>2. g \in [1..(n + 1) -> 1..(b + 1)]
    BY <1>6
  <2> HIDE DEF g
  <2>4. ASSUME NEW j \in 1..(n + 1)
        PROVE  r[j] = q[g[j]] /\ Ends(q, g[j]) /\ n + 1 - j <= b + 1 - g[j]
    <3>1. CASE j = n + 1
      BY <1>5, <1>7, <1>11, <2>1, <3>1
    <3>2. CASE j # n + 1
      <4>1. j \in 1..n /\ g[j] = f[j] /\ f[j] \in 1..b
        BY <2>1, <3>2
      <4>2. n - j <= b - f[j] /\ Ends(l, f[j]) /\ m[j] = l[f[j]]
        BY <1>6, <4>1
      <4>3. Ends(q, f[j]) /\ q[f[j]] = l[f[j]] /\ r[j] = m[j]
        BY <1>5, <1>10, <1>11, <4>1, <4>2
      <4>4. n + 1 - j <= b + 1 - f[j]
        <5>1. PICK v \in Nat : v = f[j]
          BY <4>1
        <5>2. n + 1 - j <= b + 1 - v
          BY <4>2, <5>1
        <5> QED BY <5>1, <5>2
      <4> QED BY <4>1, <4>2, <4>3, <4>4, Zenon
    <3> QED BY <3>1, <3>2
  <2>5. ASSUME NEW i \in 1..(n + 1), NEW j \in 1..(n + 1), i < j PROVE g[i] < g[j]
    <3>1. i \in 1..n /\ g[i] = f[i] /\ f[i] \in 1..b
      <4>1. i \in 1..n
        BY <2>5
      <4> QED BY <2>1, <4>1
    <3>2. CASE j = n + 1
      BY <2>1, <3>1, <3>2
    <3>3. CASE j # n + 1
      <4>1. j \in 1..n
        BY <3>3
      <4> QED BY <1>6, <2>1, <2>5, <3>1, <4>1
    <3> QED BY <3>2, <3>3
  <2>6. ASSUME NEW k \in 1..(b + 1), Ends(q, k), b + 1 - k < MaxSnapshots
        PROVE  \E j \in 1..(n + 1) : g[j] = k
    <3>1. CASE k = b + 1
      BY <2>1, <3>1
    <3>2. CASE k # b + 1
      <4>1. k \in 1..b /\ Ends(l, k)
        <5>1. k \in 1..b
          BY <3>2
        <5>2. k = b => Ends(l, k)
          BY <1>2 DEF Ends
        <5>3. k < b => Ends(l, k)
          BY <1>7, <2>6, <5>1
        <5> QED BY <5>1, <5>2, <5>3
      <4>2. PICK j \in 1..n : f[j] = k
        BY <1>6, <1>8, <2>6, <4>1
      <4> QED BY <2>1, <4>2
    <3> QED BY <3>1, <3>2
  <2>8. n + 1 \in Nat /\ n + 1 = Len(r) /\ b + 1 \in Nat /\ b + 1 = Len(q)
    BY <1>5, <1>11
  <2>7. Places(r, q, g)
    <3>1. (b + 1 > 0 => n + 1 > 0) /\ (n + 1 > 0 => g[n + 1] = b + 1)
      BY <1>11, <2>1
    <3>2. Placed(r, q, g, n + 1, b + 1)
      <4>1. \A j \in 1..(n + 1) : r[j] = q[g[j]] /\ Ends(q, g[j]) /\ n + 1 - j <= b + 1 - g[j]
        BY <2>4
      <4>2. \A i, j \in 1..(n + 1) : i < j => g[i] < g[j]
        BY <2>5
      <4>3. \A k \in 1..(b + 1) : Ends(q, k) /\ b + 1 - k < MaxSnapshots
               => \E j \in 1..(n + 1) : g[j] = k
        BY <2>6
      <4> QED BY <2>2, <3>1, <4>1, <4>2, <4>3, SMTT(30) DEF Placed
    <3> QED BY <2>8, <3>2 DEF Places
  <2> QED BY <1>3, <1>4, <2>7
<1>12. CASE /\ n > 0 /\ n = MaxSnapshots /\ m[n].sync # snap.sync
            /\ Len(r) = n /\ r[n] = snap /\ \A j \in 1..(n - 1) : r[j] = m[j + 1]
  <2> DEFINE g == [j \in 1..n |-> IF j = n THEN b + 1 ELSE f[j + 1]]
  <2>1. DOMAIN g = 1..n /\ g[n] = b + 1 /\ (\A j \in 1..(n - 1) : g[j] = f[j + 1] /\ f[j + 1] \in 1..b)
    BY <1>6, <1>12, SMTT(30)
  <2>2. g \in [1..n -> 1..(b + 1)]
    BY <1>6, SMTT(30)
  <2> HIDE DEF g
  <2>4. ASSUME NEW j \in 1..n PROVE r[j] = q[g[j]] /\ Ends(q, g[j]) /\ n - j <= b + 1 - g[j]
    <3>1. CASE j = n
      BY <1>5, <1>7, <1>12, <2>1, <3>1
    <3>2. CASE j # n
      <4>1. j \in 1..(n - 1) /\ g[j] = f[j + 1] /\ f[j + 1] \in 1..b /\ j + 1 \in 1..n
        <5>1. j \in 1..(n - 1) /\ j + 1 \in 1..n
          BY <3>2
        <5> QED BY <2>1, <5>1
      <4>2. n - (j + 1) <= b - f[j + 1] /\ Ends(l, f[j + 1]) /\ m[j + 1] = l[f[j + 1]]
        BY <1>6, <4>1
      <4>3. Ends(q, f[j + 1]) /\ q[f[j + 1]] = l[f[j + 1]] /\ r[j] = m[j + 1]
        BY <1>5, <1>10, <1>12, <4>1, <4>2
      <4> QED BY <4>1, <4>2, <4>3, SMTT(30)
    <3> QED BY <3>1, <3>2
  <2>5. ASSUME NEW i \in 1..n, NEW j \in 1..n, i < j PROVE g[i] < g[j]
    <3>1. i \in 1..(n - 1) /\ i + 1 \in 1..n /\ g[i] = f[i + 1] /\ f[i + 1] \in 1..b
      <4>1. i \in 1..(n - 1) /\ i + 1 \in 1..n
        BY <2>5
      <4> QED BY <2>1, <4>1
    <3>2. CASE j = n
      BY <2>1, <3>1, <3>2
    <3>3. CASE j # n
      <4>1. j \in 1..(n - 1) /\ j + 1 \in 1..n /\ i + 1 < j + 1 /\ g[j] = f[j + 1]
        BY <2>1, <2>5, <3>3
      <4> QED BY <1>6, <3>1, <4>1
    <3> QED BY <3>2, <3>3
  <2>6. ASSUME NEW k \in 1..(b + 1), Ends(q, k), b + 1 - k < MaxSnapshots
        PROVE  \E j \in 1..n : g[j] = k
    <3>1. CASE k = b + 1
      BY <1>12, <2>1, <3>1
    <3>2. CASE k # b + 1
      <4>1. k \in 1..b /\ Ends(l, k)
        <5>1. k \in 1..b
          BY <3>2
        <5>2. k = b => Ends(l, k)
          BY <1>2 DEF Ends
        <5>3. k < b => Ends(l, k)
          BY <1>7, <2>6, <5>1
        <5> QED BY <5>1, <5>2, <5>3
      <4>2. PICK j \in 1..n : f[j] = k
        BY <1>6, <1>8, <2>6, <4>1
      <4>3. n - j <= b - k
        BY <1>6, <4>2
      <4>4. j > 1
        BY <1>8, <1>12, <2>6, <4>1, <4>3
      <4>5. j - 1 \in 1..(n - 1) /\ (j - 1) + 1 = j
        BY <4>4
      <4>6. g[j - 1] = k
        BY <2>1, <4>2, <4>5
      <4> QED BY <4>5, <4>6
    <3> QED BY <3>1, <3>2
  <2>8. n = Len(r) /\ b + 1 \in Nat /\ b + 1 = Len(q)
    BY <1>5, <1>12
  <2>7. Places(r, q, g)
    <3>1. (b + 1 > 0 => n > 0) /\ (n > 0 => g[n] = b + 1)
      BY <1>12, <2>1
    <3>2. Placed(r, q, g, n, b + 1)
      <4>1. \A j \in 1..n : r[j] = q[g[j]] /\ Ends(q, g[j]) /\ n - j <= b + 1 - g[j]
        BY <2>4
      <4>2. \A i, j \in 1..n : i < j => g[i] < g[j]
        BY <2>5
      <4>3. \A k \in 1..(b + 1) : Ends(q, k) /\ b + 1 - k < MaxSnapshots
               => \E j \in 1..n : g[j] = k
        BY <2>6
      <4> QED BY <2>2, <3>1, <4>1, <4>2, <4>3, SMTT(30) DEF Placed
    <3> QED BY <2>8, <3>2 DEF Places
  <2> QED BY <1>3, <1>4, <2>7
<1> QED BY <1>1, <1>3, <1>9, <1>11, <1>12, RememberSlots

LEMMA RankLess ==
  ASSUME NEW a1 \in Int, NEW a2 \in Int, NEW a3 \in Int, NEW a4 \in Int,
         NEW b1 \in Int, NEW b2 \in Int, NEW b3 \in Int, NEW b4 \in Int,
         LexLess(<<a1, a2, a3, a4>>, <<b1, b2, b3, b4>>)
  PROVE  a1 < b1 \/ (a1 = b1 /\ (a2 < b2 \/ (a2 = b2 /\ a3 <= b3)))
<1> DEFINE r == <<a1, a2, a3, a4>>
           t == <<b1, b2, b3, b4>>
<1>1. PICK k \in 1..4 : r[k] < t[k] /\ \A j \in 1..(k - 1) : r[j] = t[j]
  BY DEF LexLess
<1>2. /\ r[1] = a1 /\ r[2] = a2 /\ r[3] = a3 /\ r[4] = a4
      /\ t[1] = b1 /\ t[2] = b2 /\ t[3] = b3 /\ t[4] = b4
  OBVIOUS
<1> HIDE DEF r, t
<1>3. CASE k = 1
  BY <1>1, <1>2, <1>3
<1>4. CASE k = 2
  <2>1. r[1] = t[1]
    BY <1>1, <1>4
  <2> QED BY <1>1, <1>2, <1>4, <2>1
<1>5. CASE k = 3
  <2>1. r[1] = t[1] /\ r[2] = t[2]
    BY <1>1, <1>5
  <2> QED BY <1>1, <1>2, <1>5, <2>1
<1>6. CASE k = 4
  <2>1. r[1] = t[1] /\ r[2] = t[2] /\ r[3] = t[3]
    BY <1>1, <1>6
  <2> QED BY <1>2, <2>1
<1> QED BY <1>1, <1>3, <1>4, <1>5, <1>6

\* An exact sync index is at distance 0, and nothing else is.
LEMMA ExactIsNearest ==
  ASSUME NEW c \in CandidateType, NEW snap \in Snapshot, c.sync # Unknown
  PROVE  /\ SyncDelta(c, snap) \in Nat
         /\ SyncDelta(c, snap) = 0 <=> snap.sync = c.sync
         /\ snap.sync = c.sync => InReach(c, snap, MaxSyncDelta)
<1>1. c.sync \in 0..SyncBound /\ snap.sync \in (0..SyncBound) \cup {Unknown}
  BY DEF CandidateType, Snapshot, Sync
<1>2. SyncBound \in Nat /\ MaxSyncDelta \in Nat
  BY ParameterTypes
<1>3. CASE snap.sync = Unknown
  BY <1>1, <1>2, <1>3 DEF SyncDelta, FarSync, InReach, Unknown
<1>4. CASE snap.sync # Unknown
  <2>1. SyncDelta(c, snap) = Distance(c.sync, snap.sync) /\ snap.sync \in 0..SyncBound
    BY <1>1, <1>4 DEF SyncDelta
  <2>2. Distance(c.sync, snap.sync) \in Nat /\ (Distance(c.sync, snap.sync) = 0 <=> snap.sync = c.sync)
    BY <1>1, <2>1 DEF Distance
  <2> QED BY <1>2, <2>1, <2>2 DEF InReach
<1> QED BY <1>3, <1>4

\* What the new event is compared with: the files read so far that decide.
Deciding(c, at, b) ==
  {k \in 1..b :
     /\ loads[k].sync = c.sync
     /\ k < b => loads[k + 1].sync # c.sync
     /\ \E p \in Person : Carries(loads[k].tracks, p, c)
     /\ at - loads[k].at <= HistoryAge
     /\ b - k < MaxSnapshots}

Decided(e, c) ==
  c.sync # Unknown /\ c.gid = Unknown /\ e.why \notin {"no_slot", "no_source"} =>
    \/ Deciding(c, e.at, e.loop) = {}
    \/ \E k \in Deciding(c, e.at, e.loop) : e.who # Unknown /\ Carries(loads[k].tracks, e.who, c)

\* Where a deciding file is among those read, whoever is found carries the id
\* in one.
LEMMA ExactFound ==
  ASSUME TypeInv, RecallInv, NEW i \in batch, NEW who, NEW why,
         lines[i].sync # Unknown, lines[i].gid = Unknown,
         why \in (Reason \cup {"no_target"}),
         why \in Reason => who \in Person /\ Target(lines[i], who, why),
         why = "no_target" => NoTarget(lines[i]),
         NEW k \in Deciding(lines[i], now, Len(loads))
  PROVE  /\ who # Unknown
         /\ \E l \in Deciding(lines[i], now, Len(loads)) : Carries(loads[l].tracks, who, lines[i])
<1> DEFINE c == lines[i]
<1>1. c \in CandidateType
  BY ParameterTypes DEF TypeInv, WorldOK, TailOK
<1>2. PICK b \in Nat : b = Len(loads)
  BY DEF TypeInv, MemoryOK
<1>3. PICK n \in Nat : n = Len(memory)
  BY DEF TypeInv, MemoryOK
<1>4. /\ loads \in Seq(Snapshot) /\ memory \in Seq(Snapshot)
      /\ DOMAIN loads = 1..b /\ DOMAIN memory = 1..n
      /\ now \in Nat
  BY <1>2, <1>3, ParameterTypes DEF TypeInv, MemoryOK, WorldOK
<1>5. PICK f : Placed(memory, loads, f, n, b)
  BY <1>2, <1>3 DEF RecallInv, Places
<1>6. /\ k \in 1..b /\ loads[k].sync = c.sync
      /\ k < b => loads[k + 1].sync # c.sync
      /\ now - loads[k].at <= HistoryAge /\ b - k < MaxSnapshots
      /\ \E p \in Person : Carries(loads[k].tracks, p, c)
  BY <1>2 DEF Deciding
<1>7. PICK q \in Person : Carries(loads[k].tracks, q, c)
  BY <1>6
<1> HIDE DEF c
<1>8. Ends(loads, k)
  BY <1>2, <1>6 DEF Ends
<1>9. PICK j \in 1..n : f[j] = k
  BY <1>5, <1>6, <1>8 DEF Placed
<1>10. memory[j] = loads[k] /\ loads[k] \in Snapshot
  BY <1>4, <1>5, <1>6, <1>9 DEF Placed
<1>11. <<j, q>> \in Matches(c)
  <2>1. Fresh(memory[j], HistoryAge)
    BY <1>6, <1>10 DEF Fresh
  <2>2. InReach(c, memory[j], MaxSyncDelta)
    BY <1>1, <1>6, <1>10, ExactIsNearest DEF c
  <2>3. Carries(memory[j].tracks, q, c)
    BY <1>7, <1>10
  <2>4. <<j, q>> \in (DOMAIN memory) \X Person /\ <<j, q>>[1] = j /\ <<j, q>>[2] = q
    BY <1>4
  <2> QED BY <2>1, <2>2, <2>3, <2>4 DEF Matches
<1>12. ~Unmapped(c)
  BY <1>11 DEF Unmapped
<1>13. why # "no_target" /\ who \in Person /\ Target(c, who, why)
  BY <1>12 DEF NoTarget, c
<1>14. PICK m \in DOMAIN memory : Best(c, <<m, who>>)
  <2>1. why \notin {"current", "spatial", "stable_id", "explicit"}
    BY <1>11, <1>12, <1>13 DEF Target, c
  <2>2. why = "history"
    BY <1>13, <2>1 DEF Reason
  <2> QED BY <1>13, <2>2 DEF Target
<1>15. /\ m \in 1..n /\ who \in Person
       /\ Fresh(memory[m], HistoryAge) /\ InReach(c, memory[m], MaxSyncDelta)
       /\ Carries(memory[m].tracks, who, c)
  <2>1. <<m, who>> \in Matches(c) /\ <<m, who>>[1] = m /\ <<m, who>>[2] = who
    BY <1>14 DEF Best
  <2> HIDE DEF c
  <2>2. /\ Fresh(memory[m], HistoryAge) /\ InReach(c, memory[m], MaxSyncDelta)
        /\ Carries(memory[m].tracks, who, c)
    BY <2>1 DEF Matches
  <2> QED BY <1>4, <1>13, <2>2
<1>16. /\ memory[m] \in Snapshot /\ memory[j] \in Snapshot
       /\ memory[m].at \in Nat /\ memory[j].at \in Nat /\ who \in Nat /\ q \in Nat
  <2>1. memory[m] \in Snapshot /\ memory[j] \in Snapshot
    BY <1>4, <1>15
  <2> QED BY <1>13, <2>1, ParameterTypes DEF Snapshot
<1>17. /\ SyncDelta(c, memory[m]) \in Nat /\ SyncDelta(c, memory[j]) = 0
       /\ SyncDelta(c, memory[m]) = 0 => memory[m].sync = c.sync
  BY <1>1, <1>6, <1>10, <1>16, ExactIsNearest DEF c
<1>18. \/ m = j
       \/ /\ SyncDelta(c, memory[m]) = 0
          /\ now - memory[m].at < now - memory[j].at \/ (memory[m].at = memory[j].at /\ n - m <= n - j)
  <2>1. CASE <<j, q>> = <<m, who>>
    BY <2>1
  <2>2. CASE <<j, q>> # <<m, who>>
    <3>1. LexLess(Rank(c, <<m, who>>), Rank(c, <<j, q>>))
      BY <1>11, <1>14, <2>2 DEF Best
    <3>2. /\ Rank(c, <<m, who>>) = <<SyncDelta(c, memory[m]), now - memory[m].at, n - m, who>>
          /\ Rank(c, <<j, q>>) = <<SyncDelta(c, memory[j]), now - memory[j].at, n - j, q>>
      BY <1>3 DEF Rank
    <3>3. \/ SyncDelta(c, memory[m]) < 0
          \/ /\ SyncDelta(c, memory[m]) = 0
             /\ \/ now - memory[m].at < now - memory[j].at
                \/ now - memory[m].at = now - memory[j].at /\ n - m <= n - j
      <4>1. PICK d \in Int, d0 \in Int : d = SyncDelta(c, memory[m]) /\ d0 = SyncDelta(c, memory[j])
        BY <1>17
      <4>2. PICK a \in Int, a0 \in Int : a = now - memory[m].at /\ a0 = now - memory[j].at
        BY <1>4, <1>16
      <4>3. PICK o \in Int, o0 \in Int : o = n - m /\ o0 = n - j
        BY <1>15
      <4>4. LexLess(<<d, a, o, who>>, <<d0, a0, o0, q>>)
        BY <3>1, <3>2, <4>1, <4>2, <4>3
      <4>5. d < d0 \/ (d = d0 /\ (a < a0 \/ (a = a0 /\ o <= o0)))
        <5>1. who \in Int /\ q \in Int
          BY <1>16
        <5> QED BY <4>4, <5>1, RankLess
      <4> QED BY <1>17, <4>1, <4>2, <4>3, <4>5
    <3> QED BY <1>4, <1>16, <1>17, <3>3
  <2> QED BY <2>1, <2>2
<1>19. memory[m].sync = c.sync
  BY <1>6, <1>10, <1>17, <1>18
<1>20. /\ f[m] \in 1..b /\ memory[m] = loads[f[m]] /\ Ends(loads, f[m])
       /\ m < j => f[m] < f[j]
  BY <1>5, <1>15 DEF Placed
<1>21. f[m] >= k
  <2> SUFFICES ASSUME f[m] < k PROVE FALSE
    BY <1>6, <1>20
  <2>1. m < j
    <3> SUFFICES ASSUME m > j PROVE FALSE
      BY <1>6, <1>9, <1>15
    <3>1. f[j] < f[m]
      BY <1>5, <1>15 DEF Placed
    <3> QED BY <1>6, <1>9, <1>20, <3>1
  <2>2. loads[f[m]].at <= loads[k].at
    BY <1>4, <1>6, <1>20 DEF RecallInv
  <2> QED BY <1>4, <1>9, <1>10, <1>15, <1>16, <1>18, <1>20, <2>1, <2>2, SMTT(30)
<1>22. f[m] \in Deciding(c, now, b)
  <2>1. loads[f[m]].sync = c.sync /\ (f[m] < b => loads[f[m] + 1].sync # c.sync)
    BY <1>2, <1>19, <1>20 DEF Ends
  <2>2. now - loads[f[m]].at <= HistoryAge /\ Carries(loads[f[m]].tracks, who, c)
    BY <1>15, <1>20 DEF Fresh
  <2>3. b - f[m] < MaxSnapshots
    BY <1>6, <1>20, <1>21, ParameterTypes
  <2> QED BY <1>13, <1>20, <2>1, <2>2, <2>3 DEF Deciding
<1>23. Carries(loads[f[m]].tracks, who, c)
  BY <1>15, <1>20
<1>24. who # Unknown
  BY <1>16 DEF Unknown
<1> QED BY <1>2, <1>22, <1>23, <1>24 DEF c

LEMMA ExactIs ==
  ExactFrameDecides <=> \A n \in Mine : Decided(events[n], lines[events[n].line])
BY DEF ExactFrameDecides, Decided, Deciding, ExactFiles, CandidateOf

ExactInv == LoadedInv /\ RecallInv /\ ExactFrameDecides

\* More files read change nothing for the events written.
LEMMA ExactKept ==
  ASSUME TypeInv, LoadedInv, ExactFrameDecides, UNCHANGED <<events, epoch>>,
         \A i \in DOMAIN lines : lines'[i] = lines[i],
         DOMAIN loads \subseteq DOMAIN loads', \A k \in DOMAIN loads : loads'[k] = loads[k]
  PROVE  ExactFrameDecides'
<1>1. Mine' = Mine
  BY DEF Mine
<1>2. PICK b \in Nat : b = Len(loads) /\ DOMAIN loads = 1..b
  BY DEF TypeInv, MemoryOK
<1>3. SUFFICES ASSUME NEW n \in Mine
               PROVE  Decided(events[n], lines[events[n].line])'
  BY <1>1 DEF ExactFrameDecides, Decided, Deciding, ExactFiles, CandidateOf
<1>4. /\ events' = events
      /\ events[n].loop \in 1..b /\ lines'[events[n].line] = lines[events[n].line]
  <2>1. n \in DOMAIN events
    BY DEF Mine
  <2> QED BY <1>2, <2>1, EventTypes DEF LoadedInv
<1>5. PICK e : e = events[n]
  OBVIOUS
<1>6. PICK c : c = lines[e.line]
  OBVIOUS
<1>7. Deciding(c, e.at, e.loop)' = Deciding(c, e.at, e.loop)
  <2>1. \A k \in 1..e.loop : /\ loads'[k] = loads[k]
                             /\ k < e.loop => loads'[k + 1] = loads[k + 1]
    <3>1. ASSUME NEW k \in 1..e.loop
          PROVE  /\ k \in 1..b
                 /\ k < e.loop => k + 1 \in 1..b
      BY <1>4, <1>5
    <3> QED BY <1>2, <3>1
  <2> QED BY <2>1 DEF Deciding, Carries
<1>8. \A k \in Deciding(c, e.at, e.loop) : loads'[k] = loads[k]
  <2>1. \A k \in 1..e.loop : k \in 1..b
    BY <1>4, <1>5
  <2> QED BY <1>2, <2>1 DEF Deciding
<1>9. Decided(e, c)
  BY <1>5, <1>6, ExactIs
<1>10. Decided(e, c)'
  BY <1>7, <1>8, <1>9 DEF Decided, Carries
<1> QED BY <1>4, <1>5, <1>6, <1>10

LEMMA ExactAnswer ==
  ASSUME TypeInv, ExactInv, NEW i \in batch, NEW key \in EventKey, NEW target, NEW who,
         NEW why \in Reason \cup {"no_target", "no_slot", "no_source"},
         Answer(i, key, target, who, why)
  PROVE  ExactFrameDecides'
<1>1. /\ WriteEvent(i, key, target, who, why)
      /\ why \in Reason => who \in Person /\ Target(lines[i], who, why)
      /\ why = "no_target" => NoTarget(lines[i])
  BY DEF Answer
<1>2. UNCHANGED <<lines, loads, epoch>>
  BY <1>1, AnswerEffect DEF world
<1>3. ASSUME NEW n \in Mine'
      PROVE  Decided(events'[n], lines[events'[n].line])
  <2>1. CASE n \in DOMAIN events
    <3>1. n \in Mine /\ events'[n] = events[n]
      BY <1>1, <1>2, <1>3, <2>1, NewEvent DEF Mine
    <3> QED BY <3>1, ExactIs DEF ExactInv
  <2>2. CASE n \notin DOMAIN events
    <3>1. events' # events
      BY <1>3, <2>2 DEF Mine
    <3>2. n = Len(events) + 1
      BY <1>1, <1>3, <2>2, <3>1, NewEvent DEF Mine
    <3>3. events'[Len(events) + 1] =
            [line |-> i, key |-> key, target |-> target, who |-> who, why |-> why,
             at |-> now, epoch |-> epoch, loop |-> Len(loads)]
      BY <1>1, <3>1, NewEvent
    <3>4. PICK e : e = events'[n]
      OBVIOUS
    <3>5. /\ e.line = i /\ e.why = why /\ e.at = now /\ e.who = who
          /\ e.loop = Len(loads)
      BY <3>2, <3>3, <3>4
    <3>6. Decided(e, lines[i])
      <4> SUFFICES ASSUME lines[i].sync # Unknown, lines[i].gid = Unknown,
                          why \notin {"no_slot", "no_source"},
                          NEW k \in Deciding(lines[i], now, Len(loads))
                   PROVE  \E l \in Deciding(lines[i], now, Len(loads)) :
                             who # Unknown /\ Carries(loads[l].tracks, who, lines[i])
        BY <3>5 DEF Decided
      <4> QED BY <1>1, ExactFound DEF ExactInv
    <3> QED BY <3>4, <3>5, <3>6
  <2> QED BY <2>1, <2>2
<1> QED BY <1>2, <1>3 DEF ExactFrameDecides, Decided, Deciding, ExactFiles, CandidateOf, Carries

LEMMA LoadedAt ==
  ASSUME TypeInv
  PROVE  \A k \in DOMAIN loads : loads[k] \in Snapshot /\ loads[k].at \in Nat
<1>1. \A k \in DOMAIN loads : loads[k] \in Snapshot
  BY DEF TypeInv, MemoryOK
<1> QED BY <1>1, ParameterTypes DEF Snapshot

LEMMA PlacedThen ==
  ASSUME NEW f, Places(memory', loads', f)
  PROVE  (\E g : Places(memory, loads, g))'
BY DEF Places, Placed, Ends

\* The memory and the files read after a step that reads none.
LEMMA RecallKept ==
  ASSUME TypeInv, RecallInv, UNCHANGED <<memory, loads>>, now' \in Nat, now' >= now
  PROVE  RecallInv'
<1>1. \A k \in DOMAIN loads : loads[k].at \in Nat
  BY LoadedAt
<1>2. \A k \in DOMAIN loads' : loads'[k].at <= now'
  BY <1>1, ParameterTypes DEF RecallInv, TypeInv, WorldOK
<1> QED BY <1>2 DEF RecallInv

LEMMA RecallLoad ==
  ASSUME TypeInv, RecallInv, LoadPersons
  PROVE  RecallInv'
<1> DEFINE snap == [sync |-> Last(published).sync, tracks |-> Last(published).tracks, at |-> now]
<1>1. Last(published) \in File /\ now \in 0..ClockBound /\ now \in Nat
  BY LastIn, ParameterTypes DEF TypeInv, WorldOK
<1>2. snap \in Snapshot /\ snap.at = now
  BY <1>1 DEF File, Snapshot
<1>3. /\ memory' = Remember(memory, snap) /\ now' = now
      /\ loads' = IF loads # <<>> /\ Last(loads) = snap THEN loads ELSE Append(loads, snap)
  BY DEF LoadPersons, world
<1> HIDE DEF snap
<1>4. loads \in Seq(Snapshot) /\ memory \in Seq(Snapshot) /\ Len(memory) <= MaxSnapshots
  BY DEF TypeInv, MemoryOK
<1>5. PICK b \in Nat : b = Len(loads) /\ DOMAIN loads = 1..b
  BY <1>4
<1>6. PICK n \in Nat : n = Len(memory) /\ DOMAIN memory = 1..n
  BY <1>4
<1>7. PICK f : Placed(memory, loads, f, n, b)
  BY <1>5, <1>6 DEF RecallInv, Places
<1>8. PICK s \in Snapshot : s = snap
  BY <1>2
<1>9. CASE loads # <<>> /\ Last(loads) = snap
  <2>1. n > 0 /\ b > 0 /\ f[n] = b /\ memory[n] = s
    <3>1. b > 0 /\ loads[b] = s
      BY <1>4, <1>5, <1>8, <1>9, LastIn
    <3>2. n > 0 /\ f[n] = b /\ n \in 1..n
      BY <1>7, <3>1 DEF Placed
    <3>3. memory[n] = loads[b]
      BY <1>7, <3>2 DEF Placed
    <3> QED BY <3>1, <3>2, <3>3
  <2>2. PICK r \in Seq(Snapshot) : r = Remember(memory, snap)
    BY <1>2, <1>4, RememberIs
  <2>3. Len(r) = n /\ r[n] = s /\ (\A j \in 1..(n - 1) : r[j] = memory[j])
    BY <1>2, <1>4, <1>6, <1>8, <2>1, <2>2, RememberSlots
  <2>4. \A j \in 1..n : r[j] = memory[j]
    <3>1. ASSUME NEW j \in 1..n PROVE j = n \/ j \in 1..(n - 1)
      OBVIOUS
    <3> QED BY <2>1, <2>3, <3>1
  <2>5. Placed(r, loads, f, n, b)
    BY <1>7, <2>4, Zenon DEF Placed
  <2>6. Places(memory', loads', f)
    BY <1>3, <1>5, <1>9, <2>2, <2>3, <2>5 DEF Places
  <2>7. loads' = loads
    BY <1>3, <1>9
  <2>8. (\E g : Places(memory, loads, g))'
    BY <2>6, PlacedThen
  <2> QED BY <1>3, <2>7, <2>8 DEF RecallInv
<1>10. CASE ~(loads # <<>> /\ Last(loads) = snap)
  <2>1. loads' = Append(loads, snap)
    BY <1>3, <1>10
  <2>2. PICK g : Places(Remember(memory, snap), Append(loads, snap), g)
    <3>1. Places(memory, loads, f)
      BY <1>5, <1>6, <1>7 DEF Places
    <3> QED BY <1>2, <1>4, <3>1, PlacesNext
  <2>3. Places(memory', loads', g)
    BY <1>3, <2>1, <2>2
  <2>4. /\ DOMAIN loads' = 1..(b + 1) /\ loads'[b + 1] = s
        /\ \A k \in 1..b : loads'[k] = loads[k]
    BY <1>2, <1>4, <1>5, <1>8, <2>1, AppendIs
  <2>5. \A k \in 1..b : loads[k].at \in Nat /\ loads[k].at <= now
    BY <1>5, LoadedAt DEF RecallInv
  <2>6. \A k \in DOMAIN loads' : loads'[k].at <= now'
    <3>1. ASSUME NEW k \in 1..(b + 1) PROVE k = b + 1 \/ k \in 1..b
      OBVIOUS
    <3> QED BY <1>1, <1>2, <1>3, <1>8, <2>4, <2>5, <3>1
  <2>7. \A k, l \in DOMAIN loads' : k <= l => loads'[k].at <= loads'[l].at
    <3>1. ASSUME NEW k \in 1..(b + 1), NEW l \in 1..(b + 1), k <= l
          PROVE  loads'[k].at <= loads'[l].at
      <4>1. CASE l = b + 1
        BY <1>2, <1>3, <1>8, <2>4, <2>6, <4>1
      <4>2. CASE l # b + 1
        <5>1. k \in 1..b /\ l \in 1..b
          BY <3>1, <4>2
        <5>2. loads[k].at <= loads[l].at
          BY <1>5, <3>1, <5>1 DEF RecallInv
        <5> QED BY <2>4, <5>1, <5>2
      <4> QED BY <4>1, <4>2
    <3> QED BY <2>4, <3>1
  <2>8. (\E h : Places(memory, loads, h))'
    BY <2>3, PlacedThen
  <2> QED BY <2>6, <2>7, <2>8 DEF RecallInv
<1> QED BY <1>9, <1>10

LEMMA ExactStep ==
  TypeInv /\ FilterInv /\ CurrentInv /\ CurrentInv' /\ RecallInv /\ ExactFrameDecides /\ [Next]_vars
    => RecallInv' /\ ExactFrameDecides'
<1> SUFFICES ASSUME TypeInv, FilterInv, CurrentInv, CurrentInv', RecallInv, ExactFrameDecides,
                    [Next]_vars
             PROVE  RecallInv' /\ ExactFrameDecides'
  OBVIOUS
<1>0. /\ LoadedInv /\ ExactInv /\ now \in Nat
      /\ \A i \in DOMAIN lines : lines'[i] = lines[i]
  BY LinesKept, ParameterTypes DEF CurrentInv, ExactInv, TypeInv, WorldOK
<1>1. ASSUME NEW i \in batch, HandleCandidate(i) PROVE RecallInv' /\ ExactFrameDecides'
  <2>1. PICK key \in EventKey, target \in Victim, who \in Person \cup {Unknown},
            why \in Reason \cup {"no_target", "no_slot", "no_source"} : Answer(i, key, target, who, why)
    BY <1>1, Answers
  <2>2. WriteEvent(i, key, target, who, why)
    BY <2>1 DEF Answer
  <2>3. UNCHANGED <<memory, loads, now>>
    BY <2>2, AnswerEffect DEF world
  <2> QED BY <1>0, <2>1, <2>3, ExactAnswer, RecallKept
<1>2. CASE LoadPersons
  <2> DEFINE snap == [sync |-> Last(published).sync, tracks |-> Last(published).tracks, at |-> now]
  <2>1. snap \in Snapshot
    <3>1. Last(published) \in File /\ now \in 0..ClockBound
      BY LastIn DEF TypeInv, WorldOK
    <3> QED BY <3>1 DEF File, Snapshot
  <2>2. /\ UNCHANGED <<events, epoch>>
        /\ loads' = IF loads # <<>> /\ Last(loads) = snap THEN loads ELSE Append(loads, snap)
    BY <1>2 DEF LoadPersons, output
  <2> HIDE DEF snap
  <2>3. DOMAIN loads \subseteq DOMAIN loads' /\ (\A k \in DOMAIN loads : loads'[k] = loads[k])
    <3>1. CASE loads # <<>> /\ Last(loads) = snap
      BY <2>2, <3>1
    <3>2. CASE ~(loads # <<>> /\ Last(loads) = snap)
      <4>1. loads' = Append(loads, snap) /\ loads \in Seq(Snapshot)
        BY <2>2, <3>2 DEF TypeInv, MemoryOK
      <4> QED BY <2>1, <4>1, AppendIs
    <3> QED BY <3>1, <3>2
  <2> QED BY <1>0, <1>2, <2>2, <2>3, ExactKept, RecallLoad
<1>3. CASE Restart
  <2>1. Mine' = {} /\ memory' = <<>> /\ loads' = <<>>
    BY <1>3, MineAfterRestart DEF Restart
  <2>2. Places(memory', loads', <<>>)
    BY <2>1 DEF Places, Placed
  <2>3. (\E g : Places(memory, loads, g))'
    BY <2>2, PlacedThen
  <2>4. RecallInv'
    BY <2>1, <2>3 DEF RecallInv
  <2> QED BY <2>1, <2>4 DEF ExactFrameDecides
<1>4. ASSUME UNCHANGED <<events, epoch, loads, memory>>, now' \in Nat, now' >= now
      PROVE  RecallInv' /\ ExactFrameDecides'
  BY <1>0, <1>4, ExactKept, RecallKept
<1>5. CASE ReadCandidates \/ FinishPoll
  <2>1. UNCHANGED <<events, epoch, loads, memory>> /\ now' = now
    BY <1>5 DEF ReadCandidates, FinishPoll, output, world
  <2> QED BY <1>0, <1>4, <2>1
<1>6. CASE UNCHANGED vars \/ (Environment /\ ~Restart)
  <2>1. UNCHANGED service /\ now' \in {now, now + 1}
    BY <1>6 DEF Environment, PublishPersons, ShowSlot, Report, Tick, vars, world
  <2>2. UNCHANGED <<events, epoch, loads, memory>>
    BY <2>1 DEF service, output, tail
  <2> QED BY <1>0, <1>4, <2>1, <2>2
<1> QED BY <1>1, <1>2, <1>3, <1>5, <1>6 DEF Next, Service

\* For any persons, windows, ages and numbers of files remembered: when a file
\* of exactly the candidate's sync index is among the last ones read, is young
\* enough and shows somebody with its local id, the victim is one who carries
\* the id in such a file, whatever later files say.
THEOREM AttributionExactFrame == Spec => []ExactFrameDecides
<1>1. Init => CurrentInv /\ RecallInv /\ ExactFrameDecides
  <2> SUFFICES ASSUME Init PROVE CurrentInv /\ RecallInv /\ ExactFrameDecides
    OBVIOUS
  <2>1. CurrentInv /\ ExactFrameDecides
    BY DEF Init, CurrentInv, LoadedInv, CurrentOnlyOutOfReach, ExactFrameDecides, Mine
  <2>2. Places(memory, loads, <<>>)
    BY DEF Init, Places, Placed
  <2> QED BY <2>1, <2>2 DEF Init, RecallInv
<1>2. TypeInv /\ FilterInv /\ CurrentInv /\ RecallInv /\ ExactFrameDecides /\ [Next]_vars
        => CurrentInv' /\ RecallInv' /\ ExactFrameDecides'
  BY CurrentStep, ExactStep
<1> QED BY <1>1, <1>2, FilterAlways, PTL DEF Spec

=============================================================================
