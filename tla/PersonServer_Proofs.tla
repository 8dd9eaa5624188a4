------------------------ MODULE PersonServer_Proofs ------------------------
(***************************************************************************)
(* Proofs about the two halves of the person server.  PersonSync: any      *)
(* number of cameras, any delay and limits, any lines in any order.        *)
(* PersonTracks: all times and limits that satisfy its assumption, any     *)
(* number of ids and candidates, any observations.                         *)
(***************************************************************************)
EXTENDS PersonSync, PersonTracks, FiniteSetTheorems, SequenceTheorems, WellFoundedInduction, TLAPS

-----------------------------------------------------------------------------
(* PersonSync: the parameters.                                             *)

LEMMA SyncParameters ==
  /\ Camera \subseteq Nat /\ IsFiniteSet(Camera) /\ SyncDelay \in Nat
  /\ MaxLines \in Nat /\ MaxLines > 0 /\ MaxFlush \in Nat /\ MaxFlush > 0
  /\ SyncBound \in Nat /\ LineBound \in Nat /\ FaultBound \in Nat
BY SyncAssumption

-----------------------------------------------------------------------------
(* Finite sets of integers.                                                *)

\* A finite set of integers that is not empty has a largest element.
LEMMA Largest ==
  ASSUME NEW S \in SUBSET Int, IsFiniteSet(S), S # {}
  PROVE  \E m \in S : \A n \in S : n <= m
<1> DEFINE From(x) == {t \in S : x <= t}
           T == {From(x) : x \in S}
           R == StrictSubsetOrdering(S)
<1>1. IsWellFoundedOn(R, SUBSET S)
  BY FS_StrictSubsetOrderingWellFounded, FS_FiniteSubsetsOfFinite
<1>2. T \subseteq SUBSET S /\ T # {}
  OBVIOUS
<1>3. PICK U \in T : \A V \in T : ~(<<V, U>> \in R)
  <2> HIDE DEF T, R
  <2> QED BY <1>1, <1>2, WFMin
<1>4. PICK m \in S : U = From(m)
  OBVIOUS
<1>5. ASSUME NEW n \in S, ~(n <= m) PROVE FALSE
  <2>1. From(n) \in T /\ From(n) \subseteq S /\ From(m) \subseteq S
    OBVIOUS
  <2>0. m \in Int /\ n \in Int /\ m < n
    BY <1>5
  <2>2. m \in From(m) /\ m \notin From(n)
    BY <2>0
  <2>3. From(n) \subseteq From(m)
    <3>1. ASSUME NEW t \in S, n <= t PROVE m <= t
      BY <2>0, <3>1
    <3> QED BY <3>1
  <2> HIDE DEF From
  <2>4. <<From(n), From(m)>> \in R
    BY <2>1, <2>2, <2>3 DEF StrictSubsetOrdering
  <2> HIDE DEF R, T
  <2> QED BY <1>3, <1>4, <2>1, <2>4
<1> QED BY <1>5

\* The n lowest elements of a set are no more than n.
LEMMA Lowest ==
  ASSUME NEW S \in SUBSET Int, IsFiniteSet(S), NEW n \in Nat
  PROVE  LET L == {s \in S : Cardinality({t \in S : t < s}) < n}
         IN  IsFiniteSet(L) /\ Cardinality(L) <= n
<1> DEFINE Below(s) == {t \in S : t < s}
           L == {s \in S : Cardinality(Below(s)) < n}
<1> SUFFICES IsFiniteSet(L) /\ Cardinality(L) <= n
  OBVIOUS
<1>1. IsFiniteSet(L)
  BY FS_Subset
<1>2. CASE L = {}
  <2>1. Cardinality(L) = 0
    BY <1>2, FS_EmptySet
  <2> HIDE DEF L
  <2> QED BY <1>1, <2>1
<1>3. CASE L # {}
  <2>1. PICK m \in L : \A s \in L : s <= m
    BY <1>1, <1>3, Largest
  <2>2. L \ {m} \subseteq Below(m)
    <3>1. ASSUME NEW s \in L, s # m PROVE s < m
      <4>1. s \in Int /\ m \in Int /\ s <= m
        BY <2>1
      <4> QED BY <3>1, <4>1
    <3> QED BY <3>1
  <2>3. IsFiniteSet(Below(m)) /\ Cardinality(Below(m)) \in Nat
    BY FS_Subset, FS_CardinalityType
  <2>4. Cardinality(L \ {m}) <= Cardinality(Below(m)) /\ Cardinality(Below(m)) < n
    BY <2>1, <2>2, <2>3, FS_Subset
  <2> HIDE DEF L, Below
  <2>5. Cardinality(L \ {m}) = Cardinality(L) - 1
    BY <1>1, <2>1, FS_RemoveElement
  <2>6. PICK x \in Nat, y \in Nat, z \in Int :
          x = Cardinality(L) /\ y = Cardinality(Below(m)) /\ z = Cardinality(L \ {m})
    <3>1. Cardinality(L) \in Nat
      BY <1>1, FS_CardinalityType
    <3>2. Cardinality(L) - 1 \in Int
      BY <3>1
    <3> QED BY <3>1, <3>2, <2>3, <2>5
  <2>7. z = x - 1 /\ z <= y /\ y < n
    BY <2>4, <2>5, <2>6
  <2>8. x <= n
    BY <2>7
  <2> QED BY <1>1, <2>6, <2>8
<1> QED BY <1>2, <1>3

-----------------------------------------------------------------------------
(* Types.                                                                  *)

LEMMA Elements ==
  ASSUME NEW S, NEW s \in Seq(S)
  PROVE  DOMAIN s = 1 .. Len(s) /\ Len(s) \in Nat /\ \A i \in DOMAIN s : s[i] \in S /\ i \in Nat
OBVIOUS

FilesOK == file \in [Camera -> Seq(Record)] /\ made \in 0 .. LineBound

TailersOK ==
  /\ opened \in [Camera -> BOOLEAN] /\ pos \in [Camera -> Nat]
  /\ fromEnd \in [Camera -> BOOLEAN]
  /\ older \subseteq RecordId /\ blind \subseteq Camera

TurnOK ==
  /\ pc \in {"poll", "flush"} /\ todo \subseteq Camera
  /\ batch \subseteq DOMAIN pending /\ Cardinality(batch) <= MaxFlush

PendingOK ==
  /\ DOMAIN pending \subseteq Sync
  /\ \A s \in DOMAIN pending : pending[s] \subseteq RecordId
  /\ out \in Seq([sync : Sync, recs : SUBSET RecordId])

HistoryOK ==
  /\ seen \in Sync \cup {-1} /\ ahead \in Sync \cup {-1}
  /\ late \subseteq RecordId /\ dropped \subseteq RecordId /\ faults \in Nat

LEMMA TypeParts == SyncTypeOK <=> FilesOK /\ TailersOK /\ TurnOK /\ PendingOK /\ HistoryOK
BY DEF SyncTypeOK, FilesOK, TailersOK, TurnOK, PendingOK, HistoryOK

LEMMA SyncFinite ==
  /\ IsFiniteSet(Sync) /\ Sync \subseteq Nat /\ IsFiniteSet(Sync \cup {-1})
  /\ \A S \in SUBSET Sync : IsFiniteSet(S)
<1>1. IsFiniteSet(Sync)
  BY SyncParameters, FS_Interval DEF Sync
<1>2. Sync \subseteq Nat
  BY DEF Sync
<1>3. IsFiniteSet(Sync \cup {-1})
  BY <1>1, FS_AddElement
<1>4. \A S \in SUBSET Sync : IsFiniteSet(S)
  BY <1>1, FS_Subset
<1> QED BY <1>1, <1>2, <1>3, <1>4

LEMMA PartBelow ==
  ASSUME NEW x \in Nat, NEW y \in Nat, NEW z \in Nat, x + y <= z
  PROVE  x <= z
OBVIOUS

\* What PollLines reads: n lines that follow position at.
LEMMA LinesRead ==
  ASSUME NEW s \in Seq(Record), NEW at \in Nat, NEW n \in Nat, at + n <= Len(s)
  PROVE  /\ SubSeq(s, at + 1, at + n) \in Seq(Record)
         /\ DOMAIN SubSeq(s, at + 1, at + n) = 1 .. n
         /\ \A i \in 1 .. n : SubSeq(s, at + 1, at + n)[i] = s[at + i] /\ at + i \in DOMAIN s
<1> DEFINE from == at + 1
           to == at + n
           lines == SubSeq(s, from, to)
<1>0. from \in Int /\ to \in Int /\ Len(s) \in Nat /\ DOMAIN s = 1 .. Len(s)
  BY LenProperties
<1>1. \A i \in from .. to : i \in 1 .. Len(s)
  BY <1>0
<1>2. \A i \in from .. to : s[i] \in Record
  BY <1>1, ElementOfSeq
<1>3. to - from + 1 = n /\ (from <= to <=> n > 0)
  OBVIOUS
<1>4. \A i \in 1 .. n : from + i - 1 = at + i /\ at + i \in from .. to
  OBVIOUS
<1>5. \A i \in 1 .. n : at + i \in 1 .. Len(s)
  BY <1>1, <1>4
<1> HIDE DEF from, to
<1>6. /\ lines \in Seq(Record)
      /\ Len(lines) = IF from <= to THEN to - from + 1 ELSE 0
      /\ \A i \in 1 .. to - from + 1 : lines[i] = s[from + i - 1]
  <2> HIDE DEF lines
  <2> QED BY <1>0, <1>2, SubSeqProperties DEF lines
<1> HIDE DEF lines
<1>7. Len(lines) = n /\ DOMAIN lines = 1 .. Len(lines)
  BY <1>3, <1>6, LenProperties
<1>8. \A i \in 1 .. n : lines[i] = s[at + i]
  BY <1>3, <1>4, <1>6
<1>9. /\ lines \in Seq(Record) /\ DOMAIN lines = 1 .. n
      /\ \A i \in 1 .. n : lines[i] = s[at + i] /\ at + i \in DOMAIN s
  BY <1>0, <1>5, <1>6, <1>7, <1>8
<1> QED BY <1>9 DEF lines, from, to

Reads(c, at, n, lines) ==
  /\ at = Start(c) /\ at \in Nat /\ n \in Nat /\ at + n <= Len(file[c])
  /\ lines = SubSeq(file[c], at + 1, at + n)
  /\ lines \in Seq(Record) /\ DOMAIN lines = 1 .. n
  /\ \A i \in 1 .. n : /\ lines[i] = file[c][at + i] /\ at + i \in DOMAIN file[c]
                       /\ lines[i] \in Record

LEMMA ReadsNumbers ==
  ASSUME NEW c, NEW at, NEW n, NEW lines, Reads(c, at, n, lines)
  PROVE  at \in Nat /\ n \in Nat /\ at + n <= Len(file[c])
BY DEF Reads

LEMMA PollReads ==
  ASSUME SyncTypeOK, NEW c \in Camera, NEW tracking \in BOOLEAN, PollLines(c, tracking)
  PROVE  \E at, n, lines :
           /\ Reads(c, at, n, lines) /\ Read(c, lines, tracking)
           /\ pos' = [pos EXCEPT ![c] = at + n]
           /\ older' = IF opened[c] THEN older ELSE older \cup Ids(SubSeq(file[c], 1, at))
<1> DEFINE at == Start(c)
           n == IF Len(file[c]) - at < MaxLines THEN Len(file[c]) - at ELSE MaxLines
           lines == SubSeq(file[c], at + 1, at + n)
<1>1. file[c] \in Seq(Record) /\ Len(file[c]) \in Nat /\ pos[c] \in Nat
  BY DEF SyncTypeOK
<1>2. at \in Nat /\ at <= Len(file[c])
  BY <1>1 DEF PollLines, Start
<1>3. n \in Nat /\ at + n <= Len(file[c])
  <2> HIDE DEF at
  <2> QED BY <1>1, <1>2, SyncParameters
<1>4. /\ lines \in Seq(Record) /\ DOMAIN lines = 1 .. n
      /\ \A i \in 1 .. n : lines[i] = file[c][at + i] /\ at + i \in DOMAIN file[c]
  <2> HIDE DEF at, n
  <2> QED BY <1>1, <1>2, <1>3, LinesRead
<1>5. /\ Read(c, lines, tracking) /\ pos' = [pos EXCEPT ![c] = at + n]
      /\ older' = IF opened[c] THEN older ELSE older \cup Ids(SubSeq(file[c], 1, at))
  <2> USE DEF PollLines
  <2>1. Read(c, lines, tracking)
    OBVIOUS
  <2>2. pos' = [pos EXCEPT ![c] = at + n]
    OBVIOUS
  <2>3. older' = IF opened[c] THEN older ELSE older \cup Ids(SubSeq(file[c], 1, at))
    OBVIOUS
  <2> QED BY <2>1, <2>2, <2>3
<1>6. \A i \in 1 .. n : lines[i] \in Record
  <2> HIDE DEF lines, n
  <2> QED BY <1>1, <1>4
<1>7. Reads(c, at, n, lines)
  BY <1>2, <1>3, <1>4, <1>6 DEF Reads
<1> HIDE DEF at, n, lines
<1> QED BY <1>5, <1>7

\* What reading lines does to pending, seen and late.
LEMMA ReadEffect ==
  ASSUME SyncTypeOK, NEW c \in Camera, NEW tracking \in BOOLEAN, NEW at, NEW n, NEW lines,
         Reads(c, at, n, lines), Read(c, lines, tracking)
  PROVE  /\ DOMAIN pending \subseteq DOMAIN pending' /\ DOMAIN pending' \subseteq Sync
         /\ \A s \in DOMAIN pending' :
              pending'[s] = Under(s) \cup
                {lines[i].id : i \in {k \in 1 .. n : lines[k].sync = s /\ lines[k].full}}
         /\ \A i \in 1 .. n : lines[i].full => lines[i].sync \in DOMAIN pending'
         /\ seen' \in Sync \cup {-1} /\ seen <= seen'
         /\ \A s \in DOMAIN pending' \ DOMAIN pending : s <= seen'
         /\ late' = late \cup {lines[i].id : i \in
                {k \in 1 .. n : lines[k].full /\ lines[k].sync + SyncDelay <= ahead}}
<1> DEFINE kept == Kept(lines, tracking)
           new == {lines[i].sync : i \in kept}
           of(s) == {lines[i].id : i \in {k \in kept : lines[k].sync = s /\ lines[k].full}}
<1>1. DOMAIN lines = 1 .. n /\ \A i \in 1 .. n : lines[i] \in Record
  BY DEF Reads
<1>2. kept \subseteq 1 .. n /\ \A i \in 1 .. n : lines[i].full => i \in kept
  BY <1>1 DEF Kept
<1>3. \A i \in 1 .. n : lines[i].sync \in Sync /\ lines[i].id \in RecordId
  BY <1>1 DEF Record
<1>4. pending' = [s \in DOMAIN pending \cup new |-> Under(s) \cup of(s)]
  BY DEF Read, Extended
<1>5. \A s : of(s) = {lines[i].id : i \in {k \in 1 .. n : lines[k].sync = s /\ lines[k].full}}
  BY <1>2
<1>6. new \subseteq Sync
  BY <1>2, <1>3
<1>7. DOMAIN pending \subseteq Sync /\ seen \in Sync \cup {-1}
  BY DEF SyncTypeOK
<1>8. /\ seen' \in Sync \cup {-1} /\ seen <= seen' /\ \A s \in new : s <= seen'
  <2> DEFINE syncs == new \cup {seen}
  <2> HIDE DEF new
  <2>1. syncs \subseteq Sync \cup {-1} /\ syncs # {}
    BY <1>6, <1>7
  <2>2. IsFiniteSet(syncs) /\ syncs \subseteq Int
    <3> HIDE DEF syncs
    <3>1. Sync \cup {-1} \subseteq Int
      BY DEF Sync
    <3> QED BY <2>1, <3>1, SyncFinite, FS_Subset
  <2>3. \E m \in syncs : \A t \in syncs : t <= m
    BY <2>1, <2>2, Largest
  <2>4. seen' = CHOOSE s \in syncs : \A t \in syncs : t <= s
    BY DEF Read, HighestOf, new
  <2>5. seen' \in syncs /\ \A t \in syncs : t <= seen'
    <3> HIDE DEF syncs
    <3> QED BY <2>3, <2>4
  <2> QED BY <2>1, <2>5
<1>9. late' = late \cup {lines[i].id : i \in
                {k \in 1 .. n : lines[k].full /\ lines[k].sync + SyncDelay <= ahead}}
  BY <1>1 DEF Read
<1> HIDE DEF new, of, kept
<1>10. DOMAIN pending' = DOMAIN pending \cup new
  BY <1>4
<1>11. \A i \in 1 .. n : lines[i].full => lines[i].sync \in DOMAIN pending'
  BY <1>2, <1>10 DEF new
<1> QED BY <1>4, <1>5, <1>6, <1>7, <1>8, <1>9, <1>10, <1>11

LEMMA TypeInit == SyncInit => SyncTypeOK
<1> SUFFICES ASSUME SyncInit PROVE SyncTypeOK
  OBVIOUS
<1> USE SyncParameters DEF SyncInit
<1>1. FilesOK
  BY DEF FilesOK
<1>2. TailersOK
  <2>1. opened \in [Camera -> BOOLEAN] /\ fromEnd \in [Camera -> BOOLEAN]
    OBVIOUS
  <2> QED BY <2>1 DEF TailersOK
<1>3. TurnOK
  BY FS_EmptySet DEF TurnOK
<1>4. PendingOK
  BY DEF PendingOK
<1>5. HistoryOK
  BY DEF HistoryOK
<1> QED BY <1>1, <1>2, <1>3, <1>4, <1>5, TypeParts

LEMMA TypeStep == SyncTypeOK /\ [SyncNext]_syncVars => SyncTypeOK'
<1> SUFFICES ASSUME SyncTypeOK, [SyncNext]_syncVars PROVE SyncTypeOK'
  OBVIOUS
<1>0. FilesOK /\ TailersOK /\ TurnOK /\ PendingOK /\ HistoryOK
  BY TypeParts
<1>p. SyncTypeOK' <=> FilesOK' /\ TailersOK' /\ TurnOK' /\ PendingOK' /\ HistoryOK'
  BY DEF SyncTypeOK, FilesOK, TailersOK, TurnOK, PendingOK, HistoryOK
<1> USE SyncParameters
<1>1. ASSUME NEW c \in Camera, NEW s \in Sync, NEW full \in BOOLEAN, Append1(c, s, full)
      PROVE  SyncTypeOK'
  <2>1. /\ made < LineBound /\ made' = made + 1
        /\ file' = [file EXCEPT ![c] = Append(@, [id |-> made + 1, sync |-> s, full |-> full])]
        /\ UNCHANGED <<tailers, blind, pc, todo, batch, pending, out, history, faults>>
    BY <1>1 DEF Append1
  <2>2. [id |-> made + 1, sync |-> s, full |-> full] \in Record
    BY <1>0, <2>1 DEF FilesOK, Record, RecordId
  <2>3. Append(file[c], [id |-> made + 1, sync |-> s, full |-> full]) \in Seq(Record)
    BY <1>0, <2>2, AppendProperties DEF FilesOK
  <2>4. FilesOK'
    BY <1>0, <2>1, <2>3 DEF FilesOK
  <2>5. TailersOK' /\ TurnOK' /\ PendingOK' /\ HistoryOK'
    BY <1>0, <2>1 DEF TailersOK, TurnOK, PendingOK, HistoryOK, tailers, history
  <2> QED BY <1>p, <2>4, <2>5
<1>2. ASSUME NEW c \in Camera, Truncate(c) PROVE SyncTypeOK'
  <2>1. FilesOK'
    BY <1>0, <1>2 DEF Truncate, FilesOK
  <2>2. TailersOK'
    BY <1>0, <1>2 DEF Truncate, TailersOK, tailers
  <2>3. TurnOK' /\ PendingOK' /\ HistoryOK'
    BY <1>0, <1>2 DEF Truncate, TurnOK, PendingOK, HistoryOK, history
  <2> QED BY <1>p, <2>1, <2>2, <2>3
<1>3. CASE ResetPending
  <2>1. /\ pc' = "poll" /\ todo' = Camera /\ UNCHANGED <<files, tailers, blind, batch>>
        /\ batch = {} /\ pending' = [s \in {} |-> {}] /\ out' = <<>> /\ faults' = faults + 1
        /\ dropped' = dropped \cup Waiting \cup Published
        /\ seen' = -1 /\ ahead' = -1 /\ UNCHANGED late
    BY <1>3 DEF ResetPending, BeginTurn
  <2>2. Waiting \subseteq RecordId /\ Published \subseteq RecordId
    <3>1. \A i \in DOMAIN out : out[i] \in [sync : Sync, recs : SUBSET RecordId]
      BY <1>0, Elements DEF PendingOK
    <3> QED BY <1>0, <3>1 DEF PendingOK, Waiting, Published
  <2>3. FilesOK' /\ TailersOK'
    BY <1>0, <2>1 DEF FilesOK, TailersOK, files, tailers
  <2>4. TurnOK' /\ PendingOK'
    BY <2>1, FS_EmptySet DEF TurnOK, PendingOK
  <2>5. HistoryOK'
    BY <1>0, <2>1, <2>2 DEF HistoryOK
  <2> QED BY <1>p, <2>3, <2>4, <2>5
<1>4. CASE PollControl
  <2>1. /\ pc' = "poll" /\ todo' = Camera
        /\ UNCHANGED <<files, tailers, blind, batch, pending, out, history, faults>>
    BY <1>4 DEF PollControl, BeginTurn
  <2>2. FilesOK' /\ TailersOK' /\ PendingOK' /\ HistoryOK'
    BY <1>0, <2>1 DEF FilesOK, TailersOK, PendingOK, HistoryOK, files, tailers, history
  <2>3. TurnOK'
    BY <1>0, <2>1 DEF TurnOK
  <2> QED BY <1>p, <2>2, <2>3
<1>5. ASSUME NEW c \in Camera, NEW tracking \in BOOLEAN, PollLines(c, tracking) PROVE SyncTypeOK'
  <2>1. PICK at, n, lines :
          /\ Reads(c, at, n, lines) /\ Read(c, lines, tracking)
          /\ pos' = [pos EXCEPT ![c] = at + n]
          /\ older' = IF opened[c] THEN older ELSE older \cup Ids(SubSeq(file[c], 1, at))
    BY <1>5, PollReads
  <2>2. /\ opened' = [opened EXCEPT ![c] = TRUE] /\ todo' = todo \ {c}
        /\ UNCHANGED <<files, fromEnd, blind, pc, batch, out, ahead, dropped, faults>>
    BY <1>5 DEF PollLines
  <2>3. at \in Nat /\ n \in Nat /\ at <= Len(file[c]) /\ file[c] \in Seq(Record)
    <3>1. file[c] \in Seq(Record) /\ Len(file[c]) \in Nat
      BY <1>0, LenProperties DEF FilesOK
    <3>2. at \in Nat /\ n \in Nat /\ at + n <= Len(file[c])
      BY <2>1, ReadsNumbers
    <3> QED BY <3>1, <3>2, PartBelow
  <2>4. Ids(SubSeq(file[c], 1, at)) \subseteq RecordId
    <3>1. 0 \in Nat /\ 0 + at <= Len(file[c])
      BY <2>3
    <3>2. SubSeq(file[c], 1, at) \in Seq(Record)
      BY <2>3, SubSeqProperties
    <3> QED BY <3>2 DEF Ids, Record
  <2>5. TailersOK'
    <3>1. older' \subseteq RecordId
      BY <1>0, <2>1, <2>4 DEF TailersOK
    <3>2. pos' \in [Camera -> Nat]
      BY <1>0, <2>1, <2>3 DEF TailersOK
    <3>3. opened' \in [Camera -> BOOLEAN] /\ fromEnd' \in [Camera -> BOOLEAN]
      BY <1>0, <2>2 DEF TailersOK
    <3>4. blind' \subseteq Camera
      BY <1>0, <2>2 DEF TailersOK
    <3> QED BY <3>1, <3>2, <3>3, <3>4 DEF TailersOK
  <2>6. /\ DOMAIN pending \subseteq DOMAIN pending' /\ DOMAIN pending' \subseteq Sync
        /\ \A s \in DOMAIN pending' :
             pending'[s] = Under(s) \cup
               {lines[i].id : i \in {k \in 1 .. n : lines[k].sync = s /\ lines[k].full}}
        /\ seen' \in Sync \cup {-1}
        /\ late' = late \cup {lines[i].id : i \in
                {k \in 1 .. n : lines[k].full /\ lines[k].sync + SyncDelay <= ahead}}
    BY <2>1, ReadEffect
  <2>7. \A i \in 1 .. n : lines[i].id \in RecordId
    BY <2>1 DEF Reads, Record
  <2>8. PendingOK'
    <3>1. \A s : Under(s) \subseteq RecordId
      BY <1>0 DEF PendingOK, Under
    <3>2. \A s \in DOMAIN pending' : pending'[s] \subseteq RecordId
      BY <2>6, <2>7, <3>1
    <3> QED BY <1>0, <2>2, <2>6, <3>2 DEF PendingOK
  <2>9. HistoryOK'
    <3>1. late' \subseteq RecordId
      BY <1>0, <2>6, <2>7 DEF HistoryOK
    <3> QED BY <1>0, <2>2, <2>6, <3>1 DEF HistoryOK
  <2>10. FilesOK' /\ TurnOK'
    BY <1>0, <2>2, <2>6 DEF FilesOK, TurnOK, files
  <2> QED BY <1>p, <2>5, <2>8, <2>9, <2>10
<1>6. ASSUME NEW c \in Camera, PollShrunk(c) PROVE SyncTypeOK'
  <2>1. TailersOK'
    <3>1. fromEnd' \in [Camera -> BOOLEAN] /\ opened' \in [Camera -> BOOLEAN]
      BY <1>0, <1>6 DEF PollShrunk, TailersOK
    <3>2. pos' \in [Camera -> Nat] /\ older' \subseteq RecordId /\ blind' \subseteq Camera
      BY <1>0, <1>6 DEF PollShrunk, TailersOK
    <3> QED BY <3>1, <3>2 DEF TailersOK
  <2>2. FilesOK' /\ TurnOK' /\ PendingOK' /\ HistoryOK'
    BY <1>0, <1>6 DEF PollShrunk, FilesOK, TurnOK, PendingOK, HistoryOK, files, history
  <2> QED BY <1>p, <2>1, <2>2
<1>7. ASSUME NEW c \in Camera, PollMissing(c) PROVE SyncTypeOK'
  BY <1>0, <1>p, <1>7
     DEF PollMissing, FilesOK, TailersOK, TurnOK, PendingOK, HistoryOK, files, tailers, history
<1>8. CASE TakeBatch
  <2>1. /\ batch' = {s \in Ready : Cardinality({t \in Ready : t < s}) < MaxFlush}
        /\ pc' = "flush" /\ ahead' = seen
        /\ UNCHANGED <<files, tailers, blind, todo, pending, out, seen, late, dropped, faults>>
    BY <1>8 DEF TakeBatch
  <2>2. Ready \subseteq DOMAIN pending /\ Ready \subseteq Int /\ IsFiniteSet(Ready)
    <3>1. Ready \subseteq DOMAIN pending /\ Ready \subseteq Sync
      BY <1>0 DEF Ready, PendingOK
    <3>2. Sync \subseteq Int
      BY DEF Sync
    <3>3. IsFiniteSet(Ready)
      BY <3>1, SyncFinite
    <3> QED BY <3>1, <3>2, <3>3
  <2>3. Cardinality(batch') <= MaxFlush
    BY <2>1, <2>2, Lowest
  <2>4. TurnOK'
    BY <1>0, <2>1, <2>2, <2>3 DEF TurnOK
  <2>5. FilesOK' /\ TailersOK' /\ PendingOK' /\ HistoryOK'
    BY <1>0, <2>1 DEF FilesOK, TailersOK, PendingOK, HistoryOK, files, tailers
  <2> QED BY <1>p, <2>4, <2>5
<1>9. CASE FlushNext
  <2>1. PICK s \in batch :
          /\ batch' = batch \ {s}
          /\ pending' = [t \in DOMAIN pending \ {s} |-> pending[t]]
          /\ out' = Append(out, [sync |-> s, recs |-> pending[s]])
    BY <1>9 DEF FlushNext
  <2>2. UNCHANGED <<files, tailers, blind, pc, todo, history, faults>>
    BY <1>9 DEF FlushNext
  <2>3. [sync |-> s, recs |-> pending[s]] \in [sync : Sync, recs : SUBSET RecordId]
    BY <1>0 DEF TurnOK, PendingOK
  <2>4. PendingOK'
    BY <1>0, <2>1, <2>3, AppendProperties DEF PendingOK
  <2>5. TurnOK'
    <3>1. IsFiniteSet(batch)
      BY <1>0, SyncFinite DEF TurnOK, PendingOK
    <3>2. Cardinality(batch') <= Cardinality(batch) /\ Cardinality(batch') \in Nat
      BY <2>1, <3>1, FS_Subset, FS_CardinalityType
    <3>3. Cardinality(batch) \in Nat
      BY <3>1, FS_CardinalityType
    <3>4. Cardinality(batch') <= MaxFlush
      BY <1>0, <3>2, <3>3 DEF TurnOK
    <3> QED BY <1>0, <2>1, <2>2, <3>4 DEF TurnOK
  <2>6. FilesOK' /\ TailersOK' /\ HistoryOK'
    BY <1>0, <2>2 DEF FilesOK, TailersOK, HistoryOK, files, tailers, history
  <2> QED BY <1>p, <2>4, <2>5, <2>6
<1>10. CASE UNCHANGED syncVars
  BY <1>0, <1>p, <1>10
     DEF syncVars, FilesOK, TailersOK, TurnOK, PendingOK, HistoryOK, files, tailers, history
<1> QED BY <1>1, <1>2, <1>3, <1>4, <1>5, <1>6, <1>7, <1>8, <1>9, <1>10 DEF SyncNext, Server, Poll

\* Types, and no turn flushes more than max_sync_flush_per_loop sync indices
\* (SyncTypeOK).
THEOREM SyncTypes == SyncSpec => []SyncTypeOK
BY TypeInit, TypeStep, PTL DEF SyncSpec

-----------------------------------------------------------------------------
(* Order.                                                                  *)

\* Everything handed over lies sync_delay behind what had been seen when the
\* turn's polls were over, and so does the batch, which takes the lowest; a
\* record that waits under a sync index already passed came late.
OrderInv ==
  /\ ahead <= seen
  /\ \A s \in DOMAIN pending : s <= seen
  /\ \A i \in DOMAIN out : out[i].sync <= ahead - SyncDelay
  /\ \A s \in DOMAIN pending, i \in DOMAIN out :
       s <= out[i].sync => pending[s] \subseteq late
  /\ \A b \in batch :
       /\ b <= ahead - SyncDelay
       /\ \A s \in DOMAIN pending : s <= b => s \in batch
  /\ pc = "poll" => batch = {}
  /\ OrderedUnlessLate

LEMMA OutTypes ==
  ASSUME SyncTypeOK
  PROVE  /\ \A i \in DOMAIN out : out[i].sync \in Nat /\ i \in Nat
         /\ out \in Seq([sync : Sync, recs : SUBSET RecordId]) /\ DOMAIN out = 1 .. Len(out)
         /\ Len(out) \in Nat
         /\ DOMAIN pending \subseteq Nat /\ batch \subseteq DOMAIN pending
         /\ ahead \in Int /\ seen \in Int
<1> DEFINE Frame == [sync : Sync, recs : SUBSET RecordId]
<1>1. out \in Seq(Frame)
  BY DEF SyncTypeOK
<1>2. /\ DOMAIN out = 1 .. Len(out) /\ Len(out) \in Nat
      /\ \A i \in DOMAIN out : out[i] \in Frame /\ i \in Nat
  <2> HIDE DEF Frame
  <2> QED BY <1>1, Elements
<1>3. Sync \subseteq Nat /\ Sync \cup {-1} \subseteq Int
  BY DEF Sync
<1>4. \A i \in DOMAIN out : out[i].sync \in Nat
  BY <1>2, <1>3
<1>5. DOMAIN pending \subseteq Nat /\ batch \subseteq DOMAIN pending
  BY <1>3 DEF SyncTypeOK
<1>6. ahead \in Int /\ seen \in Int
  BY <1>3 DEF SyncTypeOK
<1> QED BY <1>1, <1>2, <1>4, <1>5, <1>6

LEMMA OrderStep == SyncTypeOK /\ SyncTypeOK' /\ OrderInv /\ [SyncNext]_syncVars => OrderInv'
<1> SUFFICES ASSUME SyncTypeOK, SyncTypeOK', OrderInv, [SyncNext]_syncVars PROVE OrderInv'
  OBVIOUS
<1> USE SyncParameters, OutTypes
<1>1. CASE UNCHANGED <<pc, batch, pending, out, history>>
  BY <1>1 DEF OrderInv, OrderedUnlessLate, history
<1>2. CASE ResetPending
  <2>1. /\ batch' = {} /\ DOMAIN pending' = {} /\ DOMAIN out' = {} /\ seen' = -1 /\ ahead' = -1
    BY <1>2 DEF ResetPending, BeginTurn
  <2> QED BY <2>1 DEF OrderInv, OrderedUnlessLate
<1>3. CASE PollControl
  <2>1. batch = {} /\ UNCHANGED <<batch, pending, out, history>>
    BY <1>3 DEF PollControl, BeginTurn
  <2> QED BY <2>1 DEF OrderInv, OrderedUnlessLate, history
<1>4. ASSUME NEW c \in Camera, NEW tracking \in BOOLEAN, PollLines(c, tracking) PROVE OrderInv'
  <2>1. PICK at, n, lines : Reads(c, at, n, lines) /\ Read(c, lines, tracking)
    BY <1>4, PollReads
  <2>2. UNCHANGED <<pc, batch, out, ahead>> /\ pc = "poll"
    BY <1>4 DEF PollLines, Turn
  <2>3. /\ DOMAIN pending \subseteq DOMAIN pending'
        /\ \A s \in DOMAIN pending' :
             pending'[s] = Under(s) \cup
               {lines[i].id : i \in {k \in 1 .. n : lines[k].sync = s /\ lines[k].full}}
        /\ seen <= seen' /\ \A s \in DOMAIN pending' \ DOMAIN pending : s <= seen'
        /\ late' = late \cup {lines[i].id : i \in
               {k \in 1 .. n : lines[k].full /\ lines[k].sync + SyncDelay <= ahead}}
    BY <2>1, ReadEffect
  <2>4. seen' \in Int /\ DOMAIN pending' \subseteq Nat
    BY DEF SyncTypeOK, Sync
  <2>5. ASSUME NEW s \in DOMAIN pending', NEW i \in DOMAIN out', s <= out'[i].sync
        PROVE  pending'[s] \subseteq late'
    <3>1. i \in DOMAIN out /\ s <= out[i].sync /\ s \in Nat /\ out[i].sync \in Nat
      BY <2>2, <2>4, <2>5
    <3>2. s + SyncDelay <= ahead
      BY <3>1 DEF OrderInv
    <3>3. Under(s) \subseteq late
      BY <3>1 DEF OrderInv, Under
    <3>4. {k \in 1 .. n : lines[k].sync = s /\ lines[k].full}
            \subseteq {k \in 1 .. n : lines[k].full /\ lines[k].sync + SyncDelay <= ahead}
      BY <3>2
    <3> QED BY <2>3, <3>3, <3>4
  <2>6. batch = {} /\ batch' = {}
    BY <2>2 DEF OrderInv
  <2>7. OrderedUnlessLate'
    BY <2>2, <2>3 DEF OrderInv, OrderedUnlessLate
  <2>8. ahead' <= seen' /\ \A s \in DOMAIN pending' : s <= seen'
    BY <2>2, <2>3, <2>4 DEF OrderInv
  <2> QED BY <2>2, <2>5, <2>6, <2>7, <2>8 DEF OrderInv
<1>5. CASE TakeBatch
  <2>1. /\ batch' = {s \in Ready : Cardinality({t \in Ready : t < s}) < MaxFlush}
        /\ pc' = "flush" /\ ahead' = seen
        /\ UNCHANGED <<pending, out, seen, late>>
    BY <1>5 DEF TakeBatch
  <2>2. /\ Ready = {s \in DOMAIN pending : \E t \in DOMAIN pending : s <= t - SyncDelay}
        /\ IsFiniteSet(Ready)
    <3>1. Ready \subseteq Sync
      BY DEF Ready, SyncTypeOK
    <3> QED BY <3>1, SyncFinite DEF Ready
  <2>3. ASSUME NEW b \in batch'
        PROVE  /\ b <= ahead' - SyncDelay
               /\ \A s \in DOMAIN pending' : s <= b => s \in batch'
    <3>1. b \in Ready /\ Cardinality({t \in Ready : t < b}) < MaxFlush /\ b \in Nat
      BY <2>1, <2>2
    <3>2. PICK u \in DOMAIN pending : b <= u - SyncDelay
      BY <2>2, <3>1
    <3>3. b <= ahead' - SyncDelay
      BY <2>1, <3>1, <3>2 DEF OrderInv
    <3>4. ASSUME NEW s \in DOMAIN pending, s <= b PROVE s \in batch'
      <4>1. s \in Ready
        BY <2>2, <3>1, <3>2, <3>4
      <4>2. {t \in Ready : t < s} \subseteq {t \in Ready : t < b}
        BY <2>2, <3>1, <3>4
      <4> DEFINE S == {t \in Ready : t < s}
                 B == {t \in Ready : t < b}
      <4>3. IsFiniteSet(B)
        BY <2>2, FS_Subset
      <4>4. /\ Cardinality(S) <= Cardinality(B) /\ IsFiniteSet(S)
        BY <4>2, <4>3, FS_Subset
      <4>5. Cardinality(S) \in Nat /\ Cardinality(B) \in Nat
        BY <4>3, <4>4, FS_CardinalityType
      <4>6. Cardinality(B) < MaxFlush
        BY <3>1
      <4>7. Cardinality(S) < MaxFlush
        <5> HIDE DEF S, B
        <5> QED BY <4>4, <4>5, <4>6
      <4> QED BY <2>1, <4>1, <4>7
    <3> QED BY <2>1, <3>3, <3>4
  <2>4. ASSUME NEW i \in DOMAIN out' PROVE out'[i].sync <= ahead' - SyncDelay
    BY <2>1 DEF OrderInv
  <2>5. OrderedUnlessLate'
    BY <2>1 DEF OrderInv, OrderedUnlessLate
  <2> QED BY <2>1, <2>3, <2>4, <2>5 DEF OrderInv
<1>6. CASE FlushNext
  <2>1. PICK b \in batch :
          /\ \A t \in batch : b <= t
          /\ batch' = batch \ {b}
          /\ pending' = [t \in DOMAIN pending \ {b} |-> pending[t]]
          /\ out' = Append(out, [sync |-> b, recs |-> pending[b]])
    BY <1>6 DEF FlushNext
  <2>2. UNCHANGED history /\ pc = "flush" /\ pc' = "flush"
    BY <1>6 DEF FlushNext
  <2>3. UNCHANGED <<seen, ahead, late>>
    BY <2>2 DEF history
  <2> DEFINE e == [sync |-> b, recs |-> pending[b]]
             n == Len(out)
  <2>4. /\ DOMAIN out' = 1 .. n + 1 /\ \A i \in 1 .. n : out'[i] = out[i]
        /\ out'[n + 1].sync = b /\ out'[n + 1].recs = pending[b]
        /\ n \in Nat /\ DOMAIN out = 1 .. n
    <3>1. e \in [sync : Sync, recs : SUBSET RecordId]
      BY DEF SyncTypeOK
    <3> HIDE DEF e
    <3>2. /\ Len(out') = n + 1 /\ \A i \in 1 .. n : out'[i] = out[i]
          /\ out'[n + 1] = e /\ DOMAIN out' = 1 .. Len(out')
      BY <2>1, <3>1, AppendProperties DEF e
    <3> QED BY <3>2 DEF e
  <2> HIDE DEF n
  <2>5. \A t \in DOMAIN pending' : t \in DOMAIN pending /\ pending'[t] = pending[t] /\ t # b
    BY <2>1
  <2>6. \A t \in DOMAIN pending' : ~(t <= b)
    <3> SUFFICES ASSUME NEW t \in DOMAIN pending', t <= b PROVE FALSE
      OBVIOUS
    <3>1. t \in batch /\ t \in Nat /\ b \in Nat
      BY <2>5 DEF OrderInv
    <3>2. b <= t
      BY <2>1, <3>1
    <3> QED BY <2>5, <3>1, <3>2
  <2>7. \A i \in DOMAIN out' : out'[i].sync <= ahead' - SyncDelay
    BY <2>3, <2>4 DEF OrderInv
  <2>8. ASSUME NEW t \in DOMAIN pending', NEW i \in DOMAIN out', t <= out'[i].sync
        PROVE  pending'[t] \subseteq late'
    <3>1. i \in 1 .. n
      BY <2>4, <2>6, <2>8
    <3> QED BY <2>3, <2>4, <2>5, <2>8, <3>1 DEF OrderInv
  <2>9. ASSUME NEW d \in batch'
        PROVE  /\ d <= ahead' - SyncDelay
               /\ \A t \in DOMAIN pending' : t <= d => t \in batch'
    BY <2>1, <2>3, <2>5 DEF OrderInv
  <2>10. OrderedUnlessLate'
    <3> SUFFICES ASSUME NEW i \in DOMAIN out', NEW j \in DOMAIN out',
                        i < j, out'[j].sync <= out'[i].sync
                 PROVE  out'[j].recs \subseteq late'
      BY DEF OrderedUnlessLate
    <3>1. i \in 1 .. n
      BY <2>4
    <3>2. CASE j \in 1 .. n
      BY <2>3, <2>4, <3>1, <3>2 DEF OrderInv, OrderedUnlessLate
    <3>3. CASE j = n + 1
      <4>1. b \in DOMAIN pending /\ b <= out[i].sync
        BY <2>4, <3>1, <3>3
      <4> QED BY <2>3, <2>4, <3>1, <3>3, <4>1 DEF OrderInv
    <3> QED BY <2>4, <3>2, <3>3
  <2>11. ahead' <= seen' /\ \A s \in DOMAIN pending' : s <= seen'
    BY <2>3, <2>5 DEF OrderInv
  <2> QED BY <2>2, <2>7, <2>8, <2>9, <2>10, <2>11 DEF OrderInv
<1>7. ASSUME NEW c \in Camera,
             PollShrunk(c) \/ PollMissing(c) \/ Truncate(c)
             \/ \E s \in Sync, full \in BOOLEAN : Append1(c, s, full)
      PROVE  OrderInv'
  BY <1>1, <1>7 DEF PollShrunk, PollMissing, Truncate, Append1
<1>8. CASE UNCHANGED syncVars
  BY <1>1, <1>8 DEF syncVars
<1> QED BY <1>2, <1>3, <1>4, <1>5, <1>6, <1>7, <1>8 DEF SyncNext, Server, Poll

\* Frames go to the tracker in order, late records apart (OrderedUnlessLate),
\* whatever the cameras write.
THEOREM SyncOrdered == SyncSpec => []OrderedUnlessLate
<1>1. SyncInit => OrderInv
  BY DEF SyncInit, OrderInv, OrderedUnlessLate
<1>2. OrderInv => OrderedUnlessLate
  BY DEF OrderInv
<1> QED BY <1>1, <1>2, SyncTypes, OrderStep, PTL DEF SyncSpec

-----------------------------------------------------------------------------
(* No detection is lost or used twice.                                     *)

Used == Waiting \cup Published \cup dropped

\* No two lines in the files are the same record.
LinesInv ==
  /\ \A c \in Camera : \A i \in DOMAIN file[c] : file[c][i].id <= made
  /\ \A c, d \in Camera : \A i \in DOMAIN file[c], j \in DOMAIN file[d] :
       file[c][i].id = file[d][j].id => c = d /\ i = j

\* Where a tailer stands: what it has not passed is not used, also when the
\* file was emptied and it has not noticed yet.
TailInv ==
  /\ \A u \in Used : u <= made
  /\ \A c \in Camera : ~opened[c] => pos[c] = 0
  /\ \A c \in Camera : \A i \in DOMAIN file[c] :
       i > pos[c] \/ Len(file[c]) < pos[c] => file[c][i].id \notin Used
  /\ \A c \in Camera \ blind : opened[c] =>
       /\ pos[c] <= Len(file[c])
       /\ \A i \in 1 .. pos[c] : file[c][i].full => file[c][i].id \in Used \cup older

\* Where a record is used.
PlacesInv ==
  /\ Waiting \cap Published = {} /\ dropped \cap (Waiting \cup Published) = {}
  /\ \A i, j \in DOMAIN out : i # j => out[i].recs \cap out[j].recs = {}
  /\ \A s, t \in DOMAIN pending : s # t => pending[s] \cap pending[t] = {}

AccountInv == LinesInv /\ TailInv /\ PlacesInv

LEMMA FileTypes ==
  ASSUME SyncTypeOK, NEW c \in Camera
  PROVE  /\ file[c] \in Seq(Record) /\ DOMAIN file[c] = 1 .. Len(file[c]) /\ Len(file[c]) \in Nat
         /\ \A i \in DOMAIN file[c] : file[c][i] \in Record /\ file[c][i].id \in Nat /\ i \in Nat
         /\ made \in Nat /\ pos[c] \in Nat
<1>1. file[c] \in Seq(Record) /\ made \in Nat /\ pos[c] \in Nat
  BY SyncParameters DEF SyncTypeOK
<1>2. /\ DOMAIN file[c] = 1 .. Len(file[c]) /\ Len(file[c]) \in Nat
      /\ \A i \in DOMAIN file[c] : file[c][i] \in Record /\ i \in Nat
  BY <1>1, Elements
<1>3. \A r \in Record : r.id \in Nat
  BY DEF Record, RecordId
<1> QED BY <1>1, <1>2, <1>3

\* Nothing that only changes the queues' places changes what is used.
LEMMA UsedKept ==
  ASSUME UNCHANGED <<pending, out, dropped>>
  PROVE  UNCHANGED <<Waiting, Published, Used>> /\ (PlacesInv => PlacesInv')
BY DEF Waiting, Published, Used, PlacesInv

LEMMA UsedType ==
  ASSUME SyncTypeOK
  PROVE  \A u \in Used : u \in Nat
<1> DEFINE Frame == [sync : Sync, recs : SUBSET RecordId]
<1>1. out \in Seq(Frame) /\ dropped \subseteq RecordId
      /\ \A s \in DOMAIN pending : pending[s] \subseteq RecordId
  BY DEF SyncTypeOK
<1>2. \A i \in DOMAIN out : out[i] \in Frame
  <2> HIDE DEF Frame
  <2> QED BY <1>1, Elements
<1>3. Used \subseteq RecordId
  BY <1>1, <1>2 DEF Used, Waiting, Published
<1> QED BY <1>3 DEF RecordId

LEMMA AppendAccounts ==
  ASSUME SyncTypeOK, AccountInv, NEW c \in Camera, NEW s \in Sync, NEW full \in BOOLEAN,
         Append1(c, s, full)
  PROVE  AccountInv'
<1> DEFINE r == [id |-> made + 1, sync |-> s, full |-> full]
           n == Len(file[c])
<1>1. /\ file' = [file EXCEPT ![c] = Append(@, r)] /\ made' = made + 1
      /\ UNCHANGED <<opened, pos, older, blind, pending, out, dropped>>
  BY DEF Append1, tailers, history
<1>2. r \in Record /\ r.id = made + 1
  BY SyncParameters DEF Append1, SyncTypeOK, Record, RecordId
<1> HIDE DEF r
<1>3. /\ DOMAIN file'[c] = 1 .. n + 1 /\ Len(file'[c]) = n + 1 /\ n \in Nat
      /\ DOMAIN file[c] = 1 .. n
      /\ \A i \in 1 .. n : file'[c][i] = file[c][i]
      /\ file'[c][n + 1] = r
  <2>1. file'[c] = Append(file[c], r)
    BY <1>1, FileTypes DEF SyncTypeOK
  <2>2. file[c] \in Seq(Record) /\ Append(file[c], r) \in Seq(Record)
    BY <1>2, FileTypes, AppendProperties
  <2>3. DOMAIN Append(file[c], r) = 1 .. Len(Append(file[c], r))
    BY <2>2, Elements
  <2> QED BY <1>2, <2>1, <2>2, <2>3, FileTypes, AppendProperties
<1>4. \A d \in Camera : d # c => file'[d] = file[d]
  BY <1>1 DEF SyncTypeOK
<1> HIDE DEF n
<1>5. \A d \in Camera, i \in Nat :
        i \in DOMAIN file'[d] =>
          \/ i \in DOMAIN file[d] /\ file'[d][i] = file[d][i] /\ file[d][i].id <= made
             /\ file[d][i].id \in Nat
          \/ d = c /\ i = n + 1 /\ file'[d][i].id = made + 1
  <2> TAKE d \in Camera, i \in Nat
  <2> HAVE i \in DOMAIN file'[d]
  <2>1. CASE d # c
    BY <1>4, <2>1, FileTypes DEF AccountInv, LinesInv
  <2>2. CASE d = c /\ i \in 1 .. n
    BY <1>3, <2>2, FileTypes DEF AccountInv, LinesInv
  <2>3. CASE d = c /\ i = n + 1
    BY <1>2, <1>3, <2>3
  <2> QED BY <1>3, <2>1, <2>2, <2>3
<1>6. \A d \in Camera : \A i \in DOMAIN file'[d] : i \in Nat
  BY <1>3, <1>4, FileTypes
<1>7. made \in Nat
  BY FileTypes
<1>8. LinesInv'
  <2>1. \A d \in Camera : \A i \in DOMAIN file'[d] : file'[d][i].id <= made'
    BY <1>1, <1>5, <1>6, <1>7
  <2>2. ASSUME NEW d \in Camera, NEW e \in Camera,
               NEW i \in DOMAIN file'[d], NEW j \in DOMAIN file'[e],
               file'[d][i].id = file'[e][j].id
        PROVE  d = e /\ i = j
    BY <1>5, <1>6, <1>7, <2>2 DEF AccountInv, LinesInv
  <2> QED BY <2>1, <2>2 DEF LinesInv
<1>9. UNCHANGED <<Used, Waiting, Published>> /\ PlacesInv'
  BY <1>1, UsedKept DEF AccountInv
<1>10. \A u \in Used : u <= made /\ u \in Nat
  <2>1. \A u \in Used : u \in Nat
    BY UsedType
  <2> QED BY <2>1 DEF AccountInv, TailInv
<1>11. TailInv'
  <2>1. \A u \in Used' : u <= made'
    BY <1>1, <1>7, <1>9, <1>10
  <2>2. ASSUME NEW d \in Camera, NEW i \in DOMAIN file'[d],
               i > pos'[d] \/ Len(file'[d]) < pos'[d]
        PROVE  file'[d][i].id \notin Used'
    <3>1. CASE i \in DOMAIN file[d] /\ file'[d][i] = file[d][i]
      <4>1. i > pos[d] \/ Len(file[d]) < pos[d]
        BY <1>1, <1>3, <1>4, <2>2, FileTypes DEF n
      <4> QED BY <1>9, <3>1, <4>1 DEF AccountInv, TailInv
    <3>2. CASE file'[d][i].id = made + 1
      BY <1>7, <1>9, <1>10, <3>2
    <3> QED BY <1>5, <1>6, <3>1, <3>2
  <2>3. ASSUME NEW d \in Camera \ blind', opened'[d]
        PROVE  /\ pos'[d] <= Len(file'[d])
               /\ \A i \in 1 .. pos'[d] :
                    file'[d][i].full => file'[d][i].id \in Used' \cup older'
    <3>1. /\ pos[d] <= Len(file[d])
          /\ \A i \in 1 .. pos[d] : file[d][i].full => file[d][i].id \in Used \cup older
      BY <1>1, <2>3 DEF AccountInv, TailInv
    <3>2. Len(file[d]) <= Len(file'[d]) /\ Len(file'[d]) \in Nat
          /\ \A i \in 1 .. Len(file[d]) : file'[d][i] = file[d][i]
      BY <1>3, <1>4, FileTypes DEF n
    <3> QED BY <1>1, <1>9, <3>1, <3>2, FileTypes
  <2>4. \A d \in Camera : ~opened'[d] => pos'[d] = 0
    BY <1>1 DEF AccountInv, TailInv
  <2> QED BY <2>1, <2>2, <2>3, <2>4 DEF TailInv
<1> QED BY <1>8, <1>9, <1>11 DEF AccountInv

LEMMA TruncateAccounts ==
  ASSUME SyncTypeOK, AccountInv, NEW c \in Camera, Truncate(c)
  PROVE  AccountInv'
<1>1. /\ file' = [file EXCEPT ![c] = <<>>]
      /\ blind' = IF pos[c] > 0 THEN blind \cup {c} ELSE blind
      /\ UNCHANGED <<made, opened, pos, older, pending, out, dropped>>
  BY DEF Truncate, tailers, history
<1>2. /\ DOMAIN file'[c] = {} /\ Len(file'[c]) = 0
      /\ \A d \in Camera : d # c => file'[d] = file[d]
  BY <1>1 DEF SyncTypeOK
<1>3. UNCHANGED <<Used, Waiting, Published>> /\ PlacesInv'
  BY <1>1, UsedKept DEF AccountInv
<1>4. LinesInv'
  <2>1. \A d \in Camera : \A i \in DOMAIN file'[d] :
          d # c /\ i \in DOMAIN file[d] /\ file'[d][i] = file[d][i]
    BY <1>2
  <2> QED BY <1>1, <2>1 DEF AccountInv, LinesInv
<1>5. TailInv'
  <2>1. ASSUME NEW d \in Camera, NEW i \in DOMAIN file'[d],
               i > pos'[d] \/ Len(file'[d]) < pos'[d]
        PROVE  file'[d][i].id \notin Used'
    BY <1>1, <1>2, <1>3, <2>1 DEF AccountInv, TailInv
  <2>2. ASSUME NEW d \in Camera \ blind', opened'[d]
        PROVE  /\ pos'[d] <= Len(file'[d])
               /\ \A i \in 1 .. pos'[d] :
                    file'[d][i].full => file'[d][i].id \in Used' \cup older'
    <3>1. CASE d = c
      <4>1. pos'[d] = 0
        BY <1>1, <2>2, <3>1, FileTypes
      <4> QED BY <1>2, <3>1, <4>1
    <3>2. CASE d # c
      BY <1>1, <1>2, <1>3, <2>2, <3>2 DEF AccountInv, TailInv
    <3> QED BY <3>1, <3>2
  <2>3. /\ \A u \in Used' : u <= made'
        /\ \A d \in Camera : ~opened'[d] => pos'[d] = 0
    BY <1>1, <1>3 DEF AccountInv, TailInv
  <2> QED BY <2>1, <2>2, <2>3 DEF TailInv
<1> QED BY <1>3, <1>4, <1>5 DEF AccountInv

LEMMA ResetAccounts ==
  ASSUME SyncTypeOK, AccountInv, ResetPending
  PROVE  AccountInv'
<1>1. /\ UNCHANGED <<file, made, opened, pos, older, blind>>
      /\ pending' = [s \in {} |-> {}] /\ out' = <<>>
      /\ dropped' = dropped \cup Waiting \cup Published
  BY DEF ResetPending, BeginTurn, files, tailers
<1>2. Waiting' = {} /\ Published' = {} /\ DOMAIN out' = {} /\ DOMAIN pending' = {}
  BY <1>1 DEF Waiting, Published
<1>3. Used' = Used
  BY <1>1, <1>2 DEF Used
<1> QED BY <1>1, <1>2, <1>3 DEF AccountInv, LinesInv, TailInv, PlacesInv

LEMMA ShrunkAccounts ==
  ASSUME SyncTypeOK, AccountInv, NEW c \in Camera, PollShrunk(c)
  PROVE  AccountInv'
<1>1. /\ Len(file[c]) < pos[c] /\ opened' = [opened EXCEPT ![c] = FALSE]
      /\ pos' = [pos EXCEPT ![c] = 0] /\ blind' = blind \ {c}
      /\ UNCHANGED <<file, made, older, pending, out, dropped>>
  BY DEF PollShrunk, files, history
<1>2. UNCHANGED <<Used, Waiting, Published>> /\ PlacesInv'
  BY <1>1, UsedKept DEF AccountInv
<1>3. /\ ~opened'[c] /\ pos'[c] = 0
      /\ \A d \in Camera : d # c => opened'[d] = opened[d] /\ pos'[d] = pos[d]
                                    /\ (d \in blind' <=> d \in blind)
  BY <1>1 DEF SyncTypeOK
<1>4. LinesInv'
  BY <1>1 DEF AccountInv, LinesInv
<1>5. TailInv'
  <2>1. ASSUME NEW d \in Camera, NEW i \in DOMAIN file[d],
               i > pos'[d] \/ Len(file[d]) < pos'[d]
        PROVE  file[d][i].id \notin Used
    <3>1. i > pos[d] \/ Len(file[d]) < pos[d]
      BY <1>1, <1>3, <2>1
    <3> QED BY <3>1 DEF AccountInv, TailInv
  <2>2. ASSUME NEW d \in Camera \ blind', opened'[d]
        PROVE  /\ pos'[d] <= Len(file[d])
               /\ \A i \in 1 .. pos'[d] :
                    file[d][i].full => file[d][i].id \in Used \cup older
    BY <1>3, <2>2 DEF AccountInv, TailInv
  <2>3. /\ \A u \in Used : u <= made
        /\ \A d \in Camera : ~opened'[d] => pos'[d] = 0
    BY <1>3 DEF AccountInv, TailInv
  <2> QED BY <1>1, <1>2, <2>1, <2>2, <2>3 DEF TailInv
<1> QED BY <1>2, <1>4, <1>5 DEF AccountInv

LEMMA FlushAccounts ==
  ASSUME SyncTypeOK, AccountInv, FlushNext
  PROVE  AccountInv'
<1>1. PICK b \in batch :
        /\ pending' = [t \in DOMAIN pending \ {b} |-> pending[t]]
        /\ out' = Append(out, [sync |-> b, recs |-> pending[b]])
  BY DEF FlushNext
<1>2. UNCHANGED <<file, made, opened, pos, older, blind, dropped>>
  BY DEF FlushNext, files, tailers, history
<1> DEFINE e == [sync |-> b, recs |-> pending[b]]
           n == Len(out)
<1>3. /\ DOMAIN out' = 1 .. n + 1 /\ \A i \in 1 .. n : out'[i] = out[i]
      /\ out'[n + 1].recs = pending[b] /\ n \in Nat /\ DOMAIN out = 1 .. n
  <2>1. e \in [sync : Sync, recs : SUBSET RecordId]
    BY DEF SyncTypeOK
  <2> HIDE DEF e
  <2>2. /\ Len(out') = n + 1 /\ \A i \in 1 .. n : out'[i] = out[i] /\ n \in Nat
        /\ out'[n + 1] = e /\ DOMAIN out' = 1 .. Len(out') /\ DOMAIN out = 1 .. n
    BY <1>1, <2>1, OutTypes, AppendProperties DEF e
  <2> QED BY <2>2 DEF e
<1> HIDE DEF n
<1>4. b \in DOMAIN pending
  BY DEF SyncTypeOK
<1>5. /\ DOMAIN pending' = DOMAIN pending \ {b}
      /\ \A t \in DOMAIN pending' : pending'[t] = pending[t]
  BY <1>1
<1>6. Published' = Published \cup pending[b]
  <2>1. \A i \in DOMAIN out' : out'[i].recs \subseteq Published \cup pending[b]
    BY <1>3 DEF Published
  <2>2. \A i \in DOMAIN out : i \in DOMAIN out' /\ out'[i].recs = out[i].recs
    BY <1>3
  <2>3. n + 1 \in DOMAIN out'
    BY <1>3
  <2> QED BY <1>3, <2>1, <2>2, <2>3 DEF Published
<1>7. Waiting' \cup pending[b] = Waiting /\ Waiting' \cap pending[b] = {}
  BY <1>4, <1>5 DEF Waiting, AccountInv, PlacesInv
<1>8. Used' = Used
  BY <1>2, <1>6, <1>7 DEF Used
<1>9. PlacesInv'
  <2>1. Waiting' \cap Published' = {}
    BY <1>6, <1>7 DEF AccountInv, PlacesInv
  <2>2. dropped' \cap (Waiting' \cup Published') = {}
    BY <1>2, <1>6, <1>7 DEF AccountInv, PlacesInv
  <2>3. \A i \in DOMAIN out : out[i].recs \cap pending[b] = {}
    BY <1>4 DEF AccountInv, PlacesInv, Waiting, Published
  <2>4. ASSUME NEW i \in DOMAIN out', NEW j \in DOMAIN out', i # j
        PROVE  out'[i].recs \cap out'[j].recs = {}
    <3>1. CASE i \in 1 .. n /\ j \in 1 .. n
      BY <1>3, <2>4, <3>1 DEF AccountInv, PlacesInv
    <3>2. CASE i = n + 1 /\ j \in 1 .. n
      BY <1>3, <2>3, <3>2
    <3>3. CASE i \in 1 .. n /\ j = n + 1
      BY <1>3, <2>3, <3>3
    <3> QED BY <1>3, <2>4, <3>1, <3>2, <3>3
  <2>5. \A s, t \in DOMAIN pending' : s # t => pending'[s] \cap pending'[t] = {}
    BY <1>5 DEF AccountInv, PlacesInv
  <2> QED BY <2>1, <2>2, <2>4, <2>5 DEF PlacesInv
<1>10. LinesInv' /\ TailInv'
  BY <1>2, <1>8 DEF AccountInv, LinesInv, TailInv
<1> QED BY <1>9, <1>10 DEF AccountInv

\* The lines a poll reads are used by it, and were not used before.
LEMMA PollAccounts ==
  ASSUME SyncTypeOK, AccountInv, NEW c \in Camera, NEW tracking \in BOOLEAN, PollLines(c, tracking)
  PROVE  AccountInv'
<1>1. PICK at, n, lines :
        /\ Reads(c, at, n, lines) /\ Read(c, lines, tracking)
        /\ pos' = [pos EXCEPT ![c] = at + n]
        /\ older' = IF opened[c] THEN older ELSE older \cup Ids(SubSeq(file[c], 1, at))
  BY PollReads
<1>2. /\ opened' = [opened EXCEPT ![c] = TRUE]
      /\ UNCHANGED <<file, made, blind, out, dropped>>
  BY DEF PollLines, files
<1> DEFINE under(s) == {lines[i].id : i \in {k \in 1 .. n : lines[k].sync = s /\ lines[k].full}}
           New == {lines[i].id : i \in {k \in 1 .. n : lines[k].full}}
<1>3. /\ at \in Nat /\ n \in Nat /\ at + n <= Len(file[c]) /\ at = Start(c)
      /\ \A i \in 1 .. n : lines[i] = file[c][at + i] /\ at + i \in DOMAIN file[c]
  BY <1>1 DEF Reads
<1>4. /\ DOMAIN pending \subseteq DOMAIN pending'
      /\ \A s \in DOMAIN pending' : pending'[s] = Under(s) \cup under(s)
      /\ \A i \in 1 .. n : lines[i].full => lines[i].sync \in DOMAIN pending'
  BY <1>1, ReadEffect
<1>5. pos[c] <= at /\ pos[c] \in Nat /\ Len(file[c]) \in Nat /\ (opened[c] => at = pos[c])
  BY <1>3, FileTypes DEF Start, AccountInv, TailInv
<1>6. New \cap Used = {}
  <2>1. \A i \in 1 .. n : lines[i].id \notin Used
    BY <1>3, <1>5 DEF AccountInv, TailInv
  <2> QED BY <2>1
<1>7. Waiting' = Waiting \cup New
  <2>1. \A s \in DOMAIN pending' : Under(s) \subseteq Waiting /\ under(s) \subseteq New
    BY DEF Under, Waiting
  <2>2. \A s \in DOMAIN pending : pending[s] \subseteq pending'[s] /\ s \in DOMAIN pending'
    BY <1>4 DEF Under
  <2>3. \A u \in New : \E s \in DOMAIN pending' : u \in pending'[s]
    <3> TAKE u \in New
    <3>1. PICK i \in 1 .. n : lines[i].full /\ u = lines[i].id
      OBVIOUS
    <3>2. u \in under(lines[i].sync)
      BY <3>1
    <3> HIDE DEF under, New
    <3> QED BY <1>4, <3>1, <3>2
  <2> HIDE DEF under, New
  <2> QED BY <1>4, <2>1, <2>2, <2>3 DEF Waiting
<1>8. Published' = Published /\ dropped' = dropped
  BY <1>2 DEF Published
<1>9. Used' = Used \cup New
  BY <1>7, <1>8 DEF Used
<1>10. PlacesInv'
  <2>1. ASSUME NEW s, NEW t, s # t PROVE under(s) \cap under(t) = {}
    <3>1. \A i, k \in 1 .. n : lines[i].id = lines[k].id => i = k
      <4>1. \A i, k \in DOMAIN file[c] : file[c][i].id = file[c][k].id => i = k
        BY DEF AccountInv, LinesInv
      <4>2. ASSUME NEW i \in 1 .. n, NEW k \in 1 .. n, lines[i].id = lines[k].id
            PROVE  at + i = at + k
        <5>1. /\ at + i \in DOMAIN file[c] /\ at + k \in DOMAIN file[c]
              /\ lines[i].id = file[c][at + i].id /\ lines[k].id = file[c][at + k].id
          BY <1>3
        <5> QED BY <4>1, <4>2, <5>1
      <4> QED BY <1>3, <4>2
    <3> QED BY <2>1, <3>1
  <2>2. ASSUME NEW s, NEW t, s # t
        PROVE  Under(s) \cap Under(t) = {} /\ Under(s) \subseteq Used
    BY <2>2 DEF Under, Used, Waiting, AccountInv, PlacesInv
  <2>3. \A s : under(s) \subseteq New
    OBVIOUS
  <2> HIDE DEF under, New
  <2>4. ASSUME NEW s \in DOMAIN pending', NEW t \in DOMAIN pending', s # t
        PROVE  pending'[s] \cap pending'[t] = {}
    <3>1. pending'[s] = Under(s) \cup under(s) /\ pending'[t] = Under(t) \cup under(t)
      BY <1>4
    <3>2. under(s) \cap under(t) = {} /\ Under(s) \cap Under(t) = {}
      BY <2>1, <2>2, <2>4
    <3>3. under(s) \cap Under(t) = {} /\ Under(s) \cap under(t) = {}
      BY <1>6, <2>2, <2>3, <2>4
    <3> QED BY <3>1, <3>2, <3>3
  <2>5. Waiting' \cap Published' = {} /\ dropped' \cap (Waiting' \cup Published') = {}
    BY <1>6, <1>7, <1>8 DEF Used, AccountInv, PlacesInv
  <2>6. \A i, j \in DOMAIN out' : i # j => out'[i].recs \cap out'[j].recs = {}
    BY <1>2 DEF AccountInv, PlacesInv
  <2> QED BY <2>4, <2>5, <2>6 DEF PlacesInv
<1>11. LinesInv'
  BY <1>2 DEF AccountInv, LinesInv
<1>12. pos'[c] = at + n /\ opened'[c]
       /\ \A d \in Camera : d # c => pos'[d] = pos[d] /\ opened'[d] = opened[d]
  BY <1>1, <1>2 DEF SyncTypeOK
<1>13. TailInv'
  <2>1. \A u \in Used' : u <= made
    <3>1. \A u \in New : u <= made
      BY <1>3 DEF AccountInv, LinesInv
    <3> QED BY <1>9, <3>1 DEF AccountInv, TailInv
  <2>2. \A d \in Camera : ~opened'[d] => pos'[d] = 0
    BY <1>12 DEF AccountInv, TailInv
  <2>3. ASSUME NEW d \in Camera, NEW i \in DOMAIN file[d],
               i > pos'[d] \/ Len(file[d]) < pos'[d]
        PROVE  file[d][i].id \notin Used'
    <3>1. i \in Nat /\ pos[d] \in Nat /\ Len(file[d]) \in Nat
      BY FileTypes
    <3>2. file[d][i].id \notin Used
      BY <1>3, <1>5, <1>12, <2>3, <3>1 DEF AccountInv, TailInv
    <3>3. ASSUME NEW k \in 1 .. n PROVE file[d][i].id # lines[k].id
      <4>1. lines[k].id = file[c][at + k].id /\ at + k \in DOMAIN file[c]
        BY <1>3
      <4>2. CASE d = c
        <5>1. i > at + n
          BY <1>3, <1>5, <1>12, <2>3, <4>2
        <5>2. i # at + k
          BY <1>3, <3>1, <5>1
        <5> QED BY <4>1, <4>2, <5>2 DEF AccountInv, LinesInv
      <4>3. CASE d # c
        BY <4>1, <4>3 DEF AccountInv, LinesInv
      <4> QED BY <4>2, <4>3
    <3> QED BY <1>9, <3>2, <3>3
  <2>4. ASSUME NEW d \in Camera \ blind, opened'[d]
        PROVE  /\ pos'[d] <= Len(file[d])
               /\ \A i \in 1 .. pos'[d] :
                    file[d][i].full => file[d][i].id \in Used' \cup older'
    <3>1. CASE d # c
      <4>1. older \subseteq older' /\ Used \subseteq Used'
        BY <1>1, <1>9
      <4> QED BY <1>12, <2>4, <3>1, <4>1 DEF AccountInv, TailInv
    <3>2. CASE d = c
      <4>1. ASSUME NEW i \in 1 .. at, file[c][i].full
            PROVE  file[c][i].id \in Used \cup older'
        <5>1. CASE opened[c]
          BY <1>1, <1>5, <2>4, <3>2, <4>1, <5>1 DEF AccountInv, TailInv
        <5>2. CASE ~opened[c]
          <6>1. file[c] \in Seq(Record) /\ 0 + at <= Len(file[c])
            BY <1>3, <1>5, FileTypes
          <6>2. /\ DOMAIN SubSeq(file[c], 0 + 1, 0 + at) = 1 .. at
                /\ \A k \in 1 .. at : SubSeq(file[c], 0 + 1, 0 + at)[k] = file[c][0 + k]
            BY <1>3, <6>1, LinesRead
          <6> DEFINE passed == SubSeq(file[c], 1, at)
          <6>3. at \in Nat /\ i \in Nat /\ 0 + 1 = 1 /\ 0 + at = at /\ 0 + i = i
            BY <1>3
          <6>4. i \in DOMAIN passed /\ passed[i] = file[c][i]
            BY <6>2, <6>3
          <6> HIDE DEF passed
          <6>5. file[c][i].id \in Ids(passed)
            BY <6>4 DEF Ids
          <6> QED BY <1>1, <5>2, <6>5 DEF passed
        <5> QED BY <5>1, <5>2
      <4>2. ASSUME NEW i \in at + 1 .. at + n, file[c][i].full
            PROVE  file[c][i].id \in New
        <5>1. i - at \in 1 .. n /\ at + (i - at) = i
          BY <1>3
        <5> QED BY <1>3, <4>2, <5>1
      <4>3. \A i \in 1 .. pos'[c] : i \in 1 .. at \/ i \in at + 1 .. at + n
        BY <1>3, <1>12
      <4> HIDE DEF New
      <4> QED BY <1>3, <1>9, <1>12, <3>2, <4>1, <4>2, <4>3
    <3> QED BY <3>1, <3>2
  <2> HIDE DEF New
  <2> QED BY <1>2, <2>1, <2>2, <2>3, <2>4 DEF TailInv
<1> QED BY <1>10, <1>11, <1>13 DEF AccountInv

LEMMA AccountStep == SyncTypeOK /\ AccountInv /\ [SyncNext]_syncVars => AccountInv'
<1> SUFFICES ASSUME SyncTypeOK, AccountInv, [SyncNext]_syncVars PROVE AccountInv'
  OBVIOUS
<1>1. CASE UNCHANGED <<file, made, opened, pos, older, blind, pending, out, dropped>>
  BY <1>1, UsedKept DEF AccountInv, LinesInv, TailInv
<1>2. CASE PollControl \/ TakeBatch \/ UNCHANGED syncVars
  BY <1>1, <1>2
     DEF PollControl, BeginTurn, TakeBatch, syncVars, files, tailers, history
<1>3. ASSUME NEW c \in Camera, PollMissing(c) PROVE AccountInv'
  BY <1>1, <1>3 DEF PollMissing, files, tailers, history
<1> QED
  BY <1>2, <1>3, AppendAccounts, TruncateAccounts, ResetAccounts, PollAccounts, ShrunkAccounts,
     FlushAccounts DEF SyncNext, Server, Poll

\* Whatever a tailer has passed is waiting, handed over exactly once or thrown
\* away by a reset, however lines, polls, emptied files and resets interleave
\* (JsonlTailer.poll and the pending frames of GlobalPersonIdentityServer).
THEOREM SyncAccounted == SyncSpec => []Accounted
<1>1. SyncInit => AccountInv
  <2> SUFFICES ASSUME SyncInit PROVE AccountInv
    OBVIOUS
  <2>1. Waiting = {} /\ Published = {} /\ Used = {}
    BY DEF SyncInit, Waiting, Published, Used
  <2> QED BY <2>1 DEF SyncInit, AccountInv, LinesInv, TailInv, PlacesInv
<1>2. AccountInv => Accounted
  BY DEF AccountInv, TailInv, PlacesInv, Accounted, Used
<1> QED BY <1>1, <1>2, SyncTypes, AccountStep, PTL DEF SyncSpec

-----------------------------------------------------------------------------
(* PersonTracks: the parameters.                                           *)

LEMMA TracksParameters ==
  /\ MissGrace \in Nat /\ LostAfter \in Nat /\ PublishLost \in Nat /\ Lock \in Nat
  /\ CandidateTtl \in Nat /\ BootMax \in Nat /\ GidBound \in Nat /\ PersonBound \in Nat
  /\ Reid \in Nat /\ Retire \in Nat /\ Hold \in Nat /\ Cap \in Nat /\ Bootstrap \in Nat
  /\ Hold > 0 /\ Cap > 0 /\ Reid <= Hold /\ Hold <= Cap
  /\ MissGrace <= Retire /\ LostAfter <= Retire /\ PublishLost <= Retire /\ Reid <= Retire
  /\ BirthConfirm \in Nat /\ Confirm \in Nat /\ MinHits \in Nat
  /\ BirthConfirm > 0 /\ MinHits > 0 /\ Confirm <= 2 /\ MinHits <= BirthConfirm
BY TracksAssumption

LEMMA HitsBound ==
  HitsMax \in Nat /\ BirthConfirm <= HitsMax /\ Confirm <= HitsMax /\ 2 <= HitsMax
<1> DEFINE S == {BirthConfirm, Confirm, 2}
           P(n) == n \in S /\ \A m \in S : m <= n
<1>1. \E n : P(n)
  <2>1. CASE BirthConfirm >= 2
    <3>1. P(BirthConfirm)
      BY <2>1, TracksParameters
    <3> QED BY <3>1
  <2>2. CASE ~(BirthConfirm >= 2)
    <3>1. P(2)
      BY <2>2, TracksParameters
    <3> QED BY <3>1
  <2> QED BY <2>1, <2>2
<1>2. HitsMax = CHOOSE n : P(n)
  <2>1. HitsMax = CHOOSE n \in S : \A m \in S : m <= n
    BY DEF HitsMax
  <2> QED BY <2>1
<1>3. P(HitsMax)
  <2> HIDE DEF P
  <2> QED BY <1>1, <1>2
<1> QED BY <1>3, TracksParameters

-----------------------------------------------------------------------------
(* One track.                                                              *)

\* How long it has been lost, its hold, its hard cap and its age fit together;
\* a track the bootstrap window let in was confirmed.
TrackInv(tr) ==
  /\ tr.state = "lost" =>
       /\ tr.age > LostAfter
       /\ tr.age > tr.lostFor \/ tr.age = AgeMax
  /\ Held(tr) =>
       /\ tr.hold + tr.lostFor >= Hold
       /\ tr.cap # Unset
  /\ tr.window => tr.hits >= MinHits

Sound(tr) == tr \in Track /\ TrackInv(tr)

Aged(tr) ==
  [tr EXCEPT !.age = Up(@, AgeMax), !.hold = Down(@), !.cap = Down(@), !.lock = Down(@),
             !.lostFor = IF Held(tr) THEN Up(@, Hold) ELSE @]

LEMMA Fields ==
  ASSUME NEW tr \in Track
  PROVE  /\ tr = [state |-> tr.state, hits |-> tr.hits, age |-> tr.age, zone |-> tr.zone,
                  hold |-> tr.hold, cap |-> tr.cap, lock |-> tr.lock,
                  lostFor |-> tr.lostFor, window |-> tr.window]
         /\ tr.state \in {"tentative", "tracking", "lost"}
         /\ tr.hits \in Nat /\ 1 <= tr.hits /\ tr.hits <= HitsMax
         /\ tr.age \in Nat /\ tr.age <= AgeMax
         /\ tr.zone \in Zone
         /\ tr.hold \in Nat /\ tr.hold <= Hold
         /\ tr.cap \in Int /\ -1 <= tr.cap /\ tr.cap <= Cap
         /\ tr.lock \in Nat /\ tr.lock <= Lock
         /\ tr.lostFor \in Nat /\ tr.lostFor <= Hold
         /\ tr.window \in BOOLEAN
         /\ AgeMax = Retire + 1
BY TracksParameters, HitsBound DEF Track, AgeMax

LEMMA AgedSound ==
  ASSUME NEW tr, Sound(tr)
  PROVE  /\ Sound(Aged(tr)) /\ Aged(tr).hits = tr.hits /\ Aged(tr).window = tr.window
         /\ Aged(tr).age >= tr.age /\ Aged(tr).state = tr.state /\ Aged(tr).zone = tr.zone
<1> DEFINE u == Aged(tr)
           a == Up(tr.age, AgeMax)
           h == Down(tr.hold)
           k == Down(tr.cap)
           m == Down(tr.lock)
           l == IF Held(tr) THEN Up(tr.lostFor, Hold) ELSE tr.lostFor
<1>0. tr \in Track /\ TrackInv(tr)
  BY DEF Sound
<1> USE TracksParameters, HitsBound
<1>1. u = [tr EXCEPT !.age = a, !.hold = h, !.cap = k, !.lock = m, !.lostFor = l]
  BY DEF Aged
<1>2. /\ a \in 0 .. AgeMax /\ a >= tr.age /\ h \in 0 .. Hold /\ k \in -1 .. Cap
      /\ m \in 0 .. Lock /\ l \in 0 .. Hold
  BY <1>0, Fields DEF Up, Down
<1>3. tr.state = "lost" => a > LostAfter /\ (a > l \/ a = AgeMax)
  BY <1>0, Fields DEF TrackInv, Up
<1>4. Held(tr) => h + l >= Hold /\ k # Unset
  BY <1>0, Fields DEF TrackInv, Up, Down, Unset
<1> HIDE DEF u, a, h, k, m, l
<1>5. u \in Track
  BY <1>0, <1>1, <1>2 DEF Track
<1>6. /\ u.age = a /\ u.hold = h /\ u.cap = k /\ u.lock = m /\ u.lostFor = l
      /\ u.state = tr.state /\ u.hits = tr.hits /\ u.zone = tr.zone
      /\ u.window = tr.window
  BY <1>0, <1>1 DEF Track
<1>7. TrackInv(u)
  BY <1>0, <1>3, <1>4, <1>6 DEF TrackInv, Held
<1> QED BY <1>2, <1>5, <1>6, <1>7 DEF Sound, u

LEMMA UpdatedSound ==
  ASSUME NEW tr, Sound(tr), NEW z \in Zone, NEW handoff \in BOOLEAN
  PROVE  /\ Sound(Updated(tr, z, handoff))
         /\ Updated(tr, z, handoff).hits >= tr.hits
         /\ Updated(tr, z, handoff).window = tr.window
         /\ Updated(tr, z, handoff).age = 0
<1> DEFINE u == Updated(tr, z, handoff)
           h == Up(tr.hits, HitsMax)
           k == IF tr.hits + 1 >= Confirm THEN "tracking" ELSE tr.state
           l == IF handoff THEN Larger(tr.lock, Lock) ELSE tr.lock
<1>0. tr \in Track /\ TrackInv(tr)
  BY DEF Sound
<1> USE TracksParameters, HitsBound
<1>1. u = [tr EXCEPT !.age = 0, !.zone = z, !.hits = h, !.lostFor = 0,
                     !.state = k, !.lock = l]
  BY DEF Updated
<1>2. h \in 1 .. HitsMax /\ h >= tr.hits /\ k = "tracking" /\ l \in 0 .. Lock
  BY <1>0, Fields DEF Up, Larger
<1> HIDE DEF u, h, k, l
<1>3. 0 \in 0 .. AgeMax /\ 0 \in 0 .. Hold
  BY DEF AgeMax
<1>4. u \in Track
  BY <1>0, <1>1, <1>2, <1>3 DEF Track
<1>5. /\ u.age = 0 /\ u.hits = h /\ u.state = "tracking" /\ u.window = tr.window
  BY <1>0, <1>1, <1>2 DEF Track
<1>6. TrackInv(u)
  BY <1>0, <1>2, <1>5, Fields DEF TrackInv, Held
<1> QED BY <1>2, <1>4, <1>5, <1>6 DEF Sound, u

LEMMA NewSound ==
  ASSUME NEW hits \in 1 .. HitsMax, NEW z \in Zone, NEW window \in BOOLEAN,
         window => hits >= MinHits
  PROVE  Sound(NewTrack(hits, z, window)) /\ NewTrack(hits, z, window).window = window
<1> USE TracksParameters, HitsBound
<1>1. NewTrack(hits, z, window) \in Track
  BY DEF NewTrack, Track, Unset, AgeMax
<1>2. TrackInv(NewTrack(hits, z, window))
  BY DEF NewTrack, TrackInv, Held
<1> QED BY <1>1, <1>2 DEF Sound, NewTrack

LEMMA LostSound ==
  ASSUME NEW tr, Sound(tr), tr.age > LostAfter
  PROVE  /\ Sound(Lost(tr)) /\ Lost(tr).hits = tr.hits /\ Lost(tr).window = tr.window
         /\ Lost(tr).age = tr.age /\ Lost(tr).zone = tr.zone /\ Lost(tr).lock = tr.lock
         /\ tr.zone = "inside" =>
              /\ Lost(tr).hold > 0
              /\ Lost(tr).cap = IF tr.cap = Unset THEN Cap ELSE tr.cap
<1> DEFINE u == Lost(tr)
<1>0. tr \in Track /\ TrackInv(tr)
  BY DEF Sound
<1> USE TracksParameters, HitsBound
<1>1. CASE tr.zone = "edge"
  <2>1. u = [tr EXCEPT !.state = "lost", !.lostFor = 0]
    BY <1>1 DEF Lost
  <2>2. u = [state |-> "lost", hits |-> tr.hits, age |-> tr.age, zone |-> tr.zone,
             hold |-> tr.hold, cap |-> tr.cap, lock |-> tr.lock, lostFor |-> 0,
             window |-> tr.window]
    BY <1>0, <2>1, Fields, ZenonT(40)
  <2> HIDE DEF u
  <2>3. u \in Track
    BY <1>0, <2>2, Fields DEF Track
  <2>4. TrackInv(u)
    BY <1>0, <1>1, <2>2, Fields DEF TrackInv, Held
  <2> QED BY <1>1, <2>2, <2>3, <2>4 DEF Sound, u
<1>2. CASE tr.zone # "edge"
  <2>1. u = [tr EXCEPT !.state = "lost", !.lostFor = 0, !.hold = Larger(@, Hold),
                       !.cap = IF @ = Unset THEN Cap ELSE @]
    BY <1>2 DEF Lost
  <2>2. u = [state |-> "lost", hits |-> tr.hits, age |-> tr.age, zone |-> tr.zone,
             hold |-> Larger(tr.hold, Hold),
             cap |-> IF tr.cap = Unset THEN Cap ELSE tr.cap, lock |-> tr.lock, lostFor |-> 0,
             window |-> tr.window]
    BY <1>0, <2>1, Fields
  <2> HIDE DEF u
  <2>3. Larger(tr.hold, Hold) = Hold
    BY <1>0, Fields DEF Larger
  <2>4. u.cap \in -1 .. Cap /\ u.cap # Unset
    <3>1. u.cap = (IF tr.cap = Unset THEN Cap ELSE tr.cap)
      BY <2>2
    <3>2. tr.cap \in -1 .. Cap
      BY <1>0, Fields
    <3>3. CASE tr.cap = Unset
      <4>1. u.cap = Cap
        BY <3>1, <3>3
      <4> QED BY <4>1 DEF Unset
    <3>4. CASE tr.cap # Unset
      BY <3>1, <3>2, <3>4
    <3> QED BY <3>3, <3>4
  <2>5. u \in Track
    BY <1>0, <2>2, <2>3, <2>4, Fields DEF Track
  <2>6. TrackInv(u)
    BY <1>0, <2>2, <2>3, <2>4, Fields DEF TrackInv, Held
  <2> QED BY <2>2, <2>3, <2>5, <2>6 DEF Sound, u
<1> QED BY <1>1, <1>2

-----------------------------------------------------------------------------
(* The inductive invariant.                                                *)

TracksInv ==
  /\ DOMAIN tracks \subseteq Gid
  /\ \A g \in DOMAIN tracks : Sound(tracks[g]) /\ g < nextGid
  /\ nextGid \in 1 .. GidBound + 1

CandidatesInv ==
  /\ DOMAIN candidates \subseteq 1 .. PersonBound
  /\ \A k \in DOMAIN candidates : candidates[k] \in Candidate

FlagsInv ==
  /\ detected \in BOOLEAN /\ quarantine \in BOOLEAN /\ boot \in -1 .. Bootstrap
  /\ phase \in {"idle", "match", "birth"}

\* Only a track that could be matched is used, and nothing is used between
\* flushes.
UsedInv ==
  /\ used \subseteq DOMAIN tracks
  /\ phase = "idle" => used = {}
  /\ \A g \in used : tracks[g].age <= Reid

PublishedInv ==
  /\ published \subseteq DOMAIN tracks
  /\ \A g \in published : tracks[g].hits >= MinHits

Base == TracksInv /\ CandidatesInv /\ FlagsInv /\ UsedInv /\ PublishedInv

LEMMA BaseTypes == Base => TracksTypeOK
BY DEF Base, TracksInv, CandidatesInv, FlagsInv, UsedInv, PublishedInv, TracksTypeOK, Sound, TrackInv

LEMMA BaseInit == TracksInit => Base
<1> SUFFICES ASSUME TracksInit PROVE Base
  OBVIOUS
<1> USE TracksParameters DEF TracksInit, Nothing
<1>1. TracksInv
  BY DEF TracksInv
<1>2. CandidatesInv
  BY DEF CandidatesInv
<1>3. FlagsInv
  <2>1. boot \in -1 .. Bootstrap /\ phase \in {"idle", "match", "birth"} /\ detected = FALSE
    OBVIOUS
  <2>2. quarantine \in BOOLEAN
    OBVIOUS
  <2> QED BY <2>1, <2>2, Zenon DEF FlagsInv
<1>4. UsedInv /\ PublishedInv
  BY DEF UsedInv, PublishedInv
<1> QED BY <1>1, <1>2, <1>3, <1>4 DEF Base

\* What Tick does to a track.
LEMMA TickAges ==
  ASSUME Base, Tick
  PROVE  /\ DOMAIN tracks' = DOMAIN tracks
         /\ \A g \in DOMAIN tracks : tracks'[g] = Aged(tracks[g])
BY DEF Tick, Aged

\* What EndFlush does: Marked is the track as _retire_old and _publish see it.
Marked(g) == IF Missed(g) THEN Lost(tracks[g]) ELSE tracks[g]
Remaining == {g \in DOMAIN tracks : ~Retired(Marked(g))}

LEMMA FlushMarks ==
  ASSUME EndFlush
  PROVE  /\ DOMAIN tracks' = Remaining /\ \A g \in Remaining : tracks'[g] = Marked(g)
         /\ published' \subseteq {g \in Remaining : Eligible(Marked(g))}
         /\ \A g \in Remaining \ published' : Eligible(Marked(g)) => Duplicate(g)'
<1> DEFINE marked == [g \in DOMAIN tracks |-> Marked(g)]
           able == {g \in Remaining : Eligible(Marked(g))}
<1>1. tracks' = [g \in Remaining |-> Marked(g)] /\ published' \in Shown(marked, able)
  <2>1. marked = [g \in DOMAIN tracks |-> IF Missed(g) THEN Lost(tracks[g]) ELSE tracks[g]]
    BY DEF Marked
  <2>2. Remaining = {g \in DOMAIN tracks : ~Retired(marked[g])}
    BY DEF Remaining
  <2>3. able = {g \in Remaining : Eligible(marked[g])} /\ Remaining \subseteq DOMAIN tracks
    BY DEF Remaining
  <2>4. [g \in Remaining |-> Marked(g)] = [g \in Remaining |-> marked[g]]
    BY <2>3
  <2> HIDE DEF marked, able
  <2> QED BY <2>1, <2>2, <2>3, <2>4 DEF EndFlush
<1>2. /\ published' \subseteq able
      /\ \A g \in able \ published' :
           \E h \in published' : Outranks(marked[h], marked[g])
  BY <1>1 DEF Shown
<1>3. \A g \in Remaining : tracks'[g] = Marked(g) /\ marked[g] = Marked(g)
  BY <1>1 DEF Remaining
<1>4. ASSUME NEW g \in Remaining \ published', Eligible(Marked(g)) PROVE Duplicate(g)'
  <2>1. PICK h \in published' : Outranks(Marked(h), Marked(g)) /\ h \in Remaining
    BY <1>2, <1>3, <1>4
  <2>2. Eligible(tracks'[g]) /\ Outranks(tracks'[h], tracks'[g])
    BY <1>3, <1>4, <2>1
  <2> QED BY <2>1, <2>2 DEF Duplicate, Eligible, Outranks
<1> QED BY <1>1, <1>2, <1>3, <1>4

LEMMA MarkedSound ==
  ASSUME Base, NEW g \in DOMAIN tracks
  PROVE  /\ Sound(Marked(g)) /\ Marked(g).hits = tracks[g].hits
         /\ Marked(g).window = tracks[g].window /\ Marked(g).age = tracks[g].age
         /\ Marked(g).zone = tracks[g].zone
<1>1. Sound(tracks[g])
  BY DEF Base, TracksInv
<1>2. CASE Missed(g)
  <2>1. tracks[g].age > LostAfter
    BY <1>2 DEF Missed
  <2> QED BY <1>1, <1>2, <2>1, LostSound DEF Marked
<1>3. CASE ~Missed(g)
  BY <1>1, <1>3 DEF Marked
<1> QED BY <1>2, <1>3

LEMMA SeenType ==
  ASSUME Base, NEW k \in DOMAIN candidates, NEW z \in Zone, NEW bc \in Seen(k, z)
  PROVE  bc \in Candidate
<1>1. candidates[k] \in Candidate
  BY DEF Base, CandidatesInv
<1>2. /\ candidates[k].hits \in 1 .. HitsMax /\ candidates[k].zone \in Zone
      /\ Up(candidates[k].hits, HitsMax) \in 1 .. HitsMax /\ 0 \in 0 .. CandidateTtl + 1
  BY <1>1, TracksParameters, HitsBound DEF Candidate, Up
<1>3. PICK y \in {candidates[k].zone, z}, h \in 1 .. HitsMax :
        bc = [age |-> 0, hits |-> h, zone |-> y, counted |-> TRUE]
  BY <1>2 DEF Seen
<1> QED BY <1>2, <1>3 DEF Candidate

\* A birth step makes one new track, which the bootstrap window let in only
\* while it was open, or none.
Creates ==
  \E hits \in 1 .. HitsMax, z \in Zone, window \in BOOLEAN :
    /\ CreateTrack(hits, z, window)
    /\ window => hits >= MinHits /\ InWindow

LEMMA BirthEffect ==
  ASSUME Base, Birth
  PROVE  /\ UNCHANGED <<detected, boot, quarantine, used, published>> /\ phase' = "birth"
         /\ CandidatesInv'
         /\ UNCHANGED <<tracks, nextGid>> \/ Creates
<1> USE TracksParameters, HitsBound
<1>0. phase' = "birth"
  BY DEF Birth
<1>c. CandidatesInv
  BY DEF Base
<1>1. ASSUME NEW z \in Zone, NewCandidate(z)
      PROVE  /\ UNCHANGED <<detected, boot, quarantine, used, published, tracks, nextGid>>
             /\ CandidatesInv'
  <2>1. PICK k \in 1 .. PersonBound :
          candidates' = With(candidates, k, [age |-> 0, hits |-> 1, zone |-> z, counted |-> TRUE])
    BY <1>1 DEF NewCandidate
  <2>2. [age |-> 0, hits |-> 1, zone |-> z, counted |-> TRUE] \in Candidate
    BY DEF Candidate
  <2>3. CandidatesInv'
    BY <1>c, <2>1, <2>2 DEF CandidatesInv, With
  <2> QED BY <1>1, <2>3 DEF NewCandidate
<1>2. ASSUME NEW z \in Zone, CreateDirect(z)
      PROVE  /\ UNCHANGED <<detected, boot, quarantine, used, published, candidates>>
             /\ Creates
  <2>1. CreateTrack(1, z, FALSE)
    BY <1>2, Zenon DEF CreateDirect
  <2>2. 1 \in 1 .. HitsMax
    OBVIOUS
  <2>3. Creates
    BY <2>1, <2>2, Zenon DEF Creates
  <2> QED BY <1>2, <2>3 DEF CreateDirect
<1>3. ASSUME NEW z \in Zone, NEW k \in 1 .. PersonBound, ConfirmCandidate(k, z)
      PROVE  /\ UNCHANGED <<detected, boot, quarantine, used, published, tracks, nextGid>>
             /\ CandidatesInv'
  <2>1. PICK bc \in Seen(k, z) :
          k \in DOMAIN candidates /\ candidates' = [candidates EXCEPT ![k] = bc]
    BY <1>3 DEF ConfirmCandidate
  <2>2. bc \in Candidate
    BY <2>1, SeenType
  <2> QED BY <1>3, <1>c, <2>1, <2>2 DEF ConfirmCandidate, CandidatesInv
<1>4. ASSUME NEW z \in Zone, NEW k \in 1 .. PersonBound, DropCandidate(k, z)
      PROVE  /\ UNCHANGED <<detected, boot, quarantine, used, published, tracks, nextGid>>
             /\ CandidatesInv'
  BY <1>4, <1>c DEF DropCandidate, CandidatesInv, Without
<1>5. ASSUME NEW z \in Zone, NEW k \in 1 .. PersonBound, Promote(k, z)
      PROVE  /\ UNCHANGED <<detected, boot, quarantine, used, published>>
             /\ CandidatesInv' /\ Creates
  <2>1. PICK bc \in Seen(k, z) :
          k \in DOMAIN candidates /\ bc.hits >= BirthConfirm
          /\ CreateTrack(bc.hits, bc.zone, z # "edge")
    BY <1>5 DEF Promote
  <2>2. bc \in Candidate
    BY <2>1, SeenType
  <2>3. bc.hits \in 1 .. HitsMax /\ bc.zone \in Zone /\ bc.hits >= MinHits
    BY <2>1, <2>2 DEF Candidate
  <2>4. z # "edge" => InWindow
    BY <1>5 DEF Promote, Quarantined, GateAllows
  <2>5. (z # "edge") \in BOOLEAN
    OBVIOUS
  <2>6. Creates
    BY <2>1, <2>3, <2>4, <2>5 DEF Creates
  <2> QED BY <1>5, <1>c, <2>6 DEF Promote, CandidatesInv, Without
<1>6. PICK z \in Zone :
        \/ NewCandidate(z) \/ CreateDirect(z)
        \/ \E k \in 1 .. PersonBound :
             ConfirmCandidate(k, z) \/ DropCandidate(k, z) \/ Promote(k, z)
  BY DEF Birth
<1>7. CASE NewCandidate(z)
  BY <1>0, <1>1, <1>7
<1>8. CASE CreateDirect(z)
  BY <1>0, <1>2, <1>8, <1>c DEF CandidatesInv
<1>9. CASE \E k \in 1 .. PersonBound :
             ConfirmCandidate(k, z) \/ DropCandidate(k, z) \/ Promote(k, z)
  BY <1>0, <1>3, <1>4, <1>5, <1>9
<1> QED BY <1>6, <1>7, <1>8, <1>9

LEMMA CreateEffect ==
  ASSUME Base, Creates
  PROVE  \E hits \in 1 .. HitsMax, z \in Zone, window \in BOOLEAN :
           /\ nextGid <= GidBound /\ nextGid' = nextGid + 1 /\ nextGid \notin DOMAIN tracks
           /\ DOMAIN tracks' = DOMAIN tracks \cup {nextGid}
           /\ \A g \in DOMAIN tracks : tracks'[g] = tracks[g]
           /\ tracks'[nextGid] = NewTrack(hits, z, window)
           /\ Sound(NewTrack(hits, z, window))
           /\ window => hits >= MinHits /\ InWindow
<1>1. PICK hits \in 1 .. HitsMax, z \in Zone, window \in BOOLEAN :
        CreateTrack(hits, z, window) /\ (window => hits >= MinHits /\ InWindow)
  BY DEF Creates
<1>2. nextGid \notin DOMAIN tracks
  BY DEF Base, TracksInv
<1>3. Sound(NewTrack(hits, z, window))
  BY <1>1, NewSound
<1>4. /\ nextGid <= GidBound /\ nextGid' = nextGid + 1
      /\ tracks' = With(tracks, nextGid, NewTrack(hits, z, window))
  BY <1>1 DEF CreateTrack
<1>5. /\ DOMAIN tracks' = DOMAIN tracks \cup {nextGid}
      /\ \A g \in DOMAIN tracks : tracks'[g] = tracks[g]
      /\ tracks'[nextGid] = NewTrack(hits, z, window)
  BY <1>2, <1>4 DEF With
<1> QED BY <1>1, <1>2, <1>3, <1>4, <1>5

LEMMA BaseStep == Base /\ [TracksNext]_tracksVars => Base'
<1> SUFFICES ASSUME Base, [TracksNext]_tracksVars PROVE Base'
  OBVIOUS
<1>0. TracksInv /\ CandidatesInv /\ FlagsInv /\ UsedInv /\ PublishedInv
  BY DEF Base
<1> USE TracksParameters, HitsBound
<1>1. CASE Tick
  <2>1. /\ DOMAIN tracks' = DOMAIN tracks
        /\ \A g \in DOMAIN tracks : tracks'[g] = Aged(tracks[g])
    BY <1>1, TickAges
  <2>2. /\ UNCHANGED <<nextGid, detected, quarantine, phase, used, published>> /\ phase = "idle"
    BY <1>1 DEF Tick
  <2>3. \A g \in DOMAIN tracks :
          Sound(tracks[g]) /\ Sound(tracks'[g]) /\ tracks'[g].hits = tracks[g].hits
    BY <1>0, <2>1, AgedSound DEF TracksInv
  <2>4. TracksInv'
    BY <1>0, <2>1, <2>2, <2>3 DEF TracksInv
  <2>5. CandidatesInv'
    <3>1. /\ DOMAIN candidates' = DOMAIN candidates
          /\ \A k \in DOMAIN candidates :
               candidates'[k] = [candidates[k] EXCEPT !.age = Up(@, CandidateTtl + 1)]
      BY <1>1 DEF Tick
    <3>2. ASSUME NEW k \in DOMAIN candidates PROVE candidates'[k] \in Candidate
      <4>1. candidates[k] \in Candidate /\ candidates[k].age \in 0 .. CandidateTtl + 1
        BY <1>0 DEF CandidatesInv, Candidate
      <4>2. Up(candidates[k].age, CandidateTtl + 1) \in 0 .. CandidateTtl + 1
        BY <4>1 DEF Up
      <4> QED BY <3>1, <4>1, <4>2 DEF Candidate
    <3> QED BY <1>0, <3>1, <3>2 DEF CandidatesInv
  <2>6. FlagsInv'
    <3>1. boot' \in -1 .. Bootstrap
      <4>1. boot \in -1 .. Bootstrap /\ boot' = IF boot >= 0 THEN boot - 1 ELSE boot
        BY <1>0, <1>1 DEF Tick, FlagsInv
      <4> QED BY <4>1
    <3> QED BY <1>0, <2>2, <3>1, Zenon DEF FlagsInv
  <2>7. UsedInv' /\ PublishedInv'
    BY <1>0, <2>1, <2>2, <2>3 DEF UsedInv, PublishedInv
  <2> QED BY <2>4, <2>5, <2>6, <2>7 DEF Base
<1>2. CASE ResetTracks
  <2>1. /\ DOMAIN tracks' = {} /\ DOMAIN candidates' = {} /\ nextGid' = 1 /\ published' = {}
        /\ UNCHANGED <<detected, boot, quarantine, phase, used>> /\ phase = "idle"
    BY <1>2 DEF ResetTracks, Nothing
  <2>2. TracksInv' /\ CandidatesInv'
    BY <2>1 DEF TracksInv, CandidatesInv
  <2>3. UsedInv' /\ PublishedInv'
    BY <1>0, <2>1 DEF UsedInv, PublishedInv
  <2>4. FlagsInv'
    BY <1>0, <2>1, Zenon DEF FlagsInv
  <2> QED BY <2>2, <2>3, <2>4 DEF Base
<1>3. CASE SetQuarantine \/ FirstDetection
  <2>1. UNCHANGED <<tracks, nextGid, candidates, phase, used, published>>
    BY <1>3 DEF SetQuarantine, FirstDetection
  <2>2. /\ boot' \in -1 .. Bootstrap
    BY <1>0, <1>3 DEF SetQuarantine, FirstDetection, FlagsInv
  <2>3. detected' \in BOOLEAN /\ quarantine' \in BOOLEAN
    BY <1>0, <1>3 DEF SetQuarantine, FirstDetection, FlagsInv
  <2>4. FlagsInv'
    BY <1>0, <2>1, <2>2, <2>3, Zenon DEF FlagsInv
  <2>5. TracksInv' /\ CandidatesInv' /\ UsedInv' /\ PublishedInv'
    BY <1>0, <2>1 DEF TracksInv, CandidatesInv, UsedInv, PublishedInv
  <2> QED BY <2>4, <2>5 DEF Base
<1>4. ASSUME NEW g \in Gid, Match(g) PROVE Base'
  <2>1. PICK z \in Zone, handoff \in BOOLEAN :
          tracks' = [tracks EXCEPT ![g] = Updated(@, z, handoff)]
    BY <1>4 DEF Match
  <2>2. /\ g \in DOMAIN tracks /\ phase' = "match" /\ used' = used \cup {g}
        /\ UNCHANGED <<nextGid, candidates, detected, boot, quarantine, published>>
    BY <1>4 DEF Match, Matchable
  <2>3. Sound(tracks[g])
    BY <1>0, <2>2 DEF TracksInv
  <2> DEFINE u == Updated(tracks[g], z, handoff)
  <2>4. /\ DOMAIN tracks' = DOMAIN tracks /\ tracks'[g] = u
        /\ \A h \in DOMAIN tracks \ {g} : tracks'[h] = tracks[h]
    BY <2>1, <2>2
  <2>5. Sound(u) /\ u.hits >= tracks[g].hits /\ u.age = 0
        /\ u.hits \in Int /\ tracks[g].hits \in Int
    <3>1. Sound(u) /\ u.hits >= tracks[g].hits /\ u.age = 0
      BY <2>3, UpdatedSound
    <3> HIDE DEF u
    <3> QED BY <2>3, <3>1, Fields DEF Sound
  <2> HIDE DEF u
  <2>6. TracksInv'
    BY <1>0, <2>2, <2>4, <2>5 DEF TracksInv
  <2>7. UsedInv'
    BY <1>0, <2>2, <2>4, <2>5 DEF UsedInv
  <2>8. PublishedInv'
    BY <1>0, <2>2, <2>4, <2>5 DEF PublishedInv
  <2>9. CandidatesInv' /\ FlagsInv'
    <3>1. CandidatesInv'
      BY <1>0, <2>2 DEF CandidatesInv
    <3>2. FlagsInv'
      BY <1>0, <2>2, Zenon DEF FlagsInv
    <3> QED BY <3>1, <3>2
  <2> QED BY <2>6, <2>7, <2>8, <2>9 DEF Base
<1>5. ASSUME NEW g \in Gid, Reject(g) PROVE Base'
  <2>1. /\ g \in DOMAIN tracks /\ tracks[g].age <= Reid
        /\ phase' = "match" /\ used' = used \cup {g}
        /\ UNCHANGED <<tracks, nextGid, candidates, detected, boot, quarantine, published>>
    BY <1>5 DEF Reject, Matchable
  <2>2. FlagsInv'
    BY <1>0, <2>1, Zenon DEF FlagsInv
  <2>3. TracksInv' /\ CandidatesInv' /\ PublishedInv'
    BY <1>0, <2>1 DEF TracksInv, CandidatesInv, PublishedInv
  <2>4. UsedInv'
    BY <1>0, <2>1 DEF UsedInv
  <2> QED BY <2>2, <2>3, <2>4 DEF Base
<1>6. CASE Birth
  <2>1. /\ UNCHANGED <<detected, boot, quarantine, used, published>> /\ phase' = "birth"
        /\ CandidatesInv'
        /\ UNCHANGED <<tracks, nextGid>> \/ Creates
    BY <1>6, BirthEffect
  <2>2. FlagsInv'
    BY <1>0, <2>1, Zenon DEF FlagsInv
  <2>3. CASE UNCHANGED <<tracks, nextGid>>
    BY <1>0, <2>1, <2>2, <2>3 DEF Base, TracksInv, UsedInv, PublishedInv
  <2>4. CASE Creates
    <3>1. PICK hits \in 1 .. HitsMax, z \in Zone, window \in BOOLEAN :
            /\ nextGid <= GidBound /\ nextGid' = nextGid + 1 /\ nextGid \notin DOMAIN tracks
            /\ DOMAIN tracks' = DOMAIN tracks \cup {nextGid}
            /\ \A g \in DOMAIN tracks : tracks'[g] = tracks[g]
            /\ tracks'[nextGid] = NewTrack(hits, z, window)
            /\ Sound(NewTrack(hits, z, window))
      BY <2>4, CreateEffect
    <3>2. TracksInv'
      <4>1. \A g \in DOMAIN tracks : g \in Nat /\ g < nextGid /\ nextGid \in Nat
        BY <1>0 DEF TracksInv, Gid
      <4>2. nextGid \in Gid /\ nextGid' \in 1 .. GidBound + 1
        BY <1>0, <3>1 DEF TracksInv, Gid
      <4> QED BY <1>0, <3>1, <4>1, <4>2 DEF TracksInv
    <3>3. UsedInv' /\ PublishedInv'
      BY <1>0, <2>1, <3>1 DEF UsedInv, PublishedInv
    <3> QED BY <2>1, <2>2, <3>2, <3>3 DEF Base
  <2> QED BY <2>1, <2>3, <2>4
<1>7. CASE EndFlush
  <2>1. /\ DOMAIN tracks' = Remaining /\ \A g \in Remaining : tracks'[g] = Marked(g)
        /\ published' \subseteq {g \in Remaining : Eligible(Marked(g))}
    BY <1>7, FlushMarks
  <2>2. phase' = "idle" /\ used' = {} /\ UNCHANGED <<nextGid, detected, boot, quarantine>>
    BY <1>7 DEF EndFlush
  <2>3. Remaining \subseteq DOMAIN tracks
    BY DEF Remaining
  <2>4. \A g \in Remaining : Sound(Marked(g))
    BY <2>3, MarkedSound
  <2>5. TracksInv'
    BY <1>0, <2>1, <2>2, <2>3, <2>4 DEF TracksInv
  <2>6. UsedInv'
    BY <2>2 DEF UsedInv
  <2>7. PublishedInv'
    BY <2>1 DEF PublishedInv, Eligible
  <2>8. FlagsInv'
    BY <1>0, <2>2, Zenon DEF FlagsInv
  <2>9. CandidatesInv'
    <3>1. DOMAIN candidates' \subseteq DOMAIN candidates
          /\ \A k \in DOMAIN candidates' : candidates'[k] = [candidates[k] EXCEPT !.counted = FALSE]
      BY <1>7 DEF EndFlush
    <3> QED BY <1>0, <3>1 DEF CandidatesInv, Candidate
  <2> QED BY <2>5, <2>6, <2>7, <2>8, <2>9 DEF Base
<1>8. CASE UNCHANGED tracksVars
  BY <1>0, <1>8
     DEF tracksVars, Base, TracksInv, CandidatesInv, FlagsInv, UsedInv, PublishedInv
<1> QED BY <1>1, <1>2, <1>3, <1>4, <1>5, <1>6, <1>7, <1>8 DEF TracksNext, Control, Flush

\* The inductive invariant holds in every behaviour.
THEOREM TracksBase == TracksSpec => []Base
BY BaseInit, BaseStep, PTL DEF TracksSpec

\* Types, and a lost track is older than lost_after_ms, in every behaviour
\* (TracksTypeOK).
THEOREM TracksTypes == TracksSpec => []TracksTypeOK
BY TracksBase, BaseTypes, PTL

-----------------------------------------------------------------------------
(* A lost id off the edges is published, a duplicate, or too old to match.  *)

\* A confirmed track lost inside the field that no hold keeps eligible.
LEMMA IneligibleOld ==
  ASSUME NEW tr, Sound(tr), ~Eligible(tr),
         tr.state = "lost", tr.zone = "inside", tr.hits >= MinHits
  PROVE  tr.age > Reid
<1> USE TracksParameters
<1>1. tr \in Track /\ TrackInv(tr)
  BY DEF Sound
<1>2. tr.lock = 0 /\ tr.hold = 0
  BY <1>1, Fields DEF Eligible
<1>3. tr.lostFor >= Hold
  BY <1>1, <1>2, Fields DEF TrackInv, Held
<1> QED BY <1>1, <1>3, Fields DEF TrackInv

\* Time passes for both alike.
LEMMA AgedOutranks ==
  ASSUME NEW h, Sound(h), NEW g, Sound(g), Outranks(h, g)
  PROVE  Outranks(Aged(h), Aged(g))
<1>1. /\ Aged(h).state = h.state /\ Aged(h).hits = h.hits
      /\ Aged(g).state = g.state /\ Aged(g).hits = g.hits
  BY AgedSound
<1>2. Aged(h).age = Up(h.age, AgeMax) /\ Aged(g).age = Up(g.age, AgeMax)
  BY DEF Sound, Track, Aged
<1>3. h.age <= g.age => Aged(h).age <= Aged(g).age
  BY <1>2, Fields, TracksParameters DEF Sound, Up
<1> QED BY <1>1, <1>3 DEF Outranks

LEMMA HiddenStep == Base /\ Base' /\ OnlyDuplicatesReturn /\ [TracksNext]_tracksVars => OnlyDuplicatesReturn'
<1> SUFFICES ASSUME Base, Base', OnlyDuplicatesReturn, [TracksNext]_tracksVars, phase' = "idle",
                    NEW g \in DOMAIN tracks', g \notin published',
                    tracks'[g].state = "lost", tracks'[g].zone = "inside",
                    tracks'[g].hits >= MinHits
             PROVE  tracks'[g].age > Reid \/ Duplicate(g)'
  BY DEF OnlyDuplicatesReturn
<1>0. TracksInv /\ TracksInv' /\ PublishedInv
  BY DEF Base
<1>a. ~Eligible(tracks[g])' => tracks'[g].age > Reid
  <2>1. Sound(tracks'[g])
    BY <1>0 DEF TracksInv
  <2>2. Eligible(tracks[g])' <=> Eligible(tracks'[g])
    BY DEF Eligible
  <2> QED BY <2>1, <2>2, IneligibleOld
<1> USE TracksParameters
<1>1. CASE Tick
  <2>1. /\ g \in DOMAIN tracks /\ tracks'[g] = Aged(tracks[g]) /\ Sound(tracks[g])
        /\ \A h \in DOMAIN tracks : tracks'[h] = Aged(tracks[h]) /\ Sound(tracks[h])
    BY <1>0, <1>1, TickAges DEF TracksInv
  <2>2. g \notin published /\ published' = published /\ phase = "idle"
    BY <1>1 DEF Tick
  <2>3. /\ tracks'[g].age >= tracks[g].age /\ tracks[g].state = "lost"
        /\ tracks[g].zone = "inside" /\ tracks[g].hits >= MinHits
    BY <2>1, AgedSound
  <2>4. CASE tracks[g].age > Reid
    <3>1. tracks[g].age \in Int /\ tracks'[g].age \in Int
      BY <2>1, AgedSound, Fields DEF Sound
    <3> QED BY <2>3, <2>4, <3>1
  <2>5. CASE Duplicate(g)
    <3>1. PICK h \in published : Outranks(tracks[h], tracks[g])
      BY <2>5 DEF Duplicate
    <3>2. h \in DOMAIN tracks
      BY <1>0 DEF PublishedInv
    <3>3. Outranks(tracks'[h], tracks'[g])
      BY <2>1, <3>1, <3>2, AgedOutranks
    <3>4. Outranks(tracks[h], tracks[g])'
      BY <3>3 DEF Outranks
    <3> QED BY <1>a, <2>2, <3>4 DEF Duplicate
  <2> QED BY <2>1, <2>2, <2>3, <2>4, <2>5 DEF OnlyDuplicatesReturn
<1>2. CASE EndFlush
  <2>1. g \in Remaining /\ tracks'[g] = Marked(g)
    BY <1>2, FlushMarks
  <2>2. CASE Eligible(Marked(g))
    BY <1>2, <2>1, <2>2, FlushMarks
  <2>3. CASE ~Eligible(Marked(g))
    BY <1>a, <2>1, <2>3 DEF Eligible
  <2> QED BY <2>2, <2>3
<1>3. CASE ResetTracks
  BY <1>3 DEF ResetTracks, Nothing
<1>4. CASE SetQuarantine \/ FirstDetection \/ UNCHANGED tracksVars
  BY <1>4 DEF SetQuarantine, FirstDetection, tracksVars, OnlyDuplicatesReturn,
              Duplicate, Eligible, Outranks
<1>5. CASE Birth \/ \E h \in Gid : Match(h) \/ Reject(h)
  BY <1>5 DEF Birth, Match, Reject
<1> QED BY <1>1, <1>2, <1>3, <1>4, <1>5 DEF TracksNext, Control, Flush

\* Nobody disappears in the field and returns under the old id, but a duplicate
\* (OnlyDuplicatesReturn).
THEOREM TracksHidden == TracksSpec => []OnlyDuplicatesReturn
<1>1. TracksInit => OnlyDuplicatesReturn
  BY DEF TracksInit, Nothing, OnlyDuplicatesReturn
<1> QED BY <1>1, TracksBase, HiddenStep, PTL DEF TracksSpec

-----------------------------------------------------------------------------
(* The bootstrap window.                                                   *)

Windowed == {g \in DOMAIN tracks : tracks[g].window}

LEMMA WindowedFinite ==
  ASSUME Base
  PROVE  /\ IsFiniteSet(Windowed) /\ Cardinality(Windowed) \in Nat
         /\ Cardinality(Windowed) <= Cardinality(Confirmed) /\ Cardinality(Confirmed) \in Nat
<1>1. IsFiniteSet(Gid)
  BY TracksParameters, FS_Interval DEF Gid
<1>2. Confirmed \subseteq Gid
  BY DEF Base, TracksInv, Confirmed
<1>3. Windowed \subseteq Confirmed
  BY DEF Base, TracksInv, Sound, TrackInv, Windowed, Confirmed
<1>4. IsFiniteSet(Confirmed)
  BY <1>1, <1>2, FS_Subset
<1> QED BY <1>3, <1>4, FS_Subset, FS_CardinalityType

LEMMA BoundedStep == Base /\ BootstrapBounded /\ [TracksNext]_tracksVars => BootstrapBounded'
<1> SUFFICES ASSUME Base, BootstrapBounded, [TracksNext]_tracksVars
             PROVE  Cardinality(Windowed') <= BootMax
  BY DEF BootstrapBounded, Windowed
<1>0. Cardinality(Windowed) <= BootMax /\ TracksInv
  BY DEF BootstrapBounded, Windowed, Base
<1> USE TracksParameters
<1>1. ASSUME Windowed' \subseteq Windowed PROVE Cardinality(Windowed') <= BootMax
  <2>1. Cardinality(Windowed') <= Cardinality(Windowed) /\ Cardinality(Windowed') \in Nat
    BY <1>1, WindowedFinite, FS_Subset, FS_CardinalityType
  <2> QED BY <1>0, <2>1, WindowedFinite
<1>2. CASE Tick
  <2>1. Windowed' = Windowed
    BY <1>0, <1>2, TickAges, AgedSound DEF Windowed, TracksInv
  <2> QED BY <1>1, <2>1
<1>3. CASE ResetTracks
  <2>1. Windowed' = {}
    BY <1>3 DEF ResetTracks, Nothing, Windowed
  <2> QED BY <1>1, <2>1
<1>4. ASSUME NEW g \in Gid, Match(g) PROVE Cardinality(Windowed') <= BootMax
  <2>1. PICK z \in Zone, handoff \in BOOLEAN :
          g \in DOMAIN tracks /\ tracks' = [tracks EXCEPT ![g] = Updated(@, z, handoff)]
    BY <1>4 DEF Match, Matchable
  <2>2. Updated(tracks[g], z, handoff).window = tracks[g].window
    BY <1>0, <2>1, UpdatedSound DEF TracksInv
  <2>3. Windowed' = Windowed
    BY <2>1, <2>2 DEF Windowed
  <2> QED BY <1>1, <2>3
<1>5. CASE UNCHANGED tracks
  BY <1>1, <1>5 DEF Windowed
<1>6. CASE Creates
  <2>1. PICK hits \in 1 .. HitsMax, z \in Zone, window \in BOOLEAN :
          /\ nextGid \notin DOMAIN tracks
          /\ DOMAIN tracks' = DOMAIN tracks \cup {nextGid}
          /\ \A g \in DOMAIN tracks : tracks'[g] = tracks[g]
          /\ tracks'[nextGid].window = window
          /\ window => InWindow
    <3>1. PICK hits \in 1 .. HitsMax, z \in Zone, window \in BOOLEAN :
            /\ nextGid \notin DOMAIN tracks
            /\ DOMAIN tracks' = DOMAIN tracks \cup {nextGid}
            /\ \A g \in DOMAIN tracks : tracks'[g] = tracks[g]
            /\ tracks'[nextGid] = NewTrack(hits, z, window)
            /\ window => InWindow
      BY <1>6, CreateEffect
    <3>2. NewTrack(hits, z, window).window = window
      BY DEF NewTrack
    <3> QED BY <3>1, <3>2
  <2>2. CASE window
    <3>1. Windowed' = Windowed \cup {nextGid} /\ nextGid \notin Windowed
      BY <2>1, <2>2 DEF Windowed
    <3>2. Cardinality(Windowed') = Cardinality(Windowed) + 1
      BY <3>1, WindowedFinite, FS_AddElement
    <3>3. Cardinality(Confirmed) < BootMax
      BY <2>1, <2>2 DEF InWindow
    <3> QED BY <3>2, <3>3, WindowedFinite
  <2>3. CASE ~window
    <3>1. Windowed' = Windowed
      BY <2>1, <2>3 DEF Windowed
    <3> QED BY <1>1, <3>1
  <2> QED BY <2>2, <2>3
<1>7. CASE EndFlush
  <2>1. Windowed' \subseteq Windowed
    BY <1>7, FlushMarks, MarkedSound DEF Windowed, Remaining
  <2> QED BY <1>1, <2>1
<1>8. CASE SetQuarantine \/ FirstDetection \/ (\E g \in Gid : Reject(g)) \/ UNCHANGED tracksVars
  BY <1>5, <1>8 DEF SetQuarantine, FirstDetection, Reject, tracksVars
<1>9. CASE Birth
  BY <1>5, <1>6, <1>9, BirthEffect
<1> QED BY <1>2, <1>3, <1>4, <1>7, <1>8, <1>9 DEF TracksNext, Control, Flush

\* The bootstrap window lets in no more ids inside the field than its limit
\* (BootstrapBounded).
THEOREM TracksBounded == TracksSpec => []BootstrapBounded
<1>1. TracksInit => BootstrapBounded
  <2> SUFFICES ASSUME TracksInit PROVE BootstrapBounded
    OBVIOUS
  <2>1. {g \in DOMAIN tracks : tracks[g].window} = {}
    BY DEF TracksInit, Nothing
  <2> QED BY <2>1, FS_EmptySet, TracksParameters DEF BootstrapBounded
<1> QED BY <1>1, TracksBase, BoundedStep, PTL DEF TracksSpec

-----------------------------------------------------------------------------
(* Ids leave the publication at the edges, after the hold, as duplicates or *)
(* by a reset.                                                             *)

MayLeave(tr) ==
  \/ tr.zone = "edge"
  \/ tr.state = "lost" /\ tr.lostFor >= Hold
  \/ tr.age > Retire /\ tr.cap = 0

\* A track that EndFlush takes out of the publication.
LEMMA FlushedOut ==
  ASSUME Base, EndFlush, NEW g \in published \ published', ~Duplicate(g)'
  PROVE  MayLeave(tracks[g])
<1> DEFINE tr == tracks[g]
           u == Marked(g)
<1>1. g \in DOMAIN tracks /\ tr.hits >= MinHits
  BY DEF Base, PublishedInv
<1>2. Sound(tr)
  BY <1>1 DEF Base, TracksInv
<1>3. tr \in Track /\ TrackInv(tr)
  BY <1>2 DEF Sound
<1>4. Retired(u) \/ ~Eligible(u)
  BY <1>1, FlushMarks DEF Remaining
<1>5. g \in used => tr.age <= Reid
  BY DEF Base, UsedInv
<1> USE TracksParameters
<1> SUFFICES ASSUME tr.zone # "edge" PROVE MayLeave(tr)
  BY DEF MayLeave
<1>6. tr.zone = "inside"
  BY <1>3, Fields DEF Zone
<1>7. CASE Missed(g)
  <2>1. u = Lost(tr) /\ tr.state # "lost" /\ tr.age > LostAfter
    BY <1>7 DEF Marked, Missed
  <2> HIDE DEF tr, u
  <2>2. /\ u.hits = tr.hits /\ u.age = tr.age /\ u.hold > 0
        /\ u.cap = IF tr.cap = Unset THEN Cap ELSE tr.cap
    BY <1>2, <1>6, <2>1, LostSound
  <2>3. Eligible(u)
    BY <1>1, <2>2 DEF Eligible, tr
  <2>4. tr.age > Retire /\ u.cap <= 0
    BY <1>4, <2>2, <2>3 DEF Retired
  <2>5. tr.cap = 0
    BY <1>3, <2>2, <2>4, Fields DEF Unset
  <2> QED BY <2>4, <2>5 DEF MayLeave
<1>8. CASE ~Missed(g)
  <2>0. u = tr
    BY <1>8 DEF Marked
  <2>1. CASE tr.state = "lost"
    <3>1. CASE Retired(tr)
      <4>1. tr.age > Retire /\ tr.cap = 0
        BY <1>3, <1>6, <2>1, <3>1, Fields DEF Retired, TrackInv, Held, Unset
      <4> QED BY <4>1 DEF MayLeave
    <3>2. CASE ~Eligible(tr)
      <4>1. tr.hold = 0 /\ Held(tr)
        BY <1>1, <1>3, <1>6, <2>1, <3>2, Fields DEF Eligible, Held
      <4>2. tr.lostFor >= Hold
        BY <1>3, <4>1, Fields DEF TrackInv
      <4> QED BY <2>1, <4>2 DEF MayLeave
    <3> QED BY <1>4, <2>0, <3>1, <3>2
  <2>2. CASE tr.state # "lost"
    <3>1. Eligible(tr)
      BY <1>1, <2>2 DEF Eligible
    <3>2. tr.age > Retire /\ tr.age \in Nat
      BY <1>3, <1>4, <2>0, <3>1, Fields DEF Retired
    <3>3. g \in used
      BY <1>8, <2>2, <3>2 DEF Missed
    <3> QED BY <1>5, <3>2, <3>3
  <2> QED BY <2>1, <2>2
<1> QED BY <1>7, <1>8

\* LeavesOnlyAfterHold, for every timing of losses, recoveries and flushes.
THEOREM TracksLeave == TracksSpec => LeavesOnlyAfterHold
<1> DEFINE Leaves ==
      \A g \in published \ published' :
        \/ ResetTracks
        \/ tracks[g].zone = "edge"
        \/ tracks[g].state = "lost" /\ tracks[g].lostFor >= Hold
        \/ tracks[g].age > Retire /\ tracks[g].cap = 0
        \/ Duplicate(g)'
<1>1. Base /\ [TracksNext]_tracksVars => [Leaves]_tracksVars
  <2> SUFFICES ASSUME Base, TracksNext, NEW g \in published \ published', ~ResetTracks,
                      ~Duplicate(g)'
               PROVE  MayLeave(tracks[g])
    BY DEF MayLeave
  <2>1. EndFlush
    BY BirthEffect
       DEF TracksNext, Control, Flush, Tick, SetQuarantine, FirstDetection, Match, Reject
  <2> QED BY <2>1, FlushedOut
<1> QED BY <1>1, TracksBase, PTL DEF TracksSpec, LeavesOnlyAfterHold
=============================================================================
