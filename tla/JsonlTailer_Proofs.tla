------------------------- MODULE JsonlTailer_Proofs -------------------------
(***************************************************************************)
(* Proofs about JsonlTailer for any limit of a poll, any length of the     *)
(* file, any number of replacements and restarts.                          *)
(***************************************************************************)
EXTENDS JsonlTailer, SequenceTheorems, TLAPS

LEMMA ParameterTypes ==
  /\ MaxLines \in Nat /\ MaxLines > 0
  /\ LineBound \in Nat /\ GenBound \in Nat /\ RestartBound \in Nat
BY TailerAssumption

\* A poll ends where it began or later, and inside the file if it began there.
LEMMA ReadToIs ==
  ASSUME NEW from \in Nat, NEW sz \in Nat
  PROVE  /\ ReadTo(from, sz, MaxLines) \in Nat
         /\ from <= ReadTo(from, sz, MaxLines)
         /\ from <= sz => ReadTo(from, sz, MaxLines) <= sz
         /\ sz < from => ReadTo(from, sz, MaxLines) = from
<1>1. PICK d \in Nat : d = from \div 3 /\ 3 * d <= from /\ from < 3 * d + 3
  OBVIOUS
<1>2. PICK limit \in Nat : limit = 3 * (d + MaxLines) /\ from <= limit
  <2>1. 3 * (d + MaxLines) >= 3 * d + 3
    BY ParameterTypes
  <2> QED BY <1>1, <2>1, ParameterTypes
<1>3. LineEnd(LineAt(from) + MaxLines - 1) = limit
  BY <1>1, <1>2, ParameterTypes DEF LineEnd, LineAt, Parts
<1> QED BY <1>2, <1>3 DEF ReadTo

\* The type invariant says nothing of the length of the file.
TailTypeInv == TypeOK /\ Len(lines) <= LineBound

LEMMA TailTypeInit ==
  ASSUME Init
  PROVE  TailTypeInv
<1>1. lines = <<>> /\ got = <<>> /\ size = 0
  BY DEF Init
<1>2. /\ lines \in Seq(LineKind) /\ got \in Seq(1..LineBound) /\ Len(lines) = 0
  BY <1>1
<1>3. size \in 0..LineEnd(Len(lines))
  BY <1>1, <1>2 DEF LineEnd, Parts
<1>4. /\ exists \in BOOLEAN /\ started \in BOOLEAN /\ pc \in {"idle", "open"}
      /\ gen \in 0..GenBound /\ epoch \in 0..RestartBound
      /\ {off, first} \subseteq Nat /\ stops \subseteq Nat
  <2>1. exists \in BOOLEAN /\ started \in BOOLEAN /\ pc \in {"idle", "open"}
    BY Zenon DEF Init
  <2>2. gen \in 0..GenBound /\ epoch \in 0..RestartBound
    BY ParameterTypes DEF Init
  <2>3. {off, first} \subseteq Nat /\ stops \subseteq Nat
    BY DEF Init
  <2> QED BY <2>1, <2>2, <2>3
<1>5. Len(lines) <= LineBound
  BY <1>2, ParameterTypes
<1> QED BY <1>2, <1>3, <1>4, <1>5 DEF TypeOK, TailTypeInv

\* What a poll returns: lines of the file in ascending order, the objects
\* between where it began and where it ended.
Polled(to, n, new) ==
  /\ pc = "open" /\ pc' = "idle"
  /\ off <= to /\ (off <= size => to <= size) /\ (size < off => to = off)
  /\ off' = to /\ first' = (IF stops = {} THEN off ELSE first)
  /\ stops' = stops \cup {to}
  /\ new \in [1..n -> 1..LineBound]
  /\ \A k \in 1..n : off <= LineStart(new[k]) /\ LineEnd(new[k]) - 1 <= to
  /\ \A i \in DOMAIN lines :
       lines[i] = "object" /\ off <= LineStart(i) /\ LineEnd(i) - 1 <= to
         => \E k \in 1..n : new[k] = i
  /\ \A j, k \in 1..n : j < k => new[j] < new[k]
  /\ got' = got \o new
  /\ UNCHANGED <<exists, lines, size, gen, started, epoch>>

LEMMA TailFile ==
  ASSUME TailTypeInv
  PROVE  /\ off \in Nat /\ size \in Nat /\ first \in Nat /\ stops \subseteq Nat
         /\ lines \in Seq(LineKind) /\ Len(lines) \in Nat
         /\ DOMAIN lines = 1..Len(lines)
         /\ size <= LineEnd(Len(lines))
<1>1. lines \in Seq(LineKind) /\ Len(lines) \in Nat
  BY DEF TailTypeInv, TypeOK
<1>2. LineEnd(Len(lines)) \in Nat
  BY <1>1 DEF LineEnd, Parts
<1> QED BY <1>1, <1>2 DEF TailTypeInv, TypeOK

LEMMA ReadIs ==
  ASSUME TailTypeInv, Read
  PROVE  \E to, n \in Nat, new \in Seq(1..LineBound) : Polled(to, n, new)
<1> DEFINE to == ReadTo(off, size, MaxLines)
           S == {i \in WholeLines(lines, off, to) : lines[i] = "object"}
<1>1. /\ off \in Nat /\ size \in Nat /\ Len(lines) \in Nat
      /\ DOMAIN lines = 1..Len(lines) /\ Len(lines) <= LineBound
  BY TailFile DEF TailTypeInv
<1>2. /\ to \in Nat /\ off <= to
      /\ (off <= size => to <= size) /\ (size < off => to = off)
  BY <1>1, ReadToIs
<1>3. \A i : i \in S <=> /\ i \in DOMAIN lines /\ lines[i] = "object"
                         /\ off <= LineStart(i) /\ LineEnd(i) - 1 <= to
  BY DEF WholeLines
<1>4. S \subseteq 1..LineBound
  BY <1>1, <1>3, ParameterTypes
<1>5. PICK new \in InOrder(S) : got' = got \o new
  BY DEF Read
<1>6. /\ pc = "open" /\ pc' = "idle" /\ off' = to
      /\ first' = (IF stops = {} THEN off ELSE first) /\ stops' = stops \cup {to}
      /\ UNCHANGED <<exists, lines, size, gen, started, epoch>>
  BY DEF Read, file
<1> HIDE DEF to, S
<1>7. PICK n \in 0..Len(lines) : new \in [1..n -> S]
  BY <1>5 DEF InOrder
<1>8. n \in Nat /\ DOMAIN new = 1..n
  BY <1>1, <1>7
<1>9. /\ \A i \in S : \E k \in 1..n : new[k] = i
      /\ \A j, k \in 1..n : j < k => new[j] < new[k]
  BY <1>5, <1>8 DEF InOrder
<1>10. new \in [1..n -> 1..LineBound] /\ (\A k \in 1..n : new[k] \in S)
  BY <1>4, <1>7
<1>11. \A k \in 1..n : off <= LineStart(new[k]) /\ LineEnd(new[k]) - 1 <= to
  BY <1>3, <1>10
<1>12. \A i \in DOMAIN lines :
         lines[i] = "object" /\ off <= LineStart(i) /\ LineEnd(i) - 1 <= to
           => \E k \in 1..n : new[k] = i
  BY <1>3, <1>9
<1>13. Polled(to, n, new)
  BY <1>2, <1>5, <1>6, <1>9, <1>10, <1>11, <1>12 DEF Polled
<1>14. new \in Seq(1..LineBound)
  BY <1>8, <1>10, SeqDef
<1> QED BY <1>2, <1>8, <1>13, <1>14

\* What was returned is what had been, followed by the new lines.
LEMMA ConcatIs ==
  ASSUME NEW S, NEW s \in Seq(S), NEW n \in Nat, NEW t \in [1..n -> S]
  PROVE  /\ s \o t \in Seq(S) /\ Len(s) \in Nat /\ DOMAIN s = 1..Len(s)
         /\ DOMAIN (s \o t) = 1..(Len(s) + n)
         /\ \A k \in 1..Len(s) : (s \o t)[k] = s[k]
         /\ \A k \in 1..n : (s \o t)[Len(s) + k] = t[k]
<1>1. t \in Seq(S) /\ Len(t) = n
  BY SeqDef
<1> QED BY <1>1

LEMMA TailTypeStep ==
  ASSUME TailTypeInv, [Next]_vars
  PROVE  TailTypeInv'
<1> USE DEF file, reader, hist
<1>0. /\ TypeOK /\ Len(lines) <= LineBound
      /\ LineBound \in Nat /\ GenBound \in Nat /\ RestartBound \in Nat
  BY ParameterTypes DEF TailTypeInv
<1>1. CASE Create
  BY <1>0, <1>1 DEF Create, TypeOK, TailTypeInv
<1>2. ASSUME NEW k \in LineKind, WriteLine(k) PROVE TailTypeInv'
  <2>1. /\ lines' = Append(lines, k) /\ Len(lines) < LineBound
        /\ size = LineEnd(Len(lines))
        /\ \E n \in 1..3 : size' = size + n
        /\ UNCHANGED <<exists, gen, pc, started, off, epoch, got, first, stops>>
    BY <1>2 DEF WriteLine, Parts
  <2>2. /\ lines' \in Seq(LineKind) /\ Len(lines') = Len(lines) + 1
        /\ Len(lines) \in Nat
    BY <2>1, TailFile
  <2>3. size' \in 0..LineEnd(Len(lines')) /\ Len(lines') <= LineBound
    BY <1>0, <2>1, <2>2 DEF LineEnd, Parts
  <2> QED BY <1>0, <2>1, <2>2, <2>3 DEF TypeOK, TailTypeInv, LineEnd, Parts
<1>3. CASE Flush
  <2>1. size' \in (size + 1)..LineEnd(Len(lines)) /\ size \in Nat
    BY <1>3, TailFile DEF Flush
  <2>2. LineEnd(Len(lines)) \in Nat
    BY TailFile DEF LineEnd, Parts
  <2>3. size' \in 0..LineEnd(Len(lines))
    BY <2>1, <2>2
  <2> QED BY <1>0, <1>3, <2>3 DEF Flush, TypeOK, TailTypeInv, LineEnd
<1>4. CASE Replace
  <2>1. /\ lines' = <<>> /\ size' = 0 /\ gen' = gen + 1 /\ gen < GenBound
        /\ got' = <<>> /\ first' = 0 /\ stops' = {}
        /\ UNCHANGED <<exists, pc, started, off, epoch>>
    BY <1>4 DEF Replace
  <2>2. /\ lines' \in Seq(LineKind) /\ Len(lines') = 0 /\ got' \in Seq(1..LineBound)
    BY <2>1
  <2>3. size' \in 0..LineEnd(Len(lines')) /\ gen' \in 0..GenBound
    BY <1>0, <2>1, <2>2 DEF LineEnd, Parts, TypeOK
  <2> QED BY <1>0, <2>1, <2>2, <2>3 DEF TypeOK, TailTypeInv, LineEnd
<1>5. CASE Stat
  <2>1. /\ off' \in {off, 0, size} /\ started' = TRUE /\ pc' = "open"
        /\ UNCHANGED <<exists, lines, size, gen, epoch, got, first, stops>>
    BY <1>5 DEF Stat, ReadFrom
  <2>2. off' \in Nat
    BY <2>1, TailFile
  <2> QED BY <1>0, <2>1, <2>2 DEF TypeOK, TailTypeInv, LineEnd
<1>6. CASE Read
  <2>1. PICK to, n \in Nat, new \in Seq(1..LineBound) : Polled(to, n, new)
    BY <1>6, ReadIs
  <2>2. /\ pc' = "idle" /\ off' \in Nat /\ first' \in Nat /\ stops' \subseteq Nat
        /\ new \in [1..n -> 1..LineBound] /\ got' = got \o new
        /\ UNCHANGED <<exists, lines, size, gen, started, epoch>>
    BY <2>1, TailFile DEF Polled
  <2>3. got' \in Seq(1..LineBound)
    BY <1>0, <2>2, ConcatIs DEF TypeOK
  <2> QED BY <1>0, <2>2, <2>3 DEF TypeOK, TailTypeInv, LineEnd
<1>7. CASE Restart
  <2>1. /\ pc' = "idle" /\ started' = FALSE /\ off' = 0
        /\ epoch' = epoch + 1 /\ epoch < RestartBound
        /\ got' = <<>> /\ first' = 0 /\ stops' = {}
        /\ UNCHANGED <<exists, lines, size, gen>>
    BY <1>7 DEF Restart
  <2>2. got' \in Seq(1..LineBound) /\ epoch' \in 0..RestartBound
    BY <1>0, <2>1 DEF TypeOK
  <2>3. /\ exists' \in BOOLEAN /\ lines' \in Seq(LineKind) /\ gen' \in 0..GenBound
        /\ size' \in 0..LineEnd(Len(lines')) /\ Len(lines') <= LineBound
    BY <1>0, <2>1 DEF TypeOK
  <2>4. {off', first'} \subseteq Nat /\ stops' \subseteq Nat /\ started' \in BOOLEAN
        /\ pc' \in {"idle", "open"}
    <3>1. started' \in BOOLEAN /\ pc' \in {"idle", "open"}
      BY <2>1, Zenon
    <3>2. {off', first'} \subseteq Nat /\ stops' \subseteq Nat
      BY <2>1
    <3> QED BY <3>1, <3>2
  <2> QED BY <2>2, <2>3, <2>4 DEF TypeOK, TailTypeInv, LineEnd
<1>8. CASE UNCHANGED vars
  BY <1>0, <1>8 DEF vars, TypeOK, TailTypeInv, LineEnd
<1> QED BY <1>1, <1>2, <1>3, <1>4, <1>5, <1>6, <1>7, <1>8 DEF Next, Writer

LEMMA TailTypeAlways == Spec => []TailTypeInv
<1>1. Init => TailTypeInv
  BY TailTypeInit
<1>2. TailTypeInv /\ [Next]_vars => TailTypeInv'
  BY TailTypeStep
<1> QED BY <1>1, <1>2, PTL DEF Spec

\* The types of the file, the reader and what it returned hold in every
\* behaviour, for any lengths, numbers of replacements and limits of a poll.
THEOREM TailerTypes == Spec => []TypeOK
<1>1. TailTypeInv => TypeOK
  BY DEF TailTypeInv
<1> QED BY <1>1, TailTypeAlways, PTL

-----------------------------------------------------------------------------
(* The order of the lines, and those passed over.                          *)

\* Line i was returned, or a read ended inside it.
Accounted(i) ==
  \/ \E n \in DOMAIN got : got[n] = i
  \/ \E s \in stops : LineStart(i) < s /\ s < LineEnd(i) - 1

\* What was returned lies behind the offset, and an offset that is past the end
\* of a replaced file has returned nothing of it.
OffsetInv ==
  /\ pc = "open" \/ stops # {} => started
  /\ got # <<>> => off <= size /\ stops # {}
  /\ \A n \in DOMAIN got : LineEnd(got[n]) - 1 <= off
  /\ stops # {} => off \in stops \cup {0} /\ (off <= size \/ off <= first)

\* Every object the reader is past is accounted for, its newline set aside: a
\* line read without it was returned, though the property does not speak of it
\* before the next read.
PassedInv ==
  \A i \in DOMAIN lines :
    lines[i] = "object" /\ stops # {} /\ first <= LineStart(i)
        /\ LineEnd(i) - 1 <= off
      => Accounted(i)

TailInv == OffsetInv /\ InFileOrder /\ PassedInv

LEMMA Lines ==
  ASSUME NEW i \in Int
  PROVE  /\ LineStart(i) = 3 * i - 3 /\ LineEnd(i) = 3 * i
         /\ LineStart(i) \in Int /\ LineEnd(i) \in Int
BY DEF LineStart, LineEnd, Parts

LEMMA TailImplies ==
  ASSUME TailTypeInv, TailInv
  PROVE  InFileOrder /\ OnlyTornLinesLost
<1>1. ASSUME NEW i \in DOMAIN lines, LineEnd(i) <= off PROVE LineEnd(i) - 1 <= off
  <2>1. i \in Int /\ off \in Int
    BY TailFile
  <2>2. LineEnd(i) \in Int
    BY <2>1, Lines
  <2> QED BY <1>1, <2>1, <2>2
<1> QED BY <1>1 DEF TailInv, PassedInv, Accounted, OnlyTornLinesLost

\* A poll: lines it returns lie behind those returned before.
LEMMA ReadKeeps ==
  ASSUME TailTypeInv, TailInv, Read
  PROVE  TailInv'
<1>1. PICK to, n \in Nat, new \in Seq(1..LineBound) : Polled(to, n, new)
  BY ReadIs
<1>2. PICK b \in Nat : b = Len(got)
  BY DEF TailTypeInv, TypeOK
<1>3. /\ off <= to /\ (off <= size => to <= size) /\ (size < off => to = off)
      /\ off' = to /\ first' = (IF stops = {} THEN off ELSE first)
      /\ stops' = stops \cup {to} /\ pc = "open" /\ pc' = "idle"
      /\ UNCHANGED <<exists, lines, size, gen, started, epoch>>
      /\ new \in [1..n -> 1..LineBound]
      /\ \A j, k \in 1..n : j < k => new[j] < new[k]
  BY <1>1 DEF Polled
<1>4. /\ off \in Nat /\ size \in Nat /\ first \in Nat
      /\ DOMAIN lines = 1..Len(lines) /\ Len(lines) \in Nat
  BY TailFile
<1>5. \A k \in 1..n : /\ new[k] \in Nat
                      /\ off <= 3 * new[k] - 3 /\ 3 * new[k] - 1 <= to
  <2> SUFFICES ASSUME NEW k \in 1..n
               PROVE  new[k] \in Nat /\ off <= 3 * new[k] - 3 /\ 3 * new[k] - 1 <= to
    OBVIOUS
  <2>1. new[k] \in Nat
    BY <1>3, ParameterTypes
  <2>2. off <= LineStart(new[k]) /\ LineEnd(new[k]) - 1 <= to
    BY <1>1 DEF Polled
  <2>3. new[k] \in Int
    BY <2>1
  <2> QED BY <2>1, <2>2, <2>3, Lines
<1>6. /\ DOMAIN got = 1..b /\ DOMAIN got' = 1..(b + n)
      /\ \A k \in 1..b : got'[k] = got[k] /\ got[k] \in Nat
      /\ \A k \in 1..n : got'[b + k] = new[k]
  <2>1. got \in Seq(1..LineBound) /\ got' = got \o new
    BY <1>1 DEF TailTypeInv, TypeOK, Polled
  <2>2. \A k \in 1..b : got[k] \in 1..LineBound
    BY <1>2, <2>1, ElementOfSeq
  <2> QED BY <1>2, <1>3, <2>1, <2>2, ConcatIs, ParameterTypes
<1>7. \A k \in 1..b : 3 * got[k] - 1 <= off
  <2>1. ASSUME NEW k \in 1..b PROVE 3 * got[k] - 1 <= off
    <3>1. got[k] \in Int /\ LineEnd(got[k]) - 1 <= off
      BY <1>6 DEF TailInv, OffsetInv
    <3> QED BY <3>1, Lines
  <2> QED BY <2>1
<1>8. ASSUME NEW j \in DOMAIN got'
      PROVE  \/ j \in 1..b
             \/ j - b \in 1..n /\ got'[j] = new[j - b]
  <2>1. CASE j > b
    <3>1. j - b \in 1..n /\ b + (j - b) = j
      BY <1>6, <2>1
    <3> QED BY <1>6, <3>1
  <2> QED BY <1>6, <2>1
<1>9. \A j \in DOMAIN got' : got'[j] \in Nat /\ 3 * got'[j] - 1 <= to
  <2> SUFFICES ASSUME NEW j \in DOMAIN got' PROVE got'[j] \in Nat /\ 3 * got'[j] - 1 <= to
    OBVIOUS
  <2>1. CASE j \in 1..b
    BY <1>3, <1>4, <1>6, <1>7, <2>1
  <2>2. CASE j - b \in 1..n /\ got'[j] = new[j - b]
    BY <1>5, <2>2
  <2> QED BY <1>8, <2>1, <2>2
<1>10. InFileOrder'
  <2> SUFFICES ASSUME NEW j \in DOMAIN got', NEW k \in DOMAIN got', j < k
               PROVE  got'[j] < got'[k]
    BY DEF InFileOrder
  <2>1. CASE k \in 1..b
    <3>1. j \in 1..b
      BY <1>6, <2>1
    <3>2. got[j] < got[k]
      BY <1>6, <2>1, <3>1 DEF TailInv, InFileOrder
    <3> QED BY <1>6, <2>1, <3>1, <3>2
  <2>2. CASE k - b \in 1..n /\ got'[k] = new[k - b]
    <3>1. CASE j \in 1..b
      <4>1. /\ got'[j] \in Nat /\ 3 * got'[j] - 1 <= off
            /\ new[k - b] \in Nat /\ off <= 3 * new[k - b] - 3
        BY <1>5, <1>6, <1>7, <2>2, <3>1
      <4> QED BY <1>4, <2>2, <4>1
    <3>2. CASE j - b \in 1..n /\ got'[j] = new[j - b]
      <4>1. j - b < k - b
        BY <1>6
      <4> QED BY <1>3, <2>2, <3>2, <4>1
    <3> QED BY <1>8, <3>1, <3>2
  <2> QED BY <1>8, <2>1, <2>2
<1>11. OffsetInv'
  <2>1. \A j \in DOMAIN got' : LineEnd(got'[j]) - 1 <= off'
    BY <1>3, <1>9, Lines
  <2>2. got' # <<>> => off' <= size' /\ stops' # {}
    <3> SUFFICES ASSUME got' # <<>> PROVE to <= size
      BY <1>3
    <3>1. CASE got # <<>>
      BY <1>3, <3>1 DEF TailInv, OffsetInv
    <3>2. CASE got = <<>>
      <4>1. b = 0 /\ n > 0
        <5>1. b = 0
          BY <1>2, <3>2
        <5>2. got' \in Seq(1..LineBound)
          <6>1. TailTypeInv'
            BY TailTypeStep DEF Next
          <6> QED BY <6>1 DEF TailTypeInv, TypeOK
        <5>3. DOMAIN got' # {}
          <6>1. PICK t \in Seq(1..LineBound) : t = got' /\ t # <<>>
            BY <5>2
          <6>2. Len(t) \in Nat /\ Len(t) # 0
            BY <6>1
          <6>3. 1 \in DOMAIN t
            BY <6>2
          <6> QED BY <6>1, <6>3
        <5> QED BY <1>6, <5>1, <5>3
      <4>2. off < to
        BY <1>4, <1>5, <4>1
      <4> QED BY <1>3, <1>4, <4>2
    <3> QED BY <3>1, <3>2
  <2>3. off' <= size' \/ off' <= first'
    BY <1>3, <1>4 DEF TailInv, OffsetInv
  <2>4. started'
    BY <1>3 DEF TailInv, OffsetInv
  <2> QED BY <1>3, <2>1, <2>2, <2>3, <2>4 DEF OffsetInv
<1>12. PassedInv'
  <2> SUFFICES ASSUME NEW i \in DOMAIN lines, lines[i] = "object",
                      first' <= LineStart(i), LineEnd(i) - 1 <= to
               PROVE  Accounted(i)'
    BY <1>3 DEF PassedInv, LineStart, LineEnd, Parts
  <2>0. i \in Nat /\ LineStart(i) = 3 * i - 3 /\ LineEnd(i) = 3 * i
    <3>1. i \in Int /\ i \in Nat
      BY <1>4
    <3> QED BY <3>1, Lines
  <2>1. CASE off <= LineStart(i)
    <3>1. PICK k \in 1..n : new[k] = i
      BY <1>1, <2>1 DEF Polled
    <3>2. got'[b + k] = i /\ b + k \in DOMAIN got'
      BY <1>6, <3>1
    <3> QED BY <3>2 DEF Accounted
  <2>2. CASE LineStart(i) < off
    <3>1. stops # {} /\ first <= LineStart(i)
      BY <1>3, <1>4, <2>0, <2>2
    <3>2. CASE LineEnd(i) - 1 <= off
      <4>1. Accounted(i)
        BY <3>1, <3>2 DEF TailInv, PassedInv
      <4>2. \A k \in DOMAIN got : k \in DOMAIN got' /\ got'[k] = got[k]
        BY <1>2, <1>6
      <4> QED BY <1>3, <4>1, <4>2 DEF Accounted
    <3>3. CASE off < LineEnd(i) - 1
      <4>1. off \in stops
        BY <1>4, <2>0, <2>2, <3>1 DEF TailInv, OffsetInv
      <4> QED BY <1>3, <2>2, <3>3, <4>1 DEF Accounted
    <3> QED BY <1>4, <2>0, <3>2, <3>3
  <2> QED BY <1>4, <2>0, <2>1, <2>2
<1> QED BY <1>10, <1>11, <1>12 DEF TailInv

\* A step that reads nothing: the offset stays, or the tailer is past the end
\* of the file and goes back to its beginning.
LEMMA OffsetKept ==
  ASSUME TailTypeInv, TailInv, UNCHANGED <<got, first, stops>>,
         size' \in Nat, size' >= size,
         \/ off' = off /\ started' = started /\ pc' = pc
         \/ /\ started' = TRUE /\ pc' = "open"
            /\ stops # {} => off' = IF size < off THEN 0 ELSE off,
         DOMAIN lines \subseteq DOMAIN lines',
         \A i \in DOMAIN lines : lines'[i] = lines[i],
         \A i \in DOMAIN lines' \ DOMAIN lines : i \in Nat /\ size <= LineStart(i)
  PROVE  TailInv'
<1>1. /\ off \in Nat /\ size \in Nat /\ first \in Nat
      /\ DOMAIN lines = 1..Len(lines) /\ Len(lines) \in Nat
  BY TailFile
<1>2. stops # {} => off' = off \/ (off' = 0 /\ size < off)
  BY <1>1 DEF TailInv, OffsetInv
<1>3. got # <<>> => off' = off
  BY <1>1, <1>2 DEF TailInv, OffsetInv
<1>4. InFileOrder'
  BY DEF TailInv, InFileOrder
<1>5. OffsetInv'
  <2>1. got' # <<>> => off' <= size' /\ stops' # {}
    BY <1>1, <1>3 DEF TailInv, OffsetInv
  <2>2. \A n \in DOMAIN got' : LineEnd(got'[n]) - 1 <= off'
    <3>1. got = <<>> => DOMAIN got = {}
      OBVIOUS
    <3> QED BY <1>3, <3>1 DEF TailInv, OffsetInv
  <2>3. pc' = "open" \/ stops' # {} => started'
    BY DEF TailInv, OffsetInv
  <2>4. stops' # {} => off' \in stops' \cup {0} /\ (off' <= size' \/ off' <= first')
    BY <1>1, <1>2 DEF TailInv, OffsetInv
  <2> QED BY <2>1, <2>2, <2>3, <2>4 DEF OffsetInv
<1>6. PassedInv'
  <2> SUFFICES ASSUME NEW i \in DOMAIN lines', lines'[i] = "object", stops # {},
                      first <= LineStart(i), LineEnd(i) - 1 <= off'
               PROVE  Accounted(i)
    BY DEF PassedInv, Accounted, LineStart, LineEnd, Parts
  <2>1. /\ i \in Int /\ i \in Nat /\ LineStart(i) = 3 * i - 3 /\ LineEnd(i) = 3 * i
    <3>1. CASE i \in DOMAIN lines
      <4>1. i \in Int /\ i \in Nat
        BY <1>1, <3>1
      <4> QED BY <4>1, Lines
    <3>2. CASE i \notin DOMAIN lines
      <4>1. i \in Int /\ i \in Nat
        BY <3>2
      <4> QED BY <4>1, Lines
    <3> QED BY <3>1, <3>2
  <2>2. CASE i \in DOMAIN lines
    <3>1. i > 0 /\ off' = off
      BY <1>1, <1>2, <2>1, <2>2
    <3> QED BY <2>2, <3>1 DEF TailInv, PassedInv
  <2>3. CASE i \notin DOMAIN lines
    <3>1. size <= 3 * i - 3 /\ first <= 3 * i - 3 /\ 3 * i - 1 <= off'
      BY <2>1, <2>3
    <3>2. off' = off
      BY <1>1, <1>2, <2>1, <3>1
    <3>3. off <= size \/ off <= first
      BY DEF TailInv, OffsetInv
    <3> QED BY <1>1, <2>1, <3>1, <3>2, <3>3
  <2> QED BY <2>2, <2>3
<1> QED BY <1>4, <1>5, <1>6 DEF TailInv

LEMMA TailStep ==
  ASSUME TailTypeInv, TailInv, [Next]_vars
  PROVE  TailInv'
<1> USE DEF file, reader, hist
<1>0. /\ off \in Nat /\ size \in Nat /\ Len(lines) \in Nat
      /\ DOMAIN lines = 1..Len(lines) /\ lines \in Seq(LineKind)
  BY TailFile
<1>1. CASE Create \/ Flush \/ UNCHANGED vars
  <2>1. UNCHANGED <<lines, off, started, pc, got, first, stops>>
    BY <1>1 DEF Create, Flush, vars
  <2>2. size' \in Nat /\ size' >= size
    <3>1. CASE Flush
      <4>1. LineEnd(Len(lines)) \in Nat
        BY <1>0 DEF LineEnd, Parts
      <4> QED BY <1>0, <3>1, <4>1 DEF Flush
    <3> QED BY <1>0, <1>1, <3>1 DEF Create, vars
  <2> QED BY <2>1, <2>2, OffsetKept
<1>2. ASSUME NEW k \in LineKind, WriteLine(k) PROVE TailInv'
  <2>1. /\ lines' = Append(lines, k) /\ size = LineEnd(Len(lines))
        /\ \E n \in 1..3 : size' = size + n
        /\ UNCHANGED <<off, started, pc, got, first, stops>>
    BY <1>2 DEF WriteLine, Parts
  <2>2. /\ DOMAIN lines' = 1..(Len(lines) + 1)
        /\ \A i \in DOMAIN lines : lines'[i] = lines[i]
    BY <1>0, <2>1
  <2>3. size' \in Nat /\ size' >= size
    BY <1>0, <2>1
  <2>4. \A i \in DOMAIN lines' \ DOMAIN lines : i \in Nat /\ size <= LineStart(i)
    <3>1. ASSUME NEW i \in DOMAIN lines' \ DOMAIN lines
          PROVE  i \in Nat /\ size <= LineStart(i)
      <4>1. i = Len(lines) + 1 /\ i \in Int
        BY <1>0, <2>2
      <4>2. LineStart(i) = 3 * i - 3 /\ LineEnd(Len(lines)) = 3 * Len(lines)
        BY <1>0, <4>1, Lines
      <4> QED BY <1>0, <2>1, <4>1, <4>2
    <3> QED BY <3>1
  <2>5. DOMAIN lines \subseteq DOMAIN lines'
    BY <1>0, <2>2
  <2> QED BY <2>1, <2>2, <2>3, <2>4, <2>5, OffsetKept
<1>3. CASE Replace \/ Restart
  <2>1. /\ got' = <<>> /\ stops' = {}
        /\ \/ pc' = pc /\ started' = started
           \/ pc' = "idle"
    BY <1>3 DEF Replace, Restart
  <2>2. DOMAIN got' = {}
    BY <2>1
  <2>3. InFileOrder'
    BY <2>2 DEF InFileOrder
  <2>4. OffsetInv'
    BY <2>1, <2>2 DEF TailInv, OffsetInv
  <2>5. PassedInv'
    BY <2>1 DEF PassedInv
  <2> QED BY <2>3, <2>4, <2>5 DEF TailInv
<1>4. CASE Stat
  <2>1. /\ started' = TRUE /\ pc' = "open"
        /\ started => off' = IF size < off THEN 0 ELSE off
        /\ UNCHANGED <<lines, size, got, first, stops>>
    BY <1>4 DEF Stat, ReadFrom
  <2>2. stops # {} => started
    BY DEF TailInv, OffsetInv
  <2>3. stops # {} => off' = IF size < off THEN 0 ELSE off
    BY <2>1, <2>2
  <2>4. /\ DOMAIN lines \subseteq DOMAIN lines' /\ DOMAIN lines' \ DOMAIN lines = {}
        /\ \A i \in DOMAIN lines : lines'[i] = lines[i]
        /\ size' \in Nat /\ size' >= size
    BY <1>0, <2>1
  <2> QED BY <2>1, <2>3, <2>4, OffsetKept
<1>5. CASE Read
  BY <1>5, ReadKeeps
<1> QED BY <1>1, <1>2, <1>3, <1>4, <1>5 DEF Next, Writer

LEMMA TailAlways == Spec => [](TailTypeInv /\ TailInv)
<1>1. Init => TailInv
  <2> SUFFICES ASSUME Init PROVE TailInv
    OBVIOUS
  <2>1. DOMAIN got = {} /\ got = <<>> /\ stops = {} /\ pc = "idle"
    BY DEF Init
  <2> QED BY <2>1 DEF TailInv, OffsetInv, PassedInv, InFileOrder
<1>2. TailTypeInv /\ TailInv /\ [Next]_vars => TailInv'
  BY TailStep
<1> QED BY <1>1, <1>2, TailTypeAlways, PTL DEF Spec

\* However the file is torn, emptied or replaced between two polls or between
\* stat() and reading, and wherever max_lines cuts them: one incarnation returns
\* the lines of one file in file order.
THEOREM TailerInFileOrder == Spec => []InFileOrder
<1>1. TailInv => InFileOrder
  BY DEF TailInv
<1> QED BY <1>1, TailAlways, PTL

\* And the only objects it passes over are those a read of it ended inside.
THEOREM TailerLosesOnlyTorn == Spec => []OnlyTornLinesLost
<1>1. TailTypeInv /\ TailInv => OnlyTornLinesLost
  BY TailImplies
<1> QED BY <1>1, TailAlways, PTL
=============================================================================
