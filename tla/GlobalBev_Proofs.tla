-------------------------- MODULE GlobalBev_Proofs --------------------------
(***************************************************************************)
(* Proofs about the preview rings and the bird's-eye view, for any number  *)
(* of cameras and slots, any ticks, and workers that die at any step.      *)
(***************************************************************************)
EXTENDS GlobalBev, FiniteSetTheorems, SequenceTheorems, WellFoundedInduction, TLAPS

LEMMA Parameters ==
  /\ Slots \in Nat /\ Slots >= 2 /\ \A c \in Camera : Ticks[c] \subseteq Nat \ {0}
BY RingAssumption

LEMMA ActiveAndFree ==
  ASSUME NEW a \in Slot
  PROVE  /\ (a + 1) % Slots \in Slot /\ (a + 1) % Slots # a
         /\ 0 \in Slot
<1> USE Parameters DEF Slot
<1>1. CASE a + 1 = Slots
  <2>1. (a + 1) % Slots = 0
    BY <1>1
  <2> QED BY <1>1, <2>1
<1>2. CASE a + 1 # Slots
  <2>1. (a + 1) % Slots = a + 1
    BY <1>2
  <2> QED BY <1>2, <2>1
<1> QED BY <1>1, <1>2

-----------------------------------------------------------------------------
(* Greatest and least elements.                                            *)

LEMMA ImageFinite ==
  ASSUME NEW S, IsFiniteSet(S), NEW f, DOMAIN f = S
  PROVE  IsFiniteSet({f[x] : x \in S})
<1> DEFINE T == {f[x] : x \in S}
           g == [x \in S |-> f[x]]
<1>1. g \in [S -> T] /\ \A t \in T : \E x \in S : g[x] = t
  OBVIOUS
<1>2. g \in Surjection(S, T)
  <2> HIDE DEF T, g
  <2> QED BY <1>1 DEF Surjection
<1> HIDE DEF g
<1> QED BY <1>2, FS_Surjection

LEMMA Greatest ==
  ASSUME NEW S \in SUBSET Int, IsFiniteSet(S), S # {}
  PROVE  \E x \in S : \A y \in S : x >= y
<1> DEFINE From(x) == {t \in S : x <= t}
           T == {From(x) : x \in S}
           R == StrictSubsetOrdering(S)
<1>1. IsWellFoundedOn(R, SUBSET S)
  BY FS_StrictSubsetOrderingWellFounded, FS_FiniteSubsetsOfFinite
<1>2. T \subseteq SUBSET S /\ T # {}
  OBVIOUS
<1>3. PICK U \in T : \A V \in T : ~(<<V, U>> \in R)
  <2> HIDE DEF T, R
  <2> QED BY <1>1, <1>2, WFMin
<1>4. PICK m \in S : U = From(m)
  OBVIOUS
<1>5. ASSUME NEW n \in S PROVE n <= m
  <2> SUFFICES ASSUME ~(n <= m) PROVE FALSE
    OBVIOUS
  <2>1. From(n) \in T /\ From(n) \subseteq S /\ From(m) \subseteq S
    OBVIOUS
  <2>2. m \in Int /\ n \in Int /\ m < n
    OBVIOUS
  <2>3. m \in From(m) /\ m \notin From(n)
    BY <2>2
  <2>4. \A t \in S : n <= t => m <= t
    <3>1. ASSUME NEW t \in S, n <= t PROVE m <= t
      <4>1. t \in Int
        OBVIOUS
      <4> QED BY <2>2, <3>1, <4>1
    <3> QED BY <3>1
  <2>5. From(n) \subseteq From(m)
    BY <2>4
  <2> HIDE DEF From
  <2>6. <<From(n), From(m)>> \in R
    BY <2>1, <2>3, <2>5 DEF StrictSubsetOrdering
  <2> HIDE DEF R, T
  <2> QED BY <1>3, <1>4, <2>1, <2>6
<1>6. ASSUME NEW y \in S PROVE m >= y
  <2>1. y \in Int /\ m \in Int /\ y <= m
    BY <1>5
  <2> QED BY <2>1
<1> QED BY <1>6

\* The maximum of a finite set of integers is one of them.
LEMMA MaxIn ==
  ASSUME NEW S \in SUBSET Int, IsFiniteSet(S), S # {}
  PROVE  Max(S) \in S /\ \A y \in S : Max(S) >= y
BY Greatest DEF Max

\* And so is the minimum.
LEMMA MinIn ==
  ASSUME NEW S \in SUBSET Int, IsFiniteSet(S), S # {}
  PROVE  Min(S) \in S /\ \A y \in S : Min(S) =< y
<1> DEFINE N == {0 - x : x \in S}
<1>1. N \in SUBSET Int /\ N # {}
  <2>1. \A x \in S : 0 - x \in Int
    OBVIOUS
  <2> QED BY <2>1
<1>2. IsFiniteSet(N)
  <2> DEFINE f == [x \in S |-> 0 - x]
  <2>1. IsFiniteSet({f[x] : x \in S})
    BY ImageFinite
  <2>2. N = {f[x] : x \in S}
    OBVIOUS
  <2> QED BY <2>1, <2>2
<1>3. \E m \in N : \A n \in N : m >= n
  <2> HIDE DEF N
  <2> QED BY <1>1, <1>2, Greatest
<1>4. PICK m \in N : \A n \in N : m >= n
  BY <1>3
<1>5. PICK x \in S : m = 0 - x
  OBVIOUS
<1>6. ASSUME NEW y \in S PROVE x =< y
  <2>1. 0 - x >= 0 - y
    BY <1>4, <1>5
  <2>2. x \in Int /\ y \in Int
    OBVIOUS
  <2> QED BY <2>1, <2>2
<1> QED BY <1>6 DEF Min

-----------------------------------------------------------------------------
(* A ring on its own.                                                      *)

\* The tick whose pixels a slot holds; 0 stands for the zeros of a new file.
Seen(r, s) == IF r.tick[s] = Never THEN 0 ELSE r.tick[s]

NextSlot(r) == (r.active + 1) % Slots

\* How many writes ago a slot was written, and the slots in this order: the later
\* a slot was written the later its tick, and slots never written come last.
Age(r, s) == IF s <= r.active THEN r.active - s ELSE r.active - s + Slots

Ordered(r) ==
  \A s, t \in Slot :
    Age(r, s) < Age(r, t) /\ r.tick[t] # Never => r.tick[s] # Never /\ r.tick[t] < r.tick[s]

\* Between writes every slot holds one frame, that of its metadata; during one
\* every slot but the next does.
Whole(r) ==
  /\ \A s \in Slot :
       r.seq % 2 = 0 \/ s # NextSlot(r) => r.first[s] = Seen(r, s) /\ r.rest[s] = Seen(r, s)
  /\ Ordered(r)

\* What the ring of a worker at step p with frame f looks like.
Fits(r, p, f) ==
  /\ r.seq % 2 = (IF p \in {"first", "rest", "publish"} THEN 1 ELSE 0)
  /\ \A s \in Slot : Seen(r, s) <= f /\ (p # "idle" => Seen(r, s) < f)
  /\ p \in {"rest", "publish"} => r.first[NextSlot(r)] = f
  /\ p = "publish" => r.rest[NextSlot(r)] = f
  /\ p = "geometry" => r.geometry < DataBytes

\* Of two snapshots of a ring the later one: what is new in it is newer than all
\* there was, and what is no longer in it was older than all there is.
Follows(a, b) ==
  /\ \A s \in Valid(b) : a[s] = b[s] \/ \A t \in Valid(a) : a[t] < b[s]
  /\ \A s \in Valid(a) : a[s] = b[s] \/ \A t \in Valid(b) : a[s] < b[t]

\* What a reader that holds on to a ring may count on from one step to the next.
Grown(old, new) ==
  /\ Follows(Snapshot(old), Snapshot(new))
  /\ old.seq <= new.seq
  /\ \A s \in Slot : Seen(old, s) <= Seen(new, s)
  /\ old.seq % 2 = 0 /\ new.seq = old.seq => new.first = old.first

Sound(r, p, f) == r \in Ring /\ Whole(r) /\ Fits(r, p, f)

LEMMA SeenNat ==
  ASSUME NEW r \in Ring, NEW s \in Slot
  PROVE  Seen(r, s) \in Nat
BY DEF Seen, Ring, Never

LEMMA NextInSlot ==
  ASSUME NEW r \in Ring
  PROVE  NextSlot(r) \in Slot /\ NextSlot(r) # r.active /\ r.active \in Slot
<1>1. r.active \in Slot
  BY DEF Ring
<1> QED BY <1>1, ActiveAndFree DEF NextSlot

\* Steps that leave metadata and active slot alone are not seen in a snapshot.
LEMMA SameSnapshot ==
  ASSUME NEW r, NEW q, q.tick = r.tick, q.active = r.active
  PROVE  Follows(Snapshot(r), Snapshot(q)) /\ (Ordered(r) => Ordered(q))
BY DEF Follows, Snapshot, Ordered, Age

\* A publication: the slot that is written is the one written longest ago.
LEMMA PublishedAge ==
  ASSUME NEW r \in Ring, NEW q \in Ring, q.active = NextSlot(r)
  PROVE  /\ \A s \in Slot : Age(r, s) \in 0 .. Slots - 1
         /\ \A s \in Slot : s # NextSlot(r) => Age(q, s) = Age(r, s) + 1 /\ Age(r, s) < Slots - 1
         /\ \A s \in Slot : s # r.active => Age(r, s) > 0
         /\ Age(r, NextSlot(r)) = Slots - 1 /\ Age(q, NextSlot(r)) = 0 /\ Age(r, r.active) = 0
<1>1. r.active \in Slot /\ Slots \in Nat /\ Slots >= 2
  BY Parameters DEF Ring
<1>2. NextSlot(r) = IF r.active + 1 = Slots THEN 0 ELSE r.active + 1
  <2>1. CASE r.active + 1 = Slots
    <3>1. (r.active + 1) % Slots = 0
      BY <1>1, <2>1
    <3> QED BY <2>1, <3>1 DEF NextSlot
  <2>2. CASE r.active + 1 # Slots
    <3>1. (r.active + 1) % Slots = r.active + 1
      BY <1>1, <2>2 DEF Slot
    <3> QED BY <2>2, <3>1 DEF NextSlot
  <2> QED BY <2>1, <2>2
<1>3. \A s \in Slot : Age(r, s) \in 0 .. Slots - 1
  BY <1>1 DEF Age, Slot
<1>4. \A s \in Slot : s # NextSlot(r) => Age(q, s) = Age(r, s) + 1 /\ Age(r, s) < Slots - 1
  BY <1>1, <1>2 DEF Age, Slot
<1>6. \A s \in Slot : s # r.active => Age(r, s) > 0
  BY <1>1 DEF Age, Slot
<1>5. Age(r, NextSlot(r)) = Slots - 1 /\ Age(q, NextSlot(r)) = 0 /\ Age(r, r.active) = 0
  BY <1>1, <1>2 DEF Age, Slot
<1> QED BY <1>3, <1>4, <1>5, <1>6

LEMMA PublishOrdered ==
  ASSUME NEW r \in Ring, Ordered(r), NEW q \in Ring, NEW f \in Nat,
         q.active = NextSlot(r), q.tick = [r.tick EXCEPT ![NextSlot(r)] = f],
         \A s \in Slot : Seen(r, s) < f
  PROVE  Ordered(q) /\ Follows(Snapshot(r), Snapshot(q))
<1> DEFINE n == NextSlot(r)
<1>1. /\ r.active \in Slot /\ n \in Slot /\ n # r.active /\ Slots \in Nat
      /\ r.tick \in [Slot -> Nat \cup {Never}]
  BY NextInSlot, Parameters DEF Ring
<1>2. /\ \A s \in Slot : Age(r, s) \in 0 .. Slots - 1
      /\ \A s \in Slot : s # n => Age(q, s) = Age(r, s) + 1 /\ Age(r, s) < Slots - 1
      /\ \A s \in Slot : s # r.active => Age(r, s) > 0
      /\ Age(r, n) = Slots - 1 /\ Age(q, n) = 0 /\ Age(r, r.active) = 0
  BY PublishedAge
<1>3. /\ q.tick[n] = f /\ f # Never /\ q.active = n
      /\ \A s \in Slot : s # n => q.tick[s] = r.tick[s]
  BY <1>1 DEF Never
<1>4. \A s \in Slot : r.tick[s] # Never => r.tick[s] \in Nat /\ r.tick[s] < f
  BY <1>1 DEF Seen
<1> HIDE DEF n
<1>5. 0 < f
  <2>1. Seen(r, n) \in Nat /\ Seen(r, n) < f
    BY <1>1, SeenNat
  <2> QED BY <2>1
<1>6. ASSUME NEW s \in Slot, NEW t \in Slot, Age(q, s) < Age(q, t), q.tick[t] # Never
      PROVE  q.tick[s] # Never /\ q.tick[t] < q.tick[s]
  <2>1. t # n
    <3>1. Age(q, s) >= 0
      BY <1>1, <1>2
    <3> QED BY <1>2, <1>6, <3>1
  <2>2. CASE s = n
    BY <1>3, <1>4, <1>6, <2>1, <2>2
  <2>3. CASE s # n
    <3>1. Age(r, s) < Age(r, t)
      BY <1>2, <1>6, <2>1, <2>3
    <3> QED BY <1>3, <1>6, <2>1, <2>3, <3>1 DEF Ordered
  <2> QED BY <2>2, <2>3
<1>7. Ordered(q)
  BY <1>6 DEF Ordered
<1> DEFINE a == Snapshot(r)
           b == Snapshot(q)
<1>8. /\ \A s \in Slot : r.tick[s] # Never => a[s] = r.tick[s]
      /\ \A s \in Slot : r.tick[s] = Never => a[s] = IF s = r.active THEN 0 ELSE Never
      /\ \A s \in Slot : b[s] = q.tick[s]
  <2>1. \A s \in Slot : q.tick[s] = Never => s # q.active
    BY <1>3
  <2> QED BY <2>1 DEF Snapshot
<1> HIDE DEF a, b
<1>9. \A t \in Valid(a) : t \in Slot /\ a[t] # Never /\ a[t] \in Nat /\ a[t] < f
  BY <1>4, <1>5, <1>8 DEF Valid
<1>10. \A t \in Valid(b) : t \in Slot /\ q.tick[t] # Never /\ b[t] = q.tick[t]
  BY <1>8 DEF Valid
<1>11. ASSUME NEW s \in Valid(b) PROVE a[s] = b[s] \/ \A t \in Valid(a) : a[t] < b[s]
  <2>1. CASE s = n
    BY <1>3, <1>9, <1>10, <2>1
  <2>2. CASE s # n
    BY <1>3, <1>8, <1>10, <2>2
  <2> QED BY <2>1, <2>2
<1>12. ASSUME NEW s \in Valid(a) PROVE a[s] = b[s] \/ \A t \in Valid(b) : a[s] < b[t]
  <2>1. CASE r.tick[s] # Never /\ s # n
    BY <1>3, <1>8, <1>9, <2>1
  <2>2. CASE r.tick[s] # Never /\ s = n
    <3>1. ASSUME NEW t \in Valid(b) PROVE a[s] < b[t]
      <4>1. CASE t = n
        BY <1>3, <1>9, <1>10, <4>1
      <4>2. CASE t # n
        <5>1. Age(r, t) < Age(r, n)
          BY <1>2, <1>10, <4>2
        <5> QED BY <1>1, <1>8, <1>9, <1>10, <2>2, <5>1 DEF Ordered
      <4> QED BY <4>1, <4>2
    <3> QED BY <3>1
  <2>3. CASE r.tick[s] = Never
    <3>1. s = r.active /\ a[s] = 0
      BY <1>8, <1>9, <2>3
    <3>2. ASSUME NEW t \in Slot, t # s PROVE r.tick[t] = Never
      <4>1. Age(r, s) < Age(r, t)
        BY <1>2, <3>1, <3>2
      <4> QED BY <1>1, <2>3, <3>1, <4>1 DEF Ordered
    <3>3. \A t \in Valid(b) : t = n
      BY <1>3, <1>10, <2>3, <3>2
    <3> QED BY <1>3, <1>5, <1>10, <3>1, <3>3
  <2> QED BY <2>1, <2>2, <2>3
<1>13. Follows(a, b)
  BY <1>11, <1>12 DEF Follows
<1> QED BY <1>7, <1>13 DEF a, b

LEMMA NewRingSound ==
  ASSUME NEW f \in Nat, f > 0
  PROVE  Sound(NewRing, "geometry", f)
<1>1. NewRing \in Ring
  BY Parameters, ActiveAndFree DEF NewRing, Ring, Slot, Never
<1>2. \A s \in Slot : Seen(NewRing, s) = 0 /\ NewRing.first[s] = 0 /\ NewRing.rest[s] = 0
  BY DEF NewRing, Seen
<1>3. NewRing.seq % 2 = 0
  BY DEF NewRing
<1>4. Ordered(NewRing)
  BY DEF NewRing, Ordered
<1>5. NewRing.geometry < DataBytes
  BY DEF NewRing, DataBytes
<1> QED BY <1>1, <1>2, <1>3, <1>4, <1>5 DEF Sound, Whole, Fits

LEMMA GeometrySound ==
  ASSUME NEW r, NEW f \in Nat, Sound(r, "geometry", f), NEW n \in Field,
         NEW p, p = IF n = DataBytes THEN "begin" ELSE "geometry"
  PROVE  LET new == [r EXCEPT !.geometry = n]
         IN  Sound(new, p, f) /\ Grown(r, new)
<1> DEFINE new == [r EXCEPT !.geometry = n]
<1>1. r \in Ring
  BY DEF Sound
<1>2. new \in Ring
  BY <1>1 DEF Ring, Field
<1>9. new.geometry = n /\ (p = "geometry" => n < DataBytes)
  BY <1>1 DEF Ring, Field, DataBytes
<1>3. /\ new.seq = r.seq /\ new.active = r.active /\ new.tick = r.tick
      /\ new.first = r.first /\ new.rest = r.rest
  BY <1>1 DEF Ring
<1>4. r.seq \in Nat
  BY <1>1 DEF Ring
<1> HIDE DEF new
<1>5. \A s \in Slot : Seen(new, s) = Seen(r, s) /\ Seen(r, s) \in Nat
  BY <1>1, <1>3, SeenNat DEF Seen
<1>6. NextSlot(new) = NextSlot(r)
  BY <1>3 DEF NextSlot
<1>0. Follows(Snapshot(r), Snapshot(new)) /\ Ordered(new)
  BY <1>3, SameSnapshot DEF Sound, Whole
<1>7. Sound(new, p, f)
  BY <1>0, <1>2, <1>3, <1>5, <1>6, <1>9 DEF Sound, Whole, Fits
<1>8. Grown(r, new)
  BY <1>0, <1>3, <1>4, <1>5 DEF Grown
<1> QED BY <1>7, <1>8 DEF new

\* "begin" is a worker with its first frame, "idle" one that has got a newer one.
LEMMA BeginSound ==
  ASSUME NEW r, NEW f \in Nat, NEW g \in Nat,
         \/ Sound(r, "begin", f) /\ g = f
         \/ Sound(r, "idle", f) /\ g > f
  PROVE  LET new == [r EXCEPT !.seq = IF @ % 2 = 0 THEN @ + 1 ELSE @]
         IN  Sound(new, "first", g) /\ Grown(r, new)
<1> DEFINE new == [r EXCEPT !.seq = IF @ % 2 = 0 THEN @ + 1 ELSE @]
<1>1. r \in Ring /\ Whole(r) /\ r.seq % 2 = 0 /\ r.seq \in Nat
  BY DEF Sound, Fits, Ring
<1>2. \A s \in Slot : Seen(r, s) < g
  <2>1. \A s \in Slot : Seen(r, s) \in Nat
    BY <1>1, SeenNat
  <2> QED BY <2>1 DEF Sound, Fits
<1>3. /\ new.seq = r.seq + 1 /\ new.active = r.active /\ new.tick = r.tick
      /\ new.first = r.first /\ new.rest = r.rest
  BY <1>1 DEF Ring
<1>4. new \in Ring
  BY <1>1 DEF Ring
<1> HIDE DEF new
<1>5. \A s \in Slot : Seen(new, s) = Seen(r, s) /\ Seen(r, s) \in Nat
  BY <1>1, <1>3, SeenNat DEF Seen
<1>6. new.seq % 2 = 1
  BY <1>1, <1>3
<1>0. Follows(Snapshot(r), Snapshot(new)) /\ Ordered(new)
  BY <1>1, <1>3, SameSnapshot DEF Whole
<1>7. Whole(new)
  BY <1>0, <1>1, <1>3, <1>5 DEF Whole
<1>8. Fits(new, "first", g)
  BY <1>2, <1>5, <1>6 DEF Fits
<1>9. Grown(r, new)
  BY <1>0, <1>1, <1>3, <1>5 DEF Grown
<1> QED BY <1>4, <1>7, <1>8, <1>9 DEF new, Sound

LEMMA FirstSound ==
  ASSUME NEW r, NEW f \in Nat, Sound(r, "first", f)
  PROVE  LET new == [r EXCEPT !.first[NextSlot(r)] = f]
         IN  Sound(new, "rest", f) /\ Grown(r, new)
<1> DEFINE new == [r EXCEPT !.first[NextSlot(r)] = f]
<1>1. r \in Ring /\ Whole(r) /\ Fits(r, "first", f) /\ r.seq \in Nat
  BY DEF Sound, Ring
<1>2. r.first \in [Slot -> Nat] /\ NextSlot(r) \in Slot
  BY <1>1, NextInSlot DEF Ring
<1>3. /\ new.seq = r.seq /\ new.active = r.active /\ new.tick = r.tick /\ new.rest = r.rest
      /\ new.first = [r.first EXCEPT ![NextSlot(r)] = f]
  BY <1>1 DEF Ring
<1>4. new \in Ring
  BY <1>1, <1>2 DEF Ring
<1> HIDE DEF new
<1>5. \A s \in Slot : Seen(new, s) = Seen(r, s) /\ Seen(r, s) \in Nat
  BY <1>1, <1>3, SeenNat DEF Seen
<1>6. NextSlot(new) = NextSlot(r)
  BY <1>3 DEF NextSlot
<1>7. r.seq % 2 = 1
  BY <1>1 DEF Fits
<1>0. Follows(Snapshot(r), Snapshot(new)) /\ Ordered(new)
  BY <1>1, <1>3, SameSnapshot DEF Whole
<1>8. Whole(new)
  BY <1>0, <1>1, <1>2, <1>3, <1>5, <1>6, <1>7 DEF Whole
<1>9. Fits(new, "rest", f)
  BY <1>1, <1>2, <1>3, <1>5, <1>6, <1>7 DEF Fits
<1>10. Grown(r, new)
  BY <1>0, <1>1, <1>3, <1>5, <1>7 DEF Grown
<1> QED BY <1>4, <1>8, <1>9, <1>10 DEF new, Sound

LEMMA RestSound ==
  ASSUME NEW r, NEW f \in Nat, Sound(r, "rest", f)
  PROVE  LET new == [r EXCEPT !.rest[NextSlot(r)] = f]
         IN  Sound(new, "publish", f) /\ Grown(r, new)
<1> DEFINE new == [r EXCEPT !.rest[NextSlot(r)] = f]
<1>1. r \in Ring /\ Whole(r) /\ Fits(r, "rest", f) /\ r.seq \in Nat
  BY DEF Sound, Ring
<1>2. r.rest \in [Slot -> Nat] /\ NextSlot(r) \in Slot
  BY <1>1, NextInSlot DEF Ring
<1>3. /\ new.seq = r.seq /\ new.active = r.active /\ new.tick = r.tick /\ new.first = r.first
      /\ new.rest = [r.rest EXCEPT ![NextSlot(r)] = f]
  BY <1>1 DEF Ring
<1>4. new \in Ring
  BY <1>1, <1>2 DEF Ring
<1> HIDE DEF new
<1>5. \A s \in Slot : Seen(new, s) = Seen(r, s) /\ Seen(r, s) \in Nat
  BY <1>1, <1>3, SeenNat DEF Seen
<1>6. NextSlot(new) = NextSlot(r)
  BY <1>3 DEF NextSlot
<1>7. r.seq % 2 = 1
  BY <1>1 DEF Fits
<1>0. Follows(Snapshot(r), Snapshot(new)) /\ Ordered(new)
  BY <1>1, <1>3, SameSnapshot DEF Whole
<1>8. Whole(new)
  BY <1>0, <1>1, <1>2, <1>3, <1>5, <1>6, <1>7 DEF Whole
<1>9. Fits(new, "publish", f)
  BY <1>1, <1>2, <1>3, <1>5, <1>6, <1>7 DEF Fits
<1>10. Grown(r, new)
  BY <1>0, <1>1, <1>3, <1>5, <1>7 DEF Grown
<1> QED BY <1>4, <1>8, <1>9, <1>10 DEF new, Sound

LEMMA PublishSound ==
  ASSUME NEW r, NEW f \in Nat, Sound(r, "publish", f)
  PROVE  LET new == [r EXCEPT !.tick[NextSlot(r)] = f, !.active = NextSlot(r), !.seq = @ + 1]
         IN  Sound(new, "idle", f) /\ Grown(r, new)
<1> DEFINE new == [r EXCEPT !.tick[NextSlot(r)] = f, !.active = NextSlot(r), !.seq = @ + 1]
<1>1. r \in Ring /\ Whole(r) /\ Fits(r, "publish", f) /\ r.seq \in Nat
  BY DEF Sound, Ring
<1>2. r.tick \in [Slot -> Nat \cup {Never}] /\ NextSlot(r) \in Slot
  BY <1>1, NextInSlot DEF Ring
<1>3. /\ new.seq = r.seq + 1 /\ new.first = r.first /\ new.rest = r.rest
      /\ new.active = NextSlot(r) /\ new.tick = [r.tick EXCEPT ![NextSlot(r)] = f]
  BY <1>1 DEF Ring
<1>4. new \in Ring
  <2>1. [r.tick EXCEPT ![NextSlot(r)] = f] \in [Slot -> Nat \cup {Never}]
    BY <1>2
  <2>2. r.seq + 1 \in Nat
    BY <1>1
  <2>3. [[r EXCEPT !.tick = [r.tick EXCEPT ![NextSlot(r)] = f]] EXCEPT !.active = NextSlot(r)] \in Ring
    BY <1>1, <1>2, <2>1 DEF Ring
  <2> QED BY <1>1, <1>2, <2>1, <2>2, <2>3 DEF Ring
<1> HIDE DEF new
<1>5. r.seq % 2 = 1 /\ new.seq % 2 = 0
  BY <1>1, <1>3 DEF Fits
<1>6. \A s \in Slot : Seen(new, s) = IF s = NextSlot(r) THEN f ELSE Seen(r, s)
  BY <1>2, <1>3 DEF Seen, Never
<1>7. \A s \in Slot : Seen(r, s) \in Nat /\ Seen(r, s) < f
  BY <1>1, SeenNat DEF Fits
<1>0. Ordered(new) /\ Follows(Snapshot(r), Snapshot(new))
  BY <1>1, <1>3, <1>4, <1>7, PublishOrdered DEF Whole
<1>8. Whole(new)
  <2> SUFFICES ASSUME NEW s \in Slot PROVE new.first[s] = Seen(new, s) /\ new.rest[s] = Seen(new, s)
    BY <1>0 DEF Whole
  <2>1. CASE s = NextSlot(r)
    BY <1>1, <1>3, <1>6, <2>1 DEF Fits
  <2>2. CASE s # NextSlot(r)
    BY <1>1, <1>3, <1>6, <2>2 DEF Whole
  <2> QED BY <2>1, <2>2
<1>9. Fits(new, "idle", f)
  BY <1>5, <1>6, <1>7 DEF Fits
<1>10. Grown(r, new)
  BY <1>0, <1>1, <1>3, <1>5, <1>6, <1>7 DEF Grown
<1> QED BY <1>4, <1>8, <1>9, <1>10 DEF new, Sound

-----------------------------------------------------------------------------
(* The files of the workers.                                               *)

RingInv ==
  /\ RingTypeOK
  /\ \A c \in Camera : \A k \in 1 .. Len(files[c]) : Whole(files[c][k])
  /\ \A c \in Camera :
       step[c] # "dead" => Len(files[c]) > 0 /\ Fits(Current(c), step[c], frame[c])

\* Files are only added, and each grows.
FilesGrow ==
  \A c \in Camera :
    /\ Len(files'[c]) >= Len(files[c])
    /\ \A k \in 1 .. Len(files[c]) : Grown(files[c][k], files'[c][k])

LEMMA FilesAreSeqs ==
  ASSUME RingInv
  PROVE  \A c \in Camera : files[c] \in Seq(Ring) /\ Len(files[c]) \in Nat
<1>1. \A c \in Camera : files[c] \in Seq(Ring)
  BY DEF RingInv, RingTypeOK
<1> QED BY <1>1, LenProperties

LEMMA GrownSame ==
  ASSUME NEW r \in Ring
  PROVE  Grown(r, r)
<1>1. r.seq \in Nat /\ \A s \in Slot : Seen(r, s) \in Nat
  BY SeenNat DEF Ring
<1>2. Follows(Snapshot(r), Snapshot(r))
  BY SameSnapshot
<1> QED BY <1>1, <1>2 DEF Grown

LEMMA CurrentRing ==
  ASSUME RingInv, NEW c \in Camera, step[c] # "dead"
  PROVE  /\ Len(files[c]) \in Nat /\ Len(files[c]) > 0 /\ files[c] \in Seq(Ring)
         /\ Sound(Current(c), step[c], frame[c]) /\ frame[c] \in Nat
         /\ NextSlot(Current(c)) = Free(c)
<1>1. files[c] \in Seq(Ring) /\ frame[c] \in Nat
  BY DEF RingInv, RingTypeOK
<1>2. Len(files[c]) \in Nat /\ Len(files[c]) > 0 /\ Fits(Current(c), step[c], frame[c])
  BY <1>1 DEF RingInv
<1>3. Len(files[c]) \in 1 .. Len(files[c])
  BY <1>2
<1>4. Current(c) \in Ring
  BY <1>1, <1>3, ElementOfSeq DEF Current
<1>5. Whole(Current(c))
  BY <1>3 DEF RingInv, Current
<1> QED BY <1>1, <1>2, <1>4, <1>5 DEF Sound, Free, NextSlot

\* A worker that turns its ring into a sound one leaves everything sound.
LEMMA StoreKeeps ==
  ASSUME RingInv, NEW c \in Camera, step[c] # "dead", NEW r, NEW p \in Steps \ {"dead"}, NEW f \in Nat,
         Store(c, r, p), frame' = [frame EXCEPT ![c] = f], Sound(r, p, f), Grown(Current(c), r)
  PROVE  RingInv' /\ FilesGrow
<1> DEFINE n == Len(files[c])
<1>1. n \in Nat /\ n > 0 /\ files[c] \in Seq(Ring) /\ r \in Ring /\ n \in 1 .. n
  BY CurrentRing DEF Sound
<1>2. /\ files \in [Camera -> Seq(Ring)] /\ step \in [Camera -> Steps] /\ frame \in [Camera -> Nat]
  BY DEF RingInv, RingTypeOK
<1>3. /\ files' = [files EXCEPT ![c] = [files[c] EXCEPT ![n] = r]]
      /\ step' = [step EXCEPT ![c] = p]
  BY DEF Store
<1>4. /\ [files[c] EXCEPT ![n] = r] \in Seq(Ring)
      /\ Len([files[c] EXCEPT ![n] = r]) = n
      /\ \A j \in 1 .. n : [files[c] EXCEPT ![n] = r][j] = IF j = n THEN r ELSE files[c][j]
  BY <1>1, ExceptSeq
<1>5. RingTypeOK'
  BY <1>2, <1>3, <1>4 DEF RingTypeOK
<1>6. /\ Len(files'[c]) = n
      /\ \A j \in 1 .. n : files'[c][j] = IF j = n THEN r ELSE files[c][j]
  BY <1>2, <1>3, <1>4
<1>7. \A d \in Camera \ {c} : files'[d] = files[d] /\ step'[d] = step[d] /\ frame'[d] = frame[d]
  BY <1>2, <1>3
<1>8. step'[c] = p /\ frame'[c] = f
  BY <1>2, <1>3
<1>9. ASSUME NEW d \in Camera, NEW k \in 1 .. Len(files'[d]) PROVE Whole(files'[d][k])
  BY <1>6, <1>7, <1>9 DEF RingInv, Sound
<1>10. ASSUME NEW d \in Camera, step'[d] # "dead"
       PROVE  Len(files'[d]) > 0 /\ Fits(Current(d)', step'[d], frame'[d])
  <2>1. CASE d = c
    <3>1. Current(d)' = r
      BY <1>1, <1>6, <2>1 DEF Current
    <3> QED BY <1>1, <1>6, <1>8, <2>1, <3>1 DEF Sound
  <2>2. CASE d # c
    <3>1. Current(d)' = Current(d)
      BY <1>7, <2>2 DEF Current
    <3> QED BY <1>7, <1>10, <2>2, <3>1 DEF RingInv
  <2> QED BY <2>1, <2>2
<1>11. ASSUME NEW d \in Camera
       PROVE  /\ Len(files'[d]) >= Len(files[d])
              /\ \A k \in 1 .. Len(files[d]) : Grown(files[d][k], files'[d][k])
  <2>1. files[d] \in Seq(Ring) /\ Len(files[d]) \in Nat
    BY <1>2
  <2>2. \A k \in 1 .. Len(files[d]) : Grown(files[d][k], files[d][k])
    BY <2>1, ElementOfSeq, GrownSame
  <2>3. CASE d = c
    BY <1>1, <1>6, <2>2, <2>3 DEF Current
  <2>4. CASE d # c
    BY <1>7, <2>1, <2>2, <2>4
  <2> QED BY <2>3, <2>4
<1> QED BY <1>5, <1>9, <1>10, <1>11 DEF RingInv, FilesGrow

LEMMA RingStays ==
  ASSUME RingInv, UNCHANGED ring
  PROVE  RingInv' /\ FilesGrow
<1>1. files' = files /\ step' = step /\ frame' = frame
  BY DEF ring
<1>2. RingInv'
  BY <1>1 DEF RingInv, RingTypeOK, Current
<1>3. \A c \in Camera : files[c] \in Seq(Ring) /\ Len(files[c]) \in Nat
  BY FilesAreSeqs
<1>4. \A c \in Camera : \A k \in 1 .. Len(files[c]) : Grown(files[c][k], files[c][k])
  BY <1>3, ElementOfSeq, GrownSame
<1> QED BY <1>1, <1>2, <1>3, <1>4 DEF FilesGrow

\* A step of a worker keeps the rings in order.
LEMMA WorkerKeeps ==
  ASSUME RingInv, NEW c \in Camera, Worker(c)
  PROVE  RingInv' /\ FilesGrow
<1>0. /\ files \in [Camera -> Seq(Ring)] /\ step \in [Camera -> Steps] /\ frame \in [Camera -> Nat]
      /\ \A d \in Camera : frame = [frame EXCEPT ![d] = frame[d]]
  BY DEF RingInv, RingTypeOK
<1>9. ASSUME NewFrame(c)
      PROVE  \E f \in Nat : f > frame[c] /\ f > 0 /\ frame' = [frame EXCEPT ![c] = f]
  <2>1. PICK t \in Ticks[c] : t > frame[c] /\ frame' = [frame EXCEPT ![c] = t]
    BY <1>9 DEF NewFrame
  <2>2. t \in Nat /\ t > 0
    BY Parameters
  <2> QED BY <2>1, <2>2
<1>1. CASE Create(c)
  <2>1. PICK f \in Nat : f > 0 /\ frame' = [frame EXCEPT ![c] = f]
    BY <1>1, <1>9 DEF Create
  <2>2. Sound(NewRing, "geometry", f)
    BY <2>1, NewRingSound
  <2> DEFINE n == Len(files[c])
  <2>3. n \in Nat /\ files[c] \in Seq(Ring) /\ NewRing \in Ring
    BY <1>0, <2>2 DEF Sound
  <2>4. /\ Append(files[c], NewRing) \in Seq(Ring) /\ Len(Append(files[c], NewRing)) = n + 1
        /\ \A j \in 1 .. n : Append(files[c], NewRing)[j] = files[c][j]
        /\ Append(files[c], NewRing)[n + 1] = NewRing
    BY <2>3, AppendProperties
  <2>5. files' = [files EXCEPT ![c] = Append(files[c], NewRing)] /\ step' = [step EXCEPT ![c] = "geometry"]
    BY <1>1 DEF Create
  <2>6. RingTypeOK'
    BY <1>0, <2>1, <2>4, <2>5 DEF RingTypeOK, Steps
  <2>7. /\ Len(files'[c]) = n + 1 /\ files'[c][n + 1] = NewRing
        /\ \A j \in 1 .. n : files'[c][j] = files[c][j]
        /\ step'[c] = "geometry" /\ frame'[c] = f
    BY <1>0, <2>1, <2>4, <2>5
  <2>8. \A d \in Camera \ {c} : files'[d] = files[d] /\ step'[d] = step[d] /\ frame'[d] = frame[d]
    BY <1>0, <2>1, <2>5
  <2>9. ASSUME NEW d \in Camera, NEW k \in 1 .. Len(files'[d]) PROVE Whole(files'[d][k])
    <3>1. CASE d = c /\ k \in 1 .. n
      BY <2>7, <3>1 DEF RingInv
    <3>2. CASE d = c /\ k \notin 1 .. n
      <4>1. k = n + 1
        BY <2>3, <2>7, <2>9, <3>2
      <4> QED BY <2>2, <2>7, <3>2, <4>1 DEF Sound
    <3>3. CASE d # c
      BY <2>8, <3>3 DEF RingInv
    <3> QED BY <3>1, <3>2, <3>3
  <2>10. ASSUME NEW d \in Camera, step'[d] # "dead"
         PROVE  Len(files'[d]) > 0 /\ Fits(Current(d)', step'[d], frame'[d])
    <3>1. CASE d = c
      <4>1. Current(d)' = NewRing
        BY <2>7, <3>1 DEF Current
      <4> QED BY <2>2, <2>3, <2>7, <3>1, <4>1 DEF Sound
    <3>2. CASE d # c
      <4>1. Current(d)' = Current(d)
        BY <2>8, <3>2 DEF Current
      <4> QED BY <2>8, <2>10, <3>2, <4>1 DEF RingInv
    <3> QED BY <3>1, <3>2
  <2>11. FilesGrow
    <3>1. \A d \in Camera : files[d] \in Seq(Ring) /\ Len(files[d]) \in Nat
      BY FilesAreSeqs
    <3>2. \A d \in Camera : \A k \in 1 .. Len(files[d]) : Grown(files[d][k], files[d][k])
      BY <3>1, ElementOfSeq, GrownSame
    <3>3. \A d \in Camera : \A k \in 1 .. Len(files[d]) : files'[d][k] = files[d][k]
      BY <2>7, <2>8
    <3>4. ASSUME NEW d \in Camera PROVE Len(files'[d]) >= Len(files[d])
      <4>1. CASE d = c
        BY <2>3, <2>7, <4>1
      <4>2. CASE d # c
        BY <2>8, <3>1, <4>2
      <4> QED BY <4>1, <4>2
    <3>5. \A d \in Camera : \A k \in 1 .. Len(files[d]) : Grown(files[d][k], files'[d][k])
      BY <3>2, <3>3
    <3> QED BY <3>4, <3>5 DEF FilesGrow
  <2> QED BY <2>6, <2>9, <2>10, <2>11 DEF RingInv
<1>2. CASE SetGeometry(c)
  <2> DEFINE n == Current(c).geometry + 1
             p == IF n = DataBytes THEN "begin" ELSE "geometry"
             new == [Current(c) EXCEPT !.geometry = n]
  <2>1. step[c] = "geometry" /\ Store(c, new, p) /\ frame' = frame
    BY <1>2 DEF SetGeometry
  <2>2. Sound(Current(c), "geometry", frame[c]) /\ frame[c] \in Nat
    BY <2>1, CurrentRing
  <2>3. n \in Field
    BY <2>2 DEF Sound, Fits, Ring, Field, DataBytes
  <2>4. p \in {"geometry", "begin"}
    OBVIOUS
  <2>5. Sound(new, p, frame[c]) /\ Grown(Current(c), new)
    <3> HIDE DEF n, p
    <3>1. p = IF n = DataBytes THEN "begin" ELSE "geometry"
      BY DEF p
    <3> QED BY <2>2, <2>3, <3>1, GeometrySound
  <2> HIDE DEF n, p, new
  <2> QED BY <1>0, <2>1, <2>2, <2>4, <2>5, StoreKeeps DEF Steps
<1>3. CASE BeginWrite(c)
  <2> DEFINE new == [Current(c) EXCEPT !.seq = IF @ % 2 = 0 THEN @ + 1 ELSE @]
  <2>1. Store(c, new, "first") /\ step[c] # "dead"
    BY <1>3 DEF BeginWrite
  <2>2. Sound(Current(c), step[c], frame[c]) /\ frame[c] \in Nat
    BY <2>1, CurrentRing
  <2>3. PICK f \in Nat : /\ frame' = [frame EXCEPT ![c] = f]
                         /\ \/ step[c] = "begin" /\ f = frame[c]
                            \/ step[c] = "idle" /\ f > frame[c]
    BY <1>0, <1>3, <1>9 DEF BeginWrite
  <2>4. Sound(new, "first", f) /\ Grown(Current(c), new)
    BY <2>2, <2>3, BeginSound
  <2> HIDE DEF new
  <2> QED BY <2>1, <2>3, <2>4, StoreKeeps DEF Steps
<1>4. CASE CopyFirst(c)
  <2>1. step[c] = "first" /\ Store(c, [Current(c) EXCEPT !.first[Free(c)] = frame[c]], "rest") /\ frame' = frame
    BY <1>4 DEF CopyFirst
  <2>2. Sound(Current(c), "first", frame[c]) /\ frame[c] \in Nat /\ NextSlot(Current(c)) = Free(c)
    BY <2>1, CurrentRing
  <2>3. LET new == [Current(c) EXCEPT !.first[Free(c)] = frame[c]]
        IN  Sound(new, "rest", frame[c]) /\ Grown(Current(c), new)
    BY <2>2, FirstSound
  <2> QED BY <1>0, <2>1, <2>2, <2>3, StoreKeeps DEF Steps
<1>5. CASE CopyRest(c)
  <2>1. step[c] = "rest" /\ Store(c, [Current(c) EXCEPT !.rest[Free(c)] = frame[c]], "publish") /\ frame' = frame
    BY <1>5 DEF CopyRest
  <2>2. Sound(Current(c), "rest", frame[c]) /\ frame[c] \in Nat /\ NextSlot(Current(c)) = Free(c)
    BY <2>1, CurrentRing
  <2>3. LET new == [Current(c) EXCEPT !.rest[Free(c)] = frame[c]]
        IN  Sound(new, "publish", frame[c]) /\ Grown(Current(c), new)
    BY <2>2, RestSound
  <2> QED BY <1>0, <2>1, <2>2, <2>3, StoreKeeps DEF Steps
<1>6. CASE Publish(c)
  <2> DEFINE new == [Current(c) EXCEPT !.tick[Free(c)] = frame[c], !.active = Free(c), !.seq = @ + 1]
  <2>1. step[c] = "publish" /\ Store(c, new, "idle") /\ frame' = frame
    BY <1>6 DEF Publish
  <2>2. Sound(Current(c), "publish", frame[c]) /\ frame[c] \in Nat /\ NextSlot(Current(c)) = Free(c)
    BY <2>1, CurrentRing
  <2>3. Sound(new, "idle", frame[c]) /\ Grown(Current(c), new)
    BY <2>2, PublishSound
  <2> HIDE DEF new
  <2> QED BY <1>0, <2>1, <2>2, <2>3, StoreKeeps DEF Steps
<1>7. CASE Die(c)
  <2>1. files' = files /\ step' = [step EXCEPT ![c] = "dead"] /\ frame' = frame
    BY <1>7 DEF Die
  <2>2. \A d \in Camera : step'[d] # "dead" => step'[d] = step[d]
    BY <1>0, <2>1
  <2>3. RingInv'
    <3>1. RingTypeOK'
      BY <1>0, <2>1 DEF RingTypeOK, Steps
    <3>2. \A d \in Camera : Current(d)' = Current(d) /\ frame'[d] = frame[d] /\ files'[d] = files[d]
      BY <2>1 DEF Current
    <3>3. \A d \in Camera : \A k \in 1 .. Len(files'[d]) : Whole(files'[d][k])
      BY <3>2 DEF RingInv
    <3>4. ASSUME NEW d \in Camera, step'[d] # "dead"
          PROVE  Len(files'[d]) > 0 /\ Fits(Current(d)', step'[d], frame'[d])
      <4>1. step'[d] = step[d]
        BY <2>2, <3>4
      <4> QED BY <3>2, <3>4, <4>1 DEF RingInv
    <3> QED BY <3>1, <3>3, <3>4 DEF RingInv
  <2>4. \A d \in Camera : files[d] \in Seq(Ring) /\ Len(files[d]) \in Nat
    BY FilesAreSeqs
  <2>5. \A d \in Camera : \A k \in 1 .. Len(files[d]) : Grown(files[d][k], files[d][k])
    BY <2>4, ElementOfSeq, GrownSame
  <2> QED BY <2>1, <2>3, <2>4, <2>5 DEF FilesGrow
<1> QED BY <1>1, <1>2, <1>3, <1>4, <1>5, <1>6, <1>7 DEF Worker

-----------------------------------------------------------------------------
(* The bird's-eye view.                                                    *)

\* The readers: each has mapped a file of its camera.
MapInv ==
  /\ mapped \in [Camera -> [file : Nat, found : SUBSET Field]]
  /\ readers \in Seq(Camera) /\ field \in Field
  /\ \A c \in Camera :
       /\ mapped[c].file <= Len(files[c])
       /\ mapped[c].found # {} => mapped[c].file > 0

\* c has a reader, whose file and geometry do not change any more.
Has(c) == Opened(c) /\ mapped[c].file > 0

\* Snapshots are taken of cameras that have one.
TodoInv ==
  phase = "snapshot" => todo \in Seq(Camera) /\ \A i \in DOMAIN todo : Opened(todo[i])

\* A choice k of slot and tick that the file of c has reached or passed.
Reach(r, k) == k.slot \in Slot /\ k.tick \in Nat /\ k.tick <= Seen(r, k.slot)

Reached(c, k) == Has(c) /\ Reach(File(c), k)

\* Whatever a snapshot or a selection says, its slot has seen.
ChoiceInv ==
  /\ \A c \in DOMAIN snaps :
       /\ c \in Camera /\ Valid(snaps[c]) # {}
       /\ \A s \in Valid(snaps[c]) : Reached(c, [slot |-> s, tick |-> snaps[c][s]])
  /\ \A c \in DOMAIN selected : c \in Camera /\ Reached(c, selected[c])

\* A copy began at or before the present sequence number; while that has not
\* changed the first half is what the reader finds in the slot.
CopyInv ==
  /\ copy \in [seq : Nat, first : Nat \cup {Noise}, tries : Int]
  /\ \A c \in Camera :
       /\ At(c, "first") \/ At(c, "rest") => copy.seq <= File(c).seq
       /\ At(c, "rest") => /\ copy.seq % 2 = 0
                           /\ File(c).seq = copy.seq
                                => copy.first = Pixels(c, File(c).first, selected[c].slot)

\* What a tile of a reader that found these fields shows is one frame, no older
\* than its key and no newer than what its slot has seen.
GoodTile(found, r, t) ==
  /\ Reach(r, t.key)
  /\ Shape \in found => t.first = t.rest
  /\ Shape \in found /\ (DataBytes \in found \/ t.key.slot = 0)
     => t.first \in Nat /\ t.key.tick <= t.first /\ t.first <= Seen(r, t.key.slot)

TileInv ==
  /\ DOMAIN tile = Camera
  /\ \A c \in Camera : tile[c] # NoTile => Has(c) /\ GoodTile(mapped[c].found, File(c), tile[c])

IInv == RingInv /\ MapInv /\ TodoInv /\ ChoiceInv /\ CopyInv /\ TileInv

LEMMA FileIsRing ==
  ASSUME RingInv, MapInv, NEW c \in Camera, Has(c)
  PROVE  /\ mapped[c].file \in 1 .. Len(files[c])
         /\ File(c) \in Ring /\ Whole(File(c)) /\ File(c).seq \in Nat
<1>1. mapped[c].file \in Nat /\ mapped[c].file <= Len(files[c]) /\ mapped[c].file > 0
  BY DEF MapInv, Has
<1>2. files[c] \in Seq(Ring) /\ Len(files[c]) \in Nat
  BY FilesAreSeqs
<1>3. mapped[c].file \in 1 .. Len(files[c])
  BY <1>1, <1>2
<1>4. File(c) \in Ring
  BY <1>2, <1>3, ElementOfSeq DEF File
<1>5. Whole(File(c))
  BY <1>3 DEF RingInv, File
<1> QED BY <1>3, <1>4, <1>5 DEF Ring

\* A snapshot tells of no more than the slots have seen, and of one slot at least.
LEMMA SnapshotReached ==
  ASSUME RingInv, MapInv, NEW c \in Camera, Opened(c), Readable(c)
  PROVE  /\ Has(c)
         /\ Valid(Snapshot(File(c))) # {}
         /\ \A s \in Valid(Snapshot(File(c))) :
              Reached(c, [slot |-> s, tick |-> Snapshot(File(c))[s]])
<1>1. Has(c)
  BY DEF Readable, Found, MapInv, Has
<1> DEFINE r == File(c)
<1>2. r \in Ring
  BY <1>1, FileIsRing
<1> HIDE DEF r
<1>3. /\ r.active \in Slot /\ r.tick \in [Slot -> Nat \cup {Never}]
  BY <1>2 DEF Ring
<1>4. \A s \in Slot : /\ Snapshot(r)[s] \in Nat \cup {Never}
                      /\ Snapshot(r)[s] # Never => Snapshot(r)[s] = Seen(r, s)
  BY <1>3 DEF Snapshot, Seen
<1>5. Snapshot(r)[r.active] # Never
  BY <1>3 DEF Snapshot, Never
<1>6. r.active \in Valid(Snapshot(r))
  BY <1>3, <1>5 DEF Valid
<1>7. ASSUME NEW s \in Valid(Snapshot(r))
      PROVE  s \in Slot /\ Snapshot(r)[s] \in Nat /\ Snapshot(r)[s] <= Seen(r, s)
  <2>1. s \in Slot /\ Snapshot(r)[s] # Never
    BY DEF Valid
  <2>2. Snapshot(r)[s] \in Nat /\ Snapshot(r)[s] = Seen(r, s)
    BY <1>4, <2>1
  <2> QED BY <2>1, <2>2
<1>8. ASSUME NEW s \in Valid(Snapshot(r)) PROVE Reached(c, [slot |-> s, tick |-> Snapshot(r)[s]])
  BY <1>1, <1>7 DEF Reached, Reach, r
<1> QED BY <1>1, <1>6, <1>8 DEF r

LEMMA ValidFinite ==
  ASSUME NEW snap
  PROVE  IsFiniteSet(Valid(snap)) /\ Valid(snap) \subseteq Slot
<1>1. IsFiniteSet(Slot)
  BY Parameters, FS_Interval DEF Slot
<1>2. Valid(snap) \subseteq Slot
  BY DEF Valid
<1> QED BY <1>1, <1>2, FS_Subset

\* The frame nearest to a target is one of the snapshot's.
LEMMA NearestValid ==
  ASSUME NEW snap, NEW target \in Int, Valid(snap) # {}, \A s \in Valid(snap) : snap[s] \in Nat
  PROVE  \E s \in Valid(snap) : Nearest(snap, target) = [slot |-> s, tick |-> snap[s]]
<1> DEFINE D == {Distance(snap[s], target) : s \in Valid(snap)}
           B == {s \in Valid(snap) : Distance(snap[s], target) = Min(D)}
<1>1. D \in SUBSET Int /\ D # {}
  <2>1. \A s \in Valid(snap) : Distance(snap[s], target) \in Int
    BY DEF Distance
  <2> QED BY <2>1
<1>2. IsFiniteSet(D)
  <2> DEFINE f == [s \in Valid(snap) |-> Distance(snap[s], target)]
  <2>1. IsFiniteSet({f[s] : s \in Valid(snap)})
    BY ValidFinite, ImageFinite
  <2>2. D = {f[s] : s \in Valid(snap)}
    OBVIOUS
  <2> QED BY <2>1, <2>2
<1>3. Min(D) \in D
  <2> HIDE DEF D
  <2> QED BY <1>1, <1>2, MinIn
<1>4. B # {} /\ B \subseteq Valid(snap)
  BY <1>3
<1> HIDE DEF D
<1>5. IsFiniteSet(B) /\ B \in SUBSET Int
  <2>1. Slot \subseteq Int
    BY DEF Slot
  <2> QED BY <1>4, <2>1, ValidFinite, FS_Subset
<1> HIDE DEF B
<1>6. Min(B) \in Valid(snap)
  BY <1>4, <1>5, MinIn
<1>7. Nearest(snap, target) = [slot |-> Min(B), tick |-> snap[Min(B)]]
  BY DEF Nearest, B, D
<1> QED BY <1>6, <1>7

LEMMA CameraFinite == IsFiniteSet(Camera)
<1>1. Order \in Seq(Camera) /\ Camera = {Order[i] : i \in DOMAIN Order}
  BY BevAssumption
<1>2. Len(Order) \in Nat /\ DOMAIN Order = 1 .. Len(Order)
  BY <1>1, LenProperties
<1>3. IsFiniteSet(DOMAIN Order)
  BY <1>2, FS_Interval
<1>4. IsFiniteSet({Order[i] : i \in DOMAIN Order})
  BY <1>3, ImageFinite
<1> QED BY <1>1, <1>4

\* The target is an integer as soon as there is a snapshot.
LEMMA TargetInt ==
  ASSUME ChoiceInv, DOMAIN snaps # {}
  PROVE  Target(snaps) \in Int
<1> DEFINE T(c) == {snaps[c][s] : s \in Valid(snaps[c])}
           M == {Max(T(c)) : c \in DOMAIN snaps}
<1>1. ASSUME NEW c \in DOMAIN snaps PROVE Max(T(c)) \in Int
  <2> DEFINE f == [s \in Valid(snaps[c]) |-> snaps[c][s]]
  <2>1. Valid(snaps[c]) # {} /\ \A s \in Valid(snaps[c]) : snaps[c][s] \in Nat
    BY DEF ChoiceInv, Reached, Reach
  <2>2. T(c) \in SUBSET Int /\ T(c) # {}
    BY <2>1
  <2>3. IsFiniteSet({f[s] : s \in Valid(snaps[c])})
    BY ValidFinite, ImageFinite
  <2>4. T(c) = {f[s] : s \in Valid(snaps[c])}
    OBVIOUS
  <2>5. IsFiniteSet(T(c))
    BY <2>3, <2>4
  <2> HIDE DEF T
  <2>6. Max(T(c)) \in T(c)
    BY <2>2, <2>5, MaxIn
  <2> QED BY <2>2, <2>6
<1> HIDE DEF T
<1>2. M \in SUBSET Int /\ M # {}
  BY <1>1
<1>3. IsFiniteSet(M)
  <2> DEFINE f == [c \in DOMAIN snaps |-> Max(T(c))]
  <2>1. DOMAIN snaps \subseteq Camera
    BY DEF ChoiceInv
  <2>2. IsFiniteSet(DOMAIN snaps)
    BY <2>1, CameraFinite, FS_Subset
  <2>3. IsFiniteSet({f[c] : c \in DOMAIN snaps})
    BY <2>2, ImageFinite
  <2>4. M = {f[c] : c \in DOMAIN snaps}
    OBVIOUS
  <2> QED BY <2>3, <2>4
<1>4. Min(M) \in Int
  <2> HIDE DEF M
  <2> QED BY <1>2, <1>3, MinIn
<1>5. Common(snaps) = Min(M)
  BY DEF Common, T
<1> QED BY <1>4, <1>5, BevAssumption DEF Target, Delayed

-----------------------------------------------------------------------------
(* What steps leave in order.                                              *)

\* Files have grown and readers have kept theirs.
Held ==
  /\ FilesGrow
  /\ \A c \in Camera : Has(c) => Opened(c)' /\ mapped'[c] = mapped[c]

NextFile(c) == files'[c][mapped'[c].file]

LEMMA ReachGrows ==
  ASSUME NEW r \in Ring, NEW q \in Ring, Grown(r, q), NEW k, Reach(r, k)
  PROVE  Reach(q, k)
<1>1. Seen(r, k.slot) \in Nat /\ Seen(q, k.slot) \in Nat /\ Seen(r, k.slot) <= Seen(q, k.slot)
  BY SeenNat DEF Reach, Grown
<1> QED BY <1>1 DEF Reach

LEMMA TileGrows ==
  ASSUME NEW r \in Ring, NEW q \in Ring, Grown(r, q), NEW g, NEW t, GoodTile(g, r, t)
  PROVE  GoodTile(g, q, t)
<1>1. Reach(r, t.key) /\ Reach(q, t.key)
  BY ReachGrows DEF GoodTile
<1>2. /\ Seen(r, t.key.slot) \in Nat /\ Seen(q, t.key.slot) \in Nat
      /\ Seen(r, t.key.slot) <= Seen(q, t.key.slot)
  BY <1>1, SeenNat DEF Reach, Grown
<1> QED BY <1>1, <1>2 DEF GoodTile

LEMMA FileGrows ==
  ASSUME RingInv, MapInv, RingInv', MapInv', Held, NEW c \in Camera, Has(c)
  PROVE  /\ Has(c)' /\ File(c) \in Ring /\ NextFile(c) \in Ring
         /\ mapped'[c] = mapped[c] /\ Grown(File(c), NextFile(c))
<1>1. /\ mapped[c].file \in 1 .. Len(files[c]) /\ mapped'[c] = mapped[c] /\ Opened(c)'
      /\ mapped[c].file > 0 /\ File(c) \in Ring
  BY FileIsRing DEF Held, Has
<1>2. Grown(File(c), NextFile(c))
  BY <1>1 DEF Held, FilesGrow, File, NextFile
<1>3. files'[c] \in Seq(Ring) /\ Len(files'[c]) \in Nat
  BY LenProperties DEF RingInv, RingTypeOK
<1>4. /\ mapped'[c].file \in Nat /\ mapped'[c].file <= Len(files'[c]) /\ mapped'[c].file > 0
      /\ Has(c)'
  BY <1>1 DEF MapInv, Has
<1>5. mapped'[c].file \in 1 .. Len(files'[c])
  BY <1>3, <1>4
<1>6. NextFile(c) \in Ring
  BY <1>3, <1>5, ElementOfSeq DEF NextFile
<1> QED BY <1>1, <1>2, <1>4, <1>6

Before == IInv /\ RingInv' /\ MapInv' /\ Held

LEMMA StillReached ==
  ASSUME Before, NEW c \in Camera, NEW k, Reached(c, k)
  PROVE  Has(c)' /\ Reach(NextFile(c), k)
BY FileGrows, ReachGrows DEF Before, IInv, Reached

\* Snapshots and selections are only thrown away.
LEMMA ChoiceKept ==
  ASSUME Before, snaps' = snaps \/ DOMAIN snaps' = {},
         \A c \in DOMAIN selected' : c \in DOMAIN selected /\ selected'[c] = selected[c]
  PROVE  ChoiceInv'
<1>1. ASSUME NEW c \in DOMAIN snaps'
      PROVE  /\ c \in Camera /\ Valid(snaps'[c]) # {} /\ Has(c)'
             /\ \A s \in Valid(snaps'[c]) : Reach(NextFile(c), [slot |-> s, tick |-> snaps'[c][s]])
  <2>1. snaps' = snaps
    BY <1>1
  <2>2. /\ c \in Camera /\ Valid(snaps[c]) # {}
        /\ \A s \in Valid(snaps[c]) : Reached(c, [slot |-> s, tick |-> snaps[c][s]])
    BY <1>1, <2>1 DEF Before, IInv, ChoiceInv
  <2>3. \A s \in Valid(snaps[c]) : /\ Has(c)'
                                   /\ Reach(NextFile(c), [slot |-> s, tick |-> snaps[c][s]])
    BY <2>2, StillReached
  <2> QED BY <2>1, <2>2, <2>3
<1>2. ASSUME NEW c \in DOMAIN selected'
      PROVE  c \in Camera /\ Has(c)' /\ Reach(NextFile(c), selected'[c])
  <2>1. c \in Camera /\ Reached(c, selected[c]) /\ selected'[c] = selected[c]
    BY <1>2 DEF Before, IInv, ChoiceInv
  <2> QED BY <2>1, StillReached
<1> QED BY <1>1, <1>2 DEF ChoiceInv, Reached, Valid, File, NextFile

LEMMA TileKept ==
  ASSUME Before, tile' = tile
  PROVE  TileInv'
<1>1. ASSUME NEW c \in Camera, tile[c] # NoTile
      PROVE  Has(c)' /\ GoodTile(mapped'[c].found, NextFile(c), tile[c])
  BY <1>1, FileGrows, TileGrows DEF Before, IInv, TileInv
<1> QED BY <1>1 DEF Before, IInv, TileInv, File, NextFile

\* A copy goes on while a worker writes.
LEMMA CopyKept ==
  ASSUME Before, UNCHANGED <<phase, todo, selected, copy>>
  PROVE  CopyInv'
<1>1. ASSUME NEW c \in Camera, NEW p, At(c, p)
      PROVE  Has(c) /\ selected[c].slot \in Slot
  BY <1>1 DEF Before, IInv, ChoiceInv, At, Reached, Reach
<1>2. \A c \in Camera, p \in {"first", "rest"} : At(c, p)' <=> At(c, p)
  BY DEF At
<1>3. ASSUME NEW c \in Camera, At(c, "first") \/ At(c, "rest") PROVE copy.seq <= NextFile(c).seq
  <2>1. copy.seq \in Nat /\ copy.seq <= File(c).seq /\ Has(c)
    BY <1>1, <1>3 DEF Before, IInv, CopyInv
  <2>2. File(c).seq \in Nat /\ NextFile(c).seq \in Nat /\ File(c).seq <= NextFile(c).seq
    BY <2>1, FileGrows DEF Before, IInv, Grown, Ring
  <2> QED BY <2>1, <2>2
<1>4. ASSUME NEW c \in Camera, At(c, "rest"), NextFile(c).seq = copy.seq
      PROVE  copy.first = Pixels(c, File(c).first, selected[c].slot)'
  <2>1. /\ copy.seq \in Nat /\ copy.seq <= File(c).seq /\ Has(c) /\ copy.seq % 2 = 0
        /\ File(c).seq = copy.seq => copy.first = Pixels(c, File(c).first, selected[c].slot)
    BY <1>1, <1>4 DEF Before, IInv, CopyInv
  <2>2. /\ File(c).seq \in Nat /\ NextFile(c).seq \in Nat /\ File(c).seq <= NextFile(c).seq
        /\ Grown(File(c), NextFile(c)) /\ mapped'[c] = mapped[c]
    BY <2>1, FileGrows DEF Before, IInv, Grown, Ring
  <2>3. File(c).seq = copy.seq /\ File(c).seq % 2 = 0
    BY <1>4, <2>1, <2>2
  <2>4. NextFile(c).first = File(c).first
    BY <1>4, <2>2, <2>3 DEF Grown
  <2>5. File(c)' = NextFile(c)
    BY DEF File, NextFile
  <2> HIDE DEF NextFile
  <2>6. Pixels(c, File(c).first, selected[c].slot)' = Pixels(c, File(c).first, selected[c].slot)
    BY <2>2, <2>4, <2>5 DEF Pixels, Shaped, Placed, Found
  <2> QED BY <2>1, <2>3, <2>6
<1>5. \A c \in Camera : At(c, "rest") => copy.seq % 2 = 0
  BY DEF Before, IInv, CopyInv
<1>6. copy \in [seq : Nat, first : Nat \cup {Noise}, tries : Int]
  BY DEF Before, IInv, CopyInv
<1>7. \A c \in Camera : File(c)' = NextFile(c)
  BY DEF File, NextFile
<1>8. UNCHANGED <<copy, selected>>
  OBVIOUS
<1> HIDE DEF NextFile
<1> QED BY <1>2, <1>3, <1>4, <1>5, <1>6, <1>7, <1>8 DEF CopyInv

\* No copy is under way after the step.
LEMMA NoCopyLeft ==
  ASSUME IInv, phase' \notin {"first", "rest"}, copy' \in [seq : Nat, first : Nat \cup {Noise}, tries : Int]
  PROVE  CopyInv'
BY DEF CopyInv, At

\* Most steps of a paint leave rings and readers alone.
LEMMA PaintKeeps ==
  ASSUME IInv, UNCHANGED ring, UNCHANGED inputs
  PROVE  Before
<1>1. RingInv' /\ FilesGrow
  BY RingStays DEF IInv
<1>2. MapInv'
  BY DEF IInv, MapInv, ring, inputs
<1>3. Held
  BY <1>1 DEF Held, Has, Opened, inputs
<1> QED BY <1>1, <1>2, <1>3 DEF Before

-----------------------------------------------------------------------------
(* Every step.                                                             *)

LEMMA InitKeeps == Init => IInv
<1> SUFFICES ASSUME Init PROVE IInv
  OBVIOUS
<1> USE DEF Init
<1>1. RingInv
  <2>1. \A c \in Camera : files[c] = <<>> /\ step[c] = "dead"
    BY DEF RingInit
  <2>0. <<>> \in Seq(Ring) /\ Len(<<>>) = 0
    BY EmptySeq
  <2>2. RingTypeOK
    <3> HIDE DEF Init
    <3> DEFINE e == <<>>
    <3>1. files = [c \in Camera |-> e] /\ e \in Seq(Ring)
      BY <2>0 DEF Init, RingInit
    <3> HIDE DEF e
    <3>2. files \in [Camera -> Seq(Ring)]
      BY <3>1
    <3>3. step \in [Camera -> Steps] /\ frame \in [Camera -> Nat]
      BY DEF Init, RingInit, Steps
    <3> QED BY <3>2, <3>3 DEF RingTypeOK
  <2>3. \A c \in Camera : Len(files[c]) = 0
    <3> HIDE DEF Init
    <3> DEFINE e == <<>>
    <3>1. Len(e) = 0 /\ \A c \in Camera : files[c] = e
      BY <2>0, <2>1
    <3> HIDE DEF e
    <3> QED BY <3>1
  <2>4. \A c \in Camera : 1 .. Len(files[c]) = {}
    <3> HIDE DEF Init
    <3>1. 1 .. 0 = {}
      OBVIOUS
    <3> QED BY <2>3, <3>1
  <2> QED BY <2>1, <2>2, <2>4 DEF RingInv
<1>2. MapInv
  <2>1. \A c \in Camera : Len(files[c]) = 0 /\ mapped[c] = NoFile
    BY DEF RingInit, BevInit
  <2>2. mapped \in [Camera -> [file : Nat, found : SUBSET Field]]
    BY DEF BevInit, NoFile
  <2>3. readers \in Seq(Camera) /\ field \in Field
    BY EmptySeq DEF BevInit, Field, Shape
  <2> QED BY <2>1, <2>2, <2>3 DEF MapInv, NoFile
<1>3. ChoiceInv
  BY DEF BevInit, ChoiceInv
<1>4. CopyInv
  BY BevAssumption DEF BevInit, CopyInv, At, NoCopy
<1>5. TileInv /\ TodoInv
  BY DEF BevInit, TileInv, TodoInv
<1> QED BY <1>1, <1>2, <1>3, <1>4, <1>5 DEF IInv

LEMMA RingsKeep == ASSUME IInv, Rings PROVE IInv'
<1>1. PICK c \in Camera : Worker(c)
  BY DEF Rings
<1>2. UNCHANGED <<mapped, readers, field, phase, todo, snaps, selected, copy, tile>>
  BY DEF Rings, inputs, choice, picture
<1>3. RingInv' /\ FilesGrow
  BY <1>1, WorkerKeeps DEF IInv
<1>4. MapInv'
  <2>1. ASSUME NEW d \in Camera PROVE mapped[d].file <= Len(files'[d])
    <3>1. Len(files[d]) \in Nat /\ mapped[d].file \in Nat /\ mapped[d].file <= Len(files[d])
      BY FilesAreSeqs DEF IInv, MapInv
    <3>2. files'[d] \in Seq(Ring)
      BY <1>3 DEF RingInv, RingTypeOK
    <3>3. Len(files'[d]) \in Nat /\ Len(files'[d]) >= Len(files[d])
      BY <1>3, <3>2, LenProperties DEF FilesGrow
    <3> QED BY <3>1, <3>3
  <2> QED BY <1>2, <2>1 DEF IInv, MapInv
<1>5. Before
  BY <1>2, <1>3, <1>4 DEF Before, Held, Has, Opened
<1>6. ChoiceInv' /\ CopyInv' /\ TileInv'
  BY <1>2, <1>5, ChoiceKept, CopyKept, TileKept
<1>7. TodoInv'
  BY <1>2 DEF IInv, TodoInv, Opened
<1> QED BY <1>3, <1>4, <1>6, <1>7 DEF IInv

LEMMA OpenKeeps ==
  ASSUME IInv, NEW c \in Camera, OpenInput(c), UNCHANGED ring PROVE Before /\ IInv'
<1>1. phase = "open" /\ phase' = "open" /\ UNCHANGED <<snaps, selected, copy, tile>>
  BY DEF OpenInput, SkipInput, MapFile, LoadField, choice, picture
<1>2. RingInv' /\ FilesGrow /\ files' = files
  BY RingStays DEF IInv, ring
<1>3. /\ mapped \in [Camera -> [file : Nat, found : SUBSET Field]] /\ readers \in Seq(Camera)
      /\ field \in Field
      /\ \A d \in Camera : mapped[d].file <= Len(files[d])
                          /\ (mapped[d].found # {} => mapped[d].file > 0)
  BY DEF IInv, MapInv
<1>4. MapInv' /\ Held
  <2>1. CASE SkipInput(c)
    <3>1. UNCHANGED inputs
      BY <2>1 DEF SkipInput
    <3> QED BY <3>1, PaintKeeps DEF Before
  <2>2. CASE MapFile(c)
    <3>1. /\ mapped' = [mapped EXCEPT ![c].file = Len(files[c])] /\ UNCHANGED <<readers, field>>
          /\ mapped[c].file = 0 /\ files[c] # <<>>
      BY <2>2 DEF MapFile, Openable
    <3>2. files[c] \in Seq(Ring) /\ Len(files[c]) \in Nat /\ Len(files[c]) > 0
      BY <3>1, FilesAreSeqs, EmptySeq DEF IInv
    <3>3. mapped' \in [Camera -> [file : Nat, found : SUBSET Field]]
      BY <1>3, <3>1, <3>2
    <3>4. /\ mapped'[c].file = Len(files[c])
          /\ \A d \in Camera \ {c} : mapped'[d] = mapped[d]
      BY <1>3, <3>1
    <3>5. MapInv'
      BY <1>2, <1>3, <3>1, <3>2, <3>3, <3>4 DEF MapInv
    <3>6. Held
      BY <1>2, <3>1, <3>4 DEF Held, Has, Opened
    <3> QED BY <3>5, <3>6
  <2>3. CASE LoadField(c)
    <3> DEFINE n == IF File(c).geometry >= field THEN mapped[c].found \cup {field}
                                                 ELSE mapped[c].found
    <3>1. /\ mapped' = [mapped EXCEPT ![c].found = n] /\ mapped[c].file # 0 /\ ~Opened(c)
      BY <1>3, <2>3 DEF LoadField
    <3>2. n \in SUBSET Field
      BY <1>3
    <3> HIDE DEF n
    <3>3. /\ mapped' \in [Camera -> [file : Nat, found : SUBSET Field]]
          /\ mapped'[c].file = mapped[c].file
          /\ \A d \in Camera \ {c} : mapped'[d] = mapped[d]
      BY <1>3, <3>1, <3>2
    <3>4. /\ readers' \in Seq(Camera) /\ field' \in Field
          /\ \A d \in Camera : Opened(d) => Opened(d)'
      <4>1. CASE field = DataBytes
        <5>1. readers' = Append(readers, c) /\ field' = Shape
          BY <2>3, <4>1 DEF LoadField
        <5>2. /\ readers' \in Seq(Camera) /\ DOMAIN readers \subseteq DOMAIN readers'
              /\ \A i \in DOMAIN readers : readers'[i] = readers[i]
          BY <1>3, <5>1, AppendProperties, LenProperties
        <5> QED BY <5>1, <5>2 DEF Opened, Field, Shape
      <4>2. CASE field # DataBytes
        BY <1>3, <2>3, <4>2 DEF LoadField, Opened, Field, DataBytes
      <4> QED BY <4>1, <4>2
    <3>5. mapped[c].file > 0
      BY <1>3, <3>1
    <3>6. MapInv'
      BY <1>2, <1>3, <3>3, <3>4, <3>5 DEF MapInv
    <3>7. Held
      BY <1>2, <3>1, <3>3, <3>4 DEF Held, Has
    <3> QED BY <3>6, <3>7
  <2> QED BY <2>1, <2>2, <2>3 DEF OpenInput
<1>5. Before
  BY <1>2, <1>4 DEF Before
<1>6. ChoiceInv' /\ TileInv'
  BY <1>1, <1>5, ChoiceKept, TileKept
<1>7. CopyInv' /\ TodoInv'
  BY <1>1, NoCopyLeft DEF IInv, CopyInv, TodoInv
<1> QED BY <1>2, <1>4, <1>5, <1>6, <1>7 DEF IInv

LEMMA OpenedKeeps == ASSUME IInv, InputsOpen, UNCHANGED ring PROVE IInv'
<1>1. /\ phase' = "snapshot" /\ todo' = readers
      /\ UNCHANGED <<inputs, snaps, selected, copy, tile>>
  BY DEF InputsOpen, choice, picture
<1>2. Before
  BY <1>1, PaintKeeps
<1>3. ChoiceInv' /\ TileInv' /\ CopyInv'
  BY <1>1, <1>2, ChoiceKept, TileKept, NoCopyLeft DEF IInv, CopyInv
<1>4. TodoInv'
  BY <1>1 DEF TodoInv, Opened, inputs, IInv, MapInv
<1> QED BY <1>2, <1>3, <1>4 DEF IInv, Before

LEMMA SnapshotKeeps ==
  ASSUME IInv, NEW c \in Camera, TakeSnapshot(c), UNCHANGED ring PROVE IInv'
<1>1. /\ phase = "snapshot" /\ UNCHANGED <<inputs, phase, selected, copy, tile>>
      /\ snaps' = IF Readable(c)
              THEN [d \in DOMAIN snaps \cup {c} |-> IF d = c THEN Snapshot(File(c)) ELSE snaps[d]]
              ELSE snaps
  BY DEF TakeSnapshot, picture
<1>0. Opened(c) /\ TodoInv'
  <2>1. todo # <<>> /\ c = Head(todo) /\ todo' = Tail(todo)
    BY DEF TakeSnapshot
  <2>2. todo \in Seq(Camera) /\ \A i \in DOMAIN todo : Opened(todo[i])
    BY <1>1 DEF IInv, TodoInv
  <2>3. Head(todo) = todo[1] /\ 1 \in DOMAIN todo
    BY <2>1, <2>2
  <2>4. /\ Tail(todo) \in Seq(Camera)
        /\ \A i \in DOMAIN Tail(todo) : i + 1 \in DOMAIN todo /\ Tail(todo)[i] = todo[i + 1]
    BY <2>1, <2>2
  <2> QED BY <1>1, <2>1, <2>2, <2>3, <2>4 DEF TodoInv, Opened, inputs
<1>2. Before
  BY <1>1, PaintKeeps
<1>3. TileInv'
  BY <1>1, <1>2, TileKept
<1>4. CopyInv'
  BY <1>1, NoCopyLeft DEF IInv, CopyInv
<1>5. ChoiceInv'
  <2>1. CASE ~Readable(c)
    BY <1>1, <1>2, <2>1, ChoiceKept
  <2>2. CASE Readable(c)
    <3>1. DOMAIN snaps' = DOMAIN snaps \cup {c} /\ snaps'[c] = Snapshot(File(c))
      BY <1>1, <2>2
    <3>2. \A d \in DOMAIN snaps \ {c} : snaps'[d] = snaps[d]
      BY <1>1, <2>2
    <3>3. /\ Valid(Snapshot(File(c))) # {}
          /\ \A s \in Valid(Snapshot(File(c))) :
               Reached(c, [slot |-> s, tick |-> Snapshot(File(c))[s]])
      BY <1>0, <2>2, SnapshotReached DEF IInv
    <3>4. ASSUME NEW d \in DOMAIN snaps'
          PROVE  /\ d \in Camera /\ Valid(snaps'[d]) # {}
                 /\ \A s \in Valid(snaps'[d]) : Reached(d, [slot |-> s, tick |-> snaps'[d][s]])
      <4>1. CASE d = c
        BY <3>1, <3>3, <4>1
      <4>2. CASE d # c
        BY <3>1, <3>2, <4>2 DEF IInv, ChoiceInv
      <4> QED BY <4>1, <4>2
    <3>5. \A d \in DOMAIN snaps' : \A s \in Valid(snaps'[d]) :
            Has(d)' /\ Reach(NextFile(d), [slot |-> s, tick |-> snaps'[d][s]])
      BY <1>2, <3>4, StillReached
    <3>6. \A d \in DOMAIN selected' : d \in Camera /\ Has(d)' /\ Reach(NextFile(d), selected'[d])
      BY <1>1, <1>2, StillReached DEF IInv, ChoiceInv
    <3> QED BY <3>4, <3>5, <3>6 DEF ChoiceInv, Reached, Valid, File, NextFile
  <2> QED BY <2>1, <2>2
<1> QED BY <1>0, <1>2, <1>3, <1>4, <1>5 DEF IInv, Before

LEMMA ChooseKeeps == ASSUME IInv, ChooseFrames, UNCHANGED ring PROVE IInv'
<1>1. /\ phase' = "upload" /\ snaps' = <<>> /\ UNCHANGED <<inputs, copy, tile>>
      /\ selected' = [c \in InReach(snaps) |-> Nearest(snaps[c], Target(snaps))]
  BY DEF ChooseFrames
<1>2. Before
  BY <1>1, PaintKeeps
<1>3. TileInv' /\ CopyInv' /\ TodoInv'
  BY <1>1, <1>2, TileKept, NoCopyLeft DEF IInv, CopyInv, TodoInv
<1>4. ASSUME NEW c \in InReach(snaps) PROVE c \in Camera /\ Reached(c, Nearest(snaps[c], Target(snaps)))
  <2>1. c \in DOMAIN snaps
    BY DEF InReach
  <2>2. /\ c \in Camera /\ Valid(snaps[c]) # {}
        /\ \A s \in Valid(snaps[c]) : Reached(c, [slot |-> s, tick |-> snaps[c][s]])
    BY <2>1 DEF IInv, ChoiceInv
  <2>3. Target(snaps) \in Int
    BY <2>1, TargetInt DEF IInv
  <2>4. \A s \in Valid(snaps[c]) : snaps[c][s] \in Nat
    BY <2>2 DEF Reached, Reach
  <2>5. PICK s \in Valid(snaps[c]) : Nearest(snaps[c], Target(snaps)) = [slot |-> s, tick |-> snaps[c][s]]
    BY <2>2, <2>3, <2>4, NearestValid
  <2> QED BY <2>2, <2>5
<1>5. \A c \in InReach(snaps) :
        c \in Camera /\ Has(c)' /\ Reach(NextFile(c), Nearest(snaps[c], Target(snaps)))
  BY <1>2, <1>4, StillReached
<1>6. ChoiceInv'
  <2>1. DOMAIN snaps' = {}
    BY <1>1
  <2>2. \A c \in DOMAIN selected' : c \in InReach(snaps) /\ selected'[c] = Nearest(snaps[c], Target(snaps))
    BY <1>1
  <2> QED BY <1>5, <2>1, <2>2 DEF ChoiceInv, Reached, File, NextFile
<1> QED BY <1>2, <1>3, <1>6 DEF IInv, Before

\* On to the next camera, or another attempt: no copy is left under way.
LEMMA DoneKeeps ==
  ASSUME IInv, NEW c, Done(c)
  PROVE  /\ phase' \notin {"first", "rest", "snapshot"} /\ copy' \in [seq : Nat, first : Nat \cup {Noise}, tries : Int]
         /\ \A d \in DOMAIN selected' : d \in DOMAIN selected /\ selected'[d] = selected[d]
BY DEF Done, NoCopy

LEMMA FailKeeps ==
  ASSUME IInv, NEW c, Fail(c)
  PROVE  /\ phase' \notin {"first", "rest", "snapshot"} /\ copy' \in [seq : Nat, first : Nat \cup {Noise}, tries : Int]
         /\ \A d \in DOMAIN selected' : d \in DOMAIN selected /\ selected'[d] = selected[d]
<1>1. CASE Done(c)
  BY <1>1, DoneKeeps
<1>2. CASE ~Done(c)
  <2>1. /\ phase' = "again" /\ copy' = [copy EXCEPT !.first = 0, !.tries = @ - 1]
        /\ selected' = selected
    BY <1>2 DEF Fail
  <2>2. copy \in [seq : Nat, first : Nat \cup {Noise}, tries : Int]
    BY DEF IInv, CopyInv
  <2>3. copy' \in [seq : Nat, first : Nat \cup {Noise}, tries : Int]
    <3>1. copy.tries - 1 \in Int /\ copy' = [[copy EXCEPT !.first = 0] EXCEPT !.tries = copy.tries - 1]
      BY <2>1, <2>2
    <3> QED BY <2>2, <3>1
  <2> QED BY <2>1, <2>3
<1> QED BY <1>1, <1>2

\* A step of _upload_selected that goes on to another camera or attempt without a
\* new tile.
LEMMA NothingShown ==
  ASSUME IInv, UNCHANGED ring, UNCHANGED <<inputs, snaps, tile>>,
         phase' \notin {"first", "rest", "snapshot"}, copy' \in [seq : Nat, first : Nat \cup {Noise}, tries : Int],
         \A d \in DOMAIN selected' : d \in DOMAIN selected /\ selected'[d] = selected[d]
  PROVE  IInv'
<1>1. Before
  BY PaintKeeps
<1>2. ChoiceInv' /\ TileInv'
  BY <1>1, ChoiceKept, TileKept
<1>3. CopyInv' /\ TodoInv'
  BY NoCopyLeft DEF TodoInv
<1> QED BY <1>1, <1>2, <1>3 DEF IInv, Before

LEMMA FileSame ==
  ASSUME UNCHANGED ring, UNCHANGED inputs
  PROVE  \A c \in Camera : NextFile(c) = File(c)
BY DEF ring, inputs, NextFile, File

LEMMA BeginKeeps ==
  ASSUME IInv, NEW c \in Camera, BeginCopy(c), UNCHANGED ring
  PROVE  IInv'
<1>1. UNCHANGED <<inputs, todo, snaps, selected, tile>> /\ phase' = "first"
  BY DEF BeginCopy, choice, picture
<1>2. Before
  BY <1>1, PaintKeeps
<1>3. ChoiceInv' /\ TileInv'
  BY <1>1, <1>2, ChoiceKept, TileKept
<1>4. c = Head(todo) /\ Has(c)
  BY DEF BeginCopy, At, IInv, ChoiceInv, Reached
<1>5. File(c).seq \in Nat
  BY <1>4, FileIsRing DEF IInv
<1>6. copy' \in [seq : Nat, first : Nat \cup {Noise}, tries : Int] /\ copy'.seq = File(c).seq
  <2>1. copy \in [seq : Nat, first : Nat \cup {Noise}, tries : Int] /\ Retries \in Int
    BY BevAssumption DEF IInv, CopyInv
  <2> QED BY <1>5, <2>1 DEF BeginCopy
<1>7. NextFile(c) = File(c)
  BY <1>1, FileSame
<1>8. ASSUME NEW d \in Camera, At(d, "first")' PROVE d = c
  BY <1>1, <1>4, <1>8 DEF At
<1>9. \A d \in Camera : ~At(d, "rest")'
  BY <1>1 DEF At
<1>10. File(c)' = File(c)
  BY <1>7 DEF File, NextFile
<1>11. copy'.seq <= File(c)'.seq
  BY <1>5, <1>6, <1>10
<1>12. CopyInv'
  BY <1>6, <1>8, <1>9, <1>11 DEF CopyInv
<1>13. TodoInv'
  BY <1>1 DEF TodoInv
<1> QED BY <1>2, <1>3, <1>12, <1>13 DEF IInv, Before

LEMMA HalfKeeps ==
  ASSUME IInv, NEW c \in Camera, CopyHalf(c), UNCHANGED ring
  PROVE  IInv'
<1>1. UNCHANGED <<inputs, snaps, tile>>
  BY DEF CopyHalf, picture
<1>2. CASE Fail(c)
  BY <1>1, <1>2, FailKeeps, NothingShown
<1>3. CASE ~Fail(c)
  <2>1. /\ copy.seq % 2 = 0 /\ phase' = "rest" /\ UNCHANGED <<todo, selected>>
        /\ copy' = [copy EXCEPT !.first = Pixels(c, File(c).first, selected[c].slot)]
        /\ At(c, "first")
    BY <1>3 DEF CopyHalf
  <2>2. Before
    BY <1>1, PaintKeeps
  <2>3. ChoiceInv' /\ TileInv'
    BY <1>1, <2>1, <2>2, ChoiceKept, TileKept
  <2>4. c = Head(todo) /\ Has(c) /\ selected[c].slot \in Slot
    BY <2>1 DEF At, IInv, ChoiceInv, Reached, Reach
  <2>5. /\ Pixels(c, File(c).first, selected[c].slot) \in Nat \cup {Noise}
        /\ File(c).seq \in Nat
    <3>1. File(c).first \in [Slot -> Nat] /\ File(c).seq \in Nat /\ 0 \in Slot
      BY <2>4, FileIsRing, ActiveAndFree DEF IInv, Ring
    <3> QED BY <2>4, <3>1 DEF Pixels
  <2>6. copy \in [seq : Nat, first : Nat \cup {Noise}, tries : Int] /\ copy.seq <= File(c).seq
    BY <2>1 DEF IInv, CopyInv
  <2>7. /\ copy' \in [seq : Nat, first : Nat \cup {Noise}, tries : Int] /\ copy'.seq = copy.seq
        /\ copy'.first = Pixels(c, File(c).first, selected[c].slot)
    BY <2>1, <2>5, <2>6
  <2>8. File(c)' = File(c)
    BY <1>1, FileSame DEF File, NextFile
  <2>9. ASSUME NEW d \in Camera, At(d, "rest")' PROVE d = c
    BY <2>1, <2>4, <2>9 DEF At
  <2>10. \A d \in Camera : ~At(d, "first")'
    BY <2>1 DEF At
  <2>11. /\ copy'.seq <= File(c)'.seq /\ copy'.seq % 2 = 0
         /\ copy'.first = Pixels(c, File(c).first, selected[c].slot)'
    <3>1. Pixels(c, File(c).first, selected[c].slot)' = Pixels(c, File(c).first, selected[c].slot)
      BY <1>1, <2>1, <2>8 DEF Pixels, Shaped, Placed, Found, inputs
    <3> QED BY <2>1, <2>6, <2>7, <2>8, <3>1
  <2>12. CopyInv'
    BY <2>7, <2>9, <2>10, <2>11 DEF CopyInv
  <2>13. TodoInv'
    BY <2>1 DEF TodoInv
  <2> QED BY <2>2, <2>3, <2>12, <2>13 DEF IInv, Before
<1> QED BY <1>2, <1>3

\* The one step that makes a tile.  The number was even and is the same after the
\* copy: no write has come in between, and the slot holds one frame.
LEMMA OtherKeeps ==
  ASSUME IInv, NEW c \in Camera, CopyOther(c), UNCHANGED ring
  PROVE  IInv'
<1>1. UNCHANGED <<inputs, snaps>> /\ At(c, "rest")
  BY DEF CopyOther
<1>2. CASE ~Stable(c)
  BY <1>1, <1>2, FailKeeps, NothingShown DEF CopyOther, picture
<1>3. CASE Stable(c)
  <2> DEFINE k == selected[c]
             g == mapped[c].found
             at == IF Placed(c, k.slot) THEN k.slot ELSE 0
             new == [key |-> k, first |-> copy.first, rest |-> Pixels(c, File(c).rest, k.slot)]
  <2>1. Done(c) /\ tile' = [tile EXCEPT ![c] = new]
    BY <1>3 DEF CopyOther
  <2>2. Before
    BY <1>1, PaintKeeps
  <2>3. Reached(c, k)
    BY <1>1 DEF At, IInv, ChoiceInv
  <2>4. Has(c) /\ Reach(File(c), k) /\ k.slot \in Slot /\ k.tick \in Nat /\ at \in Slot
    BY <2>3, Parameters DEF Reached, Reach, Slot
  <2>5. File(c) \in Ring /\ Whole(File(c))
    BY <2>4, FileIsRing DEF IInv
  <2>6. File(c).seq % 2 = 0 /\ copy.first = Pixels(c, File(c).first, k.slot)
    BY <1>1, <1>3 DEF IInv, CopyInv, Stable
  <2>7. Seen(File(c), k.slot) \in Nat
    BY <2>4, <2>5, SeenNat
  <2>8. File(c).first[at] = Seen(File(c), at) /\ File(c).rest[at] = Seen(File(c), at)
    <3> HIDE DEF at
    <3> QED BY <2>4, <2>5, <2>6 DEF Whole
  <2>9. GoodTile(g, File(c), new)
    <3>1. new.key = k
      OBVIOUS
    <3>2. k.tick <= Seen(File(c), k.slot)
      BY <2>4 DEF Reach
    <3>3. Shape \in g => new.first = Seen(File(c), at) /\ new.rest = Seen(File(c), at)
      BY <2>6, <2>8 DEF Pixels, Shaped, Found
    <3>4. DataBytes \in g \/ k.slot = 0 => at = k.slot
      BY DEF Placed, Found
    <3> HIDE DEF new, k, g, at
    <3> QED BY <2>4, <2>7, <3>1, <3>2, <3>3, <3>4 DEF GoodTile
  <2> HIDE DEF new
  <2>10. TileInv'
    <3>1. \A d \in Camera : File(d)' = File(d)
      BY <1>1, FileSame DEF File, NextFile
    <3>2. ASSUME NEW d \in Camera, tile'[d] # NoTile
          PROVE  Has(d)' /\ GoodTile(mapped[d].found, File(d), tile[d])'
      <4>1. CASE d = c
        <5>1. tile'[d] = new
          BY <2>1, <4>1 DEF IInv, TileInv
        <5>2. Has(d)' /\ mapped'[d] = mapped[d]
          BY <1>1, <2>4, <4>1 DEF Has, Opened, inputs
        <5> QED BY <2>9, <3>1, <4>1, <5>1, <5>2
      <4>2. CASE d # c
        <5>1. tile'[d] = tile[d]
          BY <2>1, <4>2 DEF IInv, TileInv
        <5> QED BY <1>1, <3>1, <3>2, <5>1 DEF IInv, TileInv, Has, Opened, inputs
      <4> QED BY <4>1, <4>2
    <3>3. DOMAIN tile' = Camera
      BY <2>1 DEF IInv, TileInv
    <3> QED BY <3>2, <3>3 DEF TileInv
  <2>11. ChoiceInv' /\ CopyInv' /\ TodoInv'
    BY <1>1, <2>1, <2>2, DoneKeeps, ChoiceKept, NoCopyLeft DEF TodoInv
  <2> QED BY <2>2, <2>10, <2>11 DEF IInv, Before
<1> QED BY <1>2, <1>3

LEMMA PaintStepKeeps == ASSUME IInv, Paint PROVE IInv'
<1>1. UNCHANGED ring
  BY DEF Paint
<1>2. ASSUME NEW c \in Camera, OpenInput(c) PROVE IInv'
  BY <1>1, <1>2, OpenKeeps
<1>7. CASE InputsOpen
  BY <1>1, <1>7, OpenedKeeps
<1>3. CASE ChooseFrames
  BY <1>1, <1>3, ChooseKeeps
<1>4. ASSUME NEW c \in Camera, TakeSnapshot(c) PROVE IInv'
  BY <1>1, <1>4, SnapshotKeeps
<1>5. ASSUME NEW c \in Camera, Upload(c) PROVE IInv'
  <2>1. CASE KeepTexture(c)
    BY <1>1, <2>1, DoneKeeps, NothingShown DEF KeepTexture
  <2>2. CASE HoldByBudget(c)
    BY <1>1, <2>2, DoneKeeps, NothingShown DEF HoldByBudget, picture
  <2>3. CASE BeginCopy(c)
    BY <1>1, <2>3, BeginKeeps
  <2>4. CASE CopyHalf(c)
    BY <1>1, <2>4, HalfKeeps
  <2>5. CASE CopyOther(c)
    BY <1>1, <2>5, OtherKeeps
  <2> QED BY <1>5, <2>1, <2>2, <2>3, <2>4, <2>5 DEF Upload
<1>6. CASE Draw
  <2>1. /\ UNCHANGED <<inputs, snaps, tile, copy, selected>> /\ phase' = "open"
    BY <1>6 DEF Draw, choice, picture
  <2>2. copy' \in [seq : Nat, first : Nat \cup {Noise}, tries : Int]
    BY <2>1 DEF IInv, CopyInv
  <2> QED BY <1>1, <2>1, <2>2, NothingShown
<1> QED BY <1>2, <1>3, <1>4, <1>5, <1>6, <1>7 DEF Paint

LEMMA StutterKeeps == ASSUME IInv, UNCHANGED vars PROVE IInv'
<1>1. UNCHANGED ring /\ UNCHANGED <<inputs, phase, todo, snaps, selected, copy, tile>>
  BY DEF vars, choice, picture
<1>2. Before
  BY <1>1, PaintKeeps
<1>3. ChoiceInv' /\ CopyInv' /\ TileInv' /\ TodoInv'
  BY <1>1, <1>2, ChoiceKept, CopyKept, TileKept DEF TodoInv, IInv, Opened, inputs
<1> QED BY <1>2, <1>3 DEF IInv, Before

LEMMA StepKeeps == IInv /\ [Next]_vars => IInv'
BY RingsKeep, PaintStepKeeps, StutterKeeps DEF Next

\* Rings, readers, choices, copies and tiles agree in every reachable state.
THEOREM BevInvariant == Spec => []IInv
BY InitKeeps, StepKeeps, PTL DEF Spec

-----------------------------------------------------------------------------
(* What the runs check on four ticks.                                      *)

\* No texture mixes two frames (copy_slot_frame's check of the sequence number),
\* however many cameras, slots, attempts and deaths of workers there are, unless
\* its reader was opened before height and stride were stored.
THEOREM BevNeverTorn == Spec => []NeverTorn
<1>1. IInv => NeverTorn
  BY DEF IInv, TileInv, GoodTile, NeverTorn, Shaped, Found
<1> QED BY <1>1, BevInvariant, PTL

\* A texture shows the tick of its upload key, or a later one in a slot whose
\* metadata has gone on, so that _upload_selected does not take it for up to date;
\* that is, if its reader was not opened before the geometry was stored.
THEOREM BevShownAsNamed == Spec => []ShownAsNamed
<1>1. ASSUME IInv, NEW c \in Camera, tile[c] # NoTile, Shaped(c), Placed(c, tile[c].key.slot),
             tile[c].first # tile[c].key.tick
      PROVE  /\ tile[c].first > tile[c].key.tick
             /\ File(c).tick[tile[c].key.slot] # tile[c].key.tick
  <2> DEFINE t == tile[c]
             r == File(c)
  <2>1. /\ GoodTile(mapped[c].found, r, t) /\ t.first # t.key.tick
        /\ Shape \in mapped[c].found /\ (DataBytes \in mapped[c].found \/ t.key.slot = 0)
    BY <1>1 DEF IInv, TileInv, Shaped, Placed, Found
  <2> HIDE DEF t, r
  <2>2. /\ t.key.tick \in Nat /\ t.first \in Nat /\ t.key.tick <= t.first
        /\ t.first <= Seen(r, t.key.slot)
    BY <2>1 DEF GoodTile, Reach
  <2>3. t.first > t.key.tick
    BY <2>1, <2>2
  <2>4. r.tick[t.key.slot] # t.key.tick
    BY <2>2, <2>3 DEF Seen, Never
  <2> QED BY <2>3, <2>4 DEF t, r
<1>2. IInv => ShownAsNamed
  BY <1>1 DEF ShownAsNamed
<1> QED BY <1>2, BevInvariant, PTL
-----------------------------------------------------------------------------
(* The types of what a paint keeps.                                        *)

PaintTypes ==
  /\ phase \in {"open", "snapshot", "upload", "first", "rest", "again"}
  /\ readers \in Seq(Camera) /\ todo \in Seq(Camera) /\ cursor \in Nat /\ spent \in BOOLEAN
  /\ copy.tries \in 0 .. Retries
  /\ listed \subseteq {c \in Camera : tile[c] # NoTile}
  /\ basis \in [cams : SUBSET Camera, delayed : BOOLEAN] /\ excused \subseteq Camera
  /\ lineup \in Seq(Camera) /\ held \in [Camera -> Nat]

\* A listing is a sequence without repetition, of as many cameras as the set has.
LEMMA ListingIsSeq ==
  ASSUME NEW list, NEW S \in SUBSET Camera, NEW l \in Listings(list, S)
  PROVE  /\ l \in Seq(Camera) /\ l \in Seq(S) /\ Len(l) = Cardinality(S)
         /\ \A i, j \in 1 .. Len(l) : l[i] = l[j] => i = j
<1>1. Cardinality(S) \in Nat
  BY CameraFinite, FS_Subset, FS_CardinalityType
<1>2. l \in [1 .. Cardinality(S) -> S]
  BY DEF Listings
<1>3. l \in Seq(S)
  BY <1>1, <1>2, SeqDef
<1>4. Len(l) = Cardinality(S) /\ DOMAIN l = 1 .. Len(l)
  BY <1>1, <1>2, <1>3, LenProperties
<1>5. ASSUME NEW i \in 1 .. Len(l), NEW j \in 1 .. Len(l), i < j PROVE l[i] # l[j]
  <2>1. Precedes(list, l[i], l[j])
    BY <1>4, <1>5 DEF Listings
  <2> QED BY <2>1 DEF Precedes
<1>6. \A i, j \in 1 .. Len(l) : l[i] = l[j] => i = j
  <2>1. \A i, j \in 1 .. Len(l) : i < j \/ j < i \/ i = j
    BY <1>1, <1>4
  <2> QED BY <1>5, <2>1
<1>7. l \in Seq(Camera)
  BY <1>3, SeqMonotonic
<1> QED BY <1>3, <1>4, <1>6, <1>7

LEMMA ReachIsCameras == ASSUME IInv PROVE InReach(snaps) \in SUBSET Camera
BY DEF InReach, IInv, ChoiceInv

LEMMA TailIsSeq ==
  ASSUME NEW s \in Seq(Camera), s # <<>>
  PROVE  Tail(s) \in Seq(Camera)
BY HeadTailProperties

\* The place in a list of n of the k-th that is taken when the list is turned by
\* start.
Place(start, n, k) == IF start + k <= n THEN start + k ELSE start + k - n

\* The order in which _budget_order goes through the cameras: the list turned by
\* the cursor.
LEMMA TurnedList ==
  ASSUME NEW l \in Seq(Camera), InTurn(l), cursor \in Nat
  PROVE  /\ todo' \in Seq(Camera) /\ Len(todo') = Len(l) /\ cursor' \in Nat
         /\ Len(l) = 0 => cursor' = cursor
         /\ Len(l) > 0 =>
              \E start \in 0 .. Len(l) - 1 :
                /\ cursor < Len(l) => start = cursor
                /\ cursor' = IF start + 1 = Len(l) THEN 0 ELSE start + 1
                /\ \A k \in 1 .. Len(l) : todo'[k] = l[Place(start, Len(l), k)]
<1>0. Len(l) \in Nat
  BY LenProperties
<1>1. \A i \in 1 .. Len(l) : l[i] \in Camera
  BY LenProperties
<1>2. CASE Len(l) = 0
  <2>1. todo' = <<>> /\ cursor' = cursor
    BY <1>2 DEF InTurn
  <2> QED BY <1>2, <2>1, EmptySeq
<1>3. CASE Len(l) > 0
  <2>0. PICK n \in Nat : n = Len(l) /\ n > 0
    BY <1>0, <1>3
  <2>1. PICK start \in 0 .. n - 1 : start = cursor % n /\ (cursor < n => start = cursor)
    BY <2>0
  <2>9. cursor % Len(l) = start /\ (start + 1) % Len(l) = (start + 1) % n /\ Len(l) # 0
    BY <2>0, <2>1
  <2> DEFINE a == SubSeq(l, start + 1, n)
             b == SubSeq(l, 1, start)
  <2>2. todo' = a \o b /\ cursor' = (start + 1) % n
    <3>1. todo' = SubSeq(l, start + 1, Len(l)) \o SubSeq(l, 1, start) /\ cursor' = (start + 1) % Len(l)
      BY <2>9, Zenon DEF InTurn
    <3> QED BY <2>0, <3>1, Zenon
  <2>3. a \in Seq(Camera) /\ Len(a) = n - start /\ \A i \in 1 .. n - start : a[i] = l[start + i]
    <3>1. \A i \in start + 1 .. n : l[i] \in Camera
      BY <1>1, <2>0, <2>1
    <3>2. /\ a \in Seq(Camera) /\ Len(a) = IF start + 1 <= n THEN n - (start + 1) + 1 ELSE 0
          /\ \A i \in 1 .. n - (start + 1) + 1 : a[i] = l[start + 1 + i - 1]
      BY <2>0, <2>1, <3>1, SubSeqProperties
    <3> HIDE DEF a
    <3>3. n - (start + 1) + 1 = n - start /\ start + 1 <= n
      BY <2>0, <2>1
    <3>4. \A i \in 1 .. n - start : start + 1 + i - 1 = start + i
      BY <2>0, <2>1
    <3> QED BY <3>2, <3>3, <3>4
  <2>4. b \in Seq(Camera) /\ Len(b) = start /\ \A i \in 1 .. start : b[i] = l[i]
    <3>1. \A i \in 1 .. start : l[i] \in Camera
      BY <1>1, <2>0, <2>1
    <3>2. /\ b \in Seq(Camera) /\ Len(b) = IF 1 <= start THEN start - 1 + 1 ELSE 0
          /\ \A i \in 1 .. start - 1 + 1 : b[i] = l[1 + i - 1]
      BY <2>0, <2>1, <3>1, SubSeqProperties
    <3> HIDE DEF b
    <3> QED BY <2>0, <2>1, <3>2
  <2> HIDE DEF a, b
  <2>5. /\ a \o b \in Seq(Camera) /\ Len(a \o b) = Len(a) + Len(b)
        /\ \A i \in 1 .. Len(a) + Len(b) :
             (a \o b)[i] = IF i <= Len(a) THEN a[i] ELSE b[i - Len(a)]
    BY <2>3, <2>4, ConcatProperties
  <2>6. Len(a \o b) = n
    BY <2>0, <2>1, <2>3, <2>4, <2>5
  <2>7. ASSUME NEW k \in 1 .. n PROVE todo'[k] = l[Place(start, n, k)]
    <3>1. CASE start + k <= n
      BY <2>0, <2>1, <2>2, <2>3, <2>4, <2>5, <3>1 DEF Place
    <3>2. CASE start + k > n
      <4>1. k - (n - start) \in 1 .. start /\ ~(k <= n - start) /\ k - (n - start) = start + k - n
        BY <2>0, <2>1, <3>2
      <4>2. (a \o b)[k] = b[k - (n - start)]
        BY <2>0, <2>1, <2>3, <2>4, <2>5, <4>1
      <4>3. Place(start, n, k) = k - (n - start)
        BY <2>0, <2>1, <3>2, <4>1 DEF Place
      <4> QED BY <2>2, <2>4, <4>1, <4>2, <4>3
    <3> QED BY <2>0, <2>1, <3>1, <3>2
  <2>8. cursor' \in Nat /\ cursor' = IF start + 1 = n THEN 0 ELSE start + 1
    <3>1. CASE start + 1 = n
      <4>1. n % n = 0
        BY <2>0
      <4> QED BY <2>2, <3>1, <4>1
    <3>2. CASE start + 1 < n
      <4>1. (start + 1) % n = start + 1
        BY <2>0, <2>1, <3>2
      <4> QED BY <2>0, <2>1, <2>2, <3>2, <4>1
    <3> QED BY <2>0, <2>1, <3>1, <3>2
  <2>10. todo' \in Seq(Camera) /\ Len(todo') = n
    BY <2>2, <2>5, <2>6
  <2> HIDE DEF Place
  <2> QED BY <2>0, <2>1, <2>7, <2>8, <2>10
<1> QED BY <1>0, <1>2, <1>3

LEMMA TypesAtInit == Init => PaintTypes
<1>1. ASSUME Init PROVE PaintTypes
  <2>1. <<>> \in Seq(Camera)
    BY EmptySeq
  <2>2. Retries \in Nat
    BY BevAssumption
  <2>3. copy.tries = 0 /\ 0 \in 0 .. Retries
    BY <1>1, <2>2 DEF Init, BevInit, NoCopy
  <2>4. Order \in Seq(Camera)
    BY BevAssumption
  <2> QED BY <1>1, <2>1, <2>3, <2>4 DEF Init, BevInit, PaintTypes
<1> QED BY <1>1

LEMMA DoneTypes ==
  ASSUME PaintTypes, NEW c, todo # <<>>, Done(c)
  PROVE  /\ phase' = "upload" /\ todo' \in Seq(Camera) /\ copy'.tries \in 0 .. Retries
<1>1. Retries \in Nat
  BY BevAssumption
<1>2. copy'.tries = 0
  BY DEF Done, NoCopy
<1> QED BY <1>1, <1>2, TailIsSeq DEF Done, PaintTypes

LEMMA FailTypes ==
  ASSUME PaintTypes, CopyInv, NEW c, todo # <<>>, Fail(c)
  PROVE  /\ phase' \in {"upload", "again"} /\ todo' \in Seq(Camera)
         /\ copy'.tries \in 0 .. Retries
<1>1. CASE Done(c)
  BY <1>1, DoneTypes
<1>2. CASE ~Done(c)
  <2>1. /\ copy.tries > 1 /\ phase' = "again" /\ todo' = todo
        /\ copy' = [copy EXCEPT !.first = 0, !.tries = @ - 1]
    BY <1>2 DEF Fail
  <2>2. copy'.tries = copy.tries - 1
    BY <2>1 DEF CopyInv
  <2>3. copy.tries \in 0 .. Retries /\ Retries \in Nat
    BY BevAssumption DEF PaintTypes
  <2>4. copy.tries - 1 \in 0 .. Retries
    BY <2>1, <2>3
  <2> QED BY <2>1, <2>2, <2>4 DEF PaintTypes
<1> QED BY <1>1, <1>2

LEMMA UploadTypes ==
  ASSUME IInv, PaintTypes, NEW c \in Camera, Upload(c)
  PROVE  PaintTypes'
<1> USE DEF PaintTypes
<1>1. CASE KeepTexture(c)
  <2>1. /\ UNCHANGED <<readers, spent, cursor, tile, basis, excused, lineup>> /\ Done(c)
        /\ todo # <<>> /\ listed' = listed \cup {c} /\ held' = [held EXCEPT ![c] = 0]
        /\ tile[c] # NoTile
    BY <1>1 DEF KeepTexture, At, UpToDate, inputs, budget
  <2> QED BY <2>1, DoneTypes
<1>2. CASE HoldByBudget(c)
  <2>1. /\ UNCHANGED <<readers, spent, cursor, tile, listed, basis, excused, lineup>> /\ Done(c)
        /\ todo # <<>>
        /\ held' = IF spent THEN [held EXCEPT ![c] = @ + 1] ELSE [d \in Camera |-> 0]
    BY <1>2 DEF HoldByBudget, At, inputs, budget, picture
  <2>2. held' \in [Camera -> Nat]
    BY <2>1
  <2> QED BY <2>1, <2>2, DoneTypes
<1>3. CASE BeginCopy(c)
  <2>1. /\ UNCHANGED <<readers, todo, cursor, tile, listed, basis, excused, lineup>>
        /\ phase' = "first" /\ spent' = TRUE /\ held' = [held EXCEPT ![c] = 0]
        /\ \/ copy' = [seq |-> File(c).seq, first |-> 0, tries |-> Retries]
           \/ copy' = [copy EXCEPT !.seq = File(c).seq]
    BY <1>3 DEF BeginCopy, inputs, picture
  <2>2. Retries \in 0 .. Retries
    BY BevAssumption
  <2>3. copy'.tries \in {Retries, copy.tries}
    <3>1. copy \in [seq : Nat, first : Nat \cup {Noise}, tries : Int]
      BY DEF IInv, CopyInv
    <3> QED BY <2>1, <3>1
  <2> QED BY <2>1, <2>2, <2>3
<1>4. CASE CopyHalf(c)
  <2>1. /\ UNCHANGED <<readers, spent, cursor, tile, listed, basis, excused, lineup, held>>
        /\ todo # <<>>
    BY <1>4 DEF CopyHalf, At, inputs, budget, picture, turns
  <2>2. CASE Fail(c)
    BY <2>1, <2>2, FailTypes DEF IInv
  <2>3. CASE ~Fail(c)
    <3>1. /\ copy' = [copy EXCEPT !.first = Pixels(c, File(c).first, selected[c].slot)]
          /\ phase' = "rest" /\ UNCHANGED todo
      BY <1>4, <2>3 DEF CopyHalf
    <3>2. copy'.tries = copy.tries
      BY <3>1 DEF IInv, CopyInv
    <3> QED BY <2>1, <3>1, <3>2
  <2> QED BY <2>2, <2>3
<1>5. CASE CopyOther(c)
  <2>1. UNCHANGED <<readers, spent, cursor, basis, lineup, held>> /\ todo # <<>>
    BY <1>5 DEF CopyOther, At, inputs, budget, turns
  <2>2. CASE Stable(c)
    <3> DEFINE new == [key |-> selected[c], first |-> copy.first,
                       rest |-> Pixels(c, File(c).rest, selected[c].slot)]
    <3>1. /\ tile' = [tile EXCEPT ![c] = new] /\ Done(c)
          /\ listed' = listed \cup {c} /\ excused' = excused \ {c}
      BY <1>5, <2>2 DEF CopyOther
    <3>2. new # NoTile
      <4>1. "key" \in DOMAIN new /\ "key" \notin DOMAIN NoTile
        BY DEF NoTile
      <4> QED BY <4>1
    <3> HIDE DEF new
    <3>3. \A d \in Camera : tile[d] # NoTile \/ d = c => tile'[d] # NoTile
      BY <3>1, <3>2 DEF IInv, TileInv
    <3> QED BY <2>1, <3>1, <3>3, DoneTypes
  <2>3. CASE ~Stable(c)
    BY <1>5, <2>1, <2>3, FailTypes DEF CopyOther, picture, IInv
  <2> QED BY <2>2, <2>3
<1> QED BY <1>1, <1>2, <1>3, <1>4, <1>5 DEF Upload

LEMMA ChooseTypes == ASSUME IInv, PaintTypes, ChooseFrames PROVE PaintTypes'
<1>1. /\ phase' = "upload" /\ UNCHANGED <<readers, mapped, copy, spent, tile>> /\ listed' \subseteq listed
      /\ basis' \in {basis, [cams |-> DOMAIN snaps, delayed |-> Delayed(snaps)]}
      /\ excused' \in {excused, Camera}
  BY DEF ChooseFrames, inputs
<1>2. PICK l \in Listings(readers, InReach(snaps)) :
        InTurn(l) /\ lineup' = l /\ held' \in {held, [c \in Camera |-> 0]}
  BY DEF ChooseFrames
<1>3. l \in Seq(Camera)
  BY ReachIsCameras, ListingIsSeq
<1>4. todo' \in Seq(Camera) /\ cursor' \in Nat
  BY <1>2, <1>3, TurnedList DEF PaintTypes
<1>5. DOMAIN snaps \subseteq Camera /\ Delayed(snaps) \in BOOLEAN
  BY DEF IInv, ChoiceInv, Delayed
<1> QED BY <1>1, <1>2, <1>3, <1>4, <1>5 DEF PaintTypes

LEMMA OpenTypes ==
  ASSUME IInv, PaintTypes, NEW c \in Camera, OpenInput(c)
  PROVE  PaintTypes'
<1>1. /\ todo # <<>> /\ todo' \in {todo, Tail(todo)} /\ readers' \in {readers, Append(readers, c)}
      /\ UNCHANGED <<phase, copy, spent, cursor, tile, listed, basis, excused, lineup, held>>
  BY DEF OpenInput, SkipInput, MapFile, LoadField, inputs, budget, picture, turns
<1>2. todo' \in Seq(Camera) /\ readers' \in Seq(Camera)
  <2>1. Append(readers, c) \in Seq(Camera) /\ Tail(todo) \in Seq(Camera)
    BY <1>1, TailIsSeq, AppendProperties DEF PaintTypes
  <2> QED BY <1>1, <2>1 DEF PaintTypes
<1> QED BY <1>1, <1>2 DEF PaintTypes

LEMMA TypesKept == ASSUME IInv, PaintTypes, [Next]_vars PROVE PaintTypes'
<1>1. CASE Rings
  BY <1>1 DEF Rings, inputs, choice, budget, picture, turns, PaintTypes
<1>2. ASSUME NEW c \in Camera, OpenInput(c) PROVE PaintTypes'
  BY <1>2, OpenTypes
<1>8. CASE InputsOpen
  BY <1>8 DEF InputsOpen, inputs, choice, budget, picture, turns, PaintTypes
<1>3. CASE ChooseFrames
  BY <1>3, ChooseTypes
<1>4. ASSUME NEW c \in Camera, TakeSnapshot(c) PROVE PaintTypes'
  <2>1. /\ todo # <<>> /\ todo' = Tail(todo)
        /\ UNCHANGED <<readers, phase, copy, spent, cursor, tile, listed, basis, excused, lineup, held>>
    BY <1>4 DEF TakeSnapshot, inputs, budget, picture, turns
  <2> QED BY <2>1, TailIsSeq DEF PaintTypes
<1>5. ASSUME NEW c \in Camera, Upload(c) PROVE PaintTypes'
  BY <1>5, UploadTypes
<1>6. CASE Draw
  <2>1. todo' \in Seq(Camera)
    BY <1>6, BevAssumption, EmptySeq DEF Draw
  <2> QED BY <1>6, <2>1 DEF Draw, inputs, choice, picture, turns, PaintTypes
<1>7. CASE UNCHANGED vars
  BY <1>7 DEF vars, inputs, choice, budget, picture, turns, PaintTypes
<1> QED BY <1>1, <1>2, <1>3, <1>4, <1>5, <1>6, <1>7, <1>8 DEF Next, Paint

THEOREM BevTypedPaint == Spec => []PaintTypes
BY BevInvariant, TypesAtInit, TypesKept, PTL DEF Spec

\* Every variable keeps its type, whatever steps of a worker a paint falls between.
THEOREM BevTypes == Spec => []TypeOK
<1>1. ASSUME IInv, PaintTypes PROVE TypeOK
  <2>1. RingTypeOK
    BY <1>1 DEF IInv, RingInv
  <2>2. /\ field \in Field
        /\ \A c \in Camera : mapped[c].file \in 0 .. Len(files[c]) /\ mapped[c].found \subseteq Field
    <3>1. ASSUME NEW c \in Camera
          PROVE  mapped[c].file \in 0 .. Len(files[c]) /\ mapped[c].found \subseteq Field
      <4>1. Len(files[c]) \in Nat
        BY <1>1, FilesAreSeqs DEF IInv
      <4>2. mapped[c] \in [file : Nat, found : SUBSET Field] /\ mapped[c].file <= Len(files[c])
        BY <1>1 DEF IInv, MapInv
      <4> QED BY <4>1, <4>2
    <3> QED BY <1>1, <3>1 DEF IInv, MapInv
  <2>3. DOMAIN snaps \subseteq Camera /\ DOMAIN selected \subseteq Camera
    BY <1>1 DEF IInv, ChoiceInv
  <2>4. copy \in [seq : Nat, first : Nat \cup {Noise}, tries : 0 .. Retries]
    BY <1>1 DEF IInv, CopyInv, PaintTypes
  <2> QED BY <1>1, <2>1, <2>2, <2>3, <2>4 DEF PaintTypes, TypeOK
<1> QED BY <1>1, BevInvariant, BevTypedPaint, PTL
-----------------------------------------------------------------------------
(* The turns of the upload budget.  The camera that a paint begins with is  *)
(* uploaded or up to date; the one that the next paint begins with stands   *)
(* second, and so on: a camera in place k can have been held in n - k of    *)
(* the paints before this one, and one more at its end.                     *)

\* Where the last paint began, and the camera it goes through as the k-th.
Start == IF cursor = 0 THEN Len(lineup) - 1 ELSE cursor - 1
Nth(k) == lineup[Place(Start, Len(lineup), k)]

Uploads == {"upload", "first", "rest", "again"}

\* How many cameras this paint is through with.
Passed == IF phase \in Uploads THEN Len(lineup) - Len(todo) ELSE Len(lineup)

HeldBound(k) == IF k > Passed THEN Len(lineup) - k ELSE IF k = 1 THEN 0 ELSE Len(lineup) - k + 1

TurnInv ==
  /\ \A i, j \in 1 .. Len(lineup) : lineup[i] = lineup[j] => i = j
  /\ \A c \in Camera : held[c] > 0 => \E i \in 1 .. Len(lineup) : lineup[i] = c
  /\ Len(lineup) > 0 => cursor < Len(lineup)
  /\ \A k \in 1 .. Len(lineup) : held[Nth(k)] <= HeldBound(k)
  /\ phase \in Uploads => /\ Len(todo) <= Len(lineup)
                          /\ \A k \in 1 .. Len(todo) : todo[k] = Nth(Passed + k)
  /\ phase \in {"first", "rest", "again"} => todo # <<>> /\ held[Head(todo)] = 0
  /\ phase \in {"open", "snapshot"} => ~spent
  /\ phase = "upload" /\ Len(todo) = Len(lineup) => ~spent

\* A turned list visits every place once.
LEMMA PlaceOnce ==
  ASSUME NEW n \in Nat, NEW s \in 0 .. n - 1
  PROVE  /\ \A k \in 1 .. n : Place(s, n, k) \in 1 .. n
         /\ \A j, k \in 1 .. n : Place(s, n, j) = Place(s, n, k) => j = k
         /\ \A i \in 1 .. n : \E k \in 1 .. n : Place(s, n, k) = i
<1>1. \A k \in 1 .. n : Place(s, n, k) \in 1 .. n
  BY DEF Place
<1>2. \A j, k \in 1 .. n : Place(s, n, j) = Place(s, n, k) => j = k
  BY DEF Place
<1>3. ASSUME NEW i \in 1 .. n PROVE \E k \in 1 .. n : Place(s, n, k) = i
  <2> DEFINE k == IF i > s THEN i - s ELSE i + n - s
  <2>1. k \in 1 .. n /\ Place(s, n, k) = i
    BY DEF Place
  <2> QED BY <2>1
<1> QED BY <1>1, <1>2, <1>3

\* Turned by one more, the list begins with its second camera and ends with its
\* first.
LEMMA PlaceNext ==
  ASSUME NEW n \in Nat, NEW c \in 0 .. n - 1, NEW k \in 1 .. n
  PROVE  LET s == IF c = 0 THEN n - 1 ELSE c - 1
         IN  Place(c, n, k) = Place(s, n, IF k = n THEN 1 ELSE k + 1)
BY DEF Place

LEMMA NthOnce ==
  ASSUME PaintTypes, TurnInv
  PROVE  /\ \A k \in 1 .. Len(lineup) : Nth(k) \in Camera
         /\ \A j, k \in 1 .. Len(lineup) : Nth(j) = Nth(k) => j = k
         /\ \A i \in 1 .. Len(lineup) : \E k \in 1 .. Len(lineup) : Nth(k) = lineup[i]
<1> DEFINE n == Len(lineup)
<1>1. n \in Nat /\ \A i \in 1 .. n : lineup[i] \in Camera
  BY LenProperties DEF PaintTypes
<1>2. CASE n = 0
  BY <1>2
<1>3. CASE n > 0
  <2>1. Start \in 0 .. n - 1
    BY <1>1, <1>3 DEF Start, TurnInv, PaintTypes
  <2>2. \A i, j \in 1 .. n : lineup[i] = lineup[j] => i = j
    BY DEF TurnInv
  <2> HIDE DEF n
  <2>3. /\ \A k \in 1 .. n : Place(Start, n, k) \in 1 .. n
        /\ \A j, k \in 1 .. n : Place(Start, n, j) = Place(Start, n, k) => j = k
        /\ \A i \in 1 .. n : \E k \in 1 .. n : Place(Start, n, k) = i
    BY <1>1, <2>1, PlaceOnce
  <2>4. \A k \in 1 .. n : Nth(k) = lineup[Place(Start, n, k)]
    BY DEF Nth, n
  <2>5. \A k \in 1 .. n : Nth(k) \in Camera
    BY <1>1, <2>3, <2>4
  <2>6. ASSUME NEW j \in 1 .. n, NEW k \in 1 .. n, Nth(j) = Nth(k) PROVE j = k
    BY <2>2, <2>3, <2>4, <2>6
  <2>7. ASSUME NEW i \in 1 .. n PROVE \E k \in 1 .. n : Nth(k) = lineup[i]
    BY <2>3, <2>4
  <2> QED BY <2>5, <2>6, <2>7 DEF n
<1> QED BY <1>1, <1>2, <1>3

LEMMA TurnsAtInit == Init => TurnInv
<1>1. ASSUME Init PROVE TurnInv
  <2> DEFINE e == <<>>
  <2>1. Len(e) = 0 /\ e \in Seq(Camera)
    BY EmptySeq
  <2>2. lineup = e /\ phase = "open" /\ ~spent /\ \A c \in Camera : held[c] = 0
    BY <1>1 DEF Init, BevInit
  <2> HIDE DEF e
  <2> QED BY <2>1, <2>2 DEF TurnInv, Uploads
<1> QED BY <1>1

\* This paint is through with its next camera: uploaded, up to date or given up,
\* or held after a copy; and the first is never held like this.
LEMMA NextCamera ==
  ASSUME PaintTypes, PaintTypes', TurnInv, phase \in Uploads, todo # <<>>,
         phase' = "upload", todo' = Tail(todo), UNCHANGED <<lineup, cursor>>,
         NEW h \in Nat, held' = [held EXCEPT ![Head(todo)] = h],
         h = 0 \/ (h = held[Head(todo)] + 1 /\ Len(todo) < Len(lineup))
  PROVE  TurnInv'
<1>1. PICK n \in Nat, m \in Nat : n = Len(lineup) /\ m = Len(todo)
  BY LenProperties DEF PaintTypes
<1>2. m > 0 /\ m <= n
  BY <1>1, EmptySeq DEF PaintTypes, TurnInv
<1>3. Len(todo') = m - 1 /\ \A i \in 1 .. m - 1 : todo'[i] = todo[i + 1]
  BY <1>1, HeadTailProperties DEF PaintTypes
<1>4. /\ \A k \in 1 .. n : Nth(k) \in Camera
      /\ \A j, k \in 1 .. n : Nth(j) = Nth(k) => j = k
      /\ \A i \in 1 .. n : \E k \in 1 .. n : Nth(k) = lineup[i]
  BY <1>1, NthOnce
<1>5. Passed = n - m /\ Passed' = n - m + 1
  <2>1. Passed' = n - (m - 1)
    BY <1>1, <1>3 DEF Passed, Uploads
  <2> QED BY <1>1, <2>1 DEF Passed
<1>6. \A k \in 1 .. m : todo[k] = Nth(n - m + k)
  BY <1>1, <1>5 DEF TurnInv
<1>7. Head(todo) = Nth(n - m + 1) /\ Head(todo) \in Camera
  <2>1. Head(todo) = todo[1]
    BY DEF PaintTypes
  <2>2. 1 \in 1 .. m /\ n - m + 1 \in 1 .. n
    BY <1>1, <1>2
  <2> QED BY <1>4, <1>6, <2>1, <2>2
<1>8. \A k \in 1 .. n : Nth(k)' = Nth(k)
  BY DEF Nth, Start
<1>9. \A k \in 1 .. n : held[Nth(k)] <= (IF k > n - m THEN n - k ELSE IF k = 1 THEN 0 ELSE n - k + 1)
  BY <1>1, <1>5 DEF TurnInv, HeldBound
<1>10. \A c \in Camera : held[c] \in Nat /\ held'[c] = IF c = Head(todo) THEN h ELSE held[c]
  BY DEF PaintTypes
<1>11. ASSUME NEW k \in 1 .. n PROVE held'[Nth(k)'] <= HeldBound(k)'
  <2>1. HeldBound(k)' = IF k > n - m + 1 THEN n - k ELSE IF k = 1 THEN 0 ELSE n - k + 1
    BY <1>1, <1>5 DEF HeldBound
  <2>2. CASE k = n - m + 1
    <3>0. k > n - m
      BY <1>1, <1>2, <2>2
    <3>1. held'[Nth(k)'] = h /\ held[Nth(k)] <= n - k
      BY <1>4, <1>7, <1>8, <1>9, <1>10, <2>2, <3>0
    <3>2. h = 0 \/ (h = held[Nth(k)] + 1 /\ k # 1)
      BY <1>1, <1>2, <1>7, <2>2
    <3>3. held[Nth(k)] \in Nat
      BY <1>4, <1>10
    <3> QED BY <1>1, <1>2, <2>1, <2>2, <3>1, <3>2, <3>3
  <2>3. CASE k # n - m + 1
    <3>1. n - m + 1 \in 1 .. n
      BY <1>1, <1>2
    <3>2. Nth(k) # Head(todo)
      BY <1>4, <1>7, <2>3, <3>1
    <3>3. held'[Nth(k)'] = held[Nth(k)]
      BY <1>4, <1>8, <1>10, <3>2
    <3>4. k > n - m + 1 <=> k > n - m
      BY <1>1, <1>2, <2>3
    <3> QED BY <1>9, <2>1, <3>3, <3>4
  <2> QED BY <2>2, <2>3
<1>12. ASSUME NEW k \in 1 .. m - 1 PROVE todo'[k] = Nth(n - m + 1 + k)'
  <2>1. k + 1 \in 1 .. m /\ n - m + (k + 1) = n - m + 1 + k /\ n - m + 1 + k \in 1 .. n
    BY <1>1, <1>2
  <2> QED BY <1>3, <1>6, <1>8, <2>1
<1>13. ASSUME NEW c \in Camera, held'[c] > 0 PROVE \E i \in 1 .. n : lineup[i] = c
  <2>1. CASE c = Head(todo)
    <3>1. /\ cursor \in Nat /\ cursor < n /\ n - m + 1 \in 1 .. n
      BY <1>1, <1>2 DEF TurnInv, PaintTypes
    <3>2. Start \in 0 .. n - 1
      BY <1>1, <3>1 DEF Start
    <3>3. Place(Start, n, n - m + 1) \in 1 .. n
      BY <3>1, <3>2, PlaceOnce
    <3> QED BY <1>1, <1>7, <2>1, <3>3 DEF Nth
  <2>2. CASE c # Head(todo)
    BY <1>1, <1>10, <1>13, <2>2 DEF TurnInv
  <2> QED BY <2>1, <2>2
<1>14. \A i, j \in 1 .. n : lineup[i] = lineup[j] => i = j
  BY <1>1 DEF TurnInv
<1>15. n > 0 => cursor < n
  BY <1>1 DEF TurnInv
<1>16. Len(lineup') = n /\ Len(todo') <= n /\ Len(todo') # n
  BY <1>1, <1>2, <1>3
<1> QED BY <1>3, <1>5, <1>11, <1>12, <1>13, <1>14, <1>15, <1>16 DEF TurnInv, Uploads

\* A camera is held before the first copy of its paint, and the count begins again.
LEMMA CountAgain ==
  ASSUME PaintTypes, PaintTypes', TurnInv, phase \in Uploads, todo # <<>>,
         phase' = "upload", todo' = Tail(todo), UNCHANGED <<lineup, cursor>>,
         held' = [d \in Camera |-> 0]
  PROVE  TurnInv'
<1>1. PICK n \in Nat, m \in Nat : n = Len(lineup) /\ m = Len(todo)
  BY LenProperties DEF PaintTypes
<1>2. m > 0 /\ m <= n
  BY <1>1, EmptySeq DEF PaintTypes, TurnInv
<1>3. Len(todo') = m - 1 /\ \A i \in 1 .. m - 1 : todo'[i] = todo[i + 1]
  BY <1>1, HeadTailProperties DEF PaintTypes
<1>4. Passed = n - m /\ Passed' = n - m + 1
  <2>1. Passed' = n - (m - 1)
    BY <1>1, <1>3 DEF Passed, Uploads
  <2> QED BY <1>1, <2>1 DEF Passed
<1>5. \A k \in 1 .. m : todo[k] = Nth(n - m + k)
  BY <1>1, <1>4 DEF TurnInv
<1>6. \A k : Nth(k)' = Nth(k)
  BY DEF Nth, Start
<1>7. \A k \in 1 .. n : Nth(k) \in Camera
  BY <1>1, NthOnce
<1>8. \A k \in 1 .. n : HeldBound(k)' >= 0
  BY <1>1, <1>4 DEF HeldBound
<1>9. \A k \in 1 .. n : held'[Nth(k)'] <= HeldBound(k)'
  <2>1. \A k \in 1 .. n : held'[Nth(k)'] = 0
    BY <1>6, <1>7
  <2>2. \A k \in 1 .. n : HeldBound(k)' \in Int
    BY <1>1, <1>4 DEF HeldBound
  <2> QED BY <1>8, <2>1, <2>2
<1>10. ASSUME NEW k \in 1 .. m - 1 PROVE todo'[k] = Nth(n - m + 1 + k)'
  <2>1. k + 1 \in 1 .. m /\ n - m + (k + 1) = n - m + 1 + k
    BY <1>1, <1>2
  <2> QED BY <1>3, <1>5, <1>6, <2>1
<1>11. /\ \A i, j \in 1 .. n : lineup[i] = lineup[j] => i = j
       /\ n > 0 => cursor < n
  BY <1>1 DEF TurnInv
<1>12. Len(lineup') = n /\ Len(todo') <= n /\ Len(todo') # n
  BY <1>1, <1>2, <1>3
<1>13. \A c \in Camera : ~(held'[c] > 0)
  OBVIOUS
<1> QED BY <1>3, <1>4, <1>9, <1>10, <1>11, <1>12, <1>13 DEF TurnInv, Uploads

\* An attempt to copy the next camera begins or goes on.
LEMMA SameCamera ==
  ASSUME PaintTypes, PaintTypes', TurnInv, phase \in Uploads, todo # <<>>,
         phase' \in {"first", "rest", "again"}, UNCHANGED <<todo, lineup, cursor>>,
         held' = [held EXCEPT ![Head(todo)] = 0]
  PROVE  TurnInv'
<1>1. PICK n \in Nat : n = Len(lineup)
  BY LenProperties DEF PaintTypes
<1>2. Head(todo) \in Camera
  BY HeadTailProperties DEF PaintTypes
<1>3. \A c \in Camera : held[c] \in Nat /\ held'[c] = IF c = Head(todo) THEN 0 ELSE held[c]
  BY DEF PaintTypes
<1>4. \A k : Nth(k)' = Nth(k) /\ HeldBound(k)' = HeldBound(k)
  BY DEF Nth, Start, HeldBound, Passed, Uploads
<1>5. Passed' = Passed
  BY DEF Passed, Uploads
<1>6. \A k \in 1 .. n : Nth(k) \in Camera /\ held[Nth(k)] <= HeldBound(k) /\ HeldBound(k) \in Int
  <2>1. Len(todo) \in Nat
    BY LenProperties DEF PaintTypes
  <2>2. Passed \in Int
    BY <1>1, <2>1 DEF Passed
  <2>3. \A k \in 1 .. n : HeldBound(k) \in Int
    BY <1>1, <2>2 DEF HeldBound
  <2>4. \A k \in 1 .. n : Nth(k) \in Camera
    BY <1>1, NthOnce
  <2> QED BY <1>1, <2>3, <2>4 DEF TurnInv
<1>7. \A k \in 1 .. n : held'[Nth(k)'] <= HeldBound(k)'
  BY <1>3, <1>4, <1>6
<1>8. \A c \in Camera : held'[c] > 0 => held[c] > 0
  BY <1>3
<1>9. held'[Head(todo)] = 0
  BY <1>2, <1>3
<1>10. /\ Len(todo) <= n /\ \A k \in 1 .. Len(todo) : todo[k] = Nth(Passed + k)
       /\ \A c \in Camera : held[c] > 0 => \E i \in 1 .. n : lineup[i] = c
       /\ n > 0 => cursor < n
       /\ \A i, j \in 1 .. n : lineup[i] = lineup[j] => i = j
  BY <1>1 DEF TurnInv
<1>11. \A k \in 1 .. Len(todo') : todo'[k] = Nth(Passed + k)'
  BY <1>4, <1>5, <1>10
<1>12. \A c \in Camera : held'[c] > 0 => \E i \in 1 .. n : lineup'[i] = c
  BY <1>8, <1>10
<1>13. /\ lineup' = lineup /\ todo' = todo /\ cursor' = cursor
       /\ phase' \notin {"open", "snapshot", "upload"}
  OBVIOUS
<1> QED BY <1>1, <1>7, <1>9, <1>10, <1>11, <1>12, <1>13 DEF TurnInv

\* Steps that touch none of this.
LEMMA TurnsLeft ==
  ASSUME TurnInv, UNCHANGED <<todo, lineup, cursor, held, phase, spent>>
  PROVE  TurnInv'
BY DEF TurnInv, Nth, Start, HeldBound, Passed

LEMMA DoneTurns ==
  ASSUME IInv, PaintTypes, PaintTypes', TurnInv, NEW c \in Camera, Done(c), todo # <<>>, c = Head(todo),
         phase \in Uploads, UNCHANGED <<lineup, cursor>>,
         \/ held' = [held EXCEPT ![c] = 0]
         \/ held' = held /\ held[c] = 0
         \/ held' = [held EXCEPT ![c] = @ + 1] /\ Len(todo) < Len(lineup)
  PROVE  TurnInv'
<1>1. phase' = "upload" /\ todo' = Tail(todo)
  BY DEF Done
<1>2. held \in [Camera -> Nat]
  BY DEF PaintTypes
<1>3. CASE held' = [held EXCEPT ![c] = 0] \/ (held' = held /\ held[c] = 0)
  <2>1. held' = [held EXCEPT ![Head(todo)] = 0]
    BY <1>2, <1>3
  <2> QED BY <1>1, <2>1, NextCamera
<1>4. CASE held' = [held EXCEPT ![c] = @ + 1] /\ Len(todo) < Len(lineup)
  <2>1. held[c] + 1 \in Nat /\ held' = [held EXCEPT ![Head(todo)] = held[c] + 1]
    BY <1>2, <1>4
  <2> QED BY <1>1, <1>4, <2>1, NextCamera
<1> QED BY <1>3, <1>4

LEMMA FailTurns ==
  ASSUME IInv, PaintTypes, PaintTypes', TurnInv, NEW c \in Camera, Fail(c), todo # <<>>, c = Head(todo),
         phase \in {"first", "rest"}, UNCHANGED <<lineup, cursor, held>>
  PROVE  TurnInv'
<1>1. held[c] = 0 /\ held \in [Camera -> Nat] /\ phase \in Uploads
  BY DEF TurnInv, PaintTypes, Uploads
<1>2. CASE Done(c)
  BY <1>1, <1>2, DoneTurns
<1>3. CASE ~Done(c)
  <2>1. phase' = "again" /\ todo' = todo
    BY <1>3 DEF Fail
  <2>2. held' = [held EXCEPT ![Head(todo)] = 0]
    BY <1>1
  <2> QED BY <1>1, <2>1, <2>2, SameCamera
<1> QED BY <1>2, <1>3

LEMMA UploadTurns ==
  ASSUME IInv, PaintTypes, PaintTypes', TurnInv, NEW c \in Camera, Upload(c)
  PROVE  TurnInv'
<1>0. held \in [Camera -> Nat] /\ {"upload", "first", "rest", "again"} \subseteq Uploads
  BY DEF PaintTypes, Uploads
<1>1. CASE KeepTexture(c)
  <2>1. /\ UNCHANGED <<cursor, lineup>> /\ Done(c) /\ phase = "upload"
        /\ todo # <<>> /\ c = Head(todo) /\ held' = [held EXCEPT ![c] = 0]
    BY <1>1 DEF KeepTexture, At, budget
  <2> QED BY <1>0, <2>1, DoneTurns
<1>2. CASE HoldByBudget(c)
  <2>1. /\ UNCHANGED <<cursor, lineup>> /\ Done(c) /\ phase = "upload"
        /\ todo # <<>> /\ c = Head(todo)
        /\ held' = IF spent THEN [held EXCEPT ![c] = @ + 1] ELSE [d \in Camera |-> 0]
    BY <1>2 DEF HoldByBudget, At, budget
  <2>2. Len(todo) \in Nat /\ Len(lineup) \in Nat
    BY LenProperties DEF PaintTypes
  <2>3. CASE spent
    <3>1. Len(todo) < Len(lineup)
      BY <1>0, <2>1, <2>2, <2>3 DEF TurnInv
    <3> QED BY <1>0, <2>1, <2>3, <3>1, DoneTurns
  <2>4. CASE ~spent
    BY <1>0, <2>1, <2>4, CountAgain DEF Done
  <2> QED BY <2>3, <2>4
<1>3. CASE BeginCopy(c)
  <2>1. /\ UNCHANGED <<todo, cursor, lineup>> /\ phase \in {"upload", "again"} /\ phase' = "first"
        /\ todo # <<>> /\ c = Head(todo) /\ held' = [held EXCEPT ![c] = 0]
    BY <1>3 DEF BeginCopy, At
  <2> QED BY <1>0, <2>1, SameCamera
<1>4. CASE CopyHalf(c)
  <2>1. UNCHANGED <<cursor, lineup, held>> /\ phase = "first" /\ todo # <<>> /\ c = Head(todo)
    BY <1>4 DEF CopyHalf, At, budget, turns
  <2>2. CASE Fail(c)
    BY <2>1, <2>2, FailTurns
  <2>3. CASE ~Fail(c)
    <3>1. phase' = "rest" /\ todo' = todo
      BY <1>4, <2>3 DEF CopyHalf
    <3>2. held' = [held EXCEPT ![Head(todo)] = 0]
      BY <1>0, <2>1 DEF TurnInv
    <3> QED BY <1>0, <2>1, <3>1, <3>2, SameCamera
  <2> QED BY <2>2, <2>3
<1>5. CASE CopyOther(c)
  <2>1. UNCHANGED <<cursor, lineup, held>> /\ phase = "rest" /\ todo # <<>> /\ c = Head(todo)
    BY <1>5 DEF CopyOther, At, budget, turns
  <2>2. CASE Stable(c)
    <3>1. Done(c) /\ held[c] = 0
      BY <1>5, <2>1, <2>2 DEF CopyOther, TurnInv
    <3> QED BY <1>0, <2>1, <3>1, DoneTurns
  <2>3. CASE ~Stable(c)
    BY <1>5, <2>1, <2>3, FailTurns DEF CopyOther
  <2> QED BY <2>2, <2>3
<1> QED BY <1>1, <1>2, <1>3, <1>4, <1>5 DEF Upload

\* A new paint.  With the cameras of the last one the list is turned by one more;
\* with others the count begins again.
LEMMA ChooseTurns ==
  ASSUME IInv, PaintTypes, PaintTypes', TurnInv, ChooseFrames
  PROVE  TurnInv'
<1>1. phase = "snapshot" /\ phase' = "upload" /\ spent' = spent
  BY DEF ChooseFrames
<1>2. PICK l \in Listings(readers, InReach(snaps)) :
        InTurn(l) /\ lineup' = l /\ held' = IF l = lineup THEN held ELSE [c \in Camera |-> 0]
  BY DEF ChooseFrames
<1>3. l \in Seq(Camera) /\ \A i, j \in 1 .. Len(l) : l[i] = l[j] => i = j
  BY ReachIsCameras, ListingIsSeq
<1>4. PICK n \in Nat : n = Len(l)
  BY <1>3, LenProperties
<1>5. /\ Len(todo') = n
      /\ n = 0 => cursor' = cursor
      /\ n > 0 => \E start \in 0 .. n - 1 :
                    /\ cursor < n => start = cursor
                    /\ cursor' = IF start + 1 = n THEN 0 ELSE start + 1
                    /\ \A k \in 1 .. n : todo'[k] = l[Place(start, n, k)]
  <2>1. InTurn(l) /\ cursor \in Nat
    BY <1>2 DEF PaintTypes
  <2>2. /\ Len(todo') = Len(l)
        /\ Len(l) = 0 => cursor' = cursor
        /\ Len(l) > 0 =>
             \E start \in 0 .. Len(l) - 1 :
               /\ cursor < Len(l) => start = cursor
               /\ cursor' = IF start + 1 = Len(l) THEN 0 ELSE start + 1
               /\ \A k \in 1 .. Len(l) : todo'[k] = l[Place(start, Len(l), k)]
    BY <1>3, <2>1, TurnedList
  <2> QED BY <1>4, <2>2
<1>6. ~spent' /\ phase' \in Uploads
  BY <1>1 DEF TurnInv, Uploads
<1>7. Passed' = 0
  BY <1>2, <1>4, <1>5, <1>6 DEF Passed
<1>8. \A k \in 1 .. n : HeldBound(k)' = n - k
  BY <1>2, <1>4, <1>7 DEF HeldBound
<1>9. /\ n > 0 => cursor' < n
      /\ \A k \in 1 .. n : todo'[k] = Nth(k)' /\ (cursor < n => Nth(k)' = l[Place(cursor, n, k)])
  <2>1. CASE n = 0
    BY <2>1
  <2>2. CASE n > 0
    <3>1. PICK start \in 0 .. n - 1 :
            /\ cursor < n => start = cursor
            /\ cursor' = IF start + 1 = n THEN 0 ELSE start + 1
            /\ \A k \in 1 .. n : todo'[k] = l[Place(start, n, k)]
      BY <1>5, <2>2
    <3>2. Start' = start
      BY <1>2, <1>4, <3>1 DEF Start
    <3>3. \A k : Nth(k)' = l[Place(start, n, k)]
      BY <1>2, <1>4, <3>2 DEF Nth
    <3>4. cursor' < n
      BY <3>1
    <3> QED BY <3>1, <3>3, <3>4
  <2> QED BY <2>1, <2>2
<1>10. ASSUME NEW k \in 1 .. n PROVE held'[Nth(k)'] <= n - k
  <2>1. CASE l # lineup
    <3>1. Nth(k)' \in Camera
      <4>1. todo'[k] \in Camera
        BY <1>4, <1>5, ElementOfSeq DEF PaintTypes
      <4> QED BY <1>9, <4>1
    <3>2. held'[Nth(k)'] = 0
      BY <1>2, <2>1, <3>1
    <3> QED BY <3>2
  <2>2. CASE l = lineup
    <3> DEFINE q == IF k = n THEN 1 ELSE k + 1
    <3>1. cursor \in 0 .. n - 1 /\ q \in 1 .. n
      BY <1>4, <2>2 DEF TurnInv, PaintTypes
    <3>2. Start = IF cursor = 0 THEN n - 1 ELSE cursor - 1
      BY <1>4, <2>2 DEF Start
    <3>3. Place(cursor, n, k) = Place(Start, n, q)
      BY <3>1, <3>2, PlaceNext
    <3>4. Nth(k)' = Nth(q)
      BY <1>4, <1>9, <2>2, <3>1, <3>3 DEF Nth
    <3>5. Passed = n
      BY <1>1, <1>4, <2>2 DEF Passed, Uploads
    <3>6. held[Nth(q)] <= HeldBound(q)
      BY <1>4, <2>2, <3>1 DEF TurnInv
    <3>7. HeldBound(q) = n - k
      BY <1>4, <2>2, <3>1, <3>5 DEF HeldBound
    <3> HIDE DEF q
    <3> QED BY <1>2, <2>2, <3>4, <3>6, <3>7
  <2> QED BY <2>1, <2>2
<1>11. ASSUME NEW c \in Camera, held'[c] > 0 PROVE \E i \in 1 .. n : l[i] = c
  <2>1. l = lineup /\ held' = held
    BY <1>2, <1>11
  <2> QED BY <1>4, <1>11, <2>1 DEF TurnInv
<1>12. \A k \in 1 .. n : todo'[k] = Nth(0 + k)'
  BY <1>9
<1>13. lineup' = l
  BY <1>2
<1> HIDE DEF Nth, HeldBound, Passed
<1> QED BY <1>1, <1>3, <1>4, <1>5, <1>6, <1>7, <1>8, <1>9, <1>10, <1>11, <1>12, <1>13 DEF TurnInv

\* Between two paints everybody has been passed.
LEMMA BetweenTurns ==
  ASSUME PaintTypes, TurnInv, UNCHANGED <<lineup, cursor, held>>,
         phase' \in {"open", "snapshot"}, ~spent',
         phase \in {"open", "snapshot"} \/ (phase = "upload" /\ todo = <<>>)
  PROVE  TurnInv'
<1>1. PICK n \in Nat : n = Len(lineup)
  BY LenProperties DEF PaintTypes
<1>2. Len(<<>>) = 0
  OBVIOUS
<1>3. Passed = n /\ Passed' = n
  BY <1>1, <1>2 DEF Passed, Uploads
<1>4. \A k \in 1 .. n : Nth(k)' = Nth(k) /\ HeldBound(k)' = HeldBound(k)
  BY <1>1, <1>3 DEF Nth, Start, HeldBound
<1> HIDE DEF Nth, HeldBound, Passed
<1> QED BY <1>1, <1>4 DEF TurnInv, Uploads

LEMMA TurnsKept == ASSUME IInv, PaintTypes, PaintTypes', TurnInv, [Next]_vars PROVE TurnInv'
<1>1. CASE Rings
  BY <1>1, TurnsLeft DEF Rings, budget, turns
<1>2. ASSUME InputsOpen \/ \E c \in Camera : OpenInput(c) PROVE TurnInv'
  <2>1. /\ phase = "open" /\ phase' \in {"open", "snapshot"}
        /\ UNCHANGED <<lineup, cursor, held, spent>>
    BY <1>2 DEF InputsOpen, OpenInput, SkipInput, MapFile, LoadField, budget, turns
  <2> QED BY <2>1, BetweenTurns DEF TurnInv
<1>3. CASE ChooseFrames
  BY <1>3, ChooseTurns
<1>4. ASSUME NEW c \in Camera, TakeSnapshot(c) PROVE TurnInv'
  <2>1. phase = "snapshot" /\ UNCHANGED <<phase, lineup, cursor, held, spent>>
    BY <1>4 DEF TakeSnapshot, budget, turns
  <2> QED BY <2>1, BetweenTurns DEF TurnInv
<1>5. ASSUME NEW c \in Camera, Upload(c) PROVE TurnInv'
  BY <1>5, UploadTurns
<1>6. CASE Draw
  <2>1. phase = "upload" /\ todo = <<>> /\ phase' = "open" /\ ~spent' /\ UNCHANGED <<lineup, cursor, held>>
    BY <1>6 DEF Draw, turns
  <2> QED BY <2>1, BetweenTurns
<1>7. CASE UNCHANGED vars
  BY <1>7, TurnsLeft DEF vars, budget, turns
<1> QED BY <1>1, <1>2, <1>3, <1>4, <1>5, <1>6, <1>7 DEF Next, Paint

\* While the selection stays the same, the upload budget (_budget_order) holds no
\* camera in as many paints running as cameras are selected, for any number of
\* cameras and whatever copies fail.
THEOREM BevNoneStarves == Spec => []NoneStarves
<1>1. ASSUME PaintTypes, TurnInv, NEW c \in Camera, held[c] > 0 PROVE held[c] < Len(lineup)
  <2>1. PICK n \in Nat, m \in Nat : n = Len(lineup) /\ m = Len(todo)
    BY <1>1, LenProperties DEF PaintTypes
  <2>2. PICK k \in 1 .. n : Nth(k) = c
    BY <1>1, <2>1, NthOnce DEF TurnInv
  <2>3. held[c] <= HeldBound(k) /\ held[c] \in Nat
    BY <1>1, <2>1, <2>2 DEF TurnInv, PaintTypes
  <2>4. HeldBound(k) < n \/ HeldBound(k) = 0
    BY <2>1 DEF HeldBound
  <2>5. HeldBound(k) \in Int
    BY <2>1 DEF HeldBound, Passed
  <2> QED BY <1>1, <2>1, <2>3, <2>4, <2>5
<1>2. PaintTypes /\ TurnInv => NoneStarves
  BY <1>1 DEF NoneStarves
<1>3. Spec => []TurnInv
  BY BevInvariant, BevTypedPaint, TurnsAtInit, TurnsKept, PTL DEF Spec
<1> QED BY <1>2, <1>3, BevTypedPaint, PTL
-----------------------------------------------------------------------------
(* The target only goes forward while it is taken from the same rings, and  *)
(* a choice that was nearest to a target is never gone behind by the choice *)
(* for a later one.                                                         *)

\* Whatever target from T on is taken, the frame of snap that is nearest to it is
\* not older than k: an older one is there only beside k itself, and T is nearer
\* to k, or as near and k is in the earlier slot.
NeverBefore(snap, k, T) ==
  \A s \in Valid(snap) :
    snap[s] < k.tick => /\ snap[k.slot] = k.tick
                        /\ \/ 2 * T > k.tick + snap[s]
                           \/ 2 * T = k.tick + snap[s] /\ k.slot < s

\* A snapshot of a ring that has reached tick C.
Reaches(snap, C) == \E s \in Valid(snap) : snap[s] >= C

NatTicks(snap) == Valid(snap) # {} /\ \A s \in Valid(snap) : snap[s] \in Nat

LEMMA NeverBeforeFollows ==
  ASSUME NEW a, NEW b, NatTicks(a), NatTicks(b), Follows(a, b), NEW T \in Int,
         NEW k, k.slot \in Slot, k.tick \in Nat, NeverBefore(a, k, T)
  PROVE  NeverBefore(b, k, T)
<1> SUFFICES ASSUME NEW s \in Valid(b), b[s] < k.tick
             PROVE  /\ b[k.slot] = k.tick
                    /\ \/ 2 * T > k.tick + b[s]
                       \/ 2 * T = k.tick + b[s] /\ k.slot < s
  BY DEF NeverBefore
<1>1. b[s] \in Nat /\ s \in Slot /\ b[s] # Never
  BY DEF NatTicks, Valid
<1>2. \A t \in Valid(a) : a[t] < k.tick => k.slot \in Valid(a) /\ a[k.slot] = k.tick
  BY DEF NeverBefore, Valid, Never
<1>3. a[s] = b[s]
  <2> SUFFICES ASSUME \A t \in Valid(a) : a[t] < b[s] PROVE FALSE
    BY DEF Follows
  <2>1. PICK t \in Valid(a) : a[t] \in Nat
    BY DEF NatTicks
  <2>2. a[t] < k.tick
    BY <1>1, <2>1
  <2>3. a[k.slot] < b[s] /\ a[k.slot] = k.tick
    BY <1>2, <2>2
  <2> QED BY <1>1, <2>3
<1>4. s \in Valid(a)
  BY <1>1, <1>3 DEF Valid
<1>5. /\ a[k.slot] = k.tick /\ k.slot \in Valid(a)
      /\ \/ 2 * T > k.tick + b[s]
         \/ 2 * T = k.tick + b[s] /\ k.slot < s
  BY <1>2, <1>3, <1>4 DEF NeverBefore
<1>6. b[k.slot] = k.tick
  <2> SUFFICES ASSUME \A t \in Valid(b) : a[k.slot] < b[t] PROVE FALSE
    BY <1>5 DEF Follows
  <2>1. k.tick < b[s]
    BY <1>5
  <2> QED BY <1>1, <2>1
<1> QED BY <1>5, <1>6

LEMMA NeverBeforeLater ==
  ASSUME NEW snap, NatTicks(snap), NEW k, k.tick \in Nat, NEW T \in Int, NEW U \in Int, T <= U,
         NeverBefore(snap, k, T)
  PROVE  NeverBefore(snap, k, U)
<1> SUFFICES ASSUME NEW s \in Valid(snap), snap[s] < k.tick
             PROVE  /\ snap[k.slot] = k.tick
                    /\ \/ 2 * U > k.tick + snap[s]
                       \/ 2 * U = k.tick + snap[s] /\ k.slot < s
  BY DEF NeverBefore
<1>1. /\ snap[k.slot] = k.tick
      /\ \/ 2 * T > k.tick + snap[s]
         \/ 2 * T = k.tick + snap[s] /\ k.slot < s
  BY DEF NeverBefore
<1>2. snap[s] \in Nat
  BY DEF NatTicks
<1> QED BY <1>1, <1>2

LEMMA ReachesFollows ==
  ASSUME NEW a, NEW b, NatTicks(a), NatTicks(b), Follows(a, b), NEW C \in Int, Reaches(a, C)
  PROVE  Reaches(b, C)
<1>1. PICK s \in Valid(a) : a[s] >= C /\ a[s] \in Nat
  BY DEF Reaches, NatTicks
<1>2. CASE a[s] = b[s]
  <2>1. s \in Valid(b)
    BY <1>2 DEF Valid
  <2> QED BY <1>1, <1>2, <2>1 DEF Reaches
<1>3. CASE a[s] # b[s]
  <2>1. PICK t \in Valid(b) : b[t] \in Nat
    BY DEF NatTicks
  <2>2. a[s] < b[t]
    BY <1>3, <2>1 DEF Follows
  <2>3. b[t] >= C
    BY <1>1, <2>1, <2>2
  <2> QED BY <2>1, <2>3 DEF Reaches
<1> QED BY <1>2, <1>3

LEMMA FollowsOn ==
  ASSUME NEW a, NEW b, NEW c, NatTicks(a), NatTicks(b), NatTicks(c), Follows(a, b), Follows(b, c)
  PROVE  Follows(a, c)
<1>0. PICK m \in Valid(b) : b[m] \in Nat
  BY DEF NatTicks
<1>1. ASSUME NEW s \in Valid(c), NEW t \in Valid(a), a[s] # c[s] PROVE a[t] < c[s]
  <2>0. a[t] \in Nat /\ c[s] \in Nat
    BY DEF NatTicks
  <2>1. CASE b[s] = c[s]
    <3>1. s \in Valid(b)
      BY <2>1 DEF Valid
    <3> QED BY <1>1, <2>1, <3>1 DEF Follows
  <2>2. CASE b[s] # c[s]
    <3>1. \A u \in Valid(b) : b[u] < c[s]
      BY <2>2 DEF Follows
    <3>2. CASE a[t] = b[t]
      <4>1. t \in Valid(b)
        BY <3>2 DEF Valid
      <4> QED BY <3>1, <3>2, <4>1
    <3>3. CASE a[t] # b[t]
      <4>1. a[t] < b[m] /\ b[m] < c[s]
        BY <1>0, <3>1, <3>3 DEF Follows
      <4> QED BY <1>0, <2>0, <4>1
    <3> QED BY <3>2, <3>3
  <2> QED BY <2>1, <2>2
<1>2. ASSUME NEW s \in Valid(a), NEW t \in Valid(c), a[s] # c[s] PROVE a[s] < c[t]
  <2>0. a[s] \in Nat /\ c[t] \in Nat
    BY DEF NatTicks
  <2>1. CASE a[s] = b[s]
    <3>1. s \in Valid(b)
      BY <2>1 DEF Valid
    <3> QED BY <1>2, <2>1, <3>1 DEF Follows
  <2>2. CASE a[s] # b[s]
    <3>1. \A u \in Valid(b) : a[s] < b[u]
      BY <2>2 DEF Follows
    <3>2. CASE b[t] = c[t]
      <4>1. t \in Valid(b)
        BY <3>2 DEF Valid
      <4> QED BY <3>1, <3>2, <4>1
    <3>3. CASE b[t] # c[t]
      <4>1. a[s] < b[m] /\ b[m] < c[t]
        BY <1>0, <3>1, <3>3 DEF Follows
      <4> QED BY <1>0, <2>0, <4>1
    <3> QED BY <3>2, <3>3
  <2> QED BY <2>1, <2>2
<1> QED BY <1>1, <1>2 DEF Follows

\* Nearest: the least distance, and of two frames at it the one in the first slot.
LEMMA NearestLeast ==
  ASSUME NEW snap, NEW T \in Int, NatTicks(snap)
  PROVE  LET k == Nearest(snap, T)
         IN  /\ k.slot \in Valid(snap) /\ k.tick = snap[k.slot] /\ k.tick \in Nat
             /\ \A s \in Valid(snap) :
                  \/ Distance(k.tick, T) < Distance(snap[s], T)
                  \/ Distance(k.tick, T) = Distance(snap[s], T) /\ k.slot <= s
<1> DEFINE D == {Distance(snap[s], T) : s \in Valid(snap)}
           B == {s \in Valid(snap) : Distance(snap[s], T) = Min(D)}
<1>0. Valid(snap) # {} /\ \A s \in Valid(snap) : snap[s] \in Nat /\ Distance(snap[s], T) \in Int
  BY DEF NatTicks, Distance
<1>1. D \in SUBSET Int /\ D # {}
  BY <1>0
<1>2. IsFiniteSet(D)
  <2> DEFINE f == [s \in Valid(snap) |-> Distance(snap[s], T)]
  <2>1. IsFiniteSet({f[s] : s \in Valid(snap)})
    BY ValidFinite, ImageFinite
  <2>2. D = {f[s] : s \in Valid(snap)}
    OBVIOUS
  <2> QED BY <2>1, <2>2
<1>3. Min(D) \in D /\ \A y \in D : Min(D) =< y
  <2> HIDE DEF D
  <2> QED BY <1>1, <1>2, MinIn
<1>4. /\ B # {} /\ B \subseteq Valid(snap)
      /\ \A s \in Valid(snap) : Min(D) =< Distance(snap[s], T)
      /\ \A s \in Valid(snap) : s \in B <=> Distance(snap[s], T) = Min(D)
  BY <1>3
<1>5. Min(D) \in Int
  BY <1>1, <1>3
<1>6. Nearest(snap, T) = [slot |-> Min(B), tick |-> snap[Min(B)]]
  BY DEF Nearest
<1> HIDE DEF D, B
<1>7. IsFiniteSet(B) /\ B \in SUBSET Int
  <2>1. Slot \subseteq Int
    BY DEF Slot
  <2> QED BY <1>4, <2>1, ValidFinite, FS_Subset
<1>8. Min(B) \in B /\ \A s \in B : Min(B) =< s
  BY <1>4, <1>7, MinIn
<1>9. Min(B) \in Valid(snap) /\ Distance(snap[Min(B)], T) = Min(D)
  BY <1>4, <1>8
<1>10. ASSUME NEW s \in Valid(snap)
       PROVE  \/ Distance(snap[Min(B)], T) < Distance(snap[s], T)
              \/ Distance(snap[Min(B)], T) = Distance(snap[s], T) /\ Min(B) <= s
  <2>1. CASE s \in B
    BY <1>4, <1>8, <1>9, <2>1
  <2>2. CASE s \notin B
    BY <1>0, <1>4, <1>5, <1>9, <2>2
  <2> QED BY <2>1, <2>2
<1> QED BY <1>0, <1>6, <1>9, <1>10

LEMMA NearestNeverBefore ==
  ASSUME NEW snap, NEW T \in Int, NatTicks(snap)
  PROVE  NeverBefore(snap, Nearest(snap, T), T)
<1> DEFINE k == Nearest(snap, T)
<1>1. /\ k.slot \in Valid(snap) /\ k.tick = snap[k.slot] /\ k.tick \in Nat
      /\ \A s \in Valid(snap) :
           \/ Distance(k.tick, T) < Distance(snap[s], T)
           \/ Distance(k.tick, T) = Distance(snap[s], T) /\ k.slot <= s
  BY NearestLeast
<1> HIDE DEF k
<1>2. ASSUME NEW s \in Valid(snap), snap[s] < k.tick
      PROVE  /\ snap[k.slot] = k.tick
             /\ 2 * T > k.tick + snap[s] \/ (2 * T = k.tick + snap[s] /\ k.slot < s)
  <2>1. snap[s] \in Nat /\ s \in Int /\ k.slot \in Int /\ s # k.slot
    BY <1>1, <1>2 DEF NatTicks, Valid, Slot
  <2>2. \/ Distance(k.tick, T) < Distance(snap[s], T)
        \/ Distance(k.tick, T) = Distance(snap[s], T) /\ k.slot < s
    BY <1>1, <2>1
  <2> QED BY <1>1, <1>2, <2>1, <2>2 DEF Distance
<1> QED BY <1>2 DEF NeverBefore, k

\* The choice for a later target is not older than what NeverBefore speaks of.
LEMMA NearestNotBefore ==
  ASSUME NEW snap, NEW T \in Int, NatTicks(snap), NEW k, k.slot \in Slot, k.tick \in Nat,
         NeverBefore(snap, k, T)
  PROVE  k.tick <= Nearest(snap, T).tick
<1> DEFINE j == Nearest(snap, T)
<1>1. /\ j.slot \in Valid(snap) /\ j.tick = snap[j.slot] /\ j.tick \in Nat
      /\ \A s \in Valid(snap) :
           \/ Distance(j.tick, T) < Distance(snap[s], T)
           \/ Distance(j.tick, T) = Distance(snap[s], T) /\ j.slot <= s
  BY NearestLeast
<1> HIDE DEF j
<1> SUFFICES ASSUME j.tick < k.tick PROVE FALSE
  BY <1>1 DEF j
<1>2. /\ snap[k.slot] = k.tick
      /\ 2 * T > k.tick + j.tick \/ (2 * T = k.tick + j.tick /\ k.slot < j.slot)
  BY <1>1 DEF NeverBefore
<1>3. k.slot \in Valid(snap) /\ k.slot \in Int /\ j.slot \in Int
  BY <1>1, <1>2 DEF Valid, Never, Slot
<1>4. \/ Distance(j.tick, T) < Distance(k.tick, T)
      \/ Distance(j.tick, T) = Distance(k.tick, T) /\ j.slot <= k.slot
  BY <1>1, <1>2, <1>3
<1> QED BY <1>1, <1>2, <1>3, <1>4 DEF Distance

\* The newest tick that all rings have reached: every ring has, and it is the
\* newest such tick.
LEMMA CommonReached ==
  ASSUME NEW S, IsFiniteSet(DOMAIN S), DOMAIN S # {}, \A c \in DOMAIN S : NatTicks(S[c])
  PROVE  /\ Common(S) \in Nat
         /\ \A c \in DOMAIN S : Reaches(S[c], Common(S))
         /\ \A C \in Int : (\A c \in DOMAIN S : Reaches(S[c], C)) => C <= Common(S)
<1> DEFINE T(c) == {S[c][s] : s \in Valid(S[c])}
           M == {Max(T(c)) : c \in DOMAIN S}
<1>1. ASSUME NEW c \in DOMAIN S PROVE Max(T(c)) \in T(c) /\ Max(T(c)) \in Nat /\ \A y \in T(c) : Max(T(c)) >= y
  <2> DEFINE f == [s \in Valid(S[c]) |-> S[c][s]]
  <2>1. Valid(S[c]) # {} /\ \A s \in Valid(S[c]) : S[c][s] \in Nat
    BY DEF NatTicks
  <2>2. T(c) \in SUBSET Int /\ T(c) # {} /\ T(c) \in SUBSET Nat
    BY <2>1
  <2>3. IsFiniteSet({f[s] : s \in Valid(S[c])})
    BY ValidFinite, ImageFinite
  <2>4. T(c) = {f[s] : s \in Valid(S[c])}
    OBVIOUS
  <2>5. IsFiniteSet(T(c))
    BY <2>3, <2>4
  <2> HIDE DEF T
  <2>6. Max(T(c)) \in T(c) /\ \A y \in T(c) : Max(T(c)) >= y
    BY <2>2, <2>5, MaxIn
  <2> QED BY <2>2, <2>6
<1>2. ASSUME NEW c \in DOMAIN S PROVE \E s \in Valid(S[c]) : Max(T(c)) = S[c][s]
  BY <1>1
<1>3. ASSUME NEW c \in DOMAIN S, NEW s \in Valid(S[c]) PROVE Max(T(c)) >= S[c][s]
  BY <1>1
<1>4. \A c \in DOMAIN S : Max(T(c)) \in Nat
  BY <1>1
<1> HIDE DEF T
<1>5. M \in SUBSET Int /\ M # {} /\ M \in SUBSET Nat
  BY <1>4
<1>6. IsFiniteSet(M)
  <2> DEFINE f == [c \in DOMAIN S |-> Max(T(c))]
  <2>1. IsFiniteSet({f[c] : c \in DOMAIN S})
    BY ImageFinite
  <2>2. M = {f[c] : c \in DOMAIN S}
    OBVIOUS
  <2> QED BY <2>1, <2>2
<1>7. Min(M) \in M /\ \A y \in M : Min(M) =< y
  <2> HIDE DEF M
  <2> QED BY <1>5, <1>6, MinIn
<1>8. Common(S) = Min(M)
  BY DEF Common, T
<1>9. PICK e \in DOMAIN S : Common(S) = Max(T(e))
  BY <1>7, <1>8
<1>10. \A c \in DOMAIN S : Common(S) =< Max(T(c))
  BY <1>7, <1>8
<1> HIDE DEF M
<1>11. Common(S) \in Nat
  BY <1>4, <1>9
<1>12. ASSUME NEW c \in DOMAIN S PROVE Reaches(S[c], Common(S))
  <2>1. PICK s \in Valid(S[c]) : Max(T(c)) = S[c][s]
    BY <1>2
  <2>2. S[c][s] >= Common(S)
    BY <1>4, <1>10, <1>11, <2>1
  <2> QED BY <2>2 DEF Reaches
<1>13. ASSUME NEW C \in Int, \A c \in DOMAIN S : Reaches(S[c], C) PROVE C <= Common(S)
  <2>1. PICK s \in Valid(S[e]) : S[e][s] >= C
    BY <1>13 DEF Reaches
  <2>2. Max(T(e)) >= S[e][s] /\ S[e][s] \in Nat
    BY <1>3 DEF NatTicks
  <2> QED BY <1>4, <1>9, <2>1, <2>2
<1> QED BY <1>11, <1>12, <1>13
\* The snapshots of this paint are of the rings as they were, and there are none
\* outside the phase that takes them.
SnapsInv ==
  /\ \A c \in DOMAIN snaps : Follows(snaps[c], Snapshot(File(c)))
  /\ phase # "snapshot" => DOMAIN snaps = {}

TargetOf(C) == IF basis.delayed THEN C - Delay ELSE C

\* The rings of the last target have reached tick C, so have the snapshots of them
\* that this paint has taken, ...
BasisReached(C) ==
  \A c \in basis.cams :
    /\ Has(c) /\ Reaches(Snapshot(File(c)), C)
    /\ c \in DOMAIN snaps => Reaches(snaps[c], C)

\* ... no target from there on makes a choice older than a tile, except for the
\* cameras that are excused, ...
TilesKept(C) ==
  \A c \in Camera \ excused :
    tile[c] # NoTile =>
      /\ NeverBefore(Snapshot(File(c)), tile[c].key, TargetOf(C))
      /\ c \in DOMAIN snaps => NeverBefore(snaps[c], tile[c].key, TargetOf(C))
      /\ c \in DOMAIN selected => tile[c].key.tick <= selected[c].tick

\* ... nor one older than the selection.
SelectionKept(C) ==
  \A c \in DOMAIN selected : NeverBefore(Snapshot(File(c)), selected[c], TargetOf(C))

TimeAt(C) == BasisReached(C) /\ TilesKept(C) /\ SelectionKept(C)

TimeInv == SnapsInv /\ \E C \in Nat : TimeAt(C)

LEMMA RingTicks ==
  ASSUME NEW r \in Ring
  PROVE  NatTicks(Snapshot(r))
<1>1. r.active \in Slot /\ r.tick \in [Slot -> Nat \cup {Never}]
  BY DEF Ring
<1>2. \A s \in Slot : Snapshot(r)[s] \in Nat \cup {Never}
  BY <1>1 DEF Snapshot
<1>3. Snapshot(r)[r.active] # Never
  BY <1>1 DEF Snapshot, Never
<1>4. r.active \in Valid(Snapshot(r))
  BY <1>1, <1>3 DEF Valid
<1> QED BY <1>2, <1>4 DEF NatTicks, Valid

LEMMA FileTicks ==
  ASSUME IInv, NEW c \in Camera, Has(c)
  PROVE  NatTicks(Snapshot(File(c)))
BY FileIsRing, RingTicks DEF IInv

LEMMA SnapTicks ==
  ASSUME IInv, NEW c \in DOMAIN snaps
  PROVE  c \in Camera /\ Has(c) /\ NatTicks(snaps[c])
BY DEF IInv, ChoiceInv, NatTicks, Reached, Reach

LEMMA SelectedFile ==
  ASSUME IInv, NEW c \in DOMAIN selected
  PROVE  c \in Camera /\ Has(c) /\ selected[c].slot \in Slot /\ selected[c].tick \in Nat
BY DEF IInv, ChoiceInv, Reached, Reach

LEMMA TileFile ==
  ASSUME IInv, NEW c \in Camera, tile[c] # NoTile
  PROVE  Has(c) /\ tile[c].key.slot \in Slot /\ tile[c].key.tick \in Nat
BY DEF IInv, TileInv, GoodTile, Reach

LEMMA TargetIsInt ==
  ASSUME PaintTypes, NEW C \in Nat
  PROVE  TargetOf(C) \in Int
BY BevAssumption DEF TargetOf

\* A ring that is held on to goes on.
LEMMA FileFollows ==
  ASSUME Before, NEW c \in Camera, Has(c)
  PROVE  /\ Has(c)' /\ Follows(Snapshot(File(c)), Snapshot(NextFile(c)))
         /\ NatTicks(Snapshot(File(c))) /\ NatTicks(Snapshot(NextFile(c)))
BY FileGrows, RingTicks DEF Before, IInv, Grown

LEMMA TimeAtInit == Init => TimeInv
<1>1. ASSUME Init PROVE TimeInv
  <2>1. /\ DOMAIN snaps = {} /\ DOMAIN selected = {} /\ basis.cams = {}
        /\ \A c \in Camera : tile[c] = NoTile
    BY <1>1 DEF Init, BevInit
  <2>2. TimeAt(0)
    BY <2>1 DEF TimeAt, BasisReached, TilesKept, SelectionKept
  <2> QED BY <2>1, <2>2 DEF TimeInv, SnapsInv
<1> QED BY <1>1

\* Writing workers, and readers that open, leave what was said of the rings true.
LEMMA TimeHeld ==
  ASSUME Before, PaintTypes, TimeInv, phase' = phase \/ DOMAIN snaps = {},
         UNCHANGED <<snaps, selected, tile, basis, excused>>
  PROVE  TimeInv'
<1>1. PICK C \in Nat : TimeAt(C)
  BY DEF TimeInv
<1>2. IInv /\ TargetOf(C) \in Int
  BY TargetIsInt DEF Before
<1>3. \A c : File(c)' = NextFile(c)
  BY DEF File, NextFile
<1>4. ASSUME NEW c \in DOMAIN snaps PROVE Follows(snaps[c], Snapshot(NextFile(c)))
  <2>1. c \in Camera /\ Has(c) /\ NatTicks(snaps[c]) /\ Follows(snaps[c], Snapshot(File(c)))
    BY <1>2, SnapTicks DEF TimeInv, SnapsInv
  <2> QED BY <2>1, FileFollows, FollowsOn
<1>5. SnapsInv'
  <2>1. DOMAIN snaps' = DOMAIN snaps /\ \A c \in DOMAIN snaps' : snaps'[c] = snaps[c]
    OBVIOUS
  <2>2. \A c : Snapshot(File(c))' = Snapshot(NextFile(c))
    BY DEF Snapshot, File, NextFile
  <2> HIDE DEF NextFile
  <2> QED BY <1>4, <2>1, <2>2 DEF SnapsInv, TimeInv
<1>6. ASSUME NEW c \in basis.cams
      PROVE  /\ Has(c)' /\ Reaches(Snapshot(NextFile(c)), C)
             /\ c \in DOMAIN snaps => Reaches(snaps[c], C)
  <2>1. c \in Camera /\ Has(c) /\ Reaches(Snapshot(File(c)), C)
    BY <1>1 DEF TimeAt, BasisReached, PaintTypes
  <2> QED BY <1>1, <2>1, FileFollows, ReachesFollows DEF TimeAt, BasisReached
<1>7. ASSUME NEW c \in Camera \ excused, tile[c] # NoTile
      PROVE  NeverBefore(Snapshot(NextFile(c)), tile[c].key, TargetOf(C))
  <2>1. /\ Has(c) /\ tile[c].key.slot \in Slot /\ tile[c].key.tick \in Nat
        /\ NeverBefore(Snapshot(File(c)), tile[c].key, TargetOf(C))
    BY <1>1, <1>2, <1>7, TileFile DEF TimeAt, TilesKept
  <2> QED BY <1>2, <2>1, FileFollows, NeverBeforeFollows
<1>8. ASSUME NEW c \in DOMAIN selected
      PROVE  NeverBefore(Snapshot(NextFile(c)), selected[c], TargetOf(C))
  <2>1. /\ c \in Camera /\ Has(c) /\ selected[c].slot \in Slot /\ selected[c].tick \in Nat
        /\ NeverBefore(Snapshot(File(c)), selected[c], TargetOf(C))
    BY <1>1, <1>2, SelectedFile DEF TimeAt, SelectionKept
  <2> QED BY <1>2, <2>1, FileFollows, NeverBeforeFollows
<1>9. TargetOf(C)' = TargetOf(C)
  BY DEF TargetOf
<1>10. \A c : Snapshot(File(c))' = Snapshot(NextFile(c))
  BY DEF Snapshot, File, NextFile
<1> HIDE DEF NextFile
<1>11. BasisReached(C)'
  BY <1>6, <1>10 DEF BasisReached
<1>12. TilesKept(C)'
  BY <1>1, <1>7, <1>9, <1>10 DEF TimeAt, TilesKept
<1>13. SelectionKept(C)'
  BY <1>8, <1>9, <1>10 DEF SelectionKept
<1> QED BY <1>5, <1>11, <1>12, <1>13 DEF TimeInv, TimeAt

\* A step of _upload_selected without a new tile.
LEMMA TimeKeptInUpload ==
  ASSUME UNCHANGED <<files, inputs, snaps, tile, basis, excused>>, TimeInv, phase # "snapshot",
         \A c \in DOMAIN selected' : c \in DOMAIN selected /\ selected'[c] = selected[c]
  PROVE  TimeInv'
<1>1. PICK C \in Nat : TimeAt(C)
  BY DEF TimeInv
<1>2. \A c : Snapshot(File(c))' = Snapshot(File(c)) /\ (Has(c)' <=> Has(c))
  BY DEF File, Snapshot, Has, Opened, inputs
<1>3. TargetOf(C)' = TargetOf(C)
  BY DEF TargetOf
<1>4. BasisReached(C)'
  BY <1>1, <1>2 DEF TimeAt, BasisReached
<1>5. TilesKept(C)'
  BY <1>1, <1>2, <1>3 DEF TimeAt, TilesKept
<1>6. SelectionKept(C)'
  BY <1>1, <1>2, <1>3 DEF TimeAt, SelectionKept
<1>7. SnapsInv'
  BY <1>2 DEF TimeInv, SnapsInv
<1> QED BY <1>4, <1>5, <1>6, <1>7 DEF TimeInv, TimeAt

\* The step that makes a tile takes its key from the selection.
LEMMA NewTile ==
  ASSUME IInv, NEW c \in Camera, CopyOther(c), Stable(c)
  PROVE  /\ UNCHANGED <<inputs, snaps, basis>> /\ phase = "rest" /\ c \in DOMAIN selected
         /\ DOMAIN selected' = DOMAIN selected \ {c} /\ excused' = excused \ {c}
         /\ \A d \in DOMAIN selected' : selected'[d] = selected[d]
         /\ \A d \in Camera \ {c} : tile'[d] = tile[d]
         /\ tile'[c].key = selected[c] /\ tile'[c] # NoTile
<1> DEFINE new == [key |-> selected[c], first |-> copy.first, rest |-> Pixels(c, File(c).rest, selected[c].slot)]
<1>1. /\ UNCHANGED <<inputs, snaps, basis>> /\ phase = "rest" /\ c \in DOMAIN selected
      /\ tile' = [tile EXCEPT ![c] = new] /\ excused' = excused \ {c}
      /\ selected' = [d \in DOMAIN selected \ {c} |-> selected[d]]
  BY DEF CopyOther, At, Done
<1>2. new.key = selected[c] /\ new # NoTile
  <2>1. "key" \in DOMAIN new /\ "key" \notin DOMAIN NoTile
    BY DEF NoTile
  <2> QED BY <2>1
<1> HIDE DEF new
<1>3. DOMAIN tile = Camera
  BY DEF IInv, TileInv
<1> QED BY <1>1, <1>2, <1>3

LEMMA NewTileTime ==
  ASSUME IInv, NEW c \in Camera, CopyOther(c), Stable(c), UNCHANGED files, TimeInv
  PROVE  TimeInv'
<1>1. PICK C \in Nat : TimeAt(C)
  BY DEF TimeInv
<1>2. \A d : Snapshot(File(d))' = Snapshot(File(d)) /\ (Has(d)' <=> Has(d))
  BY NewTile DEF File, Snapshot, Has, Opened, inputs
<1>3. TargetOf(C)' = TargetOf(C)
  BY NewTile DEF TargetOf
<1>4. DOMAIN snaps = {} /\ snaps' = snaps
  BY NewTile DEF TimeInv, SnapsInv
<1>5. BasisReached(C)'
  BY <1>1, <1>2, NewTile DEF TimeAt, BasisReached
<1>6. SelectionKept(C)'
  <2>1. \A d \in DOMAIN selected' : d \in DOMAIN selected /\ selected'[d] = selected[d]
    BY NewTile
  <2> QED BY <1>1, <1>2, <1>3, <2>1 DEF TimeAt, SelectionKept
<1>7. TilesKept(C)'
  <2>1. ASSUME NEW d \in Camera \ excused', tile'[d] # NoTile
        PROVE  /\ NeverBefore(Snapshot(File(d)), tile'[d].key, TargetOf(C))
               /\ d \in DOMAIN selected' => tile'[d].key.tick <= selected'[d].tick
    <3>1. CASE d = c
      BY <1>1, <3>1, NewTile DEF TimeAt, SelectionKept
    <3>2. CASE d # c
      BY <1>1, <2>1, <3>2, NewTile DEF TimeAt, TilesKept
    <3> QED BY <3>1, <3>2
  <2> QED BY <1>2, <1>3, <1>4, <2>1 DEF TilesKept
<1>8. SnapsInv'
  BY <1>4 DEF SnapsInv
<1> QED BY <1>5, <1>6, <1>7, <1>8 DEF TimeInv, TimeAt

LEMMA SnapshotTime ==
  ASSUME IInv, PaintTypes, NEW c \in Camera, TakeSnapshot(c), UNCHANGED files, TimeInv
  PROVE  TimeInv'
<1>1. PICK C \in Nat : TimeAt(C)
  BY DEF TimeInv
<1>2. /\ UNCHANGED <<inputs, phase, selected, tile, basis, excused>> /\ phase = "snapshot"
      /\ snaps' = IF Readable(c)
              THEN [d \in DOMAIN snaps \cup {c} |-> IF d = c THEN Snapshot(File(c)) ELSE snaps[d]]
              ELSE snaps
  BY DEF TakeSnapshot, picture
<1>3. \A d : Snapshot(File(d))' = Snapshot(File(d)) /\ (Has(d)' <=> Has(d))
  BY <1>2 DEF File, Snapshot, Has, Opened, inputs
<1>4. TargetOf(C)' = TargetOf(C)
  BY <1>2 DEF TargetOf
<1>5. \A d \in DOMAIN snaps' : \/ snaps'[d] = Snapshot(File(d))
                               \/ d \in DOMAIN snaps /\ snaps'[d] = snaps[d]
  BY <1>2
<1>6. \A d : Follows(Snapshot(File(d)), Snapshot(File(d)))
  BY SameSnapshot
<1>7. SnapsInv'
  BY <1>2, <1>3, <1>5, <1>6 DEF TimeInv, SnapsInv
<1>8. BasisReached(C)'
  BY <1>1, <1>2, <1>3, <1>5 DEF TimeAt, BasisReached
<1>9. TilesKept(C)'
  BY <1>1, <1>2, <1>3, <1>4, <1>5 DEF TimeAt, TilesKept
<1>10. SelectionKept(C)'
  BY <1>1, <1>2, <1>3, <1>4 DEF TimeAt, SelectionKept
<1> QED BY <1>7, <1>8, <1>9, <1>10 DEF TimeInv, TimeAt

\* A choice.  If it has the rings of the last one, or fewer, and the delay alike,
\* its target is not before that of the last one; otherwise everybody is excused.
LEMMA ChooseTime ==
  ASSUME IInv, PaintTypes, ChooseFrames, UNCHANGED files, TimeInv
  PROVE  TimeInv'
<1>1. PICK C \in Nat : TimeAt(C)
  BY DEF TimeInv
<1>2. /\ UNCHANGED <<inputs, tile>> /\ phase' = "upload" /\ DOMAIN snaps' = {}
      /\ DOMAIN selected' = InReach(snaps) /\ InReach(snaps) \subseteq DOMAIN snaps
      /\ \A c \in InReach(snaps) : selected'[c] = Nearest(snaps[c], Target(snaps))
      /\ IF DOMAIN snaps = {} THEN UNCHANGED <<basis, excused>>
         ELSE /\ basis' = [cams |-> DOMAIN snaps, delayed |-> Delayed(snaps)]
              /\ excused' = IF DOMAIN snaps \subseteq basis.cams /\ Delayed(snaps) = basis.delayed
                            THEN excused ELSE Camera
  BY DEF ChooseFrames, InReach
<1>3. \A d : Snapshot(File(d))' = Snapshot(File(d)) /\ (Has(d)' <=> Has(d))
  BY <1>2 DEF File, Snapshot, Has, Opened, inputs
<1>4. SnapsInv'
  BY <1>2 DEF SnapsInv
<1>5. CASE DOMAIN snaps = {}
  <2>1. DOMAIN selected' = {} /\ TargetOf(C)' = TargetOf(C)
    BY <1>2, <1>5 DEF TargetOf
  <2>2. BasisReached(C)' /\ TilesKept(C)' /\ SelectionKept(C)'
    BY <1>1, <1>2, <1>3, <1>5, <2>1 DEF TimeAt, BasisReached, TilesKept, SelectionKept
  <2> QED BY <1>4, <2>2 DEF TimeInv, TimeAt
<1>6. CASE DOMAIN snaps # {}
  <2> DEFINE T == Target(snaps)
  <2>1. /\ \A c \in DOMAIN snaps : NatTicks(snaps[c]) /\ c \in Camera /\ Has(c)
        /\ IsFiniteSet(DOMAIN snaps)
    <3>1. \A c \in DOMAIN snaps : NatTicks(snaps[c]) /\ c \in Camera /\ Has(c)
      BY SnapTicks
    <3>2. DOMAIN snaps \subseteq Camera
      BY <3>1
    <3> QED BY <3>1, <3>2, CameraFinite, FS_Subset
  <2>2. PICK N \in Nat :
          /\ N = Common(snaps) /\ \A c \in DOMAIN snaps : Reaches(snaps[c], N)
          /\ \A D \in Int : (\A c \in DOMAIN snaps : Reaches(snaps[c], D)) => D <= N
    BY <1>6, <2>1, CommonReached
  <2>3. /\ basis' = [cams |-> DOMAIN snaps, delayed |-> Delayed(snaps)]
        /\ T \in Int /\ T = IF Delayed(snaps) THEN N - Delay ELSE N
    BY <1>2, <1>6, <2>2, BevAssumption DEF Target
  <2> HIDE DEF T
  <2>4. TargetOf(N)' = T
    BY <2>3 DEF TargetOf
  <2>5. ASSUME NEW c \in DOMAIN snaps
        PROVE  /\ Follows(snaps[c], Snapshot(File(c))) /\ NatTicks(Snapshot(File(c))) /\ NatTicks(snaps[c])
               /\ Reaches(Snapshot(File(c)), N)
    <3>1. Follows(snaps[c], Snapshot(File(c))) /\ NatTicks(Snapshot(File(c)))
      BY <2>1, FileTicks DEF TimeInv, SnapsInv
    <3> QED BY <2>1, <2>2, <3>1, ReachesFollows
  <2>6. BasisReached(N)'
    BY <1>2, <1>3, <2>1, <2>3, <2>5 DEF BasisReached
  <2>7. SelectionKept(N)'
    <3>1. ASSUME NEW c \in DOMAIN selected'
          PROVE  NeverBefore(Snapshot(File(c)), selected'[c], T)
      <4>1. c \in DOMAIN snaps /\ selected'[c] = Nearest(snaps[c], T)
        BY <1>2 DEF T
      <4>2. NeverBefore(snaps[c], selected'[c], T)
        BY <2>3, <2>5, <4>1, NearestNeverBefore
      <4>3. selected'[c].slot \in Slot /\ selected'[c].tick \in Nat
        BY <2>3, <2>5, <4>1, NearestLeast DEF Valid
      <4> QED BY <2>3, <2>5, <4>1, <4>2, <4>3, NeverBeforeFollows
    <3> QED BY <1>3, <2>4, <3>1 DEF SelectionKept
  <2>8. TilesKept(N)'
    <3>1. CASE ~(DOMAIN snaps \subseteq basis.cams /\ Delayed(snaps) = basis.delayed)
      <4>1. excused' = Camera
        BY <1>2, <1>6, <3>1
      <4> QED BY <4>1 DEF TilesKept
    <3>2. CASE DOMAIN snaps \subseteq basis.cams /\ Delayed(snaps) = basis.delayed
      <4>1. excused' = excused /\ tile' = tile
        BY <1>2, <1>6, <3>2
      <4>2. C <= N
        BY <1>1, <2>2, <3>2 DEF TimeAt, BasisReached
      <4>3. TargetOf(C) <= T /\ TargetOf(C) \in Int
        BY <2>2, <2>3, <3>2, <4>2, BevAssumption DEF TargetOf
      <4>4. ASSUME NEW c \in Camera \ excused, tile[c] # NoTile
            PROVE  /\ NeverBefore(Snapshot(File(c)), tile[c].key, T)
                   /\ c \in DOMAIN selected' => tile[c].key.tick <= selected'[c].tick
        <5>1. /\ Has(c) /\ tile[c].key.slot \in Slot /\ tile[c].key.tick \in Nat
              /\ NatTicks(Snapshot(File(c)))
          BY <4>4, TileFile, FileTicks
        <5>2. /\ NeverBefore(Snapshot(File(c)), tile[c].key, TargetOf(C))
              /\ c \in DOMAIN snaps => NeverBefore(snaps[c], tile[c].key, TargetOf(C))
          BY <1>1, <4>4 DEF TimeAt, TilesKept
        <5>3. NeverBefore(Snapshot(File(c)), tile[c].key, T)
          BY <2>3, <4>3, <5>1, <5>2, NeverBeforeLater
        <5>4. ASSUME c \in DOMAIN selected' PROVE tile[c].key.tick <= selected'[c].tick
          <6>1. c \in DOMAIN snaps /\ selected'[c] = Nearest(snaps[c], T)
            BY <1>2, <5>4 DEF T
          <6>2. NeverBefore(snaps[c], tile[c].key, T)
            BY <2>3, <2>5, <4>3, <5>1, <5>2, <6>1, NeverBeforeLater
          <6> QED BY <2>3, <2>5, <5>1, <6>1, <6>2, NearestNotBefore
        <5> QED BY <5>3, <5>4
      <4> QED BY <1>2, <1>3, <2>4, <4>1, <4>4 DEF TilesKept
    <3> QED BY <3>1, <3>2
  <2> QED BY <1>4, <2>2, <2>6, <2>7, <2>8 DEF TimeInv, TimeAt
<1> QED BY <1>5, <1>6

LEMMA TimeKept == ASSUME IInv, IInv', PaintTypes, TimeInv, [Next]_vars PROVE TimeInv'
<1>1. CASE Rings
  <2>1. PICK c \in Camera : Worker(c)
    BY <1>1 DEF Rings
  <2>2. UNCHANGED <<inputs, phase, snaps, selected, tile, basis, excused>>
    BY <1>1 DEF Rings, choice, picture
  <2>3. Before
    BY <2>1, <2>2, WorkerKeeps DEF IInv, Before, Held, Has, Opened, inputs
  <2> QED BY <2>2, <2>3, TimeHeld
<1>2. ASSUME NEW c \in Camera, OpenInput(c), UNCHANGED ring PROVE TimeInv'
  <2>1. phase = "open" /\ UNCHANGED <<snaps, selected, tile, basis, excused>>
    BY <1>2 DEF OpenInput, SkipInput, MapFile, LoadField, choice, picture
  <2>2. DOMAIN snaps = {}
    BY <2>1 DEF TimeInv, SnapsInv
  <2>3. Before
    BY <1>2, OpenKeeps
  <2> QED BY <2>1, <2>2, <2>3, TimeHeld
<1>8. ASSUME InputsOpen, UNCHANGED ring PROVE TimeInv'
  <2>1. phase = "open" /\ UNCHANGED <<inputs, snaps, selected, tile, basis, excused>>
    BY <1>8 DEF InputsOpen, choice, picture
  <2>2. DOMAIN snaps = {}
    BY <2>1 DEF TimeInv, SnapsInv
  <2> QED BY <1>8, <2>1, <2>2, PaintKeeps, TimeHeld
<1>3. ASSUME ChooseFrames, UNCHANGED ring PROVE TimeInv'
  BY <1>3, ChooseTime DEF ring
<1>4. ASSUME NEW c \in Camera, TakeSnapshot(c), UNCHANGED ring PROVE TimeInv'
  BY <1>4, SnapshotTime DEF ring
<1>5. ASSUME NEW c \in Camera, Upload(c), UNCHANGED ring PROVE TimeInv'
  <2>0. files' = files
    BY <1>5 DEF ring
  <2>1. CASE KeepTexture(c)
    <3>1. UNCHANGED <<inputs, snaps, tile, basis, excused>> /\ Done(c) /\ phase # "snapshot"
      BY <2>1 DEF KeepTexture, At
    <3> QED BY <2>0, <3>1, DoneKeeps, TimeKeptInUpload
  <2>2. CASE HoldByBudget(c)
    <3>1. UNCHANGED <<inputs, snaps, tile, basis, excused>> /\ Done(c) /\ phase # "snapshot"
      BY <2>2 DEF HoldByBudget, At, picture
    <3> QED BY <2>0, <3>1, DoneKeeps, TimeKeptInUpload
  <2>3. CASE BeginCopy(c)
    <3>1. UNCHANGED <<inputs, snaps, selected, tile, basis, excused>> /\ phase # "snapshot"
      BY <2>3 DEF BeginCopy, At, choice, picture
    <3> QED BY <2>0, <3>1, TimeKeptInUpload
  <2>4. CASE CopyHalf(c)
    <3>1. UNCHANGED <<inputs, snaps, tile, basis, excused>> /\ phase # "snapshot"
      BY <2>4 DEF CopyHalf, At, picture
    <3>2. \A d \in DOMAIN selected' : d \in DOMAIN selected /\ selected'[d] = selected[d]
      BY <2>4, FailKeeps DEF CopyHalf
    <3> QED BY <2>0, <3>1, <3>2, TimeKeptInUpload
  <2>5. CASE CopyOther(c) /\ Stable(c)
    BY <2>0, <2>5, NewTileTime
  <2>6. CASE CopyOther(c) /\ ~Stable(c)
    <3>1. UNCHANGED <<inputs, snaps, tile, basis, excused>> /\ phase # "snapshot" /\ Fail(c)
      BY <2>6 DEF CopyOther, At, picture
    <3> QED BY <2>0, <3>1, FailKeeps, TimeKeptInUpload
  <2> QED BY <1>5, <2>1, <2>2, <2>3, <2>4, <2>5, <2>6 DEF Upload
<1>6. ASSUME Draw, UNCHANGED ring PROVE TimeInv'
  <2>1. UNCHANGED <<inputs, snaps, selected, tile, basis, excused>> /\ phase # "snapshot"
    BY <1>6 DEF Draw, choice, picture
  <2> QED BY <1>6, <2>1, TimeKeptInUpload DEF ring
<1>7. CASE UNCHANGED vars
  <2>1. UNCHANGED ring /\ UNCHANGED <<inputs, phase, snaps, selected, tile, basis, excused>>
    BY <1>7 DEF vars, choice, picture
  <2> QED BY <2>1, PaintKeeps, TimeHeld
<1> QED BY <1>1, <1>2, <1>3, <1>4, <1>5, <1>6, <1>7, <1>8 DEF Next, Paint

\* A new tile of a camera that is not excused is not older than the one it
\* replaces.
LEMMA TileGoesOn ==
  ASSUME IInv, TimeInv, [Next]_vars, NEW c \in Camera, tile[c] # NoTile, tile'[c] # tile[c],
         tile'[c].key.tick < tile[c].key.tick
  PROVE  c \in excused
<1>1. PICK d \in Camera : CopyOther(d) /\ Stable(d)
  BY DEF Next, Rings, Paint, OpenInput, SkipInput, MapFile, LoadField, InputsOpen, ChooseFrames,
         TakeSnapshot, Upload, KeepTexture, HoldByBudget,
         BeginCopy, CopyHalf, CopyOther, Draw, vars, picture
<1>2. d = c /\ tile'[c].key = selected[c] /\ c \in DOMAIN selected
  BY <1>1, NewTile
<1>3. selected[c].tick \in Nat /\ tile[c].key.tick \in Nat
  BY <1>2, SelectedFile, TileFile
<1>4. c \notin excused => tile[c].key.tick <= selected[c].tick
  BY <1>2 DEF TimeInv, TimeAt, TilesKept
<1> QED BY <1>2, <1>3, <1>4

\* No tile goes back in time unless, since its last upload, the target was taken
\* from another ring or the delay set in (_choose_frames), for any cameras, slots,
\* ticks, delays and deaths of workers.
THEOREM BevTimeGoesOn == Spec => TimeGoesOn
<1>1. Spec => []TimeInv
  BY BevInvariant, BevTypedPaint, TimeAtInit, TimeKept, PTL DEF Spec
<1>2. ASSUME IInv, TimeInv, [Next]_vars
      PROVE  [\A c \in Camera :
                tile[c] # NoTile /\ tile'[c] # tile[c] /\ tile'[c].key.tick < tile[c].key.tick
                  => c \in excused]_vars
  BY <1>2, TileGoesOn
<1> QED BY <1>1, <1>2, BevInvariant, PTL DEF Spec, TimeGoesOn
=============================================================================
