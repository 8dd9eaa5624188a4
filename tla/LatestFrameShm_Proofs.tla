------------------------ MODULE LatestFrameShm_Proofs ------------------------
(***************************************************************************)
(* Proofs about LatestFrameShm, for any number of frames and of writer     *)
(* restarts: the type invariant, that a reader returns a torn frame only   *)
(* when the writer finished two frames while it read one, and that it      *)
(* returns ever newer frames.                                              *)
(***************************************************************************)
EXTENDS LatestFrameShm, TLAPS

Writing == wpc \in {"lo", "hi", "fid", "ts", "ready", "publish"}

\* What is already in the slot being written agrees on the new frame's id.
NewId == IF wpc \in {"lo", "hi", "fid"} THEN count + 1 ELSE count

WriterInv ==
  /\ Writing => target = 1 - active[wgen]
  /\ wpc \in {"hi", "fid", "ts", "ready", "publish"} => Current.lo = NewId
  /\ wpc \in {"fid", "ts", "ready", "publish"} => Current.hi = NewId
  /\ wpc \in {"ts", "ready", "publish"} => Current.fid = NewId
  /\ wpc \in {"ready", "publish"} => Current.ts = NewId

Agreed(b) == b.fid = b.ts /\ b.fid = b.lo /\ b.fid = b.hi

\* The slot's own pixels are mapped as its pixels.
Aligned == Placed \/ pick = 0

\* The active slot of every file holds one frame.
ActiveInv == \A g \in Gen : Agreed(slot[<<g, active[g]>>])

\* Until the writer has published during the attempt, the slot being read is
\* the active one and what was read of it is what it holds; after one
\* publication it is the other one.
ReaderInv ==
  /\ Reading /\ switches = 0 =>
       /\ active[rgen] = pick
       /\ rpc \in {"ts", "lo", "hi", "confirm"} => item.fid = Source.fid
       /\ rpc \in {"lo", "hi", "confirm"} => item.ts = Source.ts
       /\ rpc \in {"hi", "confirm"} /\ Sized /\ Aligned => item.lo = Source.lo
       /\ rpc = "confirm" /\ Sized /\ Aligned => item.hi = Source.hi
  /\ Reading /\ switches = 1 => active[rgen] = 1 - pick

FrameInv == TypeOK /\ WriterInv /\ ActiveInv /\ ReaderInv /\ TornOnlyIfLapped

-----------------------------------------------------------------------------
LEMMA TypeInit == Init => TypeOK
<1> SUFFICES ASSUME Init PROVE TypeOK
  OBVIOUS
<1>1. Blank \in Buffer
  BY DEF Blank, Buffer
<1>2. slot \in [Gen \X Slot -> Buffer] /\ item \in Buffer
  BY <1>1 DEF Init
<1>3. active \in [Gen -> Slot] /\ pick \in Slot /\ target \in Slot
  BY DEF Init, Slot
<1> QED
  BY <1>2, <1>3 DEF Init, TypeOK, Nothing, Field, Shape, Slot

LEMMA TypeStep == TypeOK /\ [Next]_vars => TypeOK'
<1> SUFFICES ASSUME TypeOK, [Next]_vars PROVE TypeOK'
  OBVIOUS
<1> USE FrameAssumption DEF TypeOK, Buffer, Slot, file, writer, reader, attempt
<1>1. CASE UNCHANGED vars
  BY <1>1 DEF vars
<1>2. CASE Writer
  <2>1. CASE WriterDies BY <2>1 DEF WriterDies
  <2>2. CASE RemoveFile BY <2>2 DEF RemoveFile
  <2>3. CASE CreateFile BY <2>3 DEF CreateFile
  <2>4. CASE SetMagic BY <2>4 DEF SetMagic
  <2>5. CASE SetGeometry BY <2>5 DEF SetGeometry
  <2>6. CASE BeginWrite
    <3>1. wgen \in Gen /\ 1 - active[wgen] \in Slot
      BY <2>6 DEF BeginWrite
    <3>2. [slot[<<wgen, 1 - active[wgen]>>] EXCEPT !.ready = FALSE] \in Buffer
      BY <3>1
    <3>3. slot' \in [Gen \X Slot -> Buffer]
      BY <2>6, <3>1, <3>2 DEF BeginWrite
    <3> QED BY <2>6, <3>1, <3>3 DEF BeginWrite
  <2>7. CASE CopyLo BY <2>7 DEF CopyLo, Store, Current
  <2>8. CASE CopyHi BY <2>8 DEF CopyHi, Store, Current
  <2>9. CASE SetFrameId BY <2>9 DEF SetFrameId, Store, Current
  <2>10. CASE SetTimestamp BY <2>10 DEF SetTimestamp, Store, Current
  <2>11. CASE SetReady BY <2>11, ZenonT(40) DEF SetReady, Store, Current
  <2>12. CASE Publish BY <2>12 DEF Publish, Reading
  <2> QED
    BY <1>2, <2>1, <2>2, <2>3, <2>4, <2>5, <2>6, <2>7, <2>8, <2>9, <2>10,
       <2>11, <2>12 DEF Writer
<1>3. CASE Reader
  <2>1. CASE MapFile BY <2>1 DEF MapFile
  <2>2. CASE CheckMagic BY <2>2 DEF CheckMagic, Field
  <2>3. CASE ReadGeometry
    <3>1. found' \subseteq Field /\ field' \in Field
      BY <2>3 DEF ReadGeometry, Field, Shape, DataBytes
    <3>2. /\ rpc' \in {"geometry", "idle"} /\ rgen' = rgen /\ rgen \in Gen
          /\ last' \in Nat
          /\ got' = got \/ got' = Nothing
          /\ UNCHANGED <<file, writer, attempt, switches>>
      BY <2>3 DEF ReadGeometry
    <3>3. Nothing \in [fid : Nat, ts : Nat, lo : Nat, hi : Nat, sized : BOOLEAN,
                      placed : BOOLEAN, slot : Slot, base : Nat, switches : Nat]
      BY DEF Nothing
    <3> QED BY <3>1, <3>2, <3>3
  <2>4. CASE ReaderCloses BY <2>4 DEF ReaderCloses
  <2>5. CASE ReadActive BY <2>5 DEF ReadActive, Blank
  <2>6. CASE CheckReady BY <2>6 DEF CheckReady
  <2>7. CASE ReadFrameId BY <2>7 DEF ReadFrameId, Source
  <2>8. CASE ReadTimestamp BY <2>8 DEF ReadTimestamp, Load, Source
  <2>9. CASE ReadLo
    <3>1. Pixels.lo \in Nat /\ item.lo \in Nat
      BY <2>9 DEF ReadLo, Load, Pixels
    <3>2. item' = [item EXCEPT !.lo = IF Sized THEN Pixels.lo ELSE @]
      BY <2>9 DEF ReadLo, Load
    <3>3. item' \in Buffer
      BY <3>1, <3>2
    <3> QED BY <2>9, <3>3 DEF ReadLo, Load
  <2>10. CASE ReadHi
    <3>1. Pixels.hi \in Nat /\ item.hi \in Nat
      BY <2>10 DEF ReadHi, Load, Pixels
    <3>2. item' = [item EXCEPT !.hi = IF Sized THEN Pixels.hi ELSE @]
      BY <2>10 DEF ReadHi, Load
    <3>3. item' \in Buffer
      BY <3>1, <3>2
    <3> QED BY <2>10, <3>3 DEF ReadHi, Load
  <2>11. CASE Confirm
    <3>1. Sized \in BOOLEAN /\ Placed \in BOOLEAN
      BY DEF Sized, Placed
    <3>2. Delivery \in [fid : Nat, ts : Nat, lo : Nat, hi : Nat, sized : BOOLEAN,
                        placed : BOOLEAN, slot : Slot, base : Nat, switches : Nat]
      BY <3>1 DEF Delivery
    <3> QED BY <2>11, <3>2 DEF Confirm
  <2> QED
    BY <1>3, <2>1, <2>2, <2>3, <2>4, <2>5, <2>6, <2>7, <2>8, <2>9, <2>10,
       <2>11 DEF Reader, OpenReader, ReadLatest
<1> QED
  BY <1>1, <1>2, <1>3 DEF Next

\* The types of LatestFrameShm hold in every reachable state, for any bounds.
THEOREM FrameTypes == Spec => []TypeOK
BY TypeInit, TypeStep, PTL DEF Spec

-----------------------------------------------------------------------------
LEMMA FrameInit == Init => FrameInv
<1> SUFFICES ASSUME Init PROVE FrameInv
  OBVIOUS
<1>1. TypeOK
  BY TypeInit
<1>2. ActiveInv
  <2> SUFFICES ASSUME NEW g \in Gen PROVE Agreed(slot[<<g, active[g]>>])
    BY DEF ActiveInv
  <2>1. <<g, active[g]>> \in Gen \X Slot
    BY DEF Init, Slot
  <2> QED BY <2>1 DEF Init, Blank, Agreed, Whole
<1>3. WriterInv /\ ReaderInv
  BY DEF Init, WriterInv, ReaderInv, Writing, Reading
<1>4. TornOnlyIfLapped
  BY DEF Init, TornOnlyIfLapped, Nothing, Agreed, Whole
<1> QED BY <1>1, <1>2, <1>3, <1>4 DEF FrameInv

\* The writer's stores leave every active slot alone.
LEMMA StoreSafe ==
  ASSUME FrameInv, TypeOK', NEW from, NEW to, NEW b, from \in {"lo", "hi", "fid", "ts", "ready"},
         Store(from, to, b)
  PROVE  /\ ActiveInv' /\ TornOnlyIfLapped' /\ ReaderInv'
         /\ Current' = b /\ target' = 1 - active'[wgen']
<1> USE DEF FrameInv, TypeOK
<1>1. wgen \in Gen /\ target = 1 - active[wgen] /\ target \in Slot
  BY DEF Store, WriterInv, Writing
<1>2. Current' = b /\ target' = 1 - active'[wgen']
  BY <1>1 DEF Store, Current
<1>3. \A g \in Gen : <<g, active[g]>> # <<wgen, target>>
  BY <1>1 DEF Slot
<1>4. \A g \in Gen : slot'[<<g, active'[g]>>] = slot[<<g, active[g]>>]
  BY <1>1, <1>3 DEF Store
<1>5. ActiveInv'
  BY <1>4 DEF ActiveInv, Agreed, Whole
<1>6. TornOnlyIfLapped'
  BY DEF Store, reader, TornOnlyIfLapped, Agreed, Whole
<1>7. ReaderInv'
  <2>1. Reading /\ switches = 0 => Source' = Source
    BY <1>4 DEF ReaderInv, Source, Store, reader, attempt, Reading
  <2> QED BY <2>1 DEF ReaderInv, Store, reader, attempt, Reading, Sized, Aligned, Placed
<1> QED BY <1>2, <1>5, <1>6, <1>7

LEMMA FrameStep == FrameInv /\ [Next]_vars => FrameInv'
<1> SUFFICES ASSUME FrameInv, [Next]_vars PROVE FrameInv'
  OBVIOUS
<1>0. TypeOK'
  BY TypeStep DEF FrameInv
<1> USE <1>0 DEF FrameInv
<1> DEFINE Rest == WriterInv' /\ ActiveInv' /\ ReaderInv' /\ TornOnlyIfLapped'
<1> SUFFICES Rest
  OBVIOUS
<1>1. ASSUME UNCHANGED <<active, slot, reader>>, WriterInv' PROVE Rest
  BY <1>1 DEF ActiveInv, ReaderInv, TornOnlyIfLapped, Agreed, Whole, Reading, Source, reader,
     attempt, Sized, Aligned, Placed
<1>2. CASE UNCHANGED vars
  BY <1>1, <1>2 DEF vars, file, writer, WriterInv, Writing, Current, NewId
<1>3. CASE Writer
  <2>1. CASE WriterDies \/ RemoveFile \/ CreateFile \/ SetMagic \/ SetGeometry
    <3>1. UNCHANGED <<active, slot, reader>>
      BY <2>1 DEF WriterDies, RemoveFile, CreateFile, SetMagic, SetGeometry, file
    <3>2. WriterInv'
      BY <2>1 DEF WriterInv, Writing, WriterDies, RemoveFile, CreateFile, SetMagic, SetGeometry
    <3> QED BY <1>1, <3>1, <3>2
  <2>2. CASE BeginWrite
    <3> USE DEF TypeOK
    <3>1. wgen \in Gen /\ target' = 1 - active[wgen] /\ target' \in Slot
      BY <2>2 DEF BeginWrite, Slot
    <3>2. \A g \in Gen : <<g, active[g]>> # <<wgen, 1 - active[wgen]>>
      BY <3>1 DEF Slot
    <3>3. \A g \in Gen : slot'[<<g, active'[g]>>] = slot[<<g, active[g]>>]
      BY <2>2, <3>1, <3>2 DEF BeginWrite
    <3>4. ActiveInv' /\ TornOnlyIfLapped'
      BY <2>2, <3>3 DEF ActiveInv, TornOnlyIfLapped, Agreed, Whole, BeginWrite, reader
    <3>5. WriterInv'
      BY <2>2, <3>1 DEF WriterInv, Writing, BeginWrite
    <3>6. ASSUME Reading, switches = 0 PROVE Source' = Source
      <4>1. rgen \in Gen /\ pick = active[rgen]
        BY <3>6 DEF Reading, ReaderInv
      <4>2. rgen' = rgen /\ pick' = pick /\ active' = active
        BY <2>2 DEF BeginWrite, reader, attempt
      <4> QED BY <3>3, <4>1, <4>2 DEF Source
    <3>7. ReaderInv'
      BY <2>2, <3>6 DEF ReaderInv, BeginWrite, reader, attempt, Reading, Sized, Aligned, Placed
    <3> QED BY <3>4, <3>5, <3>7
  <2>3. CASE CopyLo
    <3>1. ActiveInv' /\ TornOnlyIfLapped' /\ ReaderInv' /\ target' = 1 - active'[wgen']
          /\ Current' = [Current EXCEPT !.lo = count + 1]
      BY <2>3, StoreSafe DEF CopyLo
    <3>2. Current \in Buffer /\ wpc' = "hi" /\ count' = count
      BY <2>3 DEF CopyLo, Store, TypeOK, Current
    <3>3. WriterInv'
      BY <3>1, <3>2 DEF WriterInv, Writing, NewId, Buffer
    <3> QED BY <3>1, <3>3
  <2>4. CASE CopyHi
    <3>1. ActiveInv' /\ TornOnlyIfLapped' /\ ReaderInv' /\ target' = 1 - active'[wgen']
          /\ Current' = [Current EXCEPT !.hi = count + 1]
      BY <2>4, StoreSafe DEF CopyHi
    <3>2. Current \in Buffer /\ wpc = "hi" /\ wpc' = "fid" /\ count' = count
      BY <2>4 DEF CopyHi, Store, TypeOK, Current
    <3>3. WriterInv'
      BY <3>1, <3>2 DEF WriterInv, Writing, NewId, Buffer
    <3> QED BY <3>1, <3>3
  <2>5. CASE SetFrameId
    <3>1. ActiveInv' /\ TornOnlyIfLapped' /\ ReaderInv' /\ target' = 1 - active'[wgen']
          /\ Current' = [Current EXCEPT !.fid = count + 1]
      BY <2>5, StoreSafe DEF SetFrameId
    <3>2. Current \in Buffer /\ wpc = "fid" /\ wpc' = "ts" /\ count' = count + 1
      BY <2>5 DEF SetFrameId, Store, TypeOK, Current
    <3>3. WriterInv'
      BY <3>1, <3>2 DEF WriterInv, Writing, NewId, Buffer
    <3> QED BY <3>1, <3>3
  <2>6. CASE SetTimestamp
    <3>1. ActiveInv' /\ TornOnlyIfLapped' /\ ReaderInv' /\ target' = 1 - active'[wgen']
          /\ Current' = [Current EXCEPT !.ts = count]
      BY <2>6, StoreSafe DEF SetTimestamp
    <3>2. Current \in Buffer /\ wpc = "ts" /\ wpc' = "ready" /\ count' = count
      BY <2>6 DEF SetTimestamp, Store, TypeOK, Current
    <3>3. WriterInv'
      BY <3>1, <3>2 DEF WriterInv, Writing, NewId, Buffer
    <3> QED BY <3>1, <3>3
  <2>7. CASE SetReady
    <3>1. ActiveInv' /\ TornOnlyIfLapped' /\ ReaderInv' /\ target' = 1 - active'[wgen']
          /\ Current' = [Current EXCEPT !.ready = TRUE]
      BY <2>7, StoreSafe DEF SetReady
    <3>2. Current \in Buffer /\ wpc = "ready" /\ wpc' = "publish" /\ count' = count
      BY <2>7 DEF SetReady, Store, TypeOK, Current
    <3>3. WriterInv'
      BY <3>1, <3>2 DEF WriterInv, Writing, NewId, Buffer
    <3> QED BY <3>1, <3>3
  <2>8. CASE Publish
    <3> USE DEF TypeOK
    <3>1. wgen \in Gen /\ target = 1 - active[wgen] /\ target \in Slot /\ slot' = slot
          /\ active' = [active EXCEPT ![wgen] = target]
      BY <2>8 DEF Publish, WriterInv, Writing
    <3>2. Agreed(Current)
      BY <2>8 DEF Publish, WriterInv, Agreed, Whole
    <3>3. ActiveInv'
      BY <3>1, <3>2 DEF ActiveInv, Agreed, Whole, Current
    <3>4. WriterInv' /\ TornOnlyIfLapped'
      BY <2>8 DEF Publish, WriterInv, Writing, TornOnlyIfLapped, Agreed, Whole
    <3>5. UNCHANGED <<rpc, rgen, found, pick, item>> /\ (Reading' <=> Reading)
      BY <2>8 DEF Publish, attempt, Reading
    <3>6. ASSUME Reading /\ rgen = wgen PROVE ReaderInv'
      <4>1. switches' = switches + 1 /\ switches \in Nat
        BY <2>8, <3>6 DEF Publish
      <4>2. switches' # 0 /\ (switches' = 1 => switches = 0)
        BY <4>1
      <4>3. switches' = 1 => active'[rgen'] = 1 - pick'
        BY <3>1, <3>5, <3>6, <4>2 DEF ReaderInv
      <4> QED BY <3>5, <4>2, <4>3 DEF ReaderInv, Sized, Aligned, Placed
    <3>7. ASSUME ~(Reading /\ rgen = wgen) PROVE ReaderInv'
      <4>1. switches' = switches
        BY <2>8, <3>7 DEF Publish
      <4>2. Reading => active'[rgen'] = active[rgen]
        BY <3>1, <3>5, <3>7
      <4>3. Source' = Source
        BY <3>1, <3>5 DEF Source
      <4> QED BY <3>5, <4>1, <4>2, <4>3 DEF ReaderInv, Sized, Aligned, Placed
    <3>8. ReaderInv'
      BY <3>6, <3>7
    <3> QED BY <3>3, <3>4, <3>8
  <2> QED
    BY <1>3, <2>1, <2>2, <2>3, <2>4, <2>5, <2>6, <2>7, <2>8 DEF Writer
<1>4. CASE Reader
  <2>1. UNCHANGED <<file, writer>>
    BY <1>4 DEF Reader, OpenReader, ReadLatest, MapFile, CheckMagic, ReadGeometry,
       ReaderCloses, ReadActive, CheckReady, ReadFrameId, ReadTimestamp, ReadLo,
       ReadHi, Load, Confirm
  <2>2. WriterInv' /\ ActiveInv'
    BY <2>1 DEF file, writer, WriterInv, ActiveInv, Agreed, Whole, Writing, Current, NewId
  <2>3. CASE MapFile \/ CheckMagic \/ ReadGeometry \/ ReaderCloses
    <3>1. ~Reading'
      BY <2>3 DEF MapFile, CheckMagic, ReadGeometry, ReaderCloses, Reading
    <3>2. TornOnlyIfLapped'
      BY <2>3 DEF MapFile, CheckMagic, ReadGeometry, ReaderCloses,
         TornOnlyIfLapped, Agreed, Whole, Nothing
    <3> QED BY <2>2, <3>1, <3>2 DEF ReaderInv
  <2>4. CASE ReadActive
    BY <2>2, <2>4 DEF ReadActive, ReaderInv, file, TornOnlyIfLapped, Agreed, Whole
  <2>5. CASE CheckReady
    BY <2>2, <2>5 DEF CheckReady, ReaderInv, Reading, Source, file, attempt,
       TornOnlyIfLapped, Agreed, Whole
  <2>6. CASE ReadFrameId
    BY <2>2, <2>6 DEF ReadFrameId, ReaderInv, Reading, Source, file,
       TornOnlyIfLapped, Agreed, Whole, TypeOK, Buffer
  <2>7. CASE ReadTimestamp
    BY <2>2, <2>7 DEF ReadTimestamp, Load, ReaderInv, Reading, Source, Pixels, file,
       TornOnlyIfLapped, Agreed, Whole, TypeOK, Buffer, Sized, Aligned, Placed
  <2>8. CASE ReadLo
    BY <2>2, <2>8 DEF ReadLo, Load, ReaderInv, Reading, Source, Pixels, file,
       TornOnlyIfLapped, Agreed, Whole, TypeOK, Buffer, Sized, Aligned, Placed
  <2>9. CASE ReadHi
    BY <2>2, <2>9 DEF ReadHi, Load, ReaderInv, Reading, Source, Pixels, file,
       TornOnlyIfLapped, Agreed, Whole, TypeOK, Buffer, Sized, Aligned, Placed
  <2>10. CASE Confirm
    <3>1. ~Reading'
      BY <2>10 DEF Confirm, Reading
    <3>2. CASE active[rgen] = pick /\ switches < 2 /\ Aligned
      <4>1. switches = 0 \/ switches = 1
        BY <3>2 DEF TypeOK
      <4>2. switches # 1
        BY <2>10, <3>2 DEF Confirm, ReaderInv, Reading, TypeOK, Slot
      <4>3. Agreed(Source)
        BY <2>10, <3>2 DEF Confirm, ActiveInv, Source, TypeOK
      <4>4. Whole(Delivery)
        <5>1. item.fid = Source.fid /\ item.ts = Source.ts
          BY <2>10, <4>1, <4>2 DEF Confirm, ReaderInv, Reading
        <5>2. Sized => item.lo = Source.lo /\ item.hi = Source.hi
          BY <2>10, <3>2, <4>1, <4>2 DEF Confirm, ReaderInv, Reading
        <5> QED BY <4>3, <5>1, <5>2 DEF Delivery, Agreed, Whole
      <4>5. got' = Delivery
        BY <2>10, <3>2 DEF Confirm
      <4> QED BY <2>2, <3>1, <4>4, <4>5 DEF ReaderInv, TornOnlyIfLapped
    <3>3. CASE active[rgen] = pick /\ ~(switches < 2 /\ Aligned)
      BY <2>2, <2>10, <3>1, <3>3 DEF Confirm, Delivery, ReaderInv, TornOnlyIfLapped, Aligned
    <3>4. CASE active[rgen] # pick
      BY <2>2, <2>10, <3>1, <3>4 DEF Confirm, ReaderInv, TornOnlyIfLapped, Agreed, Whole
    <3> QED BY <3>2, <3>3, <3>4
  <2> QED
    BY <1>4, <2>3, <2>4, <2>5, <2>6, <2>7, <2>8, <2>9, <2>10
       DEF Reader, OpenReader, ReadLatest
<1> QED
  BY <1>2, <1>3, <1>4 DEF Next

\* However many frames are written and however the two processes interleave,
\* a delivered frame is torn only if two frames were finished while it was
\* being copied.
THEOREM FrameTornOnlyIfLapped == Spec => []TornOnlyIfLapped
<1>1. FrameInv => TornOnlyIfLapped
  BY DEF FrameInv
<1> QED BY <1>1, FrameInit, FrameStep, PTL DEF Spec

-----------------------------------------------------------------------------
(* Frame ids.                                                              *)

Fid(g, s) == slot[<<g, s>>].fid
Newest(g) == Fid(g, active[g])

\* The active slot holds the id counted last, until the writer has put the next
\* one into the other slot; files yet to come are blank.
CountInv ==
  /\ \A g \in Gen, s \in Slot : g > wgen => Fid(g, s) = 0
  /\ wpc \in {"create", "magic", "geometry", "idle", "lo", "hi", "fid"} =>
       Newest(wgen) = count /\ \A s \in Slot : Fid(wgen, s) <= count
  /\ wpc \in {"ts", "ready", "publish"} =>
       Newest(wgen) + 1 = count /\ Fid(wgen, target) = count

Open == rpc \notin {"closed", "magic", "geometry"}
Took == rpc \in {"ts", "lo", "hi", "confirm"}

\* What was delivered is not newer than the active frame of the file the reader
\* has mapped; an attempt began with a frame at least as new, and the id it has
\* taken differs from the last.
DeliveryInv ==
  /\ Open => got.fid <= last /\ last <= Newest(rgen)
  /\ Reading => last <= base /\ base <= Source.fid
  /\ Took => base <= item.fid /\ item.fid <= Source.fid /\ item.fid # last

LEMMA FidNat ==
  ASSUME TypeOK, NEW g \in Gen, NEW s \in Slot
  PROVE  Fid(g, s) \in Nat /\ active[g] \in Slot /\ Newest(g) \in Nat
BY DEF TypeOK, Buffer, Fid, Newest

LEMMA NewestNat == TypeOK => \A g \in Gen : Newest(g) \in Nat
BY FidNat DEF Slot

\* No id in a file, and no active id, ever goes back.
Grow ==
  /\ \A g \in Gen, s \in Slot : Fid(g, s) <= Fid(g, s)'
  /\ \A g \in Gen : Newest(g) <= Newest(g)'

SameIds == active' = active /\ \A g \in Gen, s \in Slot : Fid(g, s)' = Fid(g, s)

\* Only SetFrameId and Publish change ids.
LEMMA IdsKept ==
  ASSUME TypeOK, [Next]_vars, ~SetFrameId, ~Publish PROVE SameIds
<1> USE DEF SameIds
<1>1. CASE UNCHANGED slot /\ UNCHANGED active
  BY <1>1 DEF Fid
<1>2. ASSUME NEW s \in Slot, NEW b, wgen \in Gen, b.fid = slot[<<wgen, s>>].fid,
             slot' = [slot EXCEPT ![<<wgen, s>>] = b], active' = active
      PROVE  SameIds
  <2>1. ASSUME NEW g \in Gen, NEW t \in Slot PROVE Fid(g, t)' = Fid(g, t)
    BY <1>2 DEF Fid, TypeOK
  <2> QED BY <1>2, <2>1
<1>3. \A s \in Slot : wgen \in Gen => slot[<<wgen, s>>] \in Buffer
  BY DEF TypeOK
<1>4. CASE BeginWrite
  <2>1. wgen \in Gen /\ 1 - active[wgen] \in Slot
    BY <1>4 DEF BeginWrite, TypeOK, Slot
  <2>2. [slot[<<wgen, 1 - active[wgen]>>] EXCEPT !.ready = FALSE].fid
          = slot[<<wgen, 1 - active[wgen]>>].fid
    BY <1>3, <2>1 DEF Buffer
  <2> QED BY <1>2, <1>4, <2>1, <2>2 DEF BeginWrite
<1>5. ASSUME NEW from, from # "off", NEW to, NEW b, Store(from, to, b), b.fid = Current.fid
      PROVE  SameIds
  BY <1>2, <1>5 DEF Store, Current, TypeOK
<1>6. wpc # "off" => Current \in Buffer
  BY <1>3 DEF TypeOK, Current
<1>7. CASE CopyLo
  <2>1. [Current EXCEPT !.lo = count + 1].fid = Current.fid
    BY <1>6, <1>7 DEF CopyLo, Store, Buffer
  <2> QED BY <1>5, <1>7, <2>1 DEF CopyLo
<1>8. CASE CopyHi
  <2>1. [Current EXCEPT !.hi = count + 1].fid = Current.fid
    BY <1>6, <1>8 DEF CopyHi, Store, Buffer
  <2> QED BY <1>5, <1>8, <2>1 DEF CopyHi
<1>9. CASE SetTimestamp
  <2>1. [Current EXCEPT !.ts = count].fid = Current.fid
    BY <1>6, <1>9 DEF SetTimestamp, Store, Buffer
  <2> QED BY <1>5, <1>9, <2>1 DEF SetTimestamp
<1>10. CASE SetReady
  <2>1. [Current EXCEPT !.ready = TRUE].fid = Current.fid
    BY <1>6, <1>10 DEF SetReady, Store, Buffer
  <2> QED BY <1>5, <1>10, <2>1 DEF SetReady
<1>11. CASE WriterDies \/ RemoveFile \/ CreateFile \/ SetMagic \/ SetGeometry
  BY <1>1, <1>11 DEF WriterDies, RemoveFile, CreateFile, SetMagic, SetGeometry, file
<1>12. CASE Reader
  BY <1>1, <1>12 DEF Reader, OpenReader, ReadLatest, MapFile, CheckMagic, ReadGeometry,
     ReaderCloses, ReadActive, CheckReady, ReadFrameId, ReadTimestamp, ReadLo, ReadHi,
     Load, Confirm, file
<1>13. CASE UNCHANGED vars
  BY <1>1, <1>13 DEF vars, file
<1> QED
  BY <1>4, <1>7, <1>8, <1>9, <1>10, <1>11, <1>12, <1>13 DEF Next, Writer

LEMMA IdChanges ==
  ASSUME FrameInv, CountInv, SetFrameId
  PROVE  /\ CountInv' /\ Grow
<1> USE DEF FrameInv
<1>1. /\ wpc = "fid" /\ wpc' = "ts" /\ count' = count + 1 /\ active' = active
      /\ UNCHANGED <<wgen, target>> /\ wgen \in Gen /\ target = 1 - active[wgen]
      /\ slot' = [slot EXCEPT ![<<wgen, target>>] = [Current EXCEPT !.fid = count + 1]]
  BY DEF SetFrameId, Store, TypeOK, WriterInv, Writing
<1>2. active[wgen] \in Slot /\ target \in Slot /\ target # active[wgen] /\ count \in Nat
  BY <1>1 DEF TypeOK, Slot
<1>3. Current \in Buffer
  BY <1>1, <1>2 DEF TypeOK, Current
<1>4. Fid(wgen, target)' = count + 1
  <2>1. slot'[<<wgen, target>>] = [Current EXCEPT !.fid = count + 1]
    BY <1>1, <1>2 DEF TypeOK
  <2> QED BY <1>1, <1>3, <2>1 DEF Fid, Buffer
<1>5. \A g \in Gen, s \in Slot : <<g, s>> # <<wgen, target>> => Fid(g, s)' = Fid(g, s)
  BY <1>1 DEF Fid, TypeOK
<1>6. \A g \in Gen : Newest(g)' = Newest(g)
  BY <1>1, <1>2, <1>5 DEF Newest, TypeOK
<1>7. Newest(wgen) = count /\ Fid(wgen, target) <= count
  BY <1>1, <1>2 DEF CountInv
<1>8. CountInv'
  <2>1. \A g \in Gen, s \in Slot : g > wgen => Fid(g, s)' = 0
    BY <1>1, <1>5, FrameAssumption DEF CountInv
  <2>2. Newest(wgen)' + 1 = count' /\ Fid(wgen, target)' = count'
    BY <1>1, <1>4, <1>6, <1>7
  <2> QED BY <1>1, <2>1, <2>2 DEF CountInv
<1>9. Grow
  <2>1. \A g \in Gen, s \in Slot : Fid(g, s) <= Fid(g, s)'
    <3>1. ASSUME NEW g \in Gen, NEW s \in Slot PROVE Fid(g, s) <= Fid(g, s)'
      <4>1. Fid(g, s) \in Nat
        BY FidNat
      <4>2. CASE <<g, s>> = <<wgen, target>>
        <5>1. g = wgen /\ s = target
          BY <4>2
        <5>2. Fid(g, s)' = Fid(wgen, target)'
          BY <1>1, <5>1
        <5>3. Fid(g, s) <= count /\ Fid(g, s)' = count + 1
          BY <1>4, <1>7, <5>1, <5>2
        <5> QED BY <1>2, <4>1, <5>3
      <4>3. CASE <<g, s>> # <<wgen, target>>
        BY <1>5, <4>1, <4>3
      <4> QED BY <4>2, <4>3
    <3> QED BY <3>1
  <2>2. \A g \in Gen : Newest(g) <= Newest(g)'
    BY <1>6, FidNat DEF Slot
  <2> QED BY <2>1, <2>2 DEF Grow
<1> QED BY <1>8, <1>9

LEMMA ActiveChanges ==
  ASSUME FrameInv, CountInv, Publish
  PROVE  /\ CountInv' /\ Grow
<1> USE DEF FrameInv
<1>1. /\ wpc = "publish" /\ wpc' = "idle" /\ slot' = slot
      /\ active' = [active EXCEPT ![wgen] = target]
      /\ UNCHANGED <<wgen, target, count>> /\ wgen \in Gen /\ target = 1 - active[wgen]
  BY DEF Publish, TypeOK, WriterInv, Writing
<1>2. active[wgen] \in Slot /\ target \in Slot /\ Slot = {active[wgen], target}
  BY <1>1 DEF TypeOK, Slot
<1>3. Newest(wgen) + 1 = count /\ Fid(wgen, target) = count /\ Newest(wgen) \in Nat
  BY <1>1, <1>2, FidNat DEF CountInv
<1>4. \A g \in Gen, s \in Slot : Fid(g, s)' = Fid(g, s)
  BY <1>1 DEF Fid
<1>5. Newest(wgen)' = count
  <2>1. active'[wgen] = target
    BY <1>1 DEF TypeOK
  <2> QED BY <1>1, <1>3, <2>1 DEF Newest, Fid
<1>6. \A g \in Gen : g # wgen => Newest(g)' = Newest(g)
  BY <1>1 DEF Newest, Fid, TypeOK
<1>7. \A s \in Slot : Fid(wgen, s)' <= count
  <2>1. Fid(wgen, active[wgen]) <= count /\ Fid(wgen, target) <= count
    BY <1>3 DEF Newest
  <2> QED BY <1>1, <1>2, <1>4, <2>1
<1>8. CountInv'
  BY <1>1, <1>4, <1>5, <1>7 DEF CountInv
<1>9. Grow
  <2>1. \A g \in Gen : Newest(g) <= Newest(g)'
    <3>1. ASSUME NEW g \in Gen PROVE Newest(g) <= Newest(g)'
      <4>1. Newest(g) \in Nat
        BY NewestNat
      <4>2. CASE g = wgen
        <5>1. Newest(g)' = Newest(wgen)'
          BY <1>1, <4>2
        <5> QED BY <1>3, <1>5, <4>2, <5>1
      <4>3. CASE g # wgen
        <5>1. Newest(g)' = Newest(g)
          BY <1>6, <4>3
        <5> QED BY <4>1, <5>1
      <4> QED BY <4>2, <4>3
    <3> QED BY <3>1
  <2>2. \A g \in Gen, s \in Slot : Fid(g, s) <= Fid(g, s)'
    BY <1>4, FidNat
  <2> QED BY <2>1, <2>2 DEF Grow
<1> QED BY <1>8, <1>9

LEMMA CountStep ==
  ASSUME FrameInv, CountInv, [Next]_vars
  PROVE  /\ CountInv' /\ Grow
<1> USE DEF FrameInv
<1>1. CASE SetFrameId \/ Publish
  BY <1>1, IdChanges, ActiveChanges
<1>2. CASE ~SetFrameId /\ ~Publish
  <2>1. SameIds
    BY <1>2, IdsKept
  <2>2. \A g \in Gen : Newest(g)' = Newest(g)
    BY <2>1, FidNat DEF SameIds, Newest, Fid, TypeOK
  <2>3. Grow
    BY <2>1, <2>2, FidNat DEF SameIds, Grow, Slot
  <2>4. CASE RemoveFile
    <3>1. /\ wgen' = wgen + 1 /\ wgen' \in Gen /\ wgen \in Nat /\ count' = 0 /\ wpc' = "create"
      BY <2>4, FrameAssumption DEF RemoveFile, TypeOK
    <3>2. \A s \in Slot : Fid(wgen', s) = 0
      BY <3>1 DEF CountInv
    <3>3. \A g \in Gen, s \in Slot : g > wgen' => Fid(g, s)' = 0
      BY <2>1, <3>1, FrameAssumption DEF CountInv, SameIds
    <3>4. active'[wgen'] \in Slot
      BY <2>1, <3>1 DEF SameIds, TypeOK
    <3>5. \A s \in Slot : Fid(wgen, s)' = 0
      BY <2>1, <3>1, <3>2 DEF SameIds, Fid
    <3>6. CountInv'
      BY <3>1, <3>3, <3>4, <3>5 DEF CountInv, Newest
    <3> QED BY <2>3, <3>6
  <2>5. ASSUME wgen' = wgen, UNCHANGED <<count, target>>,
               wpc' = wpc \/ wpc' = "off"
                 \/ {wpc, wpc'} \subseteq {"ts", "ready", "publish"}
        PROVE  CountInv'
    BY <2>1, <2>2, <2>5 DEF CountInv, SameIds, TypeOK, Newest, Fid
  <2>6. ASSUME wgen' = wgen, count' = count,
               {wpc, wpc'} \subseteq {"create", "magic", "geometry", "idle", "lo", "hi", "fid"}
        PROVE  CountInv'
    BY <2>1, <2>2, <2>6 DEF CountInv, SameIds, TypeOK, Newest, Fid
  <2>7. CASE UNCHANGED vars \/ Reader
    <3>1. UNCHANGED writer
      BY <2>7 DEF vars, Reader, OpenReader, ReadLatest, MapFile, CheckMagic, ReadGeometry,
         ReaderCloses, ReadActive, CheckReady, ReadFrameId, ReadTimestamp, ReadLo, ReadHi,
         Load, Confirm
    <3> QED BY <2>3, <2>5, <3>1 DEF writer
  <2>8. CASE WriterDies \/ SetTimestamp \/ SetReady
    BY <2>3, <2>5, <2>8 DEF WriterDies, SetTimestamp, SetReady, Store
  <2>9. CASE CreateFile \/ SetMagic \/ SetGeometry \/ BeginWrite \/ CopyLo \/ CopyHi
    BY <2>3, <2>6, <2>9 DEF CreateFile, SetMagic, SetGeometry, BeginWrite, CopyLo, CopyHi, Store
  <2> QED BY <1>2, <2>3, <2>4, <2>7, <2>8, <2>9 DEF Next, Writer
<1> QED BY <1>1, <1>2

\* What one step of the reader delivers is newer than what it delivered before.
Newer == got' = Nothing \/ got' = got \/ (got'.fid > got.fid /\ got'.fid >= base)

LEMMA DeliveryStep ==
  ASSUME FrameInv, CountInv, DeliveryInv, [Next]_vars
  PROVE  DeliveryInv' /\ Newer
<1>0. TypeOK /\ TypeOK' /\ Grow
  BY TypeStep, CountStep DEF FrameInv
<1>1. \A g \in Gen : Newest(g) \in Nat /\ Newest(g)' \in Nat /\ Newest(g) <= Newest(g)'
  BY <1>0, FidNat DEF Grow, TypeOK, Buffer, Newest, Fid
<1>2. rgen \in Gen => Source.fid \in Nat /\ slot'[<<rgen, pick>>].fid \in Nat
                      /\ Source.fid <= slot'[<<rgen, pick>>].fid
  BY <1>0 DEF Grow, TypeOK, Buffer, Source, Fid
<1>3. /\ last \in Nat /\ base \in Nat /\ item.fid \in Nat /\ got.fid \in Nat
      /\ rpc # "closed" => rgen \in Gen
  BY <1>0 DEF TypeOK, Buffer
<1> USE DEF Open, Took, Reading
<1>4. ASSUME UNCHANGED <<rgen, last, got>>, UNCHANGED attempt,
             Open' => Open, Reading' => Reading, Took' => Took
      PROVE  DeliveryInv' /\ Newer
  <2>1. Open' => got'.fid <= last' /\ last' <= Newest(rgen)'
    BY <1>1, <1>3, <1>4 DEF DeliveryInv, Newest, Fid
  <2>2. Reading' => last' <= base' /\ base' <= Source.fid'
    BY <1>2, <1>3, <1>4 DEF DeliveryInv, Source, attempt
  <2>3. Took' => base' <= item'.fid /\ item'.fid <= Source.fid' /\ item'.fid # last'
    BY <1>2, <1>3, <1>4 DEF DeliveryInv, Source, attempt
  <2> QED BY <1>4, <2>1, <2>2, <2>3 DEF DeliveryInv, Newer
<1>5. CASE Writer \/ UNCHANGED vars
  <2>1. UNCHANGED <<rpc, rgen, last, got>> /\ UNCHANGED attempt
    BY <1>5 DEF Writer, WriterDies, RemoveFile, CreateFile, SetMagic, SetGeometry, BeginWrite,
       CopyLo, CopyHi, SetFrameId, SetTimestamp, SetReady, Store, Publish, vars, reader
  <2> QED BY <1>4, <2>1
<1>6. CASE MapFile
  BY <1>6 DEF MapFile, DeliveryInv, Newer
<1>7. CASE CheckMagic \/ ReaderCloses \/ CheckReady
  BY <1>4, <1>7 DEF CheckMagic, ReaderCloses, CheckReady
<1>7a. CASE ReadGeometry /\ field # DataBytes
  <2>1. rpc' = "geometry" /\ UNCHANGED <<rgen, last, got>> /\ UNCHANGED attempt
    BY <1>7a DEF ReadGeometry
  <2> QED BY <1>4, <2>1
<1>8. CASE ReadGeometry /\ field = DataBytes
  <2>1. rpc' = "idle" /\ last' = 0 /\ got' = Nothing /\ rgen' = rgen /\ rgen \in Gen
    BY <1>3, <1>8 DEF ReadGeometry
  <2>2. Nothing.fid = 0
    BY DEF Nothing
  <2>3. last' <= Newest(rgen)'
    <3>1. rgen \in Gen /\ Newest(rgen) \in Nat /\ UNCHANGED <<slot, active, rgen>>
      BY <1>0, <1>8, <2>1, NewestNat DEF ReadGeometry, file
    <3>2. Newest(rgen)' = Newest(rgen)
      BY <3>1 DEF Newest, Fid
    <3> QED BY <2>1, <3>1, <3>2
  <2> QED BY <2>1, <2>2, <2>3 DEF DeliveryInv, Newer
<1>9. CASE ReadActive
  <2>1. /\ rpc' = "ready" /\ Open /\ UNCHANGED <<rgen, last, got>> /\ rgen \in Gen
        /\ pick' = active[rgen] /\ base' = Newest(rgen) /\ slot' = slot /\ active' = active
    BY <1>3, <1>9 DEF ReadActive, Newest, Fid, file
  <2>2. Source.fid' = Newest(rgen) /\ Newest(rgen') = Newest(rgen)
    BY <2>1 DEF Source, Newest, Fid
  <2> QED BY <1>1, <2>1, <2>2 DEF DeliveryInv, Newer, Newest, Fid
<1>10. CASE ReadFrameId
  <2>1. /\ rpc = "fid" /\ rpc' = (IF Source.fid = last THEN "idle" ELSE "ts")
        /\ UNCHANGED <<slot, active, rgen, last, pick, base, got>>
        /\ item' = [item EXCEPT !.fid = Source.fid]
    BY <1>10 DEF ReadFrameId, file
  <2>2. item'.fid = Source.fid /\ Source.fid' = Source.fid /\ Newest(rgen') = Newest(rgen)
    BY <1>0, <2>1 DEF TypeOK, Buffer, Source, Newest, Fid
  <2> QED BY <1>2, <1>3, <2>1, <2>2 DEF DeliveryInv, Newer, Source, Newest, Fid
<1>11. ASSUME NEW from \in {"ts", "lo", "hi"}, NEW to \in {"lo", "hi", "confirm"}, NEW b,
              Load(from, to, b), b.fid = item.fid
       PROVE  DeliveryInv' /\ Newer
  <2>1. /\ Took /\ Took' /\ item'.fid = item.fid
        /\ UNCHANGED <<slot, active, rgen, last, pick, base, got>>
    BY <1>11 DEF Load, file
  <2> QED BY <2>1 DEF DeliveryInv, Newer, Source, Newest, Fid
<1>12. CASE ReadTimestamp
  <2>1. [item EXCEPT !.ts = Source.ts].fid = item.fid
    BY <1>0 DEF TypeOK, Buffer
  <2> QED BY <1>11, <1>12, <2>1 DEF ReadTimestamp
<1>13. CASE ReadLo
  <2>1. [item EXCEPT !.lo = IF Sized THEN Pixels.lo ELSE @].fid = item.fid
    BY <1>0 DEF TypeOK, Buffer
  <2> QED BY <1>11, <1>13, <2>1 DEF ReadLo
<1>14. CASE ReadHi
  <2>1. [item EXCEPT !.hi = IF Sized THEN Pixels.hi ELSE @].fid = item.fid
    BY <1>0 DEF TypeOK, Buffer
  <2> QED BY <1>11, <1>14, <2>1 DEF ReadHi
<1>15. CASE Confirm
  <2>1. rpc = "confirm" /\ UNCHANGED <<slot, active, rgen>> /\ UNCHANGED attempt
    BY <1>15 DEF Confirm, file
  <2>2. /\ base <= item.fid /\ item.fid <= Source.fid /\ item.fid # last
        /\ last <= base /\ got.fid <= last
    BY <2>1 DEF DeliveryInv
  <2>3. item.fid > got.fid
    BY <1>3, <2>2
  <2>4. CASE active[rgen] = pick
    <3>1. rpc' = "idle" /\ last' = item.fid /\ got' = Delivery
      BY <1>15, <2>4 DEF Confirm
    <3>2. got'.fid = item.fid
      BY <3>1 DEF Delivery
    <3>3. Newest(rgen)' = Source.fid
      BY <2>1, <2>4 DEF Newest, Fid, Source
    <3> QED BY <1>3, <2>1, <2>2, <2>3, <3>1, <3>2, <3>3 DEF DeliveryInv, Newer
  <2>5. CASE active[rgen] # pick
    BY <1>4, <1>15, <2>1, <2>5 DEF Confirm
  <2> QED BY <2>4, <2>5
<1> QED
  BY <1>5, <1>6, <1>7, <1>7a, <1>8, <1>9, <1>10, <1>12, <1>13, <1>14, <1>15
     DEF Next, Reader, OpenReader, ReadLatest

\* Each delivery of a reader is newer than the one before and no older than the
\* frame that was active when its attempt began, whether it is torn or not.
THEOREM FrameDeliversNewer == Spec => DeliversNewer
<1>1. Init => CountInv /\ DeliveryInv
  <2> SUFFICES ASSUME Init PROVE CountInv /\ DeliveryInv
    OBVIOUS
  <2>1. \A g \in Gen, s \in Slot : Fid(g, s) = 0
    BY DEF Init, Fid, Blank
  <2> QED BY <2>1 DEF Init, CountInv, DeliveryInv, Open, Took, Reading
<1>2. FrameInv /\ CountInv /\ DeliveryInv /\ [Next]_vars => (CountInv /\ DeliveryInv)' /\ Newer
  BY CountStep, DeliveryStep
<1>3. Newer => [got' = Nothing \/ got' = got \/ (got'.fid > got.fid /\ got'.fid >= base)]_vars
  BY DEF Newer
<1> QED
  BY <1>1, <1>2, <1>3, FrameInit, FrameStep, PTL DEF Spec, DeliversNewer
=============================================================================
