---------------------------- MODULE PreviewRing ----------------------------
(***************************************************************************)
(* The raw preview rings: one per camera, a few slots of pixels and their  *)
(* metadata in shared memory, written by the camera's worker under a       *)
(* sequence number that is odd while a write goes on.  A worker that       *)
(* starts again removes the file and makes a new one; whoever has mapped   *)
(* the old file keeps it.                                                  *)
(*                                                                         *)
(* A frame is the tick it was taken at, and its pixels are two halves, so  *)
(* that a reader may come between them.  Metadata, active slot and the     *)
(* even sequence number are one store here: until the last of them the     *)
(* number is odd, and no reader takes what it reads under an odd number.   *)
(* The geometry is stored field by field, as the reader finds it.  HEIGHT  *)
(* and STRIDE, neither of any use alone, are one field; WIDTH is left out, *)
(* since a reader that misses it takes the stride instead.  HEADER_BYTES   *)
(* is stored with the magic number: a reader that misses it takes its      *)
(* value for a ring of up to nine slots; what it does with a ring of more, *)
(* whose header is longer, is left out.                                    *)
(***************************************************************************)
EXTENDS Integers, Sequences

CONSTANTS
  Camera,
  Slots,          \* slots of a ring (slot_count)
  Ticks,          \* bound: the ticks a camera has frames of
  Mortal,         \* bound: the cameras whose worker may die
  FileBound       \* bound: files the workers of one camera create

ASSUME RingAssumption ==
  /\ Slots \in Nat /\ Slots >= 2 /\ FileBound \in Nat /\ Mortal \subseteq Camera
  /\ Ticks \in [Camera -> SUBSET (Nat \ {0})]

VARIABLES
  files,          \* the files of a camera's workers; the last one has the name
  step,           \* where the worker is in making a file or writing a frame
  frame           \* the last frame the worker has begun with, 0 before the first

ring == <<files, step, frame>>

Slot == 0 .. Slots - 1
Never == -1       \* the metadata of a slot that was never written
Steps == {"dead", "geometry", "begin", "first", "rest", "publish", "idle"}

\* The fields of the geometry in the order in which they are stored and loaded.
Shape     == 1
SlotCount == 2
DataBytes == 3
Field == 1 .. 3

\* A file.  geometry is how many fields of the geometry have been stored.
Ring == [geometry : 0 .. 3, seq : Nat, active : Slot,
         tick : [Slot -> Nat \cup {Never}], first : [Slot -> Nat], rest : [Slot -> Nat]]

\* A new file: everything zero but what tells that it is a ring.
NewRing == [geometry |-> 0, seq |-> 0, active |-> 0, tick |-> [s \in Slot |-> Never],
            first |-> [s \in Slot |-> 0], rest |-> [s \in Slot |-> 0]]

Current(c) == files[c][Len(files[c])]

\* The slot that is written next.
Free(c) == (Current(c).active + 1) % Slots

RingInit ==
  /\ files = [c \in Camera |-> <<>>]
  /\ step = [c \in Camera |-> "dead"]
  /\ frame = [c \in Camera |-> 0]

\* Mutant: a coordinator that began again is not refused.
NewFrame_Any(c) == \E t \in Ticks[c] : t # frame[c] /\ frame' = [frame EXCEPT ![c] = t]

\* A frame of a later tick reaches the worker.
NewFrame(c) == \E t \in Ticks[c] : t > frame[c] /\ frame' = [frame EXCEPT ![c] = t]

\* The worker stores into its ring and goes on to step s.
Store(c, r, s) ==
  /\ files' = [files EXCEPT ![c][Len(files[c])] = r]
  /\ step' = [step EXCEPT ![c] = s]

\* The first frame of a worker makes the file: the magic number first, ...
Create(c) ==
  /\ step[c] = "dead" /\ Len(files[c]) < FileBound
  /\ NewFrame(c)
  /\ files' = [files EXCEPT ![c] = Append(@, NewRing)]
  /\ step' = [step EXCEPT ![c] = "geometry"]

\* ... the geometry after it, one field at a time, the size of a slot last.
SetGeometry(c) ==
  /\ step[c] = "geometry"
  /\ LET stored == Current(c).geometry + 1
     IN  Store(c, [Current(c) EXCEPT !.geometry = stored],
               IF stored = DataBytes THEN "begin" ELSE "geometry")
  /\ UNCHANGED frame

\* write(): the sequence number becomes odd, ...
BeginWrite(c) ==
  /\ \/ step[c] = "begin" /\ UNCHANGED frame
     \/ step[c] = "idle" /\ NewFrame(c)
  /\ Store(c, [Current(c) EXCEPT !.seq = IF @ % 2 = 0 THEN @ + 1 ELSE @], "first")

\* ... the pixels are copied, ...
CopyFirst(c) ==
  /\ step[c] = "first"
  /\ Store(c, [Current(c) EXCEPT !.first[Free(c)] = frame[c]], "rest")
  /\ UNCHANGED frame

CopyRest(c) ==
  /\ step[c] = "rest"
  /\ Store(c, [Current(c) EXCEPT !.rest[Free(c)] = frame[c]], "publish")
  /\ UNCHANGED frame

\* Mutant: the metadata goes to the slot that was active so far.
Publish_MetaOfActive(c) ==
  /\ step[c] = "publish"
  /\ Store(c, [Current(c) EXCEPT !.tick[Current(c).active] = frame[c], !.active = Free(c),
                                !.seq = @ + 1], "idle")
  /\ UNCHANGED frame

\* ... and metadata, active slot and an even number follow.
Publish(c) ==
  /\ step[c] = "publish"
  /\ Store(c, [Current(c) EXCEPT !.tick[Free(c)] = frame[c], !.active = Free(c), !.seq = @ + 1],
           "idle")
  /\ UNCHANGED frame

\* The worker dies, at whatever step.
Die(c) ==
  /\ step[c] # "dead" /\ c \in Mortal
  /\ step' = [step EXCEPT ![c] = "dead"]
  /\ UNCHANGED <<files, frame>>

Worker(c) ==
  Create(c) \/ SetGeometry(c) \/ BeginWrite(c) \/ CopyFirst(c) \/ CopyRest(c) \/ Publish(c)
  \/ Die(c)

RingTypeOK ==
  /\ files \in [Camera -> Seq(Ring)] /\ step \in [Camera -> Steps] /\ frame \in [Camera -> Nat]
=============================================================================
