--------------------------- MODULE LatestFrameShm ---------------------------
(***************************************************************************)
(* latest_frame_shm.py: the double-buffered frame in /dev/shm that a       *)
(* capture process writes and one SharedFrameReader of another process     *)
(* reads, with no lock between them.                                       *)
(*                                                                         *)
(* Every numbered action is one load or store of the code, or one half of  *)
(* a pixel copy; the two processes interleave between any two of them.  A  *)
(* frame is known by its frame_id: its timestamp and the two halves of its *)
(* pixels are tagged with it, so a frame is whole when all four agree.     *)
(*                                                                         *)
(* A new SharedFrameWriter removes the file and makes another one.  A      *)
(* reader keeps the file it has mapped, so files are told apart by the     *)
(* generation of the writer that made them.                                *)
(*                                                                         *)
(* The geometry is stored field by field, the size of a slot last, and     *)
(* loaded field by field, once for the reader's life; a field that is not  *)
(* there yet is read as zero.  WIDTH, HEIGHT and CHANNELS, of which none   *)
(* is of any use without the others, are one field.                        *)
(*                                                                         *)
(* Left out: the header fields the reader does not load (VERSION, DTYPE,   *)
(* STRIDE, WRITE_SLOT); the size checks; the wrap of frame_id at 2^32; ids *)
(* chosen by the caller (the capture thread counts its frames too).        *)
(***************************************************************************)
EXTENDS Integers

CONSTANTS
  MaxRetries,   \* SharedFrameReader._MAX_RETRIES
  Gen,          \* generations of the file, 1..n: a bound on writer starts
  FrameBound    \* bound: frames a writer publishes

ASSUME FrameAssumption ==
  /\ Gen \subseteq Nat \ {0}
  /\ FrameBound \in Nat
  /\ MaxRetries \in Nat \ {0}

Slot   == {0, 1}
Buffer == [ready : BOOLEAN, fid : Nat, ts : Nat, lo : Nat, hi : Nat]
Blank  == [ready |-> FALSE, fid |-> 0, ts |-> 0, lo |-> 0, hi |-> 0]

\* The fields of the geometry, in the order of their stores and loads.
Shape     == 1
DataBytes == 2
Field == {Shape, DataBytes}

\* The frame a delivery returned last: its parts, whether the reader had found
\* the shape of a frame and the size of a slot, the slot it was read as, and what
\* happened while it was being read.
Nothing == [fid |-> 0, ts |-> 0, lo |-> 0, hi |-> 0, sized |-> TRUE, placed |-> TRUE,
            slot |-> 0, base |-> 0, switches |-> 0]

VARIABLES
  path,     \* the generation the path names, 0 when there is no file
  magic, geometry, active, slot,  \* per generation: the header (geometry: how many
                               \* of its fields are stored) and the two slots
  wpc, wgen, count, target,    \* the writer: what it does next, its generation,
                               \* self._frame_id, write_slot
  rpc, rgen, field, found, last,  \* the reader: what it does next, the file it has
                               \* mapped, the field it loads next, the fields it
                               \* found stored, self.last_frame_id (0 for -1)
  tries, pick, item,           \* the attempt, slot_a, and what was read so far
  base, switches,              \* history: the id in the active slot when slot_a was
                               \* read, and the frames published since
  got                          \* history: the last delivery, with the two above

file     == <<path, magic, geometry, active, slot>>
writer   == <<wpc, wgen, count, target>>
attempt  == <<tries, pick, item, base>>
reader   == <<rpc, rgen, field, found, last, attempt, switches, got>>
vars     == <<file, writer, reader>>

Init ==
  /\ path = 0
  /\ magic = [g \in Gen |-> FALSE] /\ geometry = [g \in Gen |-> 0]
  /\ active = [g \in Gen |-> 0]
  /\ slot = [b \in Gen \X Slot |-> Blank]
  /\ wpc = "off" /\ wgen = 0 /\ count = 0 /\ target = 0
  /\ rpc = "closed" /\ rgen = 0 /\ field = Shape /\ found = {} /\ last = 0
  /\ tries = 0 /\ pick = 0 /\ item = Blank /\ base = 0 /\ switches = 0
  /\ got = Nothing

-----------------------------------------------------------------------------
(* SharedFrameWriter.__init__: remove the old file, map a new one full of  *)
(* zeroes, then fill in the header, the magic number first.                *)

WriterDies ==
  /\ wpc # "off"
  /\ wpc' = "off"
  /\ UNCHANGED <<file, wgen, count, target, reader>>

RemoveFile ==
  /\ wpc = "off" /\ wgen + 1 \in Gen
  /\ wpc' = "create" /\ wgen' = wgen + 1 /\ count' = 0
  /\ path' = 0
  /\ UNCHANGED <<magic, geometry, active, slot, target, reader>>

CreateFile ==
  /\ wpc = "create"
  /\ wpc' = "magic" /\ path' = wgen
  /\ UNCHANGED <<magic, geometry, active, slot, wgen, count, target, reader>>

SetMagic ==
  /\ wpc = "magic"
  /\ wpc' = "geometry" /\ magic' = [magic EXCEPT ![wgen] = TRUE]
  /\ UNCHANGED <<path, geometry, active, slot, wgen, count, target, reader>>

\* The next field of the geometry.
SetGeometry ==
  /\ wpc = "geometry"
  /\ geometry' = [geometry EXCEPT ![wgen] = @ + 1]
  /\ wpc' = IF geometry[wgen] + 1 = DataBytes THEN "idle" ELSE "geometry"
  /\ UNCHANGED <<path, magic, active, slot, wgen, count, target, reader>>

-----------------------------------------------------------------------------
(* SharedFrameWriter.write.                                                *)

\* One store into the slot being written.
Store(from, to, buffer) ==
  /\ wpc = from /\ wpc' = to
  /\ slot' = [slot EXCEPT ![<<wgen, target>>] = buffer]
  /\ UNCHANGED <<path, magic, geometry, active, wgen, target, reader>>

Current == slot[<<wgen, target>>]

BeginWrite ==
  /\ wpc = "idle" /\ count < FrameBound
  /\ wpc' = "lo"
  /\ target' = 1 - active[wgen]
  /\ slot' = [slot EXCEPT ![<<wgen, 1 - active[wgen]>>].ready = FALSE]
  /\ UNCHANGED <<path, magic, geometry, active, wgen, count, reader>>

CopyLo == Store("lo", "hi", [Current EXCEPT !.lo = count + 1]) /\ UNCHANGED count
CopyHi == Store("hi", "fid", [Current EXCEPT !.hi = count + 1]) /\ UNCHANGED count

SetFrameId ==
  /\ Store("fid", "ts", [Current EXCEPT !.fid = count + 1])
  /\ count' = count + 1

SetTimestamp == Store("ts", "ready", [Current EXCEPT !.ts = count]) /\ UNCHANGED count

\* Mutant: the ready flag is not set again.
SetReady_Missing == Store("ready", "publish", Current) /\ UNCHANGED count

SetReady == Store("ready", "publish", [Current EXCEPT !.ready = TRUE]) /\ UNCHANGED count

Reading == rpc \in {"ready", "fid", "ts", "lo", "hi", "confirm"}

\* The store into header[ACTIVE_SLOT].
Publish ==
  /\ wpc = "publish"
  /\ wpc' = "idle"
  /\ active' = [active EXCEPT ![wgen] = target]
  /\ switches' = IF Reading /\ rgen = wgen THEN switches + 1 ELSE switches
  /\ UNCHANGED <<path, magic, geometry, slot, wgen, count, target,
                 rpc, rgen, field, found, last, attempt, got>>

-----------------------------------------------------------------------------
(* SharedFrameReader.__init__, called again by its users until it succeeds *)
(* (LazySharedReader, open_reader_with_retry).                             *)

MapFile ==
  /\ rpc = "closed" /\ path # 0
  /\ rpc' = "magic" /\ rgen' = path
  /\ UNCHANGED <<file, writer, field, found, last, attempt, switches, got>>

CheckMagic ==
  /\ rpc = "magic"
  /\ rpc' = IF magic[rgen] THEN "geometry" ELSE "closed"
  /\ field' = Shape /\ found' = {}
  /\ UNCHANGED <<file, writer, rgen, last, attempt, switches, got>>

\* The next field of the geometry, zero when it is not stored yet.
ReadGeometry ==
  /\ rpc = "geometry"
  /\ found' = IF field <= geometry[rgen] THEN found \cup {field} ELSE found
  /\ IF field = DataBytes
       THEN rpc' = "idle" /\ last' = 0 /\ got' = Nothing /\ UNCHANGED field
       ELSE field' = field + 1 /\ UNCHANGED <<rpc, last, got>>
  /\ UNCHANGED <<file, writer, rgen, attempt, switches>>

\* The reader's process ends, or closes its reader.
ReaderCloses ==
  /\ rpc # "closed"
  /\ rpc' = "closed"
  /\ UNCHANGED <<file, writer, rgen, field, found, last, attempt, switches, got>>

-----------------------------------------------------------------------------
(* SharedFrameReader.read_latest.                                          *)

Source == slot[<<rgen, pick>>]

\* Without its shape a frame is an empty array; without the size of a slot both
\* slots are mapped to the place of slot 0.
Sized  == Shape \in found
Placed == DataBytes \in found
Pixels == slot[<<rgen, IF Placed THEN pick ELSE 0>>]

\* slot_a; base and switches start a new attempt.
ReadActive ==
  /\ rpc \in {"idle", "retry"}
  /\ rpc' = "ready"
  /\ tries' = IF rpc = "idle" THEN 1 ELSE tries + 1
  /\ pick' = active[rgen] /\ item' = Blank
  /\ base' = slot[<<rgen, active[rgen]>>].fid /\ switches' = 0
  /\ UNCHANGED <<file, writer, rgen, field, found, last, got>>

\* Not ready: return None.
CheckReady ==
  /\ rpc = "ready"
  /\ rpc' = IF Source.ready THEN "fid" ELSE "idle"
  /\ UNCHANGED <<file, writer, rgen, field, found, last, attempt, switches, got>>

\* The frame delivered last: return None.
ReadFrameId ==
  /\ rpc = "fid"
  /\ rpc' = IF Source.fid = last THEN "idle" ELSE "ts"
  /\ item' = [item EXCEPT !.fid = Source.fid]
  /\ UNCHANGED <<file, writer, rgen, field, found, last, tries, pick, base, switches, got>>

Load(from, to, read) ==
  /\ rpc = from /\ rpc' = to /\ item' = read
  /\ UNCHANGED <<file, writer, rgen, field, found, last, tries, pick, base, switches, got>>

ReadTimestamp == Load("ts", "lo", [item EXCEPT !.ts = Source.ts])
ReadLo == Load("lo", "hi", [item EXCEPT !.lo = IF Sized THEN Pixels.lo ELSE @])
ReadHi == Load("hi", "confirm", [item EXCEPT !.hi = IF Sized THEN Pixels.hi ELSE @])

\* slot_b: deliver, or try again, or give up and return None.
Delivery == [fid |-> item.fid, ts |-> item.ts, lo |-> item.lo, hi |-> item.hi,
             sized |-> Sized, placed |-> Placed, slot |-> pick,
             base |-> base, switches |-> switches]

\* Mutants: the second look at the active slot is missing; last_frame_id is
\* not updated.
Confirm_Blind ==
  /\ rpc = "confirm"
  /\ rpc' = "idle" /\ last' = item.fid /\ got' = Delivery
  /\ UNCHANGED <<file, writer, rgen, field, found, attempt, switches>>

Confirm_Forgets ==
  /\ rpc = "confirm"
  /\ IF active[rgen] = pick
       THEN rpc' = "idle" /\ got' = Delivery
       ELSE /\ rpc' = IF tries < MaxRetries THEN "retry" ELSE "idle"
            /\ UNCHANGED got
  /\ UNCHANGED <<file, writer, rgen, field, found, last, attempt, switches>>

Confirm ==
  /\ rpc = "confirm"
  /\ IF active[rgen] = pick
       THEN rpc' = "idle" /\ last' = item.fid /\ got' = Delivery
       ELSE /\ rpc' = IF tries < MaxRetries THEN "retry" ELSE "idle"
            /\ UNCHANGED <<last, got>>
  /\ UNCHANGED <<file, writer, rgen, field, found, attempt, switches>>

-----------------------------------------------------------------------------
Writer ==
  \/ WriterDies
  \/ RemoveFile \/ CreateFile \/ SetMagic \/ SetGeometry
  \/ BeginWrite \/ CopyLo \/ CopyHi \/ SetFrameId \/ SetTimestamp \/ SetReady
  \/ Publish

OpenReader == MapFile \/ CheckMagic \/ ReadGeometry

ReadLatest ==
  \/ ReadActive \/ CheckReady \/ ReadFrameId \/ ReadTimestamp \/ ReadLo \/ ReadHi
  \/ Confirm

Reader == OpenReader \/ ReadLatest \/ ReaderCloses

Next == Writer \/ Reader
Spec == Init /\ [][Next]_vars

\* The reader's process keeps polling.  Nothing is assumed of the writer.
FairSpec == Spec /\ WF_vars(ReadLatest)

-----------------------------------------------------------------------------
(* Properties.                                                             *)

\* Of one frame; an empty array has no pixels.
Whole(d) == d.fid = d.ts /\ (d.sized => d.fid = d.lo /\ d.fid = d.hi)

TypeOK ==
  /\ path \in Gen \cup {0}
  /\ magic \in [Gen -> BOOLEAN] /\ geometry \in [Gen -> Nat]
  /\ active \in [Gen -> Slot] /\ slot \in [Gen \X Slot -> Buffer]
  /\ wpc \in {"off", "create", "magic", "geometry", "idle", "lo", "hi", "fid",
              "ts", "ready", "publish"}
  /\ wgen \in Gen \cup {0} /\ count \in Nat /\ target \in Slot
  /\ wpc # "off" => wgen \in Gen
  /\ rpc \in {"closed", "magic", "geometry", "idle", "retry", "ready", "fid",
              "ts", "lo", "hi", "confirm"}
  /\ rgen \in Gen \cup {0} /\ field \in Field /\ found \subseteq Field /\ last \in Nat
  /\ rpc # "closed" => rgen \in Gen
  /\ tries \in Nat /\ pick \in Slot /\ item \in Buffer
  /\ base \in Nat /\ switches \in Nat
  /\ got \in [fid : Nat, ts : Nat, lo : Nat, hi : Nat, sized : BOOLEAN,
              placed : BOOLEAN, slot : Slot, base : Nat, switches : Nat]

\* A delivered frame is one frame, its pixels, id and timestamp together,
\* unless the writer finished two frames while the reader copied one: the
\* check that the active slot did not change (read_latest, line 294) cannot
\* see two changes.  A reader that opened before DATA_BYTES was stored has slot
\* 0's pixels under slot 1's id for the rest of its life; nothing is said of
\* its frames of slot 1.
TornOnlyIfLapped ==
  got.switches < 2 /\ (got.placed \/ got.slot = 0) => Whole(got)

\* Each delivery of a reader is newer than the one before, and no older than
\* the frame that was active when its attempt began, torn or not.
DeliversNewer ==
  [][got' = Nothing \/ got' = got \/ (got'.fid > got.fid /\ got'.fid >= base)]_vars

\* A reader that stays on its file ends with the newest frame published in it,
\* wherever the writer stopped or died, though an attempt may be given up.
CatchesUp ==
  <>[](rpc \notin {"closed", "magic", "geometry"})
    => <>[](rgen # 0 => last = slot[<<rgen, active[rgen]>>].fid)

=============================================================================
