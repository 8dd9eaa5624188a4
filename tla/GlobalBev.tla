----------------------------- MODULE GlobalBev -----------------------------
(***************************************************************************)
(* The way of the bird's-eye view from the raw preview rings to its tiles. *)
(* Each paint opens the rings that are missing, takes a snapshot of the    *)
(* metadata of each ring, chooses the frames nearest to a common tick, and *)
(* uploads what its time budget allows; a camera it cannot upload keeps    *)
(* its tile.  The age limit of tiles (frame_hold_ms) and OpenGL errors are *)
(* left out.                                                               *)
(***************************************************************************)
EXTENDS PreviewRing, FiniteSetsExt

CONSTANTS
  Order,          \* the cameras as the command line lists them
  Delay,          \* presentation delay in ticks
  MaxDelta,       \* max_mvs_sync_delta_ticks
  Early,          \* bound: the rings that may be opened before their geometry is stored
  Retries         \* unstable_copy_retries

ASSUME BevAssumption ==
  /\ Order \in Seq(Camera) /\ Camera = {Order[i] : i \in DOMAIN Order}
  /\ Early \subseteq Camera
  /\ Delay \in Nat /\ MaxDelta \in Nat /\ Retries \in Nat \ {0}

VARIABLES
  readers,        \* the cameras with a reader, in the order of opening
  mapped,         \* a reader's file, 0 for none, and the fields it found stored there
  field,          \* the field of the geometry the reader being opened loads next
  phase,          \* what paintGL is at
  todo,           \* the cameras this phase has still to go through
  snaps,          \* the snapshots of this paint
  selected,       \* its frames: slot and tick
  copy,           \* a copy under way: sequence number, first half, attempts left
  spent,          \* history: a copy was tried in this paint
  cursor,         \* _mvs_upload_budget_cursor
  tile,           \* the texture of a camera: upload key and content
  listed,         \* the cameras of render_items
  basis,          \* history: the rings of the last target, and whether it was delayed
  excused,        \* history: the cameras whose next upload may go back in time
  lineup,         \* history: the cameras selected last, in the order of the readers
  held            \* history: in how many of the paints running that had the same
                  \* lineup the budget has held a camera

inputs  == <<readers, mapped, field>>
choice  == <<snaps, selected>>
budget  == <<spent, cursor>>
picture == <<tile, listed>>
turns   == <<lineup, held>>
vars == <<ring, inputs, phase, todo, choice, copy, budget, picture, basis, excused, turns>>

NoCopy == [seq |-> 0, first |-> 0, tries |-> 0]
NoTile == [slot |-> Never]
NoFile == [file |-> 0, found |-> {}]
Noise  == -2      \* memory that is not, or not only, the slot a reader means

BevInit ==
  /\ readers = <<>> /\ mapped = [c \in Camera |-> NoFile] /\ field = Shape
  /\ phase = "open" /\ todo = Order /\ snaps = <<>> /\ selected = <<>>
  /\ copy = NoCopy /\ spent = FALSE /\ cursor = 0
  /\ tile = [c \in Camera |-> NoTile] /\ listed = {}
  /\ basis = [cams |-> {}, delayed |-> FALSE] /\ excused = {}
  /\ lineup = <<>> /\ held = [c \in Camera |-> 0]

-----------------------------------------------------------------------------
(* Snapshots and the choice of frames.                                     *)

File(c) == files[c][mapped[c].file]

\* Fields a reader found stored when it loaded them, once and for all.
\* Without slot_count it has no slots; an odd number means a write, or a worker
\* that died in one.
Found(c, f) == f \in mapped[c].found
Readable(c) == Found(c, SlotCount) /\ File(c).seq % 2 = 0

\* The slots of such a reader: without height or stride they are empty arrays, of
\* which the upload reads memory all the same.  Without the size of a slot they
\* are all slot 0.
Shaped(c) == Found(c, Shape)
Placed(c, s) == Found(c, DataBytes) \/ s = 0
Pixels(c, half, s) == IF ~Shaped(c) THEN Noise ELSE half[IF Placed(c, s) THEN s ELSE 0]

\* The tick of a slot: its metadata, or for the active slot the global header,
\* zero in a ring never written.
Snapshot(r) ==
  [s \in Slot |-> IF r.tick[s] # Never THEN r.tick[s] ELSE IF s = r.active THEN 0 ELSE Never]

Valid(snap) == {s \in Slot : snap[s] # Never}

\* The newest tick that all rings have reached, and the tick to show: earlier
\* by the delay, as soon as there are that many ticks.
Common(S) == Min({Max({S[c][s] : s \in Valid(S[c])}) : c \in DOMAIN S})
Delayed(S) == Common(S) >= Delay
Target(S) == IF Delayed(S) THEN Common(S) - Delay ELSE Common(S)

Distance(a, b) == IF a > b THEN a - b ELSE b - a

\* The frame nearest to the target; of two, the one in the first slot.
Nearest(snap, target) ==
  LET least == Min({Distance(snap[s], target) : s \in Valid(snap)})
      slot == Min({s \in Valid(snap) : Distance(snap[s], target) = least})
  IN  [slot |-> slot, tick |-> snap[slot]]

InReach(S) == {c \in DOMAIN S : Distance(Nearest(S[c], Target(S)).tick, Target(S)) <= MaxDelta}

\* c comes before d in a list, which counts each by its first place, and what
\* a set of cameras is in that order.
Precedes(list, c, d) ==
  \E j \in DOMAIN list :
    /\ list[j] = d /\ \E i \in 1 .. j - 1 : list[i] = c
    /\ \A i \in 1 .. j - 1 : list[i] # d

Listings(list, S) ==
  {l \in [1 .. Cardinality(S) -> S] :
     \A i, j \in DOMAIN l : i < j => Precedes(list, l[i], l[j])}

\* _open_inputs, camera by camera: a reader that exists stays, and where the file
\* is missing the next paint tries again.
Opened(c) == \E i \in DOMAIN readers : readers[i] = c
Openable(c) == files[c] # <<>> /\ (c \in Early \/ Current(c).geometry = DataBytes)

SkipInput(c) ==
  /\ phase = "open" /\ todo # <<>> /\ c = Head(todo)
  /\ Opened(c) \/ (mapped[c].file = 0 /\ ~Openable(c))
  /\ todo' = Tail(todo)
  /\ UNCHANGED <<inputs, phase, choice, copy, budget, picture, basis, excused, turns>>

\* A reader maps the file that has the name, ...
MapFile(c) ==
  /\ phase = "open" /\ todo # <<>> /\ c = Head(todo)
  /\ mapped[c].file = 0 /\ Openable(c)
  /\ mapped' = [mapped EXCEPT ![c].file = Len(files[c])]
  /\ UNCHANGED <<readers, field, phase, todo, choice, copy, budget, picture, basis, excused, turns>>

\* ... and loads its geometry field by field, while the worker may go on.
LoadField(c) ==
  /\ phase = "open" /\ todo # <<>> /\ c = Head(todo)
  /\ mapped[c].file # 0 /\ ~Opened(c)
  /\ mapped' = [mapped EXCEPT ![c].found = IF File(c).geometry >= field THEN @ \cup {field} ELSE @]
  /\ IF field = DataBytes
       THEN readers' = Append(readers, c) /\ todo' = Tail(todo) /\ field' = Shape
       ELSE field' = field + 1 /\ UNCHANGED <<readers, todo>>
  /\ UNCHANGED <<phase, choice, copy, budget, picture, basis, excused, turns>>

OpenInput(c) == SkipInput(c) \/ MapFile(c) \/ LoadField(c)

InputsOpen ==
  /\ phase = "open" /\ todo = <<>>
  /\ phase' = "snapshot" /\ todo' = readers
  /\ UNCHANGED <<inputs, choice, copy, budget, picture, basis, excused, turns>>

\* read_slots_snapshot of the next ring.  It counts only if no write was under
\* way at its beginning and none has begun by its end, so what counts is the
\* ring at a single moment.
TakeSnapshot(c) ==
  /\ phase = "snapshot" /\ todo # <<>> /\ c = Head(todo)
  /\ todo' = Tail(todo)
  /\ snaps' = IF Readable(c)
              THEN [d \in DOMAIN snaps \cup {c} |-> IF d = c THEN Snapshot(File(c)) ELSE snaps[d]]
              ELSE snaps
  /\ UNCHANGED <<inputs, phase, selected, copy, budget, picture, basis, excused, turns>>

\* Mutant: every paint begins with the same camera.
InTurn_AsListed(cams) == todo' = cams /\ UNCHANGED cursor

\* _budget_order: each paint begins with another camera.
InTurn(cams) ==
  LET n == Len(cams)
      start == cursor % n
  IN  IF n = 0 THEN todo' = <<>> /\ UNCHANGED cursor
      ELSE /\ todo' = SubSeq(cams, start + 1, n) \o SubSeq(cams, 1, start)
           /\ cursor' = (start + 1) % n

\* _choose_frames: a camera without a frame near the target is hidden at once.
ChooseFrames ==
  /\ phase = "snapshot" /\ todo = <<>>
  /\ selected' = [c \in InReach(snaps) |-> Nearest(snaps[c], Target(snaps))]
  /\ listed' = listed \ (DOMAIN snaps \ InReach(snaps))
  /\ \E cams \in Listings(readers, InReach(snaps)) :
       /\ InTurn(cams) /\ lineup' = cams
       /\ held' = IF cams = lineup THEN held ELSE [c \in Camera |-> 0]
  /\ IF DOMAIN snaps = {} THEN UNCHANGED <<basis, excused>>
     ELSE /\ basis' = [cams |-> DOMAIN snaps, delayed |-> Delayed(snaps)]
          /\ excused' = IF DOMAIN snaps \subseteq basis.cams /\ Delayed(snaps) = basis.delayed
                        THEN excused ELSE Camera
  /\ phase' = "upload" /\ snaps' = <<>>
  /\ UNCHANGED <<inputs, copy, spent, tile>>

-----------------------------------------------------------------------------
(* _upload_selected, camera by camera.                                     *)

At(c, p) == phase = p /\ todo # <<>> /\ c = Head(todo) /\ c \in DOMAIN selected

UpToDate(c) == tile[c] # NoTile /\ tile[c].key = selected[c]

\* On to the next camera.
Done(c) ==
  /\ phase' = "upload" /\ todo' = Tail(todo) /\ copy' = NoCopy
  /\ selected' = [d \in DOMAIN selected \ {c} |-> selected[d]]

\* The texture has this upload key already.
KeepTexture(c) ==
  /\ At(c, "upload") /\ UpToDate(c)
  /\ listed' = listed \cup {c} /\ held' = [held EXCEPT ![c] = 0]
  /\ Done(c)
  /\ UNCHANGED <<inputs, snaps, budget, tile, basis, excused, lineup>>

\* The budget is used up, by copies or by a pause, and there is a tile to go on
\* with.  The count is about copies: a pause before the first of them ends it.
HoldByBudget(c) ==
  /\ At(c, "upload") /\ ~UpToDate(c) /\ tile[c] # NoTile /\ c \in listed
  /\ Done(c)
  /\ held' = IF spent THEN [held EXCEPT ![c] = @ + 1] ELSE [d \in Camera |-> 0]
  /\ UNCHANGED <<inputs, snaps, budget, picture, basis, excused, lineup>>

\* copy_slot_frame: read the number, copy, read the number again.
BeginCopy(c) ==
  /\ \/ At(c, "upload") /\ ~UpToDate(c)
        /\ copy' = [seq |-> File(c).seq, first |-> 0, tries |-> Retries]
     \/ At(c, "again") /\ copy' = [copy EXCEPT !.seq = File(c).seq]
  /\ phase' = "first" /\ spent' = TRUE /\ held' = [held EXCEPT ![c] = 0]
  /\ UNCHANGED <<inputs, todo, choice, cursor, picture, basis, excused, lineup>>

\* Mutant: attempts are not counted down to an end.
Fail_Forever(c) ==
  /\ phase' = "again" /\ copy' = [copy EXCEPT !.first = 0, !.tries = @ - 1]
  /\ UNCHANGED <<todo, selected>>

\* An attempt failed; after the last one the camera keeps what it shows.
Fail(c) ==
  \/ /\ copy.tries > 1
     /\ phase' = "again" /\ copy' = [copy EXCEPT !.first = 0, !.tries = @ - 1]
     /\ UNCHANGED <<todo, selected>>
  \/ copy.tries <= 1 /\ Done(c)

CopyHalf(c) ==
  /\ At(c, "first")
  /\ \/ copy.seq % 2 = 1 /\ Fail(c)
     \/ /\ copy.seq % 2 = 0
        /\ copy' = [copy EXCEPT !.first = Pixels(c, File(c).first, selected[c].slot)]
        /\ phase' = "rest" /\ UNCHANGED <<todo, selected>>
  /\ UNCHANGED <<inputs, snaps, budget, picture, basis, excused, turns>>

\* Mutant: an even number is enough after the copy.
Stable_Even(c) == File(c).seq % 2 = 0

Stable(c) == File(c).seq = copy.seq

CopyOther(c) ==
  /\ At(c, "rest")
  /\ \/ /\ Stable(c)
        /\ tile' = [tile EXCEPT ![c] = [key |-> selected[c], first |-> copy.first,
                                        rest |-> Pixels(c, File(c).rest, selected[c].slot)]]
        /\ listed' = listed \cup {c} /\ excused' = excused \ {c}
        /\ Done(c)
     \/ ~Stable(c) /\ Fail(c) /\ UNCHANGED <<picture, excused>>
  /\ UNCHANGED <<inputs, snaps, budget, basis, turns>>

Upload(c) == KeepTexture(c) \/ HoldByBudget(c) \/ BeginCopy(c) \/ CopyHalf(c) \/ CopyOther(c)

\* The picture is drawn from the tiles of render_items; the next paint looks for
\* the inputs that are missing.
Draw ==
  /\ phase = "upload" /\ todo = <<>>
  /\ phase' = "open" /\ spent' = FALSE
  /\ todo' = IF \A c \in Camera : Opened(c) THEN <<>> ELSE Order
  /\ UNCHANGED <<inputs, choice, copy, cursor, picture, basis, excused, turns>>

-----------------------------------------------------------------------------
Init == RingInit /\ BevInit

Rings ==
  /\ \E c \in Camera : Worker(c)
  /\ UNCHANGED <<inputs, phase, todo, choice, copy, budget, picture, basis, excused, turns>>

Paint ==
  /\ \/ InputsOpen \/ ChooseFrames \/ Draw
     \/ \E c \in Camera : OpenInput(c) \/ TakeSnapshot(c) \/ Upload(c)
  /\ UNCHANGED ring

Next == Rings \/ Paint

Spec == Init /\ [][Next]_vars

-----------------------------------------------------------------------------
(* Properties.                                                             *)

TypeOK ==
  /\ RingTypeOK
  /\ \A c \in Camera : mapped[c].file \in 0 .. Len(files[c]) /\ mapped[c].found \subseteq Field
  /\ field \in Field
  /\ phase \in {"open", "snapshot", "upload", "first", "rest", "again"}
  /\ readers \in Seq(Camera) /\ todo \in Seq(Camera) /\ cursor \in Nat /\ spent \in BOOLEAN
  /\ DOMAIN snaps \subseteq Camera /\ DOMAIN selected \subseteq Camera
  /\ copy \in [seq : Nat, first : Nat \cup {Noise}, tries : 0 .. Retries]
  /\ listed \subseteq {c \in Camera : tile[c] # NoTile}
  /\ basis \in [cams : SUBSET Camera, delayed : BOOLEAN] /\ excused \subseteq Camera
  /\ lineup \in Seq(Camera) /\ held \in [Camera -> Nat]

\* No tile mixes two frames, wherever the worker is in its writes and wherever
\* it died in one (copy_slot_frame: a copy "only when the raw ring write sequence
\* is unchanged across the copy", preview_gpu_shm.py:360), as long as the reader
\* did not come before height and stride were stored.
NeverTorn == \A c \in Camera : tile[c] # NoTile /\ Shaped(c) => tile[c].first = tile[c].rest

\* A tile shows the tick of its upload key, unless the worker had come round to
\* its slot between snapshot and copy, which the copy's own check does not see.
\* Then it shows a later frame, and the key is no longer that of the slot, so
\* that the next paint does not take the texture for up to date.  A reader that
\* came before the last field of the geometry is not so lucky: as long as it
\* lives it shows slot 0, whatever the key.
ShownAsNamed ==
  \A c \in Camera :
    /\ tile[c] # NoTile /\ Shaped(c) /\ Placed(c, tile[c].key.slot)
    /\ tile[c].first # tile[c].key.tick
    => /\ tile[c].first > tile[c].key.tick
       /\ File(c).tick[tile[c].key.slot] # tile[c].key.tick

\* A tile goes back in time only if, since its last upload, the target was taken
\* from a ring that had not counted before, or the delay set in: workers that
\* skip ticks, held tiles, failed copies and hidden cameras never do it.
TimeGoesOn ==
  [][\A c \in Camera :
       tile[c] # NoTile /\ tile'[c] # tile[c] /\ tile'[c].key.tick < tile[c].key.tick
         => c \in excused]_vars

\* While the selection stays the same, the budget holds no camera in as many
\* paints running as cameras are selected, whichever of them have new frames or
\* fail to be copied: "budget pressure no longer always penalizes the later"
\* cameras.  It needs paints whose time goes into copies: where the process is
\* paused before its first copy, line 5943 holds even the first camera.  When the selection changes the count begins again, and it must: the
\* cursor then means another camera, and one that comes and goes can take the
\* first place from the same camera each time.
NoneStarves == \A c \in Camera : held[c] > 0 => held[c] < Len(lineup)
=============================================================================
