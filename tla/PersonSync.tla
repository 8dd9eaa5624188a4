----------------------------- MODULE PersonSync -----------------------------
(***************************************************************************)
(* The front of global_person_id_server.py: it follows one file of person  *)
(* detections for each camera, puts together what the cameras saw at the   *)
(* same sync index, waits until a camera is sync_delay ahead, and hands    *)
(* the sync indices to the tracker in ascending order.                     *)
(*                                                                         *)
(* One turn of the loop is PollControl or ResetPending, one Poll for each  *)
(* camera, TakeBatch and a FlushNext for every sync index of the batch.    *)
(*                                                                         *)
(* Left out: lines that do not parse (skipped) or have no newline yet      *)
(* (left for the next poll), errors of the file system, restarts of the    *)
(* server (the launcher stops the whole stack).  Lines are of one length,  *)
(* so that a file's size counts its lines.                                 *)
(***************************************************************************)
EXTENDS Integers, Sequences, FiniteSets

CONSTANTS
  Camera,       \* the cameras, numbered as on the command line, one file each
  SyncDelay,    \* sync_delay
  MaxLines,     \* max_lines_per_poll
  MaxFlush,     \* max_sync_flush_per_loop
  SyncBound,    \* bound: sync indices are 0..SyncBound
  LineBound,    \* bound: lines written, to all files together
  FaultBound    \* bound: files emptied and operator resets

ASSUME SyncAssumption ==
  /\ Camera \subseteq Nat /\ IsFiniteSet(Camera)
  /\ SyncDelay \in Nat
  /\ MaxLines \in Nat \ {0} /\ MaxFlush \in Nat \ {0}
  /\ SyncBound \in Nat /\ LineBound \in Nat /\ FaultBound \in Nat

VARIABLES
  file,     \* human_result_<camera>.jsonl
  made,     \* lines written so far; a line is known by its number
  opened,   \* JsonlTailer.fp is not None
  pos,      \* JsonlTailer.pos
  fromEnd,  \* JsonlTailer.start_at_end
  pc,       \* "poll" or "flush"
  todo,     \* cameras still to be polled in this turn
  batch,    \* sync indices still to be flushed in this turn
  pending,  \* sync index -> the records waiting under it
  out,      \* what was handed to the tracker and published since the last reset
  seen,     \* history: the largest sync index put into pending, or -1
  ahead,    \* history: seen as it was when the last turn's polls were over
  late,     \* history: records read when seen was sync_delay ahead of them
  older,    \* history: records in a file before it was opened
  dropped,  \* history: records whose track or turn a reset has thrown away
  blind,    \* history: cameras whose file was emptied and nobody noticed
  faults    \* files emptied and resets so far

files == <<file, made>>
tailers == <<opened, pos, fromEnd, older>>
history == <<seen, ahead, late, dropped>>
syncVars == <<files, tailers, blind, pc, todo, batch, pending, out, history, faults>>

Sync == 0 .. SyncBound
RecordId == 1 .. LineBound

\* A line: its sync index and whether it has usable detections.
Record == [id : RecordId, sync : Sync, full : BOOLEAN]

SyncInit ==
  /\ file = [c \in Camera |-> <<>>] /\ made = 0
  /\ opened = [c \in Camera |-> FALSE] /\ pos = [c \in Camera |-> 0]
  /\ fromEnd = [c \in Camera |-> TRUE]
  /\ pc = "flush" /\ todo = {} /\ batch = {}
  /\ pending = [s \in {} |-> {}] /\ out = <<>>
  /\ seen = -1 /\ ahead = -1
  /\ late = {} /\ older = {} /\ dropped = {} /\ blind = {}
  /\ faults = 0

-----------------------------------------------------------------------------
(* The writers: one for each camera, in the inference server.              *)

\* Sync indices mostly rise, but a restarted trigger begins again and a record
\* without an index gets one from its time: any may come.
Append1(c, s, full) ==
  /\ made < LineBound
  /\ made' = made + 1
  /\ file' = [file EXCEPT ![c] =
                Append(@, [id |-> made + 1, sync |-> s, full |-> full])]
  /\ UNCHANGED <<tailers, blind, pc, todo, batch, pending, out, history, faults>>

\* A restarted writer empties the file (truncate_jsonl_on_start).
Truncate(c) ==
  /\ faults < FaultBound /\ file[c] # <<>>
  /\ faults' = faults + 1
  /\ file' = [file EXCEPT ![c] = <<>>]
  /\ blind' = IF pos[c] > 0 THEN blind \cup {c} ELSE blind
  /\ UNCHANGED <<made, tailers, pc, todo, batch, pending, out, history>>

-----------------------------------------------------------------------------
(* The server.                                                             *)

BeginTurn ==
  /\ pc = "flush" /\ batch = {}
  /\ pc' = "poll" /\ todo' = Camera
  /\ UNCHANGED <<files, tailers, blind, batch>>

PollControl ==
  /\ BeginTurn
  /\ UNCHANGED <<pending, out, history, faults>>

Waiting == UNION {pending[s] : s \in DOMAIN pending}
Published == UNION {out[i].recs : i \in DOMAIN out}

ResetPending ==
  /\ faults < FaultBound
  /\ BeginTurn
  /\ faults' = faults + 1
  /\ pending' = [s \in {} |-> {}] /\ out' = <<>>
  /\ dropped' = dropped \cup Waiting \cup Published
  /\ seen' = -1 /\ ahead' = -1
  /\ UNCHANGED late

\* The cameras are polled in their order.
Turn(c) == pc = "poll" /\ c \in todo /\ \A d \in todo : c <= d

\* What is kept under sync index s when lines come in while tracks exist or
\* not: a line without detections then still calls for a flush.
Kept(lines, tracks) ==
  {i \in DOMAIN lines : lines[i].full \/ tracks}

Under(s) == IF s \in DOMAIN pending THEN pending[s] ELSE {}

\* Mutant: the records of a camera replace those of another.
Extended_Replaces(lines, tracks) ==
  LET kept == Kept(lines, tracks)
      new == {lines[i].sync : i \in kept}
      of(s) == {lines[i].id : i \in {k \in kept : lines[k].sync = s /\ lines[k].full}}
  IN  [s \in DOMAIN pending \cup new |-> IF s \in new THEN of(s) ELSE pending[s]]

\* pending after the lines: setdefault and extend.
Extended(lines, tracks) ==
  LET kept == Kept(lines, tracks)
      new == {lines[i].sync : i \in kept}
      of(s) == {lines[i].id : i \in {k \in kept : lines[k].sync = s /\ lines[k].full}}
  IN  [s \in DOMAIN pending \cup new |-> Under(s) \cup of(s)]

HighestOf(lines, tracks) ==
  LET syncs == {lines[i].sync : i \in Kept(lines, tracks)} \cup {seen}
  IN  CHOOSE s \in syncs : \A t \in syncs : t <= s

Read(c, lines, tracks) ==
  /\ pending' = Extended(lines, tracks)
  /\ seen' = HighestOf(lines, tracks)
  /\ late' = late \cup {lines[i].id : i \in
                          {k \in DOMAIN lines : lines[k].full /\ lines[k].sync + SyncDelay <= ahead}}

\* The file is opened if it is not, at its end the first time.
Start(c) == IF opened[c] THEN pos[c]
            ELSE IF fromEnd[c] THEN Len(file[c]) ELSE 0

Ids(lines) == {lines[i].id : i \in DOMAIN lines}

\* The tailer reads on, at most max_lines_per_poll lines.  There are tracks, or
\* not, once detections have been handed over.
PollLines(c, tracks) ==
  /\ Turn(c) /\ (tracks => Published # {})
  /\ Start(c) <= Len(file[c])
  /\ LET at == Start(c)
         n == IF Len(file[c]) - at < MaxLines THEN Len(file[c]) - at ELSE MaxLines
     IN  /\ Read(c, SubSeq(file[c], at + 1, at + n), tracks)
         /\ pos' = [pos EXCEPT ![c] = at + n]
         /\ older' = IF opened[c] THEN older ELSE older \cup Ids(SubSeq(file[c], 1, at))
  /\ opened' = [opened EXCEPT ![c] = TRUE]
  /\ todo' = todo \ {c}
  /\ UNCHANGED <<files, fromEnd, blind, pc, batch, out, ahead, dropped, faults>>

\* The file has become shorter: it will be opened again, at its beginning.
PollShrunk(c) ==
  /\ Turn(c)
  /\ opened[c] /\ Len(file[c]) < pos[c]
  /\ opened' = [opened EXCEPT ![c] = FALSE]
  /\ fromEnd' = [fromEnd EXCEPT ![c] = FALSE]
  /\ pos' = [pos EXCEPT ![c] = 0]
  /\ blind' = blind \ {c}
  /\ todo' = todo \ {c}
  /\ UNCHANGED <<files, older, pc, batch, pending, out, history, faults>>

\* There is no file yet.
PollMissing(c) ==
  /\ Turn(c)
  /\ ~opened[c] /\ fromEnd[c] /\ file[c] = <<>>
  /\ todo' = todo \ {c}
  /\ UNCHANGED <<files, tailers, blind, pc, batch, pending, out, history, faults>>

\* Mutants: no delay; the sync index at the limit waits as well.
Ready_NoDelay == DOMAIN pending

Ready_Below ==
  {s \in DOMAIN pending : \E t \in DOMAIN pending : s < t - SyncDelay}

\* Sync indices at least sync_delay behind the largest one pending.
Ready == {s \in DOMAIN pending : \E t \in DOMAIN pending : s <= t - SyncDelay}

\* The lowest max_sync_flush_per_loop of them.
TakeBatch ==
  /\ pc = "poll" /\ todo = {}
  /\ pc' = "flush"
  /\ batch' = {s \in Ready : Cardinality({t \in Ready : t < s}) < MaxFlush}
  /\ ahead' = seen
  /\ UNCHANGED <<files, tailers, blind, todo, pending, out, seen, late, dropped, faults>>

\* The records of the lowest sync index are clustered, assigned and published.
FlushNext ==
  /\ pc = "flush"
  /\ \E s \in batch :
       /\ \A t \in batch : s <= t
       /\ batch' = batch \ {s}
       /\ pending' = [t \in DOMAIN pending \ {s} |-> pending[t]]
       /\ out' = Append(out, [sync |-> s, recs |-> pending[s]])
  /\ UNCHANGED <<files, tailers, blind, pc, todo, history, faults>>

Poll(c) ==
  (\E tracks \in BOOLEAN : PollLines(c, tracks)) \/ PollShrunk(c) \/ PollMissing(c)

Server == PollControl \/ (\E c \in Camera : Poll(c)) \/ TakeBatch \/ FlushNext

SyncNext ==
  \/ \E c \in Camera :
       (\E s \in Sync, full \in BOOLEAN : Append1(c, s, full)) \/ Truncate(c)
  \/ ResetPending
  \/ Server

SyncSpec == SyncInit /\ [][SyncNext]_syncVars

SyncFairSpec == SyncSpec /\ WF_syncVars(Server)

-----------------------------------------------------------------------------
(* Properties.                                                             *)

SyncTypeOK ==
  /\ file \in [Camera -> Seq(Record)] /\ made \in 0 .. LineBound
  /\ opened \in [Camera -> BOOLEAN] /\ pos \in [Camera -> Nat]
  /\ fromEnd \in [Camera -> BOOLEAN]
  /\ pc \in {"poll", "flush"} /\ todo \subseteq Camera
  /\ batch \subseteq DOMAIN pending /\ Cardinality(batch) <= MaxFlush
  /\ DOMAIN pending \subseteq Sync
  /\ \A s \in DOMAIN pending : pending[s] \subseteq RecordId
  /\ out \in Seq([sync : Sync, recs : SUBSET RecordId])
  /\ seen \in Sync \cup {-1} /\ ahead \in Sync \cup {-1}
  /\ late \subseteq RecordId /\ older \subseteq RecordId /\ dropped \subseteq RecordId
  /\ blind \subseteq Camera /\ faults \in Nat

\* The tracker gets its frames in the order of their sync index, each with all
\* its cameras together, except for records that came after a camera had been
\* seen sync_delay ahead in an earlier turn: their frame is handed over once
\* more, or after newer ones.  An operator's reset begins a new order.
OrderedUnlessLate ==
  \A i, j \in DOMAIN out :
    i < j /\ out[j].sync <= out[i].sync => out[j].recs \subseteq late

\* No detection is lost or used twice, however lines, polls, emptied files and
\* resets interleave: what a tailer has passed is waiting, handed over once, or
\* thrown away by a reset.  Two exceptions are the code's own: lines from before
\* the file was first opened, and a file that was emptied and has grown past the
\* old position by the next poll, which nobody notices.
Accounted ==
  /\ Waiting \cap Published = {} /\ dropped \cap (Waiting \cup Published) = {}
  /\ \A i, j \in DOMAIN out : i # j => out[i].recs \cap out[j].recs = {}
  /\ \A c \in Camera \ blind : opened[c] =>
       \A i \in 1 .. pos[c] : file[c][i].full =>
         file[c][i].id \in Waiting \cup Published \cup dropped \cup older

\* A sync index that a camera has passed by sync_delay is handed to the tracker
\* or thrown away by a reset, however many wait in front of it.
ReadyIsFlushed ==
  \A s \in Sync :
    s \in DOMAIN pending /\ (\E t \in DOMAIN pending : t >= s + SyncDelay)
      ~> s \notin DOMAIN pending
=============================================================================
