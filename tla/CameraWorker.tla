---------------------------- MODULE CameraWorker ----------------------------
(***************************************************************************)
(* mvs_cam_worker_external_trigger.py: one process for each camera, with a *)
(* trigger thread (receive a tick, wait for its fire time, trigger, queue  *)
(* the tick's metadata) and a read thread (take the next frame, label it   *)
(* with the next metadata).  The two threads and the camera between them   *)
(* agree on nothing but order: no frame says which trigger it answers.     *)
(*                                                                         *)
(* The camera is external: a trigger leads to one frame or to none, and    *)
(* frames arrive in trigger order.  A frame is known by the tick whose     *)
(* trigger exposed it.                                                     *)
(*                                                                         *)
(* Left out: what is published with a frame, the statistics, the read      *)
(* timeouts (they change nothing).  No worker is started twice and no      *)
(* two die: the launcher stops the whole stack when one of them exits.     *)
(***************************************************************************)
EXTENDS TriggerSockets

CONSTANTS
  LateDrop,    \* late_drop_ms
  PendingMax,  \* external_trigger_pending_queue_max, at least 16
  LostBound    \* bound: no trigger fails once a camera has missed so many

ASSUME WorkerAssumption ==
  /\ LateDrop \in Nat
  /\ PendingMax \in Nat \ {0}
  /\ LostBound \in Nat

VARIABLES
  wpc,       \* per camera: "none", "opening", "recv", "wait", "push", "dead"
  cur,       \* the tick the trigger thread works on
  lastTick,  \* last_tick_id
  pending,   \* pending_meta: ticks fired and waiting for their frame
  frames,    \* the camera: frames taken and not yet read
  shown,     \* the last frame published: its label, the tick it was taken at
  lost,      \* history: triggers without a frame, and frames read without a label
  cut        \* history: metadata dropped because pending_meta was full

workers == <<wpc, cur, lastTick, pending, frames, shown, lost, cut>>

NoTick == [tick |-> 0, fire |-> 0]
NeverShown == [label |-> -1, taken |-> -1]

WorkersInit ==
  /\ wpc = [c \in Camera |-> "none"]
  /\ cur = [c \in Camera |-> NoTick]
  /\ lastTick = [c \in Camera |-> -1]
  /\ pending = [c \in Camera |-> <<>>] /\ frames = [c \in Camera |-> <<>>]
  /\ shown = [c \in Camera |-> NeverShown]
  /\ lost = [c \in Camera |-> 0] /\ cut = [c \in Camera |-> 0]

-----------------------------------------------------------------------------
(* The process.                                                            *)

\* The socket is bound before the camera is opened.
Bind(c) ==
  /\ wpc[c] = "none"
  /\ wpc' = [wpc EXCEPT ![c] = "opening"]
  /\ bound' = bound \cup {c}
  /\ UNCHANGED <<now, inbox, cur, lastTick, pending, frames, shown, lost, cut>>

OpenSource(c) ==
  /\ wpc[c] = "opening"
  /\ wpc' = [wpc EXCEPT ![c] = "recv"]
  /\ UNCHANGED <<sockets, cur, lastTick, pending, frames, shown, lost, cut>>

WorkerDies(c) ==
  /\ wpc[c] # "none" /\ \A d \in Camera : wpc[d] # "dead"
  /\ wpc' = [wpc EXCEPT ![c] = "dead"]
  /\ bound' = bound \ {c} /\ inbox' = [inbox EXCEPT ![c] = <<>>]
  /\ pending' = [pending EXCEPT ![c] = <<>>] /\ frames' = [frames EXCEPT ![c] = <<>>]
  /\ cur' = [cur EXCEPT ![c] = NoTick] /\ lastTick' = [lastTick EXCEPT ![c] = -1]
  /\ UNCHANGED <<now, shown, lost, cut>>

-----------------------------------------------------------------------------
(* trigger_loop.                                                           *)

Receive(c) ==
  /\ wpc[c] = "recv" /\ inbox[c] # <<>>
  /\ inbox' = [inbox EXCEPT ![c] = Tail(@)]
  /\ LET m == Head(inbox[c])
         repeated == m.tick <= lastTick[c]
         late == now > m.fire + LateDrop
     IN  /\ lastTick' = [lastTick EXCEPT ![c] = IF repeated THEN @ ELSE m.tick]
         /\ IF repeated \/ late
              THEN UNCHANGED <<wpc, cur>>
              ELSE wpc' = [wpc EXCEPT ![c] = "wait"] /\ cur' = [cur EXCEPT ![c] = m]
  /\ UNCHANGED <<now, bound, pending, frames, shown, lost, cut>>

\* software_trigger; it may return an error or raise, which does not keep the
\* metadata from being queued.
Fire(c) ==
  /\ wpc[c] = "wait" /\ now >= cur[c].fire
  /\ wpc' = [wpc EXCEPT ![c] = "push"]
  /\ \/ /\ frames' = [frames EXCEPT ![c] = Append(@, cur[c].tick)]
        /\ UNCHANGED lost
     \/ /\ \A d \in Camera : lost[d] < LostBound
        /\ lost' = [lost EXCEPT ![c] = @ + 1]
        /\ UNCHANGED frames
  /\ UNCHANGED <<sockets, cur, lastTick, pending, shown, cut>>

\* Mutants: a full queue drops the new metadata; only the newest metadata is kept.
PushMeta_DropsNew(c) ==
  /\ wpc[c] = "push"
  /\ wpc' = [wpc EXCEPT ![c] = "recv"]
  /\ pending' = [pending EXCEPT ![c] =
                   IF Len(@) >= PendingMax THEN @ ELSE Append(@, cur[c].tick)]
  /\ cur' = [cur EXCEPT ![c] = NoTick]
  /\ UNCHANGED <<sockets, lastTick, frames, shown, lost, cut>>

PushMeta_KeepsNewest(c) ==
  /\ wpc[c] = "push"
  /\ wpc' = [wpc EXCEPT ![c] = "recv"]
  /\ pending' = [pending EXCEPT ![c] = <<cur[c].tick>>]
  /\ cur' = [cur EXCEPT ![c] = NoTick]
  /\ UNCHANGED <<sockets, lastTick, frames, shown, lost, cut>>

\* _push_trigger_meta
PushMeta(c) ==
  /\ wpc[c] = "push"
  /\ wpc' = [wpc EXCEPT ![c] = "recv"]
  /\ LET full == Len(pending[c]) >= PendingMax
         kept == IF full THEN Tail(pending[c]) ELSE pending[c]
     IN  /\ pending' = [pending EXCEPT ![c] = Append(kept, cur[c].tick)]
         /\ cut' = [cut EXCEPT ![c] = IF full THEN @ + 1 ELSE @]
  /\ cur' = [cur EXCEPT ![c] = NoTick]
  /\ UNCHANGED <<sockets, lastTick, frames, shown, lost>>

-----------------------------------------------------------------------------
(* read_loop.                                                              *)

\* Mutant: the metadata stays in the queue.
LabelFrame_Peeks(c) ==
  /\ frames[c] # <<>> /\ pending[c] # <<>>
  /\ frames' = [frames EXCEPT ![c] = Tail(@)]
  /\ shown' = [shown EXCEPT ![c] = [label |-> Head(pending[c]),
                                    taken |-> Head(frames[c])]]
  /\ UNCHANGED <<sockets, wpc, cur, lastTick, pending, lost, cut>>

\* The frame and the oldest metadata are put together and published.
LabelFrame(c) ==
  /\ frames[c] # <<>> /\ pending[c] # <<>>
  /\ frames' = [frames EXCEPT ![c] = Tail(@)]
  /\ pending' = [pending EXCEPT ![c] = Tail(@)]
  /\ shown' = [shown EXCEPT ![c] = [label |-> Head(pending[c]),
                                    taken |-> Head(frames[c])]]
  /\ UNCHANGED <<sockets, wpc, cur, lastTick, lost, cut>>

\* An orphan: the frame came before its metadata was queued.
SkipOrphan(c) ==
  /\ frames[c] # <<>> /\ pending[c] = <<>>
  /\ frames' = [frames EXCEPT ![c] = Tail(@)]
  /\ lost' = [lost EXCEPT ![c] = @ + 1]
  /\ UNCHANGED <<sockets, wpc, cur, lastTick, pending, shown, cut>>

TriggerThread(c) == Receive(c) \/ Fire(c) \/ PushMeta(c)
ReadThread(c) == LabelFrame(c) \/ SkipOrphan(c)

Worker(c) ==
  \/ Bind(c) \/ OpenSource(c) \/ WorkerDies(c)
  \/ TriggerThread(c) \/ ReadThread(c)

WorkersTypeOK ==
  /\ wpc \in [Camera -> {"none", "opening", "recv", "wait", "push", "dead"}]
  /\ cur \in [Camera -> Message]
  /\ lastTick \in [Camera -> Int]
  /\ pending \in [Camera -> Seq(Nat)] /\ frames \in [Camera -> Seq(Nat)]
  /\ \A c \in Camera : Len(pending[c]) <= PendingMax
  /\ shown \in [Camera -> [label : Int, taken : Int]]
  /\ lost \in [Camera -> Nat] /\ cut \in [Camera -> Nat]
=============================================================================
