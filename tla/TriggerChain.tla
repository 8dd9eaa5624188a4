---------------------------- MODULE TriggerChain ----------------------------
(***************************************************************************)
(* The trigger coordinator, the camera workers and the sockets between     *)
(* them.  The ticks are the system's root clock: everything downstream     *)
(* (person detections, event slices, hits) is matched by the label a       *)
(* worker gives to its frame.                                              *)
(***************************************************************************)
EXTENDS TriggerCoordinator, CameraWorker

vars == <<sockets, coordinator, workers>>

Init == SocketsInit /\ CoordinatorInit /\ WorkersInit

Next ==
  \/ TimePasses /\ UNCHANGED <<coordinator, workers>>
  \/ Coordinator /\ UNCHANGED workers
  \/ (\E c \in Camera : Worker(c)) /\ UNCHANGED coordinator

Spec == Init /\ [][Next]_vars

\* Time passes, the coordinator's loop runs, and so does every thread: the
\* trigger call of a camera returns.
FairSpec ==
  /\ Spec
  /\ WF_vars(TimePasses /\ UNCHANGED <<coordinator, workers>>)
  /\ WF_vars(Announce /\ UNCHANGED workers)
  /\ \A c \in Camera :
       WF_vars((OpenSource(c) \/ TriggerThread(c)) /\ UNCHANGED coordinator)

-----------------------------------------------------------------------------
(* Properties.                                                             *)

TypeOK ==
  /\ now \in Nat /\ bound \subseteq Camera /\ inbox \in [Camera -> Seq(Message)]
  /\ CoordinatorTypeOK /\ WorkersTypeOK

\* Within one run of the coordinator the recorded ticks are as far apart in
\* time as their ids say, or farther: after a late wake-up (line 306) an id is
\* skipped but never a fire time brought forward, so that no camera is asked
\* for more than its frame rate.
FiresKeepPace ==
  [][sent' # sent /\ sent'.start = sent.start
     => /\ sent'.tick > sent.tick
        /\ sent'.fire - sent.fire >= (sent'.tick - sent.tick) * Period]_vars

\* A frame carries the id of the tick it was taken at as long as its worker
\* has missed no frame, orphaned none and dropped no metadata, whatever the
\* two threads and the camera interleave (the comment at line 245 of the
\* worker hopes for this much).  After a miss the id can be too old, never too
\* new, unless the metadata overflowed.
LabelRight ==
  \A c \in Camera : cut[c] = 0 =>
    /\ shown[c].label <= shown[c].taken
    /\ lost[c] = 0 => shown[c].label = shown[c].taken

\* Once a worker labels a frame with an older tick it does so for every frame
\* after it: nothing realigns the queue but an overflow.
LagNeverHeals ==
  [][\A c \in Camera :
       /\ shown'[c] # shown[c] /\ cut[c] = 0
       /\ shown[c].label < shown[c].taken
       => shown'[c].label < shown'[c].taken]_vars

\* The labels of a worker increase, also when the coordinator begins again
\* with the first id: no two frames of a camera claim the same tick.
LabelsIncrease ==
  [][\A c \in Camera : shown'[c] # shown[c] => shown'[c].label > shown[c].label]_vars

\* A tick that is being sent is sent to the end: a dead or missing worker never
\* holds the coordinator up, and a slow one only until its thread goes on (the
\* blocking send at line 345).
SendsEnd == cpc = "send" ~> cpc # "send"
=============================================================================
