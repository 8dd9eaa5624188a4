--------------------------- MODULE TriggerSockets ---------------------------
(***************************************************************************)
(* What the trigger coordinator and the camera workers share: the          *)
(* monotonic clock of the machine and one Unix datagram socket for each    *)
(* camera, made by the worker and written by the coordinator.              *)
(*                                                                         *)
(* Time is counted in units; a step of any process takes no time of its    *)
(* own, and any time may pass between two steps.                           *)
(***************************************************************************)
EXTENDS Integers, Sequences

CONSTANTS
  Camera,      \* the cameras of the chain
  QueueMax,    \* datagrams the kernel keeps for a socket
  ClockBound   \* bound: the last instant looked at

ASSUME SocketAssumption ==
  /\ QueueMax \in Nat \ {0}
  /\ ClockBound \in Nat

\* One mvs_trigger_tick datagram: its tick_id and its fire_time_ns.
Message == [tick : Nat, fire : Int]

VARIABLES
  now,    \* time.monotonic_ns()
  bound,  \* cameras whose socket exists and has its worker behind it
  inbox   \* per camera: the datagrams sent and not yet received

sockets == <<now, bound, inbox>>

SocketsInit ==
  /\ now = 0
  /\ bound = {}
  /\ inbox = [c \in Camera |-> <<>>]

TimePasses ==
  /\ now < ClockBound
  /\ now' = now + 1
  /\ UNCHANGED <<bound, inbox>>
=============================================================================
