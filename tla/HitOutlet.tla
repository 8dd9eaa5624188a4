------------------------------ MODULE HitOutlet ------------------------------
(***************************************************************************)
(* What a service with a duplicate filter promises its readers, without    *)
(* files, polling, sockets or dictionaries: a stream of hits in which one  *)
(* incarnation of the service never repeats a key within the time to live. *)
(* The game event bridge makes this promise to the game manager; damage    *)
(* attribution and the manual hit service make it to the readers of the    *)
(* events file.                                                            *)
(***************************************************************************)
EXTENDS Integers, Sequences

CONSTANTS
  Key,  \* "camera:event_id" for the bridge, the event_id for attribution, the
        \* person hit for manual hits
  Ttl   \* the time to live of a key

VARIABLES
  now,    \* the wall clock
  epoch,  \* incarnation of the service
  hits    \* the hits handed to the outlet, in order

vars == <<now, epoch, hits>>

Fresh(k) ==
  \A n \in DOMAIN hits :
     (hits[n].key = k /\ hits[n].epoch = epoch) => now - hits[n].at > Ttl

Init == now = 0 /\ epoch = 0 /\ hits = <<>>

Tick == now' = now + 1 /\ UNCHANGED <<epoch, hits>>

Restart == epoch' = epoch + 1 /\ UNCHANGED <<now, hits>>

Publish(k) ==
  /\ Fresh(k)
  /\ hits' = Append(hits, [key |-> k, at |-> now, epoch |-> epoch])
  /\ UNCHANGED <<now, epoch>>

Next == Tick \/ Restart \/ (\E k \in Key : Publish(k))

Spec == Init /\ [][Next]_vars
=============================================================================
