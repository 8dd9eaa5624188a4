-------------------------- MODULE MCGameEventBridge --------------------------
(* Events for the model checker: a hit, and the same hit reported by a second *)
(* camera under the same event_id.                                            *)
EXTENDS GameEventBridge

Auto  == [id |-> "h1", cam |-> "A", pub |-> TRUE, man |-> FALSE, src |-> 1, tgt |-> 2]
AutoB == [id |-> "h1", cam |-> "",  pub |-> TRUE, man |-> FALSE, src |-> 1, tgt |-> 2]

TwoCameras == {Auto, AutoB}

Unset == -1
=============================================================================
