------------------------ MODULE MCDamageAttribution ------------------------
(* Two persons and one local id that changes hands.                        *)
EXTENDS DamageAttribution

None == -1

\* One of them carries it, or the camera has given it to nobody.
Handover == {[p \in Person |-> IF p = q THEN 1 ELSE Hidden] : q \in Person \cup {None}}

\* Or a track kept it after it went to the other person.
StaleHandover == Handover \cup {[p \in Person |-> 1]}

Hit(shot, lid, sync, gid) ==
  [shot |-> shot, lid |-> lid, sync |-> sync, gid |-> gid, eid |-> None]

\* Candidates of the judge: with a sync index, without one, without a local
\* id, with an explicit global id, and with an event_id of its own.
Seen   == Hit("s1", 1, 0, None)
NoSync == Hit("s1", 1, None, None)
NoLid  == Hit("s2", None, 0, None)
Named  == Hit("s1", 1, 0, 1)
Own    == [Named EXCEPT !.eid = 7]

\* Hits whose victim is clear, for the display of slots.
Clear == {Named, Own}

\* Hits whose victim is looked up.
LookedUp == {Seen, NoSync, NoLid}
=============================================================================
