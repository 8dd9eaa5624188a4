---------------------------- MODULE PersonTracks ----------------------------
(***************************************************************************)
(* The life of a global person id in global_person_id_server.py: born from *)
(* a birth candidate, updated, lost, held, retired; and which ids are      *)
(* published.                                                              *)
(*                                                                         *)
(* One flush of a sync index is a Match or Reject for every observation    *)
(* that finds a track, then a birth step for every other observation that  *)
(* has an effect, and EndFlush (missed, retired, published).  A flush      *)
(* takes no time.  PersonSync says which flushes come in which order.      *)
(*                                                                         *)
(* Geometry is left open: an observation is at a short edge of the field   *)
(* or elsewhere, and may be matched to any track the code considers, or to *)
(* none.  The strict hand-off block and the suppression near a track only  *)
(* ever make an observation have no effect.  Of two eligible tracks any    *)
(* may be near each other, so that the lower one is not published.         *)
(* The count gate is on.                                                   *)
(*                                                                         *)
(* Instants are kept as times gone by or remaining; a time counts on until *)
(* nothing compares it any more, so that the clock needs no bound.         *)
(***************************************************************************)
EXTENDS Integers, FiniteSets

CONSTANTS
  MissGrace, LostAfter,  \* miss_grace_ms, lost_after_ms
  PublishLost,           \* publish_lost_max_age_ms
  Lock,                  \* handoff_strict_publish_hold_ms
  Reid,                  \* reid_memory_ms
  Hold,                  \* count_gate_non_short_edge_lost_hold_ms
  Retire,                \* retire_after_ms
  Cap,                   \* count_gate_non_short_edge_retire_hard_cap_ms
  CandidateTtl,          \* birth_candidate_ttl_ms
  Bootstrap, BootMax,    \* count_gate_startup_bootstrap_ms and .._until_track_count
  BirthConfirm, Confirm, MinHits,  \* birth_confirm_hits, confirm_hits, publish_min_hits
  GidBound,              \* bound: ids given out between two resets
  PersonBound            \* bound: tracks and birth candidates when one is added

\* With a larger confirm_hits than the default 2, which no launcher passes, a
\* lost track that is seen again can stay lost and its hold is not renewed.
ASSUME TracksAssumption ==
  /\ {MissGrace, LostAfter, PublishLost, Lock, CandidateTtl} \subseteq Nat
  /\ {BootMax, GidBound, PersonBound} \subseteq Nat
  /\ {Reid, Retire, Hold, Cap, Bootstrap} \subseteq Nat \ {0}
  /\ {BirthConfirm, Confirm, MinHits} \subseteq Nat \ {0}
  /\ Reid <= Hold /\ Hold <= Cap
  /\ MissGrace <= Retire /\ LostAfter <= Retire /\ PublishLost <= Retire /\ Reid <= Retire
  /\ Confirm <= 2 /\ MinHits <= BirthConfirm

VARIABLES
  tracks,      \* gid -> track
  nextGid,     \* next_gid
  candidates,  \* birth candidates
  detected,    \* first_detection_wall is set
  boot,        \* what is left of the bootstrap window, -1 when it is over
  quarantine,  \* birth_quarantine_enable
  phase,       \* "idle", "match", "birth"
  used,        \* used_tracks of this flush
  published    \* the ids of the last publication

tracksVars == <<tracks, nextGid, candidates, detected, boot, quarantine, phase, used, published>>

Gid == 1 .. GidBound
Zone == {"edge", "inside"}
Unset == -1
HitsMax == CHOOSE n \in {BirthConfirm, Confirm, 2} : \A m \in {BirthConfirm, Confirm, 2} : m <= n
AgeMax == Retire + 1

Track == [state : {"tentative", "tracking", "lost"}, hits : 1 .. HitsMax,
          age : 0 .. AgeMax, zone : Zone, hold : 0 .. Hold, cap : -1 .. Cap,
          lock : 0 .. Lock,
          lostFor : 0 .. Hold,   \* history: since it was marked lost off the edges
          window : BOOLEAN]      \* history: let in by the bootstrap window

Candidate == [age : 0 .. CandidateTtl + 1, hits : 1 .. HitsMax, zone : Zone,
              counted : BOOLEAN]  \* this flush's sync index is in sync_indices

Up(n, top) == IF n < top THEN n + 1 ELSE n
Down(n) == IF n > 0 THEN n - 1 ELSE n
Larger(m, n) == IF m < n THEN n ELSE m
Without(f, k) == [j \in DOMAIN f \ {k} |-> f[j]]
With(f, k, v) == [j \in DOMAIN f \cup {k} |-> IF j = k THEN v ELSE f[j]]
Nothing == [k \in {} |-> 0]

TracksInit ==
  /\ tracks = Nothing /\ nextGid = 1 /\ candidates = Nothing
  /\ detected = FALSE /\ boot = Bootstrap
  /\ quarantine \in BOOLEAN
  /\ phase = "idle" /\ used = {} /\ published = {}

-----------------------------------------------------------------------------
(* Time, the control file, the first detection.                            *)

Held(tr) == tr.state = "lost" /\ tr.zone = "inside"

Tick ==
  /\ phase = "idle"
  /\ tracks' = [g \in DOMAIN tracks |->
       [tracks[g] EXCEPT !.age = Up(@, AgeMax), !.hold = Down(@), !.cap = Down(@),
                         !.lock = Down(@),
                         !.lostFor = IF Held(tracks[g]) THEN Up(@, Hold) ELSE @]]
  /\ candidates' = [k \in DOMAIN candidates |->
       [candidates[k] EXCEPT !.age = Up(@, CandidateTtl + 1)]]
  /\ boot' = IF boot >= 0 THEN boot - 1 ELSE boot
  /\ UNCHANGED <<nextGid, detected, quarantine, phase, used, published>>

\* _reset_tracks: the bootstrap window is not opened again.
ResetTracks ==
  /\ phase = "idle"
  /\ tracks' = Nothing /\ candidates' = Nothing /\ nextGid' = 1 /\ published' = {}
  /\ UNCHANGED <<detected, boot, quarantine, phase, used>>

SetQuarantine ==
  /\ phase = "idle"
  /\ quarantine' = ~quarantine
  /\ UNCHANGED <<tracks, nextGid, candidates, detected, boot, phase, used, published>>

\* The window is counted from the first detection instead of the start.
FirstDetection ==
  /\ phase = "idle" /\ ~detected
  /\ detected' = TRUE /\ boot' = Bootstrap
  /\ UNCHANGED <<tracks, nextGid, candidates, quarantine, phase, used, published>>

-----------------------------------------------------------------------------
(* _assign: observations that find a track.                                *)

Matchable(g) ==
  phase \in {"idle", "match"} /\ detected /\ g \in DOMAIN tracks \ used /\ tracks[g].age <= Reid

\* A hold or hard cap set by an earlier loss stays as it is.
Updated(tr, z, handoff) ==
  [tr EXCEPT !.age = 0, !.zone = z, !.hits = Up(@, HitsMax), !.lostFor = 0,
             !.state = IF tr.hits + 1 >= Confirm THEN "tracking" ELSE @,
             !.lock = IF handoff THEN Larger(@, Lock) ELSE @]

Match(g) ==
  /\ Matchable(g)
  /\ phase' = "match" /\ used' = used \cup {g}
  /\ \E z \in Zone, handoff \in BOOLEAN :
       tracks' = [tracks EXCEPT ![g] = Updated(@, z, handoff)]
  /\ UNCHANGED <<nextGid, candidates, detected, boot, quarantine, published>>

\* The observation would need too high a speed: the track is not updated, but
\* neither is it missed.
Reject(g) ==
  /\ Matchable(g) /\ tracks[g].hits >= 2
  /\ phase' = "match" /\ used' = used \cup {g}
  /\ UNCHANGED <<tracks, nextGid, candidates, detected, boot, quarantine, published>>

-----------------------------------------------------------------------------
(* _handle_unmatched_observation, _create_track.                           *)

Confirmed == {g \in DOMAIN tracks : tracks[g].hits >= MinHits}
InWindow == boot >= 0 /\ Cardinality(Confirmed) < BootMax

\* _count_gate_birth_detail
GateAllows(z) == z = "edge" \/ InWindow

Quarantined(z) == detected /\ quarantine /\ GateAllows(z)

NewTrack(hits, z, window) ==
  [state |-> IF hits >= Confirm THEN "tracking" ELSE "tentative", hits |-> hits,
   age |-> 0, zone |-> z, hold |-> 0, cap |-> Unset, lock |-> 0,
   lostFor |-> 0, window |-> window]

CreateTrack(hits, z, window) ==
  /\ nextGid <= GidBound
  /\ tracks' = With(tracks, nextGid, NewTrack(hits, z, window))
  /\ nextGid' = nextGid + 1

Room == Cardinality(DOMAIN tracks) + Cardinality(DOMAIN candidates) < PersonBound

FreeCandidate(k) ==
  k \notin DOMAIN candidates /\ 1 .. k - 1 \subseteq DOMAIN candidates

NewCandidate(z) ==
  /\ Quarantined(z) /\ Room
  /\ \E k \in 1 .. PersonBound :
       /\ FreeCandidate(k)
       /\ candidates' = With(candidates, k, [age |-> 0, hits |-> 1, zone |-> z, counted |-> TRUE])
  /\ UNCHANGED <<tracks, nextGid, detected, boot, quarantine, used, published>>

\* A candidate is seen again.  It counts one more hit unless this sync index
\* was counted before; its position moves towards the observation.
Seen(k, z) ==
  LET old == candidates[k]
  IN  {[age |-> 0, hits |-> old.hits, zone |-> y, counted |-> TRUE] : y \in {old.zone, z}}
      \cup IF old.counted THEN {}
           ELSE {[age |-> 0, hits |-> Up(old.hits, HitsMax), zone |-> y, counted |-> TRUE] :
                   y \in {old.zone, z}}

ConfirmCandidate(k, z) ==
  /\ Quarantined(z) /\ k \in DOMAIN candidates
  /\ \E bc \in Seen(k, z) :
       bc.hits < BirthConfirm /\ candidates' = [candidates EXCEPT ![k] = bc]
  /\ UNCHANGED <<tracks, nextGid, detected, boot, quarantine, used, published>>

\* A confirmed candidate near a track is dropped.
DropCandidate(k, z) ==
  /\ Quarantined(z) /\ k \in DOMAIN candidates /\ DOMAIN tracks # {}
  /\ \E bc \in Seen(k, z) : bc.hits >= BirthConfirm
  /\ candidates' = Without(candidates, k)
  /\ UNCHANGED <<tracks, nextGid, detected, boot, quarantine, used, published>>

\* Mutant: the gate was asked when the candidate appeared, which is enough.
Promote_Ungated(k, z) ==
  /\ detected /\ quarantine /\ k \in DOMAIN candidates
  /\ \E bc \in Seen(k, z) :
       /\ bc.hits >= BirthConfirm
       /\ CreateTrack(bc.hits, bc.zone, z # "edge")
  /\ candidates' = Without(candidates, k)
  /\ UNCHANGED <<detected, boot, quarantine, used, published>>

\* The gate asked again for the promotion (_count_gate_birth_promotion_allowed)
\* always says yes: this observation has just passed it.
Promote(k, z) ==
  /\ Quarantined(z) /\ k \in DOMAIN candidates
  /\ \E bc \in Seen(k, z) :
       /\ bc.hits >= BirthConfirm
       /\ CreateTrack(bc.hits, bc.zone, z # "edge")
  /\ candidates' = Without(candidates, k)
  /\ UNCHANGED <<detected, boot, quarantine, used, published>>

\* Without the quarantine the first observation makes a track, past the gate.
CreateDirect(z) ==
  /\ detected /\ ~quarantine /\ Room
  /\ CreateTrack(1, z, FALSE)
  /\ UNCHANGED <<candidates, detected, boot, quarantine, used, published>>

Birth ==
  /\ phase' = "birth"
  /\ \E z \in Zone :
       \/ NewCandidate(z) \/ CreateDirect(z)
       \/ \E k \in 1 .. PersonBound :
            ConfirmCandidate(k, z) \/ DropCandidate(k, z) \/ Promote(k, z)

-----------------------------------------------------------------------------
(* _mark_missed, _retire_birth_candidates, _retire_old, _publish.          *)

Missed(g) ==
  /\ g \notin used
  /\ tracks[g].age > MissGrace /\ tracks[g].age > LostAfter
  /\ tracks[g].state # "lost"

\* Mutant: a hold that runs is not prolonged.
Lost_HoldKept(tr) ==
  IF tr.zone = "edge"
    THEN [tr EXCEPT !.state = "lost", !.lostFor = 0]
    ELSE [tr EXCEPT !.state = "lost", !.lostFor = 0,
                    !.hold = IF @ > 0 THEN @ ELSE Hold,
                    !.cap = IF @ = Unset THEN Cap ELSE @]

\* A track lost away from a short edge is held; the hard cap is set only once
\* in its life.
Lost(tr) ==
  IF tr.zone = "edge"
    THEN [tr EXCEPT !.state = "lost", !.lostFor = 0]
    ELSE [tr EXCEPT !.state = "lost", !.lostFor = 0,
                    !.hold = Larger(@, Hold),
                    !.cap = IF @ = Unset THEN Cap ELSE @]

\* Mutant: a hard cap that was never set holds for ever.
Retired_CapOver(tr) == tr.age > Retire /\ tr.lock = 0 /\ tr.cap = 0

Retired(tr) == tr.age > Retire /\ tr.lock = 0 /\ tr.cap <= 0

\* Mutant: the count gate holds nothing.
Eligible_NoHold(tr) ==
  /\ tr.hits >= MinHits
  /\ tr.state = "lost" /\ tr.age > PublishLost => tr.lock > 0

Eligible(tr) ==
  /\ tr.hits >= MinHits
  /\ tr.state = "lost" /\ tr.age > PublishLost => tr.lock > 0 \/ tr.hold > 0

\* h may come before g in the ranking: tracking, hits, age, confidence (left
\* open, as are hits beyond the largest count the code compares with).
Outranks(h, g) ==
  \/ h.state = "tracking" /\ g.state # "tracking"
  \/ /\ h.state = "tracking" <=> g.state = "tracking"
     /\ \/ h.hits > g.hits
        \/ h.hits = g.hits /\ (h.hits = HitsMax \/ h.age <= g.age)

\* _suppress_duplicate_publish_tracks: who is not shown is near one that is
\* shown and comes first.
Shown(trs, ids) ==
  {shown \in SUBSET ids : \A g \in ids \ shown : \E h \in shown : Outranks(trs[h], trs[g])}

EndFlush ==
  /\ phase' = "idle" /\ used' = {}
  /\ LET marked == [g \in DOMAIN tracks |->
                      IF Missed(g) THEN Lost(tracks[g]) ELSE tracks[g]]
         kept == {g \in DOMAIN tracks : ~Retired(marked[g])}
     IN  /\ tracks' = [g \in kept |-> marked[g]]
         /\ published' \in Shown(marked, {g \in kept : Eligible(marked[g])})
  /\ candidates' = [k \in {j \in DOMAIN candidates : candidates[j].age <= CandidateTtl}
                      |-> [candidates[k] EXCEPT !.counted = FALSE]]
  /\ UNCHANGED <<nextGid, detected, boot, quarantine>>

-----------------------------------------------------------------------------
Control == ResetTracks \/ SetQuarantine

Flush ==
  \/ EndFlush
  \/ \E g \in Gid : Match(g) \/ Reject(g)
  \/ Birth

TracksNext == Tick \/ Control \/ FirstDetection \/ Flush

TracksSpec == TracksInit /\ [][TracksNext]_tracksVars

\* Cameras go on delivering lines (an empty one is enough while tracks exist),
\* and time goes on.
TracksFairSpec ==
  /\ TracksSpec
  /\ SF_tracksVars(Tick) /\ WF_tracksVars(EndFlush)

-----------------------------------------------------------------------------
(* Properties.                                                             *)

TracksTypeOK ==
  /\ DOMAIN tracks \subseteq Gid /\ \A g \in DOMAIN tracks : tracks[g] \in Track
  /\ nextGid \in 1 .. GidBound + 1 /\ \A g \in DOMAIN tracks : g < nextGid
  /\ DOMAIN candidates \subseteq 1 .. PersonBound
  /\ \A k \in DOMAIN candidates : candidates[k] \in Candidate
  /\ detected \in BOOLEAN /\ quarantine \in BOOLEAN /\ boot \in -1 .. Bootstrap
  /\ phase \in {"idle", "match", "birth"} /\ used \subseteq DOMAIN tracks
  /\ published \subseteq DOMAIN tracks
  /\ \A g \in DOMAIN tracks : tracks[g].state = "lost" => tracks[g].age > LostAfter

\* Somebody nearby who comes first is published instead.
Duplicate(g) == Eligible(tracks[g]) /\ \E h \in published : Outranks(tracks[h], tracks[g])

\* An id is taken out of the publication only at a short edge, after it has been
\* lost for the whole hold, by the operator's reset, or while it is hidden as the
\* duplicate of a track that comes first ("only short edges allow count change",
\* line 906): no order of losses, recoveries, hand-overs and late flushes does it
\* otherwise.  The exception is the code's own: the hard cap of an earlier loss,
\* never cleared, lets an id go at once when no flush came for longer than
\* retire_after_ms.
LeavesOnlyAfterHold ==
  [][\A g \in published \ published' :
       \/ ResetTracks
       \/ tracks[g].zone = "edge"
       \/ tracks[g].state = "lost" /\ tracks[g].lostFor >= Hold
       \/ tracks[g].age > Retire /\ tracks[g].cap = 0
       \/ Duplicate(g)']_tracksVars

\* A confirmed id that is lost off the edges and not published cannot be matched
\* again, but as a duplicate: nobody disappears in the field and returns under the
\* old id, unless a track that comes first is published for him all the while.
OnlyDuplicatesReturn ==
  phase = "idle" =>
    \A g \in DOMAIN tracks \ published :
      tracks[g].state = "lost" /\ tracks[g].zone = "inside" /\ tracks[g].hits >= MinHits
        => tracks[g].age > Reid \/ Duplicate(g)

\* The bootstrap window lets in no more ids away from the edges than its limit,
\* however many candidates it has collected.
BootstrapBounded ==
  Cardinality({g \in DOMAIN tracks : tracks[g].window}) <= BootMax

\* A track that is updated no more is forgotten: no hold, lock, cap or rejected
\* observation keeps an id in the field for ever.
GhostsVanish ==
  \A g \in Gid : []<><<Match(g)>>_tracksVars \/ []<>(g \notin DOMAIN tracks)
=============================================================================
