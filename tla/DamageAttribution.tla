------------------------- MODULE DamageAttribution -------------------------
(***************************************************************************)
(* damage_attribution_service.py: it turns the hit candidates of the hit   *)
(* judge into attribution events, by finding out which person carried the  *)
(* camera-local id a candidate names.  Each loop reads the newest person   *)
(* file, remembers it, reads new candidates and writes at most one event   *)
(* for each.                                                               *)
(*                                                                         *)
(* The person file is replaced as a whole (os.replace) by the global       *)
(* person server, several times between two loops or not at all, and a     *)
(* late camera makes its sync_index go back.  One camera is modelled: a    *)
(* track carries at most one local id in it, and keeps that id after the   *)
(* camera has given it to somebody else, so two tracks may carry it.       *)
(*                                                                         *)
(* Left to the choice of a step: positions and distances (whom the spatial *)
(* fallback finds, who may have fired).  Left out: the score that makes an *)
(* event publishable, status files, the loop of a disabled service, and    *)
(* lines seen in part (module JsonlTailer).                                *)
(***************************************************************************)
EXTENDS Integers, Sequences, FiniteSets, SequencesExt

CONSTANTS
  Person,           \* global ids
  Lid,              \* local ids of the camera
  Shot,             \* camera, impact sync and bullet of a candidate's event key
  EventId,          \* event_id, for candidates that bring one of their own
  Slot,             \* display slots of the bird's-eye view
  Reserved,         \* --reserved-virtual-global-id
  Tracks,           \* what the person file may hold, see TracksType
  Candidate,        \* the candidates the hit judge may write, see CandidateType
  Direct,           \* --attribution-source direct_hit_global_id
  BevDisplay,       \* --target-id-source global_bev_display
  DefaultSource,    \* --default-source-global-id
  MaxSyncDelta,     \* --identity-evidence-max-sync-delta
  SpatialSyncDelta, \* --identity-spatial-fallback-max-sync-delta
  SpatialFallback,  \* --identity-spatial-fallback-enable
  StableIdFallback, \* --allow-stable-id-global-fallback
  HistoryAge,       \* --identity-evidence-history-max-age-ms
  DisplayAge,       \* --display-history-max-age-ms
  MaxSnapshots,     \* --person-history-max-snapshots
  MaxDisplays,      \* --display-history-max-snapshots
  Ttl,              \* max(1.0, --event-id-ttl-sec)
  PurgeMax,         \* keys one purge removes (1024 in the code)
  MaxLines,         \* --max-lines-per-poll
  ReadExisting,     \* --read-existing
  SyncBound,        \* bound: sync indices
  PublishBound,     \* bound: writes of the person file
  ShowBound,        \* bound: changes of the displayed slots
  LineBound,        \* bound: candidates
  ClockBound,       \* bound: the clock
  RestartBound      \* bound: restarts of the service

Unknown == -1   \* no id, no sync index, no source, never seen
Hidden  == 0    \* a track the camera has given no local id
Absent  == -2   \* a person without a track

Reason == {"explicit", "history", "current", "spatial", "stable_id"}

TracksType == [Person -> Lid \cup {Hidden, Absent}]
Sync       == 0..SyncBound
CandidateType ==
  [shot : Shot, lid : Lid \cup {Unknown}, sync : Sync \cup {Unknown},
   gid : Person \cup {Unknown}, eid : EventId \cup {Unknown}]

ASSUME AttributionAssumption ==
  /\ Person \subseteq Nat /\ IsFiniteSet(Person) /\ Person # {}
  /\ Lid \subseteq Nat \ {Hidden} /\ EventId \subseteq Nat
  /\ Slot \subseteq Nat /\ Reserved \in Nat \cup {Unknown} /\ DefaultSource \in Nat
  /\ Tracks \subseteq TracksType /\ Candidate \subseteq CandidateType
  /\ {Direct, BevDisplay, SpatialFallback, StableIdFallback, ReadExisting} \subseteq BOOLEAN
  /\ {MaxSyncDelta, SpatialSyncDelta, HistoryAge, DisplayAge, SyncBound, PublishBound,
      ShowBound, LineBound, ClockBound, RestartBound} \subseteq Nat
  /\ {MaxSnapshots, MaxDisplays, Ttl, PurgeMax, MaxLines} \subseteq Nat \ {0}

VARIABLES
  published,  \* the contents of the person file so far; the last one is in it
  shown,      \* the slots in the status file of the bird's-eye view so far, likewise
  lines,      \* the candidates in hit_candidate_all.jsonl
  now,        \* time.time()
  pc,         \* run(): "load", "read", or "process"
  persons,    \* the person file read by this loop
  memory,     \* self.person_history
  displays,   \* self.display_history
  started, off, batch,  \* hit_tailer._initialized, .offset (in lines); lines left
  seen,       \* self.event_seen: when a key was remembered, Unknown if absent
  events,     \* the lines of damage_attribution_events.jsonl
  epoch,      \* incarnation of the service
  \* history of the present incarnation:
  skipped,    \* where its tailer began
  loads,      \* the person files it read, repetitions at one time left out
  dups        \* the lines dropped as duplicates, and whom they hit

world   == <<published, shown, lines, now>>
tail    == <<started, off, batch, skipped>>
output  == <<seen, events, dups>>
service == <<pc, persons, memory, loads, displays, tail, output, epoch>>
vars    == <<world, service>>

-----------------------------------------------------------------------------
(* The world around the service.                                           *)

NoFile  == [sync |-> Unknown, tracks |-> [p \in Person |-> Absent]]
NoSlots == [p \in Person |-> [slot |-> Unknown, stale |-> FALSE]]

\* The person server publishes the tracks of one sync index; tracks older than
\* person_max_age_ms are as good as absent.
PublishPersons(s, t) ==
  /\ Len(published) <= PublishBound
  /\ published' = Append(published, [sync |-> s, tracks |-> t])
  /\ UNCHANGED <<shown, lines, now, service>>

\* The renderer shows person p in another slot, or no longer.  A record whose
\* age_ms exceeds the limit is stale.
ShowSlot(p, slot, stale) ==
  /\ Len(shown) <= ShowBound /\ (stale => slot # Unknown)
  /\ shown' = Append(shown, [at |-> now,
       slots |-> [Last(shown).slots EXCEPT ![p] = [slot |-> slot, stale |-> stale]]])
  /\ UNCHANGED <<published, lines, now, service>>

\* The hit judge appends a candidate.
Report(c) ==
  /\ Len(lines) < LineBound
  /\ lines' = Append(lines, c)
  /\ UNCHANGED <<published, shown, now, service>>

Tick ==
  /\ now < ClockBound
  /\ now' = now + 1
  /\ UNCHANGED <<published, shown, lines, service>>

-----------------------------------------------------------------------------
(* Loading the person file, and remembering it.                            *)

\* Mutant: one element too many is kept.
Keep_OneMore(s, n) == IF Len(s) <= n + 1 THEN s ELSE SubSeq(s, Len(s) - n, Len(s))

Keep(s, n) == IF Len(s) <= n THEN s ELSE SubSeq(s, Len(s) - n + 1, Len(s))

\* Mutant: a second file with the sync index of the last one is ignored.
Remember_First(m, snap) ==
  IF m # <<>> /\ Last(m).sync = snap.sync THEN m ELSE Keep(Append(m, snap), MaxSnapshots)

\* _remember_person_snapshot: a file with the sync index of the last one takes
\* its place.
Remember(m, snap) ==
  IF m # <<>> /\ Last(m).sync = snap.sync
    THEN Append(Front(m), snap)
    ELSE Keep(Append(m, snap), MaxSnapshots)

LoadPersons ==
  /\ pc = "load"
  /\ pc' = "read"
  /\ LET file == Last(published)
         snap == [sync |-> file.sync, tracks |-> file.tracks, at |-> now]
     IN  /\ persons' = file.tracks
         /\ memory' = Remember(memory, snap)
         /\ loads' = IF loads # <<>> /\ Last(loads) = snap THEN loads ELSE Append(loads, snap)
  /\ UNCHANGED <<world, displays, tail, output, epoch>>

\* Mutant: the end of the file is remembered although max_lines cut the poll.
ReadCandidates_ToEnd ==
  /\ pc = "read"
  /\ pc' = "process"
  /\ LET from == IF started THEN off ELSE IF ReadExisting THEN 0 ELSE Len(lines)
         to   == IF from + MaxLines < Len(lines) THEN from + MaxLines ELSE Len(lines)
     IN  /\ off' = Len(lines)
         /\ batch' = (from + 1)..to
         /\ skipped' = IF started THEN skipped ELSE from
  /\ started' \in {TRUE, started \/ lines # <<>>}
  /\ UNCHANGED <<world, persons, memory, loads, displays, output, epoch>>

\* read_new on whole lines.  A file without lines may as well be missing, and
\* then it is not taken note of.
ReadCandidates ==
  /\ pc = "read"
  /\ pc' = "process"
  /\ LET from == IF started THEN off ELSE IF ReadExisting THEN 0 ELSE Len(lines)
         to   == IF from + MaxLines < Len(lines) THEN from + MaxLines ELSE Len(lines)
     IN  /\ off' = to
         /\ batch' = (from + 1)..to
         /\ skipped' = IF started THEN skipped ELSE from
  /\ started' \in {TRUE, started \/ lines # <<>>}
  /\ UNCHANGED <<world, persons, memory, loads, displays, output, epoch>>

-----------------------------------------------------------------------------
(* _target_gid: whom a candidate hit.                                      *)

Distance(s, t) == IF s < t THEN t - s ELSE s - t
FarSync == SyncBound + 1   \* 999999 in the code: one of the two is unknown

SyncDelta(c, snap) ==
  IF c.sync = Unknown \/ snap.sync = Unknown THEN FarSync ELSE Distance(c.sync, snap.sync)

InReach(c, snap, limit) == SyncDelta(c, snap) = FarSync \/ SyncDelta(c, snap) <= limit

Fresh(snap, age) == now - snap.at <= age

Carries(t, p, c) == c.lid # Unknown /\ t[p] = c.lid

\* _find_target_in_person_history: the remembered tracks that fit.
Matches(c) ==
  {m \in (DOMAIN memory) \X Person :
     /\ Fresh(memory[m[1]], HistoryAge)
     /\ InReach(c, memory[m[1]], MaxSyncDelta)
     /\ Carries(memory[m[1]].tracks, m[2], c)}

\* Mutant: youngest first, then nearest sync index.
Rank_AgeFirst(c, m) ==
  <<now - memory[m[1]].at, SyncDelta(c, memory[m[1]]), Len(memory) - m[1], m[2]>>

\* The order they are chosen in: nearest sync index, then youngest, then last
\* remembered, then first in the file (which is sorted by global id).
Rank(c, m) ==
  <<SyncDelta(c, memory[m[1]]), now - memory[m[1]].at, Len(memory) - m[1], m[2]>>

LexLess(r, s) ==
  \E k \in DOMAIN r : r[k] < s[k] /\ \A j \in 1..(k - 1) : r[j] = s[j]

Best(c, m) == m \in Matches(c) /\ \A n \in Matches(c) \ {m} : LexLess(Rank(c, m), Rank(c, n))

\* The first current track that carries the candidate's local id.
Current(c, p) ==
  /\ Carries(persons, p, c)
  /\ \A q \in Person : Carries(persons, q, c) => p <= q

\* Everybody _find_target_by_spatial_xy may come to consider.
Nearby(c) ==
  {p \in Person :
     \/ persons[p] # Absent
     \/ \E snap \in ToSet(memory) :
          /\ snap.tracks[p] # Absent
          /\ Fresh(snap, HistoryAge) /\ InReach(c, snap, SpatialSyncDelta)}

Unmapped(c) ==
  /\ c.gid = Unknown /\ Matches(c) = {}
  /\ \A p \in Person : ~Carries(persons, p, c)

\* The person p that is the answer for c, and the reason given.
Target(c, p, why) ==
  \/ why = "explicit" /\ p = c.gid /\ c.gid # Unknown
  \/ why = "history"  /\ c.gid = Unknown /\ (\E i \in DOMAIN memory : Best(c, <<i, p>>))
  \/ why = "current"  /\ c.gid = Unknown /\ Matches(c) = {} /\ Current(c, p)
  \/ why = "spatial"  /\ Unmapped(c) /\ SpatialFallback /\ p \in Nearby(c)
  \/ why = "stable_id" /\ Unmapped(c) /\ StableIdFallback
       /\ p = c.lid /\ p \in Person /\ persons[p] # Absent

NoTarget(c) ==
  /\ Unmapped(c)
  /\ ~(StableIdFallback /\ c.lid \in Person /\ persons[c.lid] # Absent)

-----------------------------------------------------------------------------
(* _lookup_global_bev_display_id: the slot the victim is shown in.         *)

Displays == Keep(Append(displays, [at |-> now, slots |-> Last(shown).slots]), MaxDisplays)

\* Mutant: what was displayed is believed for ever.
Remembers_Forever(d, p) == d.slots[p].slot # Unknown

Remembers(d, p) == d.slots[p].slot # Unknown /\ Fresh(d, DisplayAge)

DisplayedSlot(p) ==
  LET rec   == Last(shown).slots[p]
      known == {i \in DOMAIN Displays : Remembers(Displays[i], p)}
      last  == CHOOSE i \in known : \A j \in known : j <= i
  IN  IF rec.slot # Unknown THEN (IF rec.stale THEN Unknown ELSE rec.slot)
      ELSE IF known # {} THEN Displays[last].slots[p].slot
      ELSE Unknown

SlotOf(p) == IF DisplayedSlot(p) = Reserved THEN Unknown ELSE DisplayedSlot(p)

-----------------------------------------------------------------------------
(* _dedup: the keys of the events written, for the time to live.           *)

UsesSlots == Direct /\ BevDisplay

Sources(p) == IF Direct THEN {DefaultSource} ELSE {q \in Person \ {p} : persons[q] # Absent}

\* Mutant: the key is made of the shot only.
KeyOf_ShotOnly(c, target, source) ==
  IF c.eid # Unknown THEN <<c.eid>> ELSE <<c.shot, Unknown, Unknown>>

\* _event_key: the candidate's own event_id, whatever comes of it; otherwise one
\* made of the shot, the victim and the shooter.
KeyOf(c, target, source) ==
  IF c.eid # Unknown THEN <<c.eid>> ELSE <<c.shot, target, source>>

Victim   == Person \cup Slot \cup {Unknown}
EventKey ==
  {<<e>> : e \in EventId} \cup
  {<<s, t, q>> : s \in Shot, t \in Victim, q \in Person \cup {DefaultSource, Unknown}}

\* Mutant: a key expires one tick early.
Expired_Early == {k \in EventKey : seen[k] # Unknown /\ now - seen[k] >= Ttl}

Expired == {k \in EventKey : seen[k] # Unknown /\ now - seen[k] > Ttl}

\* expired[:1024]: the dictionary lists its keys in the order they were added.
PurgeSet(X) ==
  /\ X \subseteq Expired
  /\ \A k \in X, l \in Expired \ X : seen[k] <= seen[l]
  /\ X = Expired \/ Cardinality(X) = PurgeMax
  /\ Cardinality(X) <= PurgeMax

Remembered(X) == {k \in EventKey : seen[k] # Unknown} \ X

\* _write_event: an event for line i is appended, unless its key is known.
WriteEvent(i, key, target, who, why) ==
  /\ batch' = batch \ {i}
  /\ \E X \in SUBSET Expired :
       /\ PurgeSet(X)
       /\ \/ /\ key \in Remembered(X)
             /\ seen' = [k \in EventKey |-> IF k \in X THEN Unknown ELSE seen[k]]
             /\ dups' = dups \cup {[line |-> i, who |-> who]}
             /\ UNCHANGED events
          \/ /\ key \notin Remembered(X)
             /\ seen' = [k \in EventKey |-> IF k = key THEN now
                                             ELSE IF k \in X THEN Unknown ELSE seen[k]]
             /\ events' = Append(events, [line |-> i, key |-> key, target |-> target,
                                          who |-> who, why |-> why, at |-> now,
                                          epoch |-> epoch, loop |-> Len(loads)])
             /\ UNCHANGED dups
  /\ UNCHANGED <<world, pc, persons, memory, loads, started, off, skipped, epoch>>

-----------------------------------------------------------------------------
(* _process_candidate and _process_direct_candidate for the next candidate. *)

NextLine(i) == pc = "process" /\ i \in batch /\ (\A j \in batch : i <= j)

Reject(i, why) == WriteEvent(i, KeyOf(lines[i], Unknown, Unknown), Unknown, Unknown, why)

RejectTarget(i) ==
  /\ NextLine(i) /\ NoTarget(lines[i])
  /\ Reject(i, "no_target")
  /\ UNCHANGED displays

RejectSlot(i) ==
  /\ NextLine(i) /\ UsesSlots
  /\ \E p \in Person : (\E why \in Reason : Target(lines[i], p, why)) /\ SlotOf(p) = Unknown
  /\ Reject(i, "no_slot")
  /\ displays' = Displays

\* No bullet track fits, or nobody stands behind the hit point.
RejectSource(i) ==
  /\ NextLine(i) /\ ~Direct
  /\ \E p \in Person, why \in Reason : Target(lines[i], p, why)
  /\ Reject(i, "no_source")
  /\ UNCHANGED displays

Attribute(i) ==
  /\ NextLine(i)
  /\ \E p \in Person, why \in Reason : \E source \in Sources(p) :
       LET target == IF UsesSlots THEN SlotOf(p) ELSE p
       IN  /\ Target(lines[i], p, why) /\ target # Unknown
           /\ WriteEvent(i, KeyOf(lines[i], target, source), target, p, why)
  /\ displays' = IF UsesSlots THEN Displays ELSE displays

HandleCandidate(i) == RejectTarget(i) \/ RejectSlot(i) \/ RejectSource(i) \/ Attribute(i)

FinishPoll ==
  /\ pc = "process" /\ batch = {}
  /\ pc' = "load"
  /\ UNCHANGED <<world, persons, memory, loads, displays, tail, output, epoch>>

\* The process is killed, or dies of an exception, and is started again.
Restart ==
  /\ epoch < RestartBound
  /\ epoch' = epoch + 1
  /\ pc' = "load" /\ persons' = NoFile.tracks /\ memory' = <<>> /\ displays' = <<>>
  /\ started' = FALSE /\ off' = 0 /\ batch' = {} /\ skipped' = 0
  /\ seen' = [k \in EventKey |-> Unknown]
  /\ loads' = <<>> /\ dups' = {}
  /\ UNCHANGED <<world, events>>

-----------------------------------------------------------------------------
Init ==
  /\ published = <<NoFile>> /\ shown = <<[at |-> 0, slots |-> NoSlots]>>
  /\ lines = <<>> /\ now = 0
  /\ pc = "load" /\ persons = NoFile.tracks /\ memory = <<>> /\ displays = <<>>
  /\ started = FALSE /\ off = 0 /\ batch = {} /\ skipped = 0
  /\ seen = [k \in EventKey |-> Unknown] /\ events = <<>> /\ epoch = 0
  /\ loads = <<>> /\ dups = {}

Environment ==
  \/ (\E s \in Sync, t \in Tracks : PublishPersons(s, t))
  \/ (\E p \in Person, slot \in Slot \cup {Unknown}, stale \in BOOLEAN : ShowSlot(p, slot, stale))
  \/ (\E c \in Candidate : Report(c))
  \/ Tick \/ Restart

Service ==
  \/ LoadPersons \/ ReadCandidates \/ (\E i \in batch : HandleCandidate(i)) \/ FinishPoll

Next == Environment \/ Service
Spec == Init /\ [][Next]_vars

\* The loop of run() neither waits nor blocks for good.
FairSpec == Spec /\ WF_vars(Service)

-----------------------------------------------------------------------------
Snapshot == [sync : Sync \cup {Unknown}, tracks : TracksType, at : 0..ClockBound]

TypeOK ==
  /\ published # <<>> /\ shown # <<>> /\ lines \in Seq(Candidate) /\ now \in 0..ClockBound
  /\ pc \in {"load", "read", "process"} /\ persons \in TracksType
  /\ memory \in Seq(Snapshot) /\ Len(memory) <= MaxSnapshots
  /\ Len(displays) <= MaxDisplays
  /\ started \in BOOLEAN /\ batch \subseteq DOMAIN lines
  /\ off \in 0..Len(lines) /\ skipped \in 0..off
  /\ seen \in [EventKey -> {Unknown} \cup 0..ClockBound]
  /\ epoch \in 0..RestartBound
  /\ loads \in Seq(Snapshot)
  /\ dups \subseteq [line : DOMAIN lines, who : Person \cup {Unknown}]
  /\ events \in Seq([line : DOMAIN lines, key : EventKey, target : Victim,
                     who : Person \cup {Unknown},
                     why : Reason \cup {"no_target", "no_slot", "no_source"},
                     at : 0..ClockBound, epoch : 0..RestartBound, loop : Nat])

\* The events of the running incarnation.
Mine == {n \in DOMAIN events : events[n].epoch = epoch}

CandidateOf(e) == lines[e.line]

\* The duplicate filter of _dedup makes the events file a HitOutlet: whatever
\* the purge leaves behind, an incarnation writes no event key a second time
\* within its time to live.
Outlet == INSTANCE HitOutlet WITH
  Key  <- EventKey,
  hits <- [n \in DOMAIN events |->
             [key |-> events[n].key, at |-> events[n].at, epoch |-> events[n].epoch]]

ImplementsOutlet == Outlet!Spec

\* The duplicate filter also remembers rejections.  A hit it drops, of a
\* candidate without an event_id, was preceded by an event of another candidate
\* without one, for the same shot, that names a victim too, the same one where
\* keys are made of global ids: what could not be resolved does not hide what
\* can (_reject and _event_key, lines 578-585).  Candidates that bring an
\* event_id have it for a key whether they are resolved or not (lines 579-581),
\* so with them a rejection does hide a later hit.
HitHiddenOnlyByHit ==
  \A d \in dups : d.who # Unknown /\ lines[d.line].eid = Unknown =>
     \E n \in Mine :
        /\ events[n].line < d.line
        /\ CandidateOf(events[n]).eid = Unknown
        /\ CandidateOf(events[n]).shot = lines[d.line].shot
        /\ events[n].who # Unknown
        /\ ~UsesSlots => events[n].who = d.who

\* The display slot an event names was on display for its victim at some moment
\* of the last DisplayAge before the event, however often slots changed hands
\* since, and it is never the slot reserved for the virtual shooter
\* (_lookup_global_bev_display_id, lines 678-717).
SlotWasShown ==
  UsesSlots => \A n \in DOMAIN events : events[n].who # Unknown =>
    LET e == events[n] IN
      /\ e.target # Reserved
      /\ \E k \in DOMAIN shown :
           /\ shown[k].slots[e.who].slot = e.target
           /\ shown[k].at <= e.at
           /\ k = Len(shown) \/ shown[k + 1].at >= e.at - DisplayAge

\* The frame of a candidate decides: when this incarnation has read a person
\* file of exactly that sync index, recently enough and not crowded out, in
\* which somebody carries the local id, then the victim is one who carries it
\* in such a file, and nobody is found only if there is no such file (the order
\* of lines 364-368 and the memory kept by lines 197-211).
ExactFiles(e, c) ==
  {k \in 1..e.loop :
     /\ loads[k].sync = c.sync
     /\ k < e.loop => loads[k + 1].sync # c.sync
     /\ \E p \in Person : Carries(loads[k].tracks, p, c)
     /\ e.at - loads[k].at <= HistoryAge
     /\ e.loop - k < MaxSnapshots}

ExactFrameDecides ==
  \A n \in Mine :
    LET e == events[n]
        c == CandidateOf(e)
    IN  c.sync # Unknown /\ c.gid = Unknown /\ e.why \notin {"no_slot", "no_source"} =>
          \/ ExactFiles(e, c) = {}
          \/ \E k \in ExactFiles(e, c) : e.who # Unknown /\ Carries(loads[k].tracks, e.who, c)

\* The current person file is also the last one remembered, so the fallback to
\* its local ids (lines 498-501) only ever serves a candidate the history turned
\* down: the file is too many sync indices away from it, or was read too long
\* ago.
CurrentOnlyOutOfReach ==
  \A n \in Mine :
    LET e == events[n]
        c == CandidateOf(e)
        l == loads[e.loop]
    IN  e.why = "current" =>
          \/ e.at - l.at > HistoryAge
          \/ c.sync # Unknown /\ l.sync # Unknown /\ Distance(c.sync, l.sync) > MaxSyncDelta

\* Every candidate appended after the service's first read is answered: an
\* event for it is written, or it is dropped as a duplicate, also when max_lines
\* splits a burst over several loops.
Answered(i) == (\E n \in Mine : events[n].line = i) \/ (\E d \in dups : d.line = i)

EveryCandidateAnswered ==
  <>[](\A i \in (skipped + 1)..Len(lines) : Answered(i))

=============================================================================
