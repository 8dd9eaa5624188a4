--------------------------- MODULE GameEventBridge ---------------------------
(***************************************************************************)
(* game_event_bridge_service.py: the only process that sends hits to the   *)
(* game manager.  Its loop polls a control file, sends a presence message, *)
(* reads new lines of damage_attribution_events.jsonl and turns each into  *)
(* at most one hit message on a TCP connection.                            *)
(*                                                                         *)
(* The environment appends events (a line may be visible in part), writes  *)
(* the control file (os.replace, so it is never seen half written), takes  *)
(* the game manager down and up, and kills and restarts the bridge.        *)
(*                                                                         *)
(* Left out: the wording of messages, the status and latest files, and the *)
(* content and timing of presence messages (see Presence below).           *)
(***************************************************************************)
EXTENDS JsonlFile, FiniteSets

CONSTANTS
  Event,          \* the records producers may append, see EventType
  NoId,           \* the empty event_id
  Modes,          \* the --mode values a launch may choose
  HitSource,      \* --hit-source-mode
  ForceSource,    \* --force-hit-source-global-id, negative when unset
  VirtualId,      \* --virtual-presence-global-id, negative when unset
  TtlArg,         \* --event-id-ttl-sec
  Second,         \* one second: the least time to live
  Backoff,        \* max(0.2, --reconnect-sec)
  PurgeMax,       \* keys one purge removes (1024 in the code)
  MaxLines,       \* --max-lines-per-poll
  ReadExisting,   \* --read-existing
  ShadowPresence, \* --send-presence-in-shadow
  TornWrites,     \* a record being written may be visible in part
  EventBound,     \* bound: events appended
  ClockBound,     \* bound: the clock
  ControlBound,   \* bound: writes of the control file
  FaultBound,     \* bound: failures of the connection
  RestartBound,   \* bound: restarts of the bridge
  DisturbBound    \* bound: the three together

SourceMode == {"all", "manual_only", "auto_only"}

EventType ==
  [id : STRING, cam : STRING, pub : BOOLEAN, man : BOOLEAN, src : Int, tgt : Int]

ASSUME BridgeAssumption ==
  /\ Event \subseteq EventType
  /\ Modes \subseteq {"disabled", "shadow_no_publish", "shadow", "publish", "enforce"}
  /\ Modes # {}
  /\ HitSource \in SourceMode
  /\ {ForceSource, VirtualId} \subseteq Int
  /\ {TtlArg, Second, Backoff, EventBound, ClockBound, ControlBound,
      FaultBound, RestartBound, DisturbBound} \subseteq Nat
  /\ {PurgeMax, MaxLines} \subseteq Nat \ {0}
  /\ {ReadExisting, ShadowPresence, TornWrites} \subseteq BOOLEAN

VARIABLES
  exists, file, size,      \* the events file: there, its records, visible parts
  control,                 \* the control file: its mtime (0: missing) and content
  peerUp, faults,          \* the game manager accepts connections; failures so far
  inbox,                   \* the hits it received, as positions in log
  now,                     \* time.time()
  mode,                    \* args.mode
  pc, sent,                \* where run() is in its loop; did the last send succeed
  hitMode, controlSeen,    \* self.hit_source_mode, self.control_mtime_ns
  started, off, batch,     \* event_tailer._initialized, .offset; lines left to handle
  seen,                    \* self.sent_seen: when a key was first seen, Never if absent
  sock, retryAt,           \* client.sock: "none", "live", or "stale" (the peer is gone
                           \* and the kernel does not know yet); client.next_connect_t
  log,                     \* game_event_bridge_sent.jsonl: one entry per hit that passed
                           \* the filters; res is "pending" until the line is written
  epoch                    \* incarnation of the bridge

fileVars == <<exists, file, size>>
peerVars == <<peerUp, faults>>
ctlVars  == <<hitMode, controlSeen>>
tailVars == <<started, off, batch>>
sockVars == <<sock, retryAt>>
hitVars  == <<seen, log>>          \* what the bridge knows of hits
runVars  == <<mode, epoch>>              \* fixed within an incarnation
bridgeVars == <<pc, sent, ctlVars, tailVars, sockVars, hitVars, runVars>>
world == <<fileVars, control, peerVars, inbox, now>>
vars  == <<world, bridgeVars>>

Calm == control.mtime + faults + epoch < DisturbBound

Enabled   == mode \notin {"disabled", "off"}
SendsHits == mode \in {"publish", "enforce"}
SendsPresence == SendsHits \/ (ShadowPresence /\ mode \in {"shadow", "shadow_no_publish"})

-----------------------------------------------------------------------------
(* The duplicate filter.                                                   *)

Never == -1
Ttl   == IF TtlArg < Second THEN Second ELSE TtlArg

CameraOf(e) == IF e.cam = "" THEN "global" ELSE e.cam

KeyOf(e) == <<CameraOf(e), e.id>>
Key == {KeyOf(e) : e \in Event}

\* Mutant: a key expires one tick early.
Expired_Early == {k \in Key : seen[k] # Never /\ now - seen[k] >= Ttl}

Expired == {k \in Key : seen[k] # Never /\ now - seen[k] > Ttl}

\* expired[:1024]: the dictionary lists its keys in the order they were added.
PurgeSet(X) ==
  /\ X \subseteq Expired
  /\ \A k \in X, l \in Expired \ X : seen[k] <= seen[l]
  /\ X = Expired \/ Cardinality(X) = PurgeMax
  /\ Cardinality(X) <= PurgeMax

Remembered(X) == {k \in Key : seen[k] # Never} \ X

-----------------------------------------------------------------------------
(* _hit_payload and _hit_source_allowed: which events become hits.         *)

SourceAllowed(e) ==
  /\ hitMode = "manual_only" => e.man
  /\ hitMode = "auto_only" => ~e.man

HitSourceId(e) == IF ForceSource >= 0 THEN ForceSource ELSE e.src

HasPayload(e) ==
  /\ e.pub
  /\ SourceAllowed(e)
  /\ HitSourceId(e) >= 0 /\ e.tgt >= 0
  /\ VirtualId >= 0 => e.tgt # VirtualId
  /\ e.id # NoId

-----------------------------------------------------------------------------
(* TcpJsonLineClient.send with connect_if_needed: what the call returns,   *)
(* and whether the whole line reached the game manager.  sendall on a      *)
(* stale connection may still succeed once: the bytes go nowhere.  A send  *)
(* that fails on a live connection leaves at most a line without newline.  *)

CanConnect == sock = "none" /\ now >= retryAt /\ peerUp

NoConnection ==
  /\ sock = "none" /\ ~CanConnect
  /\ retryAt' = IF now < retryAt THEN retryAt ELSE now + Backoff
  /\ UNCHANGED <<sock, faults>>

SendArrives ==
  /\ CanConnect \/ sock = "live"
  /\ sock' = "live"
  /\ UNCHANGED <<retryAt, faults>>

SendVanishes ==
  /\ sock = "stale"
  /\ UNCHANGED <<sockVars, faults>>

SendBreaks ==
  /\ \/ sock = "stale" /\ UNCHANGED faults
     \/ /\ CanConnect \/ sock = "live"
        /\ faults < FaultBound /\ Calm /\ faults' = faults + 1
  /\ sock' = "none" /\ retryAt' = now + Backoff

ClientSend(ok, arrived) ==
  \/ ok /\ arrived /\ SendArrives
  \/ ok /\ ~arrived /\ SendVanishes
  \/ ~ok /\ ~arrived /\ (NoConnection \/ SendBreaks)

-----------------------------------------------------------------------------
(* The environment.                                                        *)

\* The producers open the events file for appending when they start.
CreateEvents ==
  /\ ~exists
  /\ exists' = TRUE
  /\ UNCHANGED <<file, size, control, peerVars, inbox, now, bridgeVars>>

AppendEvent(e) ==
  /\ exists /\ Len(file) < EventBound /\ size = LineEnd(Len(file))
  /\ file' = Append(file, e)
  /\ \E n \in (IF TornWrites THEN 1..Parts ELSE {Parts}) : size' = size + n
  /\ UNCHANGED <<exists, control, peerVars, inbox, now, bridgeVars>>

FlushEvent ==
  /\ size < LineEnd(Len(file))
  /\ size' = LineEnd(Len(file))
  /\ UNCHANGED <<exists, file, control, peerVars, inbox, now, bridgeVars>>

\* The operator's window replaces the control file.  "silent": an object with
\* neither hit_source_mode nor manual_hit_only; "unreadable": no JSON.
WriteControl(m) ==
  /\ control.mtime < ControlBound /\ Calm
  /\ control' = [mtime |-> control.mtime + 1, mode |-> m]
  /\ UNCHANGED <<fileVars, peerVars, inbox, now, bridgeVars>>

PeerDown ==
  /\ peerUp /\ faults < FaultBound /\ Calm
  /\ peerUp' = FALSE /\ faults' = faults + 1
  /\ sock' = IF sock = "live" THEN "stale" ELSE sock
  /\ UNCHANGED <<fileVars, control, inbox, now, pc, sent, ctlVars, tailVars,
                 retryAt, hitVars, runVars>>

PeerUp ==
  /\ ~peerUp
  /\ peerUp' = TRUE
  /\ UNCHANGED <<fileVars, control, faults, inbox, now, bridgeVars>>

Tick ==
  /\ now < ClockBound
  /\ now' = now + 1
  /\ UNCHANGED <<fileVars, control, peerVars, inbox, bridgeVars>>

\* The bridge dies wherever it is and is launched again: __init__ takes the
\* control file's present mtime as already seen.
Restart ==
  /\ epoch < RestartBound /\ Calm
  /\ epoch' = epoch + 1
  /\ mode' \in Modes
  /\ pc' = "poll" /\ sent' = FALSE
  /\ hitMode' = HitSource /\ controlSeen' = control.mtime
  /\ started' = FALSE /\ off' = 0 /\ batch' = {}
  /\ seen' = [k \in Key |-> Never]
  /\ sock' = "none" /\ retryAt' = 0
  /\ UNCHANGED <<world, log>>

-----------------------------------------------------------------------------
(* run(): one iteration of the loop.                                       *)

PollControl ==
  /\ pc = "poll"
  /\ pc' = IF Enabled THEN "presence" ELSE "poll"
  /\ IF control.mtime <= controlSeen \/ control.mode = "unreadable"
       THEN UNCHANGED ctlVars
       ELSE /\ controlSeen' = control.mtime
            /\ hitMode' = IF control.mode = "silent" THEN hitMode ELSE control.mode
  /\ UNCHANGED <<world, sent, tailVars, sockVars, hitVars, runVars>>

\* Whether the presence message is due is left open: its period is a fraction
\* of the model's unit of time.  It shares the hits' connection.
Presence ==
  /\ pc = "presence"
  /\ pc' = "read"
  /\ \/ UNCHANGED <<sockVars, faults>>
     \/ SendsPresence /\ \E ok, arrived \in BOOLEAN : ClientSend(ok, arrived)
  /\ UNCHANGED <<fileVars, control, peerUp, inbox, now, sent, ctlVars, tailVars,
                 hitVars, runVars>>

ReadEvents ==
  /\ pc = "read"
  /\ pc' = "events"
  /\ IF exists
       THEN LET from == ReadFrom(started, ReadExisting, off, size)
                to   == ReadTo(from, size, MaxLines)
            IN  /\ started' = TRUE
                /\ off' = to
                /\ batch' = WholeLines(file, from, to)
       ELSE UNCHANGED tailVars
  /\ UNCHANGED <<world, sent, ctlVars, sockVars, hitVars, runVars>>

\* i is the next event of the list read_new returned.
NextEvent(i) == pc = "events" /\ i \in batch /\ (\A j \in batch : i <= j)

SkipEvent(i) ==
  /\ NextEvent(i) /\ ~HasPayload(file[i])
  /\ batch' = batch \ {i}
  /\ UNCHANGED <<world, pc, sent, ctlVars, started, off, sockVars, hitVars, runVars>>

DropDuplicate(i) ==
  /\ NextEvent(i) /\ HasPayload(file[i])
  /\ \E X \in SUBSET Expired :
       /\ PurgeSet(X)
       /\ KeyOf(file[i]) \in Remembered(X)
       /\ seen' = [k \in Key |-> IF k \in X THEN Never ELSE seen[k]]
  /\ batch' = batch \ {i}
  /\ UNCHANGED <<world, pc, sent, ctlVars, started, off, sockVars, log, runVars>>

\* Mutant: a key is only remembered while a connection is open.
TakeHit_Unmarked(i) ==
  /\ NextEvent(i) /\ HasPayload(file[i])
  /\ \E X \in SUBSET Expired :
       /\ PurgeSet(X)
       /\ KeyOf(file[i]) \notin Remembered(X)
       /\ seen' = [k \in Key |-> IF k = KeyOf(file[i]) /\ sock # "none" THEN now
                                 ELSE IF k \in X THEN Never ELSE seen[k]]
  /\ batch' = batch \ {i}
  /\ log' = Append(log, [line |-> i, key |-> KeyOf(file[i]), at |-> now,
                         epoch |-> epoch, res |-> "pending"])
  /\ pc' = "send"
  /\ UNCHANGED <<world, sent, ctlVars, started, off, sockVars, runVars>>

TakeHit(i) ==
  /\ NextEvent(i) /\ HasPayload(file[i])
  /\ \E X \in SUBSET Expired :
       /\ PurgeSet(X)
       /\ KeyOf(file[i]) \notin Remembered(X)
       /\ seen' = [k \in Key |-> IF k = KeyOf(file[i]) THEN now
                                 ELSE IF k \in X THEN Never ELSE seen[k]]
  /\ batch' = batch \ {i}
  /\ log' = Append(log, [line |-> i, key |-> KeyOf(file[i]), at |-> now,
                         epoch |-> epoch, res |-> "pending"])
  /\ pc' = "send"
  /\ UNCHANGED <<world, sent, ctlVars, started, off, sockVars, runVars>>

\* Mutant: the result of a send is not taken when it succeeds.
SendHit_StaleResult ==
  /\ pc = "send" /\ SendsHits
  /\ pc' = "log"
  /\ \E ok, arrived \in BOOLEAN :
       /\ ClientSend(ok, arrived)
       /\ sent' = (sent /\ ok)
       /\ inbox' = IF arrived THEN Append(inbox, Len(log)) ELSE inbox
  /\ UNCHANGED <<fileVars, control, peerUp, now, ctlVars, tailVars, hitVars, runVars>>

SendHit ==
  /\ pc = "send" /\ SendsHits
  /\ pc' = "log"
  /\ \E ok, arrived \in BOOLEAN :
       /\ ClientSend(ok, arrived)
       /\ sent' = ok
       /\ inbox' = IF arrived THEN Append(inbox, Len(log)) ELSE inbox
  /\ UNCHANGED <<fileVars, control, peerUp, now, ctlVars, tailVars, hitVars, runVars>>

ShadowHit ==
  /\ pc = "send" /\ ~SendsHits
  /\ pc' = "log" /\ sent' = FALSE
  /\ UNCHANGED <<world, ctlVars, tailVars, sockVars, hitVars, runVars>>

LogHit ==
  /\ pc = "log"
  /\ pc' = "events"
  /\ log' = [log EXCEPT ![Len(log)].res =
                IF sent THEN "sent" ELSE IF SendsHits THEN "send_failed" ELSE "shadow"]
  /\ UNCHANGED <<world, sent, ctlVars, tailVars, sockVars, seen, runVars>>

FinishPoll ==
  /\ pc = "events" /\ batch = {}
  /\ pc' = "poll"
  /\ UNCHANGED <<world, sent, ctlVars, tailVars, sockVars, hitVars, runVars>>

-----------------------------------------------------------------------------
Init ==
  /\ exists \in BOOLEAN /\ file = <<>> /\ size = 0
  /\ control = [mtime |-> 0, mode |-> "silent"]
  /\ peerUp \in BOOLEAN /\ faults = 0 /\ inbox = <<>> /\ now = 0
  /\ mode \in Modes /\ pc = "poll" /\ sent = FALSE
  /\ hitMode = HitSource /\ controlSeen = 0
  /\ started = FALSE /\ off = 0 /\ batch = {}
  /\ seen = [k \in Key |-> Never]
  /\ sock = "none" /\ retryAt = 0
  /\ log = <<>> /\ epoch = 0

Environment ==
  \/ CreateEvents \/ (\E e \in Event : AppendEvent(e)) \/ FlushEvent
  \/ (\E m \in SourceMode \cup {"silent", "unreadable"} : WriteControl(m))
  \/ PeerDown \/ PeerUp \/ Tick \/ Restart

HandleEvent(i) == SkipEvent(i) \/ DropDuplicate(i) \/ TakeHit(i)

Bridge ==
  \/ PollControl \/ Presence \/ ReadEvents
  \/ (\E i \in batch : HandleEvent(i))
  \/ SendHit \/ ShadowHit \/ LogHit \/ FinishPoll

Next == Environment \/ Bridge

Spec == Init /\ [][Next]_vars

\* A started write completes, and the service's loop never blocks for good:
\* every socket call has a timeout.
FairSpec == Spec /\ WF_vars(FlushEvent) /\ WF_vars(Bridge)

\* Moreover the game manager comes back whenever it was down, and time passes.
FairPeerSpec == FairSpec /\ WF_vars(PeerUp) /\ WF_vars(Tick)

-----------------------------------------------------------------------------
(* Properties.                                                             *)

Result == {"pending", "sent", "send_failed", "shadow"}
Entry  == [line : Nat \ {0}, key : Key, at : Nat, epoch : Nat, res : Result]

FilesOK ==
  /\ exists \in BOOLEAN /\ file \in Seq(Event) /\ size \in Nat
  /\ started \in BOOLEAN /\ off \in Nat /\ batch \subseteq DOMAIN file

PeerOK ==
  /\ peerUp \in BOOLEAN /\ faults \in Nat /\ inbox \in Seq(Nat)
  /\ sock \in {"none", "live", "stale"} /\ retryAt \in Nat

LoopOK ==
  /\ control \in [mtime : Nat, mode : SourceMode \cup {"silent", "unreadable"}]
  /\ hitMode \in SourceMode /\ controlSeen \in Nat
  /\ mode \in Modes /\ sent \in BOOLEAN
  /\ pc \in {"poll", "presence", "read", "events", "send", "log"}

HitsOK ==
  /\ now \in Nat /\ epoch \in Nat
  /\ seen \in [Key -> Nat \cup {Never}]
  /\ log \in Seq(Entry)

TypeOK == FilesOK /\ PeerOK /\ LoopOK /\ HitsOK

\* One incarnation never tries the same hit key twice within the time to live
\* of the duplicate filter, however the file was read, whether or not the
\* earlier try reached the game manager, and however many keys a purge left
\* behind (_dedup_hit).
NoRepeatWithinTtl ==
  \A a, b \in DOMAIN log :
     (a < b /\ log[a].key = log[b].key /\ log[a].epoch = log[b].epoch)
       => log[b].at - log[a].at > Ttl

\* The sent log and the game manager agree as far as TCP lets them: the
\* manager has each tried hit at most once and in the order of the log, and
\* has none that the log calls failed or shadow.  Only a crash before the log
\* line leaves a delivered hit without its entry.
InboxAgreesWithLog ==
  /\ \A m, n \in DOMAIN inbox : m < n => inbox[m] < inbox[n]
  /\ \A n \in DOMAIN inbox :
       /\ inbox[n] \in DOMAIN log
       /\ \/ log[inbox[n]].res = "sent"
          \/ /\ log[inbox[n]].res = "pending"
             /\ \/ log[inbox[n]].epoch < epoch
                \/ pc = "log" /\ sent /\ inbox[n] = Len(log)

\* The bridge implements the abstract outlet.
Outlet == INSTANCE HitOutlet WITH
  hits <- [n \in DOMAIN log |->
             [key |-> log[n].key, at |-> log[n].at, epoch |-> log[n].epoch]]

ImplementsOutlet == Outlet!Spec

\* What the handoff document says of the publish profile: a hit event with
\* publishable=true is sent to the game manager.  Stated for a hit that is
\* written in one piece while the bridge runs and tails the file, and that no
\* earlier hit shares its key with.
PublishableReachesManager ==
  \A i \in 1..EventBound :
     (/\ SendsHits /\ started
      /\ i \in DOMAIN file /\ off <= LineStart(i) /\ LineEnd(i) <= size
      /\ HasPayload(file[i])
      /\ \A j \in 1..(i - 1) : KeyOf(file[j]) # KeyOf(file[i]))
       ~> (\E n \in DOMAIN inbox : log[inbox[n]].line = i)
=============================================================================
