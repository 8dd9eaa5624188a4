------------------------------ MODULE ManualHit ------------------------------
(***************************************************************************)
(* manual_hit_service.py: an operator clicks a person in a preview window, *)
(* the window appends a command to manual_hit_commands.jsonl, and this     *)
(* service turns the command into a publishable event for the game event   *)
(* bridge, or into a line of manual_hit_confirmed.jsonl that says why not. *)
(*                                                                         *)
(* The file of commands is counted in lines: its writers open, write and   *)
(* close it for each click (JsonlTailer models readers of half lines).     *)
(* Its two output files are line-buffered: a line that could not be        *)
(* written stays in the buffer of its file and goes out with a later one,  *)
(* or when the process ends.                                               *)
(* Left out: writes that fail in the middle of a line, the status files,   *)
(* the wording of events, the geometry of the search for the clicked       *)
(* person (see Resolutions), and the dedup_ms a control file could set:    *)
(* the only writer of that file never does.                                *)
(***************************************************************************)
EXTENDS Integers, Sequences

CONSTANTS
  Person,        \* the ids a click can be resolved to, SourceId possibly among them
  SourceId,      \* control["source_global_id"]: the virtual shooter
  Nobody,        \* no person: in a command, one to be found from the tracks
  Clicks,        \* whom the commands may name
  Enabled,       \* mode_enabled: --mode is neither disabled nor off
  Dedup,         \* dedup_ms
  Second,        \* 1000 ms
  MaxLines,      \* --max-lines-per-poll
  ReadExisting,  \* --read-existing
  CommandBound,  \* bound: clicks
  ClockBound,    \* bound: the clock
  ControlBound,  \* bound: writes of the control file
  FaultBound,    \* bound: writes to the two output files that fail
  RestartBound   \* bound: restarts of the service

ASSUME ManualAssumption ==
  /\ Nobody \notin Person /\ Clicks \subseteq Person \cup {Nobody}
  /\ {Enabled, ReadExisting} \subseteq BOOLEAN
  /\ {Dedup, Second, CommandBound, ClockBound, ControlBound, FaultBound,
      RestartBound} \subseteq Nat
  /\ MaxLines \in Nat \ {0}

VARIABLES
  commands,  \* manual_hit_commands.jsonl: the person each click names, or Nobody
  control,   \* manual_hit_control.json: its mtime (0: missing) and "enabled"
  now,       \* time.time()
  faults,    \* bound: failed writes so far
  pc,        \* where run() is in its loop
  off,       \* command_tailer.offset
  queue,     \* the commands of this poll still to process
  enabled,   \* self.control["enabled"]
  ctlSeen,   \* self.control_mtime_ns
  recent,    \* self.recent_by_target, Never if absent
  events,    \* the events handed to events_fp
  written,   \* those in damage_attribution_events.jsonl, by number
  kept,      \* those left in the buffer of events_fp
  confirmed, \* manual_hit_confirmed.jsonl: its lines, equal ones counted once
  unsaid,    \* the lines left in the buffer of confirmed_fp
  epoch,     \* incarnation of the service
  cut        \* history: max_lines has cut short a read of this incarnation

world   == <<commands, control, now, faults>>
tailer  == <<off, cut>>
switch  == <<enabled, ctlSeen>>
output  == <<events, written, kept, confirmed, unsaid>>
service == <<pc, queue, tailer, switch, recent, output, epoch>>
vars    == <<world, service>>

Never == -1

\* The first position read_new will look at, for a file of n lines, when the
\* service starts (the offset is fixed by the constructor, not the first poll).
StartOffset(n) == IF ReadExisting THEN 0 ELSE n

Init ==
  /\ commands = <<>> /\ control = [mtime |-> 0, enabled |-> TRUE]
  /\ now = 0 /\ faults = 0
  /\ pc = "poll" /\ queue = {} /\ off = 0 /\ cut = FALSE
  /\ enabled = TRUE /\ ctlSeen = 0
  /\ recent = [p \in Person |-> Never]
  /\ events = <<>> /\ written = {} /\ kept = {} /\ confirmed = {} /\ unsaid = {}
  /\ epoch = 0

-----------------------------------------------------------------------------
(* The environment.                                                        *)

Click(c) ==
  /\ Len(commands) < CommandBound
  /\ commands' = Append(commands, c)
  /\ UNCHANGED <<control, now, faults, service>>

\* The check box of the preview window replaces the control file.
WriteControl(b) ==
  /\ control.mtime < ControlBound
  /\ control' = [mtime |-> control.mtime + 1, enabled |-> b]
  /\ UNCHANGED <<commands, now, faults, service>>

Tick ==
  /\ now < ClockBound
  /\ now' = now + 1
  /\ UNCHANGED <<commands, control, faults, service>>

\* What a flush that fails, or the end of the process, may have written of the
\* events in the buffer: the first ones.
Early == {{n \in kept : n <= k} : k \in {0} \cup kept}

\* The service dies wherever it is and is started again; what is in its buffers
\* is lost or, if it could still close the files, written.  Its first poll of
\* the control file takes what the file says, however old.
Restart ==
  /\ epoch < RestartBound
  /\ epoch' = epoch + 1
  /\ pc' = "poll" /\ queue' = {} /\ off' = StartOffset(Len(commands)) /\ cut' = FALSE
  /\ enabled' = TRUE /\ ctlSeen' = 0
  /\ recent' = [p \in Person |-> Never]
  /\ \E early \in Early : written' = written \cup early
  /\ \E said \in {{}, unsaid} : confirmed' = confirmed \cup said
  /\ kept' = {} /\ unsaid' = {}
  /\ UNCHANGED <<world, events>>

-----------------------------------------------------------------------------
(* run(): one iteration of the loop.                                       *)

PollControl ==
  /\ pc = "poll" /\ pc' = "read"
  /\ IF control.mtime <= ctlSeen
       THEN UNCHANGED switch
       ELSE ctlSeen' = control.mtime /\ enabled' = control.enabled
  /\ UNCHANGED <<world, queue, tailer, recent, output, epoch>>

\* Lines of the file that one call of read_new returns.
Batch == {i \in DOMAIN commands : off < i /\ i <= off + MaxLines}

\* Mutant: the offset is never advanced.
ReadCommands_Kept ==
  /\ pc = "read" /\ pc' = "commands"
  /\ queue' = Batch
  /\ cut' = (cut \/ Len(commands) > off + MaxLines)
  /\ UNCHANGED <<world, off, switch, recent, output, epoch>>

\* When more than max_lines lines are waiting the loop over the file is left
\* with break, fp.tell() then raises OSError, and the offset stays.
ReadCommands ==
  /\ pc = "read" /\ pc' = "commands"
  /\ queue' = Batch
  /\ off' = IF Len(commands) > off + MaxLines THEN off ELSE Len(commands)
  /\ cut' = (cut \/ Len(commands) > off + MaxLines)
  /\ UNCHANGED <<world, switch, recent, output, epoch>>

FinishPoll ==
  /\ pc = "commands" /\ queue = {}
  /\ pc' = "poll"
  /\ UNCHANGED <<world, queue, tailer, switch, recent, output, epoch>>

-----------------------------------------------------------------------------
(* _process_command and _accept.                                           *)

\* _resolve_target: a command that names a person is taken at its word; else
\* the tracks other services last wrote decide, and may be any.  fresh: the
\* track is no older than target_max_age_ms, or says nothing of its age.
Resolutions(c) ==
  IF c # Nobody THEN {[who |-> c, fresh |-> TRUE]}
  ELSE [who : Person \cup {Nobody}, fresh : BOOLEAN]

Acceptable(r) ==
  Enabled /\ enabled /\ r.who \in Person \ {SourceId} /\ r.fresh

\* _dedup: keys this old are removed before the others are looked at.
PurgeAge == 4 * (IF Dedup < Second THEN Second ELSE Dedup)
Purged(t) == t # Never /\ now - t > PurgeAge
Kept == [p \in Person |-> IF Purged(recent[p]) THEN Never ELSE recent[p]]

\* Mutant: the comparison is the wrong way round.
CoolingDown_Inverted(p) ==
  Dedup > 0 /\ Kept[p] # Never /\ now - Kept[p] > Dedup

CoolingDown(p) ==
  Dedup > 0 /\ Kept[p] # Never /\ now - Kept[p] < Dedup

Current(i) == i \in queue /\ (\A j \in queue : i <= j)
NextCommand(i) == pc = "commands" /\ Current(i)

\* A line of the confirmation file; ev is the event it announces, if any.  Only
\* a refusal for the cooldown and an acceptance record the target.
Line(i, res, who, ev) ==
  [cmd |-> i, res |-> res, who |-> who, ev |-> ev, epoch |-> epoch]

\* A line is written to the confirmation file, after what its buffer holds.
Say(l) ==
  /\ confirmed' = confirmed \cup unsaid \cup {l}
  /\ unsaid' = {}

\* Or it is not and stays in the buffer; run() catches the exception.  The
\* buffer was empty: another failure would have been the end of the process.
SayFails(l) ==
  /\ faults < FaultBound /\ faults' = faults + 1
  /\ unsaid' = unsaid \cup {l}
  /\ pc' = "exception"
  /\ UNCHANGED <<commands, control, now, confirmed>>

Refusals(i) ==
  {Line(i, "refused", Nobody, 0)} \cup {Line(i, "cooldown", p, 0) : p \in Person}

\* Command i is refused with line l.
Refused(i, l) ==
  \E r \in Resolutions(commands[i]) :
     \/ ~Acceptable(r) /\ l = Line(i, "refused", Nobody, 0) /\ recent' = recent
     \/ /\ Acceptable(r) /\ CoolingDown(r.who)
        /\ l = Line(i, "cooldown", r.who, 0) /\ recent' = Kept

Refuse(i) ==
  /\ NextCommand(i)
  /\ \E l \in Refusals(i) : Refused(i, l) /\ Say(l)
  /\ queue' = queue \ {i}
  /\ UNCHANGED <<world, pc, tailer, switch, events, written, kept, epoch>>

RefuseFails(i) ==
  /\ NextCommand(i)
  /\ \E l \in Refusals(i) : Refused(i, l) /\ SayFails(l)
  /\ UNCHANGED <<queue, tailer, switch, events, written, kept, epoch>>

\* Mutant: the target is not marked.
Hand_Unmarked(i) ==
  \E r \in Resolutions(commands[i]) :
     /\ Acceptable(r) /\ ~CoolingDown(r.who)
     /\ recent' = Kept
     /\ events' = Append(events, [cmd |-> i, who |-> r.who, at |-> now, epoch |-> epoch])

\* The target is marked, then the event is handed to its file.
Hand(i) ==
  \E r \in Resolutions(commands[i]) :
     /\ Acceptable(r) /\ ~CoolingDown(r.who)
     /\ recent' = [Kept EXCEPT ![r.who] = now]
     /\ events' = Append(events, [cmd |-> i, who |-> r.who, at |-> now, epoch |-> epoch])

\* The event is written, after those its buffer holds.
Accept(i) ==
  /\ NextCommand(i) /\ Hand(i)
  /\ written' = written \cup kept \cup {Len(events) + 1}
  /\ kept' = {}
  /\ pc' = "confirm"
  /\ UNCHANGED <<world, queue, tailer, switch, confirmed, unsaid, epoch>>

\* It cannot be written and stays in the buffer, with what was in there and
\* could not be written either; a buffer in use may have no room for it.  The
\* target stays marked.
AcceptFails(i) ==
  /\ NextCommand(i) /\ Hand(i)
  /\ faults < FaultBound /\ faults' = faults + 1
  /\ \E early \in Early, room \in BOOLEAN :
       /\ kept = {} => room
       /\ written' = written \cup early
       /\ kept' = (kept \ early) \cup (IF room THEN {Len(events) + 1} ELSE {})
  /\ pc' = "exception"
  /\ UNCHANGED <<commands, control, now, queue, tailer, switch, confirmed, unsaid, epoch>>

Accepted(i) == Line(i, "accepted", events[Len(events)].who, Len(events))

\* Mutant: it is left out while manual hits are being switched off.
Confirm_Skipped(i) ==
  /\ pc = "confirm" /\ pc' = "commands" /\ Current(i)
  /\ IF control.enabled THEN Say(Accepted(i)) ELSE UNCHANGED <<confirmed, unsaid>>
  /\ queue' = queue \ {i}
  /\ UNCHANGED <<world, tailer, switch, recent, events, written, kept, epoch>>

\* The confirmation of the event just written.
Confirm(i) ==
  /\ pc = "confirm" /\ pc' = "commands" /\ Current(i)
  /\ Say(Accepted(i))
  /\ queue' = queue \ {i}
  /\ UNCHANGED <<world, tailer, switch, recent, events, written, kept, epoch>>

ConfirmFails(i) ==
  /\ pc = "confirm" /\ Current(i)
  /\ SayFails(Accepted(i))
  /\ UNCHANGED <<queue, tailer, switch, recent, events, written, kept, epoch>>

\* Mutant: the exception ends the loop over the batch.
RejectException_Ends(i) ==
  /\ pc = "exception" /\ pc' = "commands" /\ Current(i)
  /\ Say(Line(i, "exception", Nobody, 0))
  /\ queue' = {}
  /\ UNCHANGED <<world, tailer, switch, recent, events, written, kept, epoch>>

\* run() caught an exception and refuses the command, whatever was done for it,
\* and goes on with the next.
RejectException(i) ==
  /\ pc = "exception" /\ pc' = "commands" /\ Current(i)
  /\ Say(Line(i, "exception", Nobody, 0))
  /\ queue' = queue \ {i}
  /\ UNCHANGED <<world, tailer, switch, recent, events, written, kept, epoch>>

\* That refusal cannot be written either: nothing catches this exception, the
\* process ends, and closing the files may write the first of what they hold.
Die(i) ==
  /\ pc = "exception" /\ pc' = "dead" /\ Current(i)
  /\ faults < FaultBound /\ faults' = faults + 1
  /\ queue' = {}
  /\ \E early \in Early : written' = written \cup early
  /\ \E said \in {{}, unsaid, unsaid \cup {Line(i, "exception", Nobody, 0)}} :
       confirmed' = confirmed \cup said
  /\ kept' = {} /\ unsaid' = {}
  /\ UNCHANGED <<commands, control, now, tailer, switch, recent, events, epoch>>

-----------------------------------------------------------------------------
Environment ==
  \/ (\E c \in Clicks : Click(c))
  \/ (\E b \in BOOLEAN : WriteControl(b))
  \/ Tick \/ Restart

Service ==
  \/ PollControl \/ ReadCommands \/ FinishPoll
  \/ (\E i \in queue : Refuse(i) \/ RefuseFails(i) \/ Accept(i) \/ AcceptFails(i))
  \/ (\E i \in queue : Confirm(i) \/ ConfirmFails(i) \/ RejectException(i) \/ Die(i))

Next == Environment \/ Service
Spec == Init /\ [][Next]_vars

\* The loop of the service blocks on nothing.
FairSpec == Spec /\ WF_vars(Service)

-----------------------------------------------------------------------------
(* Properties.                                                             *)

Event  == [cmd : Nat, who : Person, at : Nat, epoch : Nat]
Answer == [cmd : Nat, res : {"refused", "cooldown", "exception", "accepted"},
           who : Person \cup {Nobody}, ev : Nat, epoch : Nat]

TypeOK ==
  /\ commands \in Seq(Clicks)
  /\ control \in [mtime : Nat, enabled : BOOLEAN]
  /\ now \in Nat /\ faults \in Nat /\ epoch \in Nat
  /\ pc \in {"poll", "read", "commands", "confirm", "exception", "dead"}
  /\ off \in 0..Len(commands) /\ queue \subseteq DOMAIN commands
  /\ enabled \in BOOLEAN /\ ctlSeen \in 0..control.mtime /\ cut \in BOOLEAN
  /\ recent \in [Person -> {Never} \cup (0..now)]
  /\ events \in Seq(Event) /\ written \subseteq DOMAIN events /\ kept \subseteq DOMAIN events
  /\ confirmed \subseteq Answer /\ unsaid \subseteq Answer

\* One incarnation makes two hits of the same person only if dedup_ms lie
\* between them, whichever clicks they came from, however often those clicks
\* were read, and whether the hits could be written at once, late or never
\* (_dedup marks the person before the write).
CooldownKept ==
  \A a, b \in DOMAIN events :
     (a < b /\ events[a].who = events[b].who /\ events[a].epoch = events[b].epoch)
       => events[b].at - events[a].at >= Dedup

\* By the times they carry, the events the service makes are those of a
\* HitOutlet of persons.  Hits dedup_ms apart pass (_dedup, line 407), so that
\* on the clock of milliseconds the time to live is one less.
Outlet == INSTANCE HitOutlet WITH
  Key  <- Person \ {SourceId},
  Ttl  <- Dedup - 1,
  hits <- [n \in DOMAIN events |->
             [key |-> events[n].who, at |-> events[n].at, epoch |-> events[n].epoch]]

ImplementsOutlet == Outlet!Spec

\* A click becomes two hits in one incarnation only after a read was cut short
\* by max_lines: apart from that case no command is ever processed twice.
RepeatedOnlyAfterCut ==
  \A a, b \in DOMAIN events :
     (a < b /\ events[a].cmd = events[b].cmd /\ events[a].epoch = epoch /\ events[b].epoch = epoch)
       => cut

\* The confirmation file owns up to the events file.  An acceptance announces
\* an event that is in the file, of the same click and person.  An event in the
\* file is announced, or the work on it is under way, or its click was answered
\* with process_exception (the line says nothing of the event, which may enter
\* the file long after it, lines 489, 511 and 605-608), or the process ended
\* over it.
Excused(n) ==
  \/ \E l \in confirmed : /\ l.res = "exception" /\ l.cmd = events[n].cmd
                           /\ l.epoch = events[n].epoch
  \/ /\ events[n].epoch < epoch \/ pc = "dead"
     /\ ~(\E m \in DOMAIN events : m > n /\ events[m].epoch = events[n].epoch)

ConfirmationsAgree ==
  /\ \A l \in confirmed : l.res = "accepted" =>
       /\ l.ev \in written
       /\ events[l.ev].cmd = l.cmd /\ events[l.ev].who = l.who
  /\ \A n \in written :
       \/ \E l \in confirmed : l.ev = n
       \/ pc \in {"confirm", "exception"} /\ n = Len(events)
       \/ Excused(n)

\* Every click the service has still to read is answered by a confirmation, also
\* when the work on another click of its batch ends in an exception, unless a
\* read is cut short, the process restarts or dies of a failure to write that
\* very answer.
EveryClickAnswered ==
  \A i \in 1..CommandBound, e \in 0..RestartBound :
     (i \in DOMAIN commands /\ off < i /\ epoch = e)
       ~> (\/ cut \/ epoch # e \/ pc = "dead"
           \/ \E l \in confirmed : l.cmd = i /\ l.epoch = e)

\* What the version notes promise: a click makes one command, and the command
\* one event.
OneHitPerClick ==
  \A a, b \in written :
     (events[a].cmd = events[b].cmd /\ events[a].epoch = events[b].epoch) => a = b
=============================================================================
