------------------------- MODULE TriggerCoordinator -------------------------
(***************************************************************************)
(* mvs_trigger_coordinator.py: the process that announces, ahead of time,  *)
(* the instant at which every camera is to be triggered.                   *)
(*                                                                         *)
(* One turn of its loop is Sample (sleep until the lead before the fire    *)
(* time, read the clock, resynchronise when too late), one SendTo for each *)
(* camera, and Record (timeline, next tick).  The socket is a blocking     *)
(* one: SendTo waits while the queue of a live worker is full.             *)
(*                                                                         *)
(* Left out: the wait for the sockets before the first tick (it gives up   *)
(* after a timeout), the sync-start file, the status file.  The order of   *)
(* the cameras, fixed by the command line, is left open.                   *)
(***************************************************************************)
EXTENDS TriggerSockets

CONSTANTS
  Period,      \* period_ns
  Lead,        \* lead_ns
  Resync,      \* late_resync_periods * period_ns
  StartDelay,  \* from the start of the loop to the first fire time
  TickBound,   \* bound: ticks of one run of the coordinator
  StartBound   \* bound: runs of the coordinator

ASSUME CoordinatorAssumption ==
  /\ Period \in Nat \ {0}
  /\ Lead \in Nat /\ Resync \in Nat /\ StartDelay \in Nat
  /\ TickBound \in Nat /\ StartBound \in Nat

VARIABLES
  cpc,    \* "off", "sleep", "send"
  tick,   \* tick_id
  fire,   \* next_fire_ns
  todo,   \* cameras this tick has still to be sent to
  start,  \* history: the number of the coordinator's run
  sent    \* global_trigger_timeline_latest.json, with the run that wrote it

coordinator == <<cpc, tick, fire, todo, start, sent>>

NeverSent == [start |-> 0, tick |-> 0, fire |-> 0]

CoordinatorInit ==
  /\ cpc = "off" /\ tick = 0 /\ fire = 0 /\ todo = {}
  /\ start = 0 /\ sent = NeverSent

\* The ids begin again with mvs_soft_trigger_start_index.
CoordinatorStarts ==
  /\ cpc = "off" /\ start < StartBound
  /\ cpc' = "sleep" /\ tick' = 0 /\ fire' = now + StartDelay
  /\ todo' = {} /\ start' = start + 1
  /\ UNCHANGED <<sockets, sent>>

\* SIGTERM ends the loop between two ticks, SIGKILL anywhere.
CoordinatorEnds ==
  /\ cpc # "off"
  /\ cpc' = "off" /\ tick' = 0 /\ fire' = 0 /\ todo' = {}
  /\ UNCHANGED <<sockets, start, sent>>

TooLate == now > fire + Resync

\* The bounds of an instance: no tick is sent whose fire time never comes.
InBounds == tick < TickBound /\ fire <= ClockBound

\* Mutant: a late wake-up counts the ids it missed and fires at once.
Sample_FiresAtOnce ==
  /\ cpc = "sleep" /\ InBounds
  /\ now >= fire - Lead
  /\ IF TooLate
       THEN /\ fire' = now /\ tick' = tick + (now - fire) \div Period + 1
            /\ UNCHANGED <<cpc, todo>>
       ELSE cpc' = "send" /\ todo' = Camera /\ UNCHANGED <<tick, fire>>
  /\ UNCHANGED <<sockets, start, sent>>

\* The wait is over: a late wake-up skips an id and begins again a period from
\* now (line 306).
Sample ==
  /\ cpc = "sleep" /\ InBounds
  /\ now >= fire - Lead
  /\ IF TooLate
       THEN fire' = now + Period /\ tick' = tick + 1 /\ UNCHANGED <<cpc, todo>>
       ELSE cpc' = "send" /\ todo' = Camera /\ UNCHANGED <<tick, fire>>
  /\ UNCHANGED <<sockets, start, sent>>

\* Mutant: a camera without a worker is waited for.
SendTo_Waits(c) ==
  /\ cpc = "send" /\ c \in todo
  /\ c \in bound /\ Len(inbox[c]) < QueueMax
  /\ inbox' = [inbox EXCEPT ![c] = Append(@, [tick |-> tick, fire |-> fire])]
  /\ todo' = todo \ {c}
  /\ UNCHANGED <<now, bound, cpc, tick, fire, start, sent>>

\* A send to a socket without a worker fails and is only counted.
SendTo(c) ==
  /\ cpc = "send" /\ c \in todo
  /\ IF c \in bound
       THEN /\ Len(inbox[c]) < QueueMax
            /\ inbox' = [inbox EXCEPT ![c] = Append(@, [tick |-> tick, fire |-> fire])]
       ELSE UNCHANGED inbox
  /\ todo' = todo \ {c}
  /\ UNCHANGED <<now, bound, cpc, tick, fire, start, sent>>

\* The tick is over: timeline record, next id, next fire time.
Record ==
  /\ cpc = "send" /\ todo = {}
  /\ cpc' = "sleep"
  /\ sent' = [start |-> start, tick |-> tick, fire |-> fire]
  /\ tick' = tick + 1 /\ fire' = fire + Period
  /\ UNCHANGED <<sockets, todo, start>>

Announce == Sample \/ (\E c \in Camera : SendTo(c)) \/ Record

Coordinator == CoordinatorStarts \/ CoordinatorEnds \/ Announce

CoordinatorTypeOK ==
  /\ cpc \in {"off", "sleep", "send"}
  /\ tick \in Nat /\ fire \in Int /\ todo \subseteq Camera
  /\ start \in Nat
  /\ sent \in [start : Nat, tick : Nat, fire : Int]
=============================================================================
