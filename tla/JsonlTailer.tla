----------------------------- MODULE JsonlTailer -----------------------------
(***************************************************************************)
(* One JSON-lines file, the process that appends to it, and one            *)
(* JsonlTailer that polls it (game_event_bridge_service.py; the damage     *)
(* attribution and bullet fusion services carry the same class).           *)
(*                                                                         *)
(* The writer's write() of a line becomes visible to the reader in one or  *)
(* several pieces.  The file may be emptied or replaced between runs of a  *)
(* service, and the reader's process may restart.                          *)
(***************************************************************************)
EXTENDS JsonlFile

CONSTANTS
  MaxLines,      \* max_lines of a read_new call
  ReadExisting,  \* --read-existing
  LineBound,     \* bound: lines of one generation of the file
  GenBound,      \* bound: times the file is replaced
  RestartBound   \* bound: times the reader restarts

ASSUME TailerAssumption ==
  /\ MaxLines \in Nat \ {0}
  /\ ReadExisting \in BOOLEAN
  /\ {LineBound, GenBound, RestartBound} \subseteq Nat

LineKind == {"object", "junk"}

VARIABLES
  exists,    \* the file is there
  lines,     \* the kinds of the lines written, the last one perhaps in part
  size,      \* parts of the file the reader can see (st_size)
  gen,       \* how often the file was replaced
  pc,        \* the reader: "idle", or "open" between stat() and reading
  started,   \* self._initialized
  off,       \* self.offset
  epoch,     \* incarnation of the reader
  \* history of the present incarnation's reads of the present file:
  got,       \* the lines returned, in order
  first,     \* where the first of these reads began
  stops      \* the offsets at which they ended

file   == <<exists, lines, size, gen>>
reader == <<pc, started, off, epoch>>
hist   == <<got, first, stops>>
vars   == <<file, reader, hist>>

Init ==
  /\ exists \in BOOLEAN /\ lines = <<>> /\ size = 0 /\ gen = 0
  /\ pc = "idle" /\ started = FALSE /\ off = 0 /\ epoch = 0
  /\ got = <<>> /\ first = 0 /\ stops = {}

-----------------------------------------------------------------------------
(* The writer.                                                             *)

\* The events file is opened for appending when its service starts.
Create ==
  /\ ~exists
  /\ exists' = TRUE
  /\ UNCHANGED <<lines, size, gen, reader, hist>>

\* A line is written; some of it is visible at once.
WriteLine(k) ==
  /\ exists /\ Len(lines) < LineBound /\ size = LineEnd(Len(lines))
  /\ lines' = Append(lines, k)
  /\ \E n \in 1..Parts : size' = size + n
  /\ UNCHANGED <<exists, gen, reader, hist>>

\* More of the line being written becomes visible.
Flush ==
  /\ size < LineEnd(Len(lines))
  /\ \E n \in (size + 1)..LineEnd(Len(lines)) : size' = n
  /\ UNCHANGED <<exists, lines, gen, reader, hist>>

\* The file is emptied, or replaced by a new one.
Replace ==
  /\ exists /\ gen < GenBound /\ size = LineEnd(Len(lines))
  /\ gen' = gen + 1 /\ lines' = <<>> /\ size' = 0
  /\ got' = <<>> /\ first' = 0 /\ stops' = {}
  /\ UNCHANGED <<exists, reader>>

-----------------------------------------------------------------------------
(* JsonlTailer.read_new in two steps: stat() and what is decided from it,  *)
(* then the reading itself, which may see a file that has changed since.   *)

\* Mutant: the reading starts one part early, at the newline read last.
Stat_OneEarly ==
  /\ pc = "idle" /\ exists
  /\ off' = ReadFrom(started, ReadExisting, off, size) - 1
  /\ started' = TRUE
  /\ pc' = "open"
  /\ UNCHANGED <<file, epoch, hist>>

Stat ==
  /\ pc = "idle" /\ exists
  /\ off' = ReadFrom(started, ReadExisting, off, size)
  /\ started' = TRUE
  /\ pc' = "open"
  /\ UNCHANGED <<file, epoch, hist>>

\* The lines S in ascending order.
InOrder(S) ==
  {s \in UNION {[1..n -> S] : n \in 0..Len(lines)} :
     /\ \A i \in S : \E a \in DOMAIN s : s[a] = i
     /\ \A a, b \in DOMAIN s : a < b => s[a] < s[b]}

\* Mutant: the end of the file is remembered although max_lines cut the poll.
Read_ToEnd ==
  /\ pc = "open"
  /\ LET to  == ReadTo(off, size, MaxLines)
         new == {i \in WholeLines(lines, off, to) : lines[i] = "object"}
     IN  /\ off' = IF size < off THEN off ELSE size
         /\ first' = IF stops = {} THEN off ELSE first
         /\ stops' = stops \cup {to}
         /\ \E read \in InOrder(new) : got' = got \o read
  /\ pc' = "idle"
  /\ UNCHANGED <<file, started, epoch>>

Read ==
  /\ pc = "open"
  /\ LET to  == ReadTo(off, size, MaxLines)
         new == {i \in WholeLines(lines, off, to) : lines[i] = "object"}
     IN  /\ off' = to
         /\ first' = IF stops = {} THEN off ELSE first
         /\ stops' = stops \cup {to}
         /\ \E read \in InOrder(new) : got' = got \o read
  /\ pc' = "idle"
  /\ UNCHANGED <<file, started, epoch>>

\* The reader's process restarts with a new JsonlTailer.
Restart ==
  /\ epoch < RestartBound
  /\ epoch' = epoch + 1
  /\ pc' = "idle" /\ started' = FALSE /\ off' = 0
  /\ got' = <<>> /\ first' = 0 /\ stops' = {}
  /\ UNCHANGED file

Writer == Create \/ (\E k \in LineKind : WriteLine(k)) \/ Flush \/ Replace
Next   == Writer \/ Stat \/ Read \/ Restart
Spec   == Init /\ [][Next]_vars

\* The write() of a line completes and the service keeps polling.
Fairness == WF_vars(Flush) /\ WF_vars(Stat) /\ WF_vars(Read)
FairSpec == Spec /\ Fairness

-----------------------------------------------------------------------------
TypeOK ==
  /\ exists \in BOOLEAN /\ started \in BOOLEAN /\ pc \in {"idle", "open"}
  /\ lines \in Seq(LineKind) /\ size \in 0..LineEnd(Len(lines))
  /\ gen \in 0..GenBound /\ epoch \in 0..RestartBound
  /\ {off, first} \subseteq Nat /\ stops \subseteq Nat
  /\ got \in Seq(1..LineBound)

\* One incarnation returns the lines of one file in file order, so never the
\* same line twice, whatever happened to the file between two polls (the
\* truncation test and the offset of read_new, lines 84-102).
InFileOrder ==
  \A a, b \in DOMAIN got : a < b => got[a] < got[b]

\* The only lines a reader passes over are those it caught half written: an
\* object it has read past was returned, or one of its reads of this file
\* ended between the opening of that line and the end of its object.
OnlyTornLinesLost ==
  \A i \in DOMAIN lines :
     (lines[i] = "object" /\ stops # {} /\ first <= LineStart(i) /\ LineEnd(i) <= off)
       => \/ \E n \in DOMAIN got : got[n] = i
          \/ \E s \in stops : LineStart(i) < s /\ s < LineEnd(i) - 1

\* However the file was emptied or replaced in between, a reader that keeps
\* polling ends at the end of the file.
CatchesUp == <>[](exists => off = size)
=============================================================================
