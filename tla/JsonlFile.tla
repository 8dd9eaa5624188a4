------------------------------ MODULE JsonlFile ------------------------------
(***************************************************************************)
(* The arithmetic of tailing an append-only JSON-lines file, shared by the *)
(* services that talk through sync_ipc/*.jsonl.                            *)
(*                                                                         *)
(* A byte offset is abstracted to a number of parts.  Every line has three *)
(* parts: its opening text, the rest of its JSON object, and its newline.  *)
(* That is the coarsest cut that tells apart the three things a reader     *)
(* which stops inside a line can do with it: a fragment that misses either *)
(* end of the object does not parse, an object that only misses its        *)
(* newline does, and a lone newline is a blank line.                       *)
(***************************************************************************)
EXTENDS Integers, Sequences

Parts == 3

LineStart(i) == Parts * (i - 1)
LineEnd(i)   == Parts * i

\* The line that holds the part at offset p (offsets start at 0).
LineAt(p) == (p \div Parts) + 1

(***************************************************************************)
(* JsonlTailer.read_new: where the reading starts, where fp.tell() ends    *)
(* after at most maxLines readline() calls, and the lines json.loads can   *)
(* turn into an object: those read from their first part to the end of the *)
(* object at least.                                                        *)
(***************************************************************************)
\* Mutants: the truncation test also fires when nothing was appended; it is
\* missing.
ReadFrom_Reread(started, readExisting, off, size) ==
  LET o == IF started THEN off ELSE IF readExisting THEN 0 ELSE size
  IN  IF size <= o THEN 0 ELSE o

ReadFrom_NoReset(started, readExisting, off, size) ==
  IF started THEN off ELSE IF readExisting THEN 0 ELSE size

ReadFrom(started, readExisting, off, size) ==
  LET o == IF started THEN off ELSE IF readExisting THEN 0 ELSE size
  IN  IF size < o THEN 0 ELSE o

ReadTo(from, size, maxLines) ==
  LET limit == LineEnd(LineAt(from) + maxLines - 1)
  IN  IF size < from THEN from
      ELSE IF limit < size THEN limit ELSE size

\* Mutant: the line after the last one counts as read.
WholeLines_PastEnd(lines, from, to) ==
  {i \in 1..(Len(lines) + 1) : from <= LineStart(i) /\ LineStart(i) <= to}

WholeLines(lines, from, to) ==
  {i \in DOMAIN lines : from <= LineStart(i) /\ LineEnd(i) - 1 <= to}
=============================================================================
