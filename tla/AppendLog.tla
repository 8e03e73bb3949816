------------------------------ MODULE AppendLog ------------------------------
(***************************************************************************)
(* What a log file writer promises the threads that log through it: the   *)
(* file is an append-only log.  Every accepted line is placed after every  *)
(* line accepted before it, once, and every placed line is eventually on  *)
(* disk.  Placing and storing are separate steps because the writer       *)
(* decides where a line goes before the file system has stored it, and    *)
(* stores complete in any order.  A line is abstracted to its length.     *)
(* The log can be closed: from then on nothing is accepted or placed, and *)
(* lines accepted but not yet placed are never written; what was placed  *)
(* is still stored.                                                        *)
(***************************************************************************)
EXTENDS Naturals, Sequences, SequencesExt

CONSTANTS
  MaxLines,  \* bound on the lines accepted
  Lengths    \* the lengths a line can have

VARIABLES
  lines,   \* the accepted lines, in the order they were accepted
  placed,  \* the lines given their place in the file, in file order
  stored,  \* the lines the file system has stored
  open     \* the log has not been closed

avars == <<lines, placed, stored, open>>

Init == lines = << >> /\ placed = << >> /\ stored = {} /\ open = TRUE

\* A thread's line is accepted.
Accept(len) ==
  /\ open /\ Len(lines) < MaxLines
  /\ lines' = Append(lines, len)
  /\ UNCHANGED <<placed, stored, open>>

\* The oldest line without a place is placed at the end of the file.
Place ==
  /\ open /\ Len(placed) < Len(lines)
  /\ placed' = Append(placed, Len(placed) + 1)
  /\ UNCHANGED <<lines, stored, open>>

\* The file system stores a placed line.
Store(k) ==
  /\ k \in ToSet(placed) \ stored
  /\ stored' = stored \cup {k}
  /\ UNCHANGED <<lines, placed, open>>

\* The log is closed.
Close ==
  /\ open
  /\ open' = FALSE
  /\ UNCHANGED <<lines, placed, stored>>

Next ==
  \/ \E len \in Lengths : Accept(len)
  \/ Place
  \/ \E k \in 1 .. MaxLines : Store(k)
  \/ Close

\* While the log is open nothing accepted is left without a place, and
\* nothing placed is left unstored.
Spec ==
  /\ Init /\ [][Next]_avars
  /\ WF_avars(Place)
  /\ \A k \in 1 .. MaxLines : WF_avars(Store(k))
=============================================================================
