----------------------------- MODULE JsonlFile -----------------------------
(***************************************************************************)
(* An append-only file of JSON lines, as the session log of the harness    *)
(* (agent/src/harness/v4/jsonl) and the journals of the adaptive runtime   *)
(* (adaptive-agent/src/runtime) keep it: a sequence of terminated lines    *)
(* and the text after the last LF, if any.  A line either parses to the    *)
(* record it was written for or does not parse at all.                     *)
(***************************************************************************)
EXTENDS Naturals, Sequences

CONSTANT Records    \* what one line may hold

\* ok is false for text that is not valid JSON; rec is then irrelevant.
Line == [ok : BOOLEAN, rec : Records]
Good(r) == [ok |-> TRUE, rec |-> r]
Bad(r)  == [ok |-> FALSE, rec |-> r]

\* The tail is empty, or one line without its LF.
Tails == {t \in Seq(Line) : Len(t) <= 1}
Files == [lines : Seq(Line), tail : Tails]
EmptyFile == [lines |-> << >>, tail |-> << >>]

\* appendFile of one line may be cut short by an error or a lost process.
Cuts == {"nothing", "torn", "no_lf", "all"}

\* Text appended to an unterminated tail becomes part of that tail's line,
\* and the two together never parse.
Joined(f, r) == IF f.tail = << >> THEN Good(r) ELSE Bad(r)

\* The file once as much of r's line as the cut allows has been written.
Written(f, r, cut) ==
    CASE cut = "nothing" -> f
      [] cut = "torn"    -> [f EXCEPT !.tail = <<Bad(r)>>]
      [] cut = "no_lf"   -> [f EXCEPT !.tail = <<Joined(f, r)>>]
      [] cut = "all"     -> [lines |-> Append(f.lines, Joined(f, r)), tail |-> << >>]

\* Every reader drops an unterminated last line that does not parse, and no other.
Text(f)   == f.lines \o (IF f.tail # << >> /\ f.tail[1].ok THEN f.tail ELSE << >>)
Parsed(f) == [i \in DOMAIN Text(f) |-> Text(f)[i].rec]
Parses(f) == \A i \in DOMAIN f.lines : f.lines[i].ok
=============================================================================
