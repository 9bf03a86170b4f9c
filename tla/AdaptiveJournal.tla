-------------------------- MODULE AdaptiveJournal --------------------------
(***************************************************************************)
(* The four JSONL journals of the adaptive runtime (adaptive-agent/src/    *)
(* runtime): the task journal, the continuation journal, the promotion     *)
(* journal and the workspace manifest.  They share the file format and the *)
(* rules of reading it and differ in what an append does first.            *)
(*                                                                         *)
(* An instance serves its calls one at a time, in order, and is the only   *)
(* writer, so a call is one action.  Calls are queued because close and    *)
(* further appends may arrive while one is being served.                   *)
(*                                                                         *)
(* Definitions whose comment begins with "Mutant:" are not part of the     *)
(* model: each is the definition after it with one plausible bug.          *)
(***************************************************************************)
EXTENDS Naturals, Sequences, FiniteSets, SequencesExt

CONSTANTS
    Keys, Bodies,   \* an event's identity, and what else it says
    MaxCalls,       \* appends issued (bound)
    MaxLosses       \* appends cut short, by an error or by a lost process (bound)

ASSUME JournalAssumption == MaxCalls \in Nat /\ MaxLosses \in Nat

JournalKinds == {"task", "continuation", "promotion", "manifest"}
Numbered == {"promotion", "manifest"}       \* records carry a seq

Records == [key : Keys, body : Bodies, seq : Nat]

INSTANCE JsonlFile

VARIABLES
    kind,     \* which of the four
    file,     \* the journal file
    calls,    \* calls of the live instance not yet served, in order
    closed,   \* the instance's closed flag
    nextSeq,  \* the manifest's cached counter, 0 until it is loaded
    issued,   \* appends issued so far
    losses    \* appends cut short so far

vars == <<kind, file, calls, closed, nextSeq, issued, losses>>

Calls == {[op |-> "close"]} \cup [op : {"append"}, key : Keys, body : Bodies]

Recorded == {Parsed(file)[i] : i \in DOMAIN Parsed(file)}
MaxSeq == Max({0} \cup {r.seq : r \in Recorded})

-----------------------------------------------------------------------------
\* append checks the flag when it is called ...
CallAppend(key, body) ==
    /\ ~closed /\ issued < MaxCalls
    /\ calls' = Append(calls, [op |-> "append", key |-> key, body |-> body])
    /\ issued' = issued + 1
    /\ UNCHANGED <<kind, file, closed, nextSeq, losses>>

\* ... and close sets it only after the calls ahead of it.  A second close adds
\* nothing, and a promotion journal has none.
CallClose ==
    /\ ~closed /\ kind # "promotion"
    /\ \A n \in DOMAIN calls : calls[n].op # "close"
    /\ calls' = Append(calls, [op |-> "close"])
    /\ UNCHANGED <<kind, file, closed, nextSeq, issued, losses>>

Serving(op) == calls # << >> /\ Head(calls).op = op
Served == calls' = Tail(calls)

ServeClose ==
    /\ Serving("close") /\ Served
    /\ closed' = TRUE
    /\ UNCHANGED <<kind, file, nextSeq, issued, losses>>

\* A call the flag overtook: task and continuation journals resolve it as done.
Skipped == closed /\ kind \in {"task", "continuation"}

\* Which appends read the file before they write.
Reads == kind \in {"continuation", "promotion"} \/ (kind = "manifest" /\ nextSeq = 0)

\* Mutant: an event is only compared with the one before it.
SameKeyAsLast(c) == {Parsed(file)[i] : i \in {n \in DOMAIN Parsed(file) :
                        n = Len(Text(file)) /\ Parsed(file)[n].key = c.key}}

SameKey(c) == {r \in Recorded : r.key = c.key}

\* Mutant: the counter is not restored from the file.
NextNumberFresh == IF kind = "manifest" /\ nextSeq = 0 THEN 1 ELSE
                   IF kind = "manifest" THEN nextSeq ELSE MaxSeq + 1

\* A promotion record is numbered after the file, a manifest record after the
\* counter, which the first append of an instance takes from the file.
NextNumber == IF kind \notin Numbered THEN 0
              ELSE IF kind = "manifest" /\ nextSeq # 0 THEN nextSeq ELSE MaxSeq + 1

ToWrite(c) == [key |-> c.key, body |-> c.body, seq |-> NextNumber]

\* Mutant: every journal caches the counter.
CountedAlways == nextSeq' = NextNumber + 1

\* The manifest counts before it writes, also when the write then fails.
Counted == nextSeq' = IF kind = "manifest" THEN NextNumber + 1 ELSE nextSeq

\* Whether a call that is not skipped gets as far as its write: an unreadable
\* journal rejects it, and the continuation journal answers an event whose key it
\* has recorded, as done when the content is the same and with a fault otherwise.
Writable(c) ==
    /\ ~Skipped /\ (Reads => Parses(file))
    /\ kind = "continuation" => SameKey(c) = {}

Answer ==
    /\ Serving("append") /\ Served
    /\ ~Writable(Head(calls))
    /\ UNCHANGED <<kind, file, closed, nextSeq, issued, losses>>

Write ==
    /\ Serving("append") /\ Served
    /\ Writable(Head(calls))
    /\ file' = Written(file, ToWrite(Head(calls)), "all")
    /\ Counted
    /\ UNCHANGED <<kind, closed, issued, losses>>

\* The append fails part way; the instance goes on with its next call.
WriteFails ==
    /\ Serving("append") /\ Served
    /\ losses < MaxLosses /\ losses' = losses + 1
    /\ Writable(Head(calls))
    /\ \E cut \in Cuts : file' = Written(file, ToWrite(Head(calls)), cut)
    /\ Counted
    /\ UNCHANGED <<kind, closed, issued>>

\* The process is lost, possibly in an append, and a new instance is opened.
Crash ==
    /\ losses < MaxLosses /\ losses' = losses + 1
    /\ \/ UNCHANGED file
       \/ /\ Serving("append") /\ Writable(Head(calls))
          /\ \E cut \in Cuts : file' = Written(file, ToWrite(Head(calls)), cut)
    /\ calls' = << >> /\ closed' = FALSE /\ nextSeq' = 0
    /\ UNCHANGED <<kind, issued>>

\* A journal that was closed is opened again.
Reopen ==
    /\ closed /\ calls = << >>
    /\ closed' = FALSE /\ nextSeq' = 0
    /\ UNCHANGED <<kind, file, calls, issued, losses>>

Init ==
    /\ kind \in JournalKinds
    /\ file = EmptyFile /\ calls = << >> /\ closed = FALSE /\ nextSeq = 0
    /\ issued = 0 /\ losses = 0

Next ==
    \/ \E key \in Keys, body \in Bodies : CallAppend(key, body)
    \/ CallClose \/ ServeClose \/ Answer \/ Write \/ WriteFails \/ Crash \/ Reopen

Spec == Init /\ [][Next]_vars

-----------------------------------------------------------------------------
(***************************************************************************)
(* What is checked                                                         *)
(***************************************************************************)
\* File, queue and counter have the shape the four stores give them; only the
\* manifest keeps a counter.
TypeOK ==
    /\ kind \in JournalKinds /\ file \in Files /\ calls \in Seq(Calls)
    /\ closed \in BOOLEAN /\ issued \in 0..MaxCalls /\ losses \in 0..MaxLosses
    /\ nextSeq \in Nat /\ (kind # "manifest" => nextSeq = 0)

Legible == {i \in DOMAIN Text(file) : Text(file)[i].ok}

\* "repeating the same event is a no-op": retries after a failed append, a lost
\* process or a reopen never record an event of the continuation journal twice.
KeysAreUnique ==
    kind = "continuation" =>
        \A i, j \in Legible : Parsed(file)[i].key = Parsed(file)[j].key => i = j

\* Recovery takes the highest seq as the latest record: numbers increase along
\* the file whatever appends failed and however often it was reopened.
SequenceNumbersIncrease ==
    kind \in Numbered =>
        \A i, j \in Legible : i < j => Parsed(file)[i].seq < Parsed(file)[j].seq

\* Once close has returned the file belongs to the next instance.
ClosedJournalIsSilent ==
    [][closed /\ kind \in {"task", "continuation"} => file' = file]_vars

-----------------------------------------------------------------------------
(***************************************************************************)
(* What the comments say and the code does not do                          *)
(***************************************************************************)
\* task-journal.ts, continuation-journal.ts, runtime-manifest.ts: a torn tail is
\* recovered, so a journal only this code wrote can always be read.
TornTailIsRecovered == Parses(file)
=============================================================================
