----------------------------- MODULE SessionLog -----------------------------
(***************************************************************************)
(* The durable log of one session: create, fork, open and delete of its    *)
(* repository (JsonlSessionRepo), the storage that rebuilds itself from    *)
(* the file (JsonlStorage), and the session handle that queues commits     *)
(* over it (StorageSession).  The file outlives every handle; handles      *)
(* fail, close and are lost with the process, and another one is then      *)
(* opened on whatever the last append left behind.                         *)
(*                                                                         *)
(* The header and the initial lane record are written with the file in one *)
(* atomic publication; the log starts after them.  A transaction is one    *)
(* record of one write, so its firstSeq is its position.  A fork creates   *)
(* its session with one more record, and opens and closes its source like  *)
(* any other handle.                                                       *)
(*                                                                         *)
(* Definitions whose comment begins with "Mutant:" are not part of the     *)
(* model: each is the definition after it with one plausible bug.          *)
(***************************************************************************)
EXTENDS Naturals, Sequences, FiniteSets, SequencesExt

CONSTANTS
    Handles,          \* session handles ever opened (bound)
    MaxTx,            \* transactions submitted (bound)
    OverlappingCalls  \* callers may open, create or delete a session while such a call is under way

ASSUME LogAssumption == MaxTx \in Nat /\ OverlappingCalls \in BOOLEAN

Txs == 1..MaxTx
Records == [firstSeq : Nat, tx : Txs]
Record(n, tx) == [firstSeq |-> n, tx |-> tx]

INSTANCE JsonlFile

VARIABLES
    file,       \* the session file behind its header and initial record
    header,     \* "none" if there is no file, "missing" if it begins with something else
    writers,    \* JsonlSessionRepo.writers: the handle registered, if any
    deleting,   \* a delete has passed its check and not yet removed the file
    h,          \* the handles
    submitted,  \* transactions handed to commit so far; ids are 1..submitted
    acked       \* transactions of the file whose commit resolved, in order (history)

repoVars == <<file, header, writers, deleting>>
vars == <<repoVars, h, submitted, acked>>

\* st of a handle: creating and opening are split at their file operations; a
\* sealed handle is closing and finishes its queue first.
Stages == {"new", "creating", "loading", "repairing", "open", "sealed", "closed"}
Opening(x) == h[x].st \in {"creating", "loading", "repairing"}

\* creates: the handle is the result of create or fork.
NewHandle ==
    [st |-> "new", creates |-> FALSE, faulted |-> FALSE, content |-> EmptyFile,
     state |-> << >>, queue |-> << >>, busy |-> 0]

\* rebuild: positions must be continuous, and only an unterminated last line
\* may be one that does not parse.
Continuous(f) == \A i \in DOMAIN Parsed(f) : Parsed(f)[i].firstSeq = i
Loadable(f)   == Parses(f) /\ Continuous(f)
Recovered(f)  == [i \in DOMAIN Parsed(f) |-> Parsed(f)[i].tx]

-----------------------------------------------------------------------------
(***************************************************************************)
(* Opening, creating and deleting                                          *)
(***************************************************************************)
\* A load fails without a file and without its header.
Readable == header = "ok" /\ Loadable(file)

\* openStorage: refused while the repo has a writer of this session.
Claimable == writers = {}

\* Callers wait for their own open, create and delete of a session.
Permitted == OverlappingCalls \/ (~deleting /\ \A y \in Handles : ~Opening(y))

Open(x) ==
    /\ h[x].st = "new" /\ Claimable /\ Permitted
    /\ h' = [h EXCEPT ![x].st = "loading"]
    /\ UNCHANGED <<repoVars, submitted, acked>>

\* publishLine: creations of one session follow each other, load included.
LineFree == \A y \in Handles : ~(Opening(y) /\ h[y].creates)

\* createNow and fork refuse a session that has a writer or a file.
Create(x) ==
    /\ h[x].st = "new" /\ Claimable /\ header = "none" /\ LineFree /\ Permitted
    /\ h' = [h EXCEPT ![x].st = "creating", ![x].creates = TRUE]
    /\ UNCHANGED <<repoVars, submitted, acked>>

\* The complete file appears by a rename, with a fork's entries in one record,
\* and openNow asks for a writer again; or the publication fails.
Publish(x) ==
    /\ h[x].st = "creating"
    /\ \/ /\ header' = "ok"
          /\ \/ file' = EmptyFile /\ UNCHANGED submitted
             \/ /\ submitted < MaxTx /\ submitted' = submitted + 1
                /\ file' = [lines |-> <<Good(Record(1, submitted'))>>, tail |-> << >>]
          /\ h' = [h EXCEPT ![x].st = IF Claimable THEN "loading" ELSE "closed"]
       \/ h' = [h EXCEPT ![x].st = "closed"] /\ UNCHANGED <<file, header, submitted>>
    /\ UNCHANGED <<writers, deleting, acked>>

Deletable == writers = {}

Delete ==
    /\ Deletable /\ ~deleting /\ Permitted
    /\ deleting' = TRUE
    /\ UNCHANGED <<file, header, writers, h, submitted, acked>>

\* The file is removed, or it is not and delete fails.
DeleteEnds ==
    /\ deleting /\ deleting' = FALSE
    /\ \/ file' = EmptyFile /\ header' = "none" /\ acked' = << >>
       \/ UNCHANGED <<file, header, acked>>
    /\ UNCHANGED <<writers, h, submitted>>

\* The registration that ends a successful open.
Registered(x, content) ==
    /\ h' = [h EXCEPT ![x].st = "open", ![x].state = Recovered(content)]
    /\ writers' = {x}

Refused(x) == h' = [h EXCEPT ![x].st = "closed"] /\ UNCHANGED writers

\* load reads the whole file and rebuilds from it.
Load(x) ==
    /\ h[x].st = "loading"
    /\ \/ ~Readable /\ Refused(x)
       \/ Readable /\ file.tail = << >> /\ Registered(x, file)
       \/ /\ Readable /\ file.tail # << >>
          /\ h' = [h EXCEPT ![x].st = "repairing", ![x].content = file]
          /\ UNCHANGED writers
    /\ UNCHANGED <<file, header, deleting, submitted, acked>>

\* appendFile makes the file if there is none.
Touched == IF header = "none" THEN "missing" ELSE header

\* Mutant: the published prefix stops one line early.
RepairedShort(now, read) ==
    IF read.tail[1].ok
    THEN [lines |-> Append(now.lines, read.tail[1]), tail |-> << >>]
    ELSE [lines |-> SubSeq(read.lines, 1, Len(read.lines) - 1), tail |-> << >>]

\* A record that lacks only its LF gets it; a torn one is dropped by renaming
\* a file of the legal prefix over the log.
Repaired(now, read) ==
    IF read.tail[1].ok
    THEN [lines |-> now.lines \o now.tail, tail |-> << >>]
    ELSE [lines |-> read.lines, tail |-> << >>]

\* Repair either completes or leaves the file as it was and the open fails.
Repair(x) ==
    /\ h[x].st = "repairing"
    /\ \/ /\ file' = Repaired(file, h[x].content) /\ Registered(x, h[x].content)
          /\ header' = IF h[x].content.tail[1].ok THEN Touched ELSE "ok"
       \/ Refused(x) /\ UNCHANGED <<file, header>>
    /\ UNCHANGED <<deleting, submitted, acked>>

-----------------------------------------------------------------------------
(***************************************************************************)
(* Commits                                                                 *)
(***************************************************************************)
\* StorageSession.mutate: queued behind the handle's earlier commits.
Commit(x) ==
    /\ h[x].st = "open" /\ submitted < MaxTx
    /\ submitted' = submitted + 1
    /\ h' = [h EXCEPT ![x].queue = Append(@, submitted + 1)]
    /\ UNCHANGED <<repoVars, acked>>

\* assertUsable, evaluated when the queue reaches the commit.
Usable(x) == ~h[x].faulted

\* The next commit starts its append, or is rejected.
Begin(x) ==
    /\ h[x].st \in {"open", "sealed"} /\ h[x].busy = 0 /\ h[x].queue # << >>
    /\ h' = [h EXCEPT ![x].queue = Tail(@),
                      ![x].busy = IF Usable(x) THEN Head(h[x].queue) ELSE 0]
    /\ UNCHANGED <<repoVars, submitted, acked>>

\* The record is built on the handle's own state.
NextRecord(x) == Record(Len(h[x].state) + 1, h[x].busy)

AppendOk(x) ==
    /\ h[x].busy # 0
    /\ file' = Written(file, NextRecord(x), "all") /\ header' = Touched
    /\ h' = [h EXCEPT ![x].state = Append(@, h[x].busy), ![x].busy = 0]
    /\ acked' = Append(acked, h[x].busy)
    /\ UNCHANGED <<writers, deleting, submitted>>

\* What an append that does not end well leaves behind.
Reached(x, cut) ==
    /\ file' = Written(file, NextRecord(x), cut)
    /\ header' \in IF cut = "nothing" THEN {header, Touched} ELSE {Touched}

\* The draft is dropped and the handle faults, whatever reached the file.
AppendFails(x) ==
    /\ h[x].busy # 0
    /\ \E cut \in Cuts : Reached(x, cut)
    /\ h' = [h EXCEPT ![x].faulted = TRUE, ![x].busy = 0]
    /\ UNCHANGED <<writers, deleting, submitted, acked>>

\* close seals the session at once and releases the writer when the queue is empty.
Close(x) ==
    /\ h[x].st = "open"
    /\ h' = [h EXCEPT ![x].st = "sealed"]
    /\ UNCHANGED <<repoVars, submitted, acked>>

\* Mutant: the writer is released while an append is still under way.
ReleasableAtOnce(x) == h[x].st = "sealed"

\* Mutant: a faulted handle waits for commits that will never be made.
ReleasableUnlessFaulted(x) ==
    h[x].st = "sealed" /\ h[x].queue = << >> /\ h[x].busy = 0 /\ ~h[x].faulted

Releasable(x) == h[x].st = "sealed" /\ h[x].queue = << >> /\ h[x].busy = 0

Release(x) ==
    /\ Releasable(x)
    /\ h' = [h EXCEPT ![x].st = "closed"]
    /\ writers' = writers \ {x}
    /\ UNCHANGED <<file, header, deleting, submitted, acked>>

\* The process is lost: an append under way leaves some prefix of its line.
Crash ==
    /\ deleting \/ \E x \in Handles : h[x].st \notin {"new", "closed"}
    /\ \/ UNCHANGED <<file, header>>
       \/ \E x \in Handles, cut \in Cuts : h[x].busy # 0 /\ Reached(x, cut)
    /\ writers' = {} /\ deleting' = FALSE
    /\ h' = [x \in Handles |->
                IF h[x].st = "new" THEN h[x]
                ELSE [h[x] EXCEPT !.st = "closed", !.queue = << >>, !.busy = 0]]
    /\ UNCHANGED <<submitted, acked>>

-----------------------------------------------------------------------------
Init ==
    /\ file = EmptyFile /\ header \in {"none", "ok"} /\ writers = {} /\ deleting = FALSE
    /\ h = [x \in Handles |-> NewHandle]
    /\ submitted = 0 /\ acked = << >>

HandleStep(x) ==
    \/ Publish(x) \/ Load(x) \/ Repair(x)
    \/ Begin(x) \/ AppendOk(x) \/ AppendFails(x) \/ Release(x)

Next ==
    \/ \E x \in Handles : Open(x) \/ Create(x) \/ Commit(x) \/ Close(x) \/ HandleStep(x)
    \/ Delete \/ DeleteEnds \/ Crash

Spec == Init /\ [][Next]_vars
\* Promises settle: a pending file operation ends one way or another.
FairSpec == Spec /\ WF_vars(DeleteEnds) /\ \A x \in Handles : WF_vars(HandleStep(x))

-----------------------------------------------------------------------------
(***************************************************************************)
(* What is checked                                                         *)
(***************************************************************************)
HandleState ==
    [st : Stages, creates : BOOLEAN, faulted : BOOLEAN, content : Files, state : Seq(Txs),
     queue : Seq(Txs), busy : 0..MaxTx]

\* The file, the handles and the history have the shape the storage gives them,
\* and only a handle that holds the session has an append under way.
TypeOK ==
    /\ file \in Files /\ header \in {"none", "ok", "missing"}
    /\ writers \subseteq Handles /\ deleting \in BOOLEAN
    /\ h \in [Handles -> HandleState]
    /\ \A x \in Handles : h[x].busy # 0 => h[x].st \in {"open", "sealed"}
    /\ submitted \in 0..MaxTx /\ acked \in Seq(Txs)

Holding == {x \in Handles : h[x].st \in {"open", "sealed"}}

\* "one per-session writer": no two handles can commit to one session.
OneWriter == Cardinality(Holding) <= 1

\* Whatever was torn, repaired, failed, lost or deleted, the next open finds a
\* legal log or no file: no append ever follows text that does not end a line,
\* and none makes a file of its own.
SessionIsLoadable == header = "none" \/ Readable

\* The file of a handle in use is there, and a handle that may still commit
\* knows exactly what it holds, so that the position it gives its next record
\* is the one a later load expects.
WriterKnowsTheLog ==
    \A x \in Holding :
        /\ header = "ok"
        /\ ~h[x].faulted => h[x].state = Recovered(file) /\ file.tail = << >>

\* The log seen through a load: a commit that resolved is in it and stays
\* there, in order, until the session is deleted, which nobody's writer sees;
\* one that did not resolve is there entirely or not at all.
Durable == INSTANCE DurableLog WITH
    exists <- header # "none",
    held <- Holding # {},
    log <- IF Readable THEN Recovered(file) ELSE << >>
ImplementsDurableLog == Durable!DSpec

\* Closing a session gives it back to the next open, also after a fault.
CloseReleases == \A x \in Handles : h[x].st = "sealed" ~> h[x].st = "closed"
=============================================================================
