------------------------- MODULE ContinuationGroup -------------------------
(***************************************************************************)
(* BranchContinuation.forkExact: one accepted, undispatched run per        *)
(* variant of an exact branch, forked from a frozen source lane.  What it  *)
(* does is spread over four durable authorities that share no transaction: *)
(* the continuation journal, the source session (the freeze marker), the   *)
(* child sessions with their runs, and the leases of the workspace         *)
(* manifest.  Every effect is a step; between two of them an operation may *)
(* fail or the process may be lost, and the call is then made again.       *)
(*                                                                         *)
(* Definitions whose comment begins with "Mutant:" are not part of the     *)
(* model: each is the definition after it with one plausible bug.          *)
(***************************************************************************)
EXTENDS Failures, FiniteSets

CONSTANT ChildCount   \* variants, forked in order as children 1, 2, ...

ASSUME GroupAssumption == ChildCount \in Nat \ {0}

Children == 1..ChildCount

VARIABLES
    group,         \* group events of the continuation journal
    child,         \* events of each child
    frozen,        \* the freeze marker of the source lane
    session,       \* children whose session exists
    lease,         \* lease of each child in the manifest
    snapReleased,  \* the group's snapshot is released
    runs,          \* continuation runs accepted in each child session
    fork           \* the forkExact call that is running

continuation == <<group, child, frozen, session, lease, snapReleased, runs, fork>>

GroupEvents == {"planned", "ready", "failed", "terminal", "released"}
ChildEvents == {"session_forked", "workspace_ready", "run_accepted", "ready", "failed"}

LeaseStatuses == {"none", "creating", "ready", "releasing", "orphaned", "released"}

ForkStages == {"idle", "freeze", "session", "recordSession", "lease", "materialize",
           "recordLease", "admit", "recordRun", "recordReady", "groupReady",
           "undo", "childFailed", "groupFailed", "unfreeze"}

\* held are the children whose lease this call has.
NoFork == [at |-> "idle", k |-> 1, held |-> {}, result |-> "none"]

ForkAt(stage) == fork.at = stage
ForkTo(stage) == fork' = [fork EXCEPT !.at = stage]
ForkReturns(result) == fork' = [NoFork EXCEPT !.result = result]
Recorded(event) == event \in child[fork.k]
RecordChild(event) == child' = [child EXCEPT ![fork.k] = @ \cup {event}]

-----------------------------------------------------------------------------
(***************************************************************************)
(* Leases and the snapshot they share                                      *)
(***************************************************************************)
\* markLease: a record of the manifest.
MarkLease(k, status) == lease' = [lease EXCEPT ![k] = status]

\* releaseSnapshotIfUnreferenced: the snapshot goes when no lease of it is left.
Unreferenced == \A k \in Children : lease[k] \in {"none", "released"}
ReleaseUnreferenced == snapReleased' = (snapReleased \/ Unreferenced)

Drop(k) == fork' = [fork EXCEPT !.held = @ \ {k}]

\* release of a lease this call holds, step by step: it is marked "releasing", its
\* directory is removed and it is marked "released", and the snapshot may go.  A
\* directory that cannot be removed leaves it "orphaned".  A step that fails ends the
\* release, and the error is swallowed.  The removal is a part of the mark after it:
\* nothing looks for the directory between the two.
ReleaseHeld(k) ==
    \/ /\ lease[k] = "ready" /\ MarkLease(k, "releasing")
       /\ UNCHANGED <<snapReleased, fork, failures>>
    \/ /\ lease[k] = "releasing" /\ MarkLease(k, "released")
       /\ UNCHANGED <<snapReleased, fork, failures>>
    \/ /\ lease[k] = "releasing" /\ Fault /\ MarkLease(k, "orphaned") /\ Drop(k)
       /\ UNCHANGED snapReleased
    \/ /\ lease[k] = "released" /\ ReleaseUnreferenced /\ Drop(k)
       /\ UNCHANGED <<lease, failures>>
    \/ /\ Fault /\ Drop(k)
       /\ UNCHANGED <<lease, snapReleased>>

-----------------------------------------------------------------------------
(***************************************************************************)
(* forkExact                                                               *)
(***************************************************************************)
ForkExact ==
    /\ fork = NoFork
    /\ group' = group \cup {"planned"}
    /\ ForkTo("freeze")
    /\ UNCHANGED <<child, frozen, session, lease, snapReleased, runs, failures>>

\* The source is frozen before the journal is read: also for a group that failed.
Freeze ==
    /\ ForkAt("freeze")
    /\ frozen' = TRUE
    /\ IF "failed" \in group THEN ForkReturns("rejected") ELSE ForkTo("session")
    /\ UNCHANGED <<group, child, session, lease, snapReleased, runs, failures>>

\* forkChildSession: a recorded session is opened, an unrecorded one with the
\* deterministic id is taken over, otherwise the source is forked.
ForkSession ==
    /\ ForkAt("session")
    /\ session' = session \cup {fork.k}
    /\ ForkTo(IF Recorded("session_forked") THEN "lease" ELSE "recordSession")
    /\ UNCHANGED <<group, child, frozen, lease, snapReleased, runs, failures>>

RecordSession ==
    /\ ForkAt("recordSession")
    /\ RecordChild("session_forked") /\ ForkTo("lease")
    /\ UNCHANGED <<group, frozen, session, lease, snapReleased, runs, failures>>

Hold(stage) == fork' = [fork EXCEPT !.at = stage, !.held = @ \cup {fork.k}]
AfterLease == IF Recorded("workspace_ready") THEN "admit" ELSE "recordLease"

\* A lease that is not ready is a conflict: an untyped error.
ForkLease ==
    /\ ForkAt("lease")
    /\ \/ /\ lease[fork.k] = "none"
          /\ lease' = [lease EXCEPT ![fork.k] = "creating"]
          /\ ForkTo("materialize")
       \/ lease[fork.k] = "ready" /\ Hold(AfterLease) /\ UNCHANGED lease
       \/ /\ lease[fork.k] \notin {"none", "ready"}
          /\ fork' = [fork EXCEPT !.at = "undo", !.result = "error"]
          /\ UNCHANGED lease
    /\ UNCHANGED <<group, child, frozen, session, snapReleased, runs, failures>>

Materialize ==
    /\ ForkAt("materialize")
    /\ lease' = [lease EXCEPT ![fork.k] = "ready"]
    /\ Hold(AfterLease)
    /\ UNCHANGED <<group, child, frozen, session, snapReleased, runs, failures>>

RecordLease ==
    /\ ForkAt("recordLease")
    /\ RecordChild("workspace_ready") /\ ForkTo("admit")
    /\ UNCHANGED <<group, frozen, session, lease, snapReleased, runs, failures>>

\* Mutant: only the journal is asked for an accepted run.
RecordedRunOnly == Recorded("run_accepted")

\* Mutant: a recorded session is taken for one with a run.
SessionMeansRun == Recorded("session_forked")

\* The journal has the run, or the child lane does and the journal lost it.
HasRun == Recorded("run_accepted") \/ runs[fork.k] > 0

\* verifyAcceptedRun, attachExistingRun, or a new admission, which may be rejected:
\* the only rejection with a type.
AdmitRun ==
    /\ ForkAt("admit")
    /\ \/ /\ HasRun
          /\ ForkTo(IF Recorded("run_accepted") THEN "recordReady" ELSE "recordRun")
          /\ UNCHANGED <<runs, failures>>
       \/ /\ ~HasRun
          /\ runs' = [runs EXCEPT ![fork.k] = @ + 1]
          /\ ForkTo("recordRun")
          /\ UNCHANGED failures
       \/ /\ ~HasRun
          /\ fork' = [fork EXCEPT !.at = "undo", !.result = "rejected"]
          /\ UNCHANGED <<runs, failures>>
    /\ UNCHANGED <<group, child, frozen, session, lease, snapReleased>>

RecordRun ==
    /\ ForkAt("recordRun")
    /\ RecordChild("run_accepted") /\ ForkTo("recordReady")
    /\ UNCHANGED <<group, frozen, session, lease, snapReleased, runs, failures>>

\* Mutant: one variant too many.
PastLastChild == fork.k > ChildCount

LastChild == fork.k = ChildCount

RecordReady ==
    /\ ForkAt("recordReady")
    /\ RecordChild("ready")
    /\ fork' = IF LastChild THEN [fork EXCEPT !.at = "groupReady"]
               ELSE [fork EXCEPT !.at = "session", !.k = @ + 1]
    /\ UNCHANGED <<group, frozen, session, lease, snapReleased, runs, failures>>

GroupReady ==
    /\ ForkAt("groupReady")
    /\ group' = group \cup {"ready"}
    /\ ForkReturns("ok")
    /\ UNCHANGED <<child, frozen, session, lease, snapReleased, runs, failures>>

\* An operation fails.  What this call holds is released and the error thrown; the
\* journal keeps what it has.
ForkFails ==
    /\ fork.at \in {"session", "recordSession", "materialize", "recordLease", "admit",
                    "recordRun", "recordReady", "groupReady"}
    /\ Fault
    /\ fork' = [fork EXCEPT !.at = "undo", !.result = "error"]
    /\ UNCHANGED <<group, child, frozen, session, lease, snapReleased, runs>>

\* The leases are released at the same time, their steps in any order.
Undo ==
    /\ ForkAt("undo")
    /\ \/ \E k \in fork.held : ReleaseHeld(k)
       \/ /\ fork.held = {} /\ UNCHANGED <<lease, snapReleased, failures>>
          /\ IF fork.result = "error" THEN ForkReturns("error") ELSE ForkTo("childFailed")
    /\ UNCHANGED <<group, child, frozen, session, runs>>

\* A typed rejection is recorded for the child, then for the group, and the freeze
\* is undone; an unfreeze that fails is ignored.
ChildFailed ==
    /\ ForkAt("childFailed")
    /\ RecordChild("failed") /\ ForkTo("groupFailed")
    /\ UNCHANGED <<group, frozen, session, lease, snapReleased, runs, failures>>

GroupFailed ==
    /\ ForkAt("groupFailed")
    /\ group' = group \cup {"failed"} /\ ForkTo("unfreeze")
    /\ UNCHANGED <<child, frozen, session, lease, snapReleased, runs, failures>>

Unfreeze ==
    /\ ForkAt("unfreeze")
    /\ \/ frozen' = FALSE /\ UNCHANGED failures
       \/ Fault /\ UNCHANGED frozen
    /\ ForkReturns("rejected")
    /\ UNCHANGED <<group, child, session, lease, snapReleased, runs>>

ForkStep ==
    \/ Freeze \/ ForkSession \/ RecordSession \/ ForkLease \/ Materialize \/ RecordLease
    \/ AdmitRun \/ RecordRun \/ RecordReady \/ GroupReady
    \/ ForkFails \/ Undo \/ ChildFailed \/ GroupFailed \/ Unfreeze

ForkLost ==
    /\ fork' = NoFork
    /\ UNCHANGED <<group, child, frozen, session, lease, snapReleased, runs>>

TakeFork ==
    /\ fork.result # "none" /\ ForkAt("idle") /\ fork' = NoFork
    /\ UNCHANGED <<group, child, frozen, session, lease, snapReleased, runs, failures>>

GroupInit ==
    /\ group = {} /\ child = [k \in Children |-> {}]
    /\ frozen = FALSE /\ session = {}
    /\ lease = [k \in Children |-> "none"] /\ snapReleased = FALSE
    /\ runs = [k \in Children |-> 0]
    /\ fork = NoFork

\* A caller that may call again after any result, failure or loss of the process.
GroupNext == ForkExact \/ ForkStep \/ TakeFork \/ (Crash /\ ForkLost)

GroupSpec == GroupInit /\ FailuresInit /\ [][GroupNext]_<<continuation, failures>>

-----------------------------------------------------------------------------
(***************************************************************************)
(* What is checked                                                         *)
(***************************************************************************)
Forks == [at : ForkStages, k : Children, held : SUBSET Children,
          result : {"none", "ok", "error", "rejected"}]

GroupTypeOK ==
    /\ group \subseteq GroupEvents /\ child \in [Children -> SUBSET ChildEvents]
    /\ frozen \in BOOLEAN /\ session \subseteq Children
    /\ lease \in [Children -> LeaseStatuses] /\ snapReleased \in BOOLEAN
    /\ runs \in [Children -> Nat] /\ fork \in Forks

\* Retries never make a twin: however often the call failed or its process was
\* lost, a child session has accepted one run at most.
NoTwinRuns == \A k \in Children : runs[k] <= 1

\* A group is offered for dispatch only when it is complete and its source is a
\* read-only origin: every child has its session, its run in the journal, and the
\* source lane is frozen.
ReadyIsComplete ==
    "ready" \in group =>
        /\ frozen /\ "failed" \notin group
        /\ \A k \in Children :
            k \in session /\ runs[k] = 1
            /\ {"session_forked", "workspace_ready", "run_accepted"} \subseteq child[k]

=============================================================================
