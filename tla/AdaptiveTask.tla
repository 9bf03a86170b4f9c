---------------------------- MODULE AdaptiveTask ----------------------------
(***************************************************************************)
(* One adaptive task (adaptive-runtime.ts): a root candidate is driven turn*)
(* by turn, may be branched once into sibling candidates, candidates are   *)
(* verified, and a verified one is promoted into the user's foreground.    *)
(* The loop keeps nothing but workers in memory.  It decides from the fold *)
(* of the task journal (candidate-graph.ts) and acts on the sessions, the  *)
(* continuation journal, the leases and the foreground, so a lost process  *)
(* leaves them at different points, and reopen has to go on from there.    *)
(*                                                                         *)
(* Candidate 0 is the root, 1, 2, ... its children in sibling order.  Every*)
(* durable effect is an action; reads between two of them belong to the    *)
(* action they decide.                                                     *)
(*                                                                         *)
(* Definitions whose comment begins with "Mutant:" are not part of the     *)
(* model: each is the definition after it with one plausible bug.          *)
(***************************************************************************)
EXTENDS Promotion, ContinuationGroup, Sequences, FiniteSetsExt

CONSTANT MaxCalls   \* provider calls the task's budget allows

Root == 0

ASSUME TaskAssumption == Candidates = 0..ChildCount /\ MaxCalls \in Nat

VARIABLES
    task,     \* the graph: what concerns the task
    node,     \* the graph: its candidates
    lane,     \* the run of each candidate's lane, and its provider calls
    root,     \* leases of the root's snapshots, and whether the recorded one is released
    run,      \* where run() is
    workers   \* candidates with a worker in this process

graph == <<task, node>>
process == <<run, workers>>
outside == <<lane, root, continuation, promotion, failures>>
vars == <<graph, process, outside>>

-----------------------------------------------------------------------------
(***************************************************************************)
(* The folded task journal                                                 *)
(***************************************************************************)
TaskStatuses == {"planned", "running", "terminal"}
Outcomes == {"promoted", "no_verified_candidate", "budget_exhausted", "suspended",
             "foreground_changed", "needs_attention"}

ASSUME OutcomeAssumption == None \notin Outcomes

NodeStatuses == {"absent", "provisioning", "active", "branching", "branch_origin",
                 "verifying", "verified", "failed", "pruned", "winner"}

\* exhausted is a prune that names a budget.
Decisions == {"none", "continue", "branch", "verify", "prune", "exhausted", "stop"}

Node(st) ==
    [st |-> st, pending |-> FALSE, settled |-> "no", observed |-> 0, decision |-> "none",
     decidedAt |-> 0, released |-> FALSE]

SetStatus(c, st) == node' = [node EXCEPT ![c].st = st]

Down == [at |-> "down", c |-> Root, first |-> FALSE, n |-> 0]

\* Where run() is, the candidate it is about, and what else the stage needs: whether
\* this is the root's first turn, the attempt or the node that is next.
Stage(stage) == [Down EXCEPT !.at = stage]

RunAt(stage) == run.at = stage
Leave(stage) == run' = Stage(stage)
Go(stage) == run' = [run EXCEPT !.at = stage]
GoFor(stage, c) == run' = [Stage(stage) EXCEPT !.c = c]
Throw == Leave("threw")
Loop == Leave("loop")

Running == RunAt("loop") /\ task.status = "running"

Drivable(c) ==
    /\ ~node[c].released
    /\ \/ node[c].pending
       \/ node[c].st \in {"verifying", "branching", "verified", "winner", "active"}
       \/ node[c].st = "branch_origin" /\ \E k \in Children : node[k].st = "provisioning"
       \/ node[c].st = "provisioning" /\ c = Root

Priority(c) ==
    CASE node[c].pending                       -> 0
      [] node[c].st = "verifying"              -> 1
      [] node[c].st = "branching"              -> 2
      [] node[c].st = "branch_origin"          -> 3
      [] node[c].st = "provisioning"           -> 4
      [] node[c].st \in {"verified", "winner"} -> 5
      [] OTHER                                 -> 6

\* Depth and sibling order are the order of the numbers.
Rank(c) == Priority(c) * (ChildCount + 1) + c

\* nextCandidate
Chosen(c) ==
    /\ Running /\ Drivable(c)
    /\ \A d \in Candidates : Drivable(d) => Rank(c) <= Rank(d)

Finish(outcome) == task' = [task EXCEPT !.status = "terminal", !.outcome = outcome]

WithoutWinner ==
    IF \E c \in Candidates : node[c].decision = "exhausted" THEN "budget_exhausted"
    ELSE "no_verified_candidate"

-----------------------------------------------------------------------------
(***************************************************************************)
(* Opening and planning                                                    *)
(***************************************************************************)
\* reconcileTaskGraph: a group that has events is ready, one that has none has not
\* started, and a provisioned child is the one the continuation journal names.  The
\* check of the leases looks up a field the statuses do not have and never fails.
Reconciled ==
    task.branched =>
        /\ group # {} => "ready" \in group
        /\ \A k \in Children : node[k].st # "provisioning" =>
            {"session_forked", "workspace_ready", "run_accepted"} \subseteq child[k]

Reopen ==
    /\ RunAt("down") /\ Free
    /\ Leave(IF task.status = "planned" \/ Reconciled THEN "loop" ELSE "refused")
    /\ UNCHANGED <<graph, workers, outside>>

PlanTask ==
    /\ RunAt("loop") /\ task.status = "planned"
    /\ task' = [task EXCEPT !.status = "running"]
    /\ SetStatus(Root, "provisioning")
    /\ UNCHANGED <<process, outside>>

NothingToDrive ==
    /\ Running /\ \A c \in Candidates : ~Drivable(c)
    /\ Finish(WithoutWinner)
    /\ UNCHANGED <<node, process, outside>>

-----------------------------------------------------------------------------
(***************************************************************************)
(* Workers: provisionRoot and buildWorker                                  *)
(***************************************************************************)
Turning(c) == Chosen(c) /\ ~node[c].pending /\ node[c].st \in {"provisioning", "active"}

WorkerMissing(c) ==
    /\ c \notin workers
    /\ \/ Turning(c)
       \/ Chosen(c) /\ ~node[c].pending /\ node[c].st = "branching"
       \/ run.at \in {"verify", "promote"} /\ run.c = c

CreateRootSession ==
    /\ WorkerMissing(Root) /\ ~task.rootSession
    /\ task' = [task EXCEPT !.rootSession = TRUE]
    /\ UNCHANGED <<node, process, outside>>

\* Without a recorded snapshot a new one is captured and forked.
CaptureRoot ==
    /\ WorkerMissing(Root) /\ task.rootSession /\ task.rootSnap = 0
    /\ root' = [root EXCEPT !.leases = Append(@, "creating")]
    /\ Leave("materializeRoot")
    /\ UNCHANGED <<graph, workers, lane, continuation, promotion, failures>>

MaterializeRoot ==
    /\ RunAt("materializeRoot")
    /\ root' = [root EXCEPT !.leases[Len(root.leases)] = "ready"]
    /\ Leave("recordRoot")
    /\ UNCHANGED <<graph, workers, lane, continuation, promotion, failures>>

RecordRoot ==
    /\ RunAt("recordRoot")
    /\ task' = [task EXCEPT !.rootSnap = Len(root.leases)]
    /\ workers' = workers \cup {Root}
    /\ Loop
    /\ UNCHANGED <<node, outside>>

RootLease == root.leases[task.rootSnap]

SnapshotKept(c) == IF c = Root THEN ~root.released ELSE ~snapReleased
LeaseStatus(c) == IF c = Root THEN RootLease ELSE lease[c]
LeaseReady(c) == LeaseStatus(c) = "ready"

Attachable(c) == SnapshotKept(c) /\ LeaseReady(c)

\* The recorded lease of the root, or of a child whose run has settled, is attached;
\* a snapshot that is gone or a lease that is not ready faults the task.
AttachLease(c) ==
    /\ WorkerMissing(c)
    /\ IF c = Root THEN task.rootSnap # 0 ELSE node[c].settled # "no"
    /\ workers' = IF Attachable(c) THEN workers \cup {c} ELSE workers
    /\ run' = IF Attachable(c) THEN run ELSE Stage("threw")
    /\ UNCHANGED <<graph, outside>>

\* Otherwise the worker is rebuilt by forking the whole group again.
BeginFork(c) ==
    /\ \/ c = Root /\ Chosen(Root) /\ ~node[Root].pending /\ node[Root].st = "branch_origin"
       \/ c # Root /\ WorkerMissing(c) /\ node[c].settled = "no"
    /\ \/ snapReleased /\ Throw /\ UNCHANGED <<continuation, failures>>
       \/ ~snapReleased /\ ForkExact /\ GoFor("forking", c)
    /\ UNCHANGED <<graph, workers, lane, root, promotion>>

-----------------------------------------------------------------------------
(***************************************************************************)
(* Turns and decisions                                                     *)
(***************************************************************************)
\* budgetFacts: what released candidates spent is not counted.
Exhausted == MapThenSumSet(LAMBDA c : IF node[c].released THEN 0 ELSE lane[c].turns,
                           Candidates) >= MaxCalls

Decided(c) == node[c].st = "active" /\ node[c].decision \notin {"none", "continue"}
Drives(c) == Turning(c) /\ c \in workers /\ ~Decided(c)

After(decision, c) ==
    CASE decision \in {"prune", "exhausted"} -> GoFor("prune", c)
      [] decision = "stop"                   -> Leave("select")
      [] OTHER                               -> Loop

\* resumeDecision, after a crash that left a decision without its effect.
ResumeDecision(c) ==
    /\ Turning(c) /\ c \in workers /\ Decided(c)
    /\ After(node[c].decision, c)
    /\ UNCHANGED <<graph, workers, outside>>

PruneExhausted(c) ==
    /\ Drives(c) /\ Exhausted
    /\ GoFor("prune", c)
    /\ UNCHANGED <<graph, workers, outside>>

StartRoot ==
    /\ Drives(Root) /\ ~Exhausted
    /\ lane[Root].op = "idle" /\ node[Root].observed = 0
    /\ lane' = [lane EXCEPT ![Root].op = "accepted"]
    /\ run' = [run EXCEPT !.at = "turn", !.c = Root, !.first = TRUE]
    /\ UNCHANGED <<graph, workers, root, continuation, promotion, failures>>

\* Mutant: the observation alone lets the parked turn go.
ObservedOnly(c) == node[c].observed = lane[c].turns

\* decisionCoversCursor: the parked turn was observed and its decision is durable.
Covered(c) == node[c].observed = lane[c].turns /\ node[c].decidedAt = lane[c].turns

\* The lane is parked behind a decision, or was accepted and has no turn yet.
Advances(c) ==
    /\ Drives(c) /\ ~Exhausted
    /\ \/ lane[c].op = "accepted" \/ (lane[c].op = "idle" /\ c # Root)
       \/ lane[c].op = "parked" /\ Covered(c)

\* One provider call: the run parks at its next turn or settles.
Turn(c) ==
    /\ Advances(c) \/ (RunAt("turn") /\ run.c = c)
    /\ \E op \in {"parked", "completed", "failed"} :
        lane' = [lane EXCEPT ![c].op = op, ![c].turns = @ + 1]
    /\ run' = [run EXCEPT !.at = "observe", !.c = c, !.first = RunAt("turn")]
    /\ UNCHANGED <<graph, workers, root, continuation, promotion, failures>>

\* The turn is suspended, or the drive is rejected.
TurnRefused(c) ==
    /\ Advances(c) \/ (RunAt("turn") /\ run.c = c)
    /\ GoFor("suspend", c) \/ GoFor("prune", c)
    /\ UNCHANGED <<graph, workers, outside>>

\* A turn found durable after a crash is observed again.
ReadTurn(c) ==
    /\ Drives(c) /\ ~Exhausted
    /\ lane[c].op \in {"completed", "failed"} \/ (lane[c].op = "parked" /\ ~Covered(c))
    /\ GoFor("observe", c)
    /\ UNCHANGED <<graph, workers, outside>>

RecordRootRun ==
    /\ RunAt("observe") /\ run.first
    /\ SetStatus(Root, "active")
    /\ run' = [run EXCEPT !.first = FALSE]
    /\ UNCHANGED <<task, workers, outside>>

Observe ==
    /\ RunAt("observe") /\ ~run.first
    /\ node' = [node EXCEPT ![run.c].observed = lane[run.c].turns,
                            ![run.c].settled = IF lane[run.c].op = "parked" THEN "no"
                                               ELSE lane[run.c].op]
    /\ Go("decide")
    /\ UNCHANGED <<task, workers, outside>>

\* decideController, first match wins; only the root may branch.
Decision(c, failing) ==
    CASE \E d \in Candidates : node[d].st = "verified"          -> "stop"
      [] node[c].settled = "completed"                          -> "verify"
      [] node[c].settled = "no" /\ failing /\ c = Root          -> "branch"
      [] Exhausted                                              -> "exhausted"
      [] node[c].settled = "failed"                             -> "prune"
      [] OTHER                                                  -> "continue"

Decide ==
    /\ RunAt("decide")
    /\ \E failing \in BOOLEAN :
        LET d == Decision(run.c, failing) IN
        /\ node' = [node EXCEPT ![run.c].decision = d, ![run.c].decidedAt = lane[run.c].turns,
                                ![run.c].st = IF d = "branch" THEN "branching"
                                              ELSE IF d = "verify" THEN "verifying" ELSE @]
        /\ After(d, run.c)
    /\ UNCHANGED <<task, workers, outside>>

Prune ==
    /\ RunAt("prune")
    /\ SetStatus(run.c, "pruned") /\ Go("release")
    /\ UNCHANGED <<task, workers, outside>>

SuspendCandidate ==
    /\ RunAt("suspend")
    /\ SetStatus(run.c, "failed") /\ Leave("suspended")
    /\ UNCHANGED <<task, workers, outside>>

SuspendTask ==
    /\ RunAt("suspended") /\ Finish("suspended") /\ Loop
    /\ UNCHANGED <<node, workers, outside>>

-----------------------------------------------------------------------------
(***************************************************************************)
(* Branching                                                               *)
(***************************************************************************)
CommitBranch ==
    /\ Chosen(Root) /\ node[Root].st = "branching" /\ ~node[Root].pending /\ Root \in workers
    /\ task' = [task EXCEPT !.branched = TRUE]
    /\ node' = [c \in Candidates |-> IF c = Root THEN [node[Root] EXCEPT !.st = "branch_origin"]
                                     ELSE Node("provisioning")]
    /\ UNCHANGED <<process, outside>>

Forking ==
    /\ RunAt("forking") /\ ForkStep
    /\ UNCHANGED <<graph, process, lane, root, promotion>>

\* Mutant: children are provisioned whatever became of the group.
ForkReturned(result) == result # "none"

ForkSucceeded(result) == result = "ok"

Forked ==
    /\ RunAt("forking") /\ ForkAt("idle") /\ fork.result # "none"
    /\ fork' = NoFork
    /\ IF ~ForkSucceeded(fork.result) THEN Throw /\ UNCHANGED workers
       ELSE IF run.c = Root THEN Go("provision") /\ UNCHANGED workers
       ELSE Loop /\ workers' = workers \cup {run.c}
    /\ UNCHANGED <<graph, group, child, frozen, session, lease, snapReleased, runs,
                   lane, root, promotion, failures>>

Provisioning == {k \in Children : node[k].st = "provisioning"}

Provision ==
    /\ RunAt("provision")
    /\ \E k \in Provisioning :
        /\ \A j \in Provisioning : k <= j
        /\ SetStatus(k, "active")
        /\ workers' = workers \cup {k}
    /\ IF Cardinality(Provisioning) = 1 THEN Loop ELSE Go("provision")
    /\ UNCHANGED <<task, outside>>

-----------------------------------------------------------------------------
(***************************************************************************)
(* Verification                                                            *)
(***************************************************************************)
PlanVerifier(c) ==
    /\ Chosen(c) /\ node[c].st = "verifying" /\ ~node[c].pending
    /\ node' = [node EXCEPT ![c].pending = TRUE]
    /\ GoFor("verify", c)
    /\ UNCHANGED <<task, workers, outside>>

\* verifier_settled: a pass verifies, anything else fails a completed candidate.
SettleVerifier(c, pass) ==
    node' = [node EXCEPT ![c].pending = FALSE,
        ![c].st = CASE pass /\ @ \in {"verifying", "active"}     -> "verified"
                    [] ~pass /\ node[c].settled = "completed"    -> "failed"
                    [] OTHER                                     -> @]

\* A verification lost with its process runs again when that is safe, and is settled
\* as interrupted otherwise.
ResumeVerifier(c) ==
    /\ Chosen(c) /\ node[c].pending
    /\ \/ GoFor("verify", c) /\ UNCHANGED node
       \/ SettleVerifier(c, FALSE) /\ UNCHANGED run
    /\ UNCHANGED <<task, workers, outside>>

RunVerifier ==
    /\ RunAt("verify") /\ run.c \in workers
    /\ \E pass \in BOOLEAN : SettleVerifier(run.c, pass)
    /\ Loop
    /\ UNCHANGED <<task, workers, outside>>

-----------------------------------------------------------------------------
(***************************************************************************)
(* The winner and its promotion                                            *)
(***************************************************************************)
Selecting ==
    \/ RunAt("select")
    \/ \E c \in Candidates :
        Chosen(c) /\ ~node[c].pending /\ node[c].st \in {"verified", "winner"}

\* The selected winner, or any verified candidate: the tie-break is left open.
Targets ==
    LET selected == {c \in Candidates : task.winner = c /\ node[c].st = "winner"}
    IN  IF selected # {} THEN selected ELSE {c \in Candidates : node[c].st = "verified"}

SelectTarget ==
    /\ Selecting
    /\ \/ \E c \in Targets : GoFor("promote", c) /\ UNCHANGED task
       \/ Targets = {} /\ Finish(WithoutWinner) /\ Loop
    /\ UNCHANGED <<node, workers, outside>>

\* The winner's slot holds one candidate; selecting it once more is a replay.
SelectWinner ==
    /\ RunAt("promote") /\ run.c \in workers
    /\ IF task.winner \in {None, run.c}
       THEN /\ task' = [task EXCEPT !.winner = run.c]
            /\ SetStatus(run.c, "winner")
            /\ Go("promoting")
       ELSE Throw /\ UNCHANGED graph
    /\ UNCHANGED <<workers, outside>>

\* promote needs the lease to be ready.
BeginPromotion ==
    /\ RunAt("promoting") /\ Free
    /\ IF LeaseReady(run.c) THEN Promote(run.c) /\ UNCHANGED run
       ELSE Throw /\ UNCHANGED <<promotion, failures>>
    /\ UNCHANGED <<graph, workers, lane, root, continuation>>

Promoting ==
    /\ PromotionStep
    /\ UNCHANGED <<graph, process, lane, root, continuation>>

\* What recover does to a lease: one that was being created is completed, one that
\* was being released or could not be removed is removed.
RecoveredLease(status) ==
    CASE status = "creating"                   -> "ready"
      [] status \in {"releasing", "orphaned"}  -> "released"
      [] OTHER                                 -> status

\* A conflict is answered by recover() and one more attempt; the host may also call
\* recover() before it opens the task again.
BeginRecovery ==
    /\ Free
    /\ \/ RunAt("recovering") /\ Recover(run.c)
       \/ RunAt("down") /\ \E c \in Candidates : Recover(c)
    /\ lease' = [k \in Children |-> RecoveredLease(lease[k])]
    /\ root' = [root EXCEPT !.leases = [i \in DOMAIN @ |-> RecoveredLease(@[i])]]
    /\ UNCHANGED <<graph, process, lane, group, child, frozen, session, snapReleased, runs,
                   fork>>

HostRecovered ==
    /\ RunAt("down") /\ call.result # None /\ call' = Idle
    /\ UNCHANGED <<graph, process, lane, root, continuation, failures,
                   fg, journal, copies, manifest, edits, lost, raced>>

\* Mutant: an attempt that needs attention is given up like one rolled back.
EndingUnlessStuck == {"promoted", "foreground_changed"}

\* Results that end the task with them; a verifier's failure or a rollback gives the
\* attempt up; after a conflict recover() is called; any other failure is thrown.
Ending == {"promoted", "foreground_changed", "needs_attention"}
GivingUp == Results \ (Ending \cup {"conflict", "recovered", "fault"})

\* candidate_terminal of the winner frees the slot.
Demoted == SetStatus(run.c, "failed") /\ task' = [task EXCEPT !.winner = None]

\* Mutant: a promotion is tried again after every recovery.
NeverRetried == FALSE

Retried == run.n > 0

PromotionEnds ==
    /\ run.at \in {"promoting", "recovering"} /\ call' = Idle
    /\ \/ call.result \in Ending /\ Finish(call.result) /\ Loop /\ UNCHANGED node
       \/ call.result \in GivingUp /\ Demoted /\ Leave("select")
       \/ call.result = "conflict" /\ Go("recovering") /\ UNCHANGED graph
       \/ /\ call.result = "recovered" /\ UNCHANGED graph
          /\ IF Retried THEN Throw ELSE run' = [run EXCEPT !.at = "promoting", !.n = 1]
       \/ call.result = "fault" /\ Throw /\ UNCHANGED graph
    /\ UNCHANGED <<workers, lane, root, continuation, failures,
                   fg, journal, copies, manifest, edits, lost, raced>>

-----------------------------------------------------------------------------
(***************************************************************************)
(* Release and cleanup                                                     *)
(***************************************************************************)
\* A record of the manifest for the lease of the candidate.
Mark(c, status) ==
    IF c = Root THEN root' = [root EXCEPT !.leases[task.rootSnap] = status] /\ UNCHANGED lease
    ELSE MarkLease(c, status) /\ UNCHANGED root

\* release, step by step (ReleaseHeld has the same for a lease of forkExact): a lease
\* that is released already is left alone, any other is marked "releasing".  Errors are
\* swallowed by the caller, who records the candidate as released in any case.
Release ==
    /\ RunAt("release")
    /\ \/ /\ LeaseStatus(run.c) = "released"
          /\ Go("released") /\ UNCHANGED <<lease, root, failures>>
       \/ /\ LeaseStatus(run.c) # "released"
          /\ Mark(run.c, "releasing") /\ Go("removing") /\ UNCHANGED failures
       \/ /\ LeaseStatus(run.c) # "released" /\ Fault
          /\ Go("released") /\ UNCHANGED <<lease, root>>
    /\ UNCHANGED <<graph, workers, lane, group, child, frozen, session, snapReleased, runs,
                   fork, promotion>>

\* The directory is removed and the lease marked "released"; when it cannot be removed,
\* "orphaned"; when the mark fails the lease stays as it is.
Remove ==
    /\ RunAt("removing")
    /\ \/ Mark(run.c, "released") /\ Go("unreference") /\ UNCHANGED failures
       \/ Fault /\ Mark(run.c, "orphaned") /\ Go("released")
       \/ Fault /\ Go("released") /\ UNCHANGED <<lease, root>>
    /\ UNCHANGED <<graph, workers, lane, group, child, frozen, session, snapReleased, runs,
                   fork, promotion>>

\* The snapshot goes with its last lease; the root's not while one that lives derives
\* from it.
Unreference ==
    /\ RunAt("unreference")
    /\ \/ /\ run.c = Root
          /\ root' = [root EXCEPT !.released = @ \/ ~task.branched \/ snapReleased]
          /\ UNCHANGED <<snapReleased, failures>>
       \/ run.c # Root /\ ReleaseUnreferenced /\ UNCHANGED <<root, failures>>
       \/ Fault /\ UNCHANGED <<root, snapReleased>>
    /\ Go("released")
    /\ UNCHANGED <<graph, workers, lane, group, child, frozen, session, lease, runs, fork,
                   promotion>>

RecordReleased ==
    /\ RunAt("released")
    /\ node' = [node EXCEPT ![run.c].released = TRUE]
    /\ IF task.status = "terminal" THEN Go("cleanup") ELSE Loop
    /\ UNCHANGED <<task, workers, outside>>

\* Mutant: only candidates that came to an end are released.
NothingUnlessEnded(c) == node[c].released \/ node[c].st \notin {"failed", "pruned", "winner"}

\* A node that is released, or was never given a workspace.
NothingToRelease(c) ==
    node[c].st = "absent" \/ node[c].released \/ (c = Root /\ task.rootSnap = 0)

\* finalizeCleanup goes over the nodes, then the group, then the root's snapshot.
Cleaning == RunAt("cleanup") \/ (RunAt("loop") /\ task.status = "terminal")

\* Without a worker the lease is attached first; one that cannot be is passed over.
ToRelease ==
    {c \in Candidates : c >= run.n /\ ~NothingToRelease(c)
                        /\ (c \in workers \/ Attachable(c) \/ ~SnapshotKept(c))}

\* A snapshot that is gone ends the cleanup.
CleanupNode(c) ==
    /\ Cleaning /\ c \in ToRelease /\ \A d \in ToRelease : c <= d
    /\ IF c \in workers \/ Attachable(c)
       THEN run' = [at |-> "release", c |-> c, first |-> FALSE, n |-> c + 1]
       ELSE Throw
    /\ UNCHANGED <<graph, workers, outside>>

\* releaseSnapshot refuses while a lease of the snapshot is not released.
CleanupGroup ==
    /\ Cleaning /\ run.n <= ChildCount + 1 /\ ToRelease = {} /\ task.branched
    /\ IF snapReleased \/ Unreferenced
       THEN /\ group' = group \cup {"terminal", "released"} /\ snapReleased' = TRUE
            /\ run' = [Stage("cleanup") EXCEPT !.n = ChildCount + 2]
       ELSE /\ group' = group \cup {"terminal"} /\ UNCHANGED snapReleased
            /\ Throw
    /\ UNCHANGED <<graph, workers, child, frozen, session, lease, runs, fork, lane, root,
                   promotion, failures>>

CleanupRoot ==
    /\ Cleaning /\ (run.n = ChildCount + 2 \/ (~task.branched /\ ToRelease = {}))
    /\ IF task.rootSnap = 0 \/ root.released \/ RootLease = "released"
       THEN /\ root' = [root EXCEPT !.released = @ \/ (task.rootSnap # 0
                                                      /\ (task.branched => snapReleased))]
            /\ Leave("returned")
       ELSE Throw /\ UNCHANGED root
    /\ UNCHANGED <<graph, workers, lane, continuation, promotion, failures>>

-----------------------------------------------------------------------------
(***************************************************************************)
(* The process, the user, the specification                                *)
(***************************************************************************)
CrashTask ==
    /\ ~(RunAt("down") /\ Free) /\ Crash
    /\ run' = Down /\ workers' = {}
    /\ ForkLost /\ CallLost
    /\ UNCHANGED <<graph, lane, root>>

\* run() may be called again after it threw.
RunAgain ==
    /\ RunAt("threw")
    /\ Loop
    /\ UNCHANGED <<graph, workers, outside>>

\* Only while there is a winner and the task has not ended: nobody looks at the
\* foreground before, but to capture it, nor after (bound).
EditForeground ==
    /\ task.winner # None /\ task.status = "running"
    /\ UserEdit
    /\ UNCHANGED <<graph, process, lane, root, continuation>>

Init ==
    /\ task = [status |-> "planned", outcome |-> None, winner |-> None, branched |-> FALSE,
               rootSession |-> FALSE, rootSnap |-> 0]
    /\ node = [c \in Candidates |-> Node("absent")]
    /\ lane = [c \in Candidates |-> [op |-> "idle", turns |-> 0]]
    /\ root = [leases |-> << >>, released |-> FALSE]
    /\ run = Down /\ workers = {}
    /\ GroupInit /\ PromotionInit /\ FailuresInit

Drive(c) ==
    \/ AttachLease(c) \/ BeginFork(c) \/ ResumeDecision(c) \/ PruneExhausted(c)
    \/ Turn(c) \/ TurnRefused(c) \/ ReadTurn(c) \/ PlanVerifier(c) \/ ResumeVerifier(c)

Step ==
    \/ PlanTask \/ NothingToDrive
    \/ CreateRootSession \/ CaptureRoot \/ MaterializeRoot \/ RecordRoot
    \/ \E c \in Candidates : Drive(c)
    \/ StartRoot \/ RecordRootRun \/ Observe \/ Decide \/ Prune
    \/ SuspendCandidate \/ SuspendTask
    \/ CommitBranch \/ Forking \/ Forked \/ Provision
    \/ RunVerifier \/ SelectTarget \/ SelectWinner
    \/ BeginPromotion \/ Promoting \/ BeginRecovery \/ HostRecovered \/ PromotionEnds
    \/ Release \/ Remove \/ Unreference \/ RecordReleased
    \/ (\E c \in Candidates : CleanupNode(c)) \/ CleanupGroup \/ CleanupRoot

Next == Step \/ Reopen \/ RunAgain \/ CrashTask \/ EditForeground

Spec == Init /\ [][Next]_vars

-----------------------------------------------------------------------------
(***************************************************************************)
(* What is checked                                                         *)
(***************************************************************************)
RunStages == {"down", "loop", "threw", "refused", "returned", "materializeRoot", "recordRoot",
              "turn", "observe", "decide", "prune", "suspend", "suspended", "forking",
              "provision", "verify", "select", "promote", "promoting", "recovering",
              "release", "removing", "unreference", "released", "cleanup"}

Nodes == [st : NodeStatuses, pending : BOOLEAN, settled : {"no", "completed", "failed"},
          observed : Nat, decision : Decisions, decidedAt : Nat, released : BOOLEAN]

\* Types; a winner has a worker while it is promoted.
TaskTypeOK ==
    /\ FailuresTypeOK /\ PromotionTypeOK /\ GroupTypeOK
    /\ task \in [status : TaskStatuses, outcome : Outcomes \cup {None},
                 winner : Candidates \cup {None}, branched : BOOLEAN,
                 rootSession : BOOLEAN, rootSnap : 0..Len(root.leases)]
    /\ node \in [Candidates -> Nodes]
    /\ lane \in [Candidates -> [op : {"idle", "accepted", "parked", "completed", "failed"},
                                turns : Nat]]
    /\ root \in [leases : Seq(LeaseStatuses), released : BOOLEAN]
    /\ run \in [at : RunStages, c : Candidates, first : BOOLEAN, n : 0..(ChildCount + 3)]
    /\ workers \subseteq Candidates
    /\ RunAt("promoting") => run.c \in workers

\* However often the process is lost, a candidate's lane gets no provider call while
\* the turn before it has no durable decision, nor after a decision against it.  The
\* root is the exception until its first run is recorded: what was decided about it
\* before is not read again.
TurnsAreDecided ==
    [][\A c \in Candidates : lane'[c].turns > lane[c].turns /\ lane[c].turns > 0 =>
        /\ node[c].decidedAt = lane[c].turns
        /\ node[c].decision = "continue" \/ node[c].st = "provisioning"]_vars

\* Once a group is offered for dispatch its origin takes no further turn, and no child
\* takes one before that.
OriginIsReadOnly ==
    [][/\ "ready" \in group => lane'[Root] = lane[Root]
       /\ \A k \in Children : lane'[k] # lane[k] => "ready" \in group /\ frozen]_vars

\* A lane takes a turn only when the journals say that it is its turn: what was asked is
\* decided, and before a branch it is the origin's and after it the children's.
LanesTakeTurns == TurnsAreDecided /\ OriginIsReadOnly

CleanedUp ==
    /\ \A k \in Children : lease[k] \in {"none", "released"}
    /\ task.branched => snapReleased
    /\ task.rootSnap # 0 => RootLease = "released"

\* What a lost process may leave that a task cannot get over: a group that has events
\* but is not ready; a lease that was being released, which the cleanup passes over and
\* the release of its snapshot refuses until recover() is called; a workspace released
\* before that was recorded; a sibling's released workspace, which the group cannot be
\* forked from again; an attempt that needs attention in a task that has not ended.
StuckGroup == group # {} /\ "ready" \notin group
StuckLease ==
    \/ \E k \in Children : lease[k] = "releasing"
    \/ task.rootSnap # 0 /\ RootLease = "releasing"
StuckRelease == \E c \in Candidates :
    ~node[c].released /\ ~NothingToRelease(c) /\ ~SnapshotKept(c)
StuckSibling == \E k, j \in Children : lease[k] = "released" /\ node[j].st = "active"
StuckPromotion == \E c \in Candidates : journal[c].status = "needs_attention"

\* run() returns with every workspace it recorded released.  It throws, or a reopened
\* task is refused, only after an operation failed or a child's admission was
\* rejected, or when the process was lost and left one of these five or met an edit
\* of the user on its second attempt.  Journals are legible here: a line torn by the
\* crash, which faults a task too, is AdaptiveJournal's TornTailIsRecovered.
EndsAreAccountedFor ==
    /\ RunAt("returned") => CleanedUp
    /\ run.at \in {"threw", "refused"} =>
        \/ faults > 0 \/ "failed" \in group
        \/ crashes > 0 /\ (\/ StuckGroup \/ StuckLease \/ StuckRelease \/ StuckSibling
                           \/ StuckPromotion \/ \E p \in Paths : fg[p] = Edit)

\* Every call of run() comes back.
RunReturns == run.at # "down" ~> run.at \in {"returned", "threw", "refused", "down"}

TheAttempt == {c \in Candidates : journal[c].status # "none" /\ journal[c].status # "rolled_back"}

Contract == INSTANCE TaskContract WITH
    outcome <- task.outcome,
    attempt <- task.winner,
    abandoned <- {c \in Candidates : node[c].st \in {"failed", "pruned"}},
    foreground <- IF TheAttempt = {} \/ task.status = "planned" THEN "clean"
                  ELSE IF \E c \in TheAttempt : journal[c].status = "promoted" THEN "promoted"
                  ELSE "open"

\* Whatever fails or is lost between the task journal and the promotion journal, the
\* task keeps TaskContract: an attempt is given up only when the foreground is clean
\* again, no candidate is attempted twice, and the outcome tells what was done.
ImplementsTaskContract == Contract!Spec

=============================================================================
