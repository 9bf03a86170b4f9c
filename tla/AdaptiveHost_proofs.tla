------------------------ MODULE AdaptiveHost_proofs ------------------------
(***************************************************************************)
(* Theorems about AdaptiveHost, the task with its branch group and its     *)
(* promotions, for every number of children, candidates, paths, provider   *)
(* calls, edits, faults and crashes, proved by TLAPS.                      *)
(*                                                                         *)
(* The inductive invariant HInv puts the invariants of the two parts, PInv *)
(* and GInv, beside what the task knows of them: what the stage run() is at*)
(* says of the graph (Here), that children only start in a ready group and *)
(* a root only turns before its branch (Branch), and whose attempt the     *)
(* journals and the running call are (Attempts).                           *)
(*                                                                         *)
(* From it follows that the task implements TaskContract: while it runs,   *)
(* the foreground of the contract is the journal of the winner             *)
(* (OneAttempt), so only a step of the promotion changes it; and once it   *)
(* has ended no journal is open, so recovery changes nothing.              *)
(*                                                                         *)
(* How a call of run() ends (EndsAreAccountedFor) needs three more layers: *)
(* what workers, graph, cleanup and leases say of each other whatever fails*)
(* (Structure); who still has its workspace while nothing has failed       *)
(* (Kepts); and why an attempt ends without a promotion (Tried).           *)
(***************************************************************************)
EXTENDS AdaptiveHost, Promotion_proofs, ContinuationGroup_proofs, SequenceTheorems

-----------------------------------------------------------------------------
(***************************************************************************)
(* The inductive invariant                                                 *)
(***************************************************************************)
Tasks == [status : TaskStatuses, outcome : Outcomes \cup {None},
          winner : Candidates \cup {None}, branched : BOOLEAN,
          rootSession : BOOLEAN, rootSnap : Nat]
Lanes == [op : {"idle", "accepted", "parked", "completed", "failed"}, turns : Nat]
Roots == [leases : Seq(LeaseStatuses), released : BOOLEAN]
Runs == [at : RunStages, c : Candidates, first : BOOLEAN, n : 0..(ChildCount + 3)]

GraphType == task \in Tasks /\ node \in [Candidates -> Nodes]
LaneType == lane \in [Candidates -> Lanes]
RootType == root \in Roots /\ task.rootSnap <= Len(root.leases)
RunType ==
    /\ run \in Runs /\ workers \subseteq Candidates
    /\ run.at \in {"promoting", "recovering"} => run.c \in workers

Typed == GraphType /\ LaneType /\ RootType /\ RunType

Dispatchable == "ready" \in group
Started(k) == node[k].st \notin {"absent", "provisioning"} \/ node[k].pending

\* Groups, children and the root's turns: a group belongs to the branch of its task,
\* and a child that was started to a ready one.
Branch ==
    /\ group # {} => task.branched
    /\ task.branched => node[Root].st \notin {"absent", "provisioning", "active", "branching"}
    /\ \A c \in Candidates : node[c].st = "branch_origin" => task.branched
    /\ fork.result = "ok" => Dispatchable
    /\ \A k \in Children : Started(k) => Dispatchable
    /\ ~task.branched => \A k \in Children : node[k].st = "absent"

\* A lane that is not parked has no turn, and a turn that was decided has a decision.
Turns ==
    /\ \A c \in Candidates : lane[c].op \in {"idle", "accepted"} => lane[c].turns = 0
    /\ \A c \in Candidates : node[c].decidedAt > 0 => node[c].decision # "none"

\* What the graph says of task and candidates.
Graph ==
    /\ task.outcome # None <=> task.status = "terminal"
    /\ task.status = "planned" =>
        task.winner = None /\ \A c \in Candidates : node[c].st = "absent" /\ ~node[c].released
    /\ \A c \in Candidates : node[c].pending => node[c].st = "verifying"
    /\ \A c \in Candidates : node[c].st = "winner" => task.winner = c
    /\ task.status = "running" /\ task.winner # None => node[task.winner].st = "winner"
    /\ task.status = "running" => \A c \in Candidates : node[c].st # "pruned" => ~node[c].released

\* The stages of run() that are about a candidate, and what they know of it.
AboutCandidate == {"turn", "observe", "decide", "prune", "suspend", "verify", "promote",
                   "promoting", "recovering"}
UnderWay == AboutCandidate \cup {"select", "suspended", "forking", "provision"}

Here ==
    /\ run.at \in UnderWay => task.status = "running"
    /\ run.at = "cleanup" => task.status = "terminal"
    /\ run.at \in AboutCandidate /\ run.c \in Children => Dispatchable
    /\ run.at = "turn" => run.c = Root /\ lane[Root].op = "accepted"
    /\ run.at = "observe" /\ run.first => run.c = Root
    /\ run.at = "observe" => lane[run.c].op \in {"parked", "completed", "failed"}
    /\ run.at \in {"turn", "observe", "decide"} /\ run.c = Root => ~task.branched
    /\ run.at \in {"turn", "observe", "decide", "prune", "suspend"} =>
        node[run.c].st \in {"provisioning", "active"} /\ ~node[run.c].pending
    /\ run.at \in {"turn", "suspend", "suspended"} => task.winner = None
    /\ run.at = "verify" => node[run.c].pending
    /\ run.at = "promote" => node[run.c].st \in {"verified", "winner"}
    /\ run.at \in {"promoting", "recovering"} => task.winner = run.c
    /\ run.at \in {"release", "removing", "unreference", "released"} =>
        task.status = "terminal" \/ (task.status = "running" /\ node[run.c].st = "pruned")
    /\ run.at = "forking" => task.branched
    /\ run.at = "provision" => Dispatchable

\* What was opened in the foreground is the winner's, and closed when the task ends;
\* a call, and the result it left, is of the stage that made it.
Attempts ==
    /\ \A c \in Candidates : journal[c].status \notin {"none", "rolled_back"} => task.winner = c
    /\ task.status = "terminal" => \A c \in Candidates : journal[c].status # "open"
    /\ call.at # "idle" \/ call.result # None => run.at \in {"promoting", "recovering", "down"}
    /\ call.at # "idle" /\ run.at \in {"promoting", "recovering"} => call.c = run.c
    /\ call.at # "idle" /\ ~call.recovering => run.at = "promoting"
    /\ call.at \in Before => ~call.recovering
    /\ run.at \in {"promoting", "recovering"} =>
        /\ call.result \in {"promoted", "needs_attention", "rolled_back"}
            => journal[run.c].status = call.result
        /\ call.result \in {"verifier_failed", "foreground_changed"}
            => journal[run.c].status = "none"

\* A task nobody has run.
NotStarted ==
    /\ task.status = "planned" /\ task.outcome = None /\ task.winner = None
    /\ \A c \in Candidates : node[c].st = "absent"
    /\ run.at = "down"

TaskInv == Branch /\ Turns /\ Graph /\ Here /\ Attempts

HInv ==
    /\ Typed /\ PInv /\ GInv /\ mode \in {"task", "manager", "continuation"}
    /\ mode = "task" => TaskInv
    /\ mode # "task" => NotStarted

-----------------------------------------------------------------------------
(***************************************************************************)
(* What the assignments of the model do to the fields they name            *)
(***************************************************************************)
\* The root is a candidate and no child, and None is neither.
LEMMA Numbers ==
    /\ Root \in Candidates /\ Children \subseteq Candidates /\ Root \notin Children
    /\ \A c \in Candidates : c = Root \/ c \in Children
    /\ None \notin Candidates /\ ChildCount \in Nat /\ Candidates \subseteq Nat
    /\ \A c \in Candidates : c <= ChildCount
BY TaskAssumption, GroupAssumption, PromotionAssumption DEF Root, Children, Contents

\* A lost process is nowhere.
LEMMA DownType ==
    Down \in Runs /\ Down.at = "down" /\ Down.c = Root /\ Down.first = FALSE /\ Down.n = 0
BY Numbers DEF Down, Runs, RunStages

\* A stage is a place for run() to be, about the root unless it is said otherwise.
LEMMA StageType ==
    ASSUME NEW stage \in RunStages
    PROVE  /\ Stage(stage) \in Runs /\ Stage(stage).at = stage /\ Stage(stage).c = Root
           /\ Stage(stage).first = FALSE /\ Stage(stage).n = 0
BY DownType DEF Stage, Runs

\* Leaving a stage forgets what the stage was about.
LEMMA LeaveKeeps ==
    ASSUME NEW stage \in RunStages, Leave(stage)
    PROVE  run' \in Runs /\ run'.at = stage /\ run'.first = FALSE /\ run'.c = Root
BY StageType DEF Leave

\* Moving on within a candidate.
LEMMA GoKeeps ==
    ASSUME run \in Runs, NEW stage \in RunStages, Go(stage)
    PROVE  /\ run' \in Runs /\ run'.at = stage /\ run'.c = run.c
           /\ run'.first = run.first /\ run'.n = run.n
BY DEF Go, Runs

\* Moving on to a candidate.
LEMMA GoForKeeps ==
    ASSUME NEW stage \in RunStages, NEW c \in Candidates, GoFor(stage, c)
    PROVE  run' \in Runs /\ run'.at = stage /\ run'.c = c /\ run'.first = FALSE
BY StageType DEF GoFor, Runs

\* A change of status leaves the rest of the graph alone.
LEMMA SetStatusKeeps ==
    ASSUME node \in [Candidates -> Nodes], NEW c \in Candidates, NEW st \in NodeStatuses,
           SetStatus(c, st)
    PROVE  /\ node' \in [Candidates -> Nodes] /\ node'[c].st = st
           /\ \A d \in Candidates : d # c => node'[d].st = node[d].st
           /\ \A d \in Candidates : node'[d].pending = node[d].pending
           /\ \A d \in Candidates : node'[d].settled = node[d].settled
           /\ \A d \in Candidates : node'[d].observed = node[d].observed
           /\ \A d \in Candidates : node'[d].decision = node[d].decision
           /\ \A d \in Candidates : node'[d].decidedAt = node[d].decidedAt
           /\ \A d \in Candidates : node'[d].released = node[d].released
BY DEF SetStatus, Nodes

\* The task ends with an outcome.
LEMMA FinishKeeps ==
    ASSUME task \in Tasks, NEW o \in Outcomes, Finish(o)
    PROVE  /\ task' \in Tasks /\ task'.status = "terminal" /\ task'.outcome = o
           /\ task'.winner = task.winner /\ task'.branched = task.branched
           /\ task'.rootSnap = task.rootSnap /\ task'.rootSession = task.rootSession
BY DEF Finish, Tasks, TaskStatuses

-----------------------------------------------------------------------------
(***************************************************************************)
(* What the loop knows of the candidate it has chosen                      *)
(***************************************************************************)
\* No call is running and no result waits while run() is elsewhere.
LEMMA NoCall ==
    ASSUME Attempts, run.at \notin {"promoting", "recovering", "down"}
    PROVE  call.at = "idle" /\ call.result = None
BY DEF Attempts

\* The loop only chooses children that were started.
LEMMA ChosenFacts ==
    ASSUME Typed, TaskInv, NEW c \in Candidates, Chosen(c)
    PROVE  /\ run.at = "loop" /\ task.status = "running" /\ call.at = "idle" /\ call.result = None
           /\ node[c].st \notin {"absent", "failed", "pruned"} \/ node[c].pending
           /\ c \in Children => Dispatchable
<1>1. run.at = "loop" /\ task.status = "running" /\ Drivable(c)
    BY DEF Chosen, Running, RunAt
<1>2. call.at = "idle" /\ call.result = None
    BY <1>1, NoCall DEF TaskInv
<1>3. c \in Children => Started(c)
    BY <1>1, Numbers DEF Drivable, Started
<1> QED BY <1>1, <1>2, <1>3 DEF Drivable, TaskInv, Branch

\* A turn is only taken while there is no winner: a winner is driven first.
LEMMA TurningFacts ==
    ASSUME Typed, TaskInv, NEW c \in Candidates, Turning(c)
    PROVE  /\ run.at = "loop" /\ task.status = "running" /\ call.at = "idle" /\ call.result = None
           /\ node[c].st \in {"provisioning", "active"} /\ ~node[c].pending
           /\ c \in Children => Dispatchable /\ node[c].st = "active"
           /\ c = Root => ~task.branched
           /\ task.winner = None
<1>1. Chosen(c) /\ Drivable(c) /\ ~node[c].pending /\ node[c].st \in {"provisioning", "active"}
    BY DEF Turning, Chosen
<1>2. c = Root => ~task.branched
    BY <1>1 DEF TaskInv, Branch
<1>3. c \in Children => node[c].st = "active"
    BY <1>1, Numbers DEF Drivable
<1>4. ASSUME NEW w \in Candidates, task.winner = w PROVE FALSE
    <2>1. node[w].st = "winner" /\ ~node[w].pending /\ ~node[w].released
        BY <1>1, <1>4, ChosenFacts, Numbers DEF TaskInv, Graph
    <2>2. CASE node[c].st = "provisioning"
        BY <1>2, <1>3, <2>1, <2>2, Numbers DEF TaskInv, Branch
    <2>3. CASE node[c].st = "active"
        <3>1. Priority(c) = 6 /\ Priority(w) = 5
            BY <1>1, <2>1, <2>3 DEF Priority
        <3>2. Drivable(w)
            BY <2>1 DEF Drivable
        <3>3. Rank(c) <= Rank(w)
            BY <1>1, <3>2 DEF Chosen
        <3>4. 6 * (ChildCount + 1) + c <= 5 * (ChildCount + 1) + w
            BY <3>1, <3>3 DEF Rank
        <3>5. c \in Nat /\ w \in Nat /\ w <= ChildCount /\ ChildCount \in Nat
            BY Numbers
        <3> QED BY <3>4, <3>5
    <2> QED BY <1>1, <2>2, <2>3
<1>5. task.winner = None
    BY <1>4 DEF Typed, GraphType, Tasks
<1> QED BY <1>1, <1>2, <1>3, <1>5, ChosenFacts

-----------------------------------------------------------------------------
(***************************************************************************)
(* Steps that only move run()                                              *)
(***************************************************************************)
\* Such a step keeps what its new stage knows.
LEMMA MoveOnly ==
    ASSUME Typed, TaskInv, UNCHANGED <<graph, outside>>, call.at = "idle", call.result = None,
           run' \in Runs, run'.at \notin {"promoting", "recovering"}, workers' \subseteq Candidates,
           Here'
    PROVE  Typed' /\ TaskInv'
<1>1. Typed'
    BY DEF Typed, GraphType, LaneType, RootType, RunType, graph, outside
<1>2. Branch' /\ Turns' /\ Graph'
    BY DEF TaskInv, Branch, Turns, Graph, Started, Dispatchable, graph, outside, continuation
<1>3. Attempts'
    BY DEF TaskInv, Attempts, Before, graph, outside, promotion
<1> QED BY <1>1, <1>2, <1>3 DEF TaskInv

\* A task that is opened, or run again, starts from the loop.
LEMMA OpeningSteps ==
    ASSUME Typed, TaskInv, Reopen \/ RunAgain
    PROVE  Typed' /\ TaskInv'
<1>1. /\ UNCHANGED <<graph, workers, outside>> /\ call.at = "idle" /\ call.result = None
      /\ \E stage \in {"loop", "refused"} : Leave(stage)
    BY NoCall, IdleType DEF Reopen, RunAgain, RunAt, Free, Loop, TaskInv
<1>2. run' \in Runs /\ run'.at \in {"loop", "refused"}
    BY <1>1, LeaveKeeps DEF RunStages
<1>3. Here'
    BY <1>2 DEF Here, AboutCandidate, UnderWay
<1> QED BY <1>1, <1>2, <1>3, MoveOnly DEF Typed, RunType

\* Attaching a lease builds a worker, or throws.
LEMMA AttachStep ==
    ASSUME Typed, TaskInv, NEW c \in Candidates, AttachLease(c)
    PROVE  Typed' /\ TaskInv'
<1>1. UNCHANGED <<graph, outside>> /\ workers' \subseteq Candidates
      /\ run.at \in {"loop", "verify", "promote"} /\ (run' = run \/ run' = Stage("threw"))
    BY DEF AttachLease, WorkerMissing, Turning, Chosen, Running, RunAt, Typed, RunType
<1>2. run' \in Runs /\ (run' = run \/ run'.at = "threw")
    BY <1>1, StageType DEF Typed, RunType, RunStages
<1>3. Here'
    BY <1>1, <1>2 DEF TaskInv, Here, AboutCandidate, UnderWay, graph, outside, continuation,
       Dispatchable
<1>4. call.at = "idle" /\ call.result = None
    BY <1>1, NoCall DEF TaskInv
<1> QED BY <1>1, <1>2, <1>3, <1>4, MoveOnly

\* What is decided about a turn before it is taken.
LEMMA TurnMoves ==
    ASSUME Typed, TaskInv, NEW c \in Candidates,
           ResumeDecision(c) \/ PruneExhausted(c) \/ TurnRefused(c) \/ ReadTurn(c)
    PROVE  Typed' /\ TaskInv'
<1>1. /\ UNCHANGED <<graph, workers, outside>>
      /\ Turning(c) \/ (run.at = "turn" /\ run.c = c)
      /\ \/ Loop \/ Leave("select") \/ \E stage \in {"prune", "suspend"} : GoFor(stage, c)
         \/ GoFor("observe", c) /\ lane[c].op \in {"parked", "completed", "failed"}
    BY DEF ResumeDecision, PruneExhausted, TurnRefused, ReadTurn, Drives, Advances, RunAt, After
<1>2. /\ task.status = "running" /\ call.at = "idle" /\ call.result = None
      /\ node[c].st \in {"provisioning", "active"} /\ ~node[c].pending
      /\ c \in Children => Dispatchable
      /\ c = Root => ~task.branched
      /\ task.winner = None
    BY <1>1, TurningFacts, NoCall DEF TaskInv, Here, AboutCandidate, UnderWay
<1>3. CASE \E stage \in {"loop", "select"} : Leave(stage)
    <2>1. run' \in Runs /\ run'.at \in {"loop", "select"}
        BY <1>3, LeaveKeeps DEF RunStages
    <2>2. Here'
        BY <1>1, <1>2, <2>1 DEF Here, AboutCandidate, UnderWay, graph
    <2> QED BY <1>1, <1>2, <2>1, <2>2, MoveOnly DEF Typed, RunType
<1>4. CASE \/ \E stage \in {"prune", "suspend"} : GoFor(stage, c)
           \/ GoFor("observe", c) /\ lane[c].op \in {"parked", "completed", "failed"}
    <2>1. /\ run' \in Runs /\ run'.at \in {"prune", "suspend", "observe"}
          /\ run'.c = c /\ run'.first = FALSE
          /\ run'.at = "observe" => lane[c].op \in {"parked", "completed", "failed"}
        BY <1>4, GoForKeeps DEF RunStages
    <2>2. Here'
        BY <1>1, <1>2, <2>1, Numbers
        DEF Here, AboutCandidate, UnderWay, graph, outside, continuation, Dispatchable
    <2> QED BY <1>1, <1>2, <2>1, <2>2, MoveOnly DEF Typed, RunType
<1> QED BY <1>1, <1>3, <1>4 DEF Loop

\* Cleaning up goes on with a node of a task that has ended.
LEMMA CleanupNodeStep ==
    ASSUME Typed, TaskInv, NEW c \in Candidates, CleanupNode(c)
    PROVE  Typed' /\ TaskInv'
<1>1. /\ UNCHANGED <<graph, workers, outside>> /\ run.at \in {"cleanup", "loop"}
      /\ task.status = "terminal"
      /\ \/ run' = [at |-> "release", c |-> c, first |-> FALSE, n |-> c + 1]
         \/ Leave("threw")
    BY DEF CleanupNode, Cleaning, RunAt, Throw, TaskInv, Here
<1>2. run' \in Runs /\ run'.at \in {"release", "threw"}
    <2>1. c \in Nat /\ ChildCount \in Nat /\ c <= ChildCount
        BY Numbers
    <2>2. ASSUME run' = [at |-> "release", c |-> c, first |-> FALSE, n |-> c + 1]
          PROVE  run' \in Runs /\ run'.at = "release"
        BY <2>1, <2>2 DEF Runs, RunStages
    <2>3. Leave("threw") => run' \in Runs /\ run'.at = "threw"
        BY LeaveKeeps DEF RunStages
    <2> QED BY <1>1, <2>2, <2>3
<1>3. Here'
    BY <1>1, <1>2 DEF Here, AboutCandidate, UnderWay, graph
<1>4. call.at = "idle" /\ call.result = None
    BY <1>1, NoCall DEF TaskInv
<1> QED BY <1>1, <1>2, <1>3, <1>4, MoveOnly DEF Typed, RunType

-----------------------------------------------------------------------------
(***************************************************************************)
(* Steps that record something in the graph                                *)
(***************************************************************************)
\* The parts of the invariant a step keeps that leaves sessions, journals, leases and
\* the foreground alone, and no call waiting.
LEMMA GraphOnly ==
    ASSUME Typed, TaskInv, UNCHANGED outside, call.at = "idle", call.result = None,
           GraphType', RunType', task'.rootSnap = task.rootSnap, task'.branched = task.branched,
           \A c \in Candidates :
               journal[c].status \notin {"none", "rolled_back"} => task'.winner = c,
           task'.status = "terminal" => \A c \in Candidates : journal[c].status # "open",
           run'.at \notin {"promoting", "recovering"}
    PROVE  Typed' /\ Attempts'
<1>1. Typed'
    BY DEF Typed, LaneType, RootType, outside
<1>2. Attempts'
    BY DEF TaskInv, Attempts, Before, outside, promotion
<1> QED BY <1>1, <1>2

\* The task is planned once, with nothing but its root.
LEMMA PlanStep ==
    ASSUME Typed, TaskInv, PlanTask
    PROVE  Typed' /\ TaskInv'
<1>1. /\ run.at = "loop" /\ task.status = "planned" /\ UNCHANGED <<process, outside>>
      /\ task' = [task EXCEPT !.status = "running"] /\ SetStatus(Root, "provisioning")
    BY DEF PlanTask, RunAt
<1>2. /\ task' \in Tasks /\ task'.status = "running" /\ task'.outcome = task.outcome
      /\ task'.winner = task.winner /\ task'.branched = task.branched
      /\ task'.rootSnap = task.rootSnap
    BY <1>1 DEF Typed, GraphType, Tasks, TaskStatuses
<1>3. /\ node' \in [Candidates -> Nodes] /\ node'[Root].st = "provisioning"
      /\ \A d \in Candidates : d # Root => node'[d].st = node[d].st
      /\ \A d \in Candidates : node'[d].pending = node[d].pending
      /\ \A d \in Candidates : node'[d].decision = node[d].decision
      /\ \A d \in Candidates : node'[d].decidedAt = node[d].decidedAt
      /\ \A d \in Candidates : node'[d].released = node[d].released
    BY <1>1, Numbers, SetStatusKeeps DEF Typed, GraphType, NodeStatuses
<1>4. \A c \in Candidates : node[c].st = "absent" /\ ~node[c].pending
    BY <1>1 DEF TaskInv, Graph, Typed, GraphType, Nodes
<1>5. call.at = "idle" /\ call.result = None /\ task.winner = None
    BY <1>1, NoCall DEF TaskInv, Graph
<1>6. Branch'
    BY <1>1, <1>2, <1>3, <1>4, Numbers DEF TaskInv, Branch, Started, Dispatchable, outside,
       continuation
<1>7. Turns' /\ Here'
    BY <1>1, <1>2, <1>3 DEF TaskInv, Turns, Here, AboutCandidate, UnderWay, process, outside
<1>8. Graph'
    BY <1>1, <1>2, <1>3, <1>4, <1>5, Numbers DEF TaskInv, Graph
<1>9. GraphType' /\ RunType' /\ run'.at \notin {"promoting", "recovering"}
    BY <1>1, <1>2, <1>3 DEF Typed, GraphType, RunType, process
<1>10. Typed' /\ Attempts'
    BY <1>1, <1>2, <1>5, <1>9, GraphOnly DEF TaskInv, Attempts
<1> QED BY <1>6, <1>7, <1>8, <1>10 DEF TaskInv

\* The task ends where nothing can be driven, or selected; a lane that was suspended
\* suspends it.
LEMMA FinishSteps ==
    ASSUME Typed, TaskInv, NEW o \in Outcomes, Finish(o), task.status = "running",
           task.winner = None, UNCHANGED <<node, workers, outside>>,
           run' \in Runs, run'.at = "loop", call.at = "idle", call.result = None
    PROVE  Typed' /\ TaskInv'
<1>1. /\ task' \in Tasks /\ task'.status = "terminal" /\ task'.outcome = o
      /\ task'.winner = None /\ task'.branched = task.branched /\ task'.rootSnap = task.rootSnap
    BY FinishKeeps DEF Typed, GraphType
<1>2. GraphType' /\ RunType'
    BY <1>1 DEF Typed, GraphType, RunType
<1>3. Branch' /\ Turns'
    BY <1>1 DEF TaskInv, Branch, Turns, Started, Dispatchable, outside, continuation
<1>4. Graph'
    BY <1>1, OutcomeAssumption DEF TaskInv, Graph
<1>5. Here'
    BY DEF Here, AboutCandidate, UnderWay
<1>6. \A c \in Candidates : journal[c].status \in {"none", "rolled_back"}
    BY Numbers DEF TaskInv, Attempts
<1>7. Typed' /\ Attempts'
    BY <1>1, <1>2, <1>6, GraphOnly
<1> QED BY <1>3, <1>4, <1>5, <1>7 DEF TaskInv

\* A winner can be driven, so there is none when nothing can.
LEMMA NothingToDriveStep ==
    ASSUME Typed, TaskInv, NothingToDrive
    PROVE  Typed' /\ TaskInv'
<1>1. /\ run.at = "loop" /\ task.status = "running" /\ \A c \in Candidates : ~Drivable(c)
      /\ Finish(WithoutWinner) /\ UNCHANGED <<node, process, outside>>
    BY DEF NothingToDrive, Running, RunAt
<1>2. task.winner = None
    <2>1. ASSUME NEW w \in Candidates, task.winner = w PROVE FALSE
        BY <1>1, <2>1, Numbers DEF TaskInv, Graph, Drivable
    <2> QED BY <2>1 DEF Typed, GraphType, Tasks
<1>3. call.at = "idle" /\ call.result = None
    BY <1>1, NoCall DEF TaskInv
<1>4. WithoutWinner \in Outcomes
    BY DEF WithoutWinner, Outcomes
<1> QED BY <1>1, <1>2, <1>3, <1>4, FinishSteps DEF process, Typed, RunType

\* Only a candidate that took a turn suspends the task: there is no winner.
LEMMA SuspendTaskStep ==
    ASSUME Typed, TaskInv, SuspendTask
    PROVE  Typed' /\ TaskInv'
<1>1. /\ run.at = "suspended" /\ Finish("suspended") /\ Leave("loop")
      /\ UNCHANGED <<node, workers, outside>>
    BY DEF SuspendTask, RunAt, Loop
<1>2. task.status = "running" /\ task.winner = None /\ call.at = "idle" /\ call.result = None
    BY <1>1, NoCall DEF TaskInv, Here, UnderWay
<1>3. run' \in Runs /\ run'.at = "loop"
    BY <1>1, LeaveKeeps DEF RunStages
<1> QED BY <1>1, <1>2, <1>3, FinishSteps DEF Outcomes

\* Nothing is selected only when there is no winner.
LEMMA SelectTargetStep ==
    ASSUME Typed, TaskInv, SelectTarget
    PROVE  Typed' /\ TaskInv'
<1>1. /\ run.at \in {"select", "loop"} /\ task.status = "running"
      /\ UNCHANGED <<node, workers, outside>>
    BY DEF SelectTarget, Selecting, Chosen, Running, RunAt, TaskInv, Here, UnderWay
<1>2. call.at = "idle" /\ call.result = None
    BY <1>1, NoCall DEF TaskInv
<1>3. ASSUME NEW c \in Targets, GoFor("promote", c), UNCHANGED task PROVE Typed' /\ TaskInv'
    <2>1. c \in Candidates /\ node[c].st \in {"verified", "winner"}
        BY DEF Targets
    <2>2. run' \in Runs /\ run'.at = "promote" /\ run'.c = c
        BY <1>3, <2>1, GoForKeeps DEF RunStages
    <2>3. c \in Children => Dispatchable
        BY <2>1 DEF TaskInv, Branch, Started
    <2>4. Here'
        BY <1>1, <1>3, <2>1, <2>2, <2>3
        DEF Here, AboutCandidate, UnderWay, outside, continuation, Dispatchable
    <2> QED BY <1>1, <1>2, <1>3, <2>2, <2>4, MoveOnly DEF graph, Typed, RunType
<1>4. ASSUME Targets = {}, Finish(WithoutWinner), Loop PROVE Typed' /\ TaskInv'
    <2>1. task.winner = None
        <3>1. ASSUME NEW w \in Candidates, task.winner = w PROVE FALSE
            BY <1>1, <1>4, <3>1, Numbers DEF TaskInv, Graph, Targets
        <3> QED BY <3>1 DEF Typed, GraphType, Tasks
    <2>2. WithoutWinner \in Outcomes
        BY DEF WithoutWinner, Outcomes
    <2>3. run' \in Runs /\ run'.at = "loop"
        BY <1>4, LeaveKeeps DEF Loop, RunStages
    <2> QED BY <1>1, <1>2, <1>4, <2>1, <2>2, <2>3, FinishSteps
<1> QED BY <1>3, <1>4 DEF SelectTarget

\* The parts of the invariant kept by a step that gives one candidate, which run() is
\* about, a new status.
LEMMA StatusStep ==
    ASSUME Typed, TaskInv, NEW c \in Candidates, NEW st \in NodeStatuses, SetStatus(c, st),
           UNCHANGED <<task, outside>>, task.status = "running",
           call.at = "idle", call.result = None,
           run' \in Runs, run'.at \notin {"promoting", "recovering"}, workers' \subseteq Candidates,
           st \notin {"absent", "winner", "branch_origin", "branching"},
           node[c].st \notin {"absent", "winner", "pruned"}, node[c].pending => st = "verifying",
           c \in Children => Dispatchable,
           c = Root /\ task.branched => st \notin {"provisioning", "active"}
    PROVE  /\ Typed' /\ Branch' /\ Turns' /\ Graph' /\ Attempts'
           /\ node'[c].st = st /\ node'[c].pending = node[c].pending
<1>1. /\ node' \in [Candidates -> Nodes] /\ node'[c].st = st
      /\ \A d \in Candidates : d # c => node'[d].st = node[d].st
      /\ \A d \in Candidates : node'[d].pending = node[d].pending
      /\ \A d \in Candidates : node'[d].decision = node[d].decision
      /\ \A d \in Candidates : node'[d].decidedAt = node[d].decidedAt
      /\ \A d \in Candidates : node'[d].released = node[d].released
    BY SetStatusKeeps DEF Typed, GraphType
<1>2. GraphType' /\ RunType'
    BY <1>1 DEF Typed, GraphType, RunType
<1>3. Branch'
    BY <1>1, Numbers DEF TaskInv, Branch, Started, Dispatchable, outside, continuation
<1>4. Turns'
    BY <1>1 DEF TaskInv, Turns, outside
<1>5. Graph'
    <2>1. task.winner # None =>
            task.winner \in Candidates /\ node[task.winner].st = "winner" /\ task.winner # c
        BY DEF TaskInv, Graph, Typed, GraphType, Tasks
    <2>2. task.winner # None => node'[task.winner].st = "winner"
        BY <1>1, <2>1
    <2>3. \A d \in Candidates : node'[d].pending => node'[d].st = "verifying"
        BY <1>1 DEF TaskInv, Graph
    <2>4. \A d \in Candidates : node'[d].st = "winner" => task.winner = d
        BY <1>1 DEF TaskInv, Graph
    <2>5. \A d \in Candidates : node'[d].st # "pruned" => ~node'[d].released
        BY <1>1 DEF TaskInv, Graph
    <2>6. task'.status = "running" /\ task'.outcome = task.outcome /\ task'.winner = task.winner
        OBVIOUS
    <2> QED BY <2>2, <2>3, <2>4, <2>5, <2>6 DEF TaskInv, Graph
<1>6. Typed' /\ Attempts'
    BY <1>2, GraphOnly DEF TaskInv, Attempts
<1> QED BY <1>1, <1>3, <1>4, <1>5, <1>6

\* A candidate is given up, suspended, or its root run recorded.
LEMMA PruneSteps ==
    ASSUME Typed, TaskInv, Prune \/ SuspendCandidate \/ RecordRootRun
    PROVE  Typed' /\ TaskInv'
<1>1. /\ UNCHANGED <<task, workers, outside>>
      /\ run.at \in {"prune", "suspend", "observe"} /\ task.status = "running"
      /\ node[run.c].st \in {"provisioning", "active"} /\ ~node[run.c].pending
      /\ run.c \in Candidates /\ call.at = "idle" /\ call.result = None
      /\ run.c \in Children => Dispatchable
    BY NoCall DEF Prune, SuspendCandidate, RecordRootRun, RunAt, TaskInv, Here, AboutCandidate,
       UnderWay, Typed, RunType, Runs
<1>2. CASE Prune
    <2>1. run' \in Runs /\ run'.at = "release" /\ run'.c = run.c
        BY <1>2, GoKeeps DEF Prune, Typed, RunType, RunStages
    <2>2. /\ Typed' /\ Branch' /\ Turns' /\ Graph' /\ Attempts'
          /\ node'[run.c].st = "pruned"
        BY <1>1, <1>2, <2>1, StatusStep DEF Prune, NodeStatuses, Typed, RunType
    <2>3. Here'
        BY <1>1, <2>1, <2>2 DEF Here, AboutCandidate, UnderWay
    <2> QED BY <2>2, <2>3 DEF TaskInv
<1>3. CASE SuspendCandidate
    <2>1. run' \in Runs /\ run'.at = "suspended"
        BY <1>3, LeaveKeeps DEF SuspendCandidate, RunStages
    <2>2. /\ Typed' /\ Branch' /\ Turns' /\ Graph' /\ Attempts'
        BY <1>1, <1>3, <2>1, StatusStep DEF SuspendCandidate, NodeStatuses, Typed, RunType
    <2>3. Here'
        BY <1>1, <1>3, <2>1 DEF Here, AboutCandidate, UnderWay, TaskInv, SuspendCandidate, RunAt
    <2> QED BY <2>2, <2>3 DEF TaskInv
<1>4. CASE RecordRootRun
    <2>1. /\ run.first /\ run.c = Root /\ run.at = "observe" /\ ~task.branched
          /\ lane[Root].op \in {"parked", "completed", "failed"} /\ lane' = lane
        BY <1>1, <1>4 DEF RecordRootRun, RunAt, TaskInv, Here, outside
    <2>2. run' \in Runs /\ run'.at = "observe" /\ run'.c = Root /\ run'.first = FALSE
        BY <1>4, <2>1 DEF RecordRootRun, Typed, RunType, Runs
    <2>3. /\ Typed' /\ Branch' /\ Turns' /\ Graph' /\ Attempts'
          /\ node'[Root].st = "active" /\ node'[Root].pending = node[Root].pending
        BY <1>1, <1>4, <2>1, <2>2, StatusStep DEF RecordRootRun, NodeStatuses, Typed, RunType
    <2>4. Here'
        BY <1>1, <2>1, <2>2, <2>3, Numbers DEF Here, AboutCandidate, UnderWay
    <2> QED BY <2>3, <2>4 DEF TaskInv
<1> QED BY <1>2, <1>3, <1>4

-----------------------------------------------------------------------------
(***************************************************************************)
(* Steps outside the graph                                                 *)
(***************************************************************************)
\* The parts of the invariant a step keeps that records nothing in the graph and leaves
\* the foreground alone.
LEMMA Elsewhere ==
    ASSUME Typed, TaskInv, UNCHANGED <<graph, promotion>>, LaneType', Turns', RootType',
           group \subseteq group', group' # {} => task.branched,
           fork'.result = "ok" => Dispatchable',
           call.at = "idle", call.result = None,
           run' \in Runs, run'.at \notin {"promoting", "recovering"}, workers' \subseteq Candidates,
           Here'
    PROVE  Typed' /\ TaskInv'
<1>1. Typed'
    BY DEF Typed, GraphType, RunType, graph
<1>2. Branch' /\ Graph'
    BY DEF TaskInv, Branch, Graph, Started, Dispatchable, graph
<1>3. Attempts'
    BY DEF TaskInv, Attempts, Before, graph, promotion
<1> QED BY <1>1, <1>2, <1>3 DEF TaskInv

\* The root session is of no concern to the invariant.
LEMMA RootSessionStep ==
    ASSUME Typed, TaskInv, CreateRootSession
    PROVE  Typed' /\ TaskInv'
<1>1. /\ UNCHANGED <<node, process, outside>> /\ task' = [task EXCEPT !.rootSession = TRUE]
      /\ run.at \in {"loop", "verify", "promote"}
    BY DEF CreateRootSession, WorkerMissing, Turning, Chosen, Running, RunAt
<1>2. /\ task' \in Tasks /\ task'.status = task.status /\ task'.outcome = task.outcome
      /\ task'.winner = task.winner /\ task'.branched = task.branched
      /\ task'.rootSnap = task.rootSnap
    BY <1>1 DEF Typed, GraphType, Tasks
<1>3. Branch' /\ Turns' /\ Graph'
    BY <1>1, <1>2 DEF TaskInv, Branch, Turns, Graph, Started, Dispatchable, outside, continuation
<1>4. Here'
    BY <1>1, <1>2 DEF TaskInv, Here, AboutCandidate, UnderWay, Dispatchable, process, outside,
       continuation
<1>5. call.at = "idle" /\ call.result = None
    BY <1>1, NoCall DEF TaskInv
<1>6. Typed' /\ Attempts'
    BY <1>1, <1>2, <1>5, GraphOnly DEF Typed, GraphType, RunType, process, TaskInv, Attempts
<1> QED BY <1>3, <1>4, <1>6 DEF TaskInv

\* Giving a lease of the root another status.
LEMMA LeaseSet ==
    ASSUME NEW s \in Seq(LeaseStatuses), NEW i \in Nat, NEW v \in LeaseStatuses
    PROVE  [s EXCEPT ![i] = v] \in Seq(LeaseStatuses) /\ Len([s EXCEPT ![i] = v]) = Len(s)
<1>1. CASE i \in 1..Len(s)
    BY <1>1, ExceptSeq
<1>2. CASE i \notin 1..Len(s)
    <2>1. DOMAIN s = 1..Len(s) /\ s = [j \in 1..Len(s) |-> s[j]]
        OBVIOUS
    <2>2. [s EXCEPT ![i] = v] = [j \in DOMAIN s |-> s[j]]
        BY <1>2, <2>1, Zenon
    <2>3. [s EXCEPT ![i] = v] = s
        BY <2>1, <2>2
    <2> QED BY <2>3
<1> QED BY <1>1, <1>2

\* Steps on the root's leases.
LEMMA RootOnly ==
    ASSUME Typed, TaskInv, UNCHANGED <<graph, workers, lane, group, fork, promotion>>,
           RootType', call.at = "idle", call.result = None,
           run' \in Runs, run'.at \notin {"promoting", "recovering"}, Here'
    PROVE  Typed' /\ TaskInv'
<1>1. LaneType' /\ Turns' /\ workers' \subseteq Candidates
    BY DEF Typed, LaneType, RunType, TaskInv, Turns, graph
<1>2. /\ group \subseteq group' /\ (group' # {} => task.branched)
      /\ fork'.result = "ok" => Dispatchable'
    BY DEF TaskInv, Branch, Dispatchable
<1> QED BY <1>1, <1>2, Elsewhere

\* Capturing, materializing and cleaning up the root's snapshot.
LEMMA RootLeaseSteps ==
    ASSUME Typed, TaskInv, CaptureRoot \/ MaterializeRoot \/ CleanupRoot
    PROVE  Typed' /\ TaskInv'
<1>1. /\ UNCHANGED <<graph, workers, lane, group, fork, promotion>>
      /\ root \in Roots /\ task \in Tasks /\ task.rootSnap <= Len(root.leases)
    BY DEF CaptureRoot, MaterializeRoot, CleanupRoot, continuation, Typed, RootType, GraphType
<1>2. /\ run.at \in {"loop", "verify", "promote", "materializeRoot", "cleanup"}
      /\ \E stage \in {"materializeRoot", "recordRoot", "returned", "threw"} : Leave(stage)
    BY DEF CaptureRoot, MaterializeRoot, CleanupRoot, WorkerMissing, Turning, Chosen, Running,
       Cleaning, RunAt, Throw
<1>3. /\ run' \in Runs /\ run'.at \in {"materializeRoot", "recordRoot", "returned", "threw"}
    BY <1>2, LeaveKeeps DEF RunStages
<1>4. RootType'
    <2>1. CASE CaptureRoot
        <3>1. root' = [root EXCEPT !.leases = Append(root.leases, "creating")]
            BY <2>1 DEF CaptureRoot
        <3>2. /\ Append(root.leases, "creating") \in Seq(LeaseStatuses)
              /\ Len(Append(root.leases, "creating")) = Len(root.leases) + 1
              /\ Len(root.leases) \in Nat /\ task.rootSnap \in Nat
            BY <1>1 DEF Roots, LeaseStatuses, Tasks
        <3>3. root' \in Roots /\ root'.leases = Append(root.leases, "creating")
            BY <1>1, <3>1, <3>2 DEF Roots
        <3> QED BY <1>1, <3>2, <3>3 DEF RootType, graph
    <2>2. CASE MaterializeRoot
        <3>1. root' = [root EXCEPT !.leases[Len(root.leases)] = "ready"]
            BY <2>2 DEF MaterializeRoot
        <3>2. [root.leases EXCEPT ![Len(root.leases)] = "ready"] \in Seq(LeaseStatuses)
              /\ Len([root.leases EXCEPT ![Len(root.leases)] = "ready"]) = Len(root.leases)
            <4>1. /\ root.leases \in Seq(LeaseStatuses) /\ Len(root.leases) \in Nat
                  /\ "ready" \in LeaseStatuses
                BY <1>1 DEF Roots, LeaseStatuses
            <4> QED BY <4>1, LeaseSet
        <3>3. root' \in Roots /\ root'.leases = [root.leases EXCEPT ![Len(root.leases)] = "ready"]
            BY <1>1, <3>1, <3>2 DEF Roots
        <3> QED BY <1>1, <3>2, <3>3 DEF RootType, graph
    <2>3. CASE CleanupRoot
        <3>1. root' \in Roots /\ root'.leases = root.leases
            BY <1>1, <2>3 DEF CleanupRoot, Roots
        <3> QED BY <1>1, <3>1 DEF RootType, graph
    <2> QED BY <2>1, <2>2, <2>3
<1>5. call.at = "idle" /\ call.result = None
    BY <1>2, NoCall DEF TaskInv
<1>6. Here'
    BY <1>3 DEF Here, AboutCandidate, UnderWay
<1> QED BY <1>1, <1>3, <1>4, <1>5, <1>6, RootOnly

\* The snapshot that is recorded is the last one captured.
LEMMA RecordRootStep ==
    ASSUME Typed, TaskInv, RecordRoot
    PROVE  Typed' /\ TaskInv'
<1>1. /\ run.at = "recordRoot" /\ UNCHANGED <<node, outside>>
      /\ task' = [task EXCEPT !.rootSnap = Len(root.leases)]
      /\ workers' = workers \cup {Root} /\ Leave("loop")
    BY DEF RecordRoot, RunAt, Loop
<1>2. /\ task' \in Tasks /\ task'.status = task.status /\ task'.outcome = task.outcome
      /\ task'.winner = task.winner /\ task'.branched = task.branched
      /\ task'.rootSnap = Len(root.leases) /\ Len(root.leases) \in Nat
    BY <1>1 DEF Typed, GraphType, Tasks, RootType, Roots
<1>3. run' \in Runs /\ run'.at = "loop"
    BY <1>1, LeaveKeeps DEF RunStages
<1>4. Typed'
    BY <1>1, <1>2, <1>3, Numbers DEF Typed, GraphType, LaneType, RootType, RunType, outside
<1>5. Branch' /\ Turns' /\ Graph'
    BY <1>1, <1>2 DEF TaskInv, Branch, Turns, Graph, Started, Dispatchable, outside, continuation
<1>6. Here'
    BY <1>3 DEF Here, AboutCandidate, UnderWay
<1>7. Attempts'
    BY <1>1, <1>2, <1>3, NoCall DEF TaskInv, Attempts, Before, outside, promotion
<1> QED BY <1>4, <1>5, <1>6, <1>7 DEF TaskInv

\* A turn moves the lane of the candidate run() goes on to observe.
LEMMA TurnSteps ==
    ASSUME Typed, TaskInv, NEW c \in Candidates, Turn(c) \/ (c = Root /\ StartRoot)
    PROVE  Typed' /\ TaskInv'
<1>1. /\ UNCHANGED <<graph, workers, root, continuation, promotion, failures>>
      /\ Turning(c) \/ (run.at = "turn" /\ run.c = c)
    BY DEF Turn, StartRoot, Advances, Drives, RunAt
<1>2. /\ task.status = "running" /\ call.at = "idle" /\ call.result = None
      /\ node[c].st \in {"provisioning", "active"} /\ ~node[c].pending
      /\ c \in Children => Dispatchable
      /\ c = Root => ~task.branched
      /\ task.winner = None
    BY <1>1, TurningFacts, NoCall DEF TaskInv, Here, AboutCandidate, UnderWay
<1>3. /\ run' \in Runs /\ run'.c = c
      /\ \/ run'.at = "turn" /\ c = Root
         \/ run'.at = "observe" /\ (run'.first => run.at = "turn")
    BY DEF Turn, StartRoot, RunAt, Typed, RunType, Runs, RunStages
<1>4. /\ lane' \in [Candidates -> Lanes]
      /\ \A d \in Candidates : d # c => lane'[d] = lane[d]
      /\ run'.at = "turn" => lane'[c].op = "accepted" /\ lane'[c].turns = lane[c].turns
                             /\ lane[c].op = "idle"
      /\ run'.at = "observe" => lane'[c].op \in {"parked", "completed", "failed"}
    <2>1. CASE Turn(c)
        <3>1. PICK op \in {"parked", "completed", "failed"} :
                lane' = [lane EXCEPT ![c].op = op, ![c].turns = @ + 1]
            BY <2>1 DEF Turn
        <3>2. lane[c].turns + 1 \in Nat
            BY DEF Typed, LaneType, Lanes
        <3>3. run'.at = "observe"
            BY <2>1 DEF Turn, Typed, RunType, Runs
        <3> QED BY <3>1, <3>2, <3>3 DEF Typed, LaneType, Lanes
    <2>2. CASE c = Root /\ StartRoot
        <3>1. run'.at = "turn"
            BY <2>2 DEF StartRoot, Typed, RunType, Runs
        <3> QED BY <2>2, <3>1 DEF StartRoot, Typed, LaneType, Lanes
    <2> QED BY <2>1, <2>2
<1>5. LaneType' /\ Turns'
    BY <1>1, <1>3, <1>4 DEF LaneType, TaskInv, Turns, graph
<1>6. Here'
    <2>1. run'.at = "observe" /\ run'.first => c = Root
        BY <1>1, <1>3, TurningFacts DEF TaskInv, Here
    <2>2. UNCHANGED <<task, node, group>>
        BY <1>1 DEF graph, continuation
    <2> QED BY <1>2, <1>3, <1>4, <2>1, <2>2 DEF Here, AboutCandidate, UnderWay, Dispatchable
<1>7. RootType' /\ group' = group /\ fork' = fork /\ workers' \subseteq Candidates
    BY <1>1 DEF Typed, RootType, RunType, graph, continuation
<1>8. (group' # {} => task.branched) /\ (fork'.result = "ok" => Dispatchable')
    BY <1>7 DEF TaskInv, Branch, Dispatchable
<1> QED BY <1>1, <1>2, <1>3, <1>5, <1>6, <1>7, <1>8, Elsewhere

-----------------------------------------------------------------------------
(***************************************************************************)
(* Observing, deciding and branching                                       *)
(***************************************************************************)
\* An observation changes no status.
LEMMA ObserveStep ==
    ASSUME Typed, TaskInv, Observe
    PROVE  Typed' /\ TaskInv'
<1>1. /\ run.at = "observe" /\ ~run.first /\ UNCHANGED <<task, workers, outside>>
      /\ run.c \in Candidates /\ lane[run.c].op \in {"parked", "completed", "failed"}
      /\ lane[run.c].turns \in Nat /\ call.at = "idle" /\ call.result = None
    BY NoCall DEF Observe, RunAt, TaskInv, Here, Typed, RunType, Runs, LaneType, Lanes
<1>2. /\ node' \in [Candidates -> Nodes]
      /\ \A d \in Candidates : node'[d].st = node[d].st
      /\ \A d \in Candidates : node'[d].pending = node[d].pending
      /\ \A d \in Candidates : node'[d].decision = node[d].decision
      /\ \A d \in Candidates : node'[d].decidedAt = node[d].decidedAt
      /\ \A d \in Candidates : node'[d].released = node[d].released
    BY <1>1 DEF Observe, Typed, GraphType, Nodes
<1>3. run' \in Runs /\ run'.at = "decide" /\ run'.c = run.c
    BY GoKeeps DEF Observe, Typed, RunType, RunStages
<1>4. Branch' /\ Turns'
    <2>1. UNCHANGED <<task, group, fork, lane>>
        BY <1>1 DEF outside, continuation
    <2>2. Branch'
        BY <1>2, <2>1, Numbers DEF TaskInv, Branch, Started, Dispatchable
    <2> QED BY <1>2, <2>1, <2>2 DEF TaskInv, Turns
<1>5. Graph'
    BY <1>1, <1>2 DEF TaskInv, Graph, Typed, GraphType, Tasks
<1>6. Here'
    BY <1>1, <1>2, <1>3 DEF TaskInv, Here, AboutCandidate, UnderWay, Dispatchable, outside,
       continuation
<1>7. Typed' /\ Attempts'
    BY <1>1, <1>2, <1>3, GraphOnly DEF Typed, GraphType, RunType, TaskInv, Attempts
<1> QED BY <1>4, <1>5, <1>6, <1>7 DEF TaskInv

\* A decision is recorded with its turn; only an unbranched root branches.
LEMMA DecideStep ==
    ASSUME Typed, TaskInv, Decide
    PROVE  Typed' /\ TaskInv'
<1> DEFINE c == run.c
<1>1. /\ run.at = "decide" /\ UNCHANGED <<task, workers, outside>> /\ c \in Candidates
      /\ lane[c].turns \in Nat /\ call.at = "idle" /\ call.result = None
      /\ task.status = "running"
      /\ c \in Children => Dispatchable
      /\ node[c].st \in {"provisioning", "active"} /\ ~node[c].pending
      /\ c = Root => ~task.branched
    BY NoCall DEF Decide, RunAt, TaskInv, Here, AboutCandidate, UnderWay, Typed, RunType, Runs,
       LaneType, Lanes
<1>2. PICK failing \in BOOLEAN :
        /\ node' = [node EXCEPT ![c].decision = Decision(c, failing),
                        ![c].decidedAt = lane[c].turns,
                        ![c].st = IF Decision(c, failing) = "branch" THEN "branching"
                                  ELSE IF Decision(c, failing) = "verify" THEN "verifying" ELSE @]
        /\ After(Decision(c, failing), c)
    BY DEF Decide
<1> DEFINE d == Decision(c, failing)
<1>3. /\ d \in {"stop", "verify", "branch", "exhausted", "prune", "continue"}
      /\ d = "branch" => c = Root
    BY Zenon DEF Decision
<1> HIDE DEF d
<1>4. /\ node' \in [Candidates -> Nodes]
      /\ \A e \in Candidates : e # c => node'[e] = node[e]
      /\ node'[c].pending = node[c].pending /\ node'[c].released = node[c].released
      /\ node'[c].decision # "none"
      /\ d \in {"prune", "exhausted"} => node'[c].st = node[c].st
      /\ \/ node'[c].st = node[c].st
         \/ node'[c].st = "branching" /\ c = Root
         \/ node'[c].st = "verifying"
    <2>1. d \in Decisions /\ d # "none"
        BY <1>3 DEF Decisions
    <2>2. node' = [node EXCEPT ![c].decision = d, ![c].decidedAt = lane[c].turns,
                        ![c].st = IF d = "branch" THEN "branching"
                                  ELSE IF d = "verify" THEN "verifying" ELSE @]
        BY <1>2 DEF d
    <2> QED BY <1>1, <1>3, <2>1, <2>2 DEF Typed, GraphType, Nodes, NodeStatuses
<1>5. /\ run' \in Runs /\ run'.at \in {"prune", "select", "loop"}
      /\ run'.at = "prune" => run'.c = c /\ d \in {"prune", "exhausted"}
    <2>1. After(d, c)
        BY <1>2 DEF d
    <2>2. CASE d \in {"prune", "exhausted"}
        <3>1. GoFor("prune", c)
            BY <2>1, <2>2 DEF After
        <3> QED BY <1>1, <2>2, <3>1, GoForKeeps DEF RunStages
    <2>3. CASE d \notin {"prune", "exhausted"}
        <3>1. Leave("select") \/ Leave("loop")
            BY <2>1, <2>3 DEF After, Loop
        <3> QED BY <3>1, LeaveKeeps DEF RunStages
    <2> QED BY <2>2, <2>3
<1>6. Branch'
    BY <1>1, <1>4, Numbers DEF TaskInv, Branch, Started, Dispatchable, outside, continuation
<1>7. Turns'
    BY <1>1, <1>4 DEF TaskInv, Turns, outside
<1>8. Graph'
    <2>1. task.winner # None =>
            task.winner \in Candidates /\ node[task.winner].st = "winner" /\ task.winner # c
        BY <1>1 DEF TaskInv, Graph, Typed, GraphType, Tasks
    <2>2. task.winner # None => node'[task.winner].st = "winner"
        BY <1>4, <2>1
    <2>3. \A e \in Candidates : node'[e].pending => node'[e].st = "verifying"
        BY <1>1, <1>4 DEF TaskInv, Graph
    <2>4. \A e \in Candidates : node'[e].st = "winner" => task.winner = e
        BY <1>1, <1>4 DEF TaskInv, Graph
    <2>5. \A e \in Candidates : node'[e].st # "pruned" => ~node'[e].released
        BY <1>1, <1>4 DEF TaskInv, Graph
    <2>6. task.status = "running" /\ task' = task /\ task.outcome = None
        BY <1>1 DEF TaskInv, Graph
    <2> QED BY <2>2, <2>3, <2>4, <2>5, <2>6 DEF TaskInv, Graph
<1>9. Here'
    BY <1>1, <1>4, <1>5 DEF Here, AboutCandidate, UnderWay, Dispatchable, outside, continuation
<1>10. Typed' /\ Attempts'
    BY <1>1, <1>4, <1>5, GraphOnly DEF Typed, GraphType, RunType, TaskInv, Attempts
<1> QED BY <1>6, <1>7, <1>8, <1>9, <1>10 DEF TaskInv

\* A branch is committed before the group has begun, and while there is no winner.
LEMMA CommitBranchStep ==
    ASSUME Typed, TaskInv, CommitBranch
    PROVE  Typed' /\ TaskInv'
<1>1. /\ run.at = "loop" /\ task.status = "running" /\ call.at = "idle" /\ call.result = None
      /\ node[Root].st = "branching" /\ ~node[Root].pending
      /\ task' = [task EXCEPT !.branched = TRUE]
      /\ node' = [c \in Candidates |-> IF c = Root THEN [node[Root] EXCEPT !.st = "branch_origin"]
                                       ELSE Node("provisioning")]
      /\ UNCHANGED <<process, outside>>
    BY ChosenFacts, Numbers DEF CommitBranch
<1>2. ~task.branched /\ \A k \in Children : node[k].st = "absent"
    BY <1>1 DEF TaskInv, Branch
<1>3. task.winner = None
    BY <1>1, <1>2, Numbers DEF TaskInv, Graph, Typed, GraphType, Tasks
<1>4. /\ task' \in Tasks /\ task'.status = "running" /\ task'.outcome = task.outcome
      /\ task'.winner = None /\ task'.branched /\ task'.rootSnap = task.rootSnap
    BY <1>1, <1>3 DEF Typed, GraphType, Tasks
<1>5. /\ Node("provisioning") \in Nodes /\ Node("provisioning").st = "provisioning"
      /\ Node("provisioning").decidedAt = 0 /\ ~Node("provisioning").pending
      /\ ~Node("provisioning").released
    BY DEF Node, Nodes, NodeStatuses, Decisions
<1>6. /\ [node[Root] EXCEPT !.st = "branch_origin"] \in Nodes /\ node[Root] \in Nodes
    BY Numbers DEF Typed, GraphType, Nodes, NodeStatuses
<1>7. /\ node'[Root].st = "branch_origin" /\ node'[Root].pending = node[Root].pending
      /\ node'[Root].decision = node[Root].decision
      /\ node'[Root].decidedAt = node[Root].decidedAt /\ node'[Root].released = node[Root].released
    BY <1>1, <1>6, Numbers DEF Nodes
<1>8. \A k \in Children : node'[k] = Node("provisioning")
    BY <1>1, Numbers
<1>9. node' \in [Candidates -> Nodes]
    BY <1>1, <1>5, <1>6
<1>10. Branch'
    BY <1>1, <1>2, <1>4, <1>5, <1>7, <1>8, Numbers
    DEF TaskInv, Branch, Started, Dispatchable, outside, continuation
<1>11. Turns'
    BY <1>1, <1>5, <1>7, <1>8, Numbers DEF TaskInv, Turns, outside
<1>12. Graph'
    BY <1>1, <1>4, <1>5, <1>7, <1>8, Numbers DEF TaskInv, Graph
<1>13. Here'
    BY <1>1 DEF Here, AboutCandidate, UnderWay, process
<1>14. Typed'
    BY <1>1, <1>4, <1>9 DEF Typed, GraphType, LaneType, RootType, RunType, process, outside
<1>15. Attempts'
    BY <1>1, <1>3, <1>4 DEF TaskInv, Attempts, Before, process, outside, promotion
<1> QED BY <1>10, <1>11, <1>12, <1>13, <1>14, <1>15 DEF TaskInv

\* A call of the group never takes an event back, and returns "ok" only from a ready group.
LEMMA ForkOnly ==
    ASSUME GInv, ForkExact \/ ForkStep
    PROVE  /\ group \subseteq group'
           /\ fork'.result = "ok" => fork.result = "ok" \/ "ready" \in group'
<1>1. CASE Undo
    <2>1. UNCHANGED group
        BY <1>1 DEF Undo
    <2>2. ASSUME NEW k \in fork.held, ReleaseHeld(k)
          PROVE  fork'.result = fork.result
        BY <2>2, HeldMoves
    <2>3. ASSUME \/ fork' = [NoFork EXCEPT !.result = "error"]
                 \/ fork' = [fork EXCEPT !.at = "childFailed"]
          PROVE  fork'.result = "ok" => fork.result = "ok"
        BY <2>3, Facts DEF Forks, NoFork
    <2> QED BY <1>1, <2>1, <2>2, <2>3 DEF Undo, ForkReturns, ForkTo
<1>2. CASE ~Undo
    BY <1>2, NoForkType, Facts DEF ForkExact, ForkStep, Freeze, ForkSession, RecordSession,
       ForkLease, Materialize, RecordLease, AdmitRun, RecordRun, RecordReady, GroupReady,
       ForkFails, ChildFailed, GroupFailed, Unfreeze, ForkTo, ForkReturns, Hold, Forks, NoFork
<1> QED BY <1>1, <1>2

\* The group is only forked once the branch is committed.
LEMMA BeginForkStep ==
    ASSUME Typed, GInv, TaskInv, NEW c \in Candidates, BeginFork(c)
    PROVE  Typed' /\ TaskInv'
<1>1. /\ UNCHANGED <<graph, workers, lane, root, promotion>>
      /\ run.at \in {"loop", "verify", "promote"}
      /\ \/ Leave("threw") /\ UNCHANGED continuation
         \/ ForkExact /\ GoFor("forking", c)
      /\ \/ c = Root /\ Chosen(Root) /\ node[Root].st = "branch_origin"
         \/ c # Root /\ WorkerMissing(c)
    BY DEF BeginFork, WorkerMissing, Turning, Chosen, Running, RunAt, Throw
<1>2. task.status = "running" /\ task.branched
    <2>1. CASE c = Root /\ Chosen(Root) /\ node[Root].st = "branch_origin"
        BY <2>1, ChosenFacts DEF TaskInv, Branch
    <2>2. CASE c # Root /\ WorkerMissing(c)
        <3>1. c \in Children
            BY <2>2, Numbers
        <3>2. Chosen(c) \/ (run.at \in {"verify", "promote"} /\ run.c = c)
            BY <2>2 DEF WorkerMissing, Turning
        <3>3. task.status = "running" /\ Dispatchable
            BY <3>1, <3>2, ChosenFacts DEF TaskInv, Here, AboutCandidate, UnderWay
        <3> QED BY <3>3 DEF Dispatchable, TaskInv, Branch
    <2> QED BY <1>1, <2>1, <2>2
<1>3. run' \in Runs /\ run'.at \in {"threw", "forking"}
    BY <1>1, LeaveKeeps, GoForKeeps DEF RunStages
<1>4. call.at = "idle" /\ call.result = None
    BY <1>1, NoCall DEF TaskInv
<1>5. /\ group \subseteq group'
      /\ fork'.result = "ok" => Dispatchable'
    BY <1>1, ForkOnly DEF TaskInv, Branch, Dispatchable, continuation
<1>6. Here'
    BY <1>1, <1>2, <1>3 DEF Here, AboutCandidate, UnderWay, graph
<1>7. LaneType' /\ RootType' /\ Turns' /\ workers' \subseteq Candidates
    BY <1>1 DEF Typed, LaneType, RootType, RunType, TaskInv, Turns, graph
<1> QED BY <1>1, <1>2, <1>3, <1>4, <1>5, <1>6, <1>7, Elsewhere

\* A group that returned "ok" is ready, so its children may be provisioned.
LEMMA ForkingSteps ==
    ASSUME Typed, GInv, TaskInv, Forking \/ Forked
    PROVE  Typed' /\ TaskInv'
<1>1. /\ UNCHANGED <<graph, lane, root, promotion>> /\ run.at = "forking" /\ run.c \in Candidates
      /\ call.at = "idle" /\ call.result = None
    BY NoCall DEF Forking, Forked, RunAt, TaskInv, Typed, RunType, Runs
<1>2. /\ run' \in Runs /\ run'.at \in {"forking", "threw", "provision", "loop"}
      /\ workers' \subseteq Candidates
      /\ run'.at = "provision" => Dispatchable
    <2>1. CASE Forking
        BY <1>1, <2>1 DEF Forking, process, Typed, RunType
    <2>2. CASE Forked
        <3>1. /\ workers' = workers \/ workers' = workers \cup {run.c}
              /\ Leave("threw") \/ Go("provision") \/ Leave("loop")
              /\ Go("provision") => Leave("threw") \/ Leave("loop") \/ fork.result = "ok"
            BY <2>2 DEF Forked, Throw, Loop, ForkSucceeded
        <3>2. CASE Leave("threw") \/ Leave("loop")
            BY <1>1, <3>1, <3>2, LeaveKeeps DEF Typed, RunType, RunStages
        <3>3. CASE Go("provision") /\ fork.result = "ok"
            BY <1>1, <3>1, <3>3, GoKeeps DEF Typed, RunType, RunStages, TaskInv, Branch
        <3> QED BY <3>1, <3>2, <3>3
    <2> QED BY <2>1, <2>2
<1>3. /\ group \subseteq group'
      /\ fork'.result = "ok" => Dispatchable'
    BY ForkOnly, NoForkType DEF Forking, Forked, TaskInv, Branch, Dispatchable
<1>4. task.branched /\ task.status = "running"
    BY <1>1 DEF TaskInv, Here, UnderWay
<1>5. Here'
    BY <1>1, <1>2, <1>3, <1>4 DEF Here, AboutCandidate, UnderWay, Dispatchable, graph
<1>6. LaneType' /\ RootType' /\ Turns'
    BY <1>1 DEF Typed, LaneType, RootType, TaskInv, Turns, graph
<1> QED BY <1>1, <1>2, <1>3, <1>4, <1>5, <1>6, Elsewhere

\* A child becomes active in a ready group only.
LEMMA ProvisionStep ==
    ASSUME Typed, TaskInv, Provision
    PROVE  Typed' /\ TaskInv'
<1>1. /\ run.at = "provision" /\ task.status = "running" /\ Dispatchable
      /\ call.at = "idle" /\ call.result = None /\ UNCHANGED <<task, outside>>
      /\ Leave("loop") \/ Go("provision")
    BY NoCall DEF Provision, RunAt, TaskInv, Here, UnderWay, Loop
<1>2. PICK k \in Children : node[k].st = "provisioning" /\ SetStatus(k, "active")
                            /\ workers' = workers \cup {k}
    BY DEF Provision, Provisioning
<1>3. run' \in Runs /\ run'.at \in {"loop", "provision"}
    BY <1>1, LeaveKeeps, GoKeeps DEF RunStages, Typed, RunType
<1>4. k \in Candidates /\ k # Root /\ workers' \subseteq Candidates /\ ~node[k].pending
    BY <1>2, Numbers DEF Typed, RunType, TaskInv, Graph
<1>5. Typed' /\ Branch' /\ Turns' /\ Graph' /\ Attempts'
    BY <1>1, <1>2, <1>3, <1>4, StatusStep DEF NodeStatuses
<1>6. Here'
    BY <1>1, <1>3 DEF Here, AboutCandidate, UnderWay, Dispatchable, outside, continuation
<1> QED BY <1>5, <1>6 DEF TaskInv

-----------------------------------------------------------------------------
(***************************************************************************)
(* Verification and the winner                                             *)
(***************************************************************************)
\* A verification is pending while its candidate is verified.
LEMMA PlanVerifierStep ==
    ASSUME Typed, TaskInv, NEW c \in Candidates, PlanVerifier(c)
    PROVE  Typed' /\ TaskInv'
<1>1. /\ run.at = "loop" /\ task.status = "running" /\ call.at = "idle" /\ call.result = None
      /\ c \in Children => Dispatchable
    BY ChosenFacts DEF PlanVerifier
<1>2. /\ node[c].st = "verifying" /\ UNCHANGED <<task, workers, outside>>
      /\ node' = [node EXCEPT ![c].pending = TRUE] /\ GoFor("verify", c)
    BY DEF PlanVerifier
<1>3. /\ node' \in [Candidates -> Nodes] /\ node'[c].pending
      /\ \A d \in Candidates : d # c => node'[d].pending = node[d].pending
      /\ \A d \in Candidates : node'[d].st = node[d].st
      /\ \A d \in Candidates : node'[d].decision = node[d].decision
      /\ \A d \in Candidates : node'[d].decidedAt = node[d].decidedAt
      /\ \A d \in Candidates : node'[d].released = node[d].released
    BY <1>2 DEF Typed, GraphType, Nodes
<1>4. run' \in Runs /\ run'.at = "verify" /\ run'.c = c
    BY <1>2, GoForKeeps DEF RunStages
<1>5. UNCHANGED <<task, group, fork, lane>>
    BY <1>2 DEF outside, continuation
<1>6. Branch'
    BY <1>1, <1>2, <1>3, <1>5 DEF TaskInv, Branch, Started, Dispatchable
<1>7. Turns' /\ Graph'
    BY <1>1, <1>2, <1>3, <1>5 DEF TaskInv, Turns, Graph, Typed, GraphType, Tasks
<1>8. Here'
    BY <1>1, <1>3, <1>4, <1>5 DEF Here, AboutCandidate, UnderWay, Dispatchable
<1>9. Typed' /\ Attempts'
    BY <1>1, <1>2, <1>3, <1>4, GraphOnly DEF Typed, GraphType, RunType, TaskInv, Attempts
<1> QED BY <1>6, <1>7, <1>8, <1>9 DEF TaskInv

\* A verification that was planned is settled: the candidate is verified, has failed,
\* or is to be verified once more.
LEMMA VerdictStep ==
    ASSUME Typed, TaskInv, NEW c \in Candidates, NEW pass \in BOOLEAN, SettleVerifier(c, pass),
           node[c].pending, task.status = "running", UNCHANGED <<task, workers, outside>>,
           call.at = "idle", call.result = None, run' \in Runs, run'.at = "loop",
           c \in Children => Dispatchable
    PROVE  Typed' /\ TaskInv'
<1>1. node[c].st = "verifying"
    BY DEF TaskInv, Graph
<1> DEFINE verdict == CASE pass /\ node[c].st \in {"verifying", "active"}  -> "verified"
                        [] ~pass /\ node[c].settled = "completed"         -> "failed"
                        [] OTHER                                          -> node[c].st
<1>0. verdict \in {"verified", "failed", "verifying"}
    BY <1>1
<1>a. node' = [node EXCEPT ![c].pending = FALSE, ![c].st = verdict]
    BY DEF SettleVerifier, Typed, GraphType, Nodes
<1> HIDE DEF verdict
<1>2. /\ node' \in [Candidates -> Nodes] /\ ~node'[c].pending
      /\ node'[c].st \in {"verified", "failed", "verifying"}
      /\ \A d \in Candidates : d # c => node'[d].pending = node[d].pending
      /\ \A d \in Candidates : d # c => node'[d].st = node[d].st
      /\ \A d \in Candidates : node'[d].decision = node[d].decision
      /\ \A d \in Candidates : node'[d].decidedAt = node[d].decidedAt
      /\ \A d \in Candidates : node'[d].released = node[d].released
    BY <1>0, <1>a DEF Typed, GraphType, Nodes, NodeStatuses
<1>3. UNCHANGED <<task, group, fork, lane>>
    BY DEF outside, continuation
<1>4. Branch'
    BY <1>1, <1>2, <1>3, Numbers DEF TaskInv, Branch, Started, Dispatchable
<1>5. Turns'
    BY <1>2, <1>3 DEF TaskInv, Turns
<1>6. Graph'
    <2>1. task.winner # None =>
            task.winner \in Candidates /\ node[task.winner].st = "winner" /\ task.winner # c
        BY <1>1 DEF TaskInv, Graph, Typed, GraphType, Tasks
    <2>2. task.winner # None => node'[task.winner].st = "winner"
        BY <1>2, <2>1
    <2>3. \A d \in Candidates : node'[d].pending => node'[d].st = "verifying"
        BY <1>2 DEF TaskInv, Graph
    <2>4. \A d \in Candidates : node'[d].st = "winner" => task.winner = d
        BY <1>2 DEF TaskInv, Graph
    <2>5. \A d \in Candidates : node'[d].st # "pruned" => ~node'[d].released
        BY <1>1, <1>2 DEF TaskInv, Graph
    <2>6. task.status = "running" /\ task' = task /\ task.outcome = None
        BY DEF TaskInv, Graph
    <2> QED BY <2>2, <2>3, <2>4, <2>5, <2>6 DEF TaskInv, Graph
<1>7. Here'
    BY DEF Here, AboutCandidate, UnderWay
<1>8. Typed' /\ Attempts'
    BY <1>2, GraphOnly DEF Typed, GraphType, RunType, TaskInv, Attempts
<1> QED BY <1>4, <1>5, <1>6, <1>7, <1>8 DEF TaskInv

\* A verification that was pending is run or settled.
LEMMA VerifierSteps ==
    ASSUME Typed, TaskInv, NEW c \in Candidates, ResumeVerifier(c) \/ (c = run.c /\ RunVerifier)
    PROVE  Typed' /\ TaskInv'
<1>1. CASE ResumeVerifier(c)
    <2>1. /\ run.at = "loop" /\ task.status = "running" /\ call.at = "idle" /\ call.result = None
          /\ node[c].pending /\ UNCHANGED <<task, workers, outside>>
          /\ c \in Children => Dispatchable
        BY <1>1, ChosenFacts DEF ResumeVerifier
    <2>2. CASE GoFor("verify", c) /\ UNCHANGED node
        <3>1. run' \in Runs /\ run'.at = "verify" /\ run'.c = c
            BY <2>2, GoForKeeps DEF RunStages
        <3>2. Here'
            BY <2>1, <2>2, <3>1
            DEF Here, AboutCandidate, UnderWay, Dispatchable, outside, continuation
        <3> QED BY <2>1, <2>2, <3>1, <3>2, MoveOnly DEF graph, Typed, RunType
    <2>3. CASE SettleVerifier(c, FALSE) /\ UNCHANGED run
        BY <2>1, <2>3, VerdictStep DEF Typed, RunType
    <2> QED BY <1>1, <2>2, <2>3 DEF ResumeVerifier
<1>2. CASE c = run.c /\ RunVerifier
    <2>1. /\ run.at = "verify" /\ Leave("loop") /\ UNCHANGED <<task, workers, outside>>
          /\ \E pass \in BOOLEAN : SettleVerifier(c, pass)
        BY <1>2 DEF RunVerifier, RunAt, Loop
    <2>2. /\ task.status = "running" /\ node[c].pending /\ call.at = "idle" /\ call.result = None
          /\ c \in Children => Dispatchable
        BY <1>2, <2>1, NoCall DEF TaskInv, Here, AboutCandidate, UnderWay
    <2>3. run' \in Runs /\ run'.at = "loop"
        BY <2>1, LeaveKeeps DEF RunStages
    <2> QED BY <2>1, <2>2, <2>3, VerdictStep
<1> QED BY <1>1, <1>2

\* The slot is taken when it is free, and no attempt is left from before.
LEMMA SelectWinnerStep ==
    ASSUME Typed, TaskInv, SelectWinner
    PROVE  Typed' /\ TaskInv'
<1> DEFINE c == run.c
<1>1. /\ run.at = "promote" /\ c \in workers /\ c \in Candidates /\ UNCHANGED <<workers, outside>>
      /\ task.status = "running" /\ call.at = "idle" /\ call.result = None
      /\ node[c].st \in {"verified", "winner"}
      /\ c \in Children => Dispatchable
    BY NoCall DEF SelectWinner, RunAt, TaskInv, Here, AboutCandidate, UnderWay, Typed, RunType, Runs
<1>2. CASE task.winner \notin {None, c}
    <2>1. UNCHANGED graph /\ Leave("threw")
        BY <1>2 DEF SelectWinner, Throw
    <2>2. run' \in Runs /\ run'.at = "threw"
        BY <2>1, LeaveKeeps DEF RunStages
    <2>3. Here'
        BY <2>2 DEF Here, AboutCandidate, UnderWay
    <2> QED BY <1>1, <2>1, <2>2, <2>3, MoveOnly DEF Typed, RunType
<1>3. CASE task.winner \in {None, c}
    <2>1. task' = [task EXCEPT !.winner = c] /\ SetStatus(c, "winner") /\ Go("promoting")
        BY <1>3 DEF SelectWinner
    <2>2. /\ task' \in Tasks /\ task'.status = "running" /\ task'.outcome = task.outcome
          /\ task'.winner = c /\ task'.branched = task.branched /\ task'.rootSnap = task.rootSnap
        BY <1>1, <2>1 DEF Typed, GraphType, Tasks
    <2>3. /\ node' \in [Candidates -> Nodes] /\ node'[c].st = "winner"
          /\ \A d \in Candidates : d # c => node'[d].st = node[d].st
          /\ \A d \in Candidates : node'[d].pending = node[d].pending
          /\ \A d \in Candidates : node'[d].decision = node[d].decision
          /\ \A d \in Candidates : node'[d].decidedAt = node[d].decidedAt
          /\ \A d \in Candidates : node'[d].released = node[d].released
        BY <1>1, <2>1, SetStatusKeeps DEF Typed, GraphType, NodeStatuses
    <2>4. run' \in Runs /\ run'.at = "promoting" /\ run'.c = c
        BY <2>1, GoKeeps DEF Typed, RunType, RunStages
    <2>5. UNCHANGED <<group, fork, lane, root, journal, call, workers>>
        BY <1>1 DEF outside, continuation, promotion
    <2>6. Typed'
        BY <1>1, <2>2, <2>3, <2>4, <2>5 DEF Typed, GraphType, LaneType, RootType, RunType
    <2>7. Branch'
        BY <1>1, <2>2, <2>3, <2>5, Numbers DEF TaskInv, Branch, Started, Dispatchable
    <2>8. Turns'
        BY <2>3, <2>5 DEF TaskInv, Turns
    <2>9. Graph'
        <3>1. \A d \in Candidates : node'[d].st = "winner" => d = c
            BY <1>3, <2>3, Numbers DEF TaskInv, Graph
        <3>2. ~node[c].pending /\ ~node[c].released
            BY <1>1 DEF TaskInv, Graph
        <3> QED BY <1>1, <2>2, <2>3, <3>1, <3>2 DEF TaskInv, Graph
    <2>10. Here'
        BY <1>1, <2>2, <2>3, <2>4, <2>5 DEF Here, AboutCandidate, UnderWay, Dispatchable
    <2>11. Attempts'
        <3>1. \A d \in Candidates : journal[d].status \notin {"none", "rolled_back"} => d = c
            BY <1>3, Numbers DEF TaskInv, Attempts
        <3>2. call'.at = "idle" /\ call'.result \notin Results
            BY <1>1, <2>5, ResultAssumption
        <3> QED BY <2>2, <2>4, <2>5, <3>1, <3>2
            DEF TaskInv, Attempts, Before, Results, Final
    <2> QED BY <2>6, <2>7, <2>8, <2>9, <2>10, <2>11 DEF TaskInv
<1> QED BY <1>2, <1>3

-----------------------------------------------------------------------------
(***************************************************************************)
(* Promotion, as the task sees it                                          *)
(***************************************************************************)
\* What a step of a call does to its journal, and what it returns.
CallMoves ==
    /\ \A d \in Candidates : d # call.c => journal'[d] = journal[d]
    /\ \/ journal'[call.c].status = journal[call.c].status
       \/ call.at = "open" /\ journal'[call.c].status = "open"
       \/ /\ journal[call.c].status = "open"
          /\ journal'[call.c].status \in {"needs_attention", "promoted", "rolled_back"}
    /\ call'.at # "idle" => call'.c = call.c /\ call'.recovering = call.recovering
    /\ call'.at \in Before => call.at \in Before
    /\ call'.at # "idle" => call'.result = None
    /\ call'.result \in {"promoted", "needs_attention", "rolled_back"}
        => journal'[call.c].status = call'.result
    /\ call'.result \in {"verifier_failed", "foreground_changed"}
        => journal'[call.c].status = "none"

\* Moving on within a call that leaves the journals alone.
LEMMA MovesOn ==
    ASSUME call \in Calls, NEW stage \in CallStages, Goto(stage), UNCHANGED journal,
           call.result = None, stage \in Before => call.at \in Before
    PROVE  CallMoves
<1>1. call' \in Calls /\ call'.c = call.c /\ call'.recovering = call.recovering
      /\ call'.at = stage /\ call'.result = call.result
    BY DEF Goto, Calls
<1> QED BY <1>1, ResultAssumption DEF CallMoves, Results, Final

\* A result about a journal that the call leaves as it is.
LEMMA ReturnsWith ==
    ASSUME call \in Calls, NEW result \in Results, Return(result), UNCHANGED journal,
           result \in {"promoted", "needs_attention", "rolled_back"}
               => journal[call.c].status = result,
           result \in {"verifier_failed", "foreground_changed"}
               => journal[call.c].status = "none"
    PROVE  CallMoves
<1>1. call'.at = "idle" /\ call'.result = result
    BY DEF Return, Idle
<1> QED BY <1>1 DEF CallMoves, Before

\* The rollback is given up to the user.
LEMMA MovesToAttention ==
    ASSUME call \in Calls, call.c \in Candidates, journal \in [Candidates -> Journals],
           journal[call.c].status = "open", NeedsAttention
    PROVE  CallMoves
<1>1. call'.at = "idle" /\ call'.result = "needs_attention"
    BY DEF NeedsAttention, Return, Idle
<1>2. /\ journal'[call.c].status = "needs_attention"
      /\ \A d \in Candidates : d # call.c => journal'[d] = journal[d]
    BY StatusKeeps DEF NeedsAttention, Statuses, Journals
<1> QED BY <1>1, <1>2 DEF CallMoves, Before

\* A path that was rolled back leaves the status of its journal.
LEMMA MovesBack ==
    ASSUME call \in Calls, call.c \in Candidates, journal \in [Candidates -> Journals],
           call.result = None, NEW p \in Paths, RolledBack(p)
    PROVE  CallMoves
<1>1. call'.at = "rollback" /\ call'.c = call.c /\ call'.recovering = call.recovering
      /\ call'.result = None
    BY DEF RolledBack, Calls
<1>2. /\ journal'[call.c].status = journal[call.c].status
      /\ \A d \in Candidates : d # call.c => journal'[d] = journal[d]
    BY DEF RolledBack, Journals
<1> QED BY <1>1, <1>2, ResultAssumption DEF CallMoves, Before, Results, Final

\* What a call under way may rely on.
LEMMA CallFacts ==
    ASSUME PInv, call.at # "idle"
    PROVE  /\ call \in Calls /\ call.c \in Candidates /\ call.result = None
           /\ journal \in [Candidates -> Journals]
BY DEF PInv, PromotionTypeOK, Shape

\* Every step of a call is such a move.
LEMMA StepOfCall ==
    ASSUME PInv, PromotionStep
    PROVE  call.at # "idle" /\ call.c \in Candidates /\ CallMoves
<1>1. call.at # "idle"
    BY DEF PromotionStep, VerifyLease, Gate, Recheck, Open, Prepare, Apply, Record,
       VerifyForeground, Close, ApplyFails, Compare, Restore, Confirm, RollbackDone, RollbackFails,
       Settle, At
<1>2. /\ call \in Calls /\ call.c \in Candidates /\ call.result = None
      /\ journal \in [Candidates -> Journals]
    BY <1>1, CallFacts
<1> SUFFICES CallMoves
    BY <1>1, <1>2
<1>3. CASE VerifyLease \/ Gate \/ Recheck
    <2>1. journal[call.c].status = "none" /\ UNCHANGED journal /\ call.at \in Before
        BY <1>3 DEF VerifyLease, Gate, Recheck, At, PInv, Shape, Before
    <2>2. \/ \E stage \in {"gate", "open", "recheck"} : Goto(stage)
          \/ \E result \in {"verifier_failed", "foreground_changed"} : Return(result)
        BY <1>3, Zenon DEF VerifyLease, Gate, Recheck
    <2> QED BY <1>2, <2>1, <2>2, MovesOn, ReturnsWith DEF CallStages, Results
<1>4. CASE Open
    <2>1. journal[call.c].status = "none" /\ call.at = "open"
        BY <1>4 DEF Open, At, PInv, Shape, Before
    <2>2. CASE UNCHANGED journal
        <3>1. Return("conflict") \/ Return("fault")
            BY <1>2, <1>4, <2>1, <2>2, StatusKeeps DEF Open, Statuses
        <3> QED BY <1>2, <2>2, <3>1, ReturnsWith DEF Results
    <2>3. CASE journal' # journal
        <3>1. journal' = [journal EXCEPT ![call.c].status = "open"]
              /\ Goto(IF Planned(call.c) = {} THEN "close" ELSE "prepare")
            BY <1>4, <2>3 DEF Open
        <3>2. journal'[call.c].status = "open"
              /\ \A d \in Candidates : d # call.c => journal'[d] = journal[d]
            BY <1>2, <3>1 DEF Journals
        <3>3. /\ call'.at \in {"close", "prepare"} /\ call'.c = call.c /\ call'.result = None
              /\ call'.recovering = call.recovering
            BY <1>2, <3>1 DEF Goto, Calls
        <3> QED BY <2>1, <3>2, <3>3, ResultAssumption DEF CallMoves, Before, Results, Final
    <2> QED BY <2>2, <2>3
<1>5. CASE Prepare \/ Record
    <2>1. call.next \in Paths /\ call.at \in Writing
        BY <1>5 DEF Prepare, Record, At, PInv, Shape, Writing
    <2>2. /\ journal'[call.c].status = journal[call.c].status
          /\ \A d \in Candidates : d # call.c => journal'[d] = journal[d]
        BY <1>2, <1>5, <2>1 DEF Prepare, Record, Journals
    <2>3. /\ call'.at \in {"apply", "final", "prepare"} /\ call'.c = call.c /\ call'.result = None
          /\ call'.recovering = call.recovering
        BY <1>2, <1>5 DEF Prepare, Record, Goto, Calls
    <2> QED BY <2>2, <2>3, ResultAssumption DEF CallMoves, Before, Results, Final
<1>6. CASE Apply \/ VerifyForeground \/ ApplyFails
    <2>1. /\ UNCHANGED journal
          /\ Return("fault") \/ \E stage \in {"record", "close", "rollback"} : Goto(stage)
        BY <1>6, Zenon DEF Apply, VerifyForeground, ApplyFails
    <2> QED BY <1>2, <2>1, MovesOn, ReturnsWith DEF CallStages, Results, Before
<1>7. CASE Close \/ RollbackDone
    <2>1. journal[call.c].status = "open"
        BY <1>7 DEF Close, RollbackDone, At, PInv, Shape, Applied
    <2>2. PICK s \in {"promoted", "rolled_back"} : journal' = [journal EXCEPT ![call.c].status = s]
        BY <1>7 DEF Close, RollbackDone
    <2>3. /\ journal'[call.c].status = s
          /\ \A d \in Candidates : d # call.c => journal'[d] = journal[d]
        BY <1>2, <2>2 DEF Journals
    <2>4. /\ call'.at = "settle" /\ call'.c = call.c /\ call'.result = None
          /\ call'.recovering = call.recovering
        BY <1>2, <1>7 DEF Close, RollbackDone, Goto, Calls
    <2> QED BY <2>1, <2>3, <2>4, ResultAssumption DEF CallMoves, Before, Results, Final
<1>8. CASE Compare \/ Restore \/ Confirm
    <2>1. journal[call.c].status = "open"
        BY <1>8 DEF Compare, Restore, Confirm, At, PInv, Shape, Applied
    <2>2. \/ NeedsAttention \/ \E p \in Paths : RolledBack(p)
          \/ UNCHANGED journal /\ \E stage \in {"restore", "confirm"} : Goto(stage)
        BY <1>8 DEF Compare, Restore, Confirm
    <2> QED BY <1>2, <2>1, <2>2, MovesOn, MovesToAttention, MovesBack DEF CallStages, Before
<1>9. CASE RollbackFails
    BY <1>2, <1>9, ReturnsWith DEF RollbackFails, Results
<1>10. CASE Settle
    <2>1. /\ UNCHANGED journal
          /\ Return(IF call.recovering THEN "recovered" ELSE journal[call.c].status)
          /\ (journal[call.c].status \in Final \/ call.recovering)
        BY <1>10 DEF Settle, At, PInv, Shape
    <2>2. PICK result \in {"recovered", "promoted", "rolled_back"} :
            /\ Return(result)
            /\ result # "recovered" => result = journal[call.c].status
        BY <2>1 DEF Final
    <2> QED BY <1>2, <2>1, <2>2, ReturnsWith DEF Results, Final
<1> QED BY <1>1, <1>2, <1>3, <1>4, <1>5, <1>6, <1>7, <1>8, <1>9, <1>10 DEF PromotionStep

\* A call that begins.
LEMMA PromoteBegins ==
    ASSUME PInv, NEW c \in Candidates, Promote(c)
    PROVE  /\ UNCHANGED journal
           /\ call'.at # "idle" => call'.c = c /\ ~call'.recovering /\ call'.result = None
           /\ call'.result \in {"promoted", "needs_attention", "rolled_back"}
               => journal[c].status = call'.result
           /\ call'.result \notin {"verifier_failed", "foreground_changed"}
<1>1. CASE ReplayReceipt(c)
    BY <1>1 DEF ReplayReceipt, HasReceipt, Final, Return, Idle
<1>2. CASE Begin(c)
    BY <1>2, ResultAssumption DEF Begin, Return, Idle, Results, Final
<1> QED BY <1>1, <1>2 DEF Promote

\* A recovery that begins.
LEMMA RecoverBegins ==
    ASSUME PInv, NEW c \in Candidates, Recover(c)
    PROVE  /\ \A d \in Candidates : d # c => journal'[d] = journal[d]
           /\ journal'[c].status = journal[c].status \/ journal'[c].status = "none"
           /\ call'.at # "idle" => call'.c = c /\ call'.recovering /\ call'.result = None
           /\ call'.at \notin Before
           /\ call'.result \in {None, "recovered"}
<1>1. journal \in [Candidates -> Journals]
    BY DEF PInv, PromotionTypeOK
<1>2. CASE RecoverSettled(c)
    BY <1>2 DEF RecoverSettled, Return, Idle, Before
<1>3. CASE Discard(c)
    BY <1>1, <1>3 DEF Discard, NoJournal, Idle, Before
<1>4. CASE RecoverOpen(c)
    BY <1>4 DEF RecoverOpen, Idle, Before
<1> QED BY <1>2, <1>3, <1>4 DEF Recover

\* The parts of the invariant a step keeps that records nothing in the graph and leaves
\* the group alone.
LEMMA InForeground ==
    ASSUME Typed, TaskInv, UNCHANGED <<graph, lane, group, fork>>, RootType', run' \in Runs,
           workers' \subseteq Candidates,
           run'.at \in {"promoting", "recovering"} => run'.c \in workers'
    PROVE  Typed' /\ Branch' /\ Turns' /\ Graph'
<1>1. Typed'
    BY DEF Typed, GraphType, LaneType, RunType, graph
<1>2. Branch' /\ Turns' /\ Graph'
    BY DEF TaskInv, Branch, Turns, Graph, Started, Dispatchable, graph
<1> QED BY <1>1, <1>2

\* The attempt that begins is of the winner.
LEMMA BeginPromotionStep ==
    ASSUME Typed, PInv, TaskInv, BeginPromotion
    PROVE  Typed' /\ TaskInv'
<1>1. /\ run.at = "promoting" /\ run.c \in Candidates /\ task.status = "running"
      /\ UNCHANGED <<graph, workers, lane, root, continuation>> /\ call.at = "idle"
      /\ task.winner = run.c
    BY IdleType DEF BeginPromotion, RunAt, Free, TaskInv, Here, AboutCandidate, UnderWay, Typed,
       RunType, Runs
<1>2. CASE Promote(run.c) /\ UNCHANGED run
    <2>1. Typed' /\ Branch' /\ Turns' /\ Graph'
        BY <1>1, <1>2, InForeground DEF Typed, RootType, RunType, graph, continuation
    <2>2. Here'
        BY <1>1, <1>2 DEF TaskInv, Here, AboutCandidate, UnderWay, Dispatchable, graph, continuation
    <2>3. Attempts'
        BY <1>1, <1>2, PromoteBegins DEF TaskInv, Attempts, Before, graph
    <2> QED BY <2>1, <2>2, <2>3 DEF TaskInv
<1>3. CASE Throw /\ UNCHANGED <<promotion, failures>>
    <2>1. run' \in Runs /\ run'.at = "threw"
        BY <1>3, LeaveKeeps DEF Throw, RunStages
    <2>2. call' = Idle /\ UNCHANGED journal
        BY <1>3 DEF BeginPromotion, Free, promotion
    <2>3. Typed' /\ Branch' /\ Turns' /\ Graph'
        BY <1>1, <2>1, InForeground DEF Typed, RootType, RunType, graph, continuation
    <2>4. Here'
        BY <2>1 DEF Here, AboutCandidate, UnderWay
    <2>5. Attempts'
        BY <1>1, <2>1, <2>2, IdleType DEF TaskInv, Attempts, Before, graph
    <2> QED BY <2>3, <2>4, <2>5 DEF TaskInv
<1> QED BY <1>2, <1>3 DEF BeginPromotion

\* A call moves the journal of the winner only.
LEMMA PromotingStep ==
    ASSUME Typed, PInv, TaskInv, Promoting
    PROVE  Typed' /\ TaskInv'
<1>1. /\ PromotionStep /\ UNCHANGED <<graph, process, lane, root, continuation>>
      /\ call.at # "idle" /\ call.c \in Candidates /\ CallMoves
    BY StepOfCall DEF Promoting
<1>2. Typed' /\ Branch' /\ Turns' /\ Graph'
    BY <1>1, InForeground DEF Typed, RootType, RunType, graph, continuation, process
<1>3. Here'
    BY <1>1 DEF TaskInv, Here, AboutCandidate, UnderWay, Dispatchable, graph, continuation, process
<1>4. Attempts'
    <2>1. UNCHANGED <<task, run>> /\ run.at \in {"promoting", "recovering", "down"}
        BY <1>1 DEF graph, process, TaskInv, Attempts
    <2>2. call.at = "open" => task.winner = call.c /\ task.status = "running"
        BY <1>1, <2>1 DEF TaskInv, Attempts, Here, Before, AboutCandidate, UnderWay
    <2>3. \A d \in Candidates : journal'[d].status \notin {"none", "rolled_back"} => task.winner = d
        BY <1>1, <2>2 DEF CallMoves, TaskInv, Attempts
    <2>4. task.status = "terminal" => \A d \in Candidates : journal'[d].status # "open"
        BY <1>1, <2>2 DEF CallMoves, TaskInv, Attempts
    <2>5. run.at \in {"promoting", "recovering"} => call.c = run.c
        BY <1>1 DEF TaskInv, Attempts
    <2>6. call'.at # "idle" /\ ~call'.recovering => run.at = "promoting"
        BY <1>1 DEF CallMoves, TaskInv, Attempts
    <2>7. call'.at \in Before => ~call'.recovering
        BY <1>1 DEF CallMoves, TaskInv, Attempts, Before
    <2>8. call'.at # "idle" => call'.c = call.c
        BY <1>1 DEF CallMoves
    <2>9. /\ call'.result \in {"promoted", "needs_attention", "rolled_back"}
              => journal'[call.c].status = call'.result
          /\ call'.result \in {"verifier_failed", "foreground_changed"}
              => journal'[call.c].status = "none"
        BY <1>1 DEF CallMoves
    <2> QED BY <2>1, <2>3, <2>4, <2>5, <2>6, <2>7, <2>8, <2>9 DEF Attempts
<1> QED BY <1>2, <1>3, <1>4 DEF TaskInv

\* Recovery of the leases keeps their number.
LEMMA RecoveredRoot ==
    ASSUME root \in Roots,
           root' = [root EXCEPT !.leases = [i \in DOMAIN @ |-> RecoveredLease(@[i])]]
    PROVE  root' \in Roots /\ Len(root'.leases) = Len(root.leases)
<1> DEFINE s == root.leases
           t == [i \in DOMAIN s |-> RecoveredLease(s[i])]
<1>1. s \in Seq(LeaseStatuses) /\ DOMAIN s = 1..Len(s) /\ Len(s) \in Nat
    BY DEF Roots
<1>2. \A i \in 1..Len(s) : t[i] \in LeaseStatuses
    BY <1>1 DEF RecoveredLease, LeaseStatuses
<1>3. t \in [1..Len(s) -> LeaseStatuses]
    BY <1>1, <1>2
<1>4. t \in Seq(LeaseStatuses) /\ Len(t) = Len(s)
    BY <1>1, <1>3
<1>5. root' = [root EXCEPT !.leases = t]
    BY DEF Roots
<1> HIDE DEF t
<1> QED BY <1>4, <1>5 DEF Roots

\* Recovery, of the task or of its host, opens no attempt.
LEMMA BeginRecoveryStep ==
    ASSUME Typed, PInv, TaskInv, BeginRecovery
    PROVE  Typed' /\ TaskInv'
<1>1. /\ UNCHANGED <<graph, process, lane, group, fork>> /\ call.at = "idle"
      /\ root' = [root EXCEPT !.leases = [i \in DOMAIN @ |-> RecoveredLease(@[i])]]
    BY IdleType DEF BeginRecovery, Free
<1>2. PICK c \in Candidates :
        Recover(c) /\ ((run.at = "recovering" /\ c = run.c) \/ run.at = "down")
    BY DEF BeginRecovery, RunAt, Typed, RunType, Runs
<1>3. root' \in Roots /\ Len(root'.leases) = Len(root.leases)
    BY <1>1, RecoveredRoot DEF Typed, RootType
<1>4. Typed' /\ Branch' /\ Turns' /\ Graph'
    BY <1>1, <1>3, InForeground DEF Typed, RootType, RunType, graph, process
<1>5. Here'
    BY <1>1 DEF TaskInv, Here, AboutCandidate, UnderWay, Dispatchable, graph, process
<1>6. Attempts'
    <2>1. UNCHANGED <<task, run>>
        BY <1>1 DEF graph, process
    <2>2. /\ \A d \in Candidates : d # c => journal'[d] = journal[d]
          /\ journal'[c].status = journal[c].status \/ journal'[c].status = "none"
          /\ call'.at # "idle" => call'.c = c /\ call'.recovering
          /\ call'.at \notin Before
          /\ call'.result \in {None, "recovered"}
        BY <1>2, RecoverBegins
    <2>3. \A d \in Candidates :
            journal'[d].status = journal[d].status \/ journal'[d].status = "none"
        BY <2>2
    <2> QED BY <1>2, <2>1, <2>2, <2>3, ResultAssumption DEF TaskInv, Attempts, Results, Final
<1> QED BY <1>4, <1>5, <1>6 DEF TaskInv

\* The host takes the result of its recovery.
LEMMA HostRecoveredStep ==
    ASSUME Typed, TaskInv, HostRecovered
    PROVE  Typed' /\ TaskInv'
<1>1. /\ UNCHANGED <<graph, process, lane, root, continuation, journal>> /\ call' = Idle
      /\ run.at = "down"
    BY DEF HostRecovered, RunAt
<1>2. Typed' /\ Branch' /\ Turns' /\ Graph'
    BY <1>1, InForeground DEF Typed, RootType, RunType, graph, continuation, process
<1>3. Here'
    BY <1>1 DEF Here, AboutCandidate, UnderWay, process
<1>4. Attempts'
    BY <1>1, IdleType DEF TaskInv, Attempts, Before, graph, process
<1> QED BY <1>2, <1>3, <1>4 DEF TaskInv

\* An attempt ends the task, is given up, or is taken up again.
LEMMA PromotionEndsStep ==
    ASSUME Typed, TaskInv, PromotionEnds
    PROVE  Typed' /\ TaskInv'
<1> DEFINE c == run.c
<1>1. /\ run.at \in {"promoting", "recovering"} /\ c \in Candidates /\ c \in workers
      /\ task.status = "running" /\ task.winner = c /\ task.outcome = None
      /\ UNCHANGED <<workers, lane, root, continuation, journal>> /\ call' = Idle
      /\ node[c].st = "winner"
    BY Numbers
    DEF PromotionEnds, TaskInv, Here, AboutCandidate, UnderWay, Graph, Typed, RunType, Runs
<1>2. UNCHANGED <<group, fork, lane, root, journal, workers>>
    BY <1>1 DEF continuation
<1>3. CASE call.result \in Ending /\ Finish(call.result) /\ Loop /\ UNCHANGED node
    <2>1. /\ task' \in Tasks /\ task'.status = "terminal" /\ task'.outcome = call.result
          /\ task'.winner = c /\ task'.branched = task.branched /\ task'.rootSnap = task.rootSnap
          /\ call.result # None
        BY <1>1, <1>3, FinishKeeps, OutcomeAssumption DEF Typed, GraphType, Ending, Outcomes
    <2>2. run' \in Runs /\ run'.at = "loop"
        BY <1>3, LeaveKeeps DEF Loop, RunStages
    <2>3. Typed'
        BY <1>1, <1>2, <1>3, <2>1, <2>2 DEF Typed, GraphType, LaneType, RootType, RunType
    <2>4. Branch' /\ Turns'
        BY <1>2, <1>3, <2>1 DEF TaskInv, Branch, Turns, Started, Dispatchable
    <2>5. Graph'
        BY <1>1, <1>3, <2>1 DEF TaskInv, Graph
    <2>6. Here'
        BY <2>2 DEF Here, AboutCandidate, UnderWay
    <2>7. \A d \in Candidates : journal[d].status # "open"
        BY <1>1, <1>3 DEF TaskInv, Attempts, Ending
    <2>8. Attempts'
        BY <1>1, <1>2, <2>1, <2>2, <2>7, IdleType DEF TaskInv, Attempts, Before
    <2> QED BY <2>3, <2>4, <2>5, <2>6, <2>8 DEF TaskInv
<1>4. CASE call.result \in GivingUp /\ Demoted /\ Leave("select")
    <2>1. SetStatus(c, "failed") /\ task' = [task EXCEPT !.winner = None]
        BY <1>4 DEF Demoted
    <2>2. /\ task' \in Tasks /\ task'.status = "running" /\ task'.outcome = None
          /\ task'.winner = None /\ task'.branched = task.branched /\ task'.rootSnap = task.rootSnap
        BY <1>1, <2>1 DEF Typed, GraphType, Tasks
    <2>3. /\ node' \in [Candidates -> Nodes] /\ node'[c].st = "failed"
          /\ \A d \in Candidates : d # c => node'[d].st = node[d].st
          /\ \A d \in Candidates : node'[d].pending = node[d].pending
          /\ \A d \in Candidates : node'[d].decision = node[d].decision
          /\ \A d \in Candidates : node'[d].decidedAt = node[d].decidedAt
          /\ \A d \in Candidates : node'[d].released = node[d].released
        BY <1>1, <2>1, SetStatusKeeps DEF Typed, GraphType, NodeStatuses
    <2>4. run' \in Runs /\ run'.at = "select"
        BY <1>4, LeaveKeeps DEF RunStages
    <2>5. Typed'
        BY <1>1, <1>2, <2>2, <2>3, <2>4 DEF Typed, GraphType, LaneType, RootType, RunType
    <2>6. Branch'
        BY <1>1, <1>2, <2>2, <2>3, Numbers DEF TaskInv, Branch, Started, Dispatchable
    <2>7. Turns'
        BY <1>2, <2>3 DEF TaskInv, Turns
    <2>8. Graph'
        <3>1. \A d \in Candidates : node'[d].st # "winner"
            BY <1>1, <2>3 DEF TaskInv, Graph
        <3>2. ~node[c].pending /\ ~node[c].released
            BY <1>1 DEF TaskInv, Graph
        <3> QED BY <1>1, <2>2, <2>3, <3>1, <3>2 DEF TaskInv, Graph
    <2>9. Here'
        BY <2>2, <2>4 DEF Here, AboutCandidate, UnderWay
    <2>10. \A d \in Candidates : journal[d].status \in {"none", "rolled_back"}
        <3>1. call.result \in {"verifier_failed", "rolled_back"}
            BY <1>4 DEF GivingUp, Results, Final, Ending
        <3> QED BY <1>1, <3>1 DEF TaskInv, Attempts
    <2>11. Attempts'
        BY <1>1, <1>2, <2>2, <2>4, <2>10, IdleType DEF TaskInv, Attempts, Before
    <2> QED BY <2>5, <2>6, <2>7, <2>8, <2>9, <2>11 DEF TaskInv
<1>5. CASE UNCHANGED graph
    <2>1. \/ Go("recovering") \/ Leave("threw")
          \/ run' = [run EXCEPT !.at = "promoting", !.n = 1]
        <3>1. ~(UNCHANGED graph /\ Demoted)
            <4>1. SetStatus(c, "failed") /\ c \in Candidates => node'[c].st = "failed"
                BY SetStatusKeeps DEF Typed, GraphType, NodeStatuses
            <4> QED BY <1>1, <4>1 DEF Demoted, graph
        <3>2. call.result \in Ending => ~(UNCHANGED graph /\ Finish(call.result))
            BY <1>1, FinishKeeps DEF Typed, GraphType, Ending, Outcomes, graph
        <3> QED BY <1>5, <3>1, <3>2 DEF PromotionEnds, Throw
    <2>2. [run EXCEPT !.at = "promoting", !.n = 1] \in Runs
        <3>1. 1 \in 0..(ChildCount + 3)
            <4>1. ChildCount \in Nat
                BY Numbers
            <4> QED BY <4>1
        <3> QED BY <3>1 DEF Typed, RunType, Runs, RunStages
    <2>3. /\ run' \in Runs /\ run'.at \in {"recovering", "threw", "promoting"}
          /\ run'.at # "threw" => run'.c = c
        BY <2>1, <2>2, GoKeeps, LeaveKeeps DEF Typed, RunType, RunStages, Runs
    <2>4. Typed' /\ Branch' /\ Turns' /\ Graph'
        BY <1>1, <1>2, <1>5, <2>3, InForeground DEF Typed, RootType, RunType, graph
    <2>5. c \in Children => Dispatchable
        BY <1>1 DEF TaskInv, Here, AboutCandidate
    <2>6. Here'
        BY <1>1, <1>2, <1>5, <2>3, <2>5 DEF Here, AboutCandidate, UnderWay, Dispatchable, graph
    <2>7. Attempts'
        BY <1>1, <1>2, <1>5, <2>3, IdleType, ResultAssumption
        DEF TaskInv, Attempts, Before, graph, Results, Final
    <2> QED BY <2>4, <2>6, <2>7 DEF TaskInv
<1> QED BY <1>3, <1>4, <1>5 DEF PromotionEnds

-----------------------------------------------------------------------------
(***************************************************************************)
(* Release, cleanup, the process and the user                              *)
(***************************************************************************)
\* A workspace is let go of, step by step.
LettingGo == Release \/ Remove \/ Unreference

\* What all of these steps leave alone, and where they lead.
LEMMA LettingGoKeeps ==
    ASSUME Typed, LettingGo
    PROVE  /\ run.at \in {"release", "removing", "unreference"}
           /\ run' \in Runs /\ run'.at \in {"removing", "unreference", "released"}
           /\ run'.c = run.c /\ run'.n = run.n
           /\ UNCHANGED <<graph, workers, lane, group, child, frozen, session, runs, fork,
                          promotion>>
<1>1. run.at \in {"release", "removing", "unreference"}
    BY DEF LettingGo, Release, Remove, Unreference, RunAt
<1>2. UNCHANGED <<graph, workers, lane, group, child, frozen, session, runs, fork, promotion>>
    BY DEF LettingGo, Release, Remove, Unreference
<1>3. \E stage \in {"removing", "unreference", "released"} : Go(stage)
    BY DEF LettingGo, Release, Remove, Unreference
<1> QED BY <1>1, <1>2, <1>3, GoKeeps DEF Typed, RunType, RunStages

\* A mark on the root's lease.
LEMMA MarksRoot ==
    ASSUME Typed, NEW v \in LeaseStatuses, Mark(Root, v)
    PROVE  /\ root' \in Roots /\ root'.leases = [root.leases EXCEPT ![task.rootSnap] = v]
           /\ Len(root'.leases) = Len(root.leases) /\ root'.released = root.released
           /\ UNCHANGED lease
<1>1. /\ root \in Roots /\ root.leases \in Seq(LeaseStatuses) /\ root.released \in BOOLEAN
      /\ task.rootSnap \in Nat
    BY DEF Typed, RootType, Roots, GraphType, Tasks
<1>2. root' = [root EXCEPT !.leases[task.rootSnap] = v] /\ UNCHANGED lease
    BY DEF Mark
<1>3. /\ root'.leases = [root.leases EXCEPT ![task.rootSnap] = v]
      /\ root' = [leases |-> root'.leases, released |-> root.released]
    BY <1>1, <1>2 DEF Roots
<1>4. root'.leases \in Seq(LeaseStatuses) /\ Len(root'.leases) = Len(root.leases)
    BY <1>1, <1>3, LeaseSet
<1> QED BY <1>1, <1>2, <1>3, <1>4 DEF Roots

\* A mark on a child's.
LEMMA MarksChild ==
    ASSUME NEW k \in Children, NEW v, Mark(k, v)
    PROVE  lease' = [lease EXCEPT ![k] = v] /\ UNCHANGED root
BY Numbers DEF Mark, MarkLease

\* The root keeps its leases, whoever's workspace it is.
LEMMA LettingGoTypes ==
    ASSUME Typed, LettingGo
    PROVE  /\ RootType' /\ Len(root'.leases) = Len(root.leases)
           /\ lease \in [Children -> LeaseStatuses] => lease' \in [Children -> LeaseStatuses]
           /\ snapReleased \in BOOLEAN => snapReleased' \in BOOLEAN
<1>1. /\ root \in Roots /\ task.rootSnap <= Len(root.leases) /\ task' = task
      /\ run.c \in Candidates
    BY LettingGoKeeps DEF Typed, RootType, RunType, Runs, graph
<1>2. ASSUME NEW v \in {"releasing", "released", "orphaned"}, Mark(run.c, v), UNCHANGED snapReleased
      PROVE  /\ root' \in Roots /\ Len(root'.leases) = Len(root.leases)
             /\ lease \in [Children -> LeaseStatuses] => lease' \in [Children -> LeaseStatuses]
    <2>1. v \in LeaseStatuses
        BY <1>2 DEF LeaseStatuses
    <2>2. CASE run.c = Root
        BY <1>2, <2>1, <2>2, MarksRoot
    <2>3. CASE run.c \in Children
        <3>1. lease' = [lease EXCEPT ![run.c] = v] /\ UNCHANGED root
            BY <1>2, <2>3, MarksChild
        <3> QED BY <1>1, <2>1, <2>3, <3>1
    <2> QED BY <1>1, <2>2, <2>3, Numbers
<1>3. CASE Unreference
    <2>1. UNCHANGED root \/ \E b \in BOOLEAN : root' = [root EXCEPT !.released = b]
        BY <1>1, <1>3 DEF Unreference, Roots
    <2>2. root' \in Roots /\ Len(root'.leases) = Len(root.leases)
        BY <1>1, <2>1 DEF Roots
    <2> QED BY <1>1, <1>3, <2>2 DEF Unreference, ReleaseUnreferenced, Unreferenced, RootType
<1>4. \/ Unreference
      \/ UNCHANGED <<root, lease, snapReleased>>
      \/ \E v \in {"releasing", "released", "orphaned"} : Mark(run.c, v) /\ UNCHANGED snapReleased
    BY DEF LettingGo, Release, Remove
<1> QED BY <1>1, <1>2, <1>3, <1>4 DEF RootType

\* A lease is released after its candidate was given up, or the task has ended.
LEMMA LettingGoStep ==
    ASSUME Typed, TaskInv, LettingGo
    PROVE  Typed' /\ TaskInv'
<1>1. /\ run.at \in {"release", "removing", "unreference"}
      /\ run' \in Runs /\ run'.at \in {"removing", "unreference", "released"} /\ run'.c = run.c
      /\ UNCHANGED <<graph, workers, lane, group, fork, promotion>> /\ RootType'
      /\ call.at = "idle" /\ call.result = None
    BY LettingGoKeeps, LettingGoTypes, NoCall DEF TaskInv
<1>2. Here'
    BY <1>1 DEF TaskInv, Here, AboutCandidate, UnderWay, graph
<1> QED BY <1>1, <1>2, RootOnly

\* A candidate that is recorded as released was given up, or the task has ended.
LEMMA RecordReleasedStep ==
    ASSUME Typed, TaskInv, RecordReleased
    PROVE  Typed' /\ TaskInv'
<1> DEFINE c == run.c
<1>1. /\ run.at = "released" /\ c \in Candidates /\ call.at = "idle" /\ call.result = None
      /\ UNCHANGED <<task, workers, outside>> /\ node' = [node EXCEPT ![c].released = TRUE]
      /\ IF task.status = "terminal" THEN Go("cleanup") ELSE Leave("loop")
      /\ task.status = "terminal" \/ (task.status = "running" /\ node[c].st = "pruned")
    BY NoCall DEF RecordReleased, RunAt, Loop, TaskInv, Here, Typed, RunType, Runs
<1>2. /\ node' \in [Candidates -> Nodes]
      /\ \A d \in Candidates : d # c => node'[d].released = node[d].released
      /\ \A d \in Candidates : node'[d].st = node[d].st
      /\ \A d \in Candidates : node'[d].pending = node[d].pending
      /\ \A d \in Candidates : node'[d].decision = node[d].decision
      /\ \A d \in Candidates : node'[d].decidedAt = node[d].decidedAt
    BY <1>1 DEF Typed, GraphType, Nodes
<1>3. /\ run' \in Runs /\ run'.at \in {"cleanup", "loop"}
      /\ run'.at = "cleanup" => task.status = "terminal"
    BY <1>1, GoKeeps, LeaveKeeps DEF Typed, RunType, RunStages
<1>4. UNCHANGED <<task, group, fork, lane>>
    BY <1>1 DEF outside, continuation
<1>5. Branch'
    BY <1>2, <1>4, Numbers DEF TaskInv, Branch, Started, Dispatchable
<1>6. Turns'
    BY <1>2, <1>4 DEF TaskInv, Turns
<1>7. Graph'
    BY <1>1, <1>2, <1>4 DEF TaskInv, Graph, Typed, GraphType, Tasks
<1>8. Here'
    BY <1>3, <1>4 DEF Here, AboutCandidate, UnderWay
<1>9. Typed' /\ Attempts'
    BY <1>1, <1>2, <1>3, GraphOnly DEF Typed, GraphType, RunType, TaskInv, Attempts
<1> QED BY <1>5, <1>6, <1>7, <1>8, <1>9 DEF TaskInv

\* The group is closed after the task has ended.
LEMMA CleanupGroupStep ==
    ASSUME Typed, TaskInv, CleanupGroup
    PROVE  Typed' /\ TaskInv'
<1>1. /\ run.at \in {"cleanup", "loop"} /\ task.status = "terminal" /\ task.branched
      /\ UNCHANGED <<graph, workers, lane, root, fork, promotion>> /\ group \subseteq group'
      /\ run' = [Stage("cleanup") EXCEPT !.n = ChildCount + 2] \/ Leave("threw")
    BY DEF CleanupGroup, Cleaning, RunAt, Throw, TaskInv, Here
<1>2. run' \in Runs /\ run'.at \in {"cleanup", "threw"}
    <2>1. ChildCount + 2 \in 0..(ChildCount + 3)
        <3>1. ChildCount \in Nat
            BY Numbers
        <3> QED BY <3>1
    <2>2. Stage("cleanup") \in Runs /\ Stage("cleanup").at = "cleanup"
        BY StageType DEF RunStages
    <2>3. CASE run' = [Stage("cleanup") EXCEPT !.n = ChildCount + 2]
        BY <2>1, <2>2, <2>3 DEF Runs
    <2> QED BY <1>1, <2>3, LeaveKeeps DEF RunStages
<1>3. Here'
    BY <1>1, <1>2 DEF Here, AboutCandidate, UnderWay, graph
<1>4. call.at = "idle" /\ call.result = None
    BY <1>1, NoCall DEF TaskInv
<1>5. fork'.result = "ok" => Dispatchable'
    BY <1>1 DEF TaskInv, Branch, Dispatchable
<1>6. LaneType' /\ RootType' /\ Turns' /\ workers' \subseteq Candidates
    BY <1>1 DEF Typed, LaneType, RootType, RunType, TaskInv, Turns, graph
<1> QED BY <1>1, <1>2, <1>3, <1>4, <1>5, <1>6, Elsewhere

\* A lost process leaves graph, lanes, journals and leases.
LEMMA CrashStep ==
    ASSUME Typed, TaskInv, CrashTask
    PROVE  Typed' /\ TaskInv'
<1>1. /\ run' = Down /\ workers' = {} /\ fork' = NoFork /\ call' = Idle
      /\ UNCHANGED <<graph, lane, root, group, journal>>
    BY DEF CrashTask, ForkLost, CallLost
<1>2. Typed'
    BY <1>1, DownType DEF Typed, GraphType, LaneType, RootType, RunType, graph
<1>3. Branch' /\ Turns' /\ Graph'
    BY <1>1, NoForkType DEF TaskInv, Branch, Turns, Graph, Started, Dispatchable, graph
<1>4. Here'
    BY <1>1, DownType DEF Here, AboutCandidate, UnderWay
<1>5. Attempts'
    BY <1>1, DownType, IdleType DEF TaskInv, Attempts, Before, graph
<1> QED BY <1>2, <1>3, <1>4, <1>5 DEF TaskInv

\* An edit is of no concern to the task.
LEMMA EditStep ==
    ASSUME Typed, TaskInv, EditForeground
    PROVE  Typed' /\ TaskInv'
<1>1. UNCHANGED <<graph, process, lane, root, continuation, journal, call>>
    BY DEF EditForeground, UserEdit
<1>2. Typed' /\ Branch' /\ Turns' /\ Graph'
    BY <1>1, InForeground DEF Typed, RootType, RunType, graph, continuation, process
<1>3. Here' /\ Attempts'
    BY <1>1 DEF TaskInv, Here, Attempts, Before, AboutCandidate, UnderWay, Dispatchable, graph,
       continuation, process
<1> QED BY <1>2, <1>3 DEF TaskInv

-----------------------------------------------------------------------------
(***************************************************************************)
(* What the task does to the group and to the foreground                   *)
(***************************************************************************)
\* Most steps touch neither.
Apart == UNCHANGED <<continuation, promotion>>

\* Leases that are recovered, released or cleaned up, and the events of a cleanup,
\* change nothing the group relies on.
LEMMA LeasesOnly ==
    ASSUME GInv, UNCHANGED <<child, frozen, session, runs, fork>>,
           group \subseteq group', group' \subseteq group \cup {"terminal", "released"},
           lease' \in [Children -> LeaseStatuses], snapReleased' \in BOOLEAN
    PROVE  GInv'
<1>1. GroupTypeOK'
    BY Facts DEF GInv, GroupTypeOK, GroupEvents
<1>2. ("ready" \in group' <=> "ready" \in group) /\ ("failed" \in group' <=> "failed" \in group)
    OBVIOUS
<1>3. Progress' /\ Ends'
    BY <1>2 DEF GInv, Progress, Ends, Complete, Driving, HasSession, HasRecord, HasWorkspace,
       Rejecting
<1>4. RunsAreReal' /\ NoTwinRuns' /\ ReadyIsComplete'
    BY <1>2 DEF GInv, RunsAreReal, NoTwinRuns, ReadyIsComplete
<1> QED BY <1>1, <1>3, <1>4 DEF GInv

\* Whatever the task does to the foreground is a step of a promotion, and what it does
\* to the group keeps the group's invariant.
LEMMA PartsOfSteps ==
    ASSUME PInv, GInv, Typed, Step \/ Reopen \/ RunAgain \/ CrashTask \/ EditForeground
    PROVE  (PromotionNext \/ UNCHANGED promotion) /\ GInv'
<1>1. CASE Forking \/ Forked \/ \E c \in Candidates : BeginFork(c)
    <2>1. UNCHANGED promotion
        BY <1>1 DEF Forking, Forked, BeginFork
    <2>2. UNCHANGED continuation \/ ForkExact \/ ForkStep \/ TakeFork
        BY <1>1 DEF Forking, Forked, BeginFork, TakeFork, ForkAt
    <2>3. GInv'
        BY <2>2, GroupInductive, GroupUntouched DEF GroupNext
    <2> QED BY <2>1, <2>3
<1>2. CASE BeginPromotion \/ Promoting \/ EditForeground
    <2>1. UNCHANGED continuation
        BY <1>2 DEF BeginPromotion, Promoting, EditForeground
    <2>2. UNCHANGED promotion \/ Promote(run.c) \/ PromotionStep \/ UserEdit
        BY <1>2 DEF BeginPromotion, Promoting, EditForeground
    <2>3. run.c \in Candidates
        BY DEF Typed, RunType, Runs
    <2> QED BY <2>1, <2>2, <2>3, GroupUntouched DEF PromotionNext
<1>3. CASE BeginRecovery
    <2>1. \E c \in Candidates : Recover(c)
        BY <1>3 DEF BeginRecovery, Typed, RunType, Runs
    <2>2. lease' \in [Children -> LeaseStatuses] /\ snapReleased' \in BOOLEAN
        BY <1>3, Facts DEF BeginRecovery, RecoveredLease, LeaseStatuses
    <2>3. GInv'
        BY <1>3, <2>2, LeasesOnly DEF BeginRecovery
    <2> QED BY <2>1, <2>3 DEF PromotionNext
<1>4. CASE HostRecovered \/ PromotionEnds
    <2>1. UNCHANGED continuation /\ call' = Idle /\ call.result # None
          /\ UNCHANGED <<fg, journal, copies, manifest, edits, lost, raced, failures>>
        BY <1>4, ResultAssumption DEF HostRecovered, PromotionEnds, Ending, GivingUp, Results, Final
    <2>2. TakeResult
        BY <2>1 DEF TakeResult
    <2> QED BY <2>1, <2>2, GroupUntouched DEF PromotionNext
<1>5. CASE LettingGo \/ CleanupGroup
    <2>1. UNCHANGED <<promotion, child, frozen, session, runs, fork>>
        BY <1>5, LettingGoKeeps DEF CleanupGroup
    <2>2. group \subseteq group' /\ group' \subseteq group \cup {"terminal", "released"}
        BY <1>5, LettingGoKeeps DEF CleanupGroup
    <2>3. lease' \in [Children -> LeaseStatuses] /\ snapReleased' \in BOOLEAN
        BY <1>5, Facts, LettingGoTypes DEF CleanupGroup
    <2> QED BY <2>1, <2>2, <2>3, LeasesOnly
<1>6. CASE CrashTask
    <2>1. Crash /\ CallLost /\ ForkLost
        BY <1>6 DEF CrashTask
    <2>2. GInv'
        BY <2>1, GroupInductive DEF GroupNext
    <2> QED BY <2>1, <2>2 DEF PromotionNext
<1>7. CASE Apart
    BY <1>7, GroupUntouched DEF Apart
<1>8. ASSUME NEW c \in Candidates, Drive(c) PROVE Apart \/ BeginFork(c)
    BY <1>8 DEF Drive, AttachLease, ResumeDecision, PruneExhausted, Turn, TurnRefused, ReadTurn,
       PlanVerifier, ResumeVerifier, Apart, outside
<1>9. ASSUME NEW c \in Candidates, CleanupNode(c) PROVE Apart
    BY <1>9 DEF CleanupNode, Apart, outside
<1> QED BY <1>1, <1>2, <1>3, <1>4, <1>5, <1>6, <1>7, <1>8, <1>9 DEF Step, LettingGo, Reopen,
    RunAgain, PlanTask, NothingToDrive, CreateRootSession, CaptureRoot, MaterializeRoot, RecordRoot,
    StartRoot, RecordRootRun, Observe, Decide, Prune, SuspendCandidate, SuspendTask, CommitBranch,
    Provision, RunVerifier, SelectTarget, SelectWinner, RecordReleased, CleanupRoot, Apart, outside

-----------------------------------------------------------------------------
(***************************************************************************)
(* The theorems                                                            *)
(***************************************************************************)
\* Every step of the task, of its process and of the user keeps what is known of it.
LEMMA TaskSteps ==
    ASSUME Typed, PInv, GInv, TaskInv,
           Step \/ Reopen \/ RunAgain \/ CrashTask \/ EditForeground
    PROVE  Typed' /\ TaskInv'
<1>1. ASSUME NEW c \in Candidates, Drive(c) PROVE Typed' /\ TaskInv'
    BY <1>1, AttachStep, BeginForkStep, TurnMoves, TurnSteps, PlanVerifierStep, VerifierSteps DEF
       Drive
<1>2. CASE StartRoot
    BY <1>2, TurnSteps, Numbers
<1>3. CASE RunVerifier
    BY <1>3, VerifierSteps DEF Typed, RunType, Runs
<1>4. CASE \E c \in Candidates : CleanupNode(c)
    BY <1>4, CleanupNodeStep
<1>5. CASE PlanTask \/ NothingToDrive \/ SuspendTask \/ SelectTarget
    BY <1>5, PlanStep, NothingToDriveStep, SuspendTaskStep, SelectTargetStep
<1>6. CASE CreateRootSession \/ CaptureRoot \/ MaterializeRoot \/ RecordRoot \/ CleanupRoot
    BY <1>6, RootSessionStep, RootLeaseSteps, RecordRootStep
<1>7. CASE RecordRootRun \/ Observe \/ Decide \/ Prune \/ SuspendCandidate
    BY <1>7, PruneSteps, ObserveStep, DecideStep
<1>8. CASE CommitBranch \/ Forking \/ Forked \/ Provision \/ SelectWinner
    BY <1>8, CommitBranchStep, ForkingSteps, ProvisionStep, SelectWinnerStep
<1>9. CASE BeginPromotion \/ Promoting \/ BeginRecovery \/ HostRecovered \/ PromotionEnds
    BY <1>9, BeginPromotionStep, PromotingStep, BeginRecoveryStep, HostRecoveredStep,
       PromotionEndsStep
<1>10. CASE LettingGo \/ RecordReleased \/ CleanupGroup
    BY <1>10, LettingGoStep, RecordReleasedStep, CleanupGroupStep
<1>11. CASE Reopen \/ RunAgain \/ CrashTask \/ EditForeground
    BY <1>11, OpeningSteps, CrashStep, EditStep
<1> QED BY <1>1, <1>2, <1>3, <1>4, <1>5, <1>6, <1>7, <1>8, <1>9, <1>10, <1>11 DEF Step, LettingGo

\* Nothing has happened yet, whatever the host is going to do.
LEMMA HostInitial == HostInit => HInv
<1> SUFFICES ASSUME HostInit PROVE HInv
    OBVIOUS
<1>1. PInv /\ GInv /\ mode \in {"task", "manager", "continuation"}
    BY PromotionInitial, GroupInitial DEF HostInit, Init
<1>2. Node("absent") \in Nodes /\ Node("absent").st = "absent" /\ ~Node("absent").pending
      /\ ~Node("absent").released /\ Node("absent").decidedAt = 0
    BY DEF Node, Nodes, NodeStatuses, Decisions
<1>3. task \in Tasks /\ task.status = "planned" /\ task.outcome = None /\ task.winner = None
      /\ ~task.branched /\ task.rootSnap = 0
    BY DEF HostInit, Init, Tasks, TaskStatuses
<1>4. root \in Roots /\ Len(root.leases) = 0
    BY DEF HostInit, Init, Roots
<1>5. /\ node \in [Candidates -> Nodes] /\ \A c \in Candidates : node[c] = Node("absent")
      /\ lane \in [Candidates -> Lanes] /\ \A c \in Candidates : lane[c].turns = 0
    BY <1>2 DEF HostInit, Init, Lanes
<1>6. run = Down /\ workers = {} /\ group = {} /\ fork = NoFork /\ call = Idle
      /\ \A c \in Candidates : journal[c].status = "none"
    BY DEF HostInit, Init, GroupInit, PromotionInit, NoJournal
<1>7. Typed
    BY <1>3, <1>4, <1>5, <1>6, DownType DEF Typed, GraphType, LaneType, RootType, RunType
<1>8. Branch
    BY <1>2, <1>3, <1>5, <1>6, NoForkType, Numbers DEF Branch, Started, Dispatchable
<1>9. Turns /\ Graph
    BY <1>2, <1>3, <1>5 DEF Turns, Graph
<1>10. Here /\ Attempts
    BY <1>6, DownType, IdleType DEF Here, Attempts, Before, AboutCandidate, UnderWay
<1>11. NotStarted
    BY <1>2, <1>3, <1>5, <1>6, DownType DEF NotStarted
<1> QED BY <1>1, <1>7, <1>8, <1>9, <1>10, <1>11 DEF HInv, TaskInv

\* A host that calls promote, recover and forkExact itself leaves the task alone.
LEMMA DirectSteps ==
    ASSUME HInv, DirectPromotion \/ DirectFork
    PROVE  HInv' /\ (PromotionNext \/ UNCHANGED promotion)
<1>1. mode # "task" /\ mode' = mode /\ UNCHANGED <<graph, process, lane, root>>
    BY DEF DirectPromotion, DirectFork
<1>2. Typed'
    BY <1>1 DEF HInv, Typed, GraphType, LaneType, RootType, RunType, graph, process
<1>3. NotStarted'
    BY <1>1 DEF HInv, NotStarted, graph, process
<1>4. CASE DirectPromotion
    <2>1. PromotionNext /\ UNCHANGED continuation
        BY <1>4, HostAssumption DEF DirectPromotion, CallManager, PromotionNext
    <2> QED BY <1>1, <1>2, <1>3, <2>1, PromotionInductive, GroupUntouched DEF HInv
<1>5. CASE DirectFork
    <2>1. GroupNext /\ UNCHANGED promotion
        BY <1>5 DEF DirectFork, GroupNext
    <2> QED BY <1>1, <1>2, <1>3, <2>1, GroupInductive, PromotionUntouched DEF HInv
<1> QED BY <1>4, <1>5

\* The invariant is inductive.
THEOREM HostInductive == HInv /\ [HostNext]_hostVars => HInv'
<1>1. ASSUME HInv, mode = "task", mode' = mode,
             Step \/ Reopen \/ RunAgain \/ CrashTask \/ EditForeground
      PROVE  HInv'
    BY <1>1, TaskSteps, PartsOfSteps, PromotionInductive, PromotionUntouched DEF HInv
<1>2. ASSUME HInv, UNCHANGED hostVars PROVE HInv'
    <2>1. UNCHANGED <<graph, process, lane, root, continuation, promotion, mode>>
        BY <1>2 DEF hostVars, vars, outside
    <2>2. PInv' /\ GInv'
        BY <1>2, <2>1, PromotionUntouched, GroupUntouched DEF HInv
    <2>3. Typed'
        BY <1>2, <2>1 DEF HInv, Typed, GraphType, LaneType, RootType, RunType, graph, process
    <2>4. NotStarted => NotStarted'
        BY <2>1 DEF NotStarted, graph, process
    <2>5. TaskInv => TaskInv'
        BY <2>1 DEF TaskInv, Branch, Turns, Graph, Here, Attempts, Before, AboutCandidate,
           UnderWay, Started, Dispatchable, graph, process, continuation, promotion
    <2> QED BY <1>2, <2>1, <2>2, <2>3, <2>4, <2>5 DEF HInv
<1> QED BY <1>1, <1>2, DirectSteps DEF HostNext, TaskStep

\* It holds in every reachable state.
THEOREM HostInvariance == HostSpec => []HInv
BY HostInitial, HostInductive, PTL DEF HostSpec

\* Whatever the host or the task does, the foreground is never a mix of two candidates.
THEOREM HostForeground == HostSpec => []OneCandidateInForeground
<1>1. HInv => OneCandidateInForeground
    BY DEF HInv, PInv
<1> QED BY <1>1, HostInvariance, PTL

\* An attempt of the task, or of a recovery, that rolled back has left nothing but writes
\* whose applied event was lost.
THEOREM HostRestores == HostSpec => []RolledBackIsRestored
<1>1. HInv => RolledBackIsRestored
    BY DEF HInv, PInv, Shape, Accounted, Clean, AppliedPaths, RolledBackIsRestored, Applied, Writing
<1> QED BY <1>1, HostInvariance, PTL

\* What an attempt replaced can be restored while it may have to be.
THEOREM HostKeepsCopies == HostSpec => []CopiesOutliveNeed
<1>1. HInv => CopiesOutliveNeed
    BY DEF HInv, PInv
<1> QED BY <1>1, HostInvariance, PTL

\* However often a task loses its process and forks its group again, no child gets a
\* second run.
THEOREM HostMakesNoTwins == HostSpec => []NoTwinRuns
<1>1. HInv => NoTwinRuns
    BY DEF HInv, GInv
<1> QED BY <1>1, HostInvariance, PTL

\* A group the task may dispatch is complete and its origin frozen.
THEOREM HostGroups == HostSpec => []ReadyIsComplete
<1>1. HInv => ReadyIsComplete
    BY DEF HInv, GInv
<1> QED BY <1>1, HostInvariance, PTL

\* The steps of a host are steps of a promotion, or leave the foreground alone.
LEMMA HostPromotes ==
    ASSUME HInv, [HostNext]_hostVars
    PROVE  PromotionNext \/ UNCHANGED promotion
<1>1. CASE UNCHANGED hostVars
    BY <1>1 DEF hostVars, vars, outside
<1>2. CASE HostNext
    BY <1>2, PartsOfSteps, DirectSteps DEF HostNext, TaskStep, HInv
<1> QED BY <1>1, <1>2

\* Edits of the user survive, and receipts are final, for a task and its recoveries as
\* they do for single calls.
THEOREM HostKeepsEdits == HostSpec => EditsSurvive
<1>1. HInv /\ [HostNext]_hostVars =>
        [\A p \in Paths : fg[p] = Edit /\ fg'[p] # Edit => p \in raced]_<<promotion, failures>>
    BY HostPromotes, EditsSurviveStep DEF HInv, promotion
<1> QED BY <1>1, HostInvariance, PTL DEF EditsSurvive, HostSpec

\* A receipt is never taken back, and its attempt writes no more.
THEOREM HostKeepsReceipts == HostSpec => ReceiptIsFinal
<1>1. HInv /\ [HostNext]_hostVars =>
        [\A c \in Candidates : HasReceipt(c) =>
            /\ journal'[c] = journal[c]
            /\ \A p \in Paths : fg'[p] = c => fg[p] = c]_<<promotion, failures>>
    BY HostPromotes, ReceiptStep DEF HInv, promotion
<1> QED BY <1>1, HostInvariance, PTL DEF ReceiptIsFinal, HostSpec

\* The only steps that change a lane: the root's run is accepted, a turn is taken.
LEMMA WhoTurns ==
    ASSUME HInv, [HostNext]_hostVars
    PROVE  \/ UNCHANGED lane
           \/ mode = "task" /\ (StartRoot \/ \E c \in Candidates : Turn(c))
<1>1. CASE UNCHANGED hostVars
    BY <1>1 DEF hostVars, vars, outside
<1>2. CASE DirectPromotion \/ DirectFork
    BY <1>2 DEF DirectPromotion, DirectFork
<1>3. ASSUME NEW c \in Candidates, Drive(c) PROVE UNCHANGED lane \/ Turn(c)
    BY <1>3 DEF Drive, AttachLease, BeginFork, ResumeDecision, PruneExhausted, TurnRefused,
       ReadTurn, PlanVerifier, ResumeVerifier, outside
<1>4. ASSUME NEW c \in Candidates, CleanupNode(c) PROVE UNCHANGED lane
    BY <1>4 DEF CleanupNode, outside
<1>5. CASE mode = "task" /\ Step
    BY <1>3, <1>4, <1>5 DEF Step, PlanTask, NothingToDrive, CreateRootSession, CaptureRoot,
       MaterializeRoot, RecordRoot, RecordRootRun, Observe, Decide, Prune, SuspendCandidate,
       SuspendTask, CommitBranch, Forking, Forked, Provision, RunVerifier, SelectTarget,
       SelectWinner, BeginPromotion, Promoting, BeginRecovery, HostRecovered, PromotionEnds,
       Release, Remove, Unreference, RecordReleased, CleanupGroup, CleanupRoot, outside, process
<1>6. CASE Reopen \/ RunAgain \/ CrashTask \/ EditForeground
    BY <1>6 DEF Reopen, RunAgain, CrashTask, EditForeground, outside
<1> QED BY <1>1, <1>2, <1>5, <1>6 DEF HostNext, TaskStep

\* What a turn may rely on.
LEMMA TurnRelies ==
    ASSUME Typed, TaskInv, NEW c \in Candidates, Turn(c)
    PROVE  /\ c \in Children => Dispatchable
           /\ c = Root => ~Dispatchable
           /\ lane[c].turns > 0 =>
                /\ node[c].decidedAt = lane[c].turns
                /\ node[c].decision = "continue" \/ node[c].st = "provisioning"
<1>1. Advances(c) \/ (run.at = "turn" /\ run.c = c)
    BY DEF Turn, RunAt
<1>2. CASE run.at = "turn" /\ run.c = c
    BY <1>2, Numbers DEF TaskInv, Here, Turns, Branch, Dispatchable, AboutCandidate, Typed,
       LaneType, Lanes
<1>3. CASE Advances(c)
    <2>1. Turning(c) /\ ~Decided(c)
        BY <1>3 DEF Advances, Drives
    <2>2. (c \in Children => Dispatchable) /\ (c = Root => ~task.branched)
          /\ node[c].st \in {"provisioning", "active"}
        BY <2>1, TurningFacts
    <2>3. lane[c].turns > 0 => lane[c].op = "parked" /\ Covered(c)
        BY <1>3 DEF Advances, TaskInv, Turns
    <2>4. lane[c].turns > 0 => node[c].decidedAt = lane[c].turns /\ node[c].decision # "none"
        BY <2>3 DEF Covered, TaskInv, Turns
    <2> QED BY <2>1, <2>2, <2>4 DEF Decided, TaskInv, Branch, Dispatchable
<1> QED BY <1>1, <1>2, <1>3

\* No lane gets a provider call before the turn before it was decided, and none after a
\* decision against it.
THEOREM DecidedBeforeTheNextTurn == HostSpec => TurnsAreDecided
<1>1. ASSUME HInv, [HostNext]_hostVars
      PROVE  \A c \in Candidates : lane'[c].turns > lane[c].turns /\ lane[c].turns > 0 =>
                /\ node[c].decidedAt = lane[c].turns
                /\ node[c].decision = "continue" \/ node[c].st = "provisioning"
    <2>1. SUFFICES ASSUME NEW c \in Candidates, lane'[c].turns > lane[c].turns, lane[c].turns > 0
                   PROVE  /\ node[c].decidedAt = lane[c].turns
                          /\ node[c].decision = "continue" \/ node[c].st = "provisioning"
        OBVIOUS
    <2>2. lane \in [Candidates -> Lanes] /\ lane[c].turns \in Nat
        BY <1>1 DEF HInv, Typed, LaneType, Lanes
    <2>3. ~UNCHANGED lane
        BY <2>1, <2>2
    <2>4. CASE StartRoot
        <3>1. lane'[c].turns = lane[c].turns
            BY <2>2, <2>4 DEF StartRoot, Lanes
        <3> QED BY <2>1, <2>2, <3>1
    <2>5. ASSUME mode = "task", NEW d \in Candidates, Turn(d)
          PROVE  /\ node[c].decidedAt = lane[c].turns
                 /\ node[c].decision = "continue" \/ node[c].st = "provisioning"
        <3>1. c = d
            BY <2>1, <2>2, <2>5 DEF Turn
        <3> QED BY <1>1, <2>1, <2>5, <3>1, TurnRelies DEF HInv
    <2> QED BY <1>1, <2>3, <2>4, <2>5, WhoTurns
<1>2. HInv /\ [HostNext]_hostVars =>
        [\A c \in Candidates : lane'[c].turns > lane[c].turns /\ lane[c].turns > 0 =>
            /\ node[c].decidedAt = lane[c].turns
            /\ node[c].decision = "continue" \/ node[c].st = "provisioning"]_vars
    BY <1>1
<1> QED BY <1>2, HostInvariance, PTL DEF TurnsAreDecided, HostSpec

\* Once a group is ready its origin takes no turn, and no child takes one before that.
THEOREM OriginStandsStill == HostSpec => OriginIsReadOnly
<1>1. ASSUME HInv, [HostNext]_hostVars
      PROVE  /\ "ready" \in group => lane'[Root] = lane[Root]
             /\ \A k \in Children : lane'[k] # lane[k] => "ready" \in group /\ frozen
    <2>1. lane \in [Candidates -> Lanes]
        BY <1>1 DEF HInv, Typed, LaneType
    <2>2. CASE UNCHANGED lane
        BY <2>2
    <2>3. CASE mode = "task" /\ StartRoot
        <3>1. ~Dispatchable
            BY <1>1, <2>3, TurningFacts, Numbers DEF HInv, StartRoot, Drives, TaskInv, Branch,
               Dispatchable
        <3>2. \A k \in Children : lane'[k] = lane[k]
            BY <2>1, <2>3, Numbers DEF StartRoot
        <3> QED BY <3>1, <3>2 DEF Dispatchable
    <2>4. ASSUME mode = "task", NEW c \in Candidates, Turn(c)
          PROVE  /\ "ready" \in group => lane'[Root] = lane[Root]
                 /\ \A k \in Children : lane'[k] # lane[k] => "ready" \in group /\ frozen
        <3>1. (c \in Children => Dispatchable) /\ (c = Root => ~Dispatchable)
            BY <1>1, <2>4, TurnRelies DEF HInv
        <3>2. \A d \in Candidates : d # c => lane'[d] = lane[d]
            BY <2>1, <2>4 DEF Turn
        <3>3. Dispatchable => frozen
            BY <1>1 DEF HInv, GInv, ReadyIsComplete, Dispatchable
        <3> QED BY <3>1, <3>2, <3>3, Numbers DEF Dispatchable
    <2> QED BY <1>1, <2>2, <2>3, <2>4, WhoTurns
<1>2. HInv /\ [HostNext]_hostVars =>
        [/\ "ready" \in group => lane'[Root] = lane[Root]
         /\ \A k \in Children : lane'[k] # lane[k] => "ready" \in group /\ frozen]_vars
    BY <1>1
<1> QED BY <1>2, HostInvariance, PTL DEF OriginIsReadOnly, HostSpec

\* Every turn of a lane is its own to take.
THEOREM LanesStayInTurn == HostSpec => LanesTakeTurns
    BY DecidedBeforeTheNextTurn, OriginStandsStill DEF LanesTakeTurns

-----------------------------------------------------------------------------
(***************************************************************************)
(* Types                                                                   *)
(***************************************************************************)
\* A step fails one operation at most, or loses the process once.
Counted == UNCHANGED failures \/ Fault \/ Crash

\* Steps of a promotion.
LEMMA CallsFail == ASSUME PromotionStep PROVE Counted
BY DEF PromotionStep, VerifyLease, Gate, Recheck, Open, Prepare, Apply, Record, VerifyForeground,
   Close, ApplyFails, Compare, Restore, Confirm, RollbackDone, RollbackFails, Settle, Counted

\* Calls that begin, and edits.
LEMMA BeginningsFail ==
    ASSUME NEW c \in Candidates, Promote(c) \/ Recover(c) \/ UserEdit
    PROVE  Counted
BY DEF Promote, ReplayReceipt, Begin, Recover, RecoverSettled, Discard, RecoverOpen, UserEdit,
   Counted

\* Steps of a fork.
LEMMA ForksFail == ASSUME ForkStep \/ ForkExact \/ TakeFork PROVE Counted
BY DEF ForkStep, Freeze, ForkSession, RecordSession, ForkLease, Materialize, RecordLease, AdmitRun,
   RecordRun, RecordReady, GroupReady, ForkFails, Undo, ReleaseHeld, ChildFailed, GroupFailed,
   Unfreeze, ForkExact, TakeFork, Counted

\* Steps that drive a candidate.
LEMMA DrivesFail == ASSUME NEW c \in Candidates, Drive(c) PROVE Counted
BY ForksFail DEF Drive, AttachLease, BeginFork, ResumeDecision, PruneExhausted, Turn, TurnRefused,
   ReadTurn, PlanVerifier, ResumeVerifier, outside, Counted

\* Steps of the task.
LEMMA StepsFail ==
    ASSUME Typed, Step \/ Reopen \/ RunAgain \/ CrashTask \/ EditForeground
    PROVE  Counted
<1>1. CASE Forking \/ Forked \/ Promoting
    BY <1>1, ForksFail, CallsFail DEF Forking, Forked, Promoting, Counted
<1>2. CASE BeginPromotion \/ BeginRecovery \/ EditForeground
    <2>1. run.c \in Candidates /\ Root \in Candidates
        BY Numbers DEF Typed, RunType, Runs
    <2> QED BY <1>2, <2>1, BeginningsFail DEF BeginPromotion, BeginRecovery, EditForeground, Counted
<1>3. CASE Release \/ Remove \/ Unreference
    BY <1>3 DEF Release, Remove, Unreference, Counted
<1>4. CASE CrashTask
    BY <1>4 DEF CrashTask, Counted
<1>5. ASSUME NEW c \in Candidates, CleanupNode(c) PROVE Counted
    BY <1>5 DEF CleanupNode, outside, Counted
<1>6. CASE \/ CleanupGroup \/ CleanupRoot \/ HostRecovered \/ PromotionEnds
           \/ CaptureRoot \/ MaterializeRoot \/ StartRoot
    BY <1>6 DEF CleanupGroup, CleanupRoot, HostRecovered, PromotionEnds, CaptureRoot,
       MaterializeRoot, StartRoot, Counted
<1> QED BY <1>1, <1>2, <1>3, <1>4, <1>5, <1>6, DrivesFail DEF Step, Reopen, RunAgain, PlanTask,
    NothingToDrive, CreateRootSession, RecordRoot, RecordRootRun, Observe, Decide, Prune,
    SuspendCandidate, SuspendTask, CommitBranch, Provision, RunVerifier, SelectTarget,
    SelectWinner, RecordReleased, outside, Counted

\* The counters of failures stay within their bounds.
LEMMA FailuresKeep ==
    ASSUME HInv, FailuresTypeOK, [HostNext]_hostVars
    PROVE  FailuresTypeOK'
<1>1. Counted
    <2>1. CASE UNCHANGED hostVars
        BY <2>1 DEF hostVars, vars, outside, Counted
    <2>2. CASE DirectPromotion
        <3>1. PICK c \in Candidates :
                Promote(c) \/ Recover(c) \/ PromotionStep \/ TakeResult \/ UserEdit \/ Crash
            BY <2>2, HostAssumption, Numbers DEF DirectPromotion, CallManager
        <3> QED BY <3>1, BeginningsFail, CallsFail DEF TakeResult, Counted
    <2>3. CASE DirectFork
        BY <2>3, ForksFail DEF DirectFork, Counted
    <2> QED BY <2>1, <2>2, <2>3, StepsFail DEF HInv, HostNext, TaskStep
<1> QED BY <1>1, FailuresAssumption DEF FailuresTypeOK, Counted, Fault, Crash, failures

\* Graph, lanes, leases and the stages of run() keep their shape, and a winner has a
\* worker while it is promoted.
THEOREM HostTypes == HostSpec => []TaskTypeOK
<1>1. HInv /\ FailuresTypeOK => TaskTypeOK
    <2>1. ASSUME HInv, FailuresTypeOK PROVE TaskTypeOK
        <3>1. PromotionTypeOK /\ GroupTypeOK
            BY <2>1 DEF HInv, PInv, GInv
        <3>2. task.rootSnap \in 0..Len(root.leases)
            BY <2>1 DEF HInv, Typed, GraphType, RootType, Tasks, Roots
        <3>3. task \in [status : TaskStatuses, outcome : Outcomes \cup {None},
                        winner : Candidates \cup {None}, branched : BOOLEAN,
                        rootSession : BOOLEAN, rootSnap : 0..Len(root.leases)]
            BY <2>1, <3>2 DEF HInv, Typed, GraphType, Tasks
        <3> QED BY <2>1, <3>1, <3>3 DEF HInv, Typed, GraphType, LaneType, RootType, RunType, Lanes,
            Roots, Runs, TaskTypeOK, RunAt
    <2> QED BY <2>1
<1>2. HostInit => FailuresTypeOK
    BY FailuresAssumption DEF HostInit, Init, FailuresInit, FailuresTypeOK
<1>3. HInv /\ FailuresTypeOK /\ [HostNext]_hostVars => FailuresTypeOK'
    BY FailuresKeep
<1> QED BY <1>1, <1>2, <1>3, HostInvariance, PTL DEF HostSpec

-----------------------------------------------------------------------------
(***************************************************************************)
(* The refinement mapping                                                  *)
(***************************************************************************)
\* What the contract calls abandoned and foreground.
GivenUp == {c \in Candidates : node[c].st \in {"failed", "pruned"}}

Foreground ==
    IF TheAttempt = {} \/ task.status = "planned" THEN "clean"
    ELSE IF \E c \in TheAttempt : journal[c].status = "promoted" THEN "promoted"
    ELSE "open"

mapped == <<task.outcome, task.winner, GivenUp, Foreground>>

\* The foreground is the winner's; it is clean when there is none.
WinnersForeground ==
    /\ task.winner = None => Foreground = "clean"
    /\ \A c \in Candidates : task.winner = c /\ task.status # "planned" =>
        /\ journal[c].status \in {"none", "rolled_back"} => Foreground = "clean"
        /\ journal[c].status = "promoted" => Foreground = "promoted"
        /\ journal[c].status \in {"open", "needs_attention"} => Foreground = "open"

\* There is no journal to tell the foreground but the winner's.
LEMMA OneAttempt == TaskInv => WinnersForeground
<1> SUFFICES ASSUME TaskInv PROVE WinnersForeground
    OBVIOUS
<1>1. \A d \in TheAttempt : d \in Candidates /\ task.winner = d
      /\ journal[d].status \notin {"none", "rolled_back"}
    BY DEF TheAttempt, TaskInv, Attempts
<1>2. task.winner = None => TheAttempt = {}
    BY <1>1, Numbers
<1>3. ASSUME NEW c \in Candidates, task.winner = c
      PROVE  TheAttempt = IF journal[c].status \in {"none", "rolled_back"} THEN {} ELSE {c}
    BY <1>1, <1>3 DEF TheAttempt
<1> QED BY <1>2, <1>3 DEF Foreground, WinnersForeground

\* The same of the next state.
LEMMA OneAttemptNext == TaskInv' => WinnersForeground'
BY OneAttempt, PTL

\* A step that leaves outcome and winner, the statuses that count, and the statuses of
\* the journals changes nothing the contract speaks of.
LEMMA NothingMapped ==
    ASSUME task'.outcome = task.outcome, task'.winner = task.winner,
           task'.status = "planned" <=> task.status = "planned",
           \A c \in Candidates :
               node'[c].st \in {"failed", "pruned"} <=> node[c].st \in {"failed", "pruned"},
           \A c \in Candidates : journal'[c].status = journal[c].status
    PROVE  UNCHANGED mapped
<1>1. GivenUp' = GivenUp
    BY DEF GivenUp
<1>2. TheAttempt' = TheAttempt
    BY DEF TheAttempt
<1>3. Foreground' = Foreground
    BY <1>2 DEF Foreground, TheAttempt
<1> QED BY <1>1, <1>3 DEF mapped

\* Ending the task settles the contract.
LEMMA Settles ==
    ASSUME Typed, TaskInv, task.outcome = None, NEW o \in Outcomes, Finish(o),
           UNCHANGED <<node, journal>>, task.status = "running",
           CASE o = "promoted" -> Foreground = "promoted"
             [] o = "needs_attention" -> task.winner # None /\ Foreground = "open"
             [] o = "foreground_changed" -> task.winner # None /\ Foreground = "clean"
             [] OTHER -> task.winner = None /\ Foreground = "clean"
    PROVE  Contract!Next
<1>1. task'.outcome = o /\ task'.winner = task.winner /\ task'.status = "terminal"
    BY FinishKeeps DEF Typed, GraphType
<1>2. GivenUp' = GivenUp /\ Foreground' = Foreground
    BY <1>1 DEF GivenUp, Foreground, TheAttempt
<1>3. Contract!Settle(o)
    BY <1>1, <1>2 DEF Contract!Settle, Contract!Consistent, GivenUp, Foreground
<1> QED BY <1>3 DEF Contract!Next, Outcomes

\* Giving a candidate up that is not attempted, or whose attempt left the foreground
\* clean, abandons it.
LEMMA Abandons ==
    ASSUME task.outcome = None, task'.outcome = None, NEW c \in Candidates, c \notin GivenUp,
           GivenUp' = GivenUp \cup {c}, Foreground' = Foreground,
           task.winner = c => Foreground = "clean",
           task'.winner = IF task.winner = c THEN None ELSE task.winner
    PROVE  Contract!Next
<1>1. Contract!Abandon(c)
    BY DEF Contract!Abandon, GivenUp, Foreground
<1> QED BY <1>1 DEF Contract!Next

\* The foreground changes under the attempt.
LEMMA ForegroundMoves ==
    ASSUME task.outcome = None, UNCHANGED task, GivenUp' = GivenUp, task.winner # None,
           \/ Foreground = "clean" /\ Foreground' = "open"
           \/ Foreground = "open" /\ Foreground' \in {"clean", "promoted"}
    PROVE  Contract!Next
<1>1. CASE Foreground = "clean" /\ Foreground' = "open"
    BY <1>1 DEF Contract!Next, Contract!Write, GivenUp, Foreground
<1>2. CASE Foreground = "open" /\ Foreground' \in {"clean", "promoted"}
    BY <1>2 DEF Contract!Next, Contract!Leave, GivenUp, Foreground
<1> QED BY <1>1, <1>2

-----------------------------------------------------------------------------
(***************************************************************************)
(* The steps                                                               *)
(***************************************************************************)
Implemented == Contract!Next \/ UNCHANGED mapped

\* Steps that leave the graph alone, and the statuses of the journals.
LEMMA QuietSteps ==
    ASSUME UNCHANGED <<graph, journal>>
    PROVE  Implemented
BY NothingMapped DEF Implemented, graph

\* Steps on the task that are of no concern to the contract; a task that is planned
\* starts with a clean foreground.
LEMMA OpeningMapped ==
    ASSUME Typed, TaskInv, PlanTask \/ CreateRootSession \/ RecordRoot
    PROVE  Implemented
<1>1. UNCHANGED journal
    BY DEF PlanTask, CreateRootSession, RecordRoot, outside, promotion
<1>2. CASE PlanTask
    <2>1. task'.status = "running" /\ task'.winner = task.winner /\ task'.outcome = task.outcome
          /\ task.winner = None /\ task.status = "planned"
        BY <1>2 DEF PlanTask, Typed, GraphType, Tasks, TaskInv, Graph
    <2>2. \A c \in Candidates : journal[c].status \in {"none", "rolled_back"}
        BY <2>1, Numbers DEF TaskInv, Attempts
    <2>3. TheAttempt = {} /\ TheAttempt' = {}
        BY <1>1, <2>2 DEF TheAttempt
    <2>4. \A c \in Candidates : node'[c].st \notin {"failed", "pruned"} /\ node[c].st = "absent"
        BY <1>2, <2>1, SetStatusKeeps, Numbers DEF PlanTask, Typed, GraphType, NodeStatuses,
           TaskInv, Graph
    <2>5. GivenUp' = GivenUp
        BY <2>4 DEF GivenUp
    <2> QED BY <2>1, <2>3, <2>5 DEF Implemented, mapped, Foreground
<1>3. CASE CreateRootSession \/ RecordRoot
    <2>1. /\ UNCHANGED node /\ task'.status = task.status /\ task'.winner = task.winner
          /\ task'.outcome = task.outcome
        BY <1>3 DEF CreateRootSession, RecordRoot, Typed, GraphType, Tasks
    <2> QED BY <1>1, <2>1, NothingMapped DEF Implemented
<1> QED BY <1>2, <1>3

\* Steps on a candidate that is neither given up nor gives one up.
LEMMA CandidatesMapped ==
    ASSUME Typed, TaskInv,
           RecordRootRun \/ Observe \/ Decide \/ Provision \/ RecordReleased
           \/ \E c \in Candidates : PlanVerifier(c)
    PROVE  Implemented
<1>1. UNCHANGED <<task, journal>>
    BY DEF RecordRootRun, Observe, Decide, Provision, RecordReleased, PlanVerifier, outside,
       promotion
<1>2. node \in [Candidates -> Nodes] /\ run.c \in Candidates /\ Root \in Candidates
      /\ Children \subseteq Candidates
    BY Numbers DEF Typed, GraphType, RunType, Runs
<1>3. \A c \in Candidates : node'[c].st \in {"failed", "pruned"} <=>
      node[c].st \in {"failed", "pruned"}
    <2>1. CASE RecordRootRun
        <3>1. run.c = Root /\ node[Root].st \in {"provisioning", "active"}
            BY <2>1 DEF RecordRootRun, RunAt, TaskInv, Here
        <3> QED BY <1>2, <2>1, <3>1 DEF RecordRootRun, SetStatus, Nodes
    <2>2. CASE Observe \/ RecordReleased \/ \E c \in Candidates : PlanVerifier(c)
        BY <1>2, <2>2 DEF Observe, RecordReleased, PlanVerifier, Nodes
    <2>3. CASE Decide
        <3>1. node[run.c].st \in {"provisioning", "active"}
            BY <2>3 DEF Decide, RunAt, TaskInv, Here
        <3>2. PICK failing \in BOOLEAN :
                node' = [node EXCEPT ![run.c].decision = Decision(run.c, failing),
                        ![run.c].decidedAt = lane[run.c].turns,
                        ![run.c].st = IF Decision(run.c, failing) = "branch" THEN "branching"
                                      ELSE IF Decision(run.c, failing) = "verify" THEN "verifying"
                                      ELSE @]
            BY <2>3 DEF Decide
        <3> QED BY <1>2, <3>1, <3>2 DEF Nodes
    <2>4. CASE Provision
        <3>1. PICK k \in Children : node[k].st = "provisioning" /\ SetStatus(k, "active")
            BY <2>4 DEF Provision, Provisioning
        <3> QED BY <1>2, <3>1 DEF SetStatus, Nodes
    <2> QED BY <2>1, <2>2, <2>3, <2>4
<1> QED BY <1>1, <1>3, NothingMapped DEF Implemented

\* A branch gives nobody up.
LEMMA BranchMapped ==
    ASSUME Typed, TaskInv, CommitBranch
    PROVE  Implemented
<1>1. /\ node[Root].st = "branching"
      /\ task' = [task EXCEPT !.branched = TRUE]
      /\ node' = [c \in Candidates |-> IF c = Root THEN [node[Root] EXCEPT !.st = "branch_origin"]
                                       ELSE Node("provisioning")]
      /\ UNCHANGED journal
    BY DEF CommitBranch, outside, promotion
<1>2. task'.status = task.status /\ task'.winner = task.winner /\ task'.outcome = task.outcome
    BY <1>1 DEF Typed, GraphType, Tasks
<1>3. \A k \in Children : node[k].st = "absent"
    BY <1>1 DEF TaskInv, Branch
<1>4. node[Root] \in Nodes /\ node'[Root] = [node[Root] EXCEPT !.st = "branch_origin"]
      /\ \A k \in Children : node'[k] = Node("provisioning")
    BY <1>1, Numbers DEF Typed, GraphType
<1>5. node'[Root].st = "branch_origin" /\ Node("provisioning").st = "provisioning"
    BY <1>4 DEF Nodes, Node
<1>6. \A c \in Candidates :
        node'[c].st \notin {"failed", "pruned"} /\ node[c].st \notin {"failed", "pruned"}
    BY <1>1, <1>3, <1>4, <1>5, Numbers
<1> QED BY <1>1, <1>2, <1>6, NothingMapped DEF Implemented

\* A task that ends without a winner has written nothing.
LEMMA EndsMapped ==
    ASSUME Typed, TaskInv, NothingToDrive \/ SuspendTask \/ SelectTarget
    PROVE  Implemented
<1>1. UNCHANGED <<node, journal>> /\ task.status = "running"
    BY DEF NothingToDrive, SuspendTask, SelectTarget, Selecting, Chosen, Running, RunAt, TaskInv,
       Here, UnderWay, outside, promotion
<1>2. task.outcome = None
    BY <1>1 DEF TaskInv, Graph
<1>3. WithoutWinner \in {"budget_exhausted", "no_verified_candidate"}
    BY DEF WithoutWinner
<1>4. ASSUME task.winner = None,
             NEW o \in {"budget_exhausted", "no_verified_candidate", "suspended"},
             Finish(o)
      PROVE  Implemented
    <2>1. Foreground = "clean"
        BY <1>4, OneAttempt DEF WinnersForeground
    <2> QED BY <1>1, <1>2, <1>4, <2>1, Settles DEF Implemented, Outcomes
<1>5. \A w \in Candidates : task.winner = w => node[w].st = "winner" /\ ~node[w].released
    BY <1>1, Numbers DEF TaskInv, Graph
<1>6. CASE NothingToDrive
    <2>1. task.winner = None
        BY <1>5, <1>6 DEF NothingToDrive, Drivable, Typed, GraphType, Tasks
    <2> QED BY <1>3, <1>4, <1>6, <2>1 DEF NothingToDrive
<1>7. CASE SuspendTask
    <2>1. task.winner = None
        BY <1>7 DEF SuspendTask, RunAt, TaskInv, Here
    <2> QED BY <1>4, <1>7, <2>1 DEF SuspendTask
<1>8. CASE SelectTarget
    <2>1. CASE UNCHANGED task
        BY <1>1, <2>1, QuietSteps DEF graph
    <2>2. CASE Targets = {} /\ Finish(WithoutWinner)
        <3>1. task.winner = None
            BY <1>5, <2>2 DEF Targets, Typed, GraphType, Tasks
        <3> QED BY <1>3, <1>4, <2>2, <3>1
    <2> QED BY <1>8, <2>1, <2>2 DEF SelectTarget
<1> QED BY <1>6, <1>7, <1>8

\* A candidate that is not the winner is given up.
LEMMA GivesUp ==
    ASSUME Typed, TaskInv, task.status = "running", UNCHANGED <<task, journal>>,
           NEW c \in Candidates, node[c].st \notin {"failed", "pruned", "winner"},
           node'[c].st \in {"failed", "pruned"},
           \A d \in Candidates : d # c => node'[d].st = node[d].st
    PROVE  Implemented
<1>1. GivenUp' = GivenUp \cup {c} /\ c \notin GivenUp
    BY DEF GivenUp
<1>2. task.winner # c /\ task.outcome = None
    BY Numbers DEF TaskInv, Graph
<1>3. Foreground' = Foreground
    BY DEF Foreground, TheAttempt
<1> QED BY <1>1, <1>2, <1>3, Abandons DEF Implemented

\* A candidate that is pruned or suspended is given up.
LEMMA PrunesMapped ==
    ASSUME Typed, TaskInv, Prune \/ SuspendCandidate
    PROVE  Implemented
<1>1. /\ UNCHANGED <<task, journal>> /\ task.status = "running" /\ run.c \in Candidates
      /\ node[run.c].st \in {"provisioning", "active"} /\ node \in [Candidates -> Nodes]
      /\ \E st \in {"failed", "pruned"} : SetStatus(run.c, st)
    BY DEF Prune, SuspendCandidate, RunAt, TaskInv, Here, AboutCandidate, UnderWay, Typed,
       GraphType, RunType, Runs, outside, promotion
<1>2. /\ node'[run.c].st \in {"failed", "pruned"}
      /\ \A d \in Candidates : d # run.c => node'[d].st = node[d].st
    BY <1>1, SetStatusKeeps DEF NodeStatuses
<1> QED BY <1>1, <1>2, GivesUp

\* A verification gives its candidate up, or does not.
LEMMA VerdictMapped ==
    ASSUME Typed, TaskInv, NEW c \in Candidates, NEW pass \in BOOLEAN, SettleVerifier(c, pass),
           node[c].pending, task.status = "running", UNCHANGED <<task, journal>>
    PROVE  Implemented
<1>1. node[c].st = "verifying" /\ node \in [Candidates -> Nodes]
    BY DEF TaskInv, Graph, Typed, GraphType
<1> DEFINE verdict == CASE pass /\ node[c].st \in {"verifying", "active"}  -> "verified"
                        [] ~pass /\ node[c].settled = "completed"         -> "failed"
                        [] OTHER                                          -> node[c].st
<1>2. verdict \in {"verified", "failed", "verifying"}
    BY <1>1
<1>3. node' = [node EXCEPT ![c].pending = FALSE, ![c].st = verdict]
    BY <1>1 DEF SettleVerifier, Nodes
<1> HIDE DEF verdict
<1>4. /\ node'[c].st \in {"verified", "failed", "verifying"}
      /\ \A d \in Candidates : d # c => node'[d].st = node[d].st
    BY <1>1, <1>2, <1>3 DEF Nodes
<1>5. CASE node'[c].st = "failed"
    BY <1>1, <1>4, <1>5, GivesUp
<1>6. CASE node'[c].st # "failed"
    BY <1>1, <1>4, <1>6, NothingMapped DEF Implemented
<1> QED BY <1>5, <1>6

\* A verification that runs, or was lost with its process.
LEMMA VerifiersMapped ==
    ASSUME Typed, TaskInv, RunVerifier \/ \E c \in Candidates : ResumeVerifier(c)
    PROVE  Implemented
<1>1. UNCHANGED <<task, journal>>
    BY DEF RunVerifier, ResumeVerifier, outside, promotion
<1>2. CASE RunVerifier
    <2>1. task.status = "running" /\ node[run.c].pending /\ run.c \in Candidates
        BY <1>2 DEF RunVerifier, RunAt, TaskInv, Here, AboutCandidate, UnderWay, Typed, RunType,
           Runs
    <2> QED BY <1>1, <1>2, <2>1, VerdictMapped DEF RunVerifier
<1>3. ASSUME NEW c \in Candidates, ResumeVerifier(c) PROVE Implemented
    <2>1. task.status = "running" /\ node[c].pending
        BY <1>3 DEF ResumeVerifier, Chosen, Running
    <2>2. CASE UNCHANGED node
        BY <1>1, <2>2, QuietSteps DEF graph
    <2>3. CASE SettleVerifier(c, FALSE)
        BY <1>1, <2>1, <2>3, VerdictMapped
    <2> QED BY <1>3, <2>2, <2>3 DEF ResumeVerifier
<1> QED BY <1>2, <1>3

\* The slot is taken with a clean foreground, by a candidate that was not given up.
LEMMA WinnerMapped ==
    ASSUME Typed, TaskInv, SelectWinner
    PROVE  Implemented
<1> DEFINE c == run.c
<1>1. /\ c \in Candidates /\ task.status = "running" /\ node[c].st \in {"verified", "winner"}
      /\ UNCHANGED journal /\ task.outcome = None /\ node \in [Candidates -> Nodes]
    BY DEF SelectWinner, RunAt, TaskInv, Here, Graph, AboutCandidate, UnderWay, Typed, GraphType,
       RunType, Runs, outside, promotion
<1>2. CASE UNCHANGED graph
    BY <1>1, <1>2, QuietSteps
<1>3. CASE task.winner \in {None, c} /\ task' = [task EXCEPT !.winner = c] /\ SetStatus(c, "winner")
    <2>1. task'.outcome = task.outcome /\ task'.status = task.status /\ task'.winner = c
        BY <1>3 DEF Typed, GraphType, Tasks
    <2>2. node'[c].st = "winner" /\ \A d \in Candidates : d # c => node'[d].st = node[d].st
        BY <1>1, <1>3, SetStatusKeeps DEF NodeStatuses
    <2>3. CASE task.winner = c
        BY <1>1, <2>1, <2>2, <2>3, NothingMapped DEF Implemented
    <2>4. CASE task.winner = None
        <3>1. GivenUp' = GivenUp /\ c \notin GivenUp
            BY <1>1, <2>2 DEF GivenUp
        <3>2. Foreground' = Foreground /\ Foreground = "clean"
            BY <1>1, <2>1, <2>4, OneAttempt DEF WinnersForeground, Foreground, TheAttempt
        <3>3. Contract!Attempt(c)
            BY <1>1, <2>1, <2>4, <3>1, <3>2 DEF Contract!Attempt, GivenUp, Foreground
        <3> QED BY <1>1, <3>3 DEF Contract!Next, Implemented
    <2> QED BY <1>3, <2>3, <2>4
<1> QED BY <1>2, <1>3 DEF SelectWinner

\* A step of a promotion moves the journal of the winner, and the foreground with it.
LEMMA PromotingMapped ==
    ASSUME Typed, PInv, TaskInv, Promoting
    PROVE  Implemented
<1> DEFINE c == call.c
<1>1. /\ PromotionStep /\ UNCHANGED graph /\ call.at # "idle" /\ c \in Candidates /\ CallMoves
      /\ TaskInv' /\ \A d \in Candidates : d # c => journal'[d] = journal[d]
    BY StepOfCall, PromotingStep DEF Promoting, CallMoves
<1>2. CASE journal'[c].status = journal[c].status
    <2>1. \A d \in Candidates : journal'[d].status = journal[d].status
        BY <1>1, <1>2
    <2> QED BY <1>1, <2>1, NothingMapped DEF Implemented, graph
<1>3. CASE journal'[c].status # journal[c].status
    <2>1. \/ call.at = "open" /\ journal'[c].status = "open"
          \/ /\ journal[c].status = "open"
             /\ journal'[c].status \in {"needs_attention", "promoted", "rolled_back"}
        BY <1>1, <1>3 DEF CallMoves
    <2>2. call.at = "open" => journal[c].status = "none"
        BY DEF PInv, Shape, Before
    <2>3. task.winner = c /\ task.status = "running"
        <3>1. CASE call.at = "open"
            BY <1>1, <3>1 DEF TaskInv, Attempts, Here, Before, AboutCandidate, UnderWay
        <3>2. CASE journal[c].status = "open"
            <4>1. task.winner = c /\ task.status # "terminal"
                BY <1>1, <3>2 DEF TaskInv, Attempts
            <4>2. task.status # "planned"
                BY <1>1, <4>1, Numbers DEF TaskInv, Graph
            <4> QED BY <4>1, <4>2 DEF Typed, GraphType, Tasks, TaskStatuses
        <3> QED BY <2>1, <3>1, <3>2
    <2>4. task.winner # None /\ task.outcome = None /\ UNCHANGED <<task, node>>
        BY <1>1, <2>3, Numbers DEF TaskInv, Graph, graph
    <2>5. GivenUp' = GivenUp
        BY <2>4 DEF GivenUp
    <2>6. /\ journal[c].status \in {"none", "rolled_back"} => Foreground = "clean"
          /\ journal[c].status \in {"open", "needs_attention"} => Foreground = "open"
        BY <1>1, <2>3, OneAttempt DEF WinnersForeground
    <2>7. /\ journal'[c].status \in {"none", "rolled_back"} => Foreground' = "clean"
          /\ journal'[c].status = "promoted" => Foreground' = "promoted"
          /\ journal'[c].status \in {"open", "needs_attention"} => Foreground' = "open"
        BY <1>1, <2>3, <2>4, OneAttemptNext DEF WinnersForeground
    <2>8. CASE journal'[c].status = "needs_attention"
        BY <2>1, <2>4, <2>5, <2>6, <2>7, <2>8 DEF Implemented, mapped
    <2>9. CASE journal'[c].status # "needs_attention"
        <3>1. \/ Foreground = "clean" /\ Foreground' = "open"
              \/ Foreground = "open" /\ Foreground' \in {"clean", "promoted"}
            BY <2>1, <2>2, <2>6, <2>7, <2>9
        <3> QED BY <2>4, <2>5, <3>1, ForegroundMoves DEF Implemented
    <2> QED BY <2>8, <2>9
<1> QED BY <1>2, <1>3

\* A recovery that deletes an open journal leaves the foreground clean.
LEMMA RecoveryMapped ==
    ASSUME Typed, PInv, TaskInv, BeginRecovery
    PROVE  Implemented
<1>1. UNCHANGED graph /\ TaskInv'
    BY BeginRecoveryStep DEF BeginRecovery
<1>2. PICK c \in Candidates : Recover(c)
    BY DEF BeginRecovery, Typed, RunType, Runs
<1>3. \A d \in Candidates : d # c => journal'[d] = journal[d]
    BY <1>2, RecoverBegins
<1>4. \/ UNCHANGED journal
      \/ journal[c].status = "open" /\ journal'[c].status = "none"
    BY <1>2 DEF Recover, RecoverSettled, Discard, RecoverOpen, Interrupted, NoJournal, PInv,
       PromotionTypeOK
<1>5. CASE UNCHANGED journal
    BY <1>1, <1>5, QuietSteps
<1>6. CASE journal[c].status = "open" /\ journal'[c].status = "none"
    <2>1. task.winner = c /\ task.status # "terminal"
        BY <1>6 DEF TaskInv, Attempts
    <2>2. task.winner # None /\ task.status # "planned" /\ task.outcome = None
        BY <2>1, Numbers DEF TaskInv, Graph
    <2>3. UNCHANGED <<task, node>> /\ GivenUp' = GivenUp
        BY <1>1 DEF graph, GivenUp
    <2>4. Foreground = "open"
        BY <1>6, <2>1, <2>2, OneAttempt DEF WinnersForeground
    <2>5. Foreground' = "clean"
        BY <1>1, <1>6, <2>1, <2>2, <2>3, OneAttemptNext DEF WinnersForeground
    <2> QED BY <2>2, <2>3, <2>4, <2>5, ForegroundMoves DEF Implemented
<1> QED BY <1>4, <1>5, <1>6

\* What an attempt came to settles the task, or gives its candidate up with a clean
\* foreground.
LEMMA EndingMapped ==
    ASSUME Typed, TaskInv, PromotionEnds
    PROVE  Implemented
<1> DEFINE c == run.c
<1>1. /\ run.at \in {"promoting", "recovering"} /\ c \in Candidates
      /\ task.status = "running" /\ task.winner = c /\ task.outcome = None
      /\ UNCHANGED journal /\ task.winner # None
    BY Numbers
    DEF PromotionEnds, TaskInv, Here, AboutCandidate, UnderWay, Graph, Typed, RunType, Runs
<1>2. /\ node[c].st = "winner" /\ TaskInv' /\ node \in [Candidates -> Nodes]
    BY <1>1, PromotionEndsStep DEF TaskInv, Graph, Typed, GraphType
<1>3. /\ journal[c].status \in {"none", "rolled_back"} => Foreground = "clean"
      /\ journal[c].status = "promoted" => Foreground = "promoted"
      /\ journal[c].status \in {"open", "needs_attention"} => Foreground = "open"
    BY <1>1, OneAttempt DEF WinnersForeground
<1>4. CASE call.result \in Ending /\ Finish(call.result) /\ UNCHANGED node
    <2>1. /\ call.result \in {"promoted", "needs_attention"} => journal[c].status = call.result
          /\ call.result = "foreground_changed" => journal[c].status = "none"
        BY <1>1 DEF TaskInv, Attempts
    <2>2. call.result \in Outcomes
        BY <1>4 DEF Ending, Outcomes
    <2>3. CASE call.result = "promoted"
        BY <1>1, <1>3, <1>4, <2>1, <2>2, <2>3, Settles DEF Implemented
    <2>4. CASE call.result = "needs_attention"
        BY <1>1, <1>3, <1>4, <2>1, <2>2, <2>4, Settles DEF Implemented
    <2>5. CASE call.result = "foreground_changed"
        BY <1>1, <1>3, <1>4, <2>1, <2>2, <2>5, Settles DEF Implemented
    <2> QED BY <1>4, <2>3, <2>4, <2>5 DEF Ending
<1>5. CASE call.result \in GivingUp /\ Demoted
    <2>1. journal[c].status \in {"none", "rolled_back"}
        BY <1>1, <1>5 DEF TaskInv, Attempts, GivingUp, Ending, Results, Final
    <2>2. SetStatus(c, "failed") /\ task' = [task EXCEPT !.winner = None]
        BY <1>5 DEF Demoted
    <2>3. task'.winner = None /\ task'.outcome = None
        BY <1>1, <2>2 DEF Typed, GraphType, Tasks
    <2>4. node'[c].st = "failed" /\ \A d \in Candidates : d # c => node'[d].st = node[d].st
        BY <1>1, <1>2, <2>2, SetStatusKeeps DEF NodeStatuses
    <2>5. GivenUp' = GivenUp \cup {c} /\ c \notin GivenUp
        BY <1>1, <1>2, <2>4 DEF GivenUp
    <2>6. Foreground = "clean" /\ Foreground' = "clean"
        BY <1>2, <1>3, <2>1, <2>3, OneAttemptNext DEF WinnersForeground
    <2> QED BY <1>1, <2>3, <2>5, <2>6, Abandons DEF Implemented
<1>6. CASE UNCHANGED graph
    BY <1>1, <1>6, QuietSteps
<1> QED BY <1>4, <1>5, <1>6 DEF PromotionEnds

\* Everything else leaves the graph and the journals alone.
LEMMA OthersMapped ==
    ASSUME PInv, Typed,
           \/ CaptureRoot \/ MaterializeRoot \/ StartRoot \/ Forking \/ Forked
           \/ BeginPromotion \/ HostRecovered \/ LettingGo \/ CleanupGroup \/ CleanupRoot
           \/ Reopen \/ RunAgain \/ CrashTask \/ EditForeground
           \/ \E c \in Candidates : CleanupNode(c)
    PROVE  Implemented
<1>1. CASE BeginPromotion
    <2>1. run.c \in Candidates
        BY DEF Typed, RunType, Runs
    <2> QED BY <1>1, <2>1, PromoteBegins, QuietSteps DEF BeginPromotion, promotion
<1>2. CASE \/ CaptureRoot \/ MaterializeRoot \/ StartRoot \/ Forking \/ Forked
           \/ HostRecovered \/ LettingGo \/ CleanupGroup \/ CleanupRoot
           \/ Reopen \/ RunAgain \/ CrashTask \/ EditForeground
           \/ \E c \in Candidates : CleanupNode(c)
    <2>1. UNCHANGED <<graph, journal>>
        BY <1>2 DEF CaptureRoot, MaterializeRoot, StartRoot, Forking, Forked, HostRecovered,
           LettingGo, Release, Remove, Unreference, CleanupGroup, CleanupRoot, Reopen, RunAgain,
           CrashTask, CallLost, EditForeground, UserEdit, CleanupNode, outside, promotion
    <2> QED BY <2>1, QuietSteps
<1> QED BY <1>1, <1>2

\* Driving a candidate, up to its verification.
LEMMA DrivesMapped ==
    ASSUME Typed, TaskInv, NEW c \in Candidates, Drive(c)
    PROVE  Implemented
<1>1. CASE \/ AttachLease(c) \/ BeginFork(c) \/ ResumeDecision(c) \/ PruneExhausted(c)
           \/ Turn(c) \/ TurnRefused(c) \/ ReadTurn(c)
    <2>1. UNCHANGED <<graph, journal>>
        BY <1>1 DEF AttachLease, BeginFork, ResumeDecision, PruneExhausted, Turn, TurnRefused,
           ReadTurn, outside, promotion
    <2> QED BY <2>1, QuietSteps
<1>2. CASE PlanVerifier(c)
    BY <1>2, CandidatesMapped
<1>3. CASE ResumeVerifier(c)
    BY <1>3, VerifiersMapped
<1> QED BY <1>1, <1>2, <1>3 DEF Drive

-----------------------------------------------------------------------------
(***************************************************************************)
(* The theorem                                                             *)
(***************************************************************************)
\* Every step of the task, its process and its user.
LEMMA TaskMapped ==
    ASSUME Typed, PInv, TaskInv, Step \/ Reopen \/ RunAgain \/ CrashTask \/ EditForeground
    PROVE  Implemented
BY OpeningMapped, CandidatesMapped, BranchMapped, EndsMapped, PrunesMapped, VerifiersMapped,
   WinnerMapped, PromotingMapped, RecoveryMapped, EndingMapped, OthersMapped, DrivesMapped
   DEF Step, LettingGo

\* A host that calls promote and recover itself has no task that could notice.
LEMMA DirectMapped ==
    ASSUME HInv, DirectPromotion \/ DirectFork
    PROVE  UNCHANGED mapped
<1>1. UNCHANGED <<task, node>> /\ task.status = "planned"
    BY DEF HInv, NotStarted, DirectPromotion, DirectFork, graph
<1> QED BY <1>1 DEF mapped, GivenUp, Foreground

\* A task nobody has run has promised nothing yet.
LEMMA InitialMapped == HostInit => Contract!Init
<1> SUFFICES ASSUME HostInit PROVE Contract!Init
    OBVIOUS
<1>1. task.outcome = None /\ task.winner = None /\ task.status = "planned"
      /\ \A c \in Candidates : node[c].st = "absent"
    BY DEF HostInit, Init, Node
<1> QED BY <1>1 DEF Contract!Init

\* ImplementsTaskContract: whatever fails or is lost between the task journal and the
\* promotion journal, an attempt is given up only when the foreground is clean again, no
\* candidate is attempted twice, and the outcome tells what was done.
THEOREM TaskKeepsItsContract == HostSpec => ImplementsTaskContract
<1>1. HInv /\ [HostNext]_hostVars => Contract!Next \/ UNCHANGED mapped
    <2>1. CASE UNCHANGED hostVars
        BY <2>1 DEF hostVars, vars, graph, outside, promotion, mapped, GivenUp, Foreground,
           TheAttempt
    <2>2. ASSUME HInv, DirectPromotion \/ DirectFork PROVE UNCHANGED mapped
        BY <2>2, DirectMapped
    <2>3. ASSUME HInv, mode = "task",
                 Step \/ Reopen \/ RunAgain \/ CrashTask \/ EditForeground
          PROVE  Contract!Next \/ UNCHANGED mapped
        BY <2>3, TaskMapped DEF HInv, Implemented
    <2> QED BY <2>1, <2>2, <2>3 DEF HostNext, TaskStep
<1> QED BY <1>1, InitialMapped, HostInvariance, PTL
    DEF HostSpec, ImplementsTaskContract, Contract!Spec, mapped, GivenUp, Foreground

-----------------------------------------------------------------------------
(***************************************************************************)
(* How the calls of run() end: what the task knows of workers and leases   *)
(***************************************************************************)
\* The stages of a candidate that is driven.
Driven == {"turn", "observe", "decide", "prune", "suspend"}

\* The statuses of a candidate that has settled and may still win.
Settling == {"verifying", "verified", "winner"}

\* A child of the branch is still to be given its workspace and worker.
Provisioned == \E k \in Children : node[k].st = "provisioning"

\* A worker has a workspace; while no process was lost, every candidate that was
\* started has its worker.
Staffed ==
    /\ Root \in workers => task.rootSnap # 0
    /\ \A k \in Children : k \in workers => Dispatchable
    /\ run.at \in Driven => run.c \in workers
    /\ crashes = 0 =>
        /\ task.rootSnap # 0 => Root \in workers
        /\ \A k \in Children : Started(k) => k \in workers
        /\ run.at = "down" => task.status = "planned"

\* The root stays the origin of its branch, and nothing happens to the task while a
\* child of it is still to be provisioned.
Lineage ==
    /\ task.status # "planned" => node[Root].st # "absent"
    /\ task.branched => node[Root].st = "branch_origin" /\ \A k \in Children : node[k].st # "absent"
    /\ \A k \in Children : node[k].st \notin {"branching", "branch_origin"}
    /\ \A c \in Candidates : node[c].st \in Settling => node[c].settled = "completed"
    /\ Provisioned =>
        /\ task.status = "running"
        /\ run.at \in {"down", "loop", "threw", "refused", "forking", "provision"}
        /\ \A k \in Children : node[k].st \in {"provisioning", "active"}

\* Children are driven in their order, and a group is forked again for an active one
\* only when nothing of it is verified or to be promoted.
InOrder ==
    /\ run.at \in Driven \cup {"release"} /\ task.status = "running" =>
        \A j \in Children : node[j].st = "active" => run.c <= j
    /\ run.at = "promote" => task.winner \in {None, run.c}
    /\ run.at = "forking" /\ run.c = Root => Provisioned
    /\ run.at = "forking" /\ run.c # Root =>
        node[run.c].st = "active" /\ \A k \in Children : node[k].st \notin Settling

\* Where the cleanup is, and what is released.
Cursor ==
    /\ run.n # 0 => run.at \in {"promoting", "recovering", "release", "removing", "unreference",
                                "released", "cleanup"}
    /\ run.at \in {"promoting", "recovering"} => run.n <= 1
    /\ run.at \in {"release", "removing", "unreference", "released"} =>
        /\ run.n <= ChildCount + 1 /\ (task.status # "terminal" => run.n = 0)
        /\ run.c = Root => task.rootSnap # 0
        /\ run.c # Root => Dispatchable
    /\ run.at = "removing" => LeaseStatus(run.c) = "releasing"
    /\ run.at = "unreference" => LeaseStatus(run.c) = "released"
    /\ run.at = "cleanup" => run.n <= ChildCount + 2 /\ (run.n = ChildCount + 2 => snapReleased)

\* The stages of a call that has the lease of its child.
HasLease == {"recordLease", "admit", "recordRun", "recordReady", "groupReady"}

\* Only a group that was called for has leases, and its snapshot outlives them.
Leases ==
    /\ fork.at # "idle" \/ fork.result # "none" => run.at = "forking" /\ group # {}
    /\ group = {} => ~snapReleased /\ \A k \in Children : lease[k] = "none"
    /\ snapReleased =>
        /\ fork.at \notin Driving \cup {"freeze"}
        /\ \A k \in Children : lease[k] \in {"none", "released"}
    /\ \A k \in Children : "workspace_ready" \in child[k] => lease[k] \notin {"none", "creating"}
    /\ fork.at = "materialize" => lease[fork.k] = "creating"
    /\ fork.at \in HasLease => lease[fork.k] = "ready"
    /\ fork.at \in Driving => \A j \in Children : j < fork.k => lease[j] = "ready"
    /\ fork.result = "ok" => \A k \in Children : lease[k] = "ready"
    /\ fork.at = "idle" => fork.held = {}
    /\ \A k \in fork.held :
        /\ k <= fork.k /\ lease[k] \in {"ready", "releasing", "released"}
        /\ fork.at # "undo" => lease[k] = "ready"
    /\ fork.at = "unfreeze" \/ (fork.at = "idle" /\ fork.result = "rejected") => "failed" \in group

\* The root's snapshot is recorded once its workspace is ready, and released after it.
RootLeases ==
    /\ run.at \in {"materializeRoot", "recordRoot"} => task.rootSnap = 0 /\ Len(root.leases) > 0
    /\ run.at = "recordRoot" => root.leases[Len(root.leases)] = "ready"
    /\ root.released => task.rootSnap # 0 /\ RootLease = "released"

\* Where run() is in the graph, and all that is said of workers and leases.
Course == Staffed /\ Lineage /\ InOrder /\ Cursor
Structure == Staffed /\ Lineage /\ InOrder /\ Cursor /\ Leases /\ RootLeases

\* What every step may rely on.
Known == Typed /\ PInv /\ GInv /\ TaskInv /\ Structure /\ FailuresTypeOK

\* A step of a task.
Moved == Step \/ Reopen \/ RunAgain \/ CrashTask \/ EditForeground

\* What no step takes back: events of the group, failures.
Grows ==
    /\ group \subseteq group' /\ (snapReleased => snapReleased')
    /\ (crashes' = 0 => crashes = 0) /\ (crashes > 0 => crashes' > 0)
    /\ faults' = 0 => faults = 0 /\ UNCHANGED faults

\* The order of the ranks is the order of the priorities, then of the numbers.
LEMMA RankOrder ==
    ASSUME Typed, NEW c \in Candidates, NEW d \in Candidates, Rank(c) <= Rank(d)
    PROVE  Priority(c) < Priority(d) \/ (Priority(c) = Priority(d) /\ c <= d)
<1>1. Priority(c) \in {0, 1, 2, 3, 4, 5, 6} /\ Priority(d) \in {0, 1, 2, 3, 4, 5, 6}
    BY DEF Priority
<1>2. /\ c \in Nat /\ d \in Nat /\ ChildCount \in Nat /\ c <= ChildCount /\ d <= ChildCount
      /\ Priority(c) * (ChildCount + 1) + c <= Priority(d) * (ChildCount + 1) + d
    BY Numbers DEF Rank
<1>3. ASSUME NEW p \in {0, 1, 2, 3, 4, 5, 6}, NEW q \in {0, 1, 2, 3, 4, 5, 6},
             p * (ChildCount + 1) + c <= q * (ChildCount + 1) + d
      PROVE  p < q \/ (p = q /\ c <= d)
    BY <1>2, <1>3
<1> QED BY <1>1, <1>2, <1>3

\* While children are still to be provisioned the loop chooses nothing but the origin,
\* and an active child only when it is the first and no verdict waits.
LEMMA ChosenInOrder ==
    ASSUME Known, NEW c \in Candidates, Chosen(c)
    PROVE  /\ Provisioned => c = Root /\ node[Root].st = "branch_origin" /\ ~node[Root].pending
           /\ ~node[c].pending /\ node[c].st = "active" =>
                /\ \A j \in Children : node[j].st = "active" => c <= j
                /\ \A d \in Candidates : node[d].st \notin Settling
<1>1. /\ task.status = "running" /\ Drivable(c)
      /\ \A d \in Candidates : Drivable(d) =>
            Priority(c) < Priority(d) \/ (Priority(c) = Priority(d) /\ c <= d)
    BY RankOrder DEF Chosen, Running, Known
<1>2. /\ \A d \in Candidates : node[d].pending => node[d].st = "verifying"
      /\ \A d \in Candidates : node[d].st # "pruned" => ~node[d].released
    BY <1>1 DEF Known, TaskInv, Graph
<1>3. CASE Provisioned
    <2>1. /\ node[Root].st = "branch_origin" /\ ~node[Root].pending /\ ~node[Root].released
          /\ \A k \in Children : node[k].st \in {"provisioning", "active"} /\ ~node[k].pending
        BY <1>2, <1>3, Numbers DEF Known, TaskInv, Branch, Structure, Lineage, Provisioned
    <2>2. Drivable(Root) /\ Priority(Root) = 3
        BY <1>3, <2>1 DEF Drivable, Provisioned, Priority
    <2>3. \A k \in Children : Drivable(k) => Priority(k) = 6
        BY <2>1, Numbers DEF Drivable, Priority
    <2>4. c = Root
        BY <1>1, <2>2, <2>3, Numbers
    <2> QED BY <2>1, <2>4
<1>4. ASSUME ~node[c].pending, node[c].st = "active"
      PROVE  /\ \A j \in Children : node[j].st = "active" => c <= j
             /\ \A d \in Candidates : node[d].st \notin Settling
    <2>1. Priority(c) = 6
        BY <1>4 DEF Priority
    <2>2. ASSUME NEW j \in Children, node[j].st = "active" PROVE c <= j
        <3>1. Drivable(j) /\ Priority(j) = 6 /\ j \in Candidates
            BY <1>2, <2>2, Numbers DEF Drivable, Priority
        <3> QED BY <1>1, <2>1, <3>1
    <2>3. ASSUME NEW d \in Candidates, node[d].st \in Settling PROVE FALSE
        <3>1. Drivable(d) /\ Priority(d) \in {0, 1, 5}
            BY <1>2, <2>3 DEF Drivable, Priority, Settling
        <3> QED BY <1>1, <2>1, <3>1
    <2> QED BY <2>2, <2>3
<1> QED BY <1>3, <1>4, <1>2, Numbers DEF Known, TaskInv, Branch

\* While children are still to be provisioned there is always something to drive.
LEMMA SomethingToDrive ==
    ASSUME Known, Provisioned
    PROVE  Drivable(Root) /\ Root \in Candidates
<1>1. node[Root].st = "branch_origin" /\ task.status = "running" /\ Root \in Candidates
    BY Numbers DEF Known, TaskInv, Branch, Structure, Lineage, Provisioned
<1> QED BY <1>1 DEF Known, TaskInv, Graph, Drivable, Provisioned

\* The leases as the calls of the group leave them.
LEMMA LeasesForked ==
    ASSUME GInv, Leases, ForkStep, run.at = "forking", run' = run
    PROVE  Leases'
<1>1. /\ fork \in Forks /\ lease \in [Children -> LeaseStatuses] /\ fork.k \in Children
      /\ child \in [Children -> SUBSET ChildEvents] /\ ChildCount \in Nat
      /\ Children \subseteq Nat /\ \A k \in Children : k <= ChildCount
    BY Facts, GroupAssumption DEF GInv, GroupTypeOK, Forks, Children
<1>2. /\ NoFork.at = "idle" /\ NoFork.result = "none" /\ NoFork.held = {} /\ NoFork.k = 1
    BY DEF NoFork
<1>3. fork.at # "idle" /\ group # {}
    BY DEF ForkStep, Freeze, ForkSession, RecordSession, ForkLease, Materialize, RecordLease,
       AdmitRun, RecordRun, RecordReady, GroupReady, ForkFails, Undo, ChildFailed, GroupFailed,
       Unfreeze, ForkAt, Leases
<1>4. CASE Freeze
    <2>1. fork.at = "freeze" /\ UNCHANGED <<group, child, lease, snapReleased>>
          /\ \/ fork' = [NoFork EXCEPT !.result = "rejected"] /\ "failed" \in group
             \/ fork' = [fork EXCEPT !.at = "session"]
        BY <1>4 DEF Freeze, ForkAt, ForkReturns, ForkTo
    <2>2. \A j \in Children : ~(j < fork.k)
        BY <1>1, <2>1 DEF GInv, Progress, Children
    <2> QED BY <1>1, <1>2, <1>3, <2>1, <2>2 DEF Leases, Driving, HasSession, HasLease, Forks, NoFork
<1>5. CASE ForkSession \/ RecordSession
    <2>1. /\ UNCHANGED <<group, lease, snapReleased>> /\ fork.at \in Driving
          /\ \E stage \in {"lease", "recordSession"} : fork' = [fork EXCEPT !.at = stage]
          /\ \A k \in Children : child'[k] \subseteq child[k] \cup {"session_forked"}
        BY <1>1, <1>5 DEF ForkSession, RecordSession, ForkTo, ForkAt, RecordChild, Driving,
           HasSession
    <2> QED BY <1>1, <1>3, <2>1 DEF Leases, Driving, HasSession, HasLease, Forks
<1>6. CASE ForkLease
    <2>1. UNCHANGED <<group, child, snapReleased>> /\ fork.at = "lease" /\ ~snapReleased
        BY <1>6 DEF ForkLease, ForkAt, Leases, Driving, HasSession
    <2>2. CASE lease[fork.k] = "none" /\ lease' = [lease EXCEPT ![fork.k] = "creating"]
               /\ fork' = [fork EXCEPT !.at = "materialize"]
        BY <1>1, <1>3, <2>1, <2>2 DEF Leases, Driving, HasSession, HasLease, Forks
    <2>3. CASE lease[fork.k] = "ready" /\ UNCHANGED lease
               /\ \E stage \in {"admit", "recordLease"} :
                    fork' = [fork EXCEPT !.at = stage, !.held = @ \cup {fork.k}]
        BY <1>1, <1>3, <2>1, <2>3 DEF Leases, Driving, HasSession, HasLease, Forks
    <2>4. CASE fork' = [fork EXCEPT !.at = "undo", !.result = "error"] /\ UNCHANGED lease
        BY <1>1, <1>3, <2>1, <2>4 DEF Leases, Driving, HasSession, HasLease, Forks
    <2> QED BY <1>6, <2>2, <2>3, <2>4 DEF ForkLease, ForkTo, Hold, AfterLease
<1>7. CASE Materialize
    <2>1. /\ UNCHANGED <<group, child, snapReleased>> /\ fork.at = "materialize"
          /\ lease' = [lease EXCEPT ![fork.k] = "ready"]
          /\ \E stage \in {"admit", "recordLease"} :
                    fork' = [fork EXCEPT !.at = stage, !.held = @ \cup {fork.k}]
        BY <1>7 DEF Materialize, ForkAt, Hold, AfterLease
    <2> QED BY <1>1, <1>3, <2>1 DEF Leases, Driving, HasSession, HasLease, Forks
<1>8. CASE RecordLease \/ AdmitRun \/ RecordRun
    <2>1. /\ UNCHANGED <<group, lease, snapReleased>> /\ fork.at \in HasLease
          /\ \/ \E stage \in HasLease \ {"recordLease", "groupReady"} :
                    fork' = [fork EXCEPT !.at = stage]
             \/ fork' = [fork EXCEPT !.at = "undo", !.result = "rejected"]
          /\ \A k \in Children : k # fork.k => child'[k] = child[k]
        BY <1>1, <1>8 DEF RecordLease, AdmitRun, RecordRun, ForkTo, ForkAt, RecordChild, HasLease
    <2> QED BY <1>1, <1>3, <2>1 DEF Leases, Driving, HasSession, HasLease, Forks
<1>9. CASE RecordReady
    <2>1. /\ UNCHANGED <<group, lease, snapReleased>> /\ fork.at = "recordReady"
          /\ \/ fork' = [fork EXCEPT !.at = "groupReady"]
             \/ fork' = [fork EXCEPT !.at = "session", !.k = @ + 1]
          /\ \A k \in Children : k # fork.k => child'[k] = child[k]
        BY <1>1, <1>9 DEF RecordReady, ForkAt, RecordChild
    <2>2. \A k \in Children : child'[k] \in {child[k], child[k] \cup {"ready"}}
        BY <1>1, <1>9 DEF RecordReady, RecordChild
    <2>3. lease[fork.k] = "ready" /\ \A j \in Children : j < fork.k => lease[j] = "ready"
        BY <2>1 DEF Leases, Driving, HasSession, HasLease
    <2>4. CASE fork' = [fork EXCEPT !.at = "groupReady"]
        BY <1>1, <1>3, <2>1, <2>2, <2>4 DEF Leases, Driving, HasSession, HasLease, Forks
    <2>5. CASE fork' = [fork EXCEPT !.at = "session", !.k = @ + 1]
        <3>1. /\ fork'.at = "session" /\ fork'.k = fork.k + 1 /\ fork'.held = fork.held
              /\ fork'.result = fork.result
            BY <1>1, <2>5 DEF Forks
        <3>2. ASSUME NEW j \in Children, j < fork.k + 1 PROVE j < fork.k \/ j = fork.k
            <4>1. j \in Nat /\ fork.k \in Nat
                BY <1>1
            <4> QED BY <3>2, <4>1
        <3>3. \A k \in fork'.held : k <= fork'.k /\ lease'[k] = "ready"
            <4>1. ASSUME NEW k \in fork.held PROVE k <= fork.k + 1 /\ lease[k] = "ready"
                <5>1. k \in Nat /\ fork.k \in Nat /\ k <= fork.k /\ lease[k] = "ready"
                    BY <1>1, <2>1, <4>1 DEF Leases, Forks
                <5> QED BY <5>1
            <4> QED BY <2>1, <3>1, <4>1
        <3> QED BY <1>3, <2>1, <2>2, <2>3, <3>1, <3>2, <3>3
            DEF Leases, Driving, HasSession, HasLease
    <2> QED BY <2>1, <2>4, <2>5
<1>10. CASE GroupReady
    <2>1. /\ UNCHANGED <<child, lease, snapReleased>> /\ fork.at = "groupReady"
          /\ fork.k = ChildCount /\ fork' = [NoFork EXCEPT !.result = "ok"]
          /\ group \subseteq group'
        BY <1>10 DEF GroupReady, ForkAt, ForkReturns, GInv, Progress
    <2>2. \A k \in Children : lease[k] = "ready"
        BY <1>1, <2>1 DEF Leases, Driving, HasSession, HasLease
    <2> QED BY <1>1, <1>2, <1>3, <2>1, <2>2 DEF Leases, Driving, HasSession, HasLease, Forks, NoFork
<1>11. CASE ForkFails
    BY <1>1, <1>3, <1>11 DEF ForkFails, Leases, Driving, HasSession, HasLease, Forks
<1>12. CASE Undo
    <2>1. UNCHANGED <<group, child>> /\ fork.at = "undo" /\ fork.result \in {"error", "rejected"}
        BY <1>12 DEF Undo, ForkAt, GInv, Ends
    <2>2. ASSUME NEW k \in fork.held, ReleaseHeld(k) PROVE Leases'
        <3>1. k \in Children /\ k <= fork.k /\ lease[k] \in {"ready", "releasing", "released"}
            BY <1>1, <2>2 DEF Leases, Forks
        <3>2. /\ fork' \in Forks /\ fork'.at = "undo" /\ fork'.k = fork.k
              /\ fork'.result = fork.result
            BY <2>1, <2>2, HeldMoves
        <3>3. CASE /\ fork'.held = fork.held /\ UNCHANGED snapReleased
                   /\ \E v \in {"releasing", "released"} :
                        lease[k] \in {"ready", "releasing"} /\ lease' = [lease EXCEPT ![k] = v]
            <4>1. ~snapReleased
                BY <3>1, <3>3 DEF Leases
            <4> QED BY <1>1, <1>3, <2>1, <3>1, <3>2, <3>3, <4>1
                DEF Leases, Driving, HasSession, HasLease
        <3>4. CASE /\ fork'.held = fork.held \ {k} /\ UNCHANGED lease
                   /\ snapReleased' \in {snapReleased, snapReleased \/ Unreferenced}
            BY <1>1, <1>3, <2>1, <3>1, <3>2, <3>4
            DEF Leases, Driving, HasSession, HasLease, Unreferenced
        <3>5. CASE /\ fork'.held = fork.held \ {k} /\ UNCHANGED snapReleased
                   /\ lease[k] = "releasing" /\ lease' = [lease EXCEPT ![k] = "orphaned"]
            <4>1. ~snapReleased
                BY <3>1, <3>5 DEF Leases
            <4> QED BY <1>1, <1>3, <2>1, <3>1, <3>2, <3>5, <4>1
                DEF Leases, Driving, HasSession, HasLease
        <3> QED BY <2>2, <3>3, <3>4, <3>5, HeldMoves
    <2>3. CASE /\ fork.held = {} /\ UNCHANGED <<lease, snapReleased>>
               /\ \/ fork.result = "error" /\ fork' = [NoFork EXCEPT !.result = "error"]
                  \/ fork' = [fork EXCEPT !.at = "childFailed"]
        BY <1>1, <1>2, <1>3, <2>1, <2>3
        DEF Leases, Driving, HasSession, HasLease, Forks, NoFork
    <2> QED BY <1>12, <2>2, <2>3 DEF Undo, ForkReturns, ForkTo
<1>13. CASE ChildFailed \/ GroupFailed
    <2>1. /\ UNCHANGED <<lease, snapReleased>> /\ fork.at \in {"childFailed", "groupFailed"}
          /\ \A k \in Children : child'[k] \subseteq child[k] \cup {"failed"}
          /\ \/ fork' = [fork EXCEPT !.at = "groupFailed"] /\ UNCHANGED group
             \/ fork' = [fork EXCEPT !.at = "unfreeze"] /\ group' = group \cup {"failed"}
        BY <1>1, <1>13 DEF ChildFailed, GroupFailed, ForkAt, ForkTo, RecordChild
    <2> QED BY <1>1, <1>3, <2>1 DEF Leases, Driving, HasSession, HasLease, Forks
<1>14. CASE Unfreeze
    <2>1. /\ UNCHANGED <<group, child, lease, snapReleased>> /\ fork.at = "unfreeze"
          /\ fork' = [NoFork EXCEPT !.result = "rejected"]
        BY <1>14 DEF Unfreeze, ForkAt, ForkReturns
    <2> QED BY <1>1, <1>2, <1>3, <2>1 DEF Leases, Driving, HasSession, HasLease, Forks, NoFork
<1> QED BY <1>4, <1>5, <1>6, <1>7, <1>8, <1>9, <1>10, <1>11, <1>12, <1>13, <1>14 DEF ForkStep

\* Steps apart from the group leave the leases alone.
LEMMA LeasesElsewhere ==
    ASSUME Leases, UNCHANGED continuation, run.at # "forking" \/ UNCHANGED run
    PROVE  Leases'
BY DEF Leases, continuation, Driving, HasSession, HasLease

\* A dispatchable group has a lease for every child.
LEMMA DispatchableLeases ==
    ASSUME GInv, Leases, Dispatchable, NEW k \in Children
    PROVE  lease[k] \notin {"none", "creating"} /\ group # {}
BY DEF GInv, ReadyIsComplete, Leases, Dispatchable

\* The candidate's lease is marked.
Marks(c, v) ==
    /\ UNCHANGED snapReleased
    /\ c = Root => /\ UNCHANGED lease /\ RootLease' = v /\ root'.released = root.released
                   /\ root'.leases = [root.leases EXCEPT ![task.rootSnap] = v]
    /\ c # Root => UNCHANGED root /\ lease' = [lease EXCEPT ![c] = v]

\* What each step that lets go of a workspace does.
LetsGo(c) ==
    \/ /\ run'.at = "released" /\ UNCHANGED <<lease, root, snapReleased>>
       /\ Fault \/ (LeaseStatus(c) = "released" /\ UNCHANGED failures)
    \/ /\ run.at = "release" /\ run'.at = "removing" /\ LeaseStatus(c) # "released"
       /\ Marks(c, "releasing") /\ UNCHANGED failures
    \/ /\ run.at = "removing" /\ run'.at = "unreference" /\ LeaseStatus(c) = "releasing"
       /\ Marks(c, "released") /\ UNCHANGED failures
    \/ /\ run.at = "removing" /\ run'.at = "released" /\ LeaseStatus(c) = "releasing"
       /\ Marks(c, "orphaned") /\ Fault
    \/ /\ run.at = "unreference" /\ run'.at = "released" /\ LeaseStatus(c) = "released"
       /\ UNCHANGED <<lease, failures>> /\ root'.leases = root.leases
       /\ \/ c = Root /\ UNCHANGED snapReleased /\ (root.released => root'.released)
          \/ c # Root /\ UNCHANGED root /\ snapReleased' = (snapReleased \/ Unreferenced)

\* The steps of a workspace that is let go of, by what they do.
LEMMA LettingGoMoves ==
    ASSUME Known, LettingGo
    PROVE  LetsGo(run.c) /\ run.c \in Candidates /\ run'.c = run.c /\ run'.n = run.n
<1>1. /\ Typed /\ Cursor /\ run.c \in Candidates /\ run' \in Runs /\ run'.c = run.c
      /\ run'.n = run.n /\ task' = task
      /\ root \in Roots /\ task.rootSnap \in 0..Len(root.leases)
    BY LettingGoKeeps DEF Known, Structure, Typed, RunType, Runs, graph, RootType, GraphType, Tasks
<1>2. run.c = Root => task.rootSnap # 0
    BY <1>1, LettingGoKeeps DEF Cursor
<1>3. ASSUME NEW v \in {"releasing", "released", "orphaned"}, Mark(run.c, v),
             UNCHANGED snapReleased
      PROVE  Marks(run.c, v)
    <2>1. v \in LeaseStatuses
        BY <1>3 DEF LeaseStatuses
    <2>2. CASE run.c = Root
        <3>1. /\ root'.leases = [root.leases EXCEPT ![task.rootSnap] = v] /\ UNCHANGED lease
              /\ root'.released = root.released
            BY <1>1, <1>3, <2>1, <2>2, MarksRoot
        <3>2. root.leases \in Seq(LeaseStatuses) /\ task.rootSnap \in DOMAIN root.leases
            BY <1>1, <1>2, <2>2 DEF Roots
        <3>3. RootLease' = v
            BY <1>1, <3>1, <3>2 DEF RootLease
        <3> QED BY <1>3, <2>2, <3>1, <3>3 DEF Marks
    <2>3. CASE run.c \in Children
        BY <1>3, <2>3, MarksChild, Numbers DEF Marks
    <2> QED BY <1>1, <2>2, <2>3, Numbers
<1>4. ASSUME NEW stage \in RunStages, Go(stage) PROVE run'.at = stage
    BY <1>1, <1>4, GoKeeps DEF Typed, RunType
<1>5. CASE Release
    <2>1. \A stage \in {"removing", "released"} : Go(stage) => run'.at = stage
        BY <1>4 DEF RunStages
    <2> QED BY <1>1, <1>3, <1>5, <2>1 DEF Release, RunAt, LetsGo
<1>6. CASE Remove
    <2>1. \A stage \in {"unreference", "released"} : Go(stage) => run'.at = stage
        BY <1>4 DEF RunStages
    <2>2. LeaseStatus(run.c) = "releasing"
        BY <1>1, <1>6 DEF Cursor, Remove, RunAt
    <2> QED BY <1>1, <1>3, <1>6, <2>1, <2>2 DEF Remove, RunAt, LetsGo
<1>7. CASE Unreference
    <2>1. Go("released") => run'.at = "released"
        BY <1>4 DEF RunStages
    <2>2. LeaseStatus(run.c) = "released"
        BY <1>1, <1>7 DEF Cursor, Unreference, RunAt
    <2>3. ASSUME root' = [root EXCEPT !.released = @ \/ ~task.branched \/ snapReleased]
          PROVE  root'.leases = root.leases /\ (root.released => root'.released)
        BY <1>1, <2>3 DEF Roots
    <2> QED BY <1>1, <1>7, <2>1, <2>2, <2>3 DEF Unreference, RunAt, LetsGo, ReleaseUnreferenced
<1> QED BY <1>1, <1>5, <1>6, <1>7 DEF LettingGo

\* A child that is let go of is of a group that was dispatched.
LEMMA LetGoChild ==
    ASSUME Known, LettingGo, run.c # Root
    PROVE  /\ run.c \in Children /\ lease[run.c] \notin {"none", "creating"} /\ group # {}
           /\ lease[run.c] # "released" => ~snapReleased
<1>1. run.c \in Children /\ Dispatchable
    BY LettingGoKeeps, Numbers DEF Known, Typed, RunType, Runs, Structure, Cursor
<1> QED BY <1>1, DispatchableLeases DEF Known, Structure, Leases

\* Outside of a call the leases are released, recovered and cleaned up.
LEMMA LeasesTended ==
    ASSUME Known, BeginRecovery \/ LettingGo \/ CleanupGroup \/ CrashTask
           \/ Forked \/ \E c \in Candidates : BeginFork(c)
    PROVE  Leases'
<1>1. /\ lease \in [Children -> LeaseStatuses] /\ fork \in Forks /\ snapReleased \in BOOLEAN
      /\ NoFork.at = "idle" /\ NoFork.held = {} /\ NoFork.result = "none" /\ NoFork.k = 1
    BY Facts DEF Known, GInv, GroupTypeOK, NoFork
<1>2. Leases
    BY DEF Known, Structure
<1>3. CASE BeginRecovery
    <2>1. /\ run.at \in {"recovering", "down"}
          /\ UNCHANGED <<group, child, snapReleased, fork, run>>
          /\ lease' = [k \in Children |-> RecoveredLease(lease[k])]
        BY <1>3 DEF BeginRecovery, RunAt, process
    <2>2. fork.at = "idle" /\ fork.result = "none" /\ fork.held = {}
        BY <1>2, <2>1 DEF Leases
    <2>3. \A k \in Children :
            /\ lease[k] \notin {"none", "creating"} => lease'[k] \notin {"none", "creating"}
            /\ lease[k] \in {"none", "released"} => lease'[k] = lease[k]
        BY <1>1, <2>1 DEF RecoveredLease, LeaseStatuses
    <2> QED BY <1>2, <2>1, <2>2, <2>3 DEF Leases, Driving, HasSession, HasLease
<1>4. CASE LettingGo
    <2>1. run.at \in {"release", "removing", "unreference"} /\ UNCHANGED <<group, child, fork>>
        BY <1>4, LettingGoKeeps DEF Known
    <2>2. fork.at = "idle" /\ fork.result = "none" /\ fork.held = {}
        BY <1>2, <2>1 DEF Leases
    <2>3. CASE UNCHANGED lease /\ snapReleased' \in {snapReleased, snapReleased \/ Unreferenced}
        <3>1. run.c = Root => UNCHANGED snapReleased
            BY <1>4, LettingGoMoves DEF LetsGo, Marks
        <3>2. run.c # Root => group # {}
            BY <1>4, LetGoChild
        <3>3. CASE UNCHANGED snapReleased
            BY <1>2, <2>1, <2>2, <2>3, <3>3 DEF Leases, Driving, HasSession, HasLease
        <3>4. CASE group # {} /\ snapReleased' = (snapReleased \/ Unreferenced)
            <4>1. snapReleased' =>
                    snapReleased \/ \A k \in Children : lease[k] \in {"none", "released"}
                BY <3>4 DEF Unreferenced
            <4>2. UNCHANGED <<lease, group, child, fork>>
                BY <2>1, <2>3
            <4> QED BY <1>2, <2>1, <2>2, <3>4, <4>1, <4>2
                DEF Leases, Driving, HasSession, HasLease
        <3> QED BY <2>3, <3>1, <3>2, <3>3, <3>4
    <2>4. ASSUME run.c # Root, NEW v \in {"releasing", "released", "orphaned"},
                 lease' = [lease EXCEPT ![run.c] = v], lease[run.c] # "released",
                 UNCHANGED snapReleased
          PROVE  Leases'
        BY <1>1, <1>2, <1>4, <2>1, <2>2, <2>4, LetGoChild DEF Leases, Driving, HasSession, HasLease
    <2> QED BY <1>4, <2>3, <2>4, LettingGoMoves DEF LetsGo, Marks, LeaseStatus
<1>5. CASE CleanupGroup
    <2>1. /\ run.at \in {"cleanup", "loop"} /\ UNCHANGED <<child, lease, fork>>
          /\ "terminal" \in group' /\ group \subseteq group'
          /\ UNCHANGED snapReleased
             \/ (snapReleased' = TRUE
                 /\ (snapReleased \/ \A k \in Children : lease[k] \in {"none", "released"}))
        BY <1>5 DEF CleanupGroup, Cleaning, RunAt, Unreferenced
    <2>2. fork.at = "idle" /\ fork.result = "none" /\ fork.held = {}
        BY <1>2, <2>1 DEF Leases
    <2> QED BY <1>2, <2>1, <2>2 DEF Leases, Driving, HasSession, HasLease
<1>6. CASE CrashTask \/ Forked
    <2>1. fork' = NoFork /\ UNCHANGED <<group, child, lease, snapReleased>>
        BY <1>6 DEF CrashTask, Forked, ForkLost
    <2> QED BY <1>1, <1>2, <2>1 DEF Leases, Driving, HasSession, HasLease
<1>7. ASSUME NEW c \in Candidates, BeginFork(c) PROVE Leases'
    <2>1. run.at # "forking"
        BY <1>7 DEF BeginFork, Chosen, WorkerMissing, Turning, Running, RunAt
    <2>2. CASE snapReleased
        BY <1>2, <1>7, <2>1, <2>2, LeasesElsewhere DEF BeginFork, continuation
    <2>3. CASE ~snapReleased
        <3>1. /\ ForkExact /\ run'.at = "forking"
            BY <1>7, <2>3, GoForKeeps DEF BeginFork, RunStages
        <3>2. /\ fork'.at = "freeze" /\ fork'.result = "none" /\ fork'.held = {}
              /\ group' # {} /\ group \subseteq group' /\ UNCHANGED <<child, lease, snapReleased>>
            BY <1>1, <3>1 DEF ForkExact, ForkTo, NoFork
        <3> QED BY <1>2, <2>3, <3>1, <3>2 DEF Leases, Driving, HasSession, HasLease
    <2> QED BY <2>2, <2>3
<1> QED BY <1>3, <1>4, <1>5, <1>6, <1>7

\* The steps that touch the group and its leases.
LEMMA GroupTouched ==
    ASSUME Moved
    PROVE  \/ UNCHANGED continuation /\ (run.at # "forking" \/ UNCHANGED run)
           \/ Forking \/ Forked \/ BeginRecovery \/ LettingGo \/ CleanupGroup \/ CrashTask
           \/ \E c \in Candidates : BeginFork(c)
<1>1. CASE Promoting \/ EditForeground
    BY <1>1 DEF Promoting, EditForeground, process
<1>2. ASSUME NEW c \in Candidates, Drive(c), ~BeginFork(c)
      PROVE  UNCHANGED continuation /\ run.at # "forking"
    BY <1>2 DEF Drive, AttachLease, ResumeDecision, PruneExhausted, Turn, TurnRefused, ReadTurn,
       PlanVerifier, ResumeVerifier, outside, WorkerMissing, Turning, Drives, Advances, Chosen,
       Running, RunAt
<1>3. CASE PlanTask \/ NothingToDrive \/ CreateRootSession \/ CaptureRoot \/ MaterializeRoot
           \/ RecordRoot \/ StartRoot \/ RecordRootRun \/ Observe \/ Decide \/ Prune
           \/ SuspendCandidate \/ SuspendTask \/ CommitBranch \/ Provision
    BY <1>3 DEF PlanTask, NothingToDrive, CreateRootSession, CaptureRoot, MaterializeRoot,
       RecordRoot, StartRoot, RecordRootRun, Observe, Decide, Prune, SuspendCandidate,
       SuspendTask, CommitBranch, Provision, outside, WorkerMissing, Turning, Drives, Chosen,
       Running, RunAt
<1>4. CASE RunVerifier \/ SelectTarget \/ SelectWinner \/ BeginPromotion \/ HostRecovered
           \/ PromotionEnds \/ RecordReleased \/ CleanupRoot \/ Reopen \/ RunAgain
           \/ \E c \in Candidates : CleanupNode(c)
    BY <1>4 DEF RunVerifier, SelectTarget, SelectWinner, BeginPromotion, HostRecovered,
       PromotionEnds, RecordReleased, CleanupRoot, Reopen, RunAgain, CleanupNode, outside,
       Selecting, Cleaning, Chosen, Running, RunAt
<1> QED BY <1>1, <1>2, <1>3, <1>4 DEF Moved, Step, LettingGo

\* Every step keeps the leases.
LEMMA LeasesStep ==
    ASSUME Known, Moved
    PROVE  Leases'
<1>1. Leases
    BY DEF Known, Structure
<1>2. CASE Forking
    <2>1. run.at = "forking" /\ ForkStep /\ run' = run
        BY <1>2 DEF Forking, RunAt, process
    <2> QED BY <1>1, <2>1, LeasesForked DEF Known
<1> QED BY <1>1, <1>2, GroupTouched, LeasesElsewhere, LeasesTended

\* Steps of a fork add to the group.
LEMMA ForkGrows ==
    ASSUME ForkStep, GroupTypeOK PROVE group \subseteq group' /\ (snapReleased => snapReleased')
BY DEF ForkStep, Freeze, ForkSession, RecordSession, ForkLease, Materialize, RecordLease, AdmitRun,
   RecordRun, RecordReady, GroupReady, ForkFails, Undo, ReleaseHeld, ReleaseUnreferenced,
   ChildFailed, GroupFailed, Unfreeze, GroupTypeOK

\* Nothing is taken back.
LEMMA StepsGrow == ASSUME Known, Moved PROVE Grows
<1>1. Counted /\ crashes \in Nat /\ faults \in Nat
    BY StepsFail, FailuresAssumption DEF Known, Moved, FailuresTypeOK
<1>2. /\ (crashes' = 0 => crashes = 0) /\ (crashes > 0 => crashes' > 0)
      /\ (faults' = 0 => faults = 0 /\ UNCHANGED faults)
    BY <1>1 DEF Counted, Fault, Crash, failures
<1>3. group \subseteq group' /\ (snapReleased => snapReleased')
    <2>1. CASE Forking
        BY <2>1, ForkGrows DEF Forking, Known, GInv
    <2>2. CASE Forked \/ LettingGo \/ CleanupGroup \/ BeginRecovery \/ CrashTask
        BY <2>2, Facts DEF Forked, LettingGo, Release, Remove, Unreference, ReleaseUnreferenced,
           CleanupGroup, BeginRecovery, CrashTask, ForkLost, Known, GInv, GroupTypeOK
    <2>3. CASE UNCHANGED continuation \/ \E c \in Candidates : BeginFork(c)
        BY <2>3 DEF BeginFork, ForkExact, continuation
    <2> QED BY <2>1, <2>2, <2>3, GroupTouched
<1> QED BY <1>2, <1>3 DEF Grows

\* Leaving for another stage starts it from its first node.
LEMMA LeaveFor ==
    ASSUME NEW stage \in RunStages, Leave(stage)
    PROVE  run'.at = stage /\ run'.c = Root /\ run'.n = 0
BY StageType DEF Leave

\* And one that goes on with a candidate starts from its first node.
LEMMA GoForAt ==
    ASSUME NEW stage \in RunStages, NEW c \in Candidates, GoFor(stage, c)
    PROVE  run'.at = stage /\ run'.c = c /\ run'.n = 0
BY StageType DEF GoFor, Runs

\* Stages that ask nothing of the order and of the cleanup.
LEMMA AwayFromOrder ==
    ASSUME run'.at \notin Driven \cup {"release", "removing", "unreference", "released", "promote",
                                       "forking", "cleanup", "promoting", "recovering"},
           run'.n = 0
    PROVE  InOrder' /\ Cursor'
BY DEF InOrder, Cursor

\* Moving on without a change of the graph.
LEMMA Strolls ==
    ASSUME Known, Grows, UNCHANGED <<graph, workers>>,
           \/ UNCHANGED run
           \/ /\ run'.at # "down" /\ (run'.at \in Driven => run'.c \in workers)
              /\ Provisioned => run'.at \in {"loop", "threw", "refused", "forking", "provision"}
    PROVE  Staffed' /\ Lineage'
<1>1. Staffed'
    BY DEF Known, Structure, Staffed, Grows, graph, Started, Dispatchable
<1>2. Lineage'
    BY DEF Known, Structure, Lineage, graph, Provisioned
<1> QED BY <1>1, <1>2

\* Staying where run() is.
LEMMA Stays ==
    ASSUME Known, Grows, UNCHANGED <<graph, workers, run>>,
           run.at \notin {"removing", "unreference"} \/ UNCHANGED <<lease, root>>
    PROVE  Staffed' /\ Lineage' /\ InOrder' /\ Cursor'
<1>1. InOrder'
    BY DEF Known, Structure, InOrder, graph, Provisioned
<1>2. Cursor'
    BY DEF Known, Structure, Cursor, Grows, graph, Dispatchable, LeaseStatus, RootLease
<1> QED BY <1>1, <1>2, Strolls

\* Changing one candidate, none of which is still to be provisioned.
LEMMA OneNode ==
    ASSUME Known, Grows, UNCHANGED workers, ~Provisioned, NEW c \in Candidates,
           \A d \in Candidates : d # c => node'[d] = node[d],
           task'.rootSnap = task.rootSnap, task'.branched = task.branched,
           c \in Children => (Started(c)' => Started(c)) /\ node'[c].st \notin
                {"absent", "provisioning", "branching", "branch_origin"},
           c = Root => node'[c].st # "absent" /\ (task.branched => node'[c].st = node[c].st),
           c = Root \/ task.status # "planned",
           node'[c].st \in Settling => node'[c].settled = "completed",
           run'.at # "down", run'.at \in Driven => run'.c \in workers
    PROVE  Staffed' /\ Lineage'
<1>1. ASSUME NEW k \in Children PROVE Started(k)' => Started(k)
    <2>1. CASE k = c
        BY <2>1
    <2>2. CASE k # c
        <3>1. node'[k] = node[k]
            BY <2>2, Numbers
        <3> QED BY <3>1 DEF Started
    <2> QED BY <2>1, <2>2
<1>2. Staffed'
    BY <1>1 DEF Known, Structure, Staffed, Grows, Dispatchable
<1>3. \A d \in Candidates : d # c => node'[d].st = node[d].st /\ node'[d].settled = node[d].settled
    OBVIOUS
<1>4. \A k \in Children : k \in Candidates /\ k # Root
    BY Numbers
<1>5. ~Provisioned'
    BY <1>3, <1>4 DEF Provisioned
<1>6. Root \in Candidates
    BY Numbers
<1>7. Lineage'
    BY <1>3, <1>4, <1>5, <1>6 DEF Known, Structure, Lineage
<1> QED BY <1>2, <1>7
\* Where no child can be waiting to be provisioned.
LEMMA AllProvisioned ==
    ASSUME Known,
           \/ task.status # "running"
           \/ run.at \notin {"down", "loop", "threw", "refused", "forking", "provision"}
           \/ \E c \in Candidates : Chosen(c) /\ (c # Root \/ node[c].st # "branch_origin"
                                                  \/ node[c].pending)
           \/ \E c \in Candidates : WorkerMissing(c)
    PROVE  ~Provisioned
<1>1. ASSUME NEW c \in Candidates, Chosen(c),
             c # Root \/ node[c].st # "branch_origin" \/ node[c].pending
      PROVE  ~Provisioned
    BY <1>1, ChosenInOrder
<1>2. task.status # "running"
         \/ run.at \notin {"down", "loop", "threw", "refused", "forking", "provision"}
      => ~Provisioned
    BY DEF Known, Structure, Lineage
<1>3. ASSUME NEW c \in Candidates, WorkerMissing(c) PROVE ~Provisioned
    <2>1. CASE run.at \in {"verify", "promote"}
        BY <1>2, <2>1
    <2>2. CASE Chosen(c) /\ node[c].st # "branch_origin"
        BY <1>1, <2>2
    <2> QED BY <1>3, <2>1, <2>2 DEF WorkerMissing, Turning
<1> QED BY <1>1, <1>2, <1>3

\* What is known of a candidate whose worker is missing.
LEMMA MissingFacts ==
    ASSUME Known, NEW c \in Candidates, WorkerMissing(c)
    PROVE  /\ c \in Children => Dispatchable
           /\ run.at \in {"loop", "verify", "promote"} /\ task.status = "running" /\ run.n = 0
           /\ c # Root /\ node[c].settled = "no" =>
                node[c].st = "active" /\ \A k \in Children : node[k].st \notin Settling
<1>1. CASE Turning(c)
    <2>1. /\ run.at = "loop" /\ task.status = "running" /\ ~node[c].pending
          /\ c \in Children => Dispatchable /\ node[c].st = "active"
        BY <1>1, TurningFacts DEF Known
    <2>2. c # Root => \A k \in Candidates : node[k].st \notin Settling
        BY <1>1, <2>1, ChosenInOrder, Numbers DEF Turning
    <2> QED BY <2>1, <2>2, Numbers DEF Known, Structure, Cursor
<1>2. CASE Chosen(c) /\ node[c].st = "branching"
    <2>1. run.at = "loop" /\ task.status = "running" /\ (c \in Children => Dispatchable)
        BY <1>2, ChosenFacts DEF Known
    <2>2. c = Root
        BY <1>2, Numbers DEF Known, Structure, Lineage
    <2> QED BY <2>1, <2>2 DEF Known, Structure, Cursor
<1>3. CASE run.at \in {"verify", "promote"} /\ run.c = c
    <2>1. task.status = "running" /\ (c \in Children => Dispatchable) /\ node[c].st \in Settling
        BY <1>3 DEF Known, TaskInv, Graph, Here, AboutCandidate, UnderWay, Settling
    <2>2. node[c].settled = "completed"
        BY <2>1 DEF Known, Structure, Lineage
    <2> QED BY <1>3, <2>1, <2>2 DEF Known, Structure, Cursor
<1> QED BY <1>1, <1>2, <1>3 DEF WorkerMissing, RunAt

\* Moving on, without a change of the graph, to a stage that asks for nothing.
LEMMA Wanders ==
    ASSUME Known, Grows, UNCHANGED <<graph, workers>>, run'.n = 0,
           run'.at \notin Driven \cup {"down", "release", "removing", "unreference", "promote",
                                       "forking", "released", "cleanup", "promoting",
                                       "recovering"},
           Provisioned => run'.at \in {"loop", "threw", "refused", "provision"}
    PROVE  Course'
BY Strolls, AwayFromOrder DEF Course

\* Going on with a candidate that is driven.
LEMMA DrivesOn ==
    ASSUME Known, Grows, UNCHANGED <<graph, workers>>, NEW c \in Candidates,
           (Turning(c) /\ c \in workers) \/ (run.at = "turn" /\ run.c = c),
           run'.at \in Driven, run'.c = c, run'.n = 0
    PROVE  Course'
<1>1. c \in workers /\ ~Provisioned
    BY AllProvisioned DEF Known, Structure, Staffed, Driven, Turning
<1>2. ASSUME NEW j \in Children, node[j].st = "active" PROVE c <= j
    <2>1. CASE c = Root
        BY <2>1 DEF Root, Children
    <2>2. CASE c # Root /\ Turning(c)
        <3>1. node[c].st = "active" /\ ~node[c].pending /\ Chosen(c)
            BY <2>2, TurningFacts, Numbers DEF Known, Turning
        <3> QED BY <1>2, <3>1, ChosenInOrder
    <2>3. CASE run.at = "turn" /\ run.c = c
        BY <1>2, <2>3 DEF Known, TaskInv, Here, AboutCandidate, UnderWay, Structure, InOrder, Driven
    <2> QED BY <2>1, <2>2, <2>3
<1>3. Staffed' /\ Lineage'
    BY <1>1, Strolls DEF Driven
<1>4. InOrder' /\ Cursor'
    BY <1>2 DEF InOrder, Cursor, graph, Driven
<1> QED BY <1>3, <1>4 DEF Course

\* Driving a candidate keeps the course.
LEMMA DriveCourse ==
    ASSUME Known, Grows, NEW c \in Candidates, Drive(c)
    PROVE  Course'
<1>1. CASE AttachLease(c)
    <2>1. /\ UNCHANGED <<graph, group>> /\ ~Provisioned /\ (c \in Children => Dispatchable)
          /\ run.at \in {"loop", "verify", "promote"} /\ run.n = 0
          /\ c = Root => task.rootSnap # 0
        BY <1>1, AllProvisioned, MissingFacts DEF AttachLease, outside, continuation
    <2>2. CASE UNCHANGED workers /\ run' = Stage("threw")
        <3>1. run'.at = "threw" /\ run'.n = 0
            BY <2>2, StageType DEF RunStages
        <3> QED BY <2>1, <2>2, <3>1, Wanders DEF Driven
    <2>3. CASE workers' = workers \cup {c} /\ run' = run
        <3>1. Staffed'
            BY <2>1, <2>3, Numbers
            DEF Known, Structure, Staffed, Grows, graph, Started, Dispatchable, Driven
        <3>2. Lineage'
            BY <2>1, <2>3 DEF Known, Structure, Lineage, graph, Provisioned
        <3>3. InOrder' /\ Cursor'
            BY <2>1, <2>3 DEF Known, Structure, InOrder, Cursor, graph, Driven
        <3> QED BY <3>1, <3>2, <3>3 DEF Course
    <2> QED BY <1>1, <2>2, <2>3 DEF AttachLease
<1>2. CASE BeginFork(c)
    <2>1. UNCHANGED <<graph, workers>>
        BY <1>2 DEF BeginFork
    <2>2. CASE Throw
        <3>1. run'.at = "threw" /\ run'.n = 0
            BY <2>2, LeaveFor DEF Throw, RunStages
        <3> QED BY <2>1, <3>1, Wanders DEF Driven
    <2>3. CASE GoFor("forking", c)
        <3>1. run'.at = "forking" /\ run'.n = 0 /\ run'.c = c
            BY <2>3, GoForAt DEF RunStages
        <3>2. Staffed' /\ Lineage'
            BY <2>1, <3>1, Strolls DEF Driven
        <3>3. c = Root => Provisioned
            BY <1>2 DEF BeginFork, Chosen, Drivable, Provisioned, WorkerMissing, Known, TaskInv,
               Graph
        <3>4. c # Root => node[c].st = "active" /\ \A k \in Children : node[k].st \notin Settling
            BY <1>2, MissingFacts DEF BeginFork
        <3>5. InOrder' /\ Cursor'
            BY <2>1, <3>1, <3>3, <3>4 DEF InOrder, Cursor, graph, Driven, Provisioned
        <3> QED BY <3>2, <3>5 DEF Course
    <2> QED BY <1>2, <2>2, <2>3 DEF BeginFork
<1>3. CASE ResumeDecision(c) \/ PruneExhausted(c) \/ Turn(c) \/ TurnRefused(c) \/ ReadTurn(c)
    <2>1. /\ UNCHANGED <<graph, workers>>
          /\ (Turning(c) /\ c \in workers) \/ (run.at = "turn" /\ run.c = c)
          /\ \/ Loop \/ Leave("select") \/ \E stage \in Driven : GoFor(stage, c)
             \/ run' = [run EXCEPT !.at = "observe", !.c = c, !.first = RunAt("turn")]
        BY <1>3 DEF ResumeDecision, PruneExhausted, Turn, TurnRefused, ReadTurn, Drives, Advances,
           RunAt, After, Driven
    <2>2. run \in Runs /\ run.n = 0 /\ ~Provisioned
        BY <2>1, TurningFacts, AllProvisioned
        DEF Known, Typed, RunType, Structure, Cursor, Turning
    <2>3. CASE \E stage \in {"loop", "select"} : Leave(stage)
        <3>1. run'.at \in {"loop", "select"} /\ run'.n = 0
            BY <2>3, LeaveFor DEF RunStages
        <3> QED BY <2>1, <2>2, <3>1, Wanders DEF Driven
    <2>4. CASE \/ \E stage \in Driven : GoFor(stage, c)
               \/ run' = [run EXCEPT !.at = "observe", !.c = c, !.first = RunAt("turn")]
        <3>1. run'.at \in Driven /\ run'.c = c /\ run'.n = 0
            BY <2>2, <2>4, GoForAt DEF RunStages, Driven, Runs
        <3> QED BY <2>1, <3>1, DrivesOn
    <2> QED BY <2>1, <2>3, <2>4 DEF Loop
<1>4. CASE PlanVerifier(c)
    <2>1. /\ node[c].st = "verifying" /\ Chosen(c) /\ UNCHANGED <<task, workers>>
          /\ ~node[c].pending
          /\ node' = [node EXCEPT ![c].pending = TRUE] /\ GoFor("verify", c)
        BY <1>4 DEF PlanVerifier
    <2>2. /\ node'[c].st = "verifying" /\ node'[c].settled = node[c].settled
          /\ \A d \in Candidates : d # c => node'[d] = node[d]
        BY <2>1 DEF Known, Typed, GraphType, Nodes
    <2>3. run'.at = "verify" /\ run'.n = 0
        BY <2>1, GoForAt DEF RunStages
    <2>4. ~Provisioned /\ task.status = "running"
        BY <2>1, AllProvisioned, ChosenFacts DEF Known
    <2>5. c = Root => ~task.branched
        BY <2>1 DEF Known, Structure, Lineage
    <2>6. node[c].settled = "completed" /\ Started(c)
        BY <2>1 DEF Known, Structure, Lineage, Settling, Started
    <2>7. Staffed' /\ Lineage'
        BY <2>1, <2>2, <2>3, <2>4, <2>5, <2>6, OneNode DEF Driven
    <2> QED BY <2>3, <2>7, AwayFromOrder DEF Course, Driven
<1>5. CASE ResumeVerifier(c)
    <2>1. Chosen(c) /\ node[c].pending /\ UNCHANGED <<task, workers>>
        BY <1>5 DEF ResumeVerifier
    <2>2. /\ ~Provisioned /\ run.at = "loop" /\ task.status = "running" /\ run.n = 0
          /\ node[c].st = "verifying" /\ node[c].settled = "completed"
          /\ c = Root => ~task.branched
        BY <2>1, AllProvisioned, ChosenFacts
        DEF Known, Structure, Cursor, TaskInv, Graph, Lineage, Settling
    <2>3. CASE GoFor("verify", c) /\ UNCHANGED node
        <3>1. run'.at = "verify" /\ run'.n = 0
            BY <2>3, GoForAt DEF RunStages
        <3> QED BY <2>1, <2>2, <2>3, <3>1, Wanders DEF Driven, graph
    <2>4. CASE SettleVerifier(c, FALSE) /\ UNCHANGED run
        <3>1. /\ node'[c].st = "failed"
              /\ \A d \in Candidates : d # c => node'[d] = node[d]
            BY <2>2, <2>4 DEF SettleVerifier, Known, Typed, GraphType, Nodes
        <3>2. Started(c)
            BY <2>2 DEF Started
        <3>3. Staffed' /\ Lineage'
            BY <2>1, <2>2, <2>4, <3>1, <3>2, OneNode DEF Driven, Settling
        <3> QED BY <2>2, <2>4, <3>3, AwayFromOrder DEF Course, Driven
    <2> QED BY <1>5, <2>3, <2>4 DEF ResumeVerifier
<1> QED BY <1>1, <1>2, <1>3, <1>4, <1>5 DEF Drive

\* Opening, planning and provisioning keep the course.
LEMMA OpeningCourse ==
    ASSUME Known, Grows, \/ PlanTask \/ NothingToDrive \/ CreateRootSession \/ CaptureRoot
                         \/ MaterializeRoot \/ RecordRoot \/ Reopen \/ RunAgain
    PROVE  Course'
<1>1. CASE PlanTask
    <2>1. /\ run.at = "loop" /\ task.status = "planned" /\ run.n = 0 /\ UNCHANGED <<run, workers>>
          /\ task' = [task EXCEPT !.status = "running"] /\ SetStatus(Root, "provisioning")
        BY <1>1 DEF PlanTask, RunAt, process, Known, Structure, Cursor
    <2>2. /\ task'.rootSnap = task.rootSnap /\ task'.branched = task.branched
          /\ task'.status = "running"
        BY <2>1 DEF Known, Typed, GraphType, Tasks
    <2>3. /\ node'[Root].st = "provisioning"
          /\ \A d \in Candidates : d # Root => node'[d] = node[d]
        BY <2>1, Numbers DEF SetStatus, Known, Typed, GraphType, Nodes
    <2>4. ~task.branched /\ ~Provisioned
        BY <2>1, AllProvisioned, Numbers DEF Known, TaskInv, Graph, Structure, Lineage
    <2>5. Staffed' /\ Lineage'
        BY <2>1, <2>2, <2>3, <2>4, OneNode, Numbers DEF Driven, Settling
    <2> QED BY <2>1, <2>5, AwayFromOrder DEF Course, Driven
<1>2. CASE NothingToDrive
    <2>1. /\ run.at = "loop" /\ task.status = "running" /\ run.n = 0
          /\ UNCHANGED <<run, workers, node>> /\ ~Provisioned
          /\ \E o \in Outcomes : Finish(o)
        BY <1>2, SomethingToDrive
        DEF NothingToDrive, Running, RunAt, process, Known, Structure, Cursor, WithoutWinner,
            Outcomes
    <2>2. /\ task'.rootSnap = task.rootSnap /\ task'.branched = task.branched
          /\ task'.status = "terminal"
        BY <2>1, FinishKeeps DEF Known, Typed, GraphType
    <2>3. /\ node[Root].st # "absent"
          /\ node[Root].st \in Settling => node[Root].settled = "completed"
        BY <2>1, Numbers DEF Known, Structure, Lineage
    <2>4. Staffed' /\ Lineage'
        BY <2>1, <2>2, <2>3, OneNode, Numbers DEF Driven
    <2> QED BY <2>1, <2>4, AwayFromOrder DEF Course, Driven
<1>3. CASE CreateRootSession
    <2>1. UNCHANGED <<node, run, workers, lease, root>>
          /\ task' = [task EXCEPT !.rootSession = TRUE]
        BY <1>3 DEF CreateRootSession, process, outside, continuation
    <2>2. /\ task'.rootSnap = task.rootSnap /\ task'.branched = task.branched
          /\ task'.status = task.status /\ task'.winner = task.winner
        BY <2>1 DEF Known, Typed, GraphType, Tasks
    <2>3. Staffed' /\ Lineage'
        BY <2>1, <2>2 DEF Known, Structure, Staffed, Lineage, Grows, Started, Dispatchable,
           Provisioned
    <2>4. InOrder' /\ Cursor'
        BY <2>1, <2>2 DEF Known, Structure, InOrder, Cursor, Grows, Dispatchable, Provisioned,
           LeaseStatus, RootLease
    <2> QED BY <2>3, <2>4 DEF Course
<1>4. CASE CaptureRoot \/ MaterializeRoot
    <2>1. /\ \E stage \in {"materializeRoot", "recordRoot"} : Leave(stage)
          /\ UNCHANGED <<graph, workers>> /\ ~Provisioned
        BY <1>4, AllProvisioned, Numbers DEF CaptureRoot, MaterializeRoot, RunAt
    <2>2. run'.at \in {"materializeRoot", "recordRoot"} /\ run'.n = 0
        BY <2>1, LeaveFor DEF RunStages
    <2> QED BY <2>1, <2>2, Wanders DEF Driven
<1>5. CASE RecordRoot
    <2>1. /\ run.at = "recordRoot" /\ UNCHANGED <<node, group>> /\ workers' = workers \cup {Root}
          /\ task' = [task EXCEPT !.rootSnap = Len(root.leases)] /\ ~Provisioned
        BY <1>5, AllProvisioned DEF RecordRoot, RunAt, outside, continuation
    <2>2. run'.at = "loop" /\ run'.n = 0
        BY <1>5, LeaveFor DEF RecordRoot, Loop, RunStages
    <2>3. /\ task'.rootSnap # 0 /\ task'.branched = task.branched
          /\ task'.status = task.status /\ task'.winner = task.winner
        BY <2>1 DEF Known, Typed, GraphType, Tasks, Structure, RootLeases
    <2>4. Staffed'
        BY <2>1, <2>2, <2>3, Numbers DEF Known, Structure, Staffed, Grows, Started, Dispatchable,
           Driven
    <2>5. Lineage'
        BY <2>1, <2>2, <2>3 DEF Known, Structure, Lineage, Provisioned
    <2> QED BY <2>2, <2>4, <2>5, AwayFromOrder DEF Course, Driven
<1>6. CASE Reopen \/ RunAgain
    <2>1. /\ \E stage \in {"loop", "refused"} : Leave(stage)
          /\ UNCHANGED <<graph, workers>>
        BY <1>6 DEF Reopen, RunAgain, Loop
    <2>2. run'.at \in {"loop", "refused"} /\ run'.n = 0
        BY <2>1, LeaveFor DEF RunStages
    <2> QED BY <2>1, <2>2, Wanders DEF Driven
<1> QED BY <1>1, <1>2, <1>3, <1>4, <1>5, <1>6

\* The turn of a driven candidate keeps the course.
LEMMA TurnCourse ==
    ASSUME Known, Grows, \/ StartRoot \/ RecordRootRun \/ Observe \/ Decide \/ Prune
                         \/ SuspendCandidate \/ SuspendTask
    PROVE  Course'
<1>0. PICK c \in Candidates : c = run.c
    BY DEF Known, Typed, RunType, Runs
<1>1. /\ c = run.c /\ run \in Runs /\ c \in Candidates
      /\ node \in [Candidates -> Nodes] /\ node[c] \in Nodes
      /\ lane \in [Candidates -> Lanes]
    BY <1>0 DEF Known, Typed, RunType, Runs, GraphType, LaneType
<1>2. ASSUME run.at \in {"observe", "decide", "prune", "suspend"}
      PROVE  /\ c \in workers /\ ~Provisioned /\ run.n = 0 /\ task.status = "running"
             /\ node[c].st \in {"provisioning", "active"} /\ ~node[c].pending
             /\ c \in Children => node[c].st = "active" /\ Started(c) /\ Dispatchable
             /\ c = Root => ~task.branched
             /\ \A j \in Children : node[j].st = "active" => c <= j
    <2>1. c \in workers /\ ~Provisioned /\ run.n = 0
        BY <1>1, <1>2, AllProvisioned DEF Known, Structure, Staffed, Cursor, Driven
    <2>2. /\ node[c].st \in {"provisioning", "active"} /\ ~node[c].pending
          /\ task.status = "running"
        BY <1>1, <1>2 DEF Known, TaskInv, Here, AboutCandidate, UnderWay
    <2>3. c \in Children => node[c].st = "active" /\ Started(c) /\ Dispatchable
        BY <2>1, <2>2 DEF Provisioned, Started, Known, TaskInv, Branch
    <2>4. c = Root => ~task.branched
        BY <2>2 DEF Known, TaskInv, Branch
    <2>5. \A j \in Children : node[j].st = "active" => c <= j
        BY <1>1, <1>2, <2>2 DEF Known, Structure, InOrder, Driven
    <2> QED BY <2>1, <2>2, <2>3, <2>4, <2>5
<1>3. CASE StartRoot
    <2>1. /\ UNCHANGED <<graph, workers>> /\ Turning(Root) /\ Root \in workers
          /\ run' = [run EXCEPT !.at = "turn", !.c = Root, !.first = TRUE]
        BY <1>3 DEF StartRoot, Drives
    <2>2. run'.at = "turn" /\ run'.c = Root /\ run'.n = 0
        BY <1>1, <2>1, TurningFacts, Numbers DEF Known, Structure, Cursor, Runs
    <2> QED BY <2>1, <2>2, DrivesOn, Numbers DEF Driven
<1>4. CASE RecordRootRun
    <2>1. /\ run.at = "observe" /\ run.first /\ c = Root /\ UNCHANGED <<task, workers>>
          /\ SetStatus(Root, "active") /\ run' = [run EXCEPT !.first = FALSE]
        BY <1>1, <1>4 DEF RecordRootRun, RunAt, Known, TaskInv, Here
    <2>2. run'.at = "observe" /\ run'.c = Root /\ run'.n = 0
        BY <1>1, <1>2, <2>1 DEF Runs
    <2>3. /\ node'[Root].st = "active"
          /\ \A d \in Candidates : d # Root => node'[d] = node[d]
        BY <1>1, <2>1 DEF SetStatus, Nodes
    <2>4. Staffed' /\ Lineage'
        BY <1>2, <2>1, <2>2, <2>3, OneNode, Numbers DEF Driven, Settling
    <2>5. \A j \in Children : Root <= j
        BY DEF Root, Children
    <2>6. InOrder' /\ Cursor'
        BY <2>2, <2>5 DEF InOrder, Cursor, Driven
    <2> QED BY <2>4, <2>6 DEF Course
<1>5. CASE Observe
    <2>1. /\ run.at = "observe" /\ UNCHANGED <<task, workers>> /\ Go("decide")
          /\ \A d \in Candidates : d # c => node'[d] = node[d]
          /\ node'[c].st = node[c].st /\ node'[c].pending = node[c].pending
        BY <1>1, <1>5 DEF Observe, RunAt, Nodes
    <2>2. run'.at = "decide" /\ run'.c = c /\ run'.n = 0
        BY <1>1, <1>2, <2>1, GoKeeps DEF RunStages
    <2>3. Started(c)' = Started(c)
        BY <2>1 DEF Started
    <2>4. Staffed' /\ Lineage'
        BY <1>1, <1>2, <2>1, <2>2, <2>3, OneNode DEF Driven, Settling
    <2>5. \A j \in Children : node'[j].st = "active" => c <= j
        BY <1>2, <2>1, Numbers
    <2>6. InOrder' /\ Cursor'
        BY <2>2, <2>5 DEF InOrder, Cursor, Driven
    <2> QED BY <2>4, <2>6 DEF Course
<1>6. CASE Decide
    <2>1. PICK failing \in BOOLEAN : LET d == Decision(c, failing) IN
            /\ node' = [node EXCEPT ![c].decision = d, ![c].decidedAt = lane[c].turns,
                                ![c].st = IF d = "branch" THEN "branching"
                                          ELSE IF d = "verify" THEN "verifying" ELSE @]
            /\ After(d, c)
        BY <1>1, <1>6 DEF Decide
    <2>2. run.at = "decide" /\ UNCHANGED <<task, workers>>
        BY <1>6 DEF Decide, RunAt
    <2>0. PICK d : d = Decision(c, failing)
        OBVIOUS
    <2>3. /\ d = "branch" => c = Root
          /\ d = "verify" => node[c].settled = "completed"
        BY <2>0 DEF Decision
    <2>4. /\ \A e \in Candidates : e # c => node'[e] = node[e]
          /\ node'[c].settled = node[c].settled
          /\ \/ node'[c].st = node[c].st \/ (node'[c].st = "branching" /\ d = "branch")
             \/ (node'[c].st = "verifying" /\ d = "verify")
        BY <1>1, <2>0, <2>1 DEF Nodes
    <2>5. /\ run'.at \in {"prune", "select", "loop"} /\ run'.n = 0
          /\ run'.at = "prune" => run'.c = c
        BY <1>1, <2>0, <2>1, LeaveFor, GoForAt DEF After, Loop, RunStages
    <2>6. Staffed' /\ Lineage'
        <3>1. c \in Children => node'[c].st \in {"active", "verifying"}
            BY <1>1, <1>2, <2>2, <2>3, <2>4, Numbers
        <3>2. c = Root => node'[c].st # "absent" /\ ~task.branched
            BY <1>1, <1>2, <2>2, <2>4
        <3>3. node'[c].st \in Settling => node'[c].settled = "completed"
            BY <1>1, <1>2, <2>2, <2>3, <2>4 DEF Settling
        <3>4. run'.at # "down" /\ (run'.at \in Driven => run'.c \in workers)
            BY <1>1, <1>2, <2>2, <2>5 DEF Driven
        <3>5. task.status # "planned" /\ UNCHANGED <<task, workers>> /\ ~Provisioned
            BY <1>2, <2>2
        <3> QED BY <1>1, <1>2, <2>2, <2>4, <3>1, <3>2, <3>3, <3>4, <3>5, OneNode
    <2>7. \A j \in Children : node'[j].st = "active" => c <= j
        BY <1>2, <2>2, <2>4, Numbers
    <2>8. InOrder' /\ Cursor'
        BY <2>5, <2>7 DEF InOrder, Cursor, Driven
    <2> QED BY <2>6, <2>8 DEF Course
<1>7. CASE Prune
    <2>1. run.at = "prune" /\ UNCHANGED <<task, workers>> /\ SetStatus(c, "pruned") /\ Go("release")
        BY <1>1, <1>7 DEF Prune, RunAt
    <2>2. run'.at = "release" /\ run'.c = c /\ run'.n = 0
        BY <1>1, <1>2, <2>1, GoKeeps DEF RunStages
    <2>3. /\ node'[c].st = "pruned"
          /\ \A d \in Candidates : d # c => node'[d] = node[d]
        BY <1>1, <2>1 DEF SetStatus, Nodes
    <2>4. Staffed' /\ Lineage'
        BY <1>1, <1>2, <2>1, <2>2, <2>3, OneNode DEF Driven, Settling
    <2>5. \A j \in Children : node'[j].st = "active" => c <= j
        BY <1>2, <2>1, <2>3, Numbers
    <2>6. (c = Root => task'.rootSnap # 0) /\ (c # Root => Dispatchable') /\ 0 <= ChildCount + 1
        <3>1. c = Root => task'.rootSnap # 0
            BY <1>1, <1>2, <2>1 DEF Known, Structure, Staffed
        <3>2. c # Root => Dispatchable'
            BY <1>2, <2>1, Numbers DEF Grows, Dispatchable
        <3> QED BY <3>1, <3>2, Numbers
    <2>7. InOrder' /\ Cursor'
        BY <2>1, <2>2, <2>5, <2>6 DEF InOrder, Cursor, Driven
    <2> QED BY <2>4, <2>7 DEF Course
<1>8. CASE SuspendCandidate
    <2>1. run.at = "suspend" /\ UNCHANGED <<task, workers>> /\ SetStatus(c, "failed")
        BY <1>1, <1>8 DEF SuspendCandidate, RunAt
    <2>2. run'.at = "suspended" /\ run'.n = 0
        BY <1>8, LeaveFor DEF SuspendCandidate, RunStages
    <2>3. /\ node'[c].st = "failed"
          /\ \A d \in Candidates : d # c => node'[d] = node[d]
        BY <1>1, <2>1 DEF SetStatus, Nodes
    <2>4. Staffed' /\ Lineage'
        BY <1>1, <1>2, <2>1, <2>2, <2>3, OneNode DEF Driven, Settling
    <2> QED BY <2>2, <2>4, AwayFromOrder DEF Course, Driven
<1>9. CASE SuspendTask
    <2>1. /\ run.at = "suspended" /\ task.status = "running" /\ UNCHANGED <<node, workers>>
          /\ ~Provisioned
        BY <1>9, AllProvisioned DEF SuspendTask, RunAt, Known, TaskInv, Here, UnderWay
    <2>2. /\ task'.rootSnap = task.rootSnap /\ task'.branched = task.branched
          /\ task'.status = "terminal"
        BY <1>9, FinishKeeps DEF SuspendTask, Outcomes, Known, Typed, GraphType
    <2>3. run'.at = "loop" /\ run'.n = 0
        BY <1>9, LeaveFor DEF SuspendTask, Loop, RunStages
    <2>4. /\ node[Root].st # "absent"
          /\ node[Root].st \in Settling => node[Root].settled = "completed"
        BY <2>1, Numbers DEF Known, Structure, Lineage
    <2>5. Staffed' /\ Lineage'
        BY <2>1, <2>2, <2>3, <2>4, OneNode, Numbers DEF Driven
    <2> QED BY <2>3, <2>5, AwayFromOrder DEF Course, Driven
<1> QED BY <1>3, <1>4, <1>5, <1>6, <1>7, <1>8, <1>9

\* Branching, forking and provisioning keep the course.
LEMMA BranchCourse ==
    ASSUME Known, Grows, CommitBranch \/ Forking \/ Forked \/ Provision
    PROVE  Course'
<1>1. /\ run \in Runs /\ node \in [Candidates -> Nodes]
    BY DEF Known, Typed, RunType, GraphType
<1>2. CASE CommitBranch
    <2>1. /\ Chosen(Root) /\ UNCHANGED <<run, workers, group>>
          /\ task' = [task EXCEPT !.branched = TRUE]
          /\ node' = [c \in Candidates |->
                        IF c = Root THEN [node[Root] EXCEPT !.st = "branch_origin"]
                        ELSE Node("provisioning")]
        BY <1>2 DEF CommitBranch, process, outside, continuation
    <2>2. run.at = "loop" /\ task.status = "running" /\ run.n = 0
        BY <2>1, ChosenFacts, Numbers DEF Known, Structure, Cursor
    <2>3. /\ task'.rootSnap = task.rootSnap /\ task'.status = "running" /\ task'.branched
        BY <2>1, <2>2 DEF Known, Typed, GraphType, Tasks
    <2>4. /\ node'[Root].st = "branch_origin"
          /\ \A k \in Children : node'[k].st = "provisioning" /\ ~node'[k].pending
        BY <1>1, <2>1, Numbers DEF Node, Nodes
    <2>5. Staffed'
        BY <2>1, <2>2, <2>3, <2>4 DEF Known, Structure, Staffed, Grows, Started, Dispatchable,
           Driven
    <2>6. Lineage'
        BY <2>1, <2>2, <2>3, <2>4, Numbers DEF Lineage, Provisioned, Settling
    <2> QED BY <2>1, <2>2, <2>5, <2>6, AwayFromOrder DEF Course, Driven
<1>3. CASE Forking
    BY <1>3, Stays DEF Forking, Course, process, RunAt
<1>4. CASE Forked
    <2>1. /\ run.at = "forking" /\ run.n = 0 /\ UNCHANGED <<graph, group>>
        BY <1>4 DEF Forked, RunAt, Known, Structure, Cursor
    <2>2. CASE (Throw \/ (run.c = Root /\ Go("provision"))) /\ UNCHANGED workers
        <3>1. run'.at \in {"threw", "provision"} /\ run'.n = 0
            BY <1>1, <2>1, <2>2, LeaveFor, GoKeeps DEF Throw, RunStages
        <3> QED BY <2>1, <2>2, <3>1, Wanders DEF Driven
    <2>3. CASE run.c # Root /\ Loop /\ workers' = workers \cup {run.c} /\ fork.result = "ok"
        <3>1. run'.at = "loop" /\ run'.n = 0
            BY <2>3, LeaveFor DEF Loop, RunStages
        <3>2. Dispatchable
            BY <2>3 DEF Known, TaskInv, Branch
        <3>3. Staffed'
            BY <2>1, <2>3, <3>1, <3>2
            DEF Known, Structure, Staffed, Grows, graph, Started, Dispatchable, Driven
        <3>4. Lineage'
            BY <2>1, <3>1 DEF Known, Structure, Lineage, graph, Provisioned
        <3> QED BY <3>1, <3>3, <3>4, AwayFromOrder DEF Course, Driven
    <2> QED BY <1>4, <2>2, <2>3 DEF Forked, ForkSucceeded
<1>5. CASE Provision
    <2>1. PICK k \in Provisioning : SetStatus(k, "active") /\ workers' = workers \cup {k}
        BY <1>5 DEF Provision
    <2>2. /\ k \in Children /\ k \in Candidates /\ node[k].st = "provisioning" /\ Provisioned
          /\ run.at = "provision" /\ run.n = 0 /\ UNCHANGED <<task, group>> /\ Dispatchable
          /\ task.status = "running" /\ node[k].settled = node[k].settled
        BY <1>5, <2>1, Numbers
        DEF Provision, Provisioning, Provisioned, RunAt, outside, continuation, Known, Structure,
            Cursor, TaskInv, Here, UnderWay
    <2>3. run'.at \in {"loop", "provision"} /\ run'.n = 0
        BY <1>1, <1>5, <2>2, LeaveFor, GoKeeps DEF Provision, Loop, RunStages
    <2>4. /\ node'[k].st = "active"
          /\ \A d \in Candidates : d # k => node'[d] = node[d]
        BY <1>1, <2>1, <2>2 DEF SetStatus, Nodes
    <2>5. \A j \in Children : j # k => (Started(j)' <=> Started(j)) /\ node'[j].st = node[j].st
        BY <2>4, Numbers DEF Started
    <2>6. Staffed'
        BY <2>1, <2>2, <2>3, <2>5, Numbers
        DEF Known, Structure, Staffed, Grows, Dispatchable, Driven
    <2>7. Lineage'
        <3>1. \A j \in Children : node'[j].st \in {"provisioning", "active"}
            BY <2>2, <2>4, <2>5 DEF Known, Structure, Lineage
        <3>2. node'[Root] = node[Root] /\ Root \in Candidates
            BY <2>2, <2>4, Numbers
        <3>3. \A c \in Candidates : node'[c].st \in Settling => node'[c].settled = "completed"
            BY <2>4 DEF Known, Structure, Lineage, Settling
        <3> QED BY <2>2, <2>3, <3>1, <3>2, <3>3 DEF Known, Structure, Lineage
    <2> QED BY <2>3, <2>6, <2>7, AwayFromOrder DEF Course, Driven
<1> QED BY <1>2, <1>3, <1>4, <1>5

\* Verifying, selecting and promoting keep the course.
LEMMA PromotionCourse ==
    ASSUME Known, Grows, \/ RunVerifier \/ SelectTarget \/ SelectWinner \/ BeginPromotion
                         \/ Promoting
                         \/ BeginRecovery \/ HostRecovered \/ PromotionEnds \/ EditForeground
    PROVE  Course'
<1>0. PICK c \in Candidates : c = run.c
    BY DEF Known, Typed, RunType, Runs
<1>1. /\ run \in Runs /\ node \in [Candidates -> Nodes] /\ node[c] \in Nodes /\ c = run.c
      /\ task \in Tasks
    BY <1>0 DEF Known, Typed, RunType, GraphType, Runs
<1>2. ASSUME node[c].st \in Settling, task.status = "running"
      PROVE  /\ node[c].settled = "completed" /\ Started(c)
             /\ (c = Root => ~task.branched)
    BY <1>2 DEF Known, Structure, Lineage, Started, Settling
<1>3. CASE RunVerifier
    <2>1. /\ run.at = "verify" /\ task.status = "running" /\ ~Provisioned
          /\ UNCHANGED <<task, workers>>
          /\ node[c].st = "verifying" /\ node[c].pending
          /\ \E pass \in BOOLEAN : SettleVerifier(c, pass)
        BY <1>1, <1>3, AllProvisioned
        DEF RunVerifier, RunAt, Known, TaskInv, Here, UnderWay, AboutCandidate, Graph
    <2>2. /\ \A d \in Candidates : d # c => node'[d] = node[d]
          /\ node'[c].st \in {"verified", "failed"} /\ node'[c].settled = node[c].settled
        BY <1>1, <1>2, <2>1 DEF SettleVerifier, Nodes, Settling
    <2>3. run'.at = "loop" /\ run'.n = 0
        BY <1>3, LeaveFor DEF RunVerifier, Loop, RunStages
    <2>4. Staffed' /\ Lineage'
        BY <1>2, <2>1, <2>2, <2>3, OneNode DEF Driven, Settling
    <2> QED BY <2>3, <2>4, AwayFromOrder DEF Course, Driven
<1>4. CASE SelectTarget
    <2>1. UNCHANGED <<node, workers>> /\ ~Provisioned /\ task.status = "running"
        BY <1>4, AllProvisioned, ChosenFacts
        DEF SelectTarget, Selecting, RunAt, Known, TaskInv, Here, UnderWay
    <2>2. ASSUME NEW t \in Targets, GoFor("promote", t), UNCHANGED task
          PROVE  Course'
        <3>1. t \in Candidates /\ task.winner \in {None, t}
            <4>1. task.winner \in Candidates \cup {None}
                BY <1>1 DEF Tasks
            <4>2. task.winner \in Candidates => node[task.winner].st = "winner"
                BY <2>1, Numbers DEF Known, TaskInv, Graph
            <4> QED BY <2>2, <4>1, <4>2 DEF Targets
        <3>2. run'.at = "promote" /\ run'.c = t /\ run'.n = 0
            BY <2>2, <3>1, GoForAt DEF RunStages
        <3>3. Staffed' /\ Lineage'
            BY <2>1, <2>2, <3>2, Strolls DEF Driven, graph
        <3>4. InOrder' /\ Cursor'
            BY <2>2, <3>1, <3>2 DEF InOrder, Cursor, Driven
        <3> QED BY <3>3, <3>4 DEF Course
    <2>3. CASE Finish(WithoutWinner) /\ Loop
        <3>1. /\ task'.rootSnap = task.rootSnap /\ task'.branched = task.branched
              /\ task'.status = "terminal"
            BY <1>1, <2>3, FinishKeeps DEF WithoutWinner, Outcomes
        <3>2. run'.at = "loop" /\ run'.n = 0
            BY <2>3, LeaveFor DEF Loop, RunStages
        <3>3. /\ node[Root].st # "absent"
              /\ node[Root].st \in Settling => node[Root].settled = "completed"
            BY <2>1, Numbers DEF Known, Structure, Lineage
        <3>4. Staffed' /\ Lineage'
            BY <2>1, <3>1, <3>2, <3>3, OneNode, Numbers DEF Driven
        <3> QED BY <3>2, <3>4, AwayFromOrder DEF Course, Driven
    <2> QED BY <1>4, <2>2, <2>3 DEF SelectTarget
<1>5. CASE SelectWinner
    <2>1. /\ run.at = "promote" /\ ~Provisioned /\ UNCHANGED workers /\ task.status = "running"
          /\ task' = [task EXCEPT !.winner = c] /\ SetStatus(c, "winner") /\ Go("promoting")
          /\ node[c].st \in {"verified", "winner"}
        BY <1>1, <1>5, AllProvisioned
        DEF SelectWinner, RunAt, Known, Structure, InOrder, TaskInv, Here, AboutCandidate, UnderWay
    <2>2. run'.at = "promoting" /\ run'.n = 0
        BY <1>1, <2>1, GoKeeps DEF RunStages, Known, Structure, Cursor
    <2>3. /\ node'[c].st = "winner" /\ node'[c].settled = node[c].settled
          /\ \A d \in Candidates : d # c => node'[d] = node[d]
        BY <1>1, <2>1 DEF SetStatus, Nodes
    <2>4. /\ task'.rootSnap = task.rootSnap /\ task'.branched = task.branched
          /\ task'.status = task.status
        BY <1>1, <2>1 DEF Tasks
    <2>5. Staffed' /\ Lineage'
        BY <1>2, <2>1, <2>2, <2>3, <2>4, OneNode DEF Driven, Settling
    <2>6. InOrder' /\ Cursor'
        BY <2>2 DEF InOrder, Cursor, Driven
    <2> QED BY <2>5, <2>6 DEF Course
<1>6. CASE BeginPromotion
    <2>1. run.at = "promoting" /\ ~Provisioned /\ UNCHANGED <<graph, workers>>
        BY <1>6, AllProvisioned DEF BeginPromotion, RunAt
    <2>2. CASE UNCHANGED run
        BY <2>1, <2>2, Stays DEF Course
    <2>3. CASE Throw
        <3>1. run'.at = "threw" /\ run'.n = 0
            BY <2>3, LeaveFor DEF Throw, RunStages
        <3> QED BY <2>1, <3>1, Wanders DEF Driven
    <2> QED BY <1>6, <2>2, <2>3 DEF BeginPromotion
<1>7. CASE Promoting \/ BeginRecovery \/ HostRecovered \/ EditForeground
    BY <1>7, Stays DEF Promoting, BeginRecovery, HostRecovered, EditForeground, Course, process,
       continuation, RunAt
<1>8. CASE PromotionEnds
    <2>1. /\ run.at \in {"promoting", "recovering"} /\ ~Provisioned /\ UNCHANGED workers
          /\ task.status = "running" /\ task.winner = c /\ node[c].st = "winner" /\ run.n <= 1
        BY <1>1, <1>8, AllProvisioned, Numbers
        DEF PromotionEnds, Known, TaskInv, Here, AboutCandidate, UnderWay, Graph, Structure, Cursor
    <2>2. ASSUME call.result \in Ending, Finish(call.result), Loop, UNCHANGED node
          PROVE  Course'
        <3>1. /\ task'.rootSnap = task.rootSnap /\ task'.branched = task.branched
              /\ task'.status = "terminal"
            BY <1>1, <2>2, FinishKeeps DEF Ending, Outcomes
        <3>2. run'.at = "loop" /\ run'.n = 0
            BY <2>2, LeaveFor DEF Loop, RunStages
        <3>3. /\ node[Root].st # "absent"
              /\ node[Root].st \in Settling => node[Root].settled = "completed"
            BY <2>1, Numbers DEF Known, Structure, Lineage
        <3>4. Staffed' /\ Lineage'
            BY <2>1, <2>2, <3>1, <3>2, <3>3, OneNode, Numbers DEF Driven
        <3> QED BY <3>2, <3>4, AwayFromOrder DEF Course, Driven
    <2>3. ASSUME Demoted, Leave("select") PROVE Course'
        <3>1. run'.at = "select" /\ run'.n = 0
            BY <2>3, LeaveFor DEF RunStages
        <3>2. /\ node'[c].st = "failed"
              /\ \A d \in Candidates : d # c => node'[d] = node[d]
              /\ task'.rootSnap = task.rootSnap /\ task'.branched = task.branched
            BY <1>1, <2>3 DEF Demoted, SetStatus, Nodes, Tasks
        <3>3. Staffed' /\ Lineage'
            BY <1>2, <2>1, <3>1, <3>2, OneNode DEF Driven, Settling
        <3> QED BY <3>1, <3>3, AwayFromOrder DEF Course, Driven
    <2>4. ASSUME Throw, UNCHANGED graph PROVE Course'
        <3>1. run'.at = "threw" /\ run'.n = 0
            BY <2>4, LeaveFor DEF Throw, RunStages
        <3> QED BY <2>1, <2>4, <3>1, Wanders DEF Driven
    <2>5. ASSUME Go("recovering") \/ run' = [run EXCEPT !.at = "promoting", !.n = 1],
                 UNCHANGED graph
          PROVE  Course'
        <3>1. run'.at \in {"promoting", "recovering"} /\ run'.n <= 1
            <4>1. CASE Go("recovering")
                BY <1>1, <2>1, <4>1, GoKeeps DEF RunStages
            <4>2. CASE run' = [run EXCEPT !.at = "promoting", !.n = 1]
                <5>1. run'.at = "promoting" /\ run'.n = 1
                    BY <1>1, <4>2 DEF Runs
                <5> QED BY <5>1
            <4> QED BY <2>5, <4>1, <4>2
        <3>2. Staffed' /\ Lineage'
            BY <2>1, <2>5, <3>1, Strolls DEF Driven
        <3>3. InOrder' /\ Cursor'
            BY <3>1 DEF InOrder, Cursor, Driven
        <3> QED BY <3>2, <3>3 DEF Course
    <2> QED BY <1>8, <2>2, <2>3, <2>4, <2>5 DEF PromotionEnds
<1> QED BY <1>3, <1>4, <1>5, <1>6, <1>7, <1>8

\* Cleaning up is for a task that has ended, and what it releases had a workspace.
LEMMA CleaningFacts ==
    ASSUME Known, Cleaning
    PROVE  /\ task.status = "terminal" /\ ~Provisioned /\ run.n <= ChildCount + 2
           /\ \A c \in Children : ~NothingToRelease(c) => Dispatchable
<1>1. task.status = "terminal" /\ run.n <= ChildCount + 2 /\ ~Provisioned
    BY AllProvisioned, Numbers
    DEF Cleaning, RunAt, Known, TaskInv, Here, Structure, Cursor
<1>2. ASSUME NEW c \in Children, ~NothingToRelease(c) PROVE Dispatchable
    BY <1>1, <1>2 DEF NothingToRelease, Provisioned, Started, Known, TaskInv, Branch
<1> QED BY <1>1, <1>2

\* Releasing and cleaning up keep the course, and so does a lost process.
LEMMA CleanupCourse ==
    ASSUME Known, Grows, \/ LettingGo \/ RecordReleased \/ CleanupGroup \/ CleanupRoot \/ CrashTask
                         \/ \E c \in Candidates : CleanupNode(c)
    PROVE  Course'
<1>1. /\ run \in Runs /\ node \in [Candidates -> Nodes] /\ run.c \in Candidates
      /\ task \in Tasks /\ ChildCount \in Nat /\ run.n \in Nat
    BY Numbers DEF Known, Typed, RunType, GraphType, Runs
<1>2. CASE LettingGo
    <2>1. /\ run.at \in {"release", "removing", "unreference"} /\ UNCHANGED <<graph, workers>>
          /\ run'.at \in {"removing", "unreference", "released"}
          /\ run'.c = run.c /\ run'.n = run.n /\ ~Provisioned
        BY <1>2, LettingGoKeeps, AllProvisioned DEF Known
    <2>2. Staffed' /\ Lineage'
        BY <2>1, Strolls DEF Driven
    <2>3. /\ run'.at = "removing" => LeaseStatus(run.c)' = "releasing"
          /\ run'.at = "unreference" => LeaseStatus(run.c)' = "released"
        <3>1. /\ run'.at = "removing" => Marks(run.c, "releasing")
              /\ run'.at = "unreference" => Marks(run.c, "released")
            BY <1>2, <2>1, LettingGoMoves DEF LetsGo
        <3>2. lease \in [Children -> LeaseStatuses] /\ (run.c # Root => run.c \in Children)
            BY <1>1, Facts, Numbers DEF Known, GInv, GroupTypeOK
        <3> QED BY <2>1, <3>1, <3>2 DEF Marks, LeaseStatus
    <2>4. InOrder' /\ Cursor'
        BY <2>1, <2>3 DEF InOrder, Cursor, Driven, Known, Structure, Grows, Dispatchable, graph
    <2> QED BY <2>2, <2>4 DEF Course
<1>3. CASE RecordReleased
    <2>0. PICK c \in Candidates : c = run.c
        BY <1>1
    <2>1. /\ run.at = "released" /\ UNCHANGED <<task, workers>> /\ ~Provisioned
          /\ \A d \in Candidates : d # c => node'[d] = node[d]
          /\ node'[c].st = node[c].st /\ node'[c].settled = node[c].settled
          /\ node'[c].pending = node[c].pending
          /\ task.status # "planned"
        BY <1>1, <1>3, <2>0, AllProvisioned
        DEF RecordReleased, RunAt, Nodes, Known, TaskInv, Here
    <2>2. /\ run'.at \in {"cleanup", "loop"}
          /\ run'.at = "cleanup" => run'.n = run.n
          /\ run'.at = "loop" => run'.n = 0
        BY <1>1, <1>3, GoKeeps, LeaveFor DEF RecordReleased, Loop, RunStages
    <2>3. run.n <= ChildCount + 1 /\ (c # Root => Dispatchable)
        BY <2>0, <2>1 DEF Known, Structure, Cursor
    <2>4. c \in Children =>
            node[c].st \notin {"absent", "provisioning", "branching", "branch_origin"}
        BY <2>1, <2>3, Numbers
        DEF Dispatchable, Known, TaskInv, Branch, Structure, Lineage, Provisioned
    <2>5. Started(c)' => Started(c)
        BY <2>1 DEF Started
    <2>6. c = Root => node[c].st # "absent"
        BY <2>1 DEF Known, Structure, Lineage
    <2>7. node[c].st \in Settling => node[c].settled = "completed"
        BY DEF Known, Structure, Lineage
    <2>8. Staffed' /\ Lineage'
        BY <2>1, <2>2, <2>4, <2>5, <2>6, <2>7, OneNode DEF Driven
    <2>9. InOrder' /\ Cursor'
        BY <1>1, <2>2, <2>3 DEF InOrder, Cursor, Driven
    <2> QED BY <2>8, <2>9 DEF Course
<1>4. CASE CleanupGroup
    <2>1. /\ Cleaning /\ UNCHANGED <<graph, workers>>
          /\ Throw \/ (run' = [Stage("cleanup") EXCEPT !.n = ChildCount + 2] /\ snapReleased')
        BY <1>4 DEF CleanupGroup
    <2>2. \/ run'.at = "threw" /\ run'.n = 0
          \/ run'.at = "cleanup" /\ run'.n = ChildCount + 2 /\ snapReleased'
        BY <2>1, LeaveFor, StageType DEF Throw, RunStages, Runs
    <2>3. Staffed' /\ Lineage'
        <3>1. run'.at \in {"threw", "cleanup"} /\ ~Provisioned
            BY <2>1, <2>2, CleaningFacts
        <3> QED BY <2>1, <3>1, Strolls DEF Driven
    <2>4. InOrder' /\ Cursor'
        BY <1>1, <2>2 DEF InOrder, Cursor, Driven
    <2> QED BY <2>3, <2>4 DEF Course
<1>5. CASE CleanupRoot
    <2>1. Cleaning /\ UNCHANGED <<graph, workers>>
          /\ \E stage \in {"returned", "threw"} : Leave(stage)
        BY <1>5 DEF CleanupRoot, Throw
    <2>2. run'.at \in {"returned", "threw"} /\ run'.n = 0
        BY <2>1, LeaveFor DEF RunStages
    <2> QED BY <2>1, <2>2, CleaningFacts, Wanders DEF Driven
<1>6. CASE CrashTask
    <2>1. /\ run' = Down /\ workers' = {} /\ UNCHANGED graph
          /\ crashes' = crashes + 1 /\ crashes \in Nat
        BY <1>6, FailuresAssumption DEF CrashTask, Crash, Known, FailuresTypeOK
    <2>2. run'.at = "down" /\ run'.n = 0 /\ crashes' # 0
        BY <2>1, DownType
    <2>3. Staffed' /\ Lineage'
        BY <2>1, <2>2 DEF Known, Structure, Staffed, Lineage, graph, Driven, Provisioned
    <2> QED BY <2>2, <2>3, AwayFromOrder DEF Course, Driven
<1>7. ASSUME NEW c \in Candidates, CleanupNode(c) PROVE Course'
    <2>1. Cleaning /\ UNCHANGED <<graph, workers>> /\ c \in ToRelease
          /\ \/ run' = [at |-> "release", c |-> c, first |-> FALSE, n |-> c + 1]
             \/ Throw
        BY <1>7 DEF CleanupNode
    <2>2. \/ run'.at = "threw" /\ run'.n = 0
          \/ run'.at = "release" /\ run'.c = c /\ run'.n = c + 1
        BY <2>1, LeaveFor DEF Throw, RunStages
    <2>3. Staffed' /\ Lineage'
        <3>1. run'.at \in {"threw", "release"} /\ ~Provisioned
            BY <2>1, <2>2, CleaningFacts
        <3> QED BY <2>1, <3>1, Strolls DEF Driven
    <2>4. /\ c \in Nat /\ c <= ChildCount /\ (c = Root => task.rootSnap # 0)
          /\ (c # Root => Dispatchable) /\ task.status = "terminal"
        BY <2>1, CleaningFacts, Numbers DEF ToRelease, NothingToRelease
    <2>5. InOrder'
        BY <2>1, <2>2, <2>4 DEF InOrder, Driven, graph
    <2>6. Cursor'
        BY <1>1, <2>1, <2>2, <2>4 DEF Cursor, graph, Grows, Dispatchable
    <2> QED BY <2>3, <2>5, <2>6 DEF Course
<1> QED BY <1>2, <1>3, <1>4, <1>5, <1>6, <1>7

\* Steps that leave the root's leases alone.
LEMMA RootLeasesElsewhere ==
    ASSUME Known, UNCHANGED root, task'.rootSnap = task.rootSnap,
           run'.at \in {"materializeRoot", "recordRoot"} => UNCHANGED run
    PROVE  RootLeases'
BY DEF Known, Structure, RootLeases, RootLease

\* The root's leases are captured, recovered, released and cleaned up.
LEMMA RootLeasesTended ==
    ASSUME Known, \/ CaptureRoot \/ MaterializeRoot \/ RecordRoot \/ LettingGo
                  \/ BeginRecovery \/ CleanupRoot
    PROVE  RootLeases'
<1>1. /\ root \in Roots /\ root.leases \in Seq(LeaseStatuses) /\ Len(root.leases) \in Nat
      /\ task.rootSnap \in Nat /\ task.rootSnap <= Len(root.leases)
      /\ root.released => task.rootSnap # 0 /\ root.leases[task.rootSnap] = "released"
    BY DEF Known, Typed, RootType, Roots, GraphType, Tasks, Structure, RootLeases, RootLease
<1>2. CASE CaptureRoot
    <2>1. /\ task.rootSnap = 0 /\ UNCHANGED task
          /\ root' = [root EXCEPT !.leases = Append(root.leases, "creating")]
          /\ run'.at = "materializeRoot"
        BY <1>2, LeaveFor DEF CaptureRoot, graph, RunStages
    <2>2. root'.leases = Append(root.leases, "creating") /\ root'.released = root.released
        BY <1>1, <2>1 DEF Roots
    <2>3. Len(root'.leases) = Len(root.leases) + 1
        BY <1>1, <2>2, AppendProperties DEF LeaseStatuses
    <2>4. Len(root'.leases) > 0
        BY <1>1, <2>3
    <2> QED BY <1>1, <2>1, <2>2, <2>4 DEF RootLeases
<1>3. CASE MaterializeRoot
    <2>1. /\ run.at = "materializeRoot" /\ UNCHANGED task
          /\ root' = [root EXCEPT !.leases[Len(root.leases)] = "ready"]
          /\ run'.at = "recordRoot"
        BY <1>3, LeaveFor DEF MaterializeRoot, graph, RunStages, RunAt
    <2>2. task.rootSnap = 0 /\ Len(root.leases) > 0
        BY <2>1 DEF Known, Structure, RootLeases
    <2>3. root'.leases = [root.leases EXCEPT ![Len(root.leases)] = "ready"]
          /\ root'.released = root.released
        BY <1>1, <2>1 DEF Roots
    <2>4. Len(root'.leases) = Len(root.leases) /\ root'.leases[Len(root.leases)] = "ready"
        BY <1>1, <2>2, <2>3, ExceptSeq DEF LeaseStatuses
    <2> QED BY <1>1, <2>1, <2>2, <2>3, <2>4 DEF RootLeases
<1>4. CASE RecordRoot
    <2>1. /\ run.at = "recordRoot" /\ UNCHANGED root
          /\ task'.rootSnap = Len(root.leases) /\ run'.at = "loop"
        BY <1>4, LeaveFor
        DEF RecordRoot, outside, RunStages, RunAt, Loop, Known, Typed, GraphType, Tasks
    <2>2. task.rootSnap = 0
        BY <2>1 DEF Known, Structure, RootLeases
    <2> QED BY <1>1, <2>1, <2>2 DEF RootLeases
<1>5. CASE LettingGo
    <2>1. run'.at \in {"removing", "unreference", "released"} /\ UNCHANGED task
        BY <1>5, LettingGoKeeps DEF graph, Known
    <2>2. CASE UNCHANGED root
        BY <2>1, <2>2, RootLeasesElsewhere
    <2>3. CASE run.c = Root /\ RootLease # "released" /\ root'.released = root.released
        <3>1. ~root'.released
            BY <1>1, <2>3 DEF RootLease
        <3> QED BY <2>1, <3>1 DEF RootLeases
    <2>4. CASE run.c = Root /\ RootLease = "released" /\ root'.leases = root.leases
        <3>1. task.rootSnap # 0
            BY <1>5, <2>4, LettingGoKeeps DEF Known, Structure, Cursor
        <3> QED BY <2>1, <2>4, <3>1 DEF RootLeases, RootLease
    <2> QED BY <1>5, <2>2, <2>3, <2>4, LettingGoMoves DEF LetsGo, Marks, LeaseStatus
<1>6. CASE BeginRecovery
    <2>1. /\ UNCHANGED <<task, run>> /\ run.at \in {"recovering", "down"}
          /\ root' = [root EXCEPT !.leases = [i \in DOMAIN @ |-> RecoveredLease(@[i])]]
        BY <1>6 DEF BeginRecovery, RunAt, graph, process
    <2>2. /\ root'.leases = [i \in DOMAIN root.leases |-> RecoveredLease(root.leases[i])]
          /\ root'.released = root.released
        BY <1>1, <2>1 DEF Roots
    <2>3. ASSUME root.released PROVE root'.leases[task.rootSnap] = "released"
        <3>1. task.rootSnap \in DOMAIN root.leases /\ root.leases[task.rootSnap] = "released"
            BY <1>1, <2>3
        <3> QED BY <2>2, <3>1 DEF RecoveredLease
    <2> QED BY <1>1, <2>1, <2>2, <2>3 DEF RootLeases, RootLease
<1>7. CASE CleanupRoot
    <2>1. UNCHANGED task /\ run'.at \in {"returned", "threw"}
        BY <1>7, LeaveFor DEF CleanupRoot, Throw, graph, RunStages
    <2>2. CASE UNCHANGED root
        BY <2>1, <2>2, RootLeasesElsewhere
    <2>3. CASE /\ task.rootSnap = 0 \/ root.released \/ RootLease = "released"
               /\ root' = [root EXCEPT !.released = @ \/ (task.rootSnap # 0
                                                      /\ (task.branched => snapReleased))]
        <3>1. /\ root'.leases = root.leases
              /\ root'.released => root.released \/ task.rootSnap # 0
            BY <1>1, <2>3 DEF Roots
        <3> QED BY <1>1, <2>1, <2>3, <3>1 DEF RootLeases, RootLease
    <2> QED BY <1>7, <2>2, <2>3 DEF CleanupRoot
<1> QED BY <1>2, <1>3, <1>4, <1>5, <1>6, <1>7

\* The step has nothing to do with the root's leases.
RootKept ==
    /\ UNCHANGED root /\ task'.rootSnap = task.rootSnap
    /\ run'.at \in {"materializeRoot", "recordRoot"} => UNCHANGED run

\* Driving a candidate does not touch the root's leases.
LEMMA RootLeasesDriven ==
    ASSUME Typed, NEW c \in Candidates, Drive(c)
    PROVE  RootKept
<1>1. run \in Runs
    BY DEF Typed, RunType
<1>2. UNCHANGED <<task, root>>
    <2>1. CASE AttachLease(c) \/ BeginFork(c) \/ ResumeDecision(c) \/ PruneExhausted(c) \/ Turn(c)
        BY <2>1 DEF AttachLease, BeginFork, ResumeDecision, PruneExhausted, Turn, graph, outside
    <2>2. CASE TurnRefused(c) \/ ReadTurn(c) \/ PlanVerifier(c) \/ ResumeVerifier(c)
        BY <2>2 DEF TurnRefused, ReadTurn, PlanVerifier, ResumeVerifier, graph, outside
    <2> QED BY <2>1, <2>2 DEF Drive
<1>3. \/ UNCHANGED run
      \/ run' = [run EXCEPT !.at = "observe", !.c = c, !.first = RunAt("turn")]
      \/ \E stage \in {"threw", "loop", "select"} : Leave(stage)
      \/ \E stage \in {"forking", "prune", "suspend", "observe", "verify"} : GoFor(stage, c)
    <2>1. CASE AttachLease(c) \/ BeginFork(c)
        BY <2>1 DEF AttachLease, BeginFork, Throw, Leave
    <2>2. CASE ResumeDecision(c) \/ PruneExhausted(c) \/ Turn(c) \/ TurnRefused(c)
        BY <2>2 DEF ResumeDecision, PruneExhausted, Turn, TurnRefused, After, Loop
    <2>3. CASE ReadTurn(c) \/ PlanVerifier(c) \/ ResumeVerifier(c)
        BY <2>3 DEF ReadTurn, PlanVerifier, ResumeVerifier
    <2> QED BY <2>1, <2>2, <2>3 DEF Drive
<1>4. run'.at \in {"materializeRoot", "recordRoot"} => UNCHANGED run
    <2>1. CASE run' = [run EXCEPT !.at = "observe", !.c = c, !.first = RunAt("turn")]
        BY <1>1, <2>1 DEF Runs
    <2>2. CASE \E stage \in {"threw", "loop", "select"} : Leave(stage)
        BY <2>2, LeaveFor DEF RunStages
    <2>3. CASE \E stage \in {"forking", "prune", "suspend", "observe", "verify"} : GoFor(stage, c)
        BY <2>3, GoForAt DEF RunStages
    <2> QED BY <1>3, <2>1, <2>2, <2>3
<1> QED BY <1>2, <1>4 DEF RootKept

\* The steps that touch the root's leases.
LEMMA RootTouched ==
    ASSUME Typed, Moved
    PROVE  \/ RootKept
           \/ CaptureRoot \/ MaterializeRoot \/ RecordRoot \/ LettingGo \/ BeginRecovery
           \/ CleanupRoot
<1>1. run \in Runs /\ task \in Tasks
    BY DEF Typed, RunType, GraphType
<1>3. CASE \E c \in Candidates : Drive(c)
    BY <1>3, RootLeasesDriven
<1>4. CASE \/ PlanTask \/ NothingToDrive \/ CreateRootSession \/ CommitBranch \/ Forking
           \/ Promoting \/ HostRecovered \/ EditForeground
    <2>1. UNCHANGED <<run, root>>
        BY <1>4 DEF PlanTask, NothingToDrive, CreateRootSession, CommitBranch, Forking, Promoting,
           HostRecovered, EditForeground, process, outside
    <2>2. task'.rootSnap = task.rootSnap
        BY <1>1, <1>4 DEF PlanTask, NothingToDrive, CreateRootSession, CommitBranch, Forking,
           Promoting, HostRecovered, EditForeground, graph, Tasks, Finish
    <2> QED BY <2>1, <2>2 DEF RootKept
<1>5. CASE StartRoot \/ RecordRootRun \/ Observe \/ Prune \/ SuspendCandidate \/ SuspendTask
    <2>1. UNCHANGED root /\ task'.rootSnap = task.rootSnap
        BY <1>1, <1>5 DEF StartRoot, RecordRootRun, Observe, Prune, SuspendCandidate, SuspendTask,
           graph, outside, Finish, Tasks
    <2>2. run'.at \notin {"materializeRoot", "recordRoot"}
        BY <1>1, <1>5, LeaveFor, GoKeeps DEF StartRoot, RecordRootRun, Observe, Prune,
           SuspendCandidate, SuspendTask, RunStages, Runs, Loop, RunAt
    <2> QED BY <2>1, <2>2 DEF RootKept
<1>6. CASE Decide
    <2>1. UNCHANGED <<task, root>>
        BY <1>6 DEF Decide, outside
    <2>2. \/ \E stage \in {"select", "loop"} : Leave(stage)
          \/ GoFor("prune", run.c)
        BY <1>6 DEF Decide, After, Loop
    <2>3. run'.at \notin {"materializeRoot", "recordRoot"}
        BY <1>1, <2>2, LeaveFor, GoForAt DEF RunStages, Runs
    <2> QED BY <2>1, <2>3 DEF RootKept
<1>7. CASE \/ Forked \/ Provision \/ RunVerifier \/ SelectTarget \/ Reopen \/ RunAgain
           \/ RecordReleased
    <2>1. UNCHANGED root /\ task'.rootSnap = task.rootSnap
        BY <1>1, <1>7 DEF Forked, Provision, RunVerifier, SelectTarget, Reopen, RunAgain,
           RecordReleased, graph, outside, Finish, Tasks
    <2>2. \/ \E stage \in {"threw", "loop", "refused"} : Leave(stage)
          \/ \E stage \in {"provision", "cleanup"} : Go(stage)
          \/ \E c \in Candidates : GoFor("promote", c)
        BY <1>7 DEF Forked, Provision, RunVerifier, SelectTarget, Reopen, RunAgain, RecordReleased,
           Loop, Throw, Targets
    <2>3. run'.at \notin {"materializeRoot", "recordRoot"}
        BY <1>1, <2>2, LeaveFor, GoForAt, GoKeeps DEF RunStages
    <2> QED BY <2>1, <2>3 DEF RootKept
<1>8. CASE SelectWinner \/ BeginPromotion \/ PromotionEnds \/ CleanupGroup \/ CrashTask
    <2>1. UNCHANGED root /\ task'.rootSnap = task.rootSnap
        BY <1>1, <1>8 DEF SelectWinner, BeginPromotion, PromotionEnds, CleanupGroup, CrashTask,
           graph, outside, Finish, Tasks, Demoted
    <2>2. UNCHANGED run \/ run'.at \notin {"materializeRoot", "recordRoot"}
        <3>1. CASE SelectWinner \/ BeginPromotion
            BY <1>1, <3>1, LeaveFor, GoKeeps DEF SelectWinner, BeginPromotion, Throw, RunStages
        <3>2. CASE PromotionEnds
            BY <1>1, <3>2, LeaveFor, GoKeeps DEF PromotionEnds, Loop, Throw, RunStages, Runs
        <3>3. CASE CleanupGroup \/ CrashTask
            BY <3>3, LeaveFor, StageType, DownType
            DEF CleanupGroup, CrashTask, Throw, RunStages, Runs
        <3> QED BY <1>8, <3>1, <3>2, <3>3
    <2> QED BY <2>1, <2>2 DEF RootKept
<1>9. ASSUME NEW c \in Candidates, CleanupNode(c) PROVE RootKept
    <2>1. UNCHANGED <<task, root>>
        BY <1>9 DEF CleanupNode, graph, outside
    <2>2. run'.at \notin {"materializeRoot", "recordRoot"}
        BY <1>9, LeaveFor DEF CleanupNode, Throw, RunStages
    <2> QED BY <2>1, <2>2 DEF RootKept
<1> QED BY <1>3, <1>4, <1>5, <1>6, <1>7, <1>8, <1>9 DEF Moved, Step, LettingGo

\* Every step keeps the root's leases.
LEMMA RootLeasesStep ==
    ASSUME Known, Moved
    PROVE  RootLeases'
BY RootTouched, RootLeasesElsewhere, RootLeasesTended DEF RootKept, Known

\* Every step keeps the structure.
LEMMA StructureStep ==
    ASSUME Known, Moved PROVE Structure' /\ Grows
<1>1. Grows
    BY StepsGrow
<1>2. Leases'
    BY LeasesStep
<1>3. Course'
    BY <1>1, DriveCourse, OpeningCourse, TurnCourse, BranchCourse, PromotionCourse, CleanupCourse
    DEF Moved, Step, LettingGo
<1> QED BY <1>1, <1>2, <1>3, RootLeasesStep DEF Course, Structure

-----------------------------------------------------------------------------
(***************************************************************************)
(* What is lent while no operation failed and no child was rejected        *)
(***************************************************************************)
\* No operation failed and no child was rejected.
Smooth == faults = 0 /\ "failed" \notin group
\* A candidate that works or may win.
Live(c) == node[c].st \in Settling \cup {"active"}

\* Every workspace that was to be removed was removed, or is being removed, or was when
\* the process was lost.
Intact == \A k \in Children :
    /\ lease[k] # "orphaned"
    /\ lease[k] = "releasing" =>
        \/ crashes > 0 \/ (fork.at = "undo" /\ k \in fork.held)
        \/ run.at = "removing" /\ run.c = k

\* Who works has its workspace, and workspaces are given back in the order of the
\* children.
Lent ==
    task.status = "running" =>
        /\ \A k \in Children : Live(k) => lease[k] = "ready"
        /\ Provisioned /\ Dispatchable => \A k \in Children : lease[k] = "ready"
        /\ \A k, j \in Children :
            lease[k] \in {"releasing", "released"} /\ node[j].st = "active" => k < j

\* The root has its workspace until it is pruned or the task ends.
RootLent ==
    task.rootSnap # 0 =>
        /\ RootLease \in {"ready", "releasing", "released"}
        /\ RootLease = "releasing" => crashes > 0 \/ (run.at = "removing" /\ run.c = Root)
        /\ task.status # "terminal" /\ node[Root].st # "pruned" => RootLease = "ready"

\* The lease of a candidate is released.
LeaseReleased(c) == IF c = Root THEN task.rootSnap # 0 /\ RootLease = "released"
                    ELSE lease[c] = "released"
\* A node is recorded as released only after its lease is.
GivenBack ==
    /\ \A c \in Candidates : node[c].released => LeaseReleased(c)
    /\ run.at = "released" => LeaseReleased(run.c)

\* What an earlier process was releasing.
LeftReleasing == \E k \in Children : lease[k] = "releasing" /\ k \notin fork.held

\* A group is only forked again after a crash; then it may meet what an earlier process
\* released, was releasing or left half made.
Rebuilt ==
    /\ run.at = "forking" /\ run.c # Root => crashes > 0
    /\ fork.at = "undo" /\ Dispatchable =>
        \A j \in Children : node[j].st = "active" => fork.k < j
    /\ fork.result = "error" => crashes > 0 /\ (StuckGroup \/ StuckSibling \/ LeftReleasing)

\* Until then the first call makes the leases one by one.
Fresh ==
    crashes = 0 /\ ~Dispatchable /\ fork.at \notin Rejecting \cup {"undo"} =>
        /\ ~snapReleased
        /\ \A k \in Children : lease[k] # "none" =>
            /\ fork.at \in Driving
            /\ k < fork.k \/ (k = fork.k /\ fork.at \in HasLease \cup {"materialize"})

\* The cleanup leaves nothing behind it.
Passed ==
    task.status = "terminal"
    /\ run.at \in {"cleanup", "release", "removing", "unreference", "released"} =>
        \A c \in Candidates : c < run.n /\ ~(run.at = "release" /\ c = run.c) =>
            (c = Root /\ task.rootSnap = 0) \/ ~LeaseReady(c)

\* All that holds of what is lent while nothing has failed.
Kepts == Smooth => Intact /\ Lent /\ RootLent /\ GivenBack /\ Rebuilt /\ Fresh /\ Passed

\* A child works on, is verified or comes to an end; what came to an end stays so, and
\* what is released stays as it is.
Moderate(c) ==
    /\ node'[c].released = node[c].released /\ node[c].st \notin {"pruned", "failed"}
    /\ c \in Children =>
        /\ Live(c) /\ node'[c].st # "provisioning"
        /\ node'[c].st = "active" => node[c].st = "active"

\* What becomes of a candidate in a step.
LEMMA NodeMoves ==
    ASSUME Known, Moved, NEW c \in Candidates
    PROVE  \/ node'[c] = node[c] \/ Moderate(c)
           \/ CommitBranch
           \/ Provision /\ c \in Provisioning /\ c \in Children /\ ~node'[c].released
           \/ /\ RecordReleased /\ c = run.c
              /\ node'[c].st = node[c].st
<1>0. PICK r \in Candidates : r = run.c
    BY DEF Known, Typed, RunType, Runs
<1>1. /\ node \in [Candidates -> Nodes] /\ node[c] \in Nodes /\ node[r] \in Nodes
    BY DEF Known, Typed, GraphType
<1>2. ASSUME run.at \in {"observe", "decide", "prune", "suspend"}
      PROVE  node[r].st \in {"provisioning", "active"} /\ (r \in Children => Live(r))
    <2>1. node[r].st \in {"provisioning", "active"}
        BY <1>0, <1>2 DEF Known, TaskInv, Here
    <2>2. ~Provisioned
        BY <1>2, AllProvisioned
    <2> QED BY <2>1, <2>2 DEF Provisioned, Live
<1>3. ASSUME run.at \in {"verify", "promote", "promoting", "recovering"}
      PROVE  node[r].st \in Settling /\ Live(r)
    <2>1. node[r].st \in Settling
        BY <1>0, <1>3, Numbers
        DEF Known, TaskInv, Here, Graph, Settling, UnderWay, AboutCandidate
    <2> QED BY <2>1 DEF Live
<1>4. CASE PlanTask \/ RecordRootRun
    <2>1. \E st \in {"provisioning", "active"} : SetStatus(Root, st)
        BY <1>4 DEF PlanTask, RecordRootRun
    <2>2. node[Root].st \notin {"pruned", "failed"}
        <3>1. CASE PlanTask
            BY <3>1, Numbers DEF PlanTask, Known, TaskInv, Graph
        <3>2. CASE RecordRootRun
            BY <1>0, <1>2, <3>2 DEF RecordRootRun, RunAt, Known, TaskInv, Here
        <3> QED BY <1>4, <3>1, <3>2
    <2> QED BY <1>1, <2>1, <2>2, Numbers DEF SetStatus, Nodes, Moderate
<1>5. CASE Observe \/ Decide
    <2>1. /\ \A d \in Candidates : d # r => node'[d] = node[d]
          /\ node'[r].released = node[r].released
          /\ node'[r].st \in {node[r].st, "branching", "verifying"}
        <3>1. CASE Observe
            BY <1>0, <1>1, <3>1 DEF Observe, Nodes
        <3>2. CASE Decide
            BY <1>0, <1>1, <3>2 DEF Decide, Nodes
        <3> QED BY <1>5, <3>1, <3>2
    <2>2. node[r].st \in {"provisioning", "active"} /\ (r \in Children => Live(r))
        BY <1>2, <1>5 DEF Observe, Decide, RunAt
    <2> QED BY <2>1, <2>2 DEF Moderate, Live, Settling
<1>6. CASE Prune \/ SuspendCandidate
    <2>1. \E st \in {"pruned", "failed"} : SetStatus(r, st)
        BY <1>0, <1>6 DEF Prune, SuspendCandidate
    <2>2. node[r].st \in {"provisioning", "active"} /\ (r \in Children => Live(r))
        BY <1>2, <1>6 DEF Prune, SuspendCandidate, RunAt
    <2> QED BY <1>1, <2>1, <2>2 DEF Moderate, SetStatus, Nodes
<1>7. ASSUME NEW d \in Candidates, PlanVerifier(d) \/ ResumeVerifier(d)
      PROVE  node'[c] = node[c] \/ Moderate(c)
    <2>1. node[d].st = "verifying" /\ node[d] \in Nodes
        BY <1>1, <1>7 DEF PlanVerifier, ResumeVerifier, Known, TaskInv, Graph
    <2>2. /\ \A e \in Candidates : e # d => node'[e] = node[e]
          /\ node'[d].released = node[d].released
          /\ node'[d].st \in {"verifying", "failed"}
        BY <1>1, <1>7, <2>1 DEF PlanVerifier, ResumeVerifier, SettleVerifier, Nodes
    <2> QED BY <2>1, <2>2 DEF Moderate, Live, Settling
<1>8. CASE RunVerifier
    <2>1. node[r].st = "verifying" /\ node[r].pending
        BY <1>0, <1>8 DEF RunVerifier, RunAt, Known, TaskInv, Here, Graph
    <2>2. /\ \A e \in Candidates : e # r => node'[e] = node[e]
          /\ node'[r].released = node[r].released
          /\ node'[r].st \in {"verifying", "verified", "failed"}
        BY <1>0, <1>1, <1>8, <2>1 DEF RunVerifier, SettleVerifier, Nodes
    <2> QED BY <2>1, <2>2 DEF Moderate, Live, Settling
<1>9. CASE SelectWinner \/ PromotionEnds
    <2>1. UNCHANGED node \/ \E st \in {"winner", "failed"} : SetStatus(r, st)
        BY <1>0, <1>9 DEF SelectWinner, PromotionEnds, Demoted, graph
    <2>2. node[r].st \in Settling /\ Live(r)
        BY <1>3, <1>9 DEF SelectWinner, PromotionEnds, RunAt
    <2> QED BY <1>1, <2>1, <2>2 DEF Moderate, SetStatus, Nodes, Settling
<1>10. CASE Provision
    <2>1. PICK k \in Provisioning : SetStatus(k, "active")
        BY <1>10 DEF Provision
    <2>2. ~node[k].released /\ k \in Children /\ k \in Candidates
        BY <1>10, <2>1, Numbers
        DEF Provision, Provisioning, RunAt, Known, TaskInv, Here, UnderWay, Graph
    <2> QED BY <1>1, <1>10, <2>1, <2>2 DEF SetStatus, Nodes
<1>11. CASE RecordReleased
    BY <1>0, <1>1, <1>11 DEF RecordReleased, Nodes
<1>12. ASSUME NEW d \in Candidates, Drive(d), ~PlanVerifier(d), ~ResumeVerifier(d)
       PROVE  UNCHANGED node
    BY <1>12 DEF Drive, AttachLease, BeginFork, ResumeDecision, PruneExhausted, Turn, TurnRefused,
       ReadTurn, graph
<1>13. CASE \/ NothingToDrive \/ CreateRootSession \/ CaptureRoot \/ MaterializeRoot \/ RecordRoot
            \/ StartRoot \/ SuspendTask \/ Forking \/ Forked \/ SelectTarget \/ BeginPromotion
    BY <1>13 DEF NothingToDrive, CreateRootSession, CaptureRoot, MaterializeRoot, RecordRoot,
       StartRoot, SuspendTask, Forking, Forked, SelectTarget, BeginPromotion, graph
<1>14. CASE \/ Promoting \/ BeginRecovery \/ HostRecovered \/ LettingGo \/ CleanupGroup
            \/ CleanupRoot
            \/ Reopen \/ RunAgain \/ CrashTask \/ EditForeground
            \/ \E d \in Candidates : CleanupNode(d)
    BY <1>14 DEF Promoting, BeginRecovery, HostRecovered, LettingGo, Release, Remove, Unreference,
       CleanupGroup, CleanupRoot, Reopen, RunAgain, CrashTask, EditForeground, CleanupNode, graph
<1> QED BY <1>4, <1>5, <1>6, <1>7, <1>8, <1>9, <1>10, <1>11, <1>12, <1>13, <1>14
    DEF Moved, Step, LettingGo

\* The task is planned, goes on, or ends.
LEMMA TaskMoves ==
    ASSUME Known, Moved
    PROVE  task'.status = task.status \/ PlanTask \/ task'.status = "terminal"
<1>1. task \in Tasks
    BY DEF Known, Typed, GraphType
<1>2. CASE \/ NothingToDrive \/ CreateRootSession \/ RecordRoot \/ SuspendTask \/ CommitBranch
           \/ SelectTarget \/ SelectWinner \/ PromotionEnds
    BY <1>1, <1>2 DEF NothingToDrive, CreateRootSession, RecordRoot, SuspendTask, CommitBranch,
       SelectTarget, SelectWinner, PromotionEnds, Finish, Demoted, graph, Tasks
<1>3. CASE \E d \in Candidates : Drive(d)
    BY <1>3 DEF Drive, AttachLease, BeginFork, ResumeDecision, PruneExhausted, Turn, TurnRefused,
       ReadTurn, PlanVerifier, ResumeVerifier, graph
<1>4. CASE \/ CaptureRoot \/ MaterializeRoot \/ StartRoot \/ RecordRootRun \/ Observe \/ Decide
           \/ Prune \/ SuspendCandidate \/ Forking \/ Forked \/ Provision \/ RunVerifier
    BY <1>4 DEF CaptureRoot, MaterializeRoot, StartRoot, RecordRootRun, Observe, Decide, Prune,
       SuspendCandidate, Forking, Forked, Provision, RunVerifier, graph
<1>5. CASE \/ BeginPromotion \/ Promoting \/ BeginRecovery \/ HostRecovered \/ LettingGo
           \/ RecordReleased \/ CleanupGroup \/ CleanupRoot \/ Reopen \/ RunAgain \/ CrashTask
           \/ EditForeground \/ \E d \in Candidates : CleanupNode(d)
    BY <1>5 DEF BeginPromotion, Promoting, BeginRecovery, HostRecovered, LettingGo, Release, Remove,
       Unreference, RecordReleased, CleanupGroup, CleanupRoot, Reopen, RunAgain, CrashTask,
       EditForeground, CleanupNode, graph
<1> QED BY <1>2, <1>3, <1>4, <1>5 DEF Moved, Step, LettingGo

\* While run() forks, nothing else is done.
LEMMA AtForking ==
    ASSUME Known, Moved, run.at = "forking"
    PROVE  Forking \/ Forked \/ CrashTask \/ UNCHANGED <<graph, process, continuation>>
<1>1. call.at = "idle"
    BY NoCall DEF Known, TaskInv
<1>2. ~Promoting
    BY <1>1, StepOfCall DEF Promoting, Known, PInv
<1>3. ~\E c \in Candidates : Drive(c) \/ CleanupNode(c)
    BY DEF Drive, AttachLease, BeginFork, ResumeDecision, PruneExhausted, Turn, TurnRefused,
       ReadTurn, PlanVerifier, ResumeVerifier, WorkerMissing, Turning, Drives, Advances, Chosen,
       Running, RunAt, CleanupNode, Cleaning
<1>4. ~(\/ PlanTask \/ NothingToDrive \/ CreateRootSession \/ CaptureRoot \/ MaterializeRoot
        \/ RecordRoot \/ StartRoot \/ RecordRootRun \/ Observe \/ Decide \/ Prune
        \/ SuspendCandidate \/ SuspendTask \/ CommitBranch \/ Provision)
    BY DEF PlanTask, NothingToDrive, CreateRootSession, CaptureRoot, MaterializeRoot, RecordRoot,
       StartRoot, RecordRootRun, Observe, Decide, Prune, SuspendCandidate, SuspendTask,
       CommitBranch, Provision, WorkerMissing, Turning, Drives, Chosen, Running, RunAt
<1>5. ~(\/ RunVerifier \/ SelectTarget \/ SelectWinner \/ BeginPromotion \/ BeginRecovery
        \/ HostRecovered \/ PromotionEnds \/ LettingGo \/ RecordReleased \/ CleanupGroup
        \/ CleanupRoot \/ Reopen \/ RunAgain)
    BY DEF RunVerifier, SelectTarget, SelectWinner, BeginPromotion, BeginRecovery, HostRecovered,
       PromotionEnds, LettingGo, Release, Remove, Unreference, RecordReleased, CleanupGroup,
       CleanupRoot, Reopen, RunAgain, Selecting, Cleaning, Chosen, Running, RunAt
<1>6. EditForeground => UNCHANGED <<graph, process, continuation>>
    BY DEF EditForeground
<1> QED BY <1>2, <1>3, <1>4, <1>5, <1>6 DEF Moved, Step, LettingGo

\* While run() removes a workspace, it does nothing else.
LEMMA AtRemoving ==
    ASSUME Known, Moved, run.at = "removing"
    PROVE  Remove \/ CrashTask \/ UNCHANGED run
<1>1. ~\E c \in Candidates : Drive(c) \/ CleanupNode(c)
    BY DEF Drive, AttachLease, BeginFork, ResumeDecision, PruneExhausted, Turn, TurnRefused,
       ReadTurn, PlanVerifier, ResumeVerifier, WorkerMissing, Turning, Drives, Advances, Chosen,
       Running, RunAt, CleanupNode, Cleaning
<1>2. ~(\/ PlanTask \/ NothingToDrive \/ CreateRootSession \/ CaptureRoot \/ MaterializeRoot
        \/ RecordRoot \/ StartRoot \/ RecordRootRun \/ Observe \/ Decide \/ Prune
        \/ SuspendCandidate \/ SuspendTask \/ CommitBranch \/ Provision \/ Forking \/ Forked)
    BY DEF PlanTask, NothingToDrive, CreateRootSession, CaptureRoot, MaterializeRoot, RecordRoot,
       StartRoot, RecordRootRun, Observe, Decide, Prune, SuspendCandidate, SuspendTask,
       CommitBranch, Provision, Forking, Forked, WorkerMissing, Turning, Drives, Chosen, Running,
       RunAt
<1>3. ~(\/ RunVerifier \/ SelectTarget \/ SelectWinner \/ BeginPromotion \/ PromotionEnds
        \/ Release \/ Unreference \/ RecordReleased \/ CleanupGroup \/ CleanupRoot \/ Reopen
        \/ RunAgain)
    BY DEF RunVerifier, SelectTarget, SelectWinner, BeginPromotion, PromotionEnds, Release,
       Unreference, RecordReleased, CleanupGroup, CleanupRoot, Reopen, RunAgain, Selecting,
       Cleaning, Chosen, Running, RunAt
<1>4. Promoting \/ BeginRecovery \/ HostRecovered \/ EditForeground => UNCHANGED run
    BY DEF Promoting, BeginRecovery, HostRecovered, EditForeground, process
<1> QED BY <1>1, <1>2, <1>3, <1>4 DEF Moved, Step

\* What becomes of a child's lease when nothing fails.
LEMMA LeaseMoves ==
    ASSUME Known, Moved, UNCHANGED faults, Intact, NEW k \in Children
    PROVE  \/ lease'[k] = lease[k]
           \/ Forking /\ fork.at = "lease" /\ k = fork.k /\ lease'[k] = "creating"
              /\ lease[k] = "none"
           \/ lease[k] = "creating" /\ lease'[k] = "ready"
           \/ /\ Forking /\ fork.at = "undo" /\ k \in fork.held /\ lease[k] = "ready"
              /\ fork'.at = "undo" /\ k \in fork'.held /\ lease'[k] = "releasing"
           \/ /\ Release /\ k = run.c /\ k # Root /\ run'.at = "removing" /\ run'.c = k
              /\ lease[k] # "released" /\ lease'[k] = "releasing"
           \/ lease[k] = "releasing" /\ lease'[k] = "released"
<1>1. /\ lease \in [Children -> LeaseStatuses] /\ fork \in Forks /\ fork.k \in Children
      /\ lease[k] # "orphaned" /\ faults \in Nat
      /\ fork.at = "materialize" => lease[fork.k] = "creating"
    BY Facts, FailuresAssumption DEF Known, GInv, Intact, FailuresTypeOK, Structure, Leases
<1>2. faults' # faults + 1
    BY <1>1
<1>3. CASE Forking
    <2>1. CASE ForkLease \/ Materialize
        BY <1>1, <1>3, <2>1 DEF ForkLease, Materialize, ForkAt
    <2>2. CASE Undo
        <3>1. \/ UNCHANGED lease
              \/ \E j \in fork.held :
                    \/ /\ lease[j] = "ready" /\ lease' = [lease EXCEPT ![j] = "releasing"]
                       /\ fork'.held = fork.held /\ fork'.at = fork.at
                    \/ lease[j] = "releasing" /\ lease' = [lease EXCEPT ![j] = "released"]
            <4>1. ASSUME NEW j \in fork.held, ReleaseHeld(j)
                  PROVE  \/ UNCHANGED lease
                         \/ /\ lease[j] = "ready" /\ lease' = [lease EXCEPT ![j] = "releasing"]
                            /\ fork'.held = fork.held /\ fork'.at = fork.at
                         \/ lease[j] = "releasing" /\ lease' = [lease EXCEPT ![j] = "released"]
                BY <1>2, <4>1, HeldMoves DEF Fault, Known
            <4> QED BY <2>2, <4>1 DEF Undo
        <3>2. fork.at = "undo" /\ fork.held \subseteq Children
            BY <1>1, <2>2 DEF Undo, ForkAt, Forks
        <3> QED BY <1>1, <1>3, <3>1, <3>2
    <2>3. CASE ~ForkLease /\ ~Materialize /\ ~Undo
        BY <1>3, <2>3 DEF Forking, ForkStep, Freeze, ForkSession, RecordSession, RecordLease,
           AdmitRun, RecordRun, RecordReady, GroupReady, ForkFails, ChildFailed, GroupFailed,
           Unfreeze
    <2> QED BY <2>1, <2>2, <2>3
<1>4. CASE BeginRecovery
    BY <1>1, <1>4 DEF BeginRecovery, RecoveredLease, LeaseStatuses
<1>5. CASE LettingGo
    <2>1. LetsGo(run.c) /\ run'.c = run.c
        BY <1>5, LettingGoMoves
    <2>2. CASE UNCHANGED lease
        BY <2>2
    <2>3. CASE run.c # Root /\ run.at = "release" /\ run'.at = "removing"
               /\ LeaseStatus(run.c) # "released" /\ lease' = [lease EXCEPT ![run.c] = "releasing"]
        <3>1. Release
            BY <1>5, <2>3 DEF LettingGo, Remove, Unreference, RunAt
        <3> QED BY <1>1, <2>1, <2>3, <3>1 DEF LeaseStatus
    <2>4. CASE run.c # Root /\ LeaseStatus(run.c) = "releasing"
               /\ lease' = [lease EXCEPT ![run.c] = "released"]
        BY <1>1, <2>4 DEF LeaseStatus
    <2> QED BY <1>2, <2>1, <2>2, <2>3, <2>4 DEF LetsGo, Marks, Fault
<1>6. CASE UNCHANGED continuation \/ Forked \/ CleanupGroup \/ CrashTask
           \/ \E c \in Candidates : BeginFork(c)
    BY <1>6 DEF continuation, Forked, CleanupGroup, CrashTask, ForkLost, BeginFork, ForkExact
<1> QED BY <1>3, <1>4, <1>5, <1>6, GroupTouched

\* What becomes of the lease of the root when nothing fails.
LEMMA RootMoves ==
    ASSUME Known, Moved, UNCHANGED faults,
           task.rootSnap # 0 => RootLease \in {"ready", "releasing", "released"}
    PROVE  \/ task'.rootSnap = 0 /\ task.rootSnap = 0
           \/ RecordRoot /\ task'.rootSnap # 0 /\ task.rootSnap = 0 /\ RootLease' = "ready"
           \/ /\ task.rootSnap # 0 /\ task'.rootSnap = task.rootSnap
              /\ \/ RootLease' = RootLease
                 \/ /\ Release /\ run.c = Root /\ run'.at = "removing" /\ run'.c = Root
                    /\ RootLease # "released" /\ RootLease' = "releasing"
                 \/ RootLease = "releasing" /\ RootLease' = "released"
<1>1. /\ root \in Roots /\ root.leases \in Seq(LeaseStatuses) /\ Len(root.leases) \in Nat
      /\ task \in Tasks /\ task.rootSnap \in Nat /\ task.rootSnap <= Len(root.leases)
      /\ faults \in Nat
    BY FailuresAssumption
    DEF Known, Typed, RootType, Roots, GraphType, Tasks, FailuresTypeOK
<1>2. CASE RootKept
    BY <1>2 DEF RootKept, RootLease
<1>3. CASE CaptureRoot \/ MaterializeRoot
    <2>1. task.rootSnap = 0 /\ UNCHANGED task
        BY <1>3 DEF CaptureRoot, MaterializeRoot, RunAt, graph, Known, Structure, RootLeases
    <2> QED BY <2>1
<1>4. CASE RecordRoot
    <2>1. /\ UNCHANGED root /\ task'.rootSnap = Len(root.leases) /\ Len(root.leases) > 0
          /\ task.rootSnap = 0 /\ root.leases[Len(root.leases)] = "ready"
        BY <1>1, <1>4 DEF RecordRoot, RunAt, outside, Known, Structure, RootLeases, Tasks
    <2> QED BY <1>1, <1>4, <2>1 DEF RootLease
<1>5. CASE LettingGo
    <2>1. UNCHANGED task /\ faults' # faults + 1
        BY <1>1, <1>5, LettingGoKeeps DEF graph, Known
    <2>2. LetsGo(run.c) /\ run'.c = run.c
        BY <1>5, LettingGoMoves
    <2>3. CASE root'.leases = root.leases
        BY <2>1, <2>3 DEF RootLease
    <2>4. CASE run.c = Root /\ root'.leases # root.leases
        <3>1. task.rootSnap # 0
            BY <1>5, <2>4, LettingGoKeeps DEF Known, Structure, Cursor
        <3>2. \/ /\ run.at = "release" /\ run'.at = "removing" /\ RootLease # "released"
                 /\ RootLease' = "releasing"
              \/ RootLease = "releasing" /\ RootLease' = "released"
            BY <2>1, <2>2, <2>4 DEF LetsGo, Marks, LeaseStatus, Fault
        <3>3. run.at = "release" => Release
            BY <1>5 DEF LettingGo, Remove, Unreference, RunAt
        <3> QED BY <2>1, <2>2, <2>4, <3>1, <3>2, <3>3
    <2> QED BY <2>2, <2>3, <2>4 DEF LetsGo, Marks
<1>6. CASE BeginRecovery
    <2>1. /\ UNCHANGED task
          /\ root' = [root EXCEPT !.leases = [i \in DOMAIN @ |-> RecoveredLease(@[i])]]
        BY <1>6 DEF BeginRecovery, graph
    <2>2. root'.leases = [i \in DOMAIN root.leases |-> RecoveredLease(root.leases[i])]
        BY <1>1, <2>1 DEF Roots
    <2>3. ASSUME task.rootSnap # 0
          PROVE  RootLease' = RootLease \/ (RootLease = "releasing" /\ RootLease' = "released")
        <3>1. task.rootSnap \in DOMAIN root.leases
            BY <1>1, <2>3
        <3> QED BY <2>1, <2>2, <2>3, <3>1 DEF RootLease, RecoveredLease
    <2> QED BY <2>1, <2>3
<1>7. CASE CleanupRoot
    <2>1. UNCHANGED task /\ root'.leases = root.leases
        BY <1>1, <1>7 DEF CleanupRoot, graph, Roots
    <2> QED BY <2>1 DEF RootLease
<1> QED BY <1>2, <1>3, <1>4, <1>5, <1>6, <1>7, RootTouched DEF Known

\* Which step takes run() where.
LEMMA RunMoves ==
    ASSUME Known, Moved, run' # run
    PROVE  /\ run'.at = "released" => LettingGo
           /\ run'.at = "removing" => Release
           /\ run'.at = "unreference" => Remove
           /\ run'.at = "release" => Prune \/ \E c \in Candidates : CleanupNode(c)
           /\ run'.at = "cleanup" => RecordReleased \/ CleanupGroup
           /\ run'.at = "returned" => CleanupRoot
           /\ run'.at = "forking" => \E c \in Candidates : BeginFork(c)
           /\ run'.at = "refused" => Reopen
           /\ run'.at = "promoting" => SelectWinner \/ PromotionEnds
           /\ run'.at = "recovering" => PromotionEnds
<1>1. run \in Runs
    BY DEF Known, Typed, RunType
<1>2. ASSUME NEW c \in Candidates, Drive(c), ~BeginFork(c)
      PROVE  run'.at \in {"threw", "loop", "select", "prune", "suspend", "observe", "verify"}
    <2>1. \/ run' = [run EXCEPT !.at = "observe", !.c = c, !.first = RunAt("turn")]
          \/ \E stage \in {"threw", "loop", "select"} : Leave(stage)
          \/ \E stage \in {"prune", "suspend", "observe", "verify"} : GoFor(stage, c)
        <3>1. CASE AttachLease(c) \/ ResumeDecision(c) \/ PruneExhausted(c) \/ Turn(c)
            BY <3>1 DEF AttachLease, Leave, ResumeDecision, PruneExhausted, Turn, After, Loop
        <3>2. CASE TurnRefused(c) \/ ReadTurn(c) \/ PlanVerifier(c) \/ ResumeVerifier(c)
            BY <3>2 DEF TurnRefused, ReadTurn, PlanVerifier, ResumeVerifier
        <3> QED BY <1>2, <3>1, <3>2 DEF Drive
    <2>2. CASE run' = [run EXCEPT !.at = "observe", !.c = c, !.first = RunAt("turn")]
        BY <1>1, <2>2 DEF Runs
    <2>3. CASE \/ \E stage \in {"threw", "loop", "select"} : Leave(stage)
               \/ \E stage \in {"prune", "suspend", "observe", "verify"} : GoFor(stage, c)
        BY <2>3, LeaveFor, GoForAt DEF RunStages
    <2> QED BY <2>1, <2>2, <2>3
<1>3. CASE \/ CaptureRoot \/ MaterializeRoot \/ RecordRoot \/ StartRoot \/ RecordRootRun \/ Observe
           \/ Decide \/ SuspendCandidate \/ SuspendTask \/ RunAgain
    <2>1. \/ \E stage \in {"materializeRoot", "recordRoot", "loop", "suspended", "select"} :
                Leave(stage)
          \/ GoFor("prune", run.c) \/ Go("decide")
          \/ run' = [run EXCEPT !.at = "turn", !.c = Root, !.first = TRUE]
          \/ run.at = "observe" /\ run' = [run EXCEPT !.first = FALSE]
        BY <1>3 DEF CaptureRoot, MaterializeRoot, RecordRoot, StartRoot, RecordRootRun, Observe,
           Decide, SuspendCandidate, SuspendTask, RunAgain, After, Loop, RunAt
    <2>2. run'.at \in {"materializeRoot", "recordRoot", "loop", "suspended", "select", "prune",
                       "decide", "turn", "observe"}
        BY <1>1, <2>1, LeaveFor, GoForAt, GoKeeps DEF RunStages, Runs
    <2> QED BY <2>2
<1>4. CASE Forked \/ Provision \/ RunVerifier \/ SelectTarget \/ SelectWinner \/ BeginPromotion
    <2>1. \/ \E stage \in {"threw", "loop"} : Leave(stage)
          \/ Go("provision") \/ (SelectWinner /\ Go("promoting"))
          \/ \E c \in Candidates : GoFor("promote", c)
        BY <1>4 DEF Forked, Provision, RunVerifier, SelectTarget, SelectWinner, BeginPromotion,
           Loop, Throw, Targets
    <2>2. run'.at \in {"threw", "loop", "provision", "promote"}
          \/ (SelectWinner /\ run'.at = "promoting")
        BY <1>1, <2>1, LeaveFor, GoForAt, GoKeeps DEF RunStages
    <2> QED BY <2>2
<1>5. CASE PromotionEnds
    <2>1. run'.at \in {"loop", "select", "recovering", "promoting", "threw"}
        BY <1>1, <1>5, LeaveFor, GoKeeps DEF PromotionEnds, Loop, Throw, RunStages, Runs
    <2> QED BY <1>5, <2>1
<1>6. CASE Prune \/ LettingGo \/ RecordReleased
    <2>1. \/ (Prune /\ Go("release")) \/ LettingGo
          \/ RecordReleased /\ (Go("cleanup") \/ Leave("loop"))
        BY <1>6 DEF Prune, RecordReleased, Loop
    <2>2. \/ (Prune /\ run'.at = "release") \/ LettingGo
          \/ RecordReleased /\ run'.at \in {"cleanup", "loop"}
        BY <1>1, <2>1, GoKeeps, LeaveFor DEF RunStages
    <2>3. CASE LettingGo
        <3>1. /\ Remove \/ Unreference => run.at # "release"
              /\ Release \/ Unreference => run.at # "removing"
            BY DEF Release, Remove, Unreference, RunAt
        <3> QED BY <2>3, <3>1, LettingGoMoves, LettingGoKeeps DEF LetsGo, LettingGo, Known
    <2> QED BY <2>2, <2>3
<1>7. CASE CleanupGroup \/ CleanupRoot \/ Reopen \/ CrashTask
    <2>1. \/ CleanupGroup /\ run'.at \in {"cleanup", "threw"}
          \/ CleanupRoot /\ run'.at \in {"returned", "threw"}
          \/ Reopen /\ run'.at \in {"loop", "refused"}
          \/ CrashTask /\ run'.at = "down"
        BY <1>7, LeaveFor, StageType, DownType
        DEF CleanupGroup, CleanupRoot, Reopen, CrashTask, Throw, RunStages, Runs
    <2> QED BY <2>1
<1>8. ASSUME NEW c \in Candidates, CleanupNode(c) PROVE run'.at \in {"release", "threw"}
    BY <1>8, LeaveFor DEF CleanupNode, Throw, RunStages
<1>9. ASSUME NEW c \in Candidates, BeginFork(c) PROVE run'.at \in {"forking", "threw"}
    BY <1>9, LeaveFor, GoForAt DEF BeginFork, Throw, RunStages
<1>10. ~(\/ PlanTask \/ NothingToDrive \/ CreateRootSession \/ CommitBranch \/ Forking \/ Promoting
         \/ HostRecovered \/ BeginRecovery \/ EditForeground)
    BY DEF PlanTask, NothingToDrive, CreateRootSession, CommitBranch, Forking, Promoting,
       HostRecovered, BeginRecovery, EditForeground, process
<1> QED BY <1>2, <1>3, <1>4, <1>5, <1>6, <1>7, <1>8, <1>9, <1>10 DEF Moved, Step, LettingGo

\* A step while nothing has failed.
Calm ==
    /\ Known /\ Moved /\ Grows /\ Smooth' /\ Smooth /\ UNCHANGED faults
    /\ Intact /\ Lent /\ RootLent /\ GivenBack /\ Rebuilt /\ Fresh /\ Passed
    /\ Typed' /\ TaskInv' /\ GInv' /\ Structure'

\* Numbers of children are compared.
LEMMA ChildNumbers ==
    /\ Children \subseteq Nat /\ Root \notin Children /\ Children \subseteq Candidates
    /\ \A k, j \in Children : k <= j /\ k # j => k < j
    /\ \A k, j, i \in Children : k <= j /\ j < i => k < i /\ k # i
    /\ \A k, j \in Children : k < j => ~(j <= k)
BY GroupAssumption, Numbers DEF Children

\* No workspace is orphaned while nothing fails, and none is left half removed.
LEMMA IntactKept == ASSUME Calm PROVE Intact'
<1> SUFFICES ASSUME NEW k \in Children
    PROVE  /\ lease'[k] # "orphaned"
           /\ lease'[k] = "releasing" =>
                \/ crashes' > 0 \/ (fork'.at = "undo" /\ k \in fork'.held)
                \/ run'.at = "removing" /\ run'.c = k
    BY DEF Intact
<1>1. k # Root /\ faults' # faults + 1 /\ crashes \in Nat
    BY FailuresAssumption, ChildNumbers DEF Calm, Known, FailuresTypeOK
<1>2. ASSUME lease[k] = "releasing", lease'[k] = "releasing"
      PROVE  \/ crashes' > 0 \/ (fork'.at = "undo" /\ k \in fork'.held)
             \/ run'.at = "removing" /\ run'.c = k
    <2>1. CASE crashes > 0 \/ CrashTask
        BY <1>1, <2>1, FailuresAssumption DEF Calm, Grows, CrashTask, Crash
    <2>2. CASE ~CrashTask /\ fork.at = "undo" /\ k \in fork.held
        <3>1. run.at = "forking"
            BY <2>2 DEF Calm, Known, Structure, Leases
        <3>2. CASE Undo
            <4>1. ASSUME NEW j \in fork.held, ReleaseHeld(j)
                  PROVE  fork'.at = "undo" /\ k \in fork'.held
                BY <1>1, <1>2, <2>2, <4>1, HeldMoves DEF Fault, Calm, Known
            <4> QED BY <2>2, <3>2, <4>1 DEF Undo
        <3>3. CASE UNCHANGED continuation
            BY <2>2, <3>3 DEF continuation
        <3>4. Undo \/ UNCHANGED continuation
            BY <1>1, <2>2, <3>1, AtForking DEF Calm, Forked, ForkAt, Forking, ForkStep, Freeze,
               ForkSession, RecordSession, ForkLease, Materialize, RecordLease, AdmitRun,
               RecordRun, RecordReady, GroupReady, ForkFails, ChildFailed, GroupFailed, Unfreeze
        <3> QED BY <3>2, <3>3, <3>4
    <2>3. CASE ~CrashTask /\ run.at = "removing" /\ run.c = k
        <3>1. CASE UNCHANGED run
            BY <2>3, <3>1
        <3>2. ASSUME Remove PROVE FALSE
            <4>0. LetsGo(k) /\ LeaseStatus(k) = "releasing"
                BY <2>3, <3>2, LettingGoMoves DEF LettingGo, Calm, Known, Structure, Cursor
            <4>1. Marks(k, "released") \/ Fault
                BY <2>3, <4>0 DEF LetsGo
            <4>2. lease'[k] = "released"
                BY <1>1, <4>1, Facts DEF Marks, Fault, Calm, Known, GInv, GroupTypeOK
            <4> QED BY <1>2, <4>2
        <3> QED BY <2>3, <3>1, <3>2, AtRemoving DEF Calm
    <2> QED BY <1>2, <2>1, <2>2, <2>3 DEF Calm, Intact
<1>3. lease[k] # "orphaned"
    BY DEF Calm, Intact
<1> QED BY <1>2, <1>3, LeaseMoves DEF Calm

\* What is released stays so.
LEMMA ReleasedStays ==
    ASSUME Calm
    PROVE  /\ \A k \in Children : lease[k] = "released" => lease'[k] = "released"
           /\ \A c \in Candidates : LeaseReleased(c) => LeaseReleased(c)'
<1>1. ASSUME NEW k \in Children, lease[k] = "released" PROVE lease'[k] = "released"
    BY <1>1, LeaseMoves DEF Calm
<1>2. ASSUME NEW c \in Candidates, LeaseReleased(c) PROVE LeaseReleased(c)'
    <2>1. CASE c = Root
        BY <1>2, <2>1, RootMoves DEF Calm, LeaseReleased, RootLent
    <2>2. CASE c # Root
        BY <1>1, <1>2, <2>2, Numbers DEF LeaseReleased
    <2> QED BY <2>1, <2>2
<1> QED BY <1>1, <1>2

\* The group becomes dispatchable when its last lease was made.
LEMMA BecomesDispatchable ==
    ASSUME Calm, Dispatchable', ~Dispatchable
    PROVE  \A k \in Children : lease'[k] = "ready"
<1>1. CASE Forking
    <2>1. GroupReady
        BY <1>1 DEF Forking, ForkStep, Freeze, ForkSession, RecordSession, ForkLease, Materialize,
           RecordLease, AdmitRun, RecordRun, RecordReady, ForkFails, Undo, ChildFailed,
           GroupFailed, Unfreeze, Dispatchable
    <2>2. fork'.result = "ok"
        BY <2>1 DEF GroupReady, ForkReturns, NoFork
    <2> QED BY <2>2 DEF Calm, Structure, Leases
<1>2. CASE UNCHANGED continuation \/ Forked \/ BeginRecovery \/ LettingGo \/ CleanupGroup
           \/ CrashTask \/ \E c \in Candidates : BeginFork(c)
    BY <1>2 DEF continuation, Forked, BeginRecovery, LettingGo, Release, Remove, Unreference,
       CleanupGroup, CrashTask, ForkLost, BeginFork, ForkExact, Dispatchable
<1> QED BY <1>1, <1>2, GroupTouched DEF Calm

\* Those who work keep their workspace, and those before them have given it back.
LEMMA LentKept == ASSUME Calm PROVE Lent'
<1> SUFFICES ASSUME task'.status = "running" PROVE
        /\ \A k \in Children : Live(k)' => lease'[k] = "ready"
        /\ Provisioned' /\ Dispatchable' => \A k \in Children : lease'[k] = "ready"
        /\ \A k, j \in Children :
            lease'[k] \in {"releasing", "released"} /\ node'[j].st = "active" => k < j
    BY DEF Lent
<1>1. ASSUME PlanTask, NEW k \in Children PROVE node'[k].st = "absent"
    <2>1. node[k].st = "absent" /\ k # Root /\ k \in Candidates
        BY <1>1, Numbers DEF PlanTask, Calm, Known, TaskInv, Graph
    <2> QED BY <1>1, <2>1 DEF PlanTask, SetStatus, Calm, Known, Typed, GraphType
<1>2. CASE PlanTask
    BY <1>1, <1>2 DEF Live, Settling, Provisioned
<1>3. CASE ~PlanTask
    <2>1. task.status = "running"
        BY <1>3, TaskMoves DEF Calm
    <2>2. ASSUME Release, NEW k \in Children, k = run.c
          PROVE  /\ UNCHANGED node /\ ~Live(k)
                 /\ \A j \in Children : node[j].st = "active" => k < j
        <3>1. run.at = "release" /\ UNCHANGED node /\ node[k].st = "pruned"
            BY <2>1, <2>2 DEF Release, RunAt, graph, Calm, Known, TaskInv, Here
        <3>2. \A j \in Children : node[j].st = "active" => k <= j /\ k # j
            BY <2>1, <2>2, <3>1 DEF Calm, Known, Structure, InOrder
        <3> QED BY <3>1, <3>2, ChildNumbers DEF Live, Settling
    <2>3. ASSUME Forking, fork.at = "undo", NEW k \in fork.held
          PROVE  /\ UNCHANGED node /\ k \in Children /\ ~Live(k)
                 /\ \A j \in Children : node[j].st = "active" => k < j
                 /\ ~(Provisioned /\ Dispatchable)
        <3>1. /\ UNCHANGED node /\ run.at = "forking" /\ k \in Children /\ fork.k \in Children
              /\ k <= fork.k
            BY <2>3, Facts
            DEF Forking, RunAt, graph, Forks, Calm, Known, GInv, GroupTypeOK, Structure, Leases
        <3>2. \A j \in Children : Live(j) => Started(j) /\ Dispatchable
            BY DEF Calm, Known, TaskInv, Branch, Started, Live, Settling
        <3>3. ASSUME NEW j \in Children, node[j].st = "active" PROVE k < j /\ k # j
            <4>1. Dispatchable
                BY <3>2, <3>3 DEF Live
            <4>2. fork.k < j
                BY <2>3, <3>3, <4>1 DEF Calm, Rebuilt
            <4> QED BY <3>1, <4>2, ChildNumbers
        <3>4. \A j \in Children : node[j].st \notin Settling
            BY <3>1 DEF Calm, Known, Structure, InOrder, Lineage, Settling
        <3>5. ~Live(k)
            BY <3>1, <3>3, <3>4 DEF Live
        <3>6. ASSUME Provisioned, Dispatchable PROVE FALSE
            <4>1. \A j \in Children : lease[j] = "ready"
                BY <2>1, <3>6 DEF Calm, Lent
            <4>2. fork.result = "error"
                BY <2>3, <3>6 DEF Calm, Known, GInv, Ends, Dispatchable
            <4>3. StuckGroup \/ StuckSibling \/ LeftReleasing
                BY <4>2 DEF Calm, Rebuilt
            <4> QED BY <3>6, <4>1, <4>3 DEF StuckGroup, StuckSibling, LeftReleasing, Dispatchable
        <3> QED BY <3>1, <3>3, <3>5, <3>6
    <2>4. ASSUME NEW k \in Children, lease[k] = "ready", lease'[k] # "ready"
          PROVE  /\ UNCHANGED node /\ ~Live(k) /\ ~(Provisioned /\ Dispatchable)
                 /\ \A j \in Children : node[j].st = "active" => k < j
        <3>1. (Release /\ k = run.c) \/ (Forking /\ fork.at = "undo" /\ k \in fork.held)
            BY <2>4, LeaseMoves DEF Calm
        <3>2. Release => ~Provisioned
            BY AllProvisioned DEF Release, RunAt, Calm
        <3> QED BY <2>2, <2>3, <3>1, <3>2
    <2>5. ASSUME NEW k \in Children, Live(k)' PROVE lease'[k] = "ready"
        <3>1. k \in Candidates
            BY Numbers
        <3>2. ~(CommitBranch /\ k # Root)
            BY <2>5, <3>1 DEF CommitBranch, Node, Live, Settling
        <3>3. lease[k] = "ready"
            <4>1. CASE Live(k)
                BY <2>1, <4>1 DEF Calm, Lent
            <4>2. CASE Provision /\ k \in Provisioning
                <5>1. Provisioned /\ Dispatchable
                    BY <4>2 DEF Provisioning, Provisioned, Provision, RunAt, Calm, Known, TaskInv,
                       Here
                <5> QED BY <2>1, <5>1 DEF Calm, Lent
            <4> QED BY <2>5, <3>1, <3>2, <4>1, <4>2, NodeMoves, Numbers
                DEF Calm, Live, Moderate
        <3>4. ASSUME lease'[k] # "ready" PROVE FALSE
            <4>1. UNCHANGED node /\ ~Live(k)
                BY <2>4, <3>3, <3>4
            <4> QED BY <2>5, <4>1 DEF Live
        <3> QED BY <3>4
    <2>6. ASSUME Provisioned', Dispatchable', NEW k \in Children PROVE lease'[k] = "ready"
        <3>1. CASE ~Dispatchable
            BY <2>6, <3>1, BecomesDispatchable
        <3>2. CASE Dispatchable
            <4>1. ~CommitBranch
                BY <3>2, Numbers DEF CommitBranch, Dispatchable, Calm, Known, TaskInv, Branch
            <4>2. PICK j \in Children : node'[j].st = "provisioning"
                BY <2>6 DEF Provisioned
            <4>3. node[j].st = "provisioning"
                BY <4>1, <4>2, NodeMoves, Numbers DEF Calm, Moderate, Provisioning
            <4>4. Provisioned
                BY <4>3 DEF Provisioned
            <4>5. lease[k] = "ready"
                BY <2>1, <3>2, <4>4 DEF Calm, Lent
            <4> QED BY <2>4, <3>2, <4>4, <4>5
        <3> QED BY <3>1, <3>2
    <2>7. ASSUME NEW k \in Children, NEW j \in Children,
                 lease'[k] \in {"releasing", "released"}, node'[j].st = "active"
          PROVE  k < j
        <3>1. CASE node[j].st = "active"
            <4>1. CASE lease[k] \in {"releasing", "released"}
                BY <2>1, <3>1, <4>1 DEF Calm, Lent
            <4>2. CASE lease[k] \notin {"releasing", "released"}
                <5>1. (Release /\ k = run.c) \/ (Forking /\ fork.at = "undo" /\ k \in fork.held)
                    BY <2>7, <4>2, LeaseMoves DEF Calm
                <5> QED BY <2>2, <2>3, <3>1, <5>1
            <4> QED BY <4>1, <4>2
        <3>2. CASE node[j].st # "active"
            <4>1. ~CommitBranch
                BY <2>7, Numbers DEF CommitBranch, Node
            <4>2. Provision /\ j \in Provisioning
                BY <2>7, <3>2, <4>1, NodeMoves, Numbers DEF Calm, Moderate
            <4>3. Provisioned /\ Dispatchable /\ run.at = "provision"
                BY <4>2 DEF Provisioning, Provisioned, Provision, RunAt, Calm, Known, TaskInv, Here
            <4>4. lease[k] = "ready"
                BY <2>1, <4>3 DEF Calm, Lent
            <4> QED BY <2>4, <2>7, <4>3, <4>4
        <3> QED BY <3>1, <3>2
    <2> QED BY <2>5, <2>6, <2>7
<1> QED BY <1>2, <1>3

\* The root keeps its workspace until it is pruned or the task has ended.
LEMMA RootLentKept == ASSUME Calm PROVE RootLent'
<1> SUFFICES ASSUME task'.rootSnap # 0
    PROVE  /\ RootLease' \in {"ready", "releasing", "released"}
           /\ RootLease' = "releasing" => crashes' > 0 \/ (run'.at = "removing" /\ run'.c = Root)
           /\ task'.status # "terminal" /\ node'[Root].st # "pruned" => RootLease' = "ready"
    BY DEF RootLent
<1>1. \/ RootLease' = "ready"
      \/ /\ task.rootSnap # 0
         /\ \/ RootLease' = RootLease
            \/ /\ Release /\ run.c = Root /\ run'.at = "removing" /\ run'.c = Root
               /\ RootLease' = "releasing"
            \/ RootLease = "releasing" /\ RootLease' = "released"
    BY RootMoves DEF Calm, RootLent
<1>2. task.rootSnap # 0 =>
        /\ RootLease \in {"ready", "releasing", "released"}
        /\ RootLease = "releasing" => crashes > 0 \/ (run.at = "removing" /\ run.c = Root)
    BY DEF Calm, RootLent
<1>4. ASSUME run.at = "removing", run.c = Root, RootLease' = "releasing"
      PROVE  crashes' > 0 \/ (run'.at = "removing" /\ run'.c = Root)
    <2>1. faults' # faults + 1 /\ crashes \in Nat
        BY FailuresAssumption DEF Calm, Known, FailuresTypeOK
    <2>2. CASE CrashTask
        BY <2>1, <2>2 DEF CrashTask, Crash
    <2>3. ASSUME Remove PROVE FALSE
        <3>0. LetsGo(Root) /\ LeaseStatus(Root) = "releasing"
            BY <1>4, <2>3, LettingGoMoves DEF LettingGo, Calm, Known, Structure, Cursor
        <3>1. Marks(Root, "released") \/ Fault
            BY <1>4, <3>0 DEF LetsGo
        <3> QED BY <1>4, <2>1, <3>1 DEF Marks, Fault
    <2> QED BY <1>4, <2>2, <2>3, AtRemoving DEF Calm
<1>3. ASSUME task'.status # "terminal", node'[Root].st # "pruned", task.rootSnap # 0
      PROVE  RootLease = "ready" /\ ~(Release /\ run.c = Root)
    <2>1. task.status # "terminal"
        BY <1>3, TaskMoves DEF Calm, PlanTask
    <2>2. node[Root].st # "pruned"
        <3>1. ~(CommitBranch /\ node[Root].st = "pruned")
            BY DEF CommitBranch
        <3> QED BY <1>3, <3>1, NodeMoves, Numbers DEF Calm, Moderate
    <2>3. ~(Release /\ run.c = Root)
        BY <2>1, <2>2 DEF Release, RunAt, Calm, Known, TaskInv, Here
    <2> QED BY <1>3, <2>1, <2>2, <2>3 DEF Calm, RootLent
<1> QED BY <1>1, <1>2, <1>3, <1>4 DEF Calm, Grows

\* What is recorded as released stays released.
LEMMA GivenBackKept == ASSUME Calm PROVE GivenBack'
<1>1. ASSUME NEW c \in Candidates, node'[c].released PROVE LeaseReleased(c)'
    <2>1. CASE node[c].released
        BY <2>1, ReleasedStays DEF Calm, GivenBack
    <2>2. CASE ~node[c].released
        <3>1. ~CommitBranch
            BY <1>1, <2>2 DEF CommitBranch, Node, Calm, Known, Typed, GraphType, Nodes
        <3>2. RecordReleased /\ c = run.c
            BY <1>1, <2>2, <3>1, NodeMoves DEF Calm, Moderate
        <3>3. LeaseReleased(c)
            BY <3>2 DEF RecordReleased, RunAt, Calm, GivenBack
        <3> QED BY <3>3, ReleasedStays
    <2> QED BY <2>1, <2>2
<1>2. ASSUME NEW c \in Candidates, run'.at = "released", c = run'.c PROVE LeaseReleased(c)'
    <2>1. CASE run' = run
        <3>1. LeaseReleased(c)
            BY <1>2, <2>1 DEF Calm, GivenBack
        <3> QED BY <3>1, ReleasedStays
    <2>2. CASE LettingGo
        <3>1. c = run.c /\ LetsGo(c) /\ faults' # faults + 1
              /\ run.at \in {"release", "removing", "unreference"}
            BY <1>2, <2>2, LettingGoMoves, LettingGoKeeps, FailuresAssumption
            DEF Calm, Known, FailuresTypeOK
        <3>2. LeaseStatus(c) = "released"
            BY <1>2, <3>1 DEF LetsGo, Fault
        <3>3. c = Root => task.rootSnap # 0
            BY <3>1 DEF Calm, Known, Structure, Cursor
        <3> QED BY <3>2, <3>3, ReleasedStays DEF LeaseReleased, LeaseStatus
    <2> QED BY <1>2, <2>1, <2>2, RunMoves DEF Calm
<1>3. PICK c \in Candidates : c = run'.c
    BY DEF Calm, Typed, RunType, Runs
<1>4. run'.at = "released" => LeaseReleased(run.c)'
    <2>1. run'.at = "released" => LeaseReleased(c)'
        BY <1>2, <1>3
    <2> QED BY <1>3, <2>1 DEF LeaseReleased
<1> QED BY <1>1, <1>4 DEF GivenBack

\* Outside of forkExact only its beginning is done to it.
LEMMA IdleStays ==
    ASSUME Known, Moved, run.at # "forking"
    PROVE  fork'.at \in {"idle", "freeze"} /\ fork'.result = "none"
<1>1. fork.at = "idle" /\ fork.result = "none" /\ fork \in Forks
    BY Facts DEF Known, Structure, Leases
<1>2. CASE UNCHANGED continuation \/ Forked \/ BeginRecovery \/ LettingGo \/ CleanupGroup
           \/ CrashTask
    BY <1>1, <1>2, NoForkType DEF continuation, Forked, BeginRecovery, LettingGo, Release, Remove,
       Unreference, CleanupGroup, CrashTask, ForkLost
<1>3. ASSUME NEW c \in Candidates, BeginFork(c)
      PROVE  fork'.at \in {"idle", "freeze"} /\ fork'.result = "none"
    <2>1. UNCHANGED continuation \/ fork' = [fork EXCEPT !.at = "freeze"]
        BY <1>3 DEF BeginFork, ForkExact, ForkTo
    <2> QED BY <1>1, <2>1 DEF continuation, Forks
<1> QED BY <1>2, <1>3, GroupTouched DEF Forking, RunAt

\* What a call of forkExact does that ends in an error or undoes what it made.
LEMMA TurnsBack ==
    ASSUME Calm, Forking, fork'.at = "undo" \/ fork'.result = "error"
    PROVE  \/ /\ fork.at = "undo" => fork'.k = fork.k \/ fork'.at = "idle"
              /\ fork'.at = "undo" => fork.at = "undo"
              /\ fork'.result = "error" => fork.result = "error"
              /\ "ready" \in group' => "ready" \in group
           \/ /\ fork.at = "lease" /\ lease[fork.k] \notin {"none", "ready"}
              /\ UNCHANGED <<group, lease>> /\ fork'.k = fork.k
           \/ /\ fork'.at = "undo" /\ fork'.result = "rejected" /\ ~Dispatchable'
<1>1. fork \in Forks /\ fork.k \in Children /\ runs \in [Children -> Nat] /\ ForkStep
      /\ faults' # faults + 1
    BY Facts, FailuresAssumption DEF Calm, Known, Forking, FailuresTypeOK
<1>2. CASE Freeze
    BY <1>1, <1>2, NoForkType DEF Freeze, ForkAt, ForkReturns, ForkTo, Forks
<1>3. CASE ForkSession \/ RecordSession \/ Materialize \/ RecordLease \/ RecordRun \/ RecordReady
           \/ ChildFailed \/ GroupFailed
    <2>1. fork'.result = fork.result /\ ("ready" \in group' => "ready" \in group)
        BY <1>1, <1>3 DEF ForkSession, RecordSession, Materialize, RecordLease, RecordRun,
           RecordReady, ChildFailed, GroupFailed, ForkTo, Hold, Forks
    <2>2. fork.at # "undo" /\ fork'.at # "undo"
        BY <1>1, <1>3 DEF ForkSession, RecordSession, Materialize, RecordLease, RecordRun,
           RecordReady, ChildFailed, GroupFailed, ForkAt, ForkTo, Hold, AfterLease, Forks
    <2> QED BY <2>1, <2>2
<1>4. CASE GroupReady \/ Unfreeze
    BY <1>4, NoForkType DEF GroupReady, Unfreeze, ForkReturns, Forks
<1>5. CASE ForkLease
    BY <1>1, <1>5 DEF ForkLease, ForkAt, ForkTo, Hold, AfterLease, Forks
<1>6. CASE AdmitRun
    <2>1. fork.at = "admit" /\ UNCHANGED group
          /\ \/ \E stage \in {"recordReady", "recordRun"} : fork' = [fork EXCEPT !.at = stage]
             \/ ~HasRun /\ fork' = [fork EXCEPT !.at = "undo", !.result = "rejected"]
        BY <1>6 DEF AdmitRun, ForkAt, ForkTo
    <2>2. ASSUME ~HasRun, Dispatchable PROVE FALSE
        BY <1>1, <2>2 DEF HasRun, Dispatchable, Calm, Known, GInv, ReadyIsComplete
    <2> QED BY <1>1, <2>1, <2>2 DEF Forks, Dispatchable
<1>7. CASE Undo
    <2>1. fork.at = "undo" /\ UNCHANGED group
        BY <1>7 DEF Undo, ForkAt
    <2>2. ASSUME NEW k \in fork.held, ReleaseHeld(k)
          PROVE  fork'.at = "undo" /\ fork'.k = fork.k /\ fork'.result = fork.result
        BY <2>1, <2>2, HeldMoves DEF Calm, Known
    <2>3. ASSUME \/ fork.result = "error" /\ fork' = [NoFork EXCEPT !.result = "error"]
                 \/ fork' = [fork EXCEPT !.at = "childFailed"]
          PROVE  fork'.at # "undo" /\ (fork'.result = "error" => fork.result = "error")
                 /\ (fork'.k = fork.k \/ fork'.at = "idle")
        BY <1>1, <2>3, NoForkType DEF Forks
    <2> QED BY <1>7, <2>1, <2>2, <2>3 DEF Undo, ForkTo, ForkReturns
<1> QED BY <1>1, <1>2, <1>3, <1>4, <1>5, <1>6, <1>7 DEF ForkStep, ForkFails, Fault

\* A lease that forkExact cannot take over is one an earlier process left behind.
LEMMA InTheWay ==
    ASSUME Calm, run.at = "forking", fork.at = "lease", lease[fork.k] \notin {"none", "ready"}
    PROVE  /\ crashes > 0 /\ (StuckGroup \/ StuckSibling \/ LeftReleasing)
           /\ Dispatchable => \A j \in Children : node[j].st = "active" => fork.k < j
<1>1. /\ fork.k \in Children /\ lease[fork.k] \in LeaseStatuses /\ lease[fork.k] # "orphaned"
      /\ task.status = "running" /\ group # {} /\ fork.k \in Nat /\ crashes \in Nat
    <2>1. GInv /\ Intact /\ FailuresTypeOK /\ Here /\ Leases
        BY DEF Calm, Known, TaskInv, Structure
    <2>2. fork.k \in Children /\ fork.k \in Nat /\ crashes \in Nat
        <3>1. fork.k \in Children
            BY <2>1, Facts
        <3>2. crashes \in Nat
            BY <2>1, FailuresAssumption DEF FailuresTypeOK
        <3> QED BY <3>1, <3>2, ChildNumbers
    <2>3. lease[fork.k] \in LeaseStatuses /\ lease[fork.k] # "orphaned"
        BY <2>1, <2>2, Facts DEF Intact
    <2>4. task.status = "running" /\ group # {}
        BY <2>1 DEF Here, UnderWay, Leases
    <2> QED BY <2>2, <2>3, <2>4
<1>2. CASE Dispatchable
    <2>1. lease[fork.k] \in {"releasing", "released"} /\ fork.k \notin fork.held
        BY <1>1, <1>2, DispatchableLeases DEF Calm, Known, Structure, LeaseStatuses, Leases
    <2>2. \A j \in Children : node[j].st = "active" => fork.k < j
        BY <1>1, <2>1 DEF Calm, Lent
    <2>3. run.c # Root
        BY <1>1, <1>2, <2>1 DEF Calm, Lent, Known, Structure, InOrder
    <2>4. node[run.c].st = "active" /\ crashes > 0 /\ run.c \in Children
        BY <2>3, Numbers DEF Calm, Rebuilt, Known, Structure, InOrder, Typed, RunType, Runs
    <2> QED BY <1>1, <2>1, <2>2, <2>4 DEF StuckSibling, LeftReleasing
<1>3. CASE ~Dispatchable
    <2>1. StuckGroup
        BY <1>1, <1>3 DEF StuckGroup, Dispatchable
    <2>2. crashes # 0
        BY <1>1, <1>3 DEF Calm, Fresh, Rejecting, HasLease
    <2> QED BY <1>1, <1>3, <2>1, <2>2
<1> QED BY <1>2, <1>3

\* A group is only forked again after a crash.
LEMMA RebuiltKept == ASSUME Calm PROVE Rebuilt'
<1> DEFINE Stranded == StuckGroup \/ StuckSibling \/ LeftReleasing
<1>1. crashes \in Nat /\ run \in Runs
    BY FailuresAssumption DEF Calm, Known, FailuresTypeOK, Typed, RunType
<1>2. ASSUME run'.at = "forking", run'.c # Root PROVE crashes' > 0
    <2>1. CASE UNCHANGED run
        BY <1>2, <2>1 DEF Calm, Rebuilt, Grows
    <2>2. ASSUME NEW c \in Candidates, BeginFork(c) PROVE crashes > 0
        <3>1. run'.c = c
            BY <1>2, <2>2, LeaveFor, GoForAt DEF BeginFork, Throw, RunStages
        <3>2. WorkerMissing(c) /\ node[c].settled = "no" /\ c # Root
            BY <1>2, <2>2, <3>1 DEF BeginFork
        <3>3. c \in Children /\ c \notin workers /\ Started(c)
            BY <3>2, Numbers, MissingFacts DEF Calm, WorkerMissing, Started
        <3>4. crashes # 0
            BY <3>3 DEF Calm, Known, Structure, Staffed
        <3> QED BY <1>1, <3>4
    <2> QED BY <1>2, <2>1, <2>2, RunMoves DEF Calm, Grows
<1>3. ASSUME StuckSibling, UNCHANGED node PROVE StuckSibling'
    BY <1>3, ReleasedStays DEF StuckSibling
<1>7. ASSUME LeftReleasing, Forking PROVE LeftReleasing'
    <2>1. PICK k \in Children : lease[k] = "releasing" /\ k \notin fork.held
        BY <1>7 DEF LeftReleasing
    <2>2. /\ ForkStep /\ fork \in Forks /\ lease \in [Children -> LeaseStatuses]
          /\ NoFork.held = {}
        BY <1>7, Facts DEF Calm, Known, Forking, NoFork
    <2>3. SUFFICES k \notin fork'.held /\ lease'[k] = lease[k]
        BY <2>1 DEF LeftReleasing
    <2>4. CASE Undo
        <3>1. ASSUME NEW j \in fork.held, ReleaseHeld(j)
              PROVE  fork'.held \subseteq fork.held /\ lease'[k] = lease[k]
            BY <2>1, <2>2, <3>1, HeldMoves DEF Calm, Known, Forks
        <3>2. ASSUME UNCHANGED lease, \/ fork' = [NoFork EXCEPT !.result = "error"]
                                      \/ fork' = [fork EXCEPT !.at = "childFailed"]
              PROVE  fork'.held \subseteq fork.held /\ lease'[k] = lease[k]
            BY <2>2, <3>2, NoForkType DEF Forks
        <3> QED BY <2>1, <2>4, <3>1, <3>2 DEF Undo, ForkReturns, ForkTo
    <2>5. CASE ForkLease
        <3>1. CASE UNCHANGED lease
            <4>1. \/ lease[fork.k] = "ready" /\ fork'.held = fork.held \cup {fork.k}
                  \/ fork'.held = fork.held
                BY <2>2, <2>5 DEF ForkLease, ForkTo, Hold, Forks
            <4> QED BY <2>1, <3>1, <4>1
        <3>2. CASE lease[fork.k] = "none" /\ lease' = [lease EXCEPT ![fork.k] = "creating"]
                   /\ ForkTo("materialize")
            <4>1. fork'.held = fork.held /\ lease'[k] = lease[k]
                BY <2>1, <2>2, <3>2 DEF ForkTo, Forks
            <4> QED BY <2>1, <4>1
        <3> QED BY <2>5, <3>1, <3>2 DEF ForkLease
    <2>6. CASE Materialize
        <3>1. lease[fork.k] = "creating" /\ fork.k \in Children
            BY <2>6, Facts DEF Materialize, ForkAt, Calm, Known, Structure, Leases
        <3> QED BY <2>1, <2>2, <2>6, <3>1 DEF Materialize, Hold, Forks
    <2>7. CASE ForkFails \/ Freeze \/ GroupReady \/ Unfreeze \/ AdmitRun
        <3>1. UNCHANGED lease
            BY <2>7 DEF ForkFails, Freeze, GroupReady, Unfreeze, AdmitRun
        <3>2. fork'.held \in {fork.held, {}}
            BY <2>2, <2>7, NoForkType DEF ForkFails, Freeze, GroupReady, Unfreeze, AdmitRun,
               ForkReturns, ForkTo, Forks
        <3> QED BY <2>1, <3>1, <3>2
    <2>8. CASE ForkSession \/ RecordSession \/ RecordLease \/ RecordRun \/ RecordReady
               \/ ChildFailed \/ GroupFailed
        <3>1. UNCHANGED lease
            BY <2>8 DEF ForkSession, RecordSession, RecordLease, RecordRun, RecordReady,
               ChildFailed, GroupFailed
        <3>2. fork'.held = fork.held
            BY <2>2, <2>8 DEF ForkSession, RecordSession, RecordLease, RecordRun, RecordReady,
               ChildFailed, GroupFailed, ForkTo, Forks
        <3> QED BY <2>1, <3>1, <3>2
    <2> QED BY <2>2, <2>4, <2>5, <2>6, <2>7, <2>8 DEF ForkStep
<1>4. ASSUME run.at = "forking", fork'.at = "undo" \/ fork'.result = "error"
      PROVE  /\ fork'.at = "undo" /\ Dispatchable' =>
                    \A j \in Children : node'[j].st = "active" => fork'.k < j
             /\ fork'.result = "error" => crashes' > 0 /\ Stranded'
    <2>1. CASE Forking
        <3>0. UNCHANGED node /\ group \subseteq group'
            BY <2>1 DEF Forking, graph, Calm, Grows
        <3>1. CASE /\ fork.at = "undo" => fork'.k = fork.k \/ fork'.at = "idle"
                   /\ fork'.at = "undo" => fork.at = "undo"
                   /\ fork'.result = "error" => fork.result = "error"
                   /\ "ready" \in group' => "ready" \in group
            <4>1. fork'.at = "undo" /\ Dispatchable' =>
                    \A j \in Children : node'[j].st = "active" => fork'.k < j
                BY <3>0, <3>1 DEF Calm, Rebuilt, Dispatchable
            <4>2. fork'.result = "error" => crashes' > 0 /\ Stranded'
                BY <1>3, <1>7, <2>1, <3>0, <3>1 DEF Calm, Rebuilt, StuckGroup, Grows
            <4> QED BY <4>1, <4>2
        <3>2. CASE /\ fork.at = "lease" /\ lease[fork.k] \notin {"none", "ready"}
                   /\ UNCHANGED <<group, lease>> /\ fork'.k = fork.k
            <4>1. crashes > 0 /\ (StuckGroup \/ StuckSibling \/ LeftReleasing)
                BY <1>4, <3>2, InTheWay
            <4>2. crashes' > 0 /\ Stranded'
                BY <1>3, <1>7, <2>1, <3>0, <3>2, <4>1 DEF Calm, Grows, StuckGroup
            <4>3. Dispatchable' => \A j \in Children : node'[j].st = "active" => fork'.k < j
                BY <1>4, <3>0, <3>2, InTheWay DEF Dispatchable
            <4> QED BY <4>2, <4>3
        <3>3. CASE fork'.at = "undo" /\ fork'.result = "rejected" /\ ~Dispatchable'
            BY <3>3
        <3> QED BY <1>4, <2>1, <3>1, <3>2, <3>3, TurnsBack
    <2>2. CASE Forked \/ CrashTask
        BY <1>4, <2>2, NoForkType DEF Forked, CrashTask, ForkLost
    <2>3. CASE UNCHANGED <<graph, process, continuation>>
        BY <1>3, <1>4, <2>3
        DEF graph, continuation, Calm, Rebuilt, Dispatchable, StuckGroup, LeftReleasing, Grows
    <2> QED BY <1>4, <2>1, <2>2, <2>3, AtForking DEF Calm
<1>5. CASE run.at = "forking"
    <2>1. StuckGroup' = (group' # {} /\ "ready" \notin group')
        BY DEF StuckGroup
    <2> QED BY <1>2, <1>4, <1>5 DEF Rebuilt
<1>6. CASE run.at # "forking"
    BY <1>2, <1>6, IdleStays DEF Rebuilt, Calm
<1> QED BY <1>5, <1>6

\* A group whose branch is over is dispatchable.
LEMMA BranchOver ==
    ASSUME Known, task.status = "terminal", task.branched
    PROVE  Dispatchable
<1>1. PICK k \in Children : k = fork.k
    BY Facts DEF Known
<1>2. ~Provisioned /\ node[k].st # "absent"
    BY AllProvisioned, <1>1 DEF Known, Structure, Lineage
<1> QED BY <1>2 DEF Provisioned, Started, Known, TaskInv, Branch

\* Until then the first call makes the leases one by one.
LEMMA FreshKept == ASSUME Calm PROVE Fresh'
<1> SUFFICES ASSUME crashes' = 0, ~Dispatchable', fork'.at \notin Rejecting \cup {"undo"}
    PROVE  /\ ~snapReleased'
           /\ \A k \in Children : lease'[k] # "none" =>
                /\ fork'.at \in Driving
                /\ k < fork'.k \/ (k = fork'.k /\ fork'.at \in HasLease \cup {"materialize"})
    BY DEF Fresh
<1>1. crashes = 0 /\ ~Dispatchable /\ fork \in Forks /\ fork.k \in Children /\ ChildCount \in Nat
      /\ faults' # faults + 1 /\ lease \in [Children -> LeaseStatuses]
    BY Facts, FailuresAssumption, Numbers DEF Calm, Grows, Dispatchable, Known, FailuresTypeOK
<1>2. ~CrashTask
    BY <1>1 DEF CrashTask, Crash
<1>3. fork.at \notin Rejecting \cup {"undo"}
    <2>1. SUFFICES ASSUME fork.at \in Rejecting \cup {"undo"} PROVE FALSE
        OBVIOUS
    <2>2. run.at = "forking"
        BY <2>1 DEF Calm, Known, Structure, Leases, Rejecting
    <2>3. Forking
        BY <1>2, <2>1, <2>2, AtForking DEF Calm, Forked, ForkAt, Rejecting, continuation
    <2>4. Undo \/ ChildFailed \/ GroupFailed \/ Unfreeze
        BY <1>1, <2>1, <2>3 DEF Forking, ForkStep, Freeze, ForkSession, RecordSession, ForkLease,
           Materialize, RecordLease, AdmitRun, RecordRun, RecordReady, GroupReady, ForkFails,
           ForkAt, Rejecting, Fault
    <2>5. CASE Undo
        <3>0. ASSUME NEW k \in fork.held, ReleaseHeld(k) PROVE fork'.at = "undo"
            BY <2>5, <3>0, HeldMoves DEF Undo, ForkAt, Calm, Known
        <3>1. fork.result = "error"
            BY <1>1, <2>5, <3>0 DEF Undo, ForkAt, ForkTo, Forks, Rejecting
        <3> QED BY <1>1, <3>1 DEF Calm, Rebuilt
    <2>6. CASE ChildFailed \/ GroupFailed
        BY <1>1, <2>6 DEF ChildFailed, GroupFailed, ForkTo, Forks, Rejecting
    <2>7. CASE Unfreeze
        BY <2>7 DEF Unfreeze, ForkAt, Calm, Known, Structure, Leases, Smooth
    <2> QED BY <2>4, <2>5, <2>6, <2>7
<1>4. /\ ~snapReleased
      /\ \A k \in Children : lease[k] # "none" =>
            /\ fork.at \in Driving
            /\ k < fork.k \/ (k = fork.k /\ fork.at \in HasLease \cup {"materialize"})
    BY <1>1, <1>3 DEF Calm, Fresh
<1>5. ASSUME run.at # "forking" PROVE \A k \in Children : lease[k] = "none"
    BY <1>4, <1>5 DEF Calm, Known, Structure, Leases, Driving, HasSession
<1>6. CASE Forking
    <2>1. ForkStep /\ Children \subseteq Nat
        BY <1>6, ChildNumbers DEF Forking
    <2>2. CASE Freeze
        <3>1. UNCHANGED <<lease, snapReleased>> /\ fork.at = "freeze"
            BY <2>2 DEF Freeze, ForkAt
        <3> QED BY <1>4, <3>1 DEF Driving, HasSession
    <2>3. CASE ForkSession \/ RecordSession
        <3>1. /\ UNCHANGED <<lease, snapReleased>> /\ fork.at \in {"session", "recordSession"}
              /\ fork'.at \in Driving /\ fork'.k = fork.k
            BY <1>1, <2>3 DEF ForkSession, RecordSession, ForkAt, ForkTo, Forks, Driving, HasSession
        <3> QED BY <1>4, <3>1 DEF HasLease
    <2>4. CASE ForkLease
        <3>1. /\ fork.at = "lease" /\ UNCHANGED snapReleased /\ lease[fork.k] = "none"
            BY <1>1, <1>4, <2>1, <2>4 DEF ForkLease, ForkAt, HasLease
        <3>2. /\ lease' = [lease EXCEPT ![fork.k] = "creating"]
              /\ fork' = [fork EXCEPT !.at = "materialize"]
            BY <2>4, <3>1 DEF ForkLease, ForkTo
        <3> QED BY <1>1, <1>4, <3>1, <3>2 DEF Forks, Driving, HasSession, HasLease
    <2>5. CASE Materialize
        <3>1. /\ fork.at = "materialize" /\ UNCHANGED snapReleased
              /\ lease' = [lease EXCEPT ![fork.k] = "ready"]
              /\ fork'.at \in {"admit", "recordLease"} /\ fork'.k = fork.k
            BY <1>1, <2>5 DEF Materialize, ForkAt, Hold, AfterLease, Forks
        <3> QED BY <1>1, <1>4, <3>1 DEF Driving, HasSession, HasLease
    <2>6. CASE RecordLease \/ AdmitRun \/ RecordRun
        <3>1. /\ UNCHANGED <<lease, snapReleased>> /\ fork.at \in HasLease
              /\ fork'.at \in HasLease /\ fork'.k = fork.k
            BY <1>1, <2>6 DEF RecordLease, AdmitRun, RecordRun, ForkAt, ForkTo, Forks, HasLease
        <3> QED BY <1>4, <3>1 DEF Driving, HasSession, HasLease
    <2>7. CASE RecordReady
        <3>1. /\ UNCHANGED <<lease, snapReleased>> /\ fork.at = "recordReady"
              /\ \/ fork'.at = "groupReady" /\ fork'.k = fork.k
                 \/ fork'.at = "session" /\ fork'.k = fork.k + 1
            BY <1>1, <2>7 DEF RecordReady, ForkAt, Forks
        <3>2. ASSUME NEW k \in Children, k < fork.k \/ k = fork.k PROVE k < fork.k + 1
            <4>1. k \in Nat /\ fork.k \in Nat
                BY <1>1, <2>1
            <4> QED BY <3>2, <4>1
        <3> QED BY <1>4, <3>1, <3>2 DEF Driving, HasSession, HasLease
    <2>8. ~(GroupReady \/ ForkFails)
        BY <1>1 DEF GroupReady, ForkFails, Fault, Dispatchable
    <2>9. ~(Undo \/ ChildFailed \/ GroupFailed \/ Unfreeze)
        BY <1>3 DEF Undo, ChildFailed, GroupFailed, Unfreeze, ForkAt, Rejecting
    <2> QED BY <2>1, <2>2, <2>3, <2>4, <2>5, <2>6, <2>7, <2>8, <2>9 DEF ForkStep
<1>7. CASE Forked
    BY <1>4, <1>7 DEF Forked, ForkAt, Driving, HasSession
<1>8. CASE BeginRecovery
    <2>1. run.at # "forking"
        BY <1>8 DEF BeginRecovery, RunAt
    <2>2. UNCHANGED snapReleased /\ \A k \in Children : lease'[k] = "none"
        BY <1>5, <1>8, <2>1 DEF BeginRecovery, RecoveredLease
    <2> QED BY <1>4, <2>2
<1>9. CASE LettingGo
    <2>1. run.at \in {"release", "removing", "unreference"}
        BY <1>9, LettingGoKeeps DEF Calm, Known
    <2>2. run.c = Root
        BY <1>1, <2>1 DEF Calm, Known, Structure, Cursor
    <2>3. UNCHANGED <<lease, snapReleased>>
        BY <1>9, <2>2, LettingGoMoves DEF LetsGo, Marks, Calm
    <2> QED BY <1>4, <1>5, <2>1, <2>3
<1>10. ~CleanupGroup
    BY <1>1, BranchOver, CleaningFacts DEF CleanupGroup, Calm
<1>11. ASSUME NEW c \in Candidates, BeginFork(c)
       PROVE  UNCHANGED <<lease, snapReleased>> /\ run.at # "forking"
    BY <1>11 DEF BeginFork, ForkExact, continuation, Chosen, Running, RunAt, WorkerMissing, Turning
<1>12. CASE UNCHANGED continuation
    BY <1>4, <1>12 DEF continuation
<1> QED BY <1>2, <1>4, <1>5, <1>6, <1>7, <1>8, <1>9, <1>10, <1>11, <1>12, GroupTouched DEF Calm

\* A workspace that is not there to be released.
Quiet(c) == (c = Root /\ task.rootSnap = 0) \/ ~LeaseReady(c)

\* While nothing is made ready again, it stays so.
LEMMA QuietStays ==
    ASSUME Calm, ~Forking, ~BeginRecovery, ~RecordRoot, NEW c \in Candidates, Quiet(c)
    PROVE  Quiet(c)'
<1>1. CASE c = Root
    <2>1. \/ task'.rootSnap = 0 /\ task.rootSnap = 0
          \/ task.rootSnap # 0 /\ (RootLease' = RootLease \/ RootLease' # "ready")
        BY RootMoves DEF Calm, RootLent
    <2> QED BY <1>1, <2>1 DEF Quiet, LeaseReady, LeaseStatus
<1>2. CASE c # Root
    <2>1. c \in Children /\ lease[c] # "ready"
        BY <1>2, Numbers DEF Quiet, LeaseReady, LeaseStatus
    <2>2. lease'[c] = lease[c] \/ lease'[c] # "ready"
        <3>1. CASE LettingGo
            <4>1. lease \in [Children -> LeaseStatuses]
                BY Facts DEF Calm, Known
            <4>2. UNCHANGED lease \/ \E v \in {"releasing", "released", "orphaned"} :
                    lease' = [lease EXCEPT ![run.c] = v]
                BY <3>1, LettingGoMoves DEF LetsGo, Marks, Calm
            <4> QED BY <2>1, <4>1, <4>2
        <3>2. CASE UNCHANGED continuation \/ Forked \/ CleanupGroup \/ CrashTask
                   \/ \E d \in Candidates : BeginFork(d)
            BY <3>2 DEF continuation, Forked, CleanupGroup, CrashTask, ForkLost, BeginFork,
               ForkExact
        <3> QED BY <3>1, <3>2, GroupTouched DEF Calm
    <2> QED BY <1>2, <2>1, <2>2 DEF Quiet, LeaseReady, LeaseStatus
<1> QED BY <1>1, <1>2

\* What the cleanup has no candidate for is not there.
LEMMA PassedOver ==
    ASSUME Calm, Cleaning, NEW c \in Candidates, c \notin ToRelease
    PROVE  Quiet(c)
<1>1. task.status = "terminal" /\ run.n \in Nat /\ c \in Nat
    BY CleaningFacts, Numbers DEF Calm, Known, Typed, RunType, Runs
<1>2. CASE c < run.n
    <2>1. run.at = "cleanup"
        BY <1>1, <1>2 DEF Cleaning, RunAt, Calm, Known, Structure, Cursor
    <2> QED BY <1>1, <1>2, <2>1 DEF Calm, Passed, Quiet
<1>3. CASE c >= run.n /\ NothingToRelease(c)
    <2>1. CASE node[c].st = "absent"
        <3>1. c # Root
            BY <1>1, <2>1 DEF Calm, Known, Structure, Lineage
        <3>2. c \in Children /\ group = {}
            BY <2>1, <3>1, Numbers DEF Calm, Known, Structure, Lineage, TaskInv, Branch
        <3>3. lease[c] = "none"
            BY <3>2 DEF Calm, Known, Structure, Leases
        <3> QED BY <3>1, <3>3 DEF Quiet, LeaseReady, LeaseStatus
    <2>2. CASE node[c].released
        <3>1. LeaseReleased(c)
            BY <2>2 DEF Calm, GivenBack
        <3> QED BY <3>1 DEF LeaseReleased, Quiet, LeaseReady, LeaseStatus
    <2> QED BY <1>3, <2>1, <2>2 DEF NothingToRelease, Quiet
<1>4. CASE c >= run.n /\ ~NothingToRelease(c)
    <2>1. ~Attachable(c) /\ SnapshotKept(c)
        BY <1>4 DEF ToRelease
    <2> QED BY <2>1 DEF Attachable, Quiet
<1> QED BY <1>1, <1>2, <1>3, <1>4

\* The cleanup leaves nothing behind it.
LEMMA PassedKept == ASSUME Calm PROVE Passed'
<1> SUFFICES ASSUME task'.status = "terminal",
                    run'.at \in {"cleanup", "release", "removing", "unreference", "released"},
                    NEW c \in Candidates, c < run'.n, ~(run'.at = "release" /\ c = run'.c)
    PROVE  Quiet(c)'
    BY DEF Passed, Quiet
<1>1. run \in Runs /\ run.n \in Nat /\ c \in Nat /\ run' \in Runs /\ run'.n \in Nat
    BY Numbers DEF Calm, Known, Typed, RunType, Runs
<1>2. CASE run' = run
    <2>1. task.status = "terminal"
        <3>1. run.n # 0
            BY <1>1, <1>2
        <3> QED BY <1>2, <3>1 DEF Calm, Known, Structure, Cursor, TaskInv, Here
    <2>2. Quiet(c)
        BY <1>2, <2>1 DEF Calm, Passed, Quiet
    <2>3. ~Forking /\ ~BeginRecovery /\ ~RecordRoot
        BY <1>2 DEF Forking, BeginRecovery, RecordRoot, RunAt
    <2> QED BY <2>2, <2>3, QuietStays
<1>3. CASE Prune
    <2>1. task.status = "running" /\ UNCHANGED task
        BY <1>3 DEF Prune, RunAt, Calm, Known, TaskInv, Here, UnderWay, AboutCandidate
    <2> QED BY <2>1
<1>4. ASSUME NEW d \in Candidates, CleanupNode(d) PROVE Quiet(c)'
    <2>1. run'.at # "threw" /\ Cleaning /\ \A e \in ToRelease : d <= e
        BY <1>4 DEF CleanupNode
    <2>2. run' = [at |-> "release", c |-> d, first |-> FALSE, n |-> d + 1]
        BY <1>4, <2>1, LeaveFor DEF CleanupNode, Throw, RunStages
    <2>3. c < d + 1 /\ c # d /\ d \in Nat
        BY <2>2, Numbers
    <2>4. ~(d <= c)
        BY <1>1, <2>3
    <2>5. Quiet(c)
        BY <2>1, <2>4, PassedOver
    <2> QED BY <1>4, <2>5 DEF CleanupNode, graph, outside, continuation, Quiet, LeaseReady,
        LeaseStatus, RootLease
<1>5. CASE LettingGo
    <2>1. /\ run.at \in {"release", "removing", "unreference"} /\ run'.c = run.c /\ run'.n = run.n
          /\ run'.at \in {"removing", "unreference", "released"} /\ UNCHANGED task
        BY <1>5, LettingGoKeeps DEF graph, Calm, Known
    <2>2. CASE c = run.c
        <3>1. CASE run'.at = "released"
            <4>1. LeaseReleased(c)'
                BY <2>1, <2>2, <3>1, GivenBackKept DEF GivenBack, LeaseReleased
            <4> QED BY <4>1 DEF LeaseReleased, Quiet, LeaseReady, LeaseStatus
        <3>2. CASE run'.at # "released"
            <4>1. LeaseStatus(run.c)' \in {"releasing", "released"}
                BY <2>1, <3>2 DEF Calm, Structure, Cursor, LeaseStatus
            <4> QED BY <2>1, <2>2, <4>1 DEF Quiet, LeaseReady, LeaseStatus
        <3> QED BY <2>1, <3>1, <3>2
    <2>3. CASE c # run.c
        <3>1. Quiet(c)
            BY <2>1, <2>3 DEF Calm, Passed, Quiet
        <3>2. ~Forking /\ ~BeginRecovery /\ ~RecordRoot
            BY <2>1 DEF Forking, BeginRecovery, RecordRoot, RunAt
        <3> QED BY <3>1, <3>2, QuietStays
    <2> QED BY <2>2, <2>3
<1>6. CASE RecordReleased
    <2>1. run.at = "released" /\ UNCHANGED <<task, root, lease>> /\ (Go("cleanup") \/ Loop)
        BY <1>6 DEF RecordReleased, RunAt, outside, continuation
    <2>2. run'.n = run.n
        BY <1>1, <2>1, GoKeeps, LeaveFor DEF Loop, RunStages
    <2>3. Quiet(c)
        BY <2>1, <2>2 DEF Calm, Passed, Quiet
    <2> QED BY <2>1, <2>3 DEF Quiet, LeaseReady, LeaseStatus, RootLease
<1>7. CASE CleanupGroup
    <2>1. Quiet(c)
        BY <1>7, PassedOver DEF CleanupGroup
    <2> QED BY <1>7, <2>1 DEF CleanupGroup, graph, Quiet, LeaseReady, LeaseStatus, RootLease
<1> QED BY <1>2, <1>3, <1>4, <1>5, <1>6, <1>7, RunMoves DEF Calm, LettingGo

\* What is lent stays accounted for.
LEMMA KeptsStep ==
    ASSUME Known, Kepts, Moved
    PROVE  Kepts'
<1> SUFFICES ASSUME Smooth'
    PROVE  (Intact /\ Lent /\ RootLent /\ GivenBack /\ Rebuilt /\ Fresh /\ Passed)'
    BY DEF Kepts
<1>1. Grows /\ Structure'
    BY StructureStep
<1>2. Typed' /\ TaskInv' /\ GInv'
    BY TaskSteps, PartsOfSteps DEF Known, Moved
<1>3. Smooth /\ UNCHANGED faults
    BY <1>1 DEF Smooth, Grows
<1>4. Calm
    BY <1>1, <1>2, <1>3 DEF Calm, Kepts
<1> QED BY <1>4, IntactKept, LentKept, RootLentKept, GivenBackKept, RebuiltKept, FreshKept,
    PassedKept

-----------------------------------------------------------------------------
(***************************************************************************)
(* How the attempts of a promotion come to an end                          *)
(***************************************************************************)
\* The candidate has no journal.
NoAttempt(c) == journal[c].status = "none"
\* The foreground holds an edit of the user.
UserEdited == \E p \in Paths : fg[p] = Edit

\* The attempt is left to the user, or it was never opened and the user came first.
Refused(c) == journal[c].status = "needs_attention" \/ (NoAttempt(c) /\ UserEdited)

\* What a result says.
Reasons ==
    /\ run.at = "promoting" =>
        (call.at # "idle" => ~call.recovering) /\ call.result # "recovered"
    /\ call.result = "fault" => faults > 0
    /\ run.at = "recovering" /\ call.result = "recovered" => journal[run.c].status # "open"
    /\ call.at = "open" => \A p \in Paths : fg[p] \in {Base, Edit}

\* A second attempt finds nothing open; it conflicts only when it was refused.
SecondAttempt ==
    faults = 0 /\ run.n > 0 =>
        /\ run.at = "promoting" =>
            /\ Free => journal[run.c].status # "open"
            /\ call.result = "conflict" => Refused(run.c)
        /\ run.at = "recovering" => call.at = "idle" /\ Refused(run.c)

\* In a task that lost no process only what drifted conflicts, and then nothing was
\* opened; a second attempt is told of it before it conflicts.
Unbroken ==
    crashes = 0 /\ faults = 0 /\ task.status # "terminal" =>
        /\ \A c \in Candidates : ~NoAttempt(c) =>
            node[c].st = "failed" \/ (run.at = "promoting" /\ run.c = c /\ ~Free)
        /\ run.at = "promoting" /\ call.result = "conflict" => Drifted /\ NoAttempt(run.c)
        /\ run.at = "recovering" =>
            run.n = 0 /\ Drifted /\ call.at = "idle" /\ NoAttempt(run.c)
        /\ run.at = "promoting" /\ run.n > 0 =>
            /\ Drifted /\ NoAttempt(run.c)
            /\ call.at \in {"idle", "verify", "gate"} /\ call.result # "conflict"

\* All that is known of attempts and of their results.
Tried == Reasons /\ SecondAttempt /\ Unbroken

\* A candidate that failed stays failed.
LEMMA FailedStays ==
    ASSUME Known, Moved, NEW c \in Candidates, node[c].st = "failed"
    PROVE  node'[c].st = "failed"
<1>1. ~CommitBranch
    <2>1. ASSUME CommitBranch PROVE FALSE
        <3>1. node[Root].st = "branching" /\ ~task.branched
            BY <2>1 DEF CommitBranch, Known, TaskInv, Branch
        <3> QED BY <3>1, Numbers DEF Known, TaskInv, Branch
    <2> QED BY <2>1
<1> QED BY <1>1, NodeMoves DEF Moderate, Provisioning

\* Facts about calls and journals in a step of the task.
LEMMA TryingTypes ==
    ASSUME Known
    PROVE  /\ journal \in [Candidates -> Journals] /\ call \in Calls /\ fg \in [Paths -> Contents]
           /\ run \in Runs /\ run.c \in Candidates /\ run.n \in Nat
           /\ faults \in Nat /\ crashes \in Nat
           /\ run.at \in {"promoting", "recovering"} =>
                task.status = "running" /\ task.winner = run.c /\ node[run.c].st = "winner"
BY FailuresAssumption, Numbers
DEF Known, PInv, PromotionTypeOK, Typed, RunType, Runs, FailuresTypeOK, TaskInv, Here, UnderWay,
    AboutCandidate, Graph

\* What a step of a call has to do with failures, edits and conflicts.
LEMMA CallTried ==
    ASSUME PInv, PromotionStep, faults \in Nat
    PROVE  /\ call' # Idle /\ call.at # "idle"
           /\ call'.result = "fault" => faults' > 0
           /\ call'.result = "recovered" => call.recovering /\ journal'[call.c].status # "open"
           /\ call'.result = "conflict" =>
                /\ call.at = "open" /\ NoAttempt(call.c) /\ UNCHANGED <<journal, fg>>
                /\ \E p \in Paths : fg[p] # Base
           /\ call'.at = "open" => \A p \in Paths : fg'[p] = Base
           /\ call.at \in {"verify", "gate"} /\ Drifted =>
                /\ UNCHANGED <<journal, fg>> /\ call'.at \in {"gate", "idle"}
                /\ call'.result # "conflict"
<1>1. call.at # "idle" /\ call.c \in Candidates /\ CallMoves
    BY StepOfCall
<1>2. call \in Calls /\ call.result = None /\ journal \in [Candidates -> Journals]
    BY <1>1, CallFacts
<1>3. ASSUME NEW result \in Results, Return(result)
      PROVE  call'.at = "idle" /\ call'.result = result /\ call' # Idle
    BY <1>3, ResultAssumption DEF Return, Idle
<1>4. ASSUME NEW stage \in CallStages \ {"idle"}, Goto(stage)
      PROVE  call'.at = stage /\ call'.result = None /\ call' # Idle
    BY <1>2, <1>4 DEF Goto, Calls, Idle
<1>5. None \notin {"fault", "recovered", "conflict"}
    BY ResultAssumption DEF Results
<1>6. CASE VerifyLease
    <2>1. At("verify") /\ UNCHANGED <<journal, fg>> /\ (Goto("gate") \/ Return("verifier_failed"))
        BY <1>6 DEF VerifyLease
    <2> QED BY <1>1, <1>3, <1>4, <1>5, <2>1 DEF CallStages, Results, At
<1>7. CASE Gate \/ Recheck
    <2>1. /\ call.at \in {"gate", "recheck"} /\ UNCHANGED <<journal, fg>>
          /\ \/ Drifted /\ Return("foreground_changed")
             \/ ~Drifted /\ \E stage \in {"open", "recheck"} : Goto(stage)
        BY <1>7, Zenon DEF Gate, Recheck, At
    <2>2. ~Drifted => \A p \in Paths : fg[p] = Base
        BY DEF Drifted, Captured
    <2>3. CASE Drifted /\ Return("foreground_changed")
        BY <1>1, <1>3, <1>5, <2>1, <2>3 DEF Results
    <2>4. CASE ~Drifted /\ \E stage \in {"open", "recheck"} : Goto(stage)
        <3>1. call'.at \in {"open", "recheck"} /\ call'.result = None /\ call' # Idle
            BY <1>4, <2>4 DEF CallStages
        <3> QED BY <1>1, <1>5, <2>1, <2>2, <2>4, <3>1
    <2> QED BY <2>1, <2>3, <2>4
<1>8. CASE Open
    <2>1. call.at = "open" /\ NoAttempt(call.c)
        BY <1>8 DEF Open, At, PInv, Shape, Before, NoAttempt
    <2>2. CASE ~PreimagesHold(call.c) /\ Return("conflict")
        <3>1. UNCHANGED <<journal, fg>>
            BY <1>8, <2>2, Zenon DEF Open
        <3>2. \E p \in Paths : fg[p] # Base
            BY <2>2 DEF PreimagesHold, Planned, Captured
        <3> QED BY <1>1, <1>3, <2>1, <2>2, <3>1, <3>2 DEF Results
    <2>3. CASE \E stage \in {"close", "prepare"} : Goto(stage)
        BY <1>1, <1>4, <1>5, <2>1, <2>3 DEF CallStages
    <2>4. CASE Fault /\ Return("fault")
        <3>1. faults' > 0
            BY <2>4 DEF Fault
        <3> QED BY <1>1, <1>3, <2>1, <2>4, <3>1 DEF Results
    <2> QED BY <1>8, <2>2, <2>3, <2>4 DEF Open
<1>9. CASE Record
    <2>1. call'.result = None /\ call'.at \in {"final", "prepare"} /\ call.at = "record"
        BY <1>2, <1>9 DEF Record, At, Calls
    <2>2. call' # Idle
        BY <2>1 DEF Idle
    <2> QED BY <1>1, <1>5, <2>1, <2>2
<1>10. CASE Prepare \/ Apply \/ VerifyForeground \/ Close \/ RollbackDone
    <2>1. /\ call.at \in {"prepare", "apply", "final", "close", "rollback"}
          /\ \E stage \in {"apply", "record", "close", "rollback", "settle"} : Goto(stage)
        BY <1>10, Zenon DEF Prepare, Apply, VerifyForeground, Close, RollbackDone, At
    <2>2. /\ call'.at \in {"apply", "record", "close", "rollback", "settle"}
          /\ call'.result = None /\ call' # Idle
        BY <1>4, <2>1 DEF CallStages
    <2> QED BY <1>1, <1>5, <2>1, <2>2
<1>11. CASE ApplyFails \/ RollbackFails
    <2>1. /\ call.at \in {"prepare", "apply", "record", "close", "rollback"} /\ Fault
          /\ Return("fault") \/ Goto("rollback")
        BY <1>11, Zenon DEF ApplyFails, RollbackFails, At
    <2>2. faults' > 0
        BY <2>1 DEF Fault
    <2>3. /\ call'.at \in {"idle", "rollback"} /\ call'.result \in {"fault", None} /\ call' # Idle
        BY <1>3, <1>4, <2>1 DEF CallStages, Results
    <2> QED BY <1>1, <1>5, <2>1, <2>2, <2>3
<1>12. CASE Compare \/ Restore \/ Confirm
    <2>1. /\ call.at \in {"rollback", "restore", "confirm"}
          /\ \/ \E p \in Paths : RolledBack(p)
             \/ \E stage \in {"restore", "confirm"} : Goto(stage)
             \/ Return("needs_attention")
        BY <1>12 DEF Compare, Restore, Confirm, NeedsAttention, At
    <2>2. ASSUME NEW p \in Paths, RolledBack(p)
          PROVE  call'.at = "rollback" /\ call'.result = None /\ call' # Idle
        BY <1>2, <2>2 DEF RolledBack, Calls, Idle
    <2>3. /\ call'.at \in {"idle", "rollback", "restore", "confirm"}
          /\ call'.result \in {"needs_attention", None} /\ call' # Idle
        BY <1>3, <1>4, <2>1, <2>2 DEF CallStages, Results
    <2> QED BY <1>1, <1>5, <2>1, <2>3
<1>13. CASE Settle
    <2>1. /\ call.at = "settle" /\ UNCHANGED journal
          /\ Return(IF call.recovering THEN "recovered" ELSE journal[call.c].status)
          /\ journal[call.c].status \in Final \/ (call.recovering /\ NoAttempt(call.c))
        BY <1>13 DEF Settle, At, PInv, Shape, NoAttempt
    <2>2. PICK result \in {"recovered", "promoted", "rolled_back"} :
            Return(result) /\ (result = "recovered" => call.recovering)
        BY <2>1 DEF Final
    <2>3. call'.at = "idle" /\ call'.result = result /\ call' # Idle
        BY <1>3, <2>2 DEF Results, Final
    <2>4. journal'[call.c].status # "open"
        BY <2>1 DEF Final, NoAttempt
    <2> QED BY <1>1, <2>1, <2>2, <2>3, <2>4
<1> QED BY <1>6, <1>7, <1>8, <1>9, <1>10, <1>11, <1>12, <1>13 DEF PromotionStep

\* Beginning and ending a call.
LEMMA ReturnSays ==
    ASSUME NEW result \in Results, Return(result)
    PROVE  call'.at = "idle" /\ call'.result = result /\ call' # Idle /\ call'.recovering = FALSE
BY ResultAssumption DEF Return, Idle

\* A promotion that begins.
LEMMA PromoteTried ==
    ASSUME PInv, NEW c \in Candidates, Promote(c)
    PROVE  /\ UNCHANGED <<journal, fg>> /\ call' # Idle
           /\ call'.at \in {"idle", "verify"} /\ ~call'.recovering
           /\ call'.result \in {None, "conflict"} \cup Final
           /\ call'.result = "conflict" => journal[c].status \in {"open", "needs_attention"}
<1>1. journal[c].status \in Statuses
    BY DEF PInv, PromotionTypeOK, Journals
<1>2. None # "conflict"
    BY ResultAssumption DEF Results
<1>3. CASE ReplayReceipt(c)
    <2>1. journal[c].status \in Final /\ Return(journal[c].status) /\ UNCHANGED <<journal, fg>>
        BY <1>3 DEF ReplayReceipt, HasReceipt
    <2> QED BY <2>1, ReturnSays DEF Results, Final
<1>4. CASE Begin(c)
    <2>1. journal[c].status \notin Final /\ UNCHANGED <<journal, fg>>
        BY <1>4 DEF Begin, HasReceipt
    <2>2. CASE journal[c].status # "none" /\ Return("conflict")
        BY <1>1, <2>1, <2>2, ReturnSays DEF Results, Final, Statuses
    <2>3. CASE call' = [Idle EXCEPT !.at = "verify", !.c = c]
        BY <1>2, <2>1, <2>3 DEF Idle
    <2> QED BY <1>4, <2>2, <2>3 DEF Begin
<1> QED BY <1>3, <1>4 DEF Promote

\* A recovery that begins.
LEMMA RecoverTried ==
    ASSUME PInv, NEW c \in Candidates, Recover(c)
    PROVE  /\ UNCHANGED fg /\ call'.at \in {"idle", "settle", "rollback"}
           /\ call'.result \in {None, "recovered"}
           /\ call'.result = "recovered" => journal'[c].status # "open"
           /\ journal[c].status = "open" \/ (UNCHANGED journal /\ call'.at = "idle")
<1>1. None # "recovered"
    BY ResultAssumption DEF Results
<1>2. CASE RecoverSettled(c)
    BY <1>2, ReturnSays DEF RecoverSettled, Interrupted, Results
<1>3. CASE Discard(c) \/ RecoverOpen(c)
    BY <1>1, <1>3 DEF Discard, RecoverOpen, Interrupted, Idle
<1> QED BY <1>2, <1>3 DEF Recover

\* What every step of these proofs may rely on.
Trying == Known /\ Moved /\ Grows /\ Tried

\* Failures are not taken back, and nothing that failed or ended comes to life again.
LEMMA TryingFacts ==
    ASSUME Trying
    PROVE  /\ (faults > 0 => faults' > 0) /\ (faults' = 0 => faults = 0)
           /\ (crashes' = 0 => crashes = 0)
           /\ (task'.status # "terminal" => task.status # "terminal")
           /\ \A c \in Candidates : node[c].st = "failed" => node'[c].st = "failed"
<1>1. Counted /\ faults \in Nat /\ Moved /\ Known /\ Grows
    BY StepsFail, TryingTypes DEF Trying, Known, Moved
<1>2. task'.status # "terminal" => task.status # "terminal"
    BY <1>1, TaskMoves DEF PlanTask
<1>3. faults > 0 => faults' > 0
    BY <1>1 DEF Counted, Fault, Crash, failures
<1> QED BY <1>1, <1>2, <1>3, FailedStays DEF Grows

\* Steps that leave the attempts alone.
LEMMA TriedElsewhere ==
    ASSUME Trying, UNCHANGED promotion,
           UNCHANGED run \/ (run'.at \notin {"promoting", "recovering"}
                             /\ (run.at # "promoting" \/ Free))
    PROVE  Tried'
<1>1. UNCHANGED <<fg, journal, call>>
    BY DEF promotion
<1>2. Reasons'
    BY <1>1, TryingFacts DEF Trying, Tried, Reasons
<1>3. SecondAttempt'
    BY <1>1, TryingFacts DEF Trying, Tried, SecondAttempt, Refused, NoAttempt, UserEdited, Free
<1>4. Unbroken'
    BY <1>1, TryingFacts DEF Trying, Tried, Unbroken, NoAttempt, Drifted, Captured, Free
<1> QED BY <1>2, <1>3, <1>4 DEF Tried

\* The winner is selected before it is promoted.
LEMMA SelectTried == ASSUME Trying, SelectWinner PROVE Tried'
<1>1. run.at = "promote" /\ UNCHANGED promotion /\ call.at = "idle" /\ call.result = None
    BY NoCall DEF SelectWinner, RunAt, outside, Trying, Known, TaskInv
<1>2. CASE Throw
    <2>1. run'.at = "threw"
        BY <1>2, LeaveFor DEF Throw, RunStages
    <2> QED BY <1>1, <2>1, TriedElsewhere
<1>3. CASE Go("promoting")
    <2>1. run'.at = "promoting" /\ run'.n = 0
        BY <1>1, <1>3, TryingTypes, GoKeeps DEF RunStages, Trying, Known, Structure, Cursor
    <2>2. UNCHANGED <<fg, journal, call>>
        BY <1>1 DEF promotion
    <2>3. None \notin {"recovered", "conflict"}
        BY ResultAssumption DEF Results
    <2>4. Reasons'
        BY <1>1, <2>1, <2>2, <2>3, TryingFacts DEF Trying, Tried, Reasons
    <2>5. SecondAttempt'
        BY <2>1 DEF SecondAttempt
    <2>6. Unbroken'
        BY <1>1, <2>1, <2>2, <2>3, TryingFacts DEF Trying, Tried, Unbroken, NoAttempt
    <2> QED BY <2>4, <2>5, <2>6 DEF Tried
<1> QED BY <1>2, <1>3 DEF SelectWinner

\* An attempt begins.
LEMMA BeginTried == ASSUME Trying, BeginPromotion PROVE Tried'
<1>0. PICK c \in Candidates : c = run.c
    BY TryingTypes DEF Trying
<1>1. /\ run.at = "promoting" /\ Free /\ UNCHANGED graph /\ node[c].st = "winner" /\ PInv
      /\ run.n \in Nat /\ journal[c].status \in Statuses
    BY <1>0, TryingTypes DEF BeginPromotion, RunAt, Trying, Known, Journals
<1>2. CASE Throw /\ UNCHANGED promotion
    <2>1. run'.at = "threw"
        BY <1>2, LeaveFor DEF Throw, RunStages
    <2> QED BY <1>1, <1>2, <2>1, TriedElsewhere
<1>3. CASE Promote(c) /\ UNCHANGED run
    <2>1. /\ UNCHANGED <<journal, fg>> /\ call' # Idle
          /\ call'.at \in {"idle", "verify"} /\ ~call'.recovering
          /\ call'.result \in {None, "conflict"} \cup Final
          /\ call'.result = "conflict" => journal[c].status \in {"open", "needs_attention"}
        BY <1>1, <1>3, PromoteTried
    <2>2. None \notin {"recovered", "fault"}
        BY ResultAssumption DEF Results
    <2>3. Reasons'
        BY <1>1, <1>3, <2>1, <2>2 DEF Reasons, Final
    <2>4. SecondAttempt'
        BY <1>0, <1>1, <1>3, <2>1, TryingFacts
        DEF Trying, Tried, SecondAttempt, Refused, NoAttempt, UserEdited, Free
    <2>5. ASSUME crashes = 0, faults = 0 PROVE NoAttempt(c)
        BY <1>0, <1>1, <2>5, TryingTypes DEF Trying, Tried, Unbroken
    <2>6. Unbroken'
        BY <1>0, <1>1, <1>3, <2>1, <2>5, TryingFacts
        DEF Trying, Tried, Unbroken, NoAttempt, Drifted, Captured, Free, graph
    <2> QED BY <2>3, <2>4, <2>6 DEF Tried
<1> QED BY <1>0, <1>2, <1>3 DEF BeginPromotion

\* An attempt or a recovery goes on.
LEMMA PromotingTried == ASSUME Trying, Promoting PROVE Tried'
<1>0. PICK c \in Candidates : c = run.c
    BY TryingTypes DEF Trying
<1>1. /\ PromotionStep /\ UNCHANGED <<graph, run>> /\ PInv /\ faults \in Nat /\ run.n \in Nat
      /\ call.at # "idle" /\ call.c \in Candidates /\ CallMoves /\ ~Free
    BY StepOfCall, TryingTypes, IdleType DEF Promoting, process, Trying, Known, Free
<1>2. run.at \in {"promoting", "recovering"} => call.c = c
    BY <1>0, <1>1 DEF Trying, Known, TaskInv, Attempts
<1>3. /\ call' # Idle
      /\ call'.result = "fault" => faults' > 0
      /\ call'.result = "recovered" => call.recovering /\ journal'[call.c].status # "open"
      /\ call'.result = "conflict" =>
            /\ call.at = "open" /\ NoAttempt(call.c) /\ UNCHANGED <<journal, fg>>
            /\ \E p \in Paths : fg[p] # Base
      /\ call'.at = "open" => \A p \in Paths : fg'[p] = Base
      /\ call.at \in {"verify", "gate"} /\ Drifted =>
            /\ UNCHANGED <<journal, fg>> /\ call'.at \in {"gate", "idle"}
            /\ call'.result # "conflict"
    BY <1>1, CallTried
<1>4. Reasons'
    <2>1. run.at = "promoting" => ~call.recovering
        BY <1>1 DEF Trying, Tried, Reasons
    <2> QED BY <1>0, <1>1, <1>2, <1>3, <2>1 DEF Reasons, CallMoves
<1>5. ASSUME call'.result = "conflict"
      PROVE  UserEdited' /\ Drifted' /\ journal'[call.c].status = "none"
    <2>1. \A p \in Paths : fg[p] \in {Base, Edit}
        BY <1>3, <1>5 DEF Trying, Tried, Reasons
    <2>2. fg' = fg /\ \E p \in Paths : fg[p] = Edit /\ fg[p] # Base
        BY <1>3, <1>5, <2>1, PromotionAssumption
    <2> QED BY <1>3, <1>5, <2>2 DEF UserEdited, Drifted, Captured, NoAttempt
<1>6. SecondAttempt'
    BY <1>0, <1>1, <1>2, <1>3, <1>5, TryingFacts
    DEF Trying, Tried, SecondAttempt, Refused, NoAttempt, Free
<1>7. Unbroken'
    <2>1. SUFFICES ASSUME crashes' = 0, faults' = 0, task'.status # "terminal"
          PROVE  /\ \A d \in Candidates : ~NoAttempt(d)' =>
                    node'[d].st = "failed" \/ (run'.at = "promoting" /\ run'.c = d /\ ~Free')
                 /\ run'.at = "promoting" /\ call'.result = "conflict" =>
                        Drifted' /\ NoAttempt(run.c)'
                 /\ run'.at = "recovering" =>
                    run'.n = 0 /\ Drifted' /\ call'.at = "idle" /\ NoAttempt(run.c)'
                 /\ run'.at = "promoting" /\ run'.n > 0 =>
                    /\ Drifted' /\ NoAttempt(run.c)'
                    /\ call'.at \in {"idle", "verify", "gate"} /\ call'.result # "conflict"
        BY <1>1 DEF Unbroken, NoAttempt
    <2>2. crashes = 0 /\ faults = 0 /\ task.status # "terminal"
        BY <2>1, TryingFacts
    <2>3. run.at # "recovering"
        BY <1>1, <2>2 DEF Trying, Tried, Unbroken
    <2>4. ASSUME NEW d \in Candidates, ~NoAttempt(d)'
          PROVE  node'[d].st = "failed" \/ (run'.at = "promoting" /\ run'.c = d /\ ~Free')
        <3>1. CASE NoAttempt(d)
            <4>1. d = call.c /\ call.at = "open"
                BY <1>1, <2>4, <3>1 DEF CallMoves, NoAttempt
            <4>2. run.at = "promoting"
                BY <4>1 DEF Trying, Known, TaskInv, Attempts, Before
            <4> QED BY <1>0, <1>1, <1>2, <1>3, <4>1, <4>2 DEF Free
        <3>2. CASE ~NoAttempt(d)
            BY <1>0, <1>1, <1>3, <2>2, <3>2, TryingFacts DEF Trying, Tried, Unbroken, Free
        <3> QED BY <3>1, <3>2
    <2>5. ASSUME run'.at = "promoting", call'.result = "conflict"
          PROVE  Drifted' /\ journal'[run.c].status = "none"
        BY <1>0, <1>1, <1>2, <1>5, <2>5
    <2>6. ASSUME run'.at = "promoting", run'.n > 0
          PROVE  /\ Drifted' /\ journal'[run.c].status = "none"
                 /\ call'.at \in {"idle", "verify", "gate"} /\ call'.result # "conflict"
        <3>1. Drifted /\ NoAttempt(run.c) /\ call.at \in {"verify", "gate"}
            BY <1>1, <2>2, <2>6 DEF Trying, Tried, Unbroken
        <3>2. /\ UNCHANGED <<journal, fg>> /\ call'.at \in {"gate", "idle"}
              /\ call'.result # "conflict"
            BY <1>3, <3>1
        <3> QED BY <3>1, <3>2 DEF Drifted, Captured, NoAttempt
    <2> QED BY <1>1, <2>3, <2>4, <2>5, <2>6 DEF NoAttempt
<1> QED BY <1>4, <1>6, <1>7 DEF Tried

\* A recovery begins: of the winner, or of whatever is open before the task is.
LEMMA RecoveryTried == ASSUME Trying, BeginRecovery PROVE Tried'
<1>0. PICK c \in Candidates : c = run.c
    BY TryingTypes DEF Trying
<1>1. /\ UNCHANGED <<graph, run>> /\ PInv /\ Free /\ run.n \in Nat
      /\ run.at \in {"recovering", "down"}
    BY TryingTypes DEF BeginRecovery, process, RunAt, Trying, Known
<1>2. PICK d \in Candidates : Recover(d) /\ (run.at = "recovering" => d = c)
    BY <1>0 DEF BeginRecovery, RunAt
<1>3. /\ UNCHANGED fg /\ call'.at \in {"idle", "settle", "rollback"}
      /\ call'.result \in {None, "recovered"}
      /\ call'.result = "recovered" => journal'[d].status # "open"
      /\ journal[d].status = "open" \/ (UNCHANGED journal /\ call'.at = "idle")
    BY <1>1, <1>2, RecoverTried
<1>4. /\ \A e \in Candidates : e # d => journal'[e] = journal[e]
      /\ journal'[d].status = journal[d].status \/ journal'[d].status = "none"
    BY <1>1, <1>2, RecoverBegins
<1>5. None \notin {"fault"}
    BY ResultAssumption DEF Results
<1>6. Reasons'
    BY <1>0, <1>1, <1>2, <1>3, <1>5 DEF Reasons
<1>7. SecondAttempt'
    <2>1. ASSUME faults' = 0, run.n > 0, run.at = "recovering"
          PROVE  call'.at = "idle" /\ Refused(run.c)'
        <3>1. Refused(run.c) /\ journal[c].status # "open"
            BY <1>0, <2>1, TryingFacts DEF Trying, Tried, SecondAttempt, Refused, NoAttempt
        <3> QED BY <1>0, <1>1, <1>2, <1>3, <2>1, <3>1 DEF Refused, NoAttempt, UserEdited
    <2> QED BY <1>1, <2>1 DEF SecondAttempt
<1>8. Unbroken'
    <2>1. ASSUME crashes' = 0, faults' = 0, task'.status # "terminal"
          PROVE  /\ \A e \in Candidates : ~NoAttempt(e)' => node'[e].st = "failed"
                 /\ run.at = "recovering" =>
                    run.n = 0 /\ Drifted' /\ call'.at = "idle" /\ NoAttempt(run.c)'
        <3>1. crashes = 0 /\ faults = 0 /\ task.status # "terminal"
            BY <2>1, TryingFacts
        <3>2. ASSUME NEW e \in Candidates, ~NoAttempt(e)' PROVE node'[e].st = "failed"
            <4>1. ~NoAttempt(e)
                BY <1>4, <3>2 DEF NoAttempt
            <4> QED BY <1>1, <3>1, <4>1, TryingFacts DEF Trying, Tried, Unbroken
        <3>3. ASSUME run.at = "recovering"
              PROVE  run.n = 0 /\ Drifted' /\ call'.at = "idle" /\ NoAttempt(run.c)'
            <4>1. run.n = 0 /\ Drifted /\ NoAttempt(c)
                BY <1>0, <3>1, <3>3 DEF Trying, Tried, Unbroken
            <4> QED BY <1>0, <1>1, <1>2, <1>3, <3>3, <4>1 DEF Drifted, Captured, NoAttempt
        <3> QED BY <3>2, <3>3
    <2> QED BY <1>1, <2>1 DEF Unbroken
<1> QED BY <1>6, <1>7, <1>8 DEF Tried

\* A call ends with its process, with its caller, or for the host.
LEMMA CallOverTried == ASSUME Trying, HostRecovered \/ CrashTask PROVE Tried'
<1>1. call' = Idle /\ UNCHANGED <<fg, journal>> /\ run'.at = "down" /\ Idle.at = "idle"
      /\ Idle.result = None
    BY IdleType, DownType DEF HostRecovered, CrashTask, CallLost, process, RunAt
<1>2. None \notin {"recovered", "fault", "conflict"}
    BY ResultAssumption DEF Results
<1>3. Reasons' /\ SecondAttempt'
    BY <1>1, <1>2 DEF Reasons, SecondAttempt
<1>4. CASE CrashTask
    <2>1. crashes' # 0
        BY <1>4, TryingTypes DEF CrashTask, Crash, Trying
    <2> QED BY <1>3, <2>1 DEF Unbroken, Tried
<1>5. CASE HostRecovered
    <2>1. run.at = "down" /\ UNCHANGED graph
        BY <1>5 DEF HostRecovered, RunAt
    <2>2. Unbroken'
        BY <1>1, <2>1, TryingFacts DEF Trying, Tried, Unbroken, NoAttempt
    <2> QED BY <1>3, <2>2 DEF Tried
<1> QED BY <1>4, <1>5

\* The task takes a result.
LEMMA EndsTried == ASSUME Trying, PromotionEnds PROVE Tried'
<1>0. PICK c \in Candidates : c = run.c
    BY TryingTypes DEF Trying
<1>1. /\ run.at \in {"promoting", "recovering"} /\ call' = Idle
      /\ UNCHANGED <<fg, journal, failures>>
      /\ run.n \in Nat /\ run \in Runs /\ node \in [Candidates -> Nodes] /\ task.status = "running"
      /\ node[c].st = "winner" /\ call.result # None
    BY <1>0, TryingTypes, ResultAssumption DEF PromotionEnds, Trying, Known, Typed, GraphType,
       Ending, GivingUp, Results, Final
<1>2. Idle.at = "idle" /\ Idle.result = None /\ None \notin {"recovered", "fault", "conflict"}
    BY IdleType, ResultAssumption DEF Results
<1>3. call.at = "idle" /\ ~Free
    BY <1>1, <1>2 DEF Trying, Known, PInv, Shape, Free
<1>4. CASE call.result \in Ending /\ Finish(call.result) /\ Loop
    <2>1. run'.at = "loop" /\ task'.status = "terminal"
        BY <1>4, LeaveFor DEF Loop, RunStages, Finish, Trying, Known, Typed, GraphType, Tasks
    <2> QED BY <1>1, <1>2, <2>1 DEF Tried, Reasons, SecondAttempt, Unbroken
<1>5. CASE call.result \in GivingUp /\ Demoted /\ Leave("select")
    <2>1. run'.at = "select" /\ node'[c].st = "failed"
        BY <1>0, <1>1, <1>5, LeaveFor DEF RunStages, Demoted, SetStatus, Nodes
    <2>2. Unbroken'
        BY <1>0, <1>1, <2>1, TryingFacts DEF Trying, Tried, Unbroken, NoAttempt
    <2> QED BY <1>1, <1>2, <2>1, <2>2 DEF Tried, Reasons, SecondAttempt
<1>6. CASE call.result = "conflict" /\ Go("recovering") /\ UNCHANGED graph
    <2>1. run'.at = "recovering" /\ run'.c = c /\ run'.n = run.n
        BY <1>0, <1>1, <1>6, GoKeeps DEF RunStages
    <2>2. SecondAttempt'
        BY <1>0, <1>1, <1>2, <1>6, <2>1, TryingFacts
        DEF Trying, Tried, SecondAttempt, Refused, NoAttempt, UserEdited
    <2>3. Unbroken'
        BY <1>0, <1>1, <1>2, <1>6, <2>1, TryingFacts
        DEF Trying, Tried, Unbroken, NoAttempt, Drifted, Captured
    <2> QED BY <1>1, <1>2, <2>1, <2>2, <2>3 DEF Tried, Reasons
<1>7. CASE call.result = "recovered" /\ UNCHANGED graph
           /\ (Throw \/ run' = [run EXCEPT !.at = "promoting", !.n = 1])
    <2>1. run.at = "recovering" /\ journal[c].status # "open"
        BY <1>0, <1>1, <1>7 DEF Trying, Tried, Reasons
    <2>2. run'.at = "threw" \/ (run'.at = "promoting" /\ run'.n = 1 /\ run'.c = c)
        BY <1>0, <1>1, <1>7, LeaveFor DEF Throw, RunStages, Runs
    <2>3. Reasons' /\ SecondAttempt'
        BY <1>0, <1>1, <1>2, <2>1, <2>2 DEF Reasons, SecondAttempt, Refused, NoAttempt,
           UserEdited, Free
    <2>4. Unbroken'
        BY <1>0, <1>1, <1>2, <1>7, <2>1, <2>2, TryingFacts
        DEF Trying, Tried, Unbroken, NoAttempt, Drifted, Captured
    <2> QED BY <2>3, <2>4 DEF Tried
<1>8. CASE call.result = "fault" /\ Throw /\ UNCHANGED graph
    <2>1. run'.at = "threw" /\ faults' # 0
        BY <1>1, <1>8, LeaveFor DEF Throw, RunStages, Trying, Tried, Reasons, failures
    <2> QED BY <1>1, <1>2, <2>1 DEF Tried, Reasons, SecondAttempt, Unbroken
<1> QED BY <1>4, <1>5, <1>6, <1>7, <1>8 DEF PromotionEnds

\* An edit of the user keeps what drifted and what was edited.
LEMMA EditTried == ASSUME Trying, EditForeground PROVE Tried'
<1>0. PICK c \in Candidates : c = run.c
    BY TryingTypes DEF Trying
<1>1. /\ UNCHANGED <<graph, run, journal, call, failures>> /\ fg \in [Paths -> Contents]
      /\ \E p \in Paths : fg' = [fg EXCEPT ![p] = Edit]
    BY TryingTypes DEF EditForeground, UserEdit, process, Trying
<1>2. /\ (\A p \in Paths : fg[p] \in {Base, Edit}) => \A p \in Paths : fg'[p] \in {Base, Edit}
      /\ UserEdited' /\ Drifted'
    BY <1>1, PromotionAssumption DEF UserEdited, Drifted, Captured
<1>3. Reasons'
    BY <1>1, <1>2 DEF Trying, Tried, Reasons, failures
<1>4. SecondAttempt'
    BY <1>0, <1>1, <1>2 DEF Trying, Tried, SecondAttempt, Refused, NoAttempt, Free, failures
<1>5. Unbroken'
    BY <1>0, <1>1, <1>2 DEF Trying, Tried, Unbroken, NoAttempt, Free, failures, graph
<1> QED BY <1>3, <1>4, <1>5 DEF Tried

\* Every other step leaves the attempts alone.
LEMMA AttemptsTouched ==
    ASSUME Known, Moved
    PROVE  \/ /\ UNCHANGED promotion
              /\ \/ UNCHANGED run
                 \/ run'.at \notin {"promoting", "recovering"} /\ run.at # "promoting"
           \/ SelectWinner \/ BeginPromotion \/ Promoting \/ BeginRecovery \/ HostRecovered
           \/ CrashTask \/ PromotionEnds \/ EditForeground
<1>1. run' # run /\ run'.at \in {"promoting", "recovering"} => SelectWinner \/ PromotionEnds
    BY RunMoves
<1>2. ASSUME NEW c \in Candidates, Drive(c) PROVE UNCHANGED promotion /\ run.at # "promoting"
    BY <1>2 DEF Drive, AttachLease, BeginFork, ResumeDecision, PruneExhausted, Turn, TurnRefused,
       ReadTurn, PlanVerifier, ResumeVerifier, outside, Drives, Advances, Turning, Chosen, Running,
       RunAt, WorkerMissing
<1>3. ASSUME NEW c \in Candidates, CleanupNode(c) PROVE UNCHANGED promotion /\ run.at # "promoting"
    BY <1>3 DEF CleanupNode, outside, Cleaning, RunAt
<1>4. CASE \/ PlanTask \/ NothingToDrive \/ CreateRootSession \/ CaptureRoot \/ MaterializeRoot
           \/ RecordRoot \/ StartRoot \/ RecordRootRun \/ Observe \/ Decide \/ Prune
           \/ SuspendCandidate \/ SuspendTask \/ CommitBranch
    <2>1. UNCHANGED promotion
        BY <1>4 DEF PlanTask, NothingToDrive, CreateRootSession, CaptureRoot, MaterializeRoot,
           RecordRoot, StartRoot, RecordRootRun, Observe, Decide, Prune, SuspendCandidate,
           SuspendTask, CommitBranch, outside
    <2>2. run.at # "promoting"
        BY <1>4 DEF PlanTask, NothingToDrive, CreateRootSession, CaptureRoot, MaterializeRoot,
           RecordRoot, StartRoot, RecordRootRun, Observe, Decide, Prune, SuspendCandidate,
           SuspendTask, CommitBranch, Drives, Turning, Chosen, Running, RunAt, WorkerMissing
    <2> QED BY <1>1, <2>1, <2>2
<1>5. CASE \/ Forking \/ Forked \/ Provision \/ RunVerifier \/ SelectTarget \/ LettingGo
           \/ RecordReleased \/ CleanupGroup \/ CleanupRoot \/ Reopen \/ RunAgain
    <2>1. UNCHANGED promotion
        BY <1>5 DEF Forking, Forked, Provision, RunVerifier, SelectTarget, LettingGo, Release,
           Remove, Unreference, RecordReleased, CleanupGroup, CleanupRoot, Reopen, RunAgain, outside
    <2>2. run.at # "promoting"
        BY <1>5 DEF Forking, Forked, Provision, RunVerifier, SelectTarget, Selecting, Chosen,
           Running, LettingGo, Release, Remove, Unreference, RecordReleased, CleanupGroup,
           CleanupRoot, Cleaning, Reopen, RunAgain, RunAt
    <2> QED BY <1>1, <2>1, <2>2
<1> QED BY <1>1, <1>2, <1>3, <1>4, <1>5 DEF Moved, Step, LettingGo

\* The attempts stay explained.
LEMMA TriedStep == ASSUME Known, Tried, Moved PROVE Tried'
<1>1. Trying
    BY StructureStep DEF Trying
<1> QED BY <1>1, AttemptsTouched, TriedElsewhere, SelectTried, BeginTried, PromotingTried,
    RecoveryTried, CallOverTried, EndsTried, EditTried DEF Trying

-----------------------------------------------------------------------------
(***************************************************************************)
(* Why run() throws and a task is refused                                  *)
(***************************************************************************)
\* What a lost process may leave that a task cannot get over.
Stuck ==
    StuckGroup \/ StuckLease \/ StuckRelease \/ StuckSibling \/ StuckPromotion \/ UserEdited
\* What excuses a call that did not return.
Excused == faults > 0 \/ "failed" \in group \/ (crashes > 0 /\ Stuck)

\* A step of a task of which all is known, before which nothing had failed.
Going == Calm /\ Tried

\* A worker that is missing finds its workspace.
LEMMA WorkerLeased ==
    ASSUME Calm, NEW c \in Candidates, WorkerMissing(c), c = Root => task.rootSnap # 0
    PROVE  Attachable(c)
<1>1. /\ task.status = "running"
      /\ node[c].st \in Settling \cup {"provisioning", "active", "branching"}
    <2>1. CASE Turning(c) \/ (Chosen(c) /\ node[c].st = "branching")
        BY <2>1, MissingFacts DEF Turning, Calm
    <2>2. CASE run.at \in {"verify", "promote"} /\ run.c = c
        BY <2>2, MissingFacts DEF Calm, Known, TaskInv, Here, Graph, Settling
    <2> QED BY <2>1, <2>2 DEF WorkerMissing
<1>2. CASE c = Root
    <2>1. RootLease = "ready"
        BY <1>1, <1>2 DEF Calm, RootLent, Settling
    <2>2. ~root.released
        BY <2>1 DEF Calm, Known, Structure, RootLeases
    <2> QED BY <1>2, <2>1, <2>2 DEF Attachable, SnapshotKept, LeaseReady, LeaseStatus
<1>3. CASE c # Root
    <2>1. c \in Children
        BY <1>3, Numbers
    <2>2. node[c].st # "provisioning" /\ node[c].st # "branching"
        BY <2>1, AllProvisioned DEF Provisioned, Calm, Known, Structure, Lineage
    <2>3. lease[c] = "ready"
        BY <1>1, <2>1, <2>2 DEF Calm, Lent, Live
    <2>4. ~snapReleased
        BY <2>1, <2>3 DEF Calm, Known, Structure, Leases
    <2> QED BY <1>3, <2>3, <2>4 DEF Attachable, SnapshotKept, LeaseReady, LeaseStatus
<1> QED BY <1>2, <1>3

\* Only a group that an earlier process left half made has no snapshot to fork from.
LEMMA ForkRefused ==
    ASSUME Calm, NEW c \in Candidates, BeginFork(c), snapReleased
    PROVE  crashes > 0 /\ StuckGroup
<1>1. crashes \in Nat /\ group # {} /\ \A k \in Children : lease[k] # "ready"
    BY FailuresAssumption DEF Calm, Known, FailuresTypeOK, Structure, Leases
<1>2. c = Root
    <2>1. ASSUME c # Root PROVE FALSE
        <3>1. c \in Children /\ WorkerMissing(c) /\ node[c].settled = "no"
            BY <2>1, Numbers DEF BeginFork
        <3>2. node[c].st = "active" /\ task.status = "running"
            BY <2>1, <3>1, MissingFacts DEF Calm
        <3> QED BY <1>1, <3>1, <3>2 DEF Calm, Lent, Live
    <2> QED BY <2>1
<1>3. /\ run.at = "loop" /\ task.status = "running" /\ Provisioned
    <2>1. Chosen(Root) /\ ~node[Root].pending /\ node[Root].st = "branch_origin"
        BY <1>2 DEF BeginFork
    <2> QED BY <2>1 DEF Chosen, Running, RunAt, Drivable, Provisioned, Settling
<1>4. PICK k \in Children : TRUE
    BY Facts DEF Calm, Known
<1>5. ~Dispatchable
    BY <1>1, <1>3, <1>4 DEF Calm, Lent
<1>6. crashes # 0
    BY <1>3, <1>5 DEF Calm, Fresh, Known, Structure, Leases, Rejecting
<1> QED BY <1>1, <1>5, <1>6 DEF StuckGroup, Dispatchable

\* A promotion only begins with the winner's workspace.
LEMMA WinnerLeased ==
    ASSUME Calm, run.at = "promoting"
    PROVE  LeaseReady(run.c)
<1>0. PICK c \in Candidates : c = run.c
    BY DEF Calm, Known, Typed, RunType, Runs
<1>1. task.status = "running" /\ node[c].st = "winner" /\ c \in workers
    BY <1>0, Numbers DEF Calm, Known, TaskInv, Here, UnderWay, AboutCandidate, Graph, Typed, RunType
<1>2. CASE c = Root
    BY <1>0, <1>1, <1>2 DEF Calm, RootLent, Known, Structure, Staffed, LeaseReady, LeaseStatus
<1>3. CASE c # Root
    BY <1>0, <1>1, <1>3, Numbers DEF Calm, Lent, Live, Settling, LeaseReady, LeaseStatus
<1> QED BY <1>2, <1>3

\* A second attempt is only made after a crash, and fails when it is refused.
LEMMA RetryRefused ==
    ASSUME Going, run.at \in {"promoting", "recovering"},
           call.result = "fault" \/ (call.result = "recovered" /\ run.n > 0)
    PROVE  crashes > 0 /\ (StuckPromotion \/ UserEdited)
<1>0. PICK c \in Candidates : c = run.c
    BY DEF Going, Calm, Known, Typed, RunType, Runs
<1>1. faults = 0 /\ crashes \in Nat /\ task.status = "running"
    BY FailuresAssumption
    DEF Going, Calm, Smooth, Known, FailuresTypeOK, TaskInv, Here, UnderWay, AboutCandidate
<1>2. call.result = "recovered" /\ run.n > 0 /\ run.at = "recovering"
    BY <1>1 DEF Going, Tried, Reasons
<1>3. Refused(c)
    BY <1>0, <1>1, <1>2 DEF Going, Tried, SecondAttempt
<1>4. run.n \in Nat
    BY Numbers DEF Going, Calm, Known, Typed, RunType, Runs
<1>5. crashes # 0
    BY <1>1, <1>2, <1>4 DEF Going, Tried, Unbroken
<1> QED BY <1>1, <1>3, <1>5 DEF Refused, StuckPromotion

\* A node whose snapshot is gone was released by a process that was lost before it
\* recorded that.
LEMMA NodeRefused ==
    ASSUME Calm, NEW c \in Candidates, CleanupNode(c), c \notin workers, ~Attachable(c)
    PROVE  crashes > 0 /\ StuckRelease
<1>1. Cleaning /\ ~NothingToRelease(c) /\ ~SnapshotKept(c)
    BY DEF CleanupNode, ToRelease
<1>2. StuckRelease
    BY <1>1 DEF StuckRelease, NothingToRelease
<1>3. crashes \in Nat
    BY FailuresAssumption DEF Calm, Known, FailuresTypeOK
<1>4. crashes # 0
    <2>1. CASE c = Root
        BY <1>1, <2>1 DEF NothingToRelease, Calm, Known, Structure, Staffed
    <2>2. CASE c # Root
        <3>1. c \in Children /\ ~Provisioned
            BY <1>1, <2>2, Numbers, CleaningFacts DEF Calm
        <3>2. Started(c)
            BY <1>1, <3>1 DEF NothingToRelease, Started, Provisioned
        <3> QED BY <3>1, <3>2 DEF Calm, Known, Structure, Staffed
    <2> QED BY <2>1, <2>2
<1> QED BY <1>2, <1>3, <1>4

\* When no node is left to release, the group's snapshot can go, unless the process was
\* lost while it released one.
LEMMA GroupLetGo ==
    ASSUME Calm, Cleaning, ToRelease = {}, task.branched
    PROVE  Unreferenced \/ (crashes > 0 /\ \E k \in Children : lease[k] = "releasing")
<1> SUFFICES ASSUME NEW k \in Children
    PROVE  lease[k] \in {"none", "released"} \/ (crashes > 0 /\ lease[k] = "releasing")
    BY DEF Unreferenced
<1>1. /\ lease[k] \in LeaseStatuses /\ lease[k] # "orphaned"
      /\ lease[k] = "releasing" => crashes > 0
    <2>1. fork.at # "undo" /\ run.at # "removing"
        BY DEF Cleaning, RunAt, Calm, Known, Structure, Leases
    <2> QED BY <2>1, Facts DEF Calm, Known, Intact
<1>2. lease[k] # "ready"
    BY PassedOver, Numbers DEF Quiet, LeaseReady, LeaseStatus
<1>3. lease[k] # "creating"
    BY CleaningFacts, BranchOver, DispatchableLeases DEF Calm, Known, Structure
<1> QED BY <1>1, <1>2, <1>3 DEF LeaseStatuses

\* And then the root's.
LEMMA RootLetGo ==
    ASSUME Calm, Cleaning, run.n = ChildCount + 2 \/ ToRelease = {}
    PROVE  task.rootSnap = 0 \/ RootLease = "released" \/ (crashes > 0 /\ RootLease = "releasing")
<1>1. Quiet(Root)
    <2>1. CASE ToRelease = {}
        BY <2>1, PassedOver, Numbers
    <2>2. CASE run.n = ChildCount + 2
        <3>1. run.n # 0 /\ Root < run.n
            BY <2>2, Numbers DEF Root
        <3>2. run.at = "cleanup"
            BY <3>1 DEF Cleaning, RunAt, Calm, Known, Structure, Cursor
        <3> QED BY <3>1, <3>2, CleaningFacts, Numbers DEF Calm, Passed, Quiet
    <2> QED BY <2>1, <2>2
<1>2. run.at # "removing"
    BY DEF Cleaning, RunAt
<1> QED BY <1>1, <1>2 DEF Quiet, LeaseReady, LeaseStatus, Calm, RootLent

\* A reopened task is refused for a group that is half made.
LEMMA ReopenRefused ==
    ASSUME Calm, RunAt("down"), task.status # "planned", ~Reconciled
    PROVE  crashes > 0 /\ StuckGroup
<1>1. crashes \in Nat /\ task.branched
    BY FailuresAssumption DEF Calm, Known, FailuresTypeOK, Reconciled
<1>2. crashes # 0
    BY DEF RunAt, Calm, Known, Structure, Staffed
<1>3. ASSUME NEW k \in Children, node[k].st # "provisioning"
      PROVE  {"session_forked", "workspace_ready", "run_accepted"} \subseteq child[k]
    <2>1. Started(k)
        BY <1>1, <1>3 DEF Started, Calm, Known, Structure, Lineage
    <2> QED BY <2>1 DEF Calm, Known, TaskInv, Branch, Dispatchable, GInv, ReadyIsComplete
<1> QED BY <1>1, <1>2, <1>3 DEF Reconciled, StuckGroup

\* Which step makes run() throw, or refuses the task.
LEMMA WhoThrows ==
    ASSUME Known, Moved, run' # run, run'.at \in {"threw", "refused"}
    PROVE  \/ Reopen /\ task.status # "planned" /\ ~Reconciled
           \/ \E c \in Candidates :
                \/ AttachLease(c) /\ ~Attachable(c)
                \/ BeginFork(c) /\ snapReleased
                \/ CleanupNode(c) /\ c \notin workers /\ ~Attachable(c)
           \/ Forked /\ fork.result # "ok"
           \/ SelectWinner /\ task.winner \notin {None, run.c}
           \/ BeginPromotion /\ ~LeaseReady(run.c)
           \/ PromotionEnds /\ (call.result = "fault" \/ (call.result = "recovered" /\ run.n > 0))
           \/ CleanupGroup /\ ~snapReleased /\ ~Unreferenced
           \/ CleanupRoot /\ task.rootSnap # 0 /\ RootLease # "released"
<1>1. run \in Runs
    BY DEF Known, Typed, RunType
<1>2. ASSUME NEW c \in Candidates, Drive(c), ~BeginFork(c), ~AttachLease(c)
      PROVE  run'.at \notin {"threw", "refused"}
    <2>1. \/ run' = [run EXCEPT !.at = "observe", !.c = c, !.first = RunAt("turn")]
          \/ \E stage \in {"loop", "select"} : Leave(stage)
          \/ \E stage \in {"prune", "suspend", "observe", "verify"} : GoFor(stage, c)
          \/ UNCHANGED run
        <3>1. CASE ResumeDecision(c) \/ PruneExhausted(c) \/ Turn(c)
            BY <3>1 DEF Leave, ResumeDecision, PruneExhausted, Turn, After, Loop
        <3>2. CASE TurnRefused(c) \/ ReadTurn(c) \/ PlanVerifier(c) \/ ResumeVerifier(c)
            BY <3>2 DEF TurnRefused, ReadTurn, PlanVerifier, ResumeVerifier
        <3> QED BY <1>2, <3>1, <3>2 DEF Drive
    <2>2. CASE run' = [run EXCEPT !.at = "observe", !.c = c, !.first = RunAt("turn")]
        BY <1>1, <2>2 DEF Runs
    <2>3. CASE \/ \E stage \in {"loop", "select"} : Leave(stage)
               \/ \E stage \in {"prune", "suspend", "observe", "verify"} : GoFor(stage, c)
        BY <2>3, LeaveFor, GoForAt DEF RunStages
    <2> QED BY <2>1, <2>2, <2>3 DEF Known
<1>3. ASSUME NEW c \in Candidates, AttachLease(c) PROVE ~Attachable(c)
    BY <1>3 DEF AttachLease
<1>4. ASSUME NEW c \in Candidates, BeginFork(c) PROVE snapReleased
    BY <1>4, GoForAt DEF BeginFork, RunStages
<1>5. ASSUME NEW c \in Candidates, CleanupNode(c) PROVE c \notin workers /\ ~Attachable(c)
    BY <1>5 DEF CleanupNode
<1>6. ASSUME Reopen PROVE task.status # "planned" /\ ~Reconciled
    BY <1>6, LeaveFor DEF Reopen, RunStages
<1>7. ASSUME Forked PROVE fork.result # "ok"
    BY <1>1, <1>7, LeaveFor, GoKeeps DEF Forked, ForkSucceeded, Loop, RunStages
<1>8. ASSUME SelectWinner PROVE task.winner \notin {None, run.c}
    BY <1>1, <1>8, GoKeeps DEF SelectWinner, RunStages
<1>9. ASSUME BeginPromotion PROVE ~LeaseReady(run.c)
    BY <1>9 DEF BeginPromotion
<1>10. ASSUME PromotionEnds
       PROVE  call.result = "fault" \/ (call.result = "recovered" /\ run.n > 0)
    <2>1. \/ Leave("loop") \/ Leave("select") \/ Go("recovering")
          \/ run' = [run EXCEPT !.at = "promoting", !.n = 1]
          \/ call.result = "fault" \/ (call.result = "recovered" /\ run.n > 0)
        BY <1>10 DEF PromotionEnds, Loop, Retried
    <2> QED BY <1>1, <2>1, LeaveFor, GoKeeps DEF RunStages, Runs
<1>11. ASSUME CleanupGroup PROVE ~snapReleased /\ ~Unreferenced
    BY <1>11, StageType DEF CleanupGroup, RunStages, Runs
<1>12. ASSUME CleanupRoot PROVE task.rootSnap # 0 /\ RootLease # "released"
    BY <1>12, LeaveFor DEF CleanupRoot, RunStages
<1>13. ~(\/ CaptureRoot \/ MaterializeRoot \/ RecordRoot \/ StartRoot \/ RecordRootRun \/ Observe
         \/ Decide \/ SuspendCandidate \/ SuspendTask \/ RunAgain)
    <2>1. ASSUME \/ CaptureRoot \/ MaterializeRoot \/ RecordRoot \/ StartRoot \/ RecordRootRun
                 \/ Observe \/ Decide \/ SuspendCandidate \/ SuspendTask \/ RunAgain
          PROVE  FALSE
        <3>1. \/ \E stage \in {"materializeRoot", "recordRoot", "loop", "suspended", "select"} :
                    Leave(stage)
              \/ GoFor("prune", run.c) \/ Go("decide")
              \/ run' = [run EXCEPT !.at = "turn", !.c = Root, !.first = TRUE]
              \/ run.at = "observe" /\ run' = [run EXCEPT !.first = FALSE]
            BY <2>1 DEF CaptureRoot, MaterializeRoot, RecordRoot, StartRoot, RecordRootRun, Observe,
               Decide, SuspendCandidate, SuspendTask, RunAgain, After, Loop, RunAt
        <3> QED BY <1>1, <3>1, LeaveFor, GoForAt, GoKeeps DEF RunStages, Runs
    <2> QED BY <2>1
<1>14. ~(\/ Provision \/ RunVerifier \/ SelectTarget \/ Prune \/ LettingGo \/ RecordReleased
         \/ CrashTask)
    <2>1. ASSUME \/ Provision \/ RunVerifier \/ SelectTarget \/ Prune \/ LettingGo
                 \/ RecordReleased \/ CrashTask
          PROVE  FALSE
        <3>1. \/ \E stage \in {"loop", "down"} : Leave(stage)
              \/ \E stage \in {"provision", "release", "removing", "unreference", "released",
                               "cleanup"} : Go(stage)
              \/ \E c \in Candidates : GoFor("promote", c)
              \/ run' = Down
            BY <2>1 DEF Provision, RunVerifier, SelectTarget, Loop, Targets, Prune, LettingGo,
               Release, Remove, Unreference, RecordReleased, CrashTask
        <3> QED BY <1>1, <3>1, LeaveFor, GoForAt, GoKeeps, DownType DEF RunStages
    <2> QED BY <2>1
<1>15. ~(\/ PlanTask \/ NothingToDrive \/ CreateRootSession \/ CommitBranch \/ Forking \/ Promoting
         \/ HostRecovered \/ BeginRecovery \/ EditForeground)
    BY DEF PlanTask, NothingToDrive, CreateRootSession, CommitBranch, Forking, Promoting,
       HostRecovered, BeginRecovery, EditForeground, process
<1> QED BY <1>2, <1>3, <1>4, <1>5, <1>6, <1>7, <1>8, <1>9, <1>10, <1>11, <1>12, <1>13, <1>14, <1>15
    DEF Moved, Step, LettingGo

\* What follows a call that has come back: it is made again, the process is lost, or the
\* user goes on editing.
LEMMA AtRest ==
    ASSUME Known, Moved, run.at \in {"threw", "refused", "returned"}
    PROVE  RunAgain \/ CrashTask \/ EditForeground
<1>1. call.at = "idle"
    BY NoCall DEF Known, TaskInv
<1>2. ~Promoting
    BY <1>1, StepOfCall DEF Promoting, Known, PInv
<1>3. ~\E c \in Candidates : Drive(c) \/ CleanupNode(c)
    BY DEF Drive, AttachLease, BeginFork, ResumeDecision, PruneExhausted, Turn, TurnRefused,
       ReadTurn, PlanVerifier, ResumeVerifier, WorkerMissing, Turning, Drives, Advances, Chosen,
       Running, RunAt, CleanupNode, Cleaning
<1>4. ~(\/ PlanTask \/ NothingToDrive \/ CreateRootSession \/ CaptureRoot \/ MaterializeRoot
        \/ RecordRoot \/ StartRoot \/ RecordRootRun \/ Observe \/ Decide \/ Prune
        \/ SuspendCandidate \/ SuspendTask \/ CommitBranch \/ Forking \/ Forked \/ Provision)
    BY DEF PlanTask, NothingToDrive, CreateRootSession, CaptureRoot, MaterializeRoot, RecordRoot,
       StartRoot, RecordRootRun, Observe, Decide, Prune, SuspendCandidate, SuspendTask,
       CommitBranch, Forking, Forked, Provision, WorkerMissing, Turning, Drives, Chosen, Running,
       RunAt
<1>5. ~(\/ RunVerifier \/ SelectTarget \/ SelectWinner \/ BeginPromotion \/ BeginRecovery
        \/ HostRecovered \/ PromotionEnds \/ LettingGo \/ RecordReleased \/ CleanupGroup
        \/ CleanupRoot \/ Reopen)
    BY DEF RunVerifier, SelectTarget, SelectWinner, BeginPromotion, BeginRecovery, HostRecovered,
       PromotionEnds, LettingGo, Release, Remove, Unreference, RecordReleased, CleanupGroup,
       CleanupRoot, Reopen, Selecting, Cleaning, Chosen, Running, RunAt
<1> QED BY <1>2, <1>3, <1>4, <1>5 DEF Moved, Step, LettingGo

\* A call returns when everything is released.
LEMMA ReturnsClean ==
    ASSUME Known, CleanupRoot, run'.at = "returned"
    PROVE  CleanedUp'
<1>1. task.rootSnap = 0 \/ root.released \/ RootLease = "released"
    BY LeaveFor DEF CleanupRoot, Throw, RunStages
<1>2. task.rootSnap # 0 => RootLease = "released"
    BY <1>1 DEF Known, Structure, RootLeases
<1>3. UNCHANGED <<task, lease, snapReleased>> /\ root'.leases = root.leases
    BY DEF CleanupRoot, graph, continuation, Known, Typed, RootType, Roots
<1>4. CASE run.n = ChildCount + 2
    <2>1. run.n # 0
        BY <1>4, Numbers
    <2>2. snapReleased
        BY <1>4, <2>1 DEF CleanupRoot, Cleaning, RunAt, Known, Structure, Cursor
    <2>3. \A k \in Children : lease[k] \in {"none", "released"}
        BY <2>2 DEF Known, Structure, Leases
    <2> QED BY <1>2, <1>3, <2>2, <2>3 DEF CleanedUp, RootLease
<1>5. CASE ~task.branched
    <2>1. group = {}
        BY <1>5 DEF Known, TaskInv, Branch
    <2>2. \A k \in Children : lease[k] = "none"
        BY <2>1 DEF Known, Structure, Leases
    <2> QED BY <1>2, <1>3, <1>5, <2>2 DEF CleanedUp, RootLease
<1> QED BY <1>4, <1>5 DEF CleanupRoot

\* What throws, or refuses the task, has left what excuses it.
LEMMA ThrowsExcused ==
    ASSUME Going, run' # run, run'.at \in {"threw", "refused"}
    PROVE  crashes' > 0 /\ Stuck'
<1>0. crashes > 0 => crashes' > 0
    BY DEF Going, Calm, Grows
<1>1. CASE Reopen /\ task.status # "planned" /\ ~Reconciled
    BY <1>0, <1>1, ReopenRefused DEF Going, Reopen, outside, continuation, Stuck, StuckGroup
<1>2. ASSUME NEW c \in Candidates, AttachLease(c), ~Attachable(c) PROVE FALSE
    BY <1>2, WorkerLeased DEF AttachLease, Going
<1>3. ASSUME NEW c \in Candidates, BeginFork(c), snapReleased PROVE crashes' > 0 /\ Stuck'
    <2>1. crashes > 0 /\ StuckGroup /\ UNCHANGED continuation
        BY <1>3, ForkRefused DEF BeginFork, Going
    <2> QED BY <1>0, <2>1 DEF continuation, Stuck, StuckGroup
<1>4. ASSUME NEW c \in Candidates, CleanupNode(c), c \notin workers, ~Attachable(c)
      PROVE  crashes' > 0 /\ Stuck'
    <2>1. crashes > 0 /\ StuckRelease /\ UNCHANGED <<task, node, root, snapReleased>>
        BY <1>4, NodeRefused DEF CleanupNode, Going, graph, outside, continuation
    <2>2. StuckRelease'
        BY <2>1 DEF StuckRelease, NothingToRelease, SnapshotKept
    <2> QED BY <1>0, <2>1, <2>2 DEF Stuck
<1>5. CASE Forked /\ fork.result # "ok"
    <2>1. fork.result \in {"error", "rejected"} /\ fork.at = "idle"
        BY <1>5, Facts DEF Forked, ForkAt, Going, Calm, Known, Forks
    <2>2. fork.result = "error"
        BY <2>1 DEF Going, Calm, Smooth, Known, Structure, Leases
    <2>3. crashes > 0 /\ (StuckGroup \/ StuckSibling \/ LeftReleasing)
        BY <2>2 DEF Going, Calm, Rebuilt
    <2>4. UNCHANGED <<group, lease, node>>
        BY <1>5 DEF Forked, graph
    <2> QED BY <1>0, <2>3, <2>4 DEF Stuck, StuckGroup, StuckLease, StuckSibling, LeftReleasing
<1>6. ~(SelectWinner /\ task.winner \notin {None, run.c})
    BY DEF SelectWinner, RunAt, Going, Calm, Known, Structure, InOrder
<1>7. ~(BeginPromotion /\ ~LeaseReady(run.c))
    BY WinnerLeased DEF BeginPromotion, RunAt, Going
<1>8. CASE PromotionEnds /\ (call.result = "fault" \/ (call.result = "recovered" /\ run.n > 0))
    <2>1. crashes > 0 /\ (StuckPromotion \/ UserEdited) /\ UNCHANGED <<journal, fg>>
        BY <1>8, RetryRefused DEF PromotionEnds
    <2> QED BY <1>0, <2>1 DEF Stuck, StuckPromotion, UserEdited
<1>9. CASE CleanupGroup /\ ~snapReleased /\ ~Unreferenced
    <2>1. crashes > 0 /\ (\E k \in Children : lease[k] = "releasing") /\ UNCHANGED lease
        BY <1>9, GroupLetGo DEF CleanupGroup, Going
    <2> QED BY <1>0, <2>1 DEF Stuck, StuckLease
<1>10. CASE CleanupRoot /\ task.rootSnap # 0 /\ RootLease # "released"
    <2>1. crashes > 0 /\ RootLease = "releasing" /\ UNCHANGED <<task, root>>
        BY <1>10, RootLetGo, LeaveFor DEF CleanupRoot, Going, graph, Throw, RunStages, Calm, Known,
           Structure, RootLeases
    <2> QED BY <1>0, <1>10, <2>1 DEF Stuck, StuckLease, RootLease
<1> QED BY <1>1, <1>2, <1>3, <1>4, <1>5, <1>6, <1>7, <1>8, <1>9, <1>10, WhoThrows
    DEF Going, Calm

\* Every step of a task leaves the ends of its calls accounted for.
LEMMA EndsStep ==
    ASSUME Known, Kepts, Tried, EndsAreAccountedFor, Moved
    PROVE  EndsAreAccountedFor'
<1>1. Grows /\ Structure' /\ Kepts' /\ faults' \in Nat
    <2>1. faults' \in Nat
        BY StepsFail, FailuresAssumption
        DEF Known, Moved, FailuresTypeOK, Counted, Fault, Crash, failures
    <2> QED BY <2>1, StructureStep, KeptsStep
<1>2. ASSUME run'.at = "returned" PROVE CleanedUp'
    <2>1. CASE run' # run
        BY <1>2, <2>1, RunMoves, ReturnsClean
    <2>2. CASE run' = run
        <3>1. EditForeground
            BY <1>2, <2>2, AtRest, LeaveFor, DownType DEF RunAgain, Loop, CrashTask, RunStages
        <3>2. CleanedUp
            BY <1>2, <2>2 DEF EndsAreAccountedFor, RunAt
        <3> QED BY <3>1, <3>2 DEF EditForeground, graph, continuation, CleanedUp, RootLease
    <2> QED BY <2>1, <2>2
<1>3. ASSUME run'.at \in {"threw", "refused"} PROVE Excused'
    <2>1. CASE ~Smooth'
        BY <1>1, <2>1 DEF Smooth, Excused
    <2>2. CASE Smooth' /\ run' # run
        <3>1. Typed' /\ TaskInv' /\ GInv'
            BY TaskSteps, PartsOfSteps DEF Known, Moved
        <3>2. Smooth /\ UNCHANGED faults
            BY <1>1, <2>2 DEF Smooth, Grows
        <3>3. Going
            BY <1>1, <3>1, <3>2, <2>2 DEF Going, Calm, Kepts
        <3> QED BY <1>3, <2>2, <3>3, ThrowsExcused DEF Excused
    <2>3. CASE Smooth' /\ run' = run
        <3>1. EditForeground
            BY <1>3, <2>3, AtRest, LeaveFor, DownType DEF RunAgain, Loop, CrashTask, RunStages
        <3>2. Excused
            BY <1>3, <2>3 DEF EndsAreAccountedFor, Excused, Stuck, UserEdited
        <3>3. /\ UNCHANGED <<graph, root, continuation, journal, failures>>
              /\ fg \in [Paths -> Contents] /\ \E p \in Paths : fg' = [fg EXCEPT ![p] = Edit]
            BY <3>1, TryingTypes DEF EditForeground, UserEdit
        <3>4. UserEdited'
            BY <3>3 DEF UserEdited
        <3> QED BY <3>2, <3>3, <3>4
            DEF Excused, Stuck, StuckLease, RootLease, graph, continuation, failures
    <2> QED BY <2>1, <2>2, <2>3
<1> QED BY <1>2, <1>3 DEF EndsAreAccountedFor, RunAt, Excused, Stuck, UserEdited

-----------------------------------------------------------------------------
(***************************************************************************)
(* The ends of calls, for the whole host                                   *)
(***************************************************************************)
\* The layers the theorem rests on, and what it states: inductive together with HInv.
EInv == Structure /\ Kepts /\ Tried /\ EndsAreAccountedFor

\* Nothing is recorded, lent or tried when a task has not been planned.
LEMMA EndsInitial == HostInit => EInv
<1> SUFFICES ASSUME HostInit PROVE EInv
    OBVIOUS
<1>1. /\ task.status = "planned" /\ ~task.branched /\ task.rootSnap = 0 /\ task.winner = None
      /\ workers = {} /\ crashes = 0 /\ faults = 0 /\ run = Down
    BY DEF HostInit, Init, FailuresInit
<1>2. /\ Down.at = "down" /\ Down.c = Root /\ Down.n = 0
      /\ call = Idle /\ Idle.at = "idle" /\ Idle.result = None
    BY DownType, IdleType DEF HostInit, Init, PromotionInit
<1>3. \A c \in Candidates : node[c].st = "absent" /\ ~node[c].pending /\ ~node[c].released
    BY DEF HostInit, Init, Node
<1>4. /\ fork = NoFork /\ NoFork.at = "idle" /\ NoFork.held = {} /\ NoFork.result = "none"
      /\ group = {} /\ ~snapReleased
    BY DEF HostInit, Init, GroupInit, NoFork
<1>5. \A k \in Children : child[k] = {} /\ lease[k] = "none"
    BY DEF HostInit, Init, GroupInit
<1>6. root.leases = << >> /\ ~root.released
    BY DEF HostInit, Init
<1>7. /\ \A c \in Candidates : journal[c].status = "none"
      /\ None \notin {"fault", "recovered", "conflict"}
    BY ResultAssumption DEF HostInit, Init, PromotionInit, NoJournal, Results
<1>8. ~Provisioned
    BY <1>3, Numbers DEF Provisioned
<1>9. Structure
    <2>1. Staffed
        BY <1>1, <1>2, <1>3, Numbers DEF Staffed, Driven, Started
    <2>2. Lineage
        BY <1>1, <1>2, <1>3, <1>8, Numbers DEF Lineage, Settling
    <2>3. InOrder /\ Cursor
        BY <1>1, <1>2 DEF InOrder, Cursor, Driven
    <2>4. Leases
        BY <1>4, <1>5 DEF Leases, Driving, HasSession, HasLease
    <2>5. RootLeases
        BY <1>1, <1>2, <1>6 DEF RootLeases
    <2> QED BY <2>1, <2>2, <2>3, <2>4, <2>5 DEF Structure
<1>10. Kepts
    <2>1. Intact /\ Lent /\ RootLent
        BY <1>1, <1>5 DEF Intact, Lent, RootLent
    <2>2. GivenBack /\ Passed
        BY <1>1, <1>2, <1>3 DEF GivenBack, Passed
    <2>3. Rebuilt /\ Fresh
        BY <1>1, <1>2, <1>4, <1>5 DEF Rebuilt, Fresh
    <2> QED BY <2>1, <2>2, <2>3 DEF Kepts
<1>11. Tried
    BY <1>1, <1>2, <1>7 DEF Tried, Reasons, SecondAttempt, Unbroken, NoAttempt
<1>12. EndsAreAccountedFor
    BY <1>1, <1>2 DEF EndsAreAccountedFor, RunAt
<1> QED BY <1>9, <1>10, <1>11, <1>12 DEF EInv

\* EInv speaks of nothing but the task.
LEMMA EndsUntouched == ASSUME EInv, UNCHANGED vars PROVE EInv'
<1>1. UNCHANGED <<graph, process, lane, root, continuation, promotion, failures>>
    BY DEF vars, outside
<1>2. UNCHANGED <<task, node, run, workers, lane, root, faults, crashes>>
    BY <1>1 DEF graph, process, failures
<1>3. UNCHANGED <<group, child, frozen, session, lease, snapReleased, runs, fork>>
    BY <1>1 DEF continuation
<1>4. UNCHANGED <<fg, journal, copies, manifest, call>>
    BY <1>1 DEF promotion
<1>5. Structure'
    BY <1>2, <1>3 DEF EInv, Structure, Staffed, Lineage, InOrder, Cursor, Leases, RootLeases,
       RootLease, LeaseStatus, Driven, Settling, Provisioned, Started, Dispatchable, Driving,
       HasSession, HasLease
<1>6. Kepts'
    BY <1>2, <1>3 DEF EInv, Kepts, Smooth, Intact, Lent, RootLent, GivenBack, Rebuilt, Fresh,
       Passed, Live, LeaseReleased, LeaseReady, LeaseStatus, RootLease, Settling, Provisioned,
       Dispatchable, StuckGroup, StuckSibling, LeftReleasing, Driving, HasSession, HasLease,
       Rejecting
<1>7. Tried'
    BY <1>2, <1>4 DEF EInv, Tried, Reasons, SecondAttempt, Unbroken, NoAttempt, Refused, UserEdited,
       Free, Drifted, Captured
<1>8. EndsAreAccountedFor'
    BY <1>2, <1>3, <1>4 DEF EInv, EndsAreAccountedFor, RunAt, CleanedUp, RootLease, StuckGroup,
       StuckLease, StuckRelease, StuckSibling, StuckPromotion, NothingToRelease, SnapshotKept
<1> QED BY <1>5, <1>6, <1>7, <1>8 DEF EInv

\* The layers are kept by every step of the host that runs the task.
LEMMA EndsKeep ==
    ASSUME HInv, FailuresTypeOK, mode = "task" => EInv, [HostNext]_hostVars
    PROVE  mode' = "task" => EInv'
<1> SUFFICES ASSUME mode' = "task" PROVE EInv'
    OBVIOUS
<1>1. CASE UNCHANGED hostVars
    BY <1>1, EndsUntouched DEF hostVars
<1>2. CASE mode = "task" /\ Moved
    <2>1. Known /\ Moved /\ EInv
        BY <1>2 DEF HInv, EInv, Known
    <2> QED BY <2>1, StructureStep, KeptsStep, TriedStep, EndsStep DEF EInv
<1>3. CASE DirectPromotion \/ DirectFork
    BY <1>3 DEF DirectPromotion, DirectFork
<1> QED BY <1>1, <1>2, <1>3 DEF HostNext, TaskStep, Moved

\* While the host runs the task, the three layers hold in every reachable state, and every
\* call that has ended is accounted for.
THEOREM EndsInvariance == HostSpec => [](mode = "task" => EInv)
<1>1. HostInit => (mode = "task" => EInv) /\ FailuresTypeOK
    BY EndsInitial, FailuresAssumption DEF HostInit, Init, FailuresInit, FailuresTypeOK
<1>2. HInv /\ FailuresTypeOK /\ [HostNext]_hostVars => FailuresTypeOK'
    BY FailuresKeep
<1>3. HInv /\ FailuresTypeOK /\ (mode = "task" => EInv) /\ [HostNext]_hostVars
      => (mode = "task" => EInv)'
    BY EndsKeep
<1> QED BY <1>1, <1>2, <1>3, HostInvariance, PTL DEF HostSpec

\* A call of run() that returned has released every workspace it recorded.  One that threw,
\* or a task refused at reopening, has met a failed operation or a rejected child, or a lost
\* process has left one of the five states a task cannot get over or an edit of the user.
THEOREM EndsAreExplained == HostSpec => []EndsAreAccountedFor
<1>1. HInv /\ (mode = "task" => EInv) => EndsAreAccountedFor
    BY DEF HInv, NotStarted, EInv, EndsAreAccountedFor, RunAt
<1> QED BY <1>1, EndsInvariance, HostInvariance, PTL
=============================================================================
