---------------------- MODULE ContinuationGroup_proofs ----------------------
(***************************************************************************)
(* Theorems about ContinuationGroup for every number of variants, failures *)
(* and crashes, proved by TLAPS.                                           *)
(*                                                                         *)
(* The inductive invariant GInv says what a call has made durable by each  *)
(* stage (Progress), and that the two ends of a group exclude each other   *)
(* (Ends): a rejection needs a child without a run, and once a group is    *)
(* ready no child is without one.                                          *)
(***************************************************************************)
EXTENDS ContinuationGroup, TLAPS

-----------------------------------------------------------------------------
(***************************************************************************)
(* The inductive invariant                                                 *)
(***************************************************************************)
\* The stages between the freeze and the ready group, by what they have behind them.
HasSession == {"recordSession", "lease", "materialize", "recordLease", "admit", "recordRun",
               "recordReady", "groupReady"}
HasRecord == HasSession \ {"recordSession"}
HasWorkspace == {"admit", "recordRun", "recordReady", "groupReady"}
Driving == HasSession \cup {"session"}
Rejecting == {"childFailed", "groupFailed", "unfreeze"}

Complete(k) ==
    /\ k \in session /\ runs[k] = 1
    /\ {"session_forked", "workspace_ready", "run_accepted"} \subseteq child[k]

\* What the call has made durable of the child it is at and of those before it.
Progress ==
    /\ fork.at = "freeze" => fork.k = 1
    /\ fork.at \in Driving => \A j \in Children : j < fork.k => Complete(j)
    /\ fork.at \in HasSession => fork.k \in session
    /\ fork.at \in HasRecord => "session_forked" \in child[fork.k]
    /\ fork.at \in HasWorkspace => "workspace_ready" \in child[fork.k]
    /\ fork.at \in {"recordRun", "recordReady", "groupReady"} => runs[fork.k] = 1
    /\ fork.at \in {"recordReady", "groupReady"} => "run_accepted" \in child[fork.k]
    /\ fork.at = "groupReady" => fork.k = ChildCount

\* A run in the journal is a run in the child session.
RunsAreReal == \A k \in Children : "run_accepted" \in child[k] => runs[k] = 1

\* A call that is past the freeze has a frozen source; it is not driving a failed
\* group, and not rejecting a ready one.
Ends ==
    /\ fork.at \notin {"idle", "freeze"} => frozen
    /\ fork.at \in Driving => "failed" \notin group
    /\ fork.at = "undo" => fork.result \in {"error", "rejected"}
    /\ fork.at \in Rejecting \/ (fork.at = "undo" /\ fork.result = "rejected")
        => "ready" \notin group

GInv == GroupTypeOK /\ Progress /\ RunsAreReal /\ Ends /\ NoTwinRuns /\ ReadyIsComplete

-----------------------------------------------------------------------------
(***************************************************************************)
(* What the assignments of the model do to the fields they name            *)
(***************************************************************************)
\* No call is a call, about the first child.
LEMMA NoForkType ==
    /\ NoFork \in Forks /\ NoFork.at = "idle" /\ NoFork.k = 1
    /\ NoFork.held = {} /\ NoFork.result = "none"
BY GroupAssumption DEF NoFork, Forks, ForkStages, Children

\* Moving on leaves the rest of the call alone.
LEMMA ForkToKeeps ==
    ASSUME fork \in Forks, NEW stage \in ForkStages, ForkTo(stage)
    PROVE  /\ fork' \in Forks /\ fork'.at = stage /\ fork'.k = fork.k
           /\ fork'.held = fork.held /\ fork'.result = fork.result
BY DEF ForkTo, Forks

\* Holding a lease is moving on with one lease more.
LEMMA HoldKeeps ==
    ASSUME fork \in Forks, NEW stage \in ForkStages, Hold(stage)
    PROVE  fork' \in Forks /\ fork'.at = stage /\ fork'.k = fork.k /\ fork'.result = fork.result
BY DEF Hold, Forks

\* Giving up is undoing what the call holds.
LEMMA GiveUpKeeps ==
    ASSUME fork \in Forks, NEW result \in {"error", "rejected"},
           fork' = [fork EXCEPT !.at = "undo", !.result = result]
    PROVE  fork' \in Forks /\ fork'.at = "undo" /\ fork'.k = fork.k /\ fork'.result = result
BY DEF Forks, ForkStages

\* Returning ends the call.
LEMMA ForkReturnEnds ==
    ASSUME NEW result \in {"ok", "error", "rejected"}, ForkReturns(result)
    PROVE  fork' \in Forks /\ fork'.at = "idle"
BY NoForkType DEF ForkReturns, Forks

\* An event is added to the child the call is at, and to no other.
LEMMA RecordAdds ==
    ASSUME fork \in Forks, child \in [Children -> SUBSET ChildEvents],
           NEW event \in ChildEvents, RecordChild(event)
    PROVE  /\ child' \in [Children -> SUBSET ChildEvents]
           /\ \A j \in Children : child[j] \subseteq child'[j]
           /\ \A j \in Children : child'[j] # child[j] => j = fork.k
           /\ child'[fork.k] = child[fork.k] \cup {event}
BY DEF RecordChild, Forks

-----------------------------------------------------------------------------
(***************************************************************************)
(* The steps                                                               *)
(***************************************************************************)
\* What every step may rely on.
LEMMA Facts ==
    ASSUME GInv
    PROVE  /\ fork \in Forks /\ fork.k \in Children
           /\ child \in [Children -> SUBSET ChildEvents] /\ runs \in [Children -> Nat]
           /\ session \subseteq Children /\ lease \in [Children -> LeaseStatuses]
           /\ snapReleased \in BOOLEAN /\ frozen \in BOOLEAN /\ group \subseteq GroupEvents
BY DEF GInv, GroupTypeOK, Forks

\* What a call does when it stops: to the journal, sessions and runs nothing.
LEMMA Stops ==
    ASSUME GInv, fork' \in Forks,
           \/ fork'.at = "idle"
           \/ /\ fork'.at = "undo" /\ fork.at \notin {"idle", "freeze"}
              /\ \/ fork'.result = "error"
                 \/ fork'.result = "rejected" /\ "ready" \notin group,
           lease' \in [Children -> LeaseStatuses], snapReleased' \in BOOLEAN,
           UNCHANGED <<group, child, session, runs>>,
           frozen' = frozen \/ (frozen' \in BOOLEAN /\ "ready" \notin group /\ fork'.at = "idle")
    PROVE  GInv'
<1>1. GroupTypeOK'
    BY Facts DEF GroupTypeOK
<1>2. Progress' /\ Ends'
    BY DEF GInv, Progress, Ends, Driving, HasSession, HasRecord, HasWorkspace, Rejecting
<1>3. RunsAreReal' /\ NoTwinRuns' /\ ReadyIsComplete'
    BY DEF GInv, RunsAreReal, NoTwinRuns, ReadyIsComplete
<1> QED BY <1>1, <1>2, <1>3 DEF GInv

\* The call is made, and freezes the source.
LEMMA BeginSteps ==
    ASSUME GInv, ForkExact \/ Freeze
    PROVE  GInv'
<1>1. CASE ForkExact
    <2>1. /\ fork' \in Forks /\ fork'.at = "freeze" /\ fork'.k = 1
          /\ group' = group \cup {"planned"}
          /\ UNCHANGED <<child, frozen, session, lease, snapReleased, runs>>
        BY <1>1, Facts, NoForkType, ForkToKeeps DEF ForkExact, ForkStages
    <2>2. GroupTypeOK' /\ Progress' /\ Ends'
        BY <2>1 DEF GInv, GroupTypeOK, GroupEvents, Progress, Ends, Driving, HasSession, HasRecord,
           HasWorkspace, Rejecting
    <2>3. RunsAreReal' /\ NoTwinRuns' /\ ReadyIsComplete'
        BY <2>1 DEF GInv, RunsAreReal, NoTwinRuns, ReadyIsComplete
    <2> QED BY <2>2, <2>3 DEF GInv
<1>2. CASE Freeze
    <2>1. /\ fork.at = "freeze" /\ frozen' = TRUE
          /\ UNCHANGED <<group, child, session, lease, snapReleased, runs>>
        BY <1>2 DEF Freeze, ForkAt
    <2>2. /\ fork' \in Forks
          /\ \/ fork'.at = "idle"
             \/ fork'.at = "session" /\ fork'.k = fork.k /\ "failed" \notin group
        BY <1>2, Facts, ForkToKeeps, ForkReturnEnds DEF Freeze, ForkStages
    <2>3. GroupTypeOK' /\ Ends'
        BY <2>1, <2>2 DEF GInv, GroupTypeOK, Ends, Driving, HasSession, Rejecting
    <2>4. Progress'
        BY <2>1, <2>2, Facts
        DEF GInv, Progress, Children, Driving, HasSession, HasRecord, HasWorkspace
    <2>5. RunsAreReal' /\ NoTwinRuns' /\ ReadyIsComplete'
        BY <2>1 DEF GInv, RunsAreReal, NoTwinRuns, ReadyIsComplete
    <2> QED BY <2>3, <2>4, <2>5 DEF GInv
<1> QED BY <1>1, <1>2

\* A step of the drive that keeps what was recorded keeps the children before.
LEMMA BeforeKept ==
    ASSUME GInv, fork.at \in Driving, fork'.k = fork.k, session \subseteq session',
           \A j \in Children : child[j] \subseteq child'[j],
           \A j \in Children : j # fork.k => runs'[j] = runs[j]
    PROVE  \A j \in Children : j < fork'.k => Complete(j)'
BY Facts DEF GInv, Progress, Complete, Children

\* The session comes before its record.
LEMMA SessionSteps ==
    ASSUME GInv, ForkSession \/ RecordSession
    PROVE  GInv'
<1>1. /\ fork.at \in {"session", "recordSession"} /\ session' \subseteq Children
      /\ UNCHANGED <<group, frozen, lease, snapReleased, runs>>
      /\ session \subseteq session' /\ fork.k \in session'
    BY Facts DEF ForkSession, RecordSession, ForkAt, GInv, Progress, HasSession
<1>2. /\ child' \in [Children -> SUBSET ChildEvents]
      /\ \A j \in Children : child[j] \subseteq child'[j]
      /\ \A j \in Children : "run_accepted" \in child'[j] <=> "run_accepted" \in child[j]
    BY Facts, RecordAdds DEF ForkSession, RecordSession, ChildEvents
<1>3. /\ fork' \in Forks /\ fork'.k = fork.k
      /\ \/ fork'.at = "lease" /\ "session_forked" \in child'[fork.k]
         \/ fork'.at = "recordSession"
    BY Facts, ForkToKeeps, RecordAdds
    DEF ForkSession, RecordSession, Recorded, ForkStages, ChildEvents
<1>4. \A j \in Children : j < fork'.k => Complete(j)'
    BY <1>1, <1>2, <1>3, BeforeKept DEF Driving, HasSession
<1>5. GroupTypeOK' /\ Ends'
    BY <1>1, <1>2, <1>3 DEF GInv, GroupTypeOK, Ends, Driving, HasSession, Rejecting
<1>6. Progress'
    BY <1>1, <1>3, <1>4 DEF Progress, Driving, HasSession, HasRecord, HasWorkspace
<1>7. RunsAreReal' /\ NoTwinRuns' /\ ReadyIsComplete'
    BY <1>1, <1>2 DEF GInv, RunsAreReal, NoTwinRuns, ReadyIsComplete
<1> QED BY <1>5, <1>6, <1>7 DEF GInv

\* A lease is made, or taken over, before it is recorded.
LEMMA LeaseSteps ==
    ASSUME GInv, ForkLease \/ Materialize \/ RecordLease
    PROVE  GInv'
<1>1. /\ fork.at \in {"lease", "materialize", "recordLease"}
      /\ lease' \in [Children -> LeaseStatuses]
      /\ UNCHANGED <<group, frozen, session, snapReleased, runs>>
    BY Facts DEF ForkLease, Materialize, RecordLease, ForkAt, LeaseStatuses
<1>2. CASE fork' = [fork EXCEPT !.at = "undo", !.result = "error"]
    <2>1. UNCHANGED child
        BY <1>2, Facts, ForkToKeeps, GiveUpKeeps, <1>1
        DEF ForkLease, Materialize, RecordLease, ForkStages
    <2> QED BY <1>1, <1>2, <2>1, Facts, GiveUpKeeps, Stops
<1>3. CASE \E stage \in {"materialize", "recordLease", "admit"} :
              /\ fork' \in Forks /\ fork'.at = stage /\ fork'.k = fork.k
              /\ stage = "admit" => "workspace_ready" \in child'[fork.k]
    <2>1. /\ child' \in [Children -> SUBSET ChildEvents]
          /\ \A j \in Children : child[j] \subseteq child'[j]
          /\ \A j \in Children : "run_accepted" \in child'[j] <=> "run_accepted" \in child[j]
        BY Facts, RecordAdds DEF ForkLease, Materialize, RecordLease, ChildEvents
    <2>2. \A j \in Children : j < fork'.k => Complete(j)'
        BY <1>1, <1>3, <2>1, BeforeKept DEF Driving, HasSession
    <2>3. GroupTypeOK' /\ Ends'
        BY <1>1, <1>3, <2>1 DEF GInv, GroupTypeOK, Ends, Driving, HasSession, Rejecting
    <2>4. fork.k \in session /\ "session_forked" \in child[fork.k]
        BY <1>1 DEF GInv, Progress, HasRecord, HasSession
    <2>5. Progress'
        BY <1>1, <1>3, <2>1, <2>2, <2>4, Facts
        DEF Progress, Driving, HasSession, HasRecord, HasWorkspace
    <2>6. RunsAreReal' /\ NoTwinRuns' /\ ReadyIsComplete'
        BY <1>1, <2>1 DEF GInv, RunsAreReal, NoTwinRuns, ReadyIsComplete
    <2> QED BY <2>3, <2>5, <2>6 DEF GInv
<1>4. CASE ForkLease
    BY <1>2, <1>3, <1>4, Facts, ForkToKeeps, HoldKeeps
    DEF ForkLease, AfterLease, Recorded, ForkStages
<1>5. CASE Materialize
    BY <1>3, <1>5, Facts, HoldKeeps DEF Materialize, AfterLease, Recorded, ForkStages
<1>6. CASE RecordLease
    BY <1>3, <1>6, Facts, ForkToKeeps, RecordAdds DEF RecordLease, ForkStages, ChildEvents
<1> QED BY <1>4, <1>5, <1>6

\* A run is admitted only where the child session has none.
LEMMA AdmitStep ==
    ASSUME GInv, AdmitRun
    PROVE  GInv'
<1>1. /\ fork.at = "admit" /\ UNCHANGED <<group, child, frozen, session, lease, snapReleased>>
    BY DEF AdmitRun, ForkAt
<1>2. CASE ~HasRun /\ UNCHANGED runs /\ fork' = [fork EXCEPT !.at = "undo", !.result = "rejected"]
    <2>1. "ready" \notin group
        BY <1>2, Facts DEF GInv, ReadyIsComplete, HasRun, Recorded
    <2> QED BY <1>1, <1>2, <2>1, Facts, GiveUpKeeps, Stops
<1>3. ASSUME runs' \in [Children -> Nat], runs'[fork.k] = 1,
             \A j \in Children : j # fork.k => runs'[j] = runs[j],
             NEW stage \in {"recordRun", "recordReady"}, ForkTo(stage),
             stage = "recordReady" => "run_accepted" \in child[fork.k],
             "ready" \in group => UNCHANGED runs
      PROVE  GInv'
    <2>1. fork' \in Forks /\ fork'.at = stage /\ fork'.k = fork.k
        BY <1>3, Facts, ForkToKeeps DEF ForkStages
    <2>2. \A j \in Children : j < fork'.k => Complete(j)'
        BY <1>1, <1>3, <2>1, BeforeKept DEF Driving, HasSession
    <2>3. GroupTypeOK' /\ Ends'
        BY <1>1, <1>3, <2>1 DEF GInv, GroupTypeOK, Ends, Driving, HasSession, Rejecting
    <2>4. Progress'
        BY <1>1, <1>3, <2>1, <2>2
        DEF GInv, Progress, Driving, HasSession, HasRecord, HasWorkspace
    <2>5. RunsAreReal' /\ NoTwinRuns'
        BY <1>1, <1>3 DEF GInv, RunsAreReal, NoTwinRuns
    <2>6. ReadyIsComplete'
        BY <1>1, <1>3 DEF GInv, ReadyIsComplete
    <2> QED BY <2>3, <2>4, <2>5, <2>6 DEF GInv
<1>4. CASE HasRun /\ UNCHANGED runs
           /\ ForkTo(IF Recorded("run_accepted") THEN "recordReady" ELSE "recordRun")
    <2>1. runs[fork.k] = 1
        BY <1>4, Facts DEF HasRun, Recorded, GInv, RunsAreReal, NoTwinRuns
    <2> QED BY <1>3, <1>4, <2>1, Facts DEF Recorded
<1>5. CASE ~HasRun /\ runs' = [runs EXCEPT ![fork.k] = @ + 1] /\ ForkTo("recordRun")
    <2>1. runs[fork.k] = 0 /\ "ready" \notin group
        BY <1>5, Facts DEF HasRun, Recorded, GInv, ReadyIsComplete
    <2> QED BY <1>3, <1>5, <2>1, Facts
<1> QED BY <1>2, <1>4, <1>5 DEF AdmitRun

\* A run is recorded before its child is ready, and all children before the group.
LEMMA ReadySteps ==
    ASSUME GInv, RecordRun \/ RecordReady
    PROVE  GInv'
<1>1. /\ fork.at \in {"recordRun", "recordReady"} /\ runs[fork.k] = 1
      /\ UNCHANGED <<group, frozen, session, lease, snapReleased, runs>>
      /\ fork.at = "recordReady" => Complete(fork.k)
      /\ fork.k \in session /\ {"session_forked", "workspace_ready"} \subseteq child[fork.k]
    BY DEF RecordRun, RecordReady, ForkAt, GInv, Progress, Complete, HasSession, HasRecord,
       HasWorkspace
<1>2. /\ child' \in [Children -> SUBSET ChildEvents]
      /\ \A j \in Children : child[j] \subseteq child'[j]
      /\ \A j \in Children : "run_accepted" \in child'[j] /\ "run_accepted" \notin child[j]
            => j = fork.k
      /\ RecordRun => "run_accepted" \in child'[fork.k]
    BY Facts, RecordAdds DEF RecordRun, RecordReady, ChildEvents
<1>3. \A j \in Children : Complete(j) => Complete(j)'
    BY <1>1, <1>2 DEF Complete
<1>4. \A j \in Children : j < fork.k => Complete(j)
    BY <1>1 DEF GInv, Progress, Driving, HasSession
<1>5. /\ fork' \in Forks
      /\ \/ RecordRun /\ fork'.at = "recordReady" /\ fork'.k = fork.k
         \/ /\ fork.at = "recordReady" /\ fork'.at = "groupReady"
            /\ fork'.k = fork.k /\ fork.k = ChildCount
         \/ fork.at = "recordReady" /\ fork'.at = "session" /\ fork'.k = fork.k + 1
    <2>1. CASE RecordRun
        BY <2>1, Facts, ForkToKeeps DEF RecordRun, ForkStages
    <2>2. CASE RecordReady /\ LastChild
        BY <2>2, Facts DEF RecordReady, ForkAt, LastChild, Forks, ForkStages
    <2>3. CASE RecordReady /\ ~LastChild
        <3>1. fork.k + 1 \in Children
            BY <2>3, Facts, GroupAssumption DEF LastChild, Children
        <3>2. fork' = [fork EXCEPT !.at = "session", !.k = fork.k + 1]
            BY <2>3 DEF RecordReady
        <3> QED BY <2>3, <3>1, <3>2, Facts DEF RecordReady, ForkAt, Forks, ForkStages
    <2> QED BY <2>1, <2>2, <2>3
<1>6. GroupTypeOK' /\ Ends'
    BY <1>1, <1>2, <1>5 DEF GInv, GroupTypeOK, Ends, Driving, HasSession, Rejecting
<1>7. \A j \in Children : j < fork'.k => Complete(j)'
    BY <1>1, <1>3, <1>4, <1>5, Facts DEF Children
<1>8. Progress'
    BY <1>1, <1>2, <1>5, <1>7, Facts
    DEF Progress, Complete, Driving, HasSession, HasRecord, HasWorkspace
<1>9. RunsAreReal' /\ NoTwinRuns' /\ ReadyIsComplete'
    BY <1>1, <1>2, Facts DEF GInv, RunsAreReal, NoTwinRuns, ReadyIsComplete
<1> QED BY <1>6, <1>8, <1>9 DEF GInv

\* The group is ready after its last child.
LEMMA GroupReadyStep ==
    ASSUME GInv, GroupReady
    PROVE  GInv'
<1>1. /\ fork.at = "groupReady" /\ group' = group \cup {"ready"}
      /\ UNCHANGED <<child, frozen, session, lease, snapReleased, runs>>
    BY DEF GroupReady, ForkAt
<1>2. fork' \in Forks /\ fork'.at = "idle"
    BY ForkReturnEnds DEF GroupReady
<1>3. \A j \in Children : Complete(j)
    <2>1. Complete(fork.k) /\ fork.k = ChildCount /\ \A j \in Children : j < fork.k => Complete(j)
        BY <1>1 DEF GInv, Progress, Complete, Driving, HasSession, HasRecord, HasWorkspace
    <2> QED BY <2>1, GroupAssumption DEF Children
<1>4. GroupTypeOK' /\ Progress' /\ Ends'
    BY <1>1, <1>2 DEF GInv, GroupTypeOK, GroupEvents, Progress, Ends, Driving, HasSession,
       HasRecord, HasWorkspace, Rejecting
<1>5. RunsAreReal' /\ NoTwinRuns'
    BY <1>1 DEF GInv, RunsAreReal, NoTwinRuns
<1>6. ReadyIsComplete'
    BY <1>1, <1>3 DEF GInv, ReadyIsComplete, Complete, Ends, Driving, HasSession
<1> QED BY <1>4, <1>5, <1>6 DEF GInv

\* A step of a release: the lease moves on, or the call has done with it.
LEMMA HeldMoves ==
    ASSUME GInv, NEW k \in fork.held, ReleaseHeld(k)
    PROVE  /\ fork' \in Forks /\ fork'.at = fork.at /\ fork'.k = fork.k
           /\ fork'.result = fork.result
           /\ lease' \in [Children -> LeaseStatuses] /\ snapReleased' \in BOOLEAN
           /\ \/ /\ fork'.held = fork.held /\ UNCHANGED <<snapReleased, failures>>
                 /\ \/ lease[k] = "ready" /\ lease' = [lease EXCEPT ![k] = "releasing"]
                    \/ lease[k] = "releasing" /\ lease' = [lease EXCEPT ![k] = "released"]
              \/ /\ fork'.held = fork.held \ {k} /\ UNCHANGED <<lease, failures>>
                 /\ lease[k] = "released" /\ snapReleased' = (snapReleased \/ Unreferenced)
              \/ /\ fork'.held = fork.held \ {k} /\ UNCHANGED snapReleased /\ Fault
                 /\ \/ UNCHANGED lease
                    \/ lease[k] = "releasing" /\ lease' = [lease EXCEPT ![k] = "orphaned"]
<1>1. fork \in Forks /\ lease \in [Children -> LeaseStatuses] /\ snapReleased \in BOOLEAN
      /\ k \in Children
    BY Facts DEF Forks
<1>2. CASE lease[k] = "ready" /\ MarkLease(k, "releasing")
           /\ UNCHANGED <<snapReleased, fork, failures>>
    BY <1>1, <1>2 DEF MarkLease, LeaseStatuses
<1>3. CASE lease[k] = "releasing" /\ MarkLease(k, "released")
           /\ UNCHANGED <<snapReleased, fork, failures>>
    BY <1>1, <1>3 DEF MarkLease, LeaseStatuses
<1>4. CASE lease[k] = "releasing" /\ Fault /\ MarkLease(k, "orphaned") /\ Drop(k)
           /\ UNCHANGED snapReleased
    BY <1>1, <1>4 DEF MarkLease, LeaseStatuses, Drop, Forks
<1>5. CASE lease[k] = "released" /\ ReleaseUnreferenced /\ Drop(k)
           /\ UNCHANGED <<lease, failures>>
    BY <1>1, <1>5 DEF ReleaseUnreferenced, Unreferenced, Drop, Forks
<1>6. CASE Fault /\ Drop(k) /\ UNCHANGED <<lease, snapReleased>>
    BY <1>1, <1>6 DEF Drop, Forks
<1> QED BY <1>2, <1>3, <1>4, <1>5, <1>6 DEF ReleaseHeld

\* Giving up, releasing what the call holds, and returning the error.
LEMMA UndoSteps ==
    ASSUME GInv, ForkFails \/ Undo
    PROVE  GInv'
<1>1. CASE ForkFails
    <2>1. /\ fork.at \notin {"idle", "freeze"}
          /\ fork' = [fork EXCEPT !.at = "undo", !.result = "error"]
          /\ UNCHANGED <<group, child, frozen, session, lease, snapReleased, runs>>
        BY <1>1 DEF ForkFails
    <2> QED BY <2>1, Facts, GiveUpKeeps, Stops
<1>2. CASE Undo
    <2>1. fork.at = "undo" /\ UNCHANGED <<group, child, frozen, session, runs>>
        BY <1>2 DEF Undo, ForkAt
    <2>2. ASSUME NEW k \in fork.held, ReleaseHeld(k) PROVE GInv'
        <3>1. fork' \in Forks /\ fork'.at = "undo" /\ fork'.result = fork.result
            BY <2>1, <2>2, HeldMoves
        <3>2. lease' \in [Children -> LeaseStatuses] /\ snapReleased' \in BOOLEAN
            BY <2>2, HeldMoves
        <3> QED BY <2>1, <3>1, <3>2, Stops DEF GInv, Ends
    <2>3. CASE UNCHANGED <<lease, snapReleased>> /\ ForkReturns("error")
        BY <2>1, <2>3, Facts, ForkReturnEnds, Stops
    <2>4. CASE UNCHANGED <<lease, snapReleased>> /\ fork.result # "error" /\ ForkTo("childFailed")
        <3>1. fork' \in Forks /\ fork'.at = "childFailed"
            BY <2>4, Facts, ForkToKeeps DEF ForkStages
        <3>2. GroupTypeOK' /\ Progress' /\ Ends'
            BY <2>1, <2>4, <3>1 DEF GInv, GroupTypeOK, Progress, Ends, Driving, HasSession,
               HasRecord, HasWorkspace, Rejecting
        <3>3. RunsAreReal' /\ NoTwinRuns' /\ ReadyIsComplete'
            BY <2>1 DEF GInv, RunsAreReal, NoTwinRuns, ReadyIsComplete
        <3> QED BY <3>2, <3>3 DEF GInv
    <2> QED BY <1>2, <2>2, <2>3, <2>4 DEF Undo
<1> QED BY <1>1, <1>2

\* A rejection is recorded for child and group, and the source given back.
LEMMA RejectSteps ==
    ASSUME GInv, ChildFailed \/ GroupFailed \/ Unfreeze
    PROVE  GInv'
<1>1. "ready" \notin group /\ UNCHANGED <<session, lease, snapReleased, runs>>
    BY DEF ChildFailed, GroupFailed, Unfreeze, ForkAt, GInv, Ends, Rejecting
<1>2. CASE Unfreeze
    BY <1>1, <1>2, Facts, ForkReturnEnds, Stops DEF Unfreeze
<1>3. CASE ChildFailed \/ GroupFailed
    <2>1. /\ fork' \in Forks /\ fork'.at \in {"groupFailed", "unfreeze"} /\ frozen' = frozen
          /\ fork.at \in {"childFailed", "groupFailed"}
          /\ group' \subseteq GroupEvents /\ "ready" \notin group'
        BY <1>1, <1>3, Facts, ForkToKeeps
        DEF ChildFailed, GroupFailed, ForkAt, ForkStages, GroupEvents
    <2>2. /\ child' \in [Children -> SUBSET ChildEvents]
          /\ \A j \in Children : "run_accepted" \in child'[j] <=> "run_accepted" \in child[j]
        BY <1>3, Facts, RecordAdds DEF ChildFailed, GroupFailed, ChildEvents
    <2>3. GroupTypeOK' /\ Progress' /\ Ends'
        BY <1>1, <2>1, <2>2 DEF GInv, GroupTypeOK, Progress, Ends, Driving, HasSession, HasRecord,
           HasWorkspace, Rejecting
    <2>4. RunsAreReal' /\ NoTwinRuns' /\ ReadyIsComplete'
        BY <1>1, <2>1, <2>2 DEF GInv, RunsAreReal, NoTwinRuns, ReadyIsComplete
    <2> QED BY <2>3, <2>4 DEF GInv
<1> QED BY <1>2, <1>3

\* The result is taken, or the process lost: what is durable stays.
LEMMA CallOver ==
    ASSUME GInv, TakeFork \/ ForkLost
    PROVE  GInv'
BY Facts, NoForkType, Stops DEF TakeFork, ForkLost

\* Nothing has been forked yet.
LEMMA GroupInitial == GroupInit => GInv
<1> SUFFICES ASSUME GroupInit PROVE GInv
    OBVIOUS
<1>1. GroupTypeOK
    BY NoForkType DEF GroupInit, GroupTypeOK, LeaseStatuses
<1>2. Progress /\ Ends
    BY NoForkType DEF GroupInit, Progress, Ends, Driving, HasSession, HasRecord, HasWorkspace,
       Rejecting
<1>3. RunsAreReal /\ NoTwinRuns /\ ReadyIsComplete
    BY DEF GroupInit, RunsAreReal, NoTwinRuns, ReadyIsComplete
<1> QED BY <1>1, <1>2, <1>3 DEF GInv

-----------------------------------------------------------------------------
(***************************************************************************)
(* The theorems                                                            *)
(***************************************************************************)
\* What a call does not touch keeps the invariant.
LEMMA GroupUntouched ==
    ASSUME GInv, UNCHANGED continuation
    PROVE  GInv'
BY DEF continuation, GInv, GroupTypeOK, Progress, Complete, Ends, RunsAreReal, NoTwinRuns,
   ReadyIsComplete

\* Every step of a call, and every failure, loss and repetition of one, keeps the
\* invariant.
THEOREM GroupInductive == GInv /\ [GroupNext]_<<continuation, failures>> => GInv'
BY BeginSteps, SessionSteps, LeaseSteps, AdmitStep, ReadySteps, GroupReadyStep, UndoSteps,
   RejectSteps, CallOver, GroupUntouched
DEF GroupNext, ForkStep

\* The invariant holds in every state calls, failures and crashes can reach.
THEOREM GroupInvariance == GroupSpec => []GInv
BY GroupInitial, GroupInductive, PTL DEF GroupSpec

\* Journal, sessions, leases and calls keep their shape.
THEOREM GroupTypes == GroupSpec => []GroupTypeOK
<1>1. GInv => GroupTypeOK
    BY DEF GInv
<1> QED BY <1>1, GroupInvariance, PTL

\* However often a fork is repeated, a child session accepts one run at most.
THEOREM RetriesMakeNoTwins == GroupSpec => []NoTwinRuns
<1>1. GInv => NoTwinRuns
    BY DEF GInv
<1> QED BY <1>1, GroupInvariance, PTL

\* A ready group is complete, not failed, and its source frozen, for good.
THEOREM ReadyGroupsAreComplete == GroupSpec => []ReadyIsComplete
<1>1. GInv => ReadyIsComplete
    BY DEF GInv
<1> QED BY <1>1, GroupInvariance, PTL

=============================================================================
