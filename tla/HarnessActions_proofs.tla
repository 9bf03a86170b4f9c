----------------------- MODULE HarnessActions_proofs -----------------------
(***************************************************************************)
(* Theorems about the steps of HarnessRun: what no step may do once a run  *)
(* is cancelled, which requests a step may send, what becomes of every     *)
(* tool call of a batch, and what becomes of every item of the queues.     *)
(* All rest on the inductive invariant of HarnessRun_proofs.  The second   *)
(* needs one more, which relates the last request sent to the attempt in   *)
(* op.state; the third a larger one, BInv, which relates the calls in      *)
(* op.state to the argument registers, to the results written so far, to   *)
(* the executions and to the preparation a driver has in hand; the fourth  *)
(* QInv, which relates the queues to the items still pending and to the    *)
(* entries already placed.  QInv also shows that the lane, seen by its     *)
(* callers, implements RunContract.                                        *)
(***************************************************************************)
EXTENDS HarnessRun_proofs

-----------------------------------------------------------------------------
(***************************************************************************)
(* Cancellation                                                            *)
(***************************************************************************)
\* What CancelStopsWork says of one step.
WorkStopped ==
    /\ asked' = asked
    /\ \A i \in Indices : ran'[i] <= ran[i]
    /\ \A n \in DOMAIN placed' : n > Len(placed) => placed'[n].via = "writes"

\* A step that touches neither requests, executions nor entries stops no work.
LEMMA NothingDone ==
    ASSUME IInv, UNCHANGED <<asked, ran, placed>>
    PROVE  WorkStopped
<1>1. placed \in Seq(Entry) /\ ran \in [Indices -> 0..2]
    BY DEF IInv, TypeOK, InputType, BatchType
<1>2. \A n \in DOMAIN placed : n \in Nat /\ n <= Len(placed) /\ Len(placed) \in Nat
    BY <1>1, LenProperties
<1>3. \A i \in Indices : ran[i] <= ran[i]
    BY <1>1
<1> QED BY <1>2, <1>3 DEF WorkStopped

\* Tagging the items of a drain keeps their number and gives all of them its queue.
LEMMA TagProperties ==
    ASSUME NEW s \in Seq(Ids), NEW via \in {"next", "idle", "writes", "steer", "follow"}
    PROVE  /\ Len(Tag(s, via)) = Len(s)
           /\ \A n \in 1..Len(s) : Tag(s, via)[n].via = via
           /\ s = << >> => Tag(s, via) = << >>
<1>1. Tag(s, via) \in Seq(Entry)
    BY TagType
<1>2. DOMAIN s = 1..Len(s) /\ Len(s) \in Nat
    BY LenProperties
<1>3. DOMAIN Tag(s, via) = 1..Len(s)
    BY <1>2 DEF Tag
<1>4. Len(Tag(s, via)) = Len(s)
    BY <1>1, <1>2, <1>3, LenProperties
<1>5. \A n \in 1..Len(s) : Tag(s, via)[n].via = via
    BY <1>2 DEF Tag
<1>6. s = << >> => Tag(s, via) = << >>
    BY <1>1, <1>4, EmptySeq
<1> QED BY <1>4, <1>5, <1>6

\* A drain of a cancelled run appends deferred writes and nothing else, also
\* when it was planned before the cancel marker.
LEMMA CancelledDrain ==
    ASSUME IInv, Cancelled(op), Drain
    PROVE  WorkStopped
<1> DEFINE p == DrainPlan(drv.snap)
<1>1. CASE ~StillFits(p)
    BY <1>1, NothingDone DEF Drain, Replan, inputVars, batchVars, turnVars
<1>2. CASE StillFits(p)
  <2>1. /\ placed' = placed \o Tag(p.writes, "writes") \o Tag(p.steer, "steer")
                             \o Tag(p.follow, "follow")
        /\ UNCHANGED <<batchVars, turnVars>>
    BY <1>2 DEF Drain
  <2>2. p.steer = << >> /\ p.follow = << >>
    BY <1>2 DEF StillFits
  <2>3. p.writes \in Seq(Ids) /\ placed \in Seq(Entry) /\ << >> \in Seq(Ids)
    BY EmptySeq DEF IInv, TypeOK, InputType, DriverState, OpState, DrainPlan
  <2> DEFINE t == Tag(p.writes, "writes")
  <2>4. t \in Seq(Entry) /\ Tag(p.steer, "steer") = << >> /\ Tag(p.follow, "follow") = << >>
    <3>1. Tag(<< >>, "steer") = << >> /\ Tag(<< >>, "follow") = << >>
        BY <2>3, TagProperties
    <3>2. t \in Seq(Entry)
        BY <2>3, TagType
    <3> QED BY <2>2, <3>1, <3>2
  <2>5. Len(t) = Len(p.writes) /\ \A n \in 1..Len(p.writes) : t[n].via = "writes"
    BY <2>3, TagProperties
  <2> HIDE DEF t
  <2>6. placed' = placed \o t
    <3>1. placed \o t \in Seq(Entry)
        BY <2>3, <2>4, ConcatProperties
    <3>2. placed' = ((placed \o t) \o << >>) \o << >>
        BY <2>1, <2>4 DEF t
    <3> QED BY <3>1, <3>2, ConcatEmptySeq
  <2>7. /\ placed' \in Seq(Entry) /\ Len(placed') = Len(placed) + Len(t)
        /\ \A n \in 1..Len(placed) + Len(t) :
            placed'[n] = IF n <= Len(placed) THEN placed[n] ELSE t[n - Len(placed)]
    BY <2>3, <2>4, <2>6, ConcatProperties
  <2>8. ASSUME NEW n \in DOMAIN placed', n > Len(placed) PROVE placed'[n].via = "writes"
    <3>1. Len(placed) \in Nat /\ Len(t) \in Nat /\ DOMAIN placed' = 1..Len(placed) + Len(t)
        BY <2>3, <2>4, <2>7, LenProperties
    <3>2. n - Len(placed) \in 1..Len(t) /\ placed'[n] = t[n - Len(placed)]
        BY <2>7, <2>8, <3>1
    <3> QED BY <2>5, <3>2
  <2>9. ran' = ran /\ asked' = asked /\ ran \in [Indices -> 0..2]
    BY <2>1 DEF batchVars, turnVars, IInv, TypeOK, BatchType
  <2>10. \A i \in Indices : ran'[i] <= ran[i]
    BY <2>9
  <2> QED BY <2>8, <2>9, <2>10 DEF WorkStopped
<1> QED BY <1>1, <1>2

\* Settling a request sends nothing, runs no tool and places nothing.
LEMMA CancelledSettlement ==
    ASSUME IInv, NEW answer, SettleAssistant(answer)
    PROVE  WorkStopped
<1>1. /\ UNCHANGED <<inputVars, asked>>
      /\ ran' = ran \/ ran' = [i \in Indices |-> 0]
    BY DEF SettleAssistant
<1>2. CASE ran' = ran
    BY <1>1, <1>2, NothingDone DEF inputVars
<1>3. CASE ran' = [i \in Indices |-> 0]
  <2>1. ran \in [Indices -> 0..2] /\ placed \in Seq(Entry)
    BY DEF IInv, TypeOK, BatchType, InputType
  <2>2. \A i \in Indices : ran'[i] <= ran[i]
    BY <1>3, <2>1
  <2>3. \A n \in DOMAIN placed : n \in Nat /\ n <= Len(placed) /\ Len(placed) \in Nat
    BY <2>1, LenProperties
  <2> QED BY <1>1, <2>2, <2>3 DEF WorkStopped, inputVars
<1> QED BY <1>1, <1>2, <1>3

\* No step taken under a durable cancel marker starts or consumes new work.
LEMMA CancelledStep == IInv /\ [Next]_vars /\ Cancelled(op) => WorkStopped
<1> SUFFICES ASSUME IInv, [Next]_vars, Cancelled(op) PROVE WorkStopped
    OBVIOUS
<1>1. current # 0
    BY NewRunType DEF IInv, Shape, Cancelled
<1>2. CASE Caller
    BY <1>1, <1>2, NothingDone
       DEF Caller, Accept, AcceptContinuation, Resume, NextRun, AppendPlaced, CancelQueued,
           Withdraw, Abort, Abortable, Enqueue, AppendDeferred, inputVars, batchVars, turnVars
<1>3. CASE DriverStep
  <2>1. CASE Drain
    BY <2>1, CancelledDrain
  <2>2. CASE SettleGeneration \/ SettleInterrupted
    BY <2>2, CancelledSettlement DEF SettleGeneration, SettleInterrupted
  <2>3. CASE Hydrate \/ HookStart \/ \E extend \in BOOLEAN : HookSettle(extend)
    BY <2>3, NothingDone
       DEF Hydrate, HookStart, HookSettle, Replan, inputVars, batchVars, turnVars
  <2>4. CASE FinishCompleted \/ FinishFailed \/ FinishAborted \/ FinishTerminated
    BY <2>4, NothingDone
       DEF FinishCompleted, FinishFailed, FinishAborted, FinishTerminated, Terminal,
           inputVars, batchVars, turnVars
  <2>5. CASE NeedAssistant \/ Dispatch \/ RecoverAttempt \/ RetryReady \/ Sleep \/ Wake
    BY <2>5, NothingDone
       DEF NeedAssistant, Dispatch, RecoverAttempt, RetryReady, Sleep, Wake, Cas, Replan,
           inputVars, batchVars, turnVars
  <2>6. CASE PrepareTools \/ ClearTools \/ ToolsDone \/ CancelToolsDone \/ CancelDeferred
    BY <2>6, NothingDone
       DEF PrepareTools, ClearTools, ToolsDone, CancelToolsDone, CancelDeferred, Cas, Replan,
           inputVars, batchVars, turnVars
  <2>7. CASE \E i \in Indices : PrepareImmediate(i) \/ PrepareLaunch(i) \/ SettleTool(i)
                               \/ SettleSynthetic(i) \/ RecoverTool(i)
    BY <2>7, NothingDone
       DEF PrepareImmediate, PrepareLaunch, SettleTool, SettleSynthetic, RecoverTool,
           CommitResult, Replan, inputVars, batchVars, turnVars
  <2> QED BY <1>3, <2>1, <2>2, <2>3, <2>4, <2>5, <2>6, <2>7 DEF DriverStep
<1>4. CASE EffectStep
    BY <1>4, NothingDone
       DEF EffectStep, GenerationStart, ToolStart, CancelDeferredEnds, StartRefused,
           inputVars, batchVars, turnVars
<1>5. CASE TimerDue \/ Crash \/ UNCHANGED vars
    BY <1>5, NothingDone DEF TimerDue, Crash, vars, inputVars, batchVars, turnVars
<1> QED BY <1>2, <1>3, <1>4, <1>5 DEF Next

\* After the cancel marker is durable no provider request and no tool starts and
\* only deferred writes are consumed, for every interleaving of stale drivers,
\* launched effects, recoveries and crashes.
THEOREM CancellationStopsWork == Spec => CancelStopsWork
<1>1. IInv /\ [Next]_vars => [Cancelled(op) => WorkStopped]_vars
    BY CancelledStep
<1>2. IInv /\ [Next]_vars =>
        [Cancelled(op) =>
            /\ asked' = asked
            /\ \A i \in Indices : ran'[i] <= ran[i]
            /\ \A n \in DOMAIN placed' : n > Len(placed) => placed'[n].via = "writes"]_vars
    BY <1>1 DEF WorkStopped
<1> QED BY <1>2, Invariance, PTL DEF Spec, CancelStopsWork

-----------------------------------------------------------------------------
(***************************************************************************)
(* Attempts                                                                *)
(***************************************************************************)
\* The last request sent is not after the attempt in op.state, and strictly
\* before it wherever that attempt may still be sent.
Unsent == op.k \in {"ready", "retry"} \/ gen = "launched"

AskedBefore ==
    /\ asked[1] <= IF current = 0 THEN last.run ELSE current
    /\ current # 0 /\ asked[1] = current =>
        /\ asked[2] <= op.turn
        /\ asked[2] = op.turn =>
            /\ asked[3] <= op.attempt
            /\ Unsent => asked[3] < op.attempt

\* What a step may do to the attempt: leave it, open a run, close one, begin a
\* turn, begin the next attempt, or send the attempt that was launched.
AttemptKept ==
    /\ UNCHANGED <<current, last, asked>>
    /\ op'.turn = op.turn /\ op'.attempt = op.attempt
    /\ Unsent' => Unsent
RunOpened == current = 0 /\ current' = last.run + 1 /\ UNCHANGED <<last, asked>>
RunClosed == current # 0 /\ current' = 0 /\ last'.run = current /\ UNCHANGED asked
TurnBegun ==
    /\ UNCHANGED <<current, last, asked>>
    /\ op'.turn = op.turn + 1
NextAttemptBegun ==
    /\ UNCHANGED <<current, last, asked>>
    /\ op'.turn = op.turn /\ op'.attempt = op.attempt + 1
RequestSent ==
    /\ UNCHANGED <<current, last, op>>
    /\ current # 0 /\ op.k = "pending" /\ gen = "launched" /\ gen' = "started"
    /\ asked' = <<current, op.turn, op.attempt>>

AttemptMove ==
    AttemptKept \/ RunOpened \/ RunClosed \/ TurnBegun \/ NextAttemptBegun \/ RequestSent

\* Run, turn and attempt numbers are natural numbers.
LEMMA CountsType ==
    ASSUME IInv
    PROVE  /\ current \in Nat /\ last.run \in Nat
           /\ op.turn \in Nat /\ op.attempt \in Nat /\ op.k \in Kinds
           /\ asked[1] \in Nat /\ asked[2] \in Nat /\ asked[3] \in Nat
BY BoundsAssumption DEF IInv, TypeOK, LaneType, TurnType, OpState

\* Each of these moves preserves AskedBefore.
LEMMA MovePreserves ==
    ASSUME IInv, IInv', AskedBefore, AttemptMove
    PROVE  AskedBefore'
<1>1. /\ current \in Nat /\ last.run \in Nat /\ op.turn \in Nat /\ op.attempt \in Nat
      /\ asked[1] \in Nat /\ asked[2] \in Nat /\ asked[3] \in Nat
    BY CountsType
<1>2. CASE AttemptKept
    BY <1>1, <1>2 DEF AttemptKept, AskedBefore
<1>3. CASE RunOpened
    BY <1>1, <1>3 DEF RunOpened, AskedBefore
<1>4. CASE RunClosed
    BY <1>1, <1>4 DEF RunClosed, AskedBefore
<1>5. CASE TurnBegun
    BY <1>1, <1>5 DEF TurnBegun, AskedBefore
<1>6. CASE NextAttemptBegun
    BY <1>1, <1>6 DEF NextAttemptBegun, AskedBefore
<1>7. CASE RequestSent
    <2>1. ~Unsent'
        BY <1>7 DEF RequestSent, Unsent
    <2>2. asked'[1] = current /\ asked'[2] = op.turn /\ asked'[3] = op.attempt
        BY <1>7 DEF RequestSent
    <2> QED BY <1>1, <1>7, <2>1, <2>2 DEF RequestSent, AskedBefore
<1> QED BY <1>2, <1>3, <1>4, <1>5, <1>6, <1>7 DEF AttemptMove

\* A step that leaves the lane, the request and the phase alone is AttemptKept.
LEMMA ReplanKeeps ==
    ASSUME Replan
    PROVE  AttemptKept
BY DEF Replan, AttemptKept, Unsent, laneVars, turnVars

\* A terminal commit closes the run or, superseded, leaves its attempt alone.
LEMMA TerminalMoves ==
    ASSUME IInv, drv.on, NEW outcome, NEW open, Terminal(outcome, open)
    PROVE  AttemptKept \/ RunClosed
BY DEF Terminal, AttemptKept, RunClosed, Unsent, laneVars, IInv, Shape

\* A settled request keeps its attempt or schedules the next one.
LEMMA SettlementMoves ==
    ASSUME IInv, NEW answer, SettleAssistant(answer)
    PROVE  AttemptKept \/ NextAttemptBegun
<1>1. op \in OpState /\ UNCHANGED <<current, last, asked>> /\ gen' = "none"
    BY DEF IInv, TypeOK, LaneType, SettleAssistant, laneVars
<1>2. CASE Cancelled(op)
  <2>1. op' = [op EXCEPT !.k = "may", !.skip = FALSE]
    BY <1>2 DEF SettleAssistant
  <2> QED BY <1>1, <2>1 DEF AttemptKept, Unsent, OpState
<1>3. CASE ~Cancelled(op)
  <2>1. op' = Classified(op, answer)
    BY <1>3 DEF SettleAssistant
  <2>2. CASE answer.kind = "transient" /\ op.attempt < MaxAttempts
    <3>1. op' = [op EXCEPT !.k = "retry", !.attempt = op.attempt + 1]
        BY <2>1, <2>2 DEF Classified
    <3> QED BY <1>1, <3>1 DEF NextAttemptBegun, OpState
  <2>3. CASE ~(answer.kind = "transient" /\ op.attempt < MaxAttempts)
    <3>1. \/ op' = [op EXCEPT !.k = "may", !.skip = FALSE]
          \/ op' = [op EXCEPT !.k = "tools", !.calls = answer.calls,
                              !.auth = IF op.adaptive THEN "adaptive" ELSE "standard"]
          \/ op' = [op EXCEPT !.k = "deferred"]
          \/ op' = [op EXCEPT !.k = "failure", !.skip = FALSE]
        BY <2>1, <2>3 DEF Classified
    <3> QED BY <1>1, <3>1 DEF AttemptKept, Unsent, OpState
  <2> QED BY <2>2, <2>3
<1> QED BY <1>2, <1>3

\* Callers open runs; otherwise they leave the attempt alone.
LEMMA CallerMoves == IInv /\ Caller => AttemptMove
<1> SUFFICES ASSUME IInv, Caller PROVE AttemptMove
    OBVIOUS
<1>0. op \in OpState
    BY DEF IInv, TypeOK, LaneType
<1>1. CASE \E sel \in Selectors : \E a \in AdaptiveRuns : Accept(sel, a)
    BY <1>1 DEF Accept, RunOpened, AttemptMove, turnVars
<1>2. CASE AcceptContinuation
    BY <1>2 DEF AcceptContinuation, RunOpened, AttemptMove, turnVars
<1>3. CASE (\E sel \in Selectors : Resume(sel)) \/ NextRun \/ AppendPlaced
    BY <1>3 DEF Resume, NextRun, AppendPlaced, AttemptKept, Unsent, AttemptMove,
                laneVars, turnVars
<1>4. CASE CancelQueued
  <2>1. /\ op' = op \/ \E q \in Queues : \E n \in DOMAIN op[q] :
                            op' = [op EXCEPT ![q] = RemoveAt(op[q], n)]
        /\ UNCHANGED <<current, last, asked, gen>>
    BY <1>4 DEF CancelQueued, Withdraw, turnVars
  <2>2. op'.turn = op.turn /\ op'.attempt = op.attempt /\ op'.k = op.k
    BY <1>0, <2>1 DEF OpState, Queues
  <2> QED BY <2>1, <2>2 DEF AttemptKept, Unsent, AttemptMove
<1>5. CASE Abort
  <2>1. op'.turn = op.turn /\ op'.attempt = op.attempt /\ op'.k = op.k
    BY <1>0, <1>5 DEF Abort, CancelMarked, OpState
  <2> QED BY <1>5, <2>1 DEF Abort, AttemptKept, Unsent, AttemptMove, laneVars, turnVars
<1>6. CASE \E q \in {"steer", "follow"} : Enqueue(q)
  <2>1. op'.turn = op.turn /\ op'.attempt = op.attempt /\ op'.k = op.k
    BY <1>0, <1>6 DEF Enqueue, OpState
  <2> QED BY <1>6, <2>1 DEF Enqueue, AttemptKept, Unsent, AttemptMove, laneVars, turnVars
<1>7. CASE \E isNote \in BOOLEAN : AppendDeferred(isNote)
  <2>1. op'.turn = op.turn /\ op'.attempt = op.attempt /\ op'.k = op.k
    BY <1>0, <1>7 DEF AppendDeferred, OpState
  <2> QED BY <1>7, <2>1 DEF AppendDeferred, AttemptKept, Unsent, AttemptMove, laneVars, turnVars
<1> QED BY <1>1, <1>2, <1>3, <1>4, <1>5, <1>6, <1>7 DEF Caller

\* Every step of the driver is one of the moves of an attempt.
LEMMA DriverMoves == IInv /\ DriverStep => AttemptMove
<1> SUFFICES ASSUME IInv, DriverStep PROVE AttemptMove
    OBVIOUS
<1>0. op \in OpState
    BY DEF IInv, TypeOK, LaneType
<1>1. CASE Hydrate
    BY <1>1, ReplanKeeps DEF Hydrate, AttemptMove
<1>2. CASE Drain
  <2>1. CASE Replan
    BY <2>1, ReplanKeeps DEF AttemptMove
  <2>2. CASE ~Replan
    <3>1. drv.snap.k \in {"need", "may", "failure"} /\ Planning
        BY <1>2 DEF Drain, DrainDue
    <3>2. op'.turn = op.turn /\ op'.attempt = op.attempt /\ op'.k \in {"need", "may", "failure"}
        BY <1>0, <1>2, <2>2, <3>1 DEF Drain, OpState
    <3>3. UNCHANGED <<current, last, asked, gen>>
        BY <1>2, <2>2 DEF Drain, laneVars, turnVars
    <3> QED BY <3>2, <3>3 DEF AttemptKept, Unsent, AttemptMove
  <2> QED BY <2>1, <2>2
<1>3. CASE \E extend \in BOOLEAN : HookSettle(extend)
  <2>1. CASE Replan
    BY <2>1, ReplanKeeps DEF AttemptMove
  <2>2. CASE ~Replan
    <3>1. op' = op \/ op' = [op EXCEPT !.k = "need", !.skip = TRUE]
        BY <1>3, <2>2 DEF HookSettle
    <3>2. op'.turn = op.turn /\ op'.attempt = op.attempt /\ op'.k \in {op.k, "need"}
        BY <1>0, <3>1 DEF OpState
    <3>3. UNCHANGED <<current, last, asked, gen>>
        BY <1>3, <2>2 DEF HookSettle, laneVars, turnVars
    <3> QED BY <3>2, <3>3 DEF AttemptKept, Unsent, AttemptMove
  <2> QED BY <2>1, <2>2
<1>4. CASE HookStart \/ Sleep \/ Wake \/ PrepareTools \/ CancelDeferred
    BY <1>4 DEF HookStart, Sleep, Wake, PrepareTools, CancelDeferred, AttemptKept, Unsent,
                AttemptMove, laneVars, turnVars
<1>5. CASE FinishCompleted \/ FinishFailed \/ FinishAborted \/ FinishTerminated
  <2>1. drv.on /\ \E outcome, open : Terminal(outcome, open)
    BY <1>5 DEF FinishCompleted, FinishFailed, FinishAborted, FinishTerminated, Planning
  <2> QED BY <2>1, TerminalMoves DEF AttemptMove
<1>6. CASE SettleGeneration \/ SettleInterrupted
    BY <1>6, SettlementMoves DEF SettleGeneration, SettleInterrupted, AttemptMove
<1>7. CASE NeedAssistant
  <2>1. CASE Replan
    BY <2>1, ReplanKeeps DEF AttemptMove
  <2>2. CASE ~Replan
    <3>1. /\ op' = [op EXCEPT !.k = "ready", !.skip = FALSE, !.attempt = 1, !.turn = op.turn + 1]
          /\ UNCHANGED <<laneVars, turnVars>>
        BY <1>7, <2>2 DEF NeedAssistant, Cas
    <3>2. op'.turn = op.turn + 1
        BY <1>0, <3>1 DEF OpState
    <3> QED BY <3>1, <3>2 DEF TurnBegun, AttemptMove, laneVars, turnVars
  <2> QED BY <2>1, <2>2
<1>8. CASE RecoverAttempt
  <2>1. CASE Replan
    BY <2>1, ReplanKeeps DEF AttemptMove
  <2>2. CASE ~Replan
    <3>1. /\ op' = [op EXCEPT !.k = "ready", !.attempt = op.attempt + 1]
          /\ UNCHANGED <<laneVars, turnVars>>
        BY <1>8, <2>2 DEF RecoverAttempt, NextAttempt, Cas
    <3>2. op'.turn = op.turn /\ op'.attempt = op.attempt + 1
        BY <1>0, <3>1 DEF OpState
    <3> QED BY <3>1, <3>2 DEF NextAttemptBegun, AttemptMove, laneVars, turnVars
  <2> QED BY <2>1, <2>2
<1>9. CASE Dispatch \/ RetryReady
  <2>1. CASE Replan
    BY <2>1, ReplanKeeps DEF AttemptMove
  <2>2. CASE ~Replan
    <3>1. Planning /\ drv.snap.k \in {"ready", "retry"}
        BY <1>9 DEF Dispatch, RetryReady
    <3>2. Unsent
        BY <3>1, Seen DEF Unsent
    <3>3. \E k \in Kinds : op' = [op EXCEPT !.k = k]
        BY <1>9, <2>2 DEF Dispatch, RetryReady, Cas, Kinds
    <3>4. op'.turn = op.turn /\ op'.attempt = op.attempt
        BY <1>0, <3>3 DEF OpState
    <3>5. UNCHANGED <<current, last, asked>>
        BY <1>9, <2>2 DEF Dispatch, RetryReady, Cas, laneVars, turnVars
    <3> QED BY <3>2, <3>4, <3>5 DEF AttemptKept, AttemptMove
  <2> QED BY <2>1, <2>2
<1>10. CASE \/ ClearTools \/ ToolsDone \/ CancelToolsDone
            \/ \E i \in Indices : PrepareImmediate(i) \/ PrepareLaunch(i) \/ SettleTool(i)
                                  \/ SettleSynthetic(i) \/ RecoverTool(i)
  <2>1. CASE Replan
    BY <2>1, ReplanKeeps DEF AttemptMove
  <2>2. CASE ~Replan
    <3>1. op'.turn = op.turn /\ op'.attempt = op.attempt /\ op'.k \in {op.k, "need", "may"}
      <4>1. CASE ClearTools
        BY <1>0, <2>2, <4>1 DEF ClearTools, OpState
      <4>2. CASE ToolsDone \/ CancelToolsDone
        BY <1>0, <2>2, <4>2 DEF ToolsDone, CancelToolsDone, Cas, OpState
      <4>3. CASE \E i \in Indices : PrepareImmediate(i) \/ PrepareLaunch(i) \/ SettleTool(i)
                                    \/ SettleSynthetic(i) \/ RecoverTool(i)
        BY <1>0, <2>2, <4>3
           DEF PrepareImmediate, PrepareLaunch, SettleTool, SettleSynthetic, RecoverTool,
               CommitResult, Settled, OpState
      <4> QED BY <1>10, <4>1, <4>2, <4>3
    <3>2. UNCHANGED <<current, last, asked, gen>>
        BY <1>10, <2>2
           DEF ClearTools, ToolsDone, CancelToolsDone, PrepareImmediate, PrepareLaunch,
               SettleTool, SettleSynthetic, RecoverTool, CommitResult, Cas, laneVars, turnVars
    <3> QED BY <3>1, <3>2 DEF AttemptKept, Unsent, AttemptMove
  <2> QED BY <2>1, <2>2
<1> QED BY <1>1, <1>2, <1>3, <1>4, <1>5, <1>6, <1>7, <1>8, <1>9, <1>10 DEF DriverStep

\* So is every step of the harness.
LEMMA StepMoves == IInv /\ [Next]_vars => AttemptMove
<1> SUFFICES ASSUME IInv, [Next]_vars PROVE AttemptMove
    OBVIOUS
<1>1. CASE GenerationStart
  <2>1. current # 0 /\ op.k = "pending"
    BY <1>1 DEF IInv, NoOrphanedEffect, Shape, GenerationStart
  <2> QED BY <1>1, <2>1
          DEF GenerationStart, RequestSent, AttemptKept, Unsent, AttemptMove, laneVars
<1>2. CASE CancelDeferredEnds \/ \E i \in Indices : ToolStart(i)
    BY <1>2 DEF CancelDeferredEnds, ToolStart, AttemptKept, Unsent, AttemptMove,
                laneVars, turnVars
<1>3. CASE TimerDue \/ Crash \/ UNCHANGED vars
    BY <1>3 DEF TimerDue, Crash, vars, AttemptKept, Unsent, AttemptMove, laneVars, turnVars
<1> QED BY <1>1, <1>2, <1>3, CallerMoves, DriverMoves DEF Next, EffectStep

\* The last request sent never runs ahead of the attempt op.state records.
THEOREM RequestsFollowAttempts == Spec => []AskedBefore
<1>1. Init => AskedBefore
    BY DEF Init, AskedBefore
<1>2. IInv /\ IInv' /\ AskedBefore /\ [Next]_vars => AskedBefore'
    BY StepMoves, MovePreserves
<1> QED BY <1>1, <1>2, Invariance, PTL DEF Spec

\* A step that sends a request sends one later than every request before it.
LEMMA SentLater ==
    IInv /\ AskedBefore /\ [Next]_vars =>
        (gen # "started" /\ gen' = "started" => Later(asked', asked))
<1> SUFFICES ASSUME IInv, AskedBefore, [Next]_vars, gen # "started", gen' = "started"
             PROVE  Later(asked', asked)
    OBVIOUS
<1>1. GenerationStart /\ ~StartRefused
  <2>1. ~Caller
    BY DEF Caller, Accept, AcceptContinuation, Resume, NextRun, AppendPlaced, CancelQueued,
           Withdraw, Abort, Enqueue, AppendDeferred, turnVars
  <2>2. ~DriverStep
    <3>1. ~(Hydrate \/ Drain \/ HookStart \/ \E extend \in BOOLEAN : HookSettle(extend))
        BY DEF Hydrate, Drain, HookStart, HookSettle, Replan, turnVars
    <3>2. ~(FinishCompleted \/ FinishFailed \/ FinishAborted \/ FinishTerminated)
        BY DEF FinishCompleted, FinishFailed, FinishAborted, FinishTerminated, Terminal
    <3>3. ~(NeedAssistant \/ Dispatch \/ RecoverAttempt \/ RetryReady \/ Sleep \/ Wake)
        BY DEF NeedAssistant, Dispatch, RecoverAttempt, RetryReady, Sleep, Wake, Cas,
               Replan, turnVars
    <3>4. ~(SettleGeneration \/ SettleInterrupted)
        BY DEF SettleGeneration, SettleInterrupted, SettleAssistant
    <3>5. ~(PrepareTools \/ ClearTools \/ ToolsDone \/ CancelToolsDone \/ CancelDeferred)
        BY DEF PrepareTools, ClearTools, ToolsDone, CancelToolsDone, CancelDeferred, Cas,
               Replan, turnVars
    <3>6. ~(\E i \in Indices : PrepareImmediate(i) \/ PrepareLaunch(i) \/ SettleTool(i)
                               \/ SettleSynthetic(i) \/ RecoverTool(i))
        BY DEF PrepareImmediate, PrepareLaunch, SettleTool, SettleSynthetic, RecoverTool,
               CommitResult, Replan, turnVars
    <3> QED BY <3>1, <3>2, <3>3, <3>4, <3>5, <3>6 DEF DriverStep
  <2>3. ~(CancelDeferredEnds \/ (\E i \in Indices : ToolStart(i)) \/ TimerDue \/ Crash
          \/ UNCHANGED vars)
    BY DEF CancelDeferredEnds, ToolStart, TimerDue, Crash, vars, turnVars
  <2>4. GenerationStart
    BY <2>1, <2>2, <2>3 DEF Next, EffectStep
  <2> QED BY <2>4 DEF GenerationStart
<1>2. asked' = <<current, op.turn, op.attempt>> /\ gen = "launched"
    BY <1>1 DEF GenerationStart
<1>3. current # 0
    BY <1>2 DEF IInv, NoOrphanedEffect, Shape
<1>4. /\ asked[1] <= current
      /\ asked[1] = current => asked[2] <= op.turn
      /\ asked[1] = current /\ asked[2] = op.turn => asked[3] < op.attempt
    BY <1>2, <1>3 DEF AskedBefore, Unsent
<1>5. asked'[1] = current /\ asked'[2] = op.turn /\ asked'[3] = op.attempt
    BY <1>2
<1> QED BY <1>4, <1>5, CountsType DEF Later

\* No attempt reaches the provider twice: not after a retry, not after a crash
\* that lost the answer, not in a later turn or run.
THEOREM RequestsAreNeverRepeated == Spec => AttemptsAreNeverRepeated
<1>1. IInv /\ AskedBefore /\ [Next]_vars =>
        [gen # "started" /\ gen' = "started" => Later(asked', asked)]_vars
    BY SentLater
<1> QED BY <1>1, Invariance, RequestsFollowAttempts, PTL DEF Spec, AttemptsAreNeverRepeated
-----------------------------------------------------------------------------
(***************************************************************************)
(* The tool batch                                                          *)
(***************************************************************************)
\* Batches whose results must come in source order: cleared as one batch, or
\* run one call at a time.
InOrder == op.auth # "standard" \/ ~Parallel

\* Argument registers are gone once the last source index is settled, when
\* nothing is left to prepare, and never belong to an adaptive batch; a call
\* that runs alone has its register as long as it is pending.
ArgumentsFollowCalls ==
    op.k = "tools" =>
        /\ op.calls = << >> \/ op.auth # "standard" => args = {}
        /\ op.calls # << >> /\ op.calls[Len(op.calls)] \in DoneCall =>
            /\ args = {}
            /\ op.auth = "standard" => \A i \in DOMAIN op.calls : op.calls[i] # "planned"
        /\ op.auth = "standard" /\ ~Parallel =>
            \A i \in DOMAIN op.calls : op.calls[i] \in PendingCall => i \in args

\* Where order matters the completed calls are a prefix of the batch, their
\* results ascend, and no live call has lost its arguments.
ResultsInOrder ==
    op.k = "tools" /\ InOrder =>
        /\ \A i, j \in DOMAIN op.calls :
                j < i /\ op.calls[i] \in DoneCall => op.calls[j] \in DoneCall
        /\ \A m, n \in DOMAIN results : m < n => results[m].call < results[n].call
        /\ \A n \in DOMAIN results : results[n].body # "lost"
        /\ \A i \in Indices : tool[i] # "broken"

\* Until one commit clears it no call of an adaptive batch is pending, and
\* unless the run is cancelled all of its calls are planned or none is.
ClearedAtOnce ==
    op.k = "tools" /\ op.auth = "adaptive" =>
        /\ \A i \in DOMAIN op.calls : op.calls[i] \notin PendingCall
        /\ \/ Cancelled(op)
           \/ \A i \in DOMAIN op.calls : op.calls[i] = "planned"
           \/ \A i \in DOMAIN op.calls : op.calls[i] # "planned"

\* A call that was not started has not run, and one launched again is safe.
Executions ==
    op.k = "tools" => \A i \in DOMAIN op.calls :
        /\ op.calls[i] \in UnstartedCall => ran[i] = 0
        /\ tool[i] = "launched" /\ ran[i] # 0 => op.calls[i] = "safe"

\* prepare_tools has in hand the planned calls of a standard batch and leaves
\* none before them behind; where calls run one at a time, the first open one.
Preparation ==
    drv.on /\ drv.pc = "prep" =>
        /\ op.auth = "standard"
        /\ \A i \in drv.todo :
            /\ op.calls[i] = "planned"
            /\ \A j \in DOMAIN op.calls : j < i /\ op.calls[j] = "planned" => j \in drv.todo
            /\ ~Parallel => \A j \in DOMAIN op.calls : j < i => op.calls[j] \in DoneCall

BInv ==
    /\ NoLeakedArguments /\ OneResultPerCall /\ ArgumentsFollowCalls /\ ResultsInOrder
    /\ ClearedAtOnce /\ Executions /\ Preparation
\* A step that leaves the batch and what its preparation has in hand alone; an
\* execution may be lost, a cancel marker set and a preparation given up.
SameBatch ==
    /\ op'.k = op.k /\ op'.calls = op.calls /\ op'.auth = op.auth
    /\ Cancelled(op) => Cancelled(op')
    /\ UNCHANGED <<args, ran, results>>
    /\ \A i \in Indices : tool'[i] \in {"none", tool[i]}
    /\ drv'.on /\ drv'.pc = "prep" => drv.on /\ drv.pc = "prep" /\ drv'.todo = drv.todo

\* Such a step keeps the invariant of the batch.
LEMMA BatchKept ==
    ASSUME IInv, BInv, SameBatch
    PROVE  BInv'
<1>1. DOMAIN op.calls \subseteq Indices
    BY CallsType DEF IInv, TypeOK, LaneType, Shape
<1>2. NoLeakedArguments' /\ OneResultPerCall' /\ ArgumentsFollowCalls'
    BY DEF BInv, SameBatch, NoLeakedArguments, OneResultPerCall, ArgumentsFollowCalls
<1>3. ResultsInOrder'
    BY DEF BInv, SameBatch, ResultsInOrder, InOrder
<1>4. ClearedAtOnce'
    BY DEF BInv, SameBatch, ClearedAtOnce
<1>5. Executions'
    BY <1>1 DEF BInv, SameBatch, Executions
<1>6. Preparation'
    BY DEF BInv, SameBatch, Preparation
<1> QED BY <1>2, <1>3, <1>4, <1>5, <1>6 DEF BInv

\* Outside the tools phase only the argument registers matter.
LEMMA BatchAbsent ==
    ASSUME IInv', op'.k # "tools", args' = {}
    PROVE  BInv'
<1>1. Preparation'
    BY DEF IInv, Shape, Preparation
<1> QED BY <1>1 DEF BInv, NoLeakedArguments, OneResultPerCall, ArgumentsFollowCalls,
                    ResultsInOrder, ClearedAtOnce, Executions

\* A step between two other phases has no batch to disturb.
LEMMA BatchElsewhere ==
    ASSUME IInv', BInv, op.k # "tools", op'.k # "tools", args' \in {args, {}}
    PROVE  BInv'
BY BatchAbsent DEF BInv, NoLeakedArguments

\* A replan gives the preparation up and leaves the batch alone.
LEMMA ReplanBatch ==
    ASSUME IInv, BInv, Replan
    PROVE  BInv'
<1>1. drv' \in Restored(drv) /\ UNCHANGED <<op, batchVars>>
    BY DEF Replan
<1>2. ~(drv'.on /\ drv'.pc = "prep")
    BY <1>1, RestoredType, NoDriverType DEF IInv
<1>3. SameBatch
    BY <1>1, <1>2 DEF SameBatch, batchVars
<1> QED BY <1>3, BatchKept

\* Callers write around the batch.
LEMMA CallerBatch == IInv /\ IInv' /\ BInv /\ Caller => BInv'
<1> SUFFICES ASSUME IInv, IInv', BInv, Caller PROVE BInv'
    OBVIOUS
<1>0. op \in OpState /\ nextRun \in Seq(Ids) /\ drv \in DriverState
    BY DEF IInv, TypeOK, LaneType
<1>1. CASE \/ \E sel \in Selectors : \E a \in AdaptiveRuns : Accept(sel, a)
           \/ AcceptContinuation
  <2>1. op.k # "tools"
    BY <1>1, NewRunType DEF Accept, AcceptContinuation, IInv, Shape
  <2>2. op'.k = "need" /\ args' = args
    BY <1>1, NewRunType DEF Accept, AcceptContinuation, OpState, batchVars
  <2> QED BY <2>1, <2>2, BatchElsewhere
<1>2. CASE \E sel \in Selectors : Resume(sel)
  <2>1. PICK sel \in Selectors : Resume(sel)
    BY <1>2
  <2>2. sel \in {"settled", "post_turn"}
    BY SettingsAssumption
  <2>3. drv'.pc = "plan"
    <3> DEFINE h == TRUE
    <3>1. h \in BOOLEAN /\ drv' \in Adopted(Started(sel, op, nextRun), op, h) /\ drv'.on
        BY <2>1 DEF Resume
    <3>2. Started(sel, op, nextRun) \in DriverState
        BY <1>0, <2>2, StartedType
    <3> HIDE DEF h
    <3> QED BY <1>0, <3>1, <3>2, AdoptedType, NoDriverType
  <2>4. SameBatch
    BY <2>1, <2>3 DEF Resume, SameBatch, batchVars
  <2> QED BY <2>4, BatchKept
<1>3. CASE NextRun \/ AppendPlaced
  <2>1. SameBatch
    BY <1>3 DEF NextRun, AppendPlaced, SameBatch, batchVars
  <2> QED BY <2>1, BatchKept
<1>4. CASE CancelQueued
  <2>1. /\ op' = op \/ \E q \in Queues : \E n \in DOMAIN op[q] :
                            op' = [op EXCEPT ![q] = RemoveAt(op[q], n)]
        /\ UNCHANGED <<drv, batchVars>>
    BY <1>4 DEF CancelQueued, Withdraw
  <2>2. /\ op'.k = op.k /\ op'.calls = op.calls /\ op'.auth = op.auth /\ op'.ctl = op.ctl
    BY <1>0, <2>1 DEF OpState, Queues
  <2>3. SameBatch
    BY <2>1, <2>2 DEF SameBatch, Cancelled, batchVars
  <2> QED BY <2>3, BatchKept
<1>5. CASE Abort
  <2>1. /\ op'.k = op.k /\ op'.calls = op.calls /\ op'.auth = op.auth /\ op'.ctl = "cancel"
    BY <1>0, <1>5 DEF Abort, CancelMarked, OpState
  <2>2. drv' = drv \/ drv'.pc = "plan"
    BY <1>5 DEF Abort, RecoveryDrive, Started, NoDriver
  <2>3. SameBatch
    BY <1>5, <2>1, <2>2 DEF Abort, SameBatch, Cancelled, batchVars
  <2> QED BY <2>3, BatchKept
<1>6. CASE \/ \E q \in {"steer", "follow"} : Enqueue(q)
           \/ \E isNote \in BOOLEAN : AppendDeferred(isNote)
  <2>1. /\ op'.k = op.k /\ op'.calls = op.calls /\ op'.auth = op.auth /\ op'.ctl = op.ctl
    BY <1>0, <1>6 DEF Enqueue, AppendDeferred, OpState
  <2>2. SameBatch
    BY <1>6, <2>1 DEF Enqueue, AppendDeferred, SameBatch, Cancelled, batchVars
  <2> QED BY <2>2, BatchKept
<1> QED BY <1>1, <1>2, <1>3, <1>4, <1>5, <1>6 DEF Caller

\* A provider's tool calls are all truncated or all planned.
LEMMA AnswersUniform ==
    ASSUME NEW answer \in Answers, answer.kind = "tools"
    PROVE  \E status \in UnstartedCall : \A i \in DOMAIN answer.calls : answer.calls[i] = status
<1>1. PICK n \in 0..MaxCalls, status \in UnstartedCall :
            answer = [kind |-> "tools", calls |-> [i \in 1..n |-> status]]
    BY DEF Answers
<1> QED BY <1>1

\* Settling the assistant ends without a batch or begins a fresh one.
LEMMA AssistantBatch ==
    ASSUME IInv, IInv', BInv, Planning, drv.snap.k = "pending",
           NEW answer, SettleAssistant(answer),
           answer \in Answers \/ answer.kind = "fatal"
    PROVE  BInv'
<1>1. op.k = "pending" /\ op \in OpState /\ drv \in DriverState /\ Idle(tool)
    BY Seen
<1>2. args = {} /\ args' = {} /\ tool' = tool
    BY <1>1 DEF BInv, NoLeakedArguments, SettleAssistant
<1>3. CASE op'.k # "tools"
    BY <1>2, <1>3, BatchAbsent
<1>4. CASE op'.k = "tools"
  <2>1. ~Cancelled(op) /\ answer.kind = "tools"
        /\ op' = [op EXCEPT !.k = "tools", !.calls = answer.calls,
                            !.auth = IF op.adaptive THEN "adaptive" ELSE "standard"]
    <3>1. op' = IF Cancelled(op) THEN [op EXCEPT !.k = "may", !.skip = FALSE]
                                 ELSE Classified(op, answer)
        BY DEF SettleAssistant
    <3>2. ~Cancelled(op) /\ op' = Classified(op, answer)
        BY <1>1, <1>4, <3>1 DEF OpState
    <3>3. answer.kind = "tools"
        <4> SUFFICES ASSUME answer.kind # "tools" PROVE FALSE
            OBVIOUS
        <4>1. \/ op' = [op EXCEPT !.k = "may", !.skip = FALSE]
              \/ op' = [op EXCEPT !.k = "deferred"]
              \/ op' = [op EXCEPT !.k = "retry", !.attempt = op.attempt + 1]
              \/ op' = [op EXCEPT !.k = "failure", !.skip = FALSE]
            BY <3>2 DEF Classified
        <4> QED BY <1>1, <1>4, <4>1 DEF OpState
    <3> QED BY <3>2, <3>3 DEF Classified
  <2>2. PICK status \in UnstartedCall : \A i \in DOMAIN op'.calls : op'.calls[i] = status
    <3>1. op'.calls = answer.calls
        BY <1>1, <2>1 DEF OpState
    <3> QED BY <2>1, <3>1, AnswersUniform
  <2>3. results' = << >> /\ ran' = [i \in Indices |-> 0]
    BY <1>4 DEF SettleAssistant
  <2>4. DOMAIN op'.calls \subseteq Indices /\ DOMAIN op'.calls = 1..Len(op'.calls)
    BY CallsType DEF IInv, TypeOK, LaneType, Shape
  <2>5. status \notin DoneCall /\ status \notin PendingCall
    BY DEF UnstartedCall, DoneCall, PendingCall
  <2>6. ~(drv'.on /\ drv'.pc = "prep")
    <3> DEFINE next == IF Cancelled(op) THEN [op EXCEPT !.k = "may", !.skip = FALSE]
                                        ELSE Classified(op, answer)
               ends == turnOpen /\ next.k \notin {"retry", "tools"}
               d    == [drv EXCEPT !.hooked = FALSE, !.ended = @ \/ ends]
               h    == drv.hyd /\ Queued(next) \subseteq Queued(drv.snap)
    <3>1. next = op' /\ (drv' = NoDriver \/ drv' \in Adopted(d, next, h))
        BY DEF SettleAssistant
    <3>2. d \in DriverState /\ h \in BOOLEAN
        BY <1>1 DEF DriverState
    <3>3. next \in OpState /\ nextRun \in Seq(Ids)
        BY <3>1 DEF IInv, TypeOK, LaneType
    <3> HIDE DEF next, ends, d, h
    <3> QED BY <3>1, <3>2, <3>3, AdoptedType, NoDriverType
  <2>7. DOMAIN results' = {}
    BY <2>3
  <2>8. NoLeakedArguments' /\ OneResultPerCall'
    BY <1>4, <2>2, <2>5, <2>7 DEF NoLeakedArguments, OneResultPerCall
  <2>9. ArgumentsFollowCalls'
    <3>1. op'.calls # << >> => Len(op'.calls) \in DOMAIN op'.calls
        <4>1. op'.calls \in Seq(CallStatus)
            BY DEF IInv, TypeOK, LaneType, OpState
        <4> QED BY <2>4, <4>1, EmptySeq, LenProperties
    <3> QED BY <1>2, <2>2, <2>5, <3>1 DEF ArgumentsFollowCalls
  <2>10. ResultsInOrder'
    <3>1. \A i \in Indices : tool'[i] # "broken"
        BY <1>1, <1>2 DEF Idle
    <3> QED BY <2>2, <2>5, <2>7, <3>1 DEF ResultsInOrder
  <2>11. ClearedAtOnce'
    BY <2>2, <2>5 DEF ClearedAtOnce
  <2>12. Executions'
    BY <2>3, <2>4 DEF Executions
  <2>13. Preparation'
    BY <2>6 DEF Preparation
  <2> QED BY <2>8, <2>9, <2>10, <2>11, <2>12, <2>13 DEF BInv
<1> QED BY <1>3, <1>4

\* The generation steps keep the invariant of the batch.
LEMMA GenerationBatch ==
    IInv /\ IInv' /\ BInv
    /\ (NeedAssistant \/ Dispatch \/ SettleGeneration \/ RecoverAttempt
        \/ SettleInterrupted \/ RetryReady \/ Sleep \/ Wake) => BInv'
<1> SUFFICES ASSUME IInv, IInv', BInv,
                    NeedAssistant \/ Dispatch \/ SettleGeneration \/ RecoverAttempt
                    \/ SettleInterrupted \/ RetryReady \/ Sleep \/ Wake
             PROVE  BInv'
    OBVIOUS
<1>1. CASE NeedAssistant \/ Dispatch \/ RecoverAttempt \/ RetryReady
  <2>1. CASE Replan
    BY <2>1, ReplanBatch
  <2>2. CASE ~Replan
    <3>1. Planning /\ drv.snap.k \in {"need", "ready", "pending", "retry"}
        BY <1>1 DEF NeedAssistant, Dispatch, RecoverAttempt, RetryReady, UnknownAttempt
    <3>2. op.k # "tools" /\ op \in OpState
        BY <3>1, Seen
    <3>3. /\ \/ op' = [op EXCEPT !.k = "ready", !.skip = FALSE, !.attempt = 1, !.turn = @ + 1]
             \/ op' = [op EXCEPT !.k = "ready", !.attempt = @ + 1]
             \/ op' = [op EXCEPT !.k = "ready"]
             \/ op' = [op EXCEPT !.k = "pending"]
          /\ args' = args
        BY <1>1, <2>2 DEF NeedAssistant, Dispatch, RecoverAttempt, RetryReady, NextAttempt,
                          Cas, batchVars
    <3>4. op'.k \in {"ready", "pending"}
        BY <3>2, <3>3 DEF OpState
    <3> QED BY <3>2, <3>3, <3>4, BatchElsewhere
  <2> QED BY <2>1, <2>2
<1>2. CASE SettleGeneration \/ SettleInterrupted
  <2>1. Planning /\ drv.snap.k = "pending"
    BY <1>2 DEF SettleGeneration, SettleInterrupted, UnknownAttempt
  <2>2. \E answer : (answer \in Answers \/ answer.kind = "fatal") /\ SettleAssistant(answer)
    BY <1>2 DEF SettleGeneration, SettleInterrupted
  <2> QED BY <2>1, <2>2, AssistantBatch
<1>3. CASE Sleep \/ Wake
  <2>1. drv'.pc # "prep" /\ UNCHANGED <<op, batchVars>>
    BY <1>3 DEF Sleep, Wake, IInv, TypeOK, DriverState
  <2>2. SameBatch
    BY <2>1 DEF SameBatch, batchVars
  <2> QED BY <2>2, BatchKept
<1> QED BY <1>1, <1>2, <1>3

\* So do the steps at a checkpoint and the terminal commits.
LEMMA CheckpointBatch ==
    IInv /\ IInv' /\ BInv
    /\ (Hydrate \/ Drain \/ HookStart \/ (\E extend \in BOOLEAN : HookSettle(extend))
        \/ FinishCompleted \/ FinishFailed \/ FinishAborted \/ FinishTerminated) => BInv'
<1> SUFFICES ASSUME IInv, IInv', BInv,
                    Hydrate \/ Drain \/ HookStart \/ (\E extend \in BOOLEAN : HookSettle(extend))
                    \/ FinishCompleted \/ FinishFailed \/ FinishAborted \/ FinishTerminated
             PROVE  BInv'
    OBVIOUS
<1>0. op \in OpState
    BY DEF IInv, TypeOK, LaneType
<1>1. CASE Hydrate
    BY <1>1, ReplanBatch DEF Hydrate
<1>2. CASE Drain
  <2>1. CASE Replan
    BY <2>1, ReplanBatch
  <2>2. CASE ~Replan
    <3>1. drv.snap.k \in {"need", "may", "failure"} /\ Planning
        BY <1>2 DEF Drain, DrainDue
    <3>2. op.k # "tools"
        BY <3>1, Seen
    <3>3. op'.k # "tools" /\ args' = args
        BY <1>0, <1>2, <2>2, <3>1 DEF Drain, OpState, batchVars
    <3> QED BY <3>2, <3>3, BatchElsewhere
  <2> QED BY <2>1, <2>2
<1>3. CASE \E extend \in BOOLEAN : HookSettle(extend)
  <2>1. CASE Replan
    BY <2>1, ReplanBatch
  <2>2. CASE ~Replan
    <3>1. /\ op' = op \/ op' = [op EXCEPT !.k = "need", !.skip = TRUE]
          /\ op.k = "may" /\ args' = args
        BY <1>3, <2>2 DEF HookSettle, FinishBoundary, batchVars
    <3>2. op'.k # "tools"
        BY <1>0, <3>1 DEF OpState
    <3> QED BY <3>1, <3>2, BatchElsewhere
  <2> QED BY <2>1, <2>2
<1>4. CASE HookStart
  <2>1. drv'.pc # "prep" /\ UNCHANGED <<op, batchVars>>
    BY <1>4 DEF HookStart, IInv, TypeOK, DriverState
  <2>2. SameBatch
    BY <2>1 DEF SameBatch, batchVars
  <2> QED BY <2>2, BatchKept
<1>5. CASE FinishCompleted \/ FinishFailed \/ FinishAborted \/ FinishTerminated
  <2>1. PICK outcome, open : Terminal(outcome, open)
    BY <1>5 DEF FinishCompleted, FinishFailed, FinishAborted, FinishTerminated
  <2>2. CASE Superseded
    <3>1. drv' \in Restored(drv) /\ UNCHANGED <<op, batchVars>>
        BY <2>1, <2>2 DEF Terminal
    <3>2. ~(drv'.on /\ drv'.pc = "prep")
        BY <3>1, RestoredType, NoDriverType DEF IInv
    <3>3. SameBatch
        BY <3>1, <3>2 DEF SameBatch, batchVars
    <3> QED BY <3>3, BatchKept
  <2>3. CASE ~Superseded
    <3>1. op' = NoOp /\ args' = {}
        BY <2>1, <2>3 DEF Terminal
    <3> QED BY <3>1, NewRunType, BatchAbsent
  <2> QED BY <2>2, <2>3
<1> QED BY <1>1, <1>2, <1>3, <1>4, <1>5

\* Recording one result keeps the invariant where the call was open, is the
\* first open one if order matters, and nothing stays planned behind the last.
LEMMA ResultBatch ==
    ASSUME IInv, IInv', BInv, op.k = "tools", NEW i \in DOMAIN op.calls,
           op.calls[i] \notin DoneCall,
           NEW body, NEW terminate, CommitResult(i, body, terminate),
           InOrder => /\ body # "lost"
                      /\ \A j \in DOMAIN op.calls : j < i => op.calls[j] \in DoneCall,
           i = Len(op.calls) /\ op.auth = "standard" =>
                \A j \in DOMAIN op.calls : j # i => op.calls[j] # "planned",
           op.auth = "adaptive" /\ op.calls[i] = "planned" => Cancelled(op),
           Preparation'
    PROVE  BInv'
<1> DEFINE c == IF terminate /\ ~Cancelled(op) THEN "terminated" ELSE "done"
           r == [call |-> i, body |-> IF Cancelled(op) /\ op.calls[i] \in UnstartedCall
                                      THEN "aborted" ELSE body]
<1>1. /\ op' = [op EXCEPT !.calls[i] = c] /\ results' = Append(results, r)
      /\ args' = (IF i = Len(op.calls) THEN {} ELSE args)
      /\ tool' = [tool EXCEPT ![i] = "none"] /\ ran' = ran
    BY DEF CommitResult, Settled, Recorded, ArgumentsAfter
<1>2. c \in DoneCall /\ r.call = i /\ (body # "lost" => r.body # "lost")
      /\ c \notin PendingCall /\ c \notin UnstartedCall /\ c # "planned"
    BY DEF DoneCall, PendingCall, UnstartedCall
<1> HIDE DEF c, r
<1>3. /\ op \in OpState /\ Len(op.calls) <= MaxCalls /\ results \in Seq(Result)
      /\ tool \in [Indices -> {"none", "launched", "started", "refused", "broken"}]
    BY DEF IInv, TypeOK, LaneType, BatchType, Shape
<1>4. /\ DOMAIN op.calls = 1..Len(op.calls) /\ Len(op.calls) \in Nat
      /\ DOMAIN op.calls \subseteq Indices
    BY <1>3, CallsType
<1>5. /\ op'.calls = [op.calls EXCEPT ![i] = c] /\ op'.k = "tools" /\ op'.auth = op.auth
      /\ op'.ctl = op.ctl /\ op.calls \in Seq(CallStatus)
    BY <1>1, <1>3 DEF OpState
<1>6. /\ DOMAIN op'.calls = DOMAIN op.calls /\ Len(op'.calls) = Len(op.calls)
      /\ op'.calls[i] = c
      /\ \A j \in DOMAIN op.calls : j # i => op'.calls[j] = op.calls[j]
    <2>1. c \in CallStatus
        BY <1>2 DEF CallStatus
    <2> QED BY <1>4, <1>5, <2>1, ExceptSeq
<1>7. /\ DOMAIN results = 1..Len(results) /\ Len(results) \in Nat
      /\ DOMAIN results' = 1..(Len(results) + 1)
      /\ \A n \in DOMAIN results : results'[n] = results[n]
      /\ results'[Len(results) + 1] = r
    <2>1. results' \in Seq(Result) /\ Len(results') = Len(results) + 1
        <3>1. r \in Result
            <4>1. results' \in Seq(Result)
                BY DEF IInv, TypeOK, BatchType
            <4>2. Len(results') = Len(results) + 1 /\ results'[Len(results) + 1] = r
                BY <1>1, <1>3
            <4>3. Len(results) + 1 \in 1..Len(results')
                BY <1>3, <4>2, LenProperties
            <4> QED BY <4>1, <4>2, <4>3, ElementOfSeq
        <3> QED BY <1>1, <1>3, <3>1, AppendProperties
    <2>2. DOMAIN results = 1..Len(results) /\ Len(results) \in Nat
          /\ DOMAIN results' = 1..Len(results')
        BY <1>3, <2>1, LenProperties
    <2> QED BY <1>1, <1>3, <2>1, <2>2
<1>8. /\ \A m, n \in DOMAIN results : results[m].call = results[n].call => m = n
      /\ {results[n].call : n \in DOMAIN results}
            = {j \in DOMAIN op.calls : op.calls[j] \in DoneCall}
    BY DEF BInv, OneResultPerCall
<1>9. \A n \in DOMAIN results :
        /\ results[n].call \in DOMAIN op.calls /\ op.calls[results[n].call] \in DoneCall
        /\ results[n].call # i
    BY <1>8
<1>10. OneResultPerCall'
  <2>1. ASSUME NEW m \in DOMAIN results', NEW n \in DOMAIN results',
               results'[m].call = results'[n].call
        PROVE  m = n
    BY <1>2, <1>7, <1>8, <1>9, <2>1
  <2>2. {results'[n].call : n \in DOMAIN results'}
            = {results[n].call : n \in DOMAIN results} \cup {i}
    BY <1>2, <1>7
  <2>3. {j \in DOMAIN op'.calls : op'.calls[j] \in DoneCall}
            = {j \in DOMAIN op.calls : op.calls[j] \in DoneCall} \cup {i}
    BY <1>2, <1>6
  <2> QED BY <1>8, <2>1, <2>2, <2>3 DEF OneResultPerCall
<1>11. ArgumentsFollowCalls'
  <2>1. /\ op.auth # "standard" => args = {}
        /\ op.calls[Len(op.calls)] \in DoneCall =>
            /\ args = {}
            /\ op.auth = "standard" => \A j \in DOMAIN op.calls : op.calls[j] # "planned"
        /\ op.auth = "standard" /\ ~Parallel =>
            \A j \in DOMAIN op.calls : op.calls[j] \in PendingCall => j \in args
    BY <1>4, EmptySeq DEF BInv, ArgumentsFollowCalls
  <2>2. op.calls # << >> /\ op'.calls # << >> /\ Len(op.calls) \in DOMAIN op.calls
    BY <1>4, <1>6, EmptySeq
  <2>3. CASE i = Len(op.calls)
    <3>1. args' = {}
        BY <1>1, <2>3
    <3>2. op.auth = "standard" => \A j \in DOMAIN op'.calls : op'.calls[j] # "planned"
        BY <1>2, <1>6, <2>3
    <3>3. op.auth = "standard" /\ ~Parallel =>
            \A j \in DOMAIN op'.calls : op'.calls[j] \notin PendingCall
      <4> SUFFICES ASSUME ~Parallel, NEW j \in DOMAIN op'.calls
                   PROVE  op'.calls[j] \notin PendingCall
        OBVIOUS
      <4>1. CASE j = i
        BY <1>2, <1>6, <4>1
      <4>2. CASE j # i
        <5>1. j < i
            BY <1>4, <1>6, <2>3, <4>2
        <5> QED BY <1>6, <5>1 DEF InOrder, DoneCall, PendingCall
      <4> QED BY <4>1, <4>2
    <3> QED BY <1>5, <3>1, <3>2, <3>3 DEF ArgumentsFollowCalls
  <2>4. CASE i # Len(op.calls)
    <3>1. args' = args /\ op'.calls[Len(op'.calls)] = op.calls[Len(op.calls)]
        BY <1>1, <1>6, <2>2, <2>4
    <3>2. \A j \in DOMAIN op'.calls :
            /\ op'.calls[j] = "planned" => op.calls[j] = "planned"
            /\ op'.calls[j] \in PendingCall => op.calls[j] \in PendingCall
        BY <1>2, <1>6
    <3> QED BY <1>5, <1>6, <2>1, <2>2, <3>1, <3>2 DEF ArgumentsFollowCalls
  <2> QED BY <2>3, <2>4
<1>12. ResultsInOrder'
  <2> SUFFICES ASSUME InOrder PROVE ResultsInOrder'
    BY <1>5 DEF ResultsInOrder, InOrder
  <2>1. /\ \A j, l \in DOMAIN op.calls :
                l < j /\ op.calls[j] \in DoneCall => op.calls[l] \in DoneCall
        /\ \A m, n \in DOMAIN results : m < n => results[m].call < results[n].call
        /\ \A n \in DOMAIN results : results[n].body # "lost"
        /\ \A j \in Indices : tool[j] # "broken"
    BY DEF BInv, ResultsInOrder
  <2>2. \A j, l \in DOMAIN op'.calls :
            l < j /\ op'.calls[j] \in DoneCall => op'.calls[l] \in DoneCall
    BY <1>2, <1>6, <2>1
  <2>3. \A n \in DOMAIN results : results[n].call < i
    BY <1>4, <1>9, <2>1
  <2>4. \A m, n \in DOMAIN results' : m < n => results'[m].call < results'[n].call
    BY <1>2, <1>7, <2>1, <2>3
  <2>5. \A n \in DOMAIN results' : results'[n].body # "lost"
    BY <1>2, <1>7, <2>1
  <2>6. \A j \in Indices : tool'[j] # "broken"
    BY <1>1, <1>3, <1>4, <2>1
  <2> QED BY <2>2, <2>4, <2>5, <2>6 DEF ResultsInOrder
<1>13. ClearedAtOnce'
  <2> SUFFICES ASSUME op.auth = "adaptive" PROVE ClearedAtOnce'
    BY <1>5 DEF ClearedAtOnce
  <2>1. /\ \A j \in DOMAIN op.calls : op.calls[j] \notin PendingCall
        /\ \/ Cancelled(op)
           \/ \A j \in DOMAIN op.calls : op.calls[j] = "planned"
           \/ \A j \in DOMAIN op.calls : op.calls[j] # "planned"
    BY DEF BInv, ClearedAtOnce
  <2>2. \A j \in DOMAIN op'.calls : op'.calls[j] \notin PendingCall
    BY <1>2, <1>6, <2>1
  <2>3. Cancelled(op)' \/ \A j \in DOMAIN op'.calls : op'.calls[j] # "planned"
    BY <1>2, <1>5, <1>6, <2>1 DEF Cancelled
  <2> QED BY <2>2, <2>3 DEF ClearedAtOnce
<1>14. Executions'
  <2>1. \A j \in DOMAIN op.calls :
            /\ op.calls[j] \in UnstartedCall => ran[j] = 0
            /\ tool[j] = "launched" /\ ran[j] # 0 => op.calls[j] = "safe"
    BY DEF BInv, Executions
  <2>2. \A j \in DOMAIN op.calls : tool'[j] = IF j = i THEN "none" ELSE tool[j]
    BY <1>1, <1>3, <1>4
  <2> QED BY <1>1, <1>2, <1>6, <2>1, <2>2 DEF Executions
<1> QED BY <1>5, <1>10, <1>11, <1>12, <1>13, <1>14 DEF BInv, NoLeakedArguments

\* Preparing one call leaves the later planned calls in hand.
LEMMA PreparationKept ==
    ASSUME IInv, IInv', BInv, NEW i, Preparing(i), Prepared(i, op'),
           op'.auth = op.auth, op'.calls[i] # "planned", DOMAIN op'.calls = DOMAIN op.calls,
           \A j \in DOMAIN op.calls : j # i => op'.calls[j] = op.calls[j]
    PROVE  Preparation'
<1>1. /\ drv \in DriverState /\ drv.todo \subseteq DOMAIN op.calls /\ i \in drv.todo
      /\ \A j \in drv.todo : i <= j
    BY DEF IInv, TypeOK, Shape, Preparing
<1>2. /\ op.auth = "standard"
      /\ \A l \in drv.todo :
            /\ op.calls[l] = "planned"
            /\ \A j \in DOMAIN op.calls : j < l /\ op.calls[j] = "planned" => j \in drv.todo
            /\ ~Parallel => \A j \in DOMAIN op.calls : j < l => op.calls[j] \in DoneCall
    BY DEF BInv, Preparation, Preparing
<1>3. drv'.todo = drv.todo \ {i} /\ (drv.todo = {i} => drv'.pc = "plan")
    BY <1>1 DEF Prepared, DriverState
<1>4. DOMAIN op.calls \subseteq Int
    BY CallsType DEF IInv, TypeOK, LaneType, Shape
<1>5. ~Parallel => drv.todo = {i}
  <2> SUFFICES ASSUME ~Parallel, NEW l \in drv.todo, l # i PROVE FALSE
    BY <1>1
  <2>1. i < l /\ i \in DOMAIN op.calls
    BY <1>1, <1>4
  <2> QED BY <1>1, <1>2, <2>1 DEF DoneCall
<1>6. \A l \in drv'.todo :
        /\ op'.calls[l] = "planned"
        /\ \A j \in DOMAIN op'.calls : j < l /\ op'.calls[j] = "planned" => j \in drv'.todo
    BY <1>1, <1>2, <1>3
<1>7. CASE Parallel
    BY <1>2, <1>6, <1>7 DEF Preparation
<1>8. CASE ~Parallel
    BY <1>3, <1>5, <1>8 DEF Preparation
<1> QED BY <1>7, <1>8

\* Preparing a call, at once or by launching it, keeps the invariant.
LEMMA PrepareBatch ==
    ASSUME IInv, IInv', BInv, NEW i, PrepareImmediate(i) \/ PrepareLaunch(i)
    PROVE  BInv'
<1>1. Preparing(i)
    BY DEF PrepareImmediate, PrepareLaunch
<1>2. /\ op.k = "tools" /\ i \in DOMAIN op.calls /\ op \in OpState /\ Len(op.calls) <= MaxCalls
      /\ i \in drv.todo /\ \A j \in drv.todo : i <= j
      /\ tool \in [Indices -> {"none", "launched", "started", "refused", "broken"}]
    BY <1>1, PreparingType DEF Preparing, IInv, TypeOK, LaneType, BatchType, Shape
<1>3. /\ op.auth = "standard" /\ op.calls[i] = "planned"
      /\ \A j \in DOMAIN op.calls : j < i => op.calls[j] # "planned"
      /\ ~Parallel => \A j \in DOMAIN op.calls : j < i => op.calls[j] \in DoneCall
    <2>1. /\ op.auth = "standard" /\ op.calls[i] = "planned"
          /\ \A j \in DOMAIN op.calls : j < i /\ op.calls[j] = "planned" => j \in drv.todo
          /\ ~Parallel => \A j \in DOMAIN op.calls : j < i => op.calls[j] \in DoneCall
        BY <1>1, <1>2 DEF BInv, Preparation, Preparing
    <2>2. DOMAIN op.calls = 1..Len(op.calls) /\ Len(op.calls) \in Nat
        BY <1>2, CallsType
    <2> QED BY <1>2, <2>1, <2>2
<1>4. DOMAIN op.calls = 1..Len(op.calls) /\ Len(op.calls) \in Nat
      /\ DOMAIN op.calls \subseteq Indices /\ op.calls \in Seq(CallStatus)
    BY <1>2, CallsType DEF OpState
<1>5. CASE PrepareImmediate(i)
  <2>1. PICK terminate \in BOOLEAN : CommitResult(i, "blocked", terminate)
    BY <1>5 DEF PrepareImmediate
  <2> DEFINE c == IF terminate /\ ~Cancelled(op) THEN "terminated" ELSE "done"
  <2>2. op' = [op EXCEPT !.calls[i] = c] /\ c \in CallStatus /\ c # "planned"
    BY <2>1 DEF CommitResult, Settled, CallStatus, DoneCall
  <2> HIDE DEF c
  <2>3. op'.calls = [op.calls EXCEPT ![i] = c] /\ op'.auth = op.auth
    BY <1>2, <2>2 DEF OpState
  <2>4. /\ DOMAIN op'.calls = DOMAIN op.calls /\ op'.calls[i] = c
        /\ \A j \in DOMAIN op.calls : j # i => op'.calls[j] = op.calls[j]
    BY <1>2, <1>4, <2>2, <2>3, ExceptSeq
  <2>5. Preparation'
    BY <1>1, <1>5, <2>2, <2>3, <2>4, PreparationKept DEF PrepareImmediate
  <2>6. op.calls[i] \notin DoneCall
    BY <1>3 DEF DoneCall
  <2>7. InOrder => \A j \in DOMAIN op.calls : j < i => op.calls[j] \in DoneCall
    BY <1>3 DEF InOrder
  <2>8. i = Len(op.calls) => \A j \in DOMAIN op.calls : j # i => op.calls[j] # "planned"
    BY <1>3, <1>4
  <2> QED BY <1>2, <1>3, <2>1, <2>5, <2>6, <2>7, <2>8, ResultBatch
<1>6. CASE PrepareLaunch(i)
  <2>1. CASE Cancelled(op)
    BY <1>6, <2>1, ReplanBatch DEF PrepareLaunch
  <2>2. CASE ~Cancelled(op)
    <3>1. PICK replay \in PendingCall : op' = [op EXCEPT !.calls[i] = replay]
        BY <1>6, <2>2 DEF PrepareLaunch
    <3>2. /\ args' = args \cup {i} /\ tool' = [tool EXCEPT ![i] = "launched"]
          /\ Prepared(i, op') /\ ran' = ran /\ results' = results
        BY <1>6, <2>2 DEF PrepareLaunch
    <3>3. /\ replay \in CallStatus /\ replay # "planned" /\ replay \notin DoneCall
          /\ replay \notin UnstartedCall
        BY DEF CallStatus, PendingCall, DoneCall, UnstartedCall
    <3>4. op'.calls = [op.calls EXCEPT ![i] = replay] /\ op'.auth = op.auth /\ op'.k = "tools"
        BY <1>2, <3>1 DEF OpState
    <3>5. /\ DOMAIN op'.calls = DOMAIN op.calls /\ Len(op'.calls) = Len(op.calls)
          /\ op'.calls[i] = replay
          /\ \A j \in DOMAIN op.calls : j # i => op'.calls[j] = op.calls[j]
        BY <1>2, <1>4, <3>3, <3>4, ExceptSeq
    <3>6. \A j \in DOMAIN op.calls : op'.calls[j] \in DoneCall <=> op.calls[j] \in DoneCall
        BY <1>3, <3>3, <3>5 DEF DoneCall
    <3>7. Preparation'
        BY <1>1, <3>2, <3>3, <3>4, <3>5, PreparationKept
    <3>8. OneResultPerCall'
        <4>1. {j \in DOMAIN op'.calls : op'.calls[j] \in DoneCall}
                = {j \in DOMAIN op.calls : op.calls[j] \in DoneCall}
            BY <3>5, <3>6
        <4> QED BY <1>2, <3>2, <4>1 DEF BInv, OneResultPerCall
    <3>9. ArgumentsFollowCalls'
        <4>1. op'.calls # << >> /\ op.calls # << >> /\ Len(op.calls) \in DOMAIN op.calls
            BY <1>2, <1>4, <3>5, EmptySeq
        <4>2. op.calls[Len(op.calls)] \notin DoneCall
            BY <1>2, <1>3, <4>1 DEF BInv, ArgumentsFollowCalls
        <4>3. op'.calls[Len(op'.calls)] \notin DoneCall
            BY <3>5, <3>6, <4>1, <4>2
        <4>4. ~Parallel => \A j \in DOMAIN op'.calls : op'.calls[j] \in PendingCall => j \in args'
            BY <1>2, <1>3, <3>2, <3>5 DEF BInv, ArgumentsFollowCalls
        <4> QED BY <1>3, <3>4, <4>1, <4>3, <4>4 DEF ArgumentsFollowCalls
    <3>10. ResultsInOrder'
        <4>1. \A j \in Indices : tool[j] # "broken" => tool'[j] # "broken"
            BY <1>2, <3>2
        <4>2. \A j, l \in DOMAIN op'.calls :
                    (l < j /\ op.calls[j] \in DoneCall => op.calls[l] \in DoneCall)
                    => (l < j /\ op'.calls[j] \in DoneCall => op'.calls[l] \in DoneCall)
            BY <3>5, <3>6
        <4> QED BY <1>2, <3>2, <3>4, <3>5, <4>1, <4>2 DEF BInv, ResultsInOrder, InOrder
    <3>11. ClearedAtOnce'
        BY <1>3, <3>4 DEF ClearedAtOnce
    <3>12. Executions'
        <4>1. ran[i] = 0
            BY <1>2, <1>3 DEF BInv, Executions, UnstartedCall
        <4>2. \A j \in DOMAIN op.calls : j # i => tool'[j] = tool[j]
            BY <1>2, <1>4, <3>2
        <4> QED BY <1>2, <3>2, <3>3, <3>5, <4>1, <4>2 DEF BInv, Executions
    <3> QED BY <3>4, <3>7, <3>8, <3>9, <3>10, <3>11, <3>12 DEF BInv, NoLeakedArguments
  <2> QED BY <2>1, <2>2
<1> QED BY <1>5, <1>6

\* So does settling or recovering the first open call.
LEMMA SettleBatch ==
    ASSUME IInv, IInv', BInv, NEW i \in Indices,
           SettleTool(i) \/ SettleSynthetic(i) \/ RecoverTool(i)
    PROVE  BInv'
<1>1. Planning /\ drv.snap.k = "tools" /\ FirstOpen(drv.snap, i)
    BY DEF SettleTool, SettleSynthetic, RecoverTool
<1>2. /\ op.k = "tools" /\ op.calls = drv.snap.calls /\ op.auth = drv.snap.auth
      /\ op \in OpState /\ Len(op.calls) <= MaxCalls
      /\ Cancelled(drv.snap) => Cancelled(op)
    BY <1>1, Seen DEF SamePhase
<1>3. i \in DOMAIN op.calls /\ op.calls[i] \notin DoneCall
      /\ \A j \in 1..(i - 1) : op.calls[j] \in DoneCall
    BY <1>1, <1>2 DEF FirstOpen
<1>4. DOMAIN op.calls = 1..Len(op.calls) /\ Len(op.calls) \in Nat
    BY <1>2, CallsType
<1>5. \A j \in DOMAIN op.calls : j < i => op.calls[j] \in DoneCall
    BY <1>3, <1>4
<1>6. i = Len(op.calls) => \A j \in DOMAIN op.calls : j # i => op.calls[j] # "planned"
    BY <1>4, <1>5 DEF DoneCall
<1>7. ASSUME NEW body, NEW terminate, CommitResult(i, body, terminate), Follow(op'),
             InOrder => body # "lost",
             op.auth = "adaptive" /\ op.calls[i] = "planned" => Cancelled(op)
      PROVE  BInv'
  <2>1. op' \in OpState
    BY DEF IInv, TypeOK, LaneType
  <2>2. Preparation'
    BY <1>7, <2>1, FollowType, NoDriverType DEF IInv, Preparation
  <2> QED BY <1>2, <1>3, <1>5, <1>6, <1>7, <2>2, ResultBatch
<1>8. CASE SettleTool(i)
  <2> DEFINE body == CASE tool[i] = "refused" -> "interrupted"
                       [] tool[i] = "started" /\ (op.auth = "entry" \/ i \in args) -> "live"
                       [] OTHER -> "lost"
  <2>1. PICK terminate \in BOOLEAN : CommitResult(i, body, terminate) /\ Follow(op')
    BY <1>8 DEF SettleTool
  <2>2. op.calls[i] \in PendingCall /\ tool[i] \in {"started", "refused", "broken"}
    BY <1>2, <1>8 DEF SettleTool
  <2>3. InOrder => body # "lost"
    <3> SUFFICES ASSUME InOrder PROVE body # "lost"
        OBVIOUS
    <3>1. tool[i] # "broken"
        BY <1>2 DEF BInv, ResultsInOrder
    <3>2. op.auth \in {"standard", "adaptive", "entry"}
        BY <1>2 DEF OpState
    <3>3. op.auth # "adaptive"
        BY <1>2, <1>3, <2>2 DEF BInv, ClearedAtOnce
    <3>4. op.auth = "standard" => i \in args
        BY <1>2, <1>3, <2>2 DEF BInv, ArgumentsFollowCalls, InOrder
    <3> QED BY <2>2, <3>1, <3>2, <3>3, <3>4
  <2>4. op.calls[i] # "planned"
    BY <2>2 DEF PendingCall
  <2> HIDE DEF body
  <2> QED BY <1>7, <2>1, <2>3, <2>4
<1>9. CASE SettleSynthetic(i)
  <2> DEFINE body == IF drv.snap.calls[i] = "truncated" THEN "truncated" ELSE "blocked"
  <2>1. CommitResult(i, body, FALSE) /\ Follow(op') /\ body # "lost"
    BY <1>9 DEF SettleSynthetic
  <2>2. op.auth = "adaptive" /\ op.calls[i] = "planned" => Cancelled(op)
    BY <1>2, <1>9 DEF SettleSynthetic
  <2> HIDE DEF body
  <2> QED BY <1>7, <2>1, <2>2
<1>10. CASE RecoverTool(i)
  <2>1. op.calls[i] \in PendingCall /\ op.calls[i] # "planned"
    BY <1>2, <1>10 DEF RecoverTool, PendingCall
  <2>2. CASE CommitResult(i, "interrupted", FALSE) /\ Follow(op')
    BY <1>7, <2>1, <2>2
  <2>3. CASE ~(CommitResult(i, "interrupted", FALSE) /\ Follow(op'))
    <3>1. /\ op.calls[i] = "safe" /\ tool' = [tool EXCEPT ![i] = "launched"]
          /\ UNCHANGED <<op, drv, args, ran, results>>
        BY <1>2, <1>10, <2>3 DEF RecoverTool, Replayable
    <3>2. tool \in [Indices -> {"none", "launched", "started", "refused", "broken"}]
          /\ DOMAIN op.calls \subseteq Indices
        BY <1>2, CallsType DEF IInv, TypeOK, BatchType
    <3>3. ResultsInOrder'
        <4>1. \A j \in Indices : tool[j] # "broken" => tool'[j] # "broken"
            BY <3>1, <3>2
        <4> QED BY <3>1, <4>1 DEF BInv, ResultsInOrder, InOrder
    <3>4. Executions'
        <4>1. \A j \in DOMAIN op.calls : j # i => tool'[j] = tool[j]
            BY <3>1, <3>2
        <4> QED BY <3>1, <4>1 DEF BInv, Executions
    <3>5. /\ NoLeakedArguments' /\ OneResultPerCall' /\ ArgumentsFollowCalls'
          /\ ClearedAtOnce' /\ Preparation'
        BY <3>1 DEF BInv, NoLeakedArguments, OneResultPerCall, ArgumentsFollowCalls,
                    ClearedAtOnce, Preparation
    <3> QED BY <3>3, <3>4, <3>5 DEF BInv
  <2> QED BY <2>2, <2>3
<1> QED BY <1>8, <1>9, <1>10

\* Clearing an adaptive batch starts from calls none of which has run.
LEMMA ClearBatch ==
    ASSUME IInv, IInv', BInv, ClearTools
    PROVE  BInv'
<1>1. Planning /\ drv.snap.k = "tools" /\ drv.snap.auth = "adaptive"
      /\ \E i \in DOMAIN drv.snap.calls : drv.snap.calls[i] = "planned"
    BY DEF ClearTools
<1>2. /\ op.k = "tools" /\ op.calls = drv.snap.calls /\ op.auth = "adaptive"
      /\ op \in OpState /\ Len(op.calls) <= MaxCalls
    BY <1>1, Seen DEF SamePhase
<1>3. DOMAIN op.calls = 1..Len(op.calls) /\ Len(op.calls) \in Nat
      /\ DOMAIN op.calls \subseteq Indices
    BY <1>2, CallsType
<1>4. CASE Cancelled(op)
    BY <1>4, ReplanBatch DEF ClearTools
<1>5. CASE ~Cancelled(op)
  <2>1. PICK decided \in [DOMAIN op.calls -> {"planned"} \cup PendingCall] :
        /\ op' = [op EXCEPT !.auth = "entry", !.calls = decided]
        /\ tool' = [i \in Indices |-> IF i \in DOMAIN decided /\ decided[i] # "planned"
                                      THEN "launched" ELSE "none"]
        /\ Follow(op') /\ UNCHANGED <<args, ran, results>>
    BY <1>5 DEF ClearTools
  <2>2. op'.k = "tools" /\ op'.auth = "entry" /\ op'.calls = decided
    BY <1>2, <2>1 DEF OpState
  <2>3. \A i \in DOMAIN op.calls : op.calls[i] = "planned"
    BY <1>1, <1>2, <1>5 DEF BInv, ClearedAtOnce
  <2>4. /\ \A i \in DOMAIN op.calls : op.calls[i] \notin DoneCall /\ ran[i] = 0
        /\ DOMAIN results = {} /\ args = {}
    <3>1. \A i \in DOMAIN op.calls : op.calls[i] \notin DoneCall /\ ran[i] = 0
        BY <1>2, <2>3 DEF BInv, Executions, DoneCall, UnstartedCall
    <3>2. DOMAIN results = {}
        <4>1. {results[n].call : n \in DOMAIN results} = {}
            BY <1>2, <3>1 DEF BInv, OneResultPerCall
        <4> QED BY <4>1
    <3>3. args = {}
        BY <1>2 DEF BInv, ArgumentsFollowCalls
    <3> QED BY <3>1, <3>2, <3>3
  <2>5. \A i \in DOMAIN decided : decided[i] \notin DoneCall
    BY <2>1 DEF PendingCall, DoneCall
  <2>6. DOMAIN results' = {} /\ OneResultPerCall'
    BY <2>1, <2>2, <2>4, <2>5 DEF OneResultPerCall
  <2>7. ArgumentsFollowCalls'
    <3>1. op'.calls # << >> => Len(op'.calls) \in DOMAIN decided
        <4>1. op'.calls \in Seq(CallStatus)
            BY DEF IInv, TypeOK, LaneType, OpState
        <4> QED BY <2>2, <4>1, EmptySeq, LenProperties
    <3> QED BY <2>1, <2>2, <2>4, <2>5, <3>1 DEF ArgumentsFollowCalls
  <2>8. ResultsInOrder'
    <3>1. \A i \in Indices : tool'[i] # "broken"
        BY <2>1
    <3> QED BY <2>2, <2>5, <2>6, <3>1 DEF ResultsInOrder
  <2>9. ClearedAtOnce'
    BY <2>2 DEF ClearedAtOnce
  <2>10. Executions'
    BY <2>1, <2>2, <2>4 DEF Executions
  <2>11. Preparation'
    <3>1. op' \in OpState
        BY DEF IInv, TypeOK, LaneType
    <3> QED BY <2>1, <3>1, FollowType, NoDriverType DEF IInv, Preparation
  <2> QED BY <2>2, <2>6, <2>7, <2>8, <2>9, <2>10, <2>11 DEF BInv, NoLeakedArguments
<1> QED BY <1>4, <1>5

\* A preparation begins with what it will walk, and a batch is left only once
\* its last call is settled and its arguments are gone.
LEMMA WholeBatch ==
    ASSUME IInv, IInv', BInv,
           PrepareTools \/ ToolsDone \/ CancelToolsDone \/ CancelDeferred
    PROVE  BInv'
<1>1. CASE PrepareTools
  <2>1. Planning /\ drv.snap.auth = "standard" /\ drv.snap.k = "tools"
    BY <1>1 DEF PrepareTools
  <2>2. PICK i \in DOMAIN drv.snap.calls :
            /\ FirstOpen(drv.snap, i) /\ drv.snap.calls[i] = "planned"
            /\ drv' = [drv EXCEPT !.pc = "prep",
                         !.todo = IF Parallel THEN Planned(drv.snap) ELSE {i}]
            /\ UNCHANGED <<op, batchVars>>
    BY <1>1 DEF PrepareTools
  <2>3. /\ op.calls = drv.snap.calls /\ op.auth = "standard" /\ drv \in DriverState
        /\ op \in OpState /\ Len(op.calls) <= MaxCalls
    BY <2>1, Seen DEF SamePhase
  <2>4. DOMAIN op.calls = 1..Len(op.calls) /\ Len(op.calls) \in Nat
    BY <2>3, CallsType
  <2>5. \A j \in DOMAIN op.calls : j < i => op.calls[j] \in DoneCall
    BY <2>2, <2>3, <2>4 DEF FirstOpen
  <2>6. drv'.todo = IF Parallel THEN Planned(drv.snap) ELSE {i}
    BY <2>2, <2>3 DEF DriverState
  <2>7. Preparation'
    <3>1. CASE Parallel
        BY <2>2, <2>3, <2>6, <3>1 DEF Preparation, Planned
    <3>2. CASE ~Parallel
        <4>1. \A j \in DOMAIN op.calls : j < i => op.calls[j] # "planned"
            BY <2>5 DEF DoneCall
        <4> QED BY <2>2, <2>3, <2>5, <2>6, <3>2, <4>1 DEF Preparation
    <3> QED BY <3>1, <3>2
  <2> QED BY <2>2, <2>7
          DEF BInv, NoLeakedArguments, OneResultPerCall, ArgumentsFollowCalls, ResultsInOrder,
              InOrder, ClearedAtOnce, Executions, batchVars
<1>2. CASE ToolsDone \/ CancelToolsDone
  <2>1. CASE Replan
    BY <2>1, ReplanBatch
  <2>2. CASE ~Replan
    <3>1. Planning /\ drv.snap.k = "tools" /\ AllDone(drv.snap)
        BY <1>2 DEF ToolsDone, CancelToolsDone
    <3>2. op.k = "tools" /\ op \in OpState /\ Len(op.calls) <= MaxCalls
          /\ \A i \in DOMAIN op.calls : op.calls[i] \in DoneCall
        BY <3>1, Seen DEF AllDone
    <3>3. op.calls # << >> => Len(op.calls) \in DOMAIN op.calls
        <4>1. op.calls \in Seq(CallStatus)
            BY <3>2 DEF OpState
        <4> QED BY <4>1, EmptySeq, LenProperties
    <3>4. args = {}
        BY <3>2, <3>3 DEF BInv, ArgumentsFollowCalls
    <3>5. /\ \E k \in {"need", "may"} : op' = [op EXCEPT !.k = k, !.skip = FALSE,
                                                 !.calls = << >>, !.auth = "standard"]
          /\ args' = args
        BY <1>2, <2>2 DEF ToolsDone, CancelToolsDone, Cas, batchVars
    <3>6. op'.k # "tools"
        BY <3>2, <3>5 DEF OpState
    <3> QED BY <3>4, <3>5, <3>6, BatchAbsent
  <2> QED BY <2>1, <2>2
<1>3. CASE CancelDeferred
  <2>1. SameBatch
    BY <1>3 DEF CancelDeferred, SameBatch, batchVars
  <2> QED BY <2>1, BatchKept
<1> QED BY <1>1, <1>2, <1>3

\* The start check launches what was never run, or what is safe to run again.
LEMMA StartBatch ==
    ASSUME IInv, IInv', BInv, NEW i \in Indices, ToolStart(i)
    PROVE  BInv'
<1>1. /\ tool[i] = "launched"
      /\ \/ tool' = [tool EXCEPT ![i] = "refused"] /\ ran' = ran
         \/ /\ op.auth = "standard" /\ i \notin args
            /\ tool' = [tool EXCEPT ![i] = "broken"] /\ ran' = ran
         \/ /\ tool' = [tool EXCEPT ![i] = "started"]
            /\ ran' = [ran EXCEPT ![i] = IF ran[i] = 2 THEN 2 ELSE ran[i] + 1]
      /\ UNCHANGED <<op, drv, args, results>>
    BY DEF ToolStart
<1>2. /\ tool \in [Indices -> {"none", "launched", "started", "refused", "broken"}]
      /\ ran \in [Indices -> 0..2] /\ op \in OpState /\ Len(op.calls) <= MaxCalls
    BY DEF IInv, TypeOK, BatchType, LaneType, Shape
<1>3. op.k = "tools" /\ i \in DOMAIN op.calls /\ op.calls[i] \in PendingCall
      /\ DOMAIN op.calls \subseteq Indices
    BY <1>1, <1>2, CallsType DEF IInv, NoOrphanedEffect
<1>4. ResultsInOrder'
  <2>1. InOrder => \A j \in Indices : tool'[j] # "broken"
    <3> SUFFICES ASSUME InOrder PROVE \A j \in Indices : tool'[j] # "broken"
        OBVIOUS
    <3>1. \A j \in Indices : tool[j] # "broken"
        BY <1>3 DEF BInv, ResultsInOrder
    <3>2. op.auth = "standard" => i \in args
        BY <1>3 DEF BInv, ArgumentsFollowCalls, InOrder
    <3> QED BY <1>1, <1>2, <3>1, <3>2
  <2> QED BY <1>1, <2>1 DEF BInv, ResultsInOrder, InOrder
<1>5. Executions'
  <2>1. ASSUME NEW j \in DOMAIN op.calls
        PROVE  /\ op.calls[j] \in UnstartedCall => ran'[j] = 0
               /\ tool'[j] = "launched" /\ ran'[j] # 0 => op.calls[j] = "safe"
    <3>1. CASE j = i
        BY <1>1, <1>2, <1>3, <3>1 DEF UnstartedCall, PendingCall
    <3>2. CASE j # i
        <4>1. tool'[j] = tool[j] /\ ran'[j] = ran[j]
            BY <1>1, <1>2, <1>3, <3>2
        <4> QED BY <1>3, <4>1 DEF BInv, Executions
    <3> QED BY <3>1, <3>2
  <2> QED BY <1>1, <2>1 DEF Executions
<1>6. /\ NoLeakedArguments' /\ OneResultPerCall' /\ ArgumentsFollowCalls'
      /\ ClearedAtOnce' /\ Preparation'
    BY <1>1 DEF BInv, NoLeakedArguments, OneResultPerCall, ArgumentsFollowCalls,
                ClearedAtOnce, Preparation
<1> QED BY <1>4, <1>5, <1>6 DEF BInv

\* Every step of the harness keeps the invariant of the batch.
LEMMA BatchStep == IInv /\ IInv' /\ BInv /\ [Next]_vars => BInv'
<1> SUFFICES ASSUME IInv, IInv', BInv, [Next]_vars PROVE BInv'
    OBVIOUS
<1>1. CASE Caller
    BY <1>1, CallerBatch
<1>2. CASE DriverStep
    BY <1>2, CheckpointBatch, GenerationBatch, PrepareBatch, SettleBatch, ClearBatch, WholeBatch
       DEF DriverStep
<1>3. CASE EffectStep
  <2>1. CASE \E i \in Indices : ToolStart(i)
    BY <2>1, StartBatch
  <2>2. CASE GenerationStart \/ CancelDeferredEnds
    <3>1. SameBatch
        BY <2>2 DEF GenerationStart, CancelDeferredEnds, SameBatch, batchVars
    <3> QED BY <3>1, BatchKept
  <2> QED BY <1>3, <2>1, <2>2 DEF EffectStep
<1>4. CASE TimerDue \/ UNCHANGED vars
  <2>1. SameBatch
    BY <1>4 DEF TimerDue, vars, SameBatch, batchVars
  <2> QED BY <2>1, BatchKept
<1>5. CASE Crash
  <2>1. SameBatch
    BY <1>5, NoDriverType DEF Crash, SameBatch
  <2> QED BY <2>1, BatchKept
<1> QED BY <1>1, <1>2, <1>3, <1>4, <1>5 DEF Next

\* The invariant of the batch holds in every reachable state of the harness.
THEOREM BatchInvariance == Spec => []BInv
<1>1. Init => BInv
  <2> SUFFICES ASSUME Init PROVE BInv
    OBVIOUS
  <2>1. op.k # "tools" /\ args = {} /\ ~drv.on
    BY NewRunType, NoDriverType DEF Init
  <2> QED BY <2>1 DEF BInv, NoLeakedArguments, OneResultPerCall, ArgumentsFollowCalls,
                      ResultsInOrder, ClearedAtOnce, Executions, Preparation
<1> QED BY <1>1, BatchStep, Inductive, Invariance, PTL DEF Spec

\* Each call of a batch gets exactly one result, whichever of the six ways of
\* settling it the driver takes and however often the process is lost.
THEOREM EveryCallIsAnsweredOnce == Spec => []OneResultPerCall
<1>1. BInv => OneResultPerCall
    BY DEF BInv
<1> QED BY <1>1, BatchInvariance, PTL

\* No argument register outlives the batch it belongs to.
THEOREM ArgumentsAreCleared == Spec => []NoLeakedArguments
<1>1. BInv => NoLeakedArguments
    BY DEF BInv
<1> QED BY <1>1, BatchInvariance, PTL

\* Where calls are cleared as one batch or run one at a time, results come in
\* source order and every live call still has its arguments.
THEOREM ResultsComeInOrder == Spec => []OrderedUnlessInterleaved
<1>1. BInv => OrderedUnlessInterleaved
  <2> SUFFICES ASSUME BInv, op.k = "tools", op.auth = "entry" \/ ~Parallel
               PROVE  /\ \A m, n \in DOMAIN results : m < n => results[m].call < results[n].call
                      /\ \A n \in DOMAIN results : results[n].body # "lost"
                      /\ ~Unrestorable
    BY DEF OrderedUnlessInterleaved
  <2>1. InOrder
    BY DEF InOrder
  <2>2. ~Unrestorable
    BY DEF BInv, ArgumentsFollowCalls, Unrestorable
  <2> QED BY <2>1, <2>2 DEF BInv, ResultsInOrder
<1> QED BY <1>1, BatchInvariance, PTL

\* A step that runs a call again runs one captured as replay-safe.
LEMMA ReplayStep ==
    IInv /\ BInv /\ [Next]_vars =>
        \A i \in Indices : 0 < ran[i] /\ ran[i] < ran'[i] => op.calls[i] = "safe"
<1> SUFFICES ASSUME IInv, BInv, [Next]_vars, NEW i \in Indices, 0 < ran[i], ran[i] < ran'[i]
             PROVE  op.calls[i] = "safe"
    OBVIOUS
<1>1. ran \in [Indices -> 0..2] /\ op \in OpState /\ Len(op.calls) <= MaxCalls
    BY DEF IInv, TypeOK, BatchType, LaneType, Shape
<1>2. ran' # ran /\ ran' # [j \in Indices |-> 0]
    BY <1>1
<1>3. ToolStart(i)
  <2>1. ~Caller
    BY <1>2 DEF Caller, Accept, AcceptContinuation, Resume, NextRun, AppendPlaced, CancelQueued,
                Withdraw, Abort, Enqueue, AppendDeferred, batchVars
  <2>2. ~DriverStep
    <3>1. ~(Hydrate \/ Drain \/ HookStart \/ \E extend \in BOOLEAN : HookSettle(extend))
        BY <1>2 DEF Hydrate, Drain, HookStart, HookSettle, Replan, batchVars
    <3>2. ~(FinishCompleted \/ FinishFailed \/ FinishAborted \/ FinishTerminated)
        BY <1>2 DEF FinishCompleted, FinishFailed, FinishAborted, FinishTerminated, Terminal,
                    batchVars
    <3>3. ~(NeedAssistant \/ Dispatch \/ RecoverAttempt \/ RetryReady \/ Sleep \/ Wake)
        BY <1>2 DEF NeedAssistant, Dispatch, RecoverAttempt, RetryReady, Sleep, Wake, Cas,
                    Replan, batchVars
    <3>4. ~(SettleGeneration \/ SettleInterrupted)
        BY <1>2 DEF SettleGeneration, SettleInterrupted, SettleAssistant
    <3>5. ~(PrepareTools \/ ClearTools \/ ToolsDone \/ CancelToolsDone \/ CancelDeferred)
        BY <1>2 DEF PrepareTools, ClearTools, ToolsDone, CancelToolsDone, CancelDeferred, Cas,
                    Replan, batchVars
    <3>6. ~(\E j \in Indices : PrepareImmediate(j) \/ PrepareLaunch(j) \/ SettleTool(j)
                               \/ SettleSynthetic(j) \/ RecoverTool(j))
        BY <1>2 DEF PrepareImmediate, PrepareLaunch, SettleTool, SettleSynthetic, RecoverTool,
                    CommitResult, Replan, batchVars
    <3> QED BY <3>1, <3>2, <3>3, <3>4, <3>5, <3>6 DEF DriverStep
  <2>3. ~(GenerationStart \/ CancelDeferredEnds \/ TimerDue \/ Crash \/ UNCHANGED vars)
    BY <1>2 DEF GenerationStart, CancelDeferredEnds, TimerDue, Crash, vars, batchVars
  <2>4. PICK j \in Indices : ToolStart(j)
    BY <2>1, <2>2, <2>3 DEF Next, EffectStep
  <2>5. j = i
    <3>1. ran' = ran \/ ran' = [ran EXCEPT ![j] = IF ran[j] = 2 THEN 2 ELSE ran[j] + 1]
        BY <2>4 DEF ToolStart
    <3>2. j # i => ran'[i] = ran[i]
        BY <1>1, <3>1
    <3> QED BY <1>1, <3>2
  <2> QED BY <2>4, <2>5
<1>4. tool[i] = "launched"
    BY <1>3 DEF ToolStart
<1>5. op.k = "tools" /\ i \in DOMAIN op.calls
    BY <1>4 DEF IInv, NoOrphanedEffect
<1> QED BY <1>1, <1>4, <1>5 DEF BInv, Executions

\* A tool call is executed a second time only if it was captured as
\* replay-safe: after any crash, in any batch, under every setting.
THEOREM OnlySafeCallsAreReplayed == Spec => NoUnsafeReplay
<1>1. IInv /\ BInv /\ [Next]_vars =>
        [\A i \in Indices : 0 < ran[i] /\ ran[i] < ran'[i] => op.calls[i] = "safe"]_vars
    BY ReplayStep
<1> QED BY <1>1, Invariance, BatchInvariance, PTL DEF Spec, NoUnsafeReplay
-----------------------------------------------------------------------------
(***************************************************************************)
(* Queues and fates                                                        *)
(***************************************************************************)
Ascending(s) == \A m, n \in DOMAIN s : m < n => s[m] < s[n]

\* Entries that came by one queue precede whatever still waits in it.
AheadOf(P, via, s) == \A n \in DOMAIN P : P[n].via = via => \A x \in Range(s) : P[n].id < x

\* Every list is in order of acceptance, no two lists share an item, and the
\* pending.entry registers are those of the items in the lists.
ListsApart ==
    /\ Ascending(nextRun) /\ \A q \in Queues : Ascending(op[q])
    /\ \A q \in Queues : Range(nextRun) \cap Range(op[q]) = {}
    /\ \A q, r \in Queues : q # r => Range(op[q]) \cap Range(op[r]) = {}
    /\ pend = Range(nextRun) \cup Queued(op)

\* What was placed by a queue lies ahead of what the queue still holds.
PlacedAhead ==
    /\ AheadOf(placed, "next", nextRun) /\ AheadOf(placed, "steer", op.steer)
    /\ AheadOf(placed, "follow", op.follow) /\ AheadOf(placed, "writes", op.writes)

\* Lists are drained aside only by the cancel marker, and a failure drain
\* never skips the inbox.
DrainedByCancel ==
    /\ ~Cancelled(op) => op.dSteer = << >> /\ op.dFollow = << >>
    /\ op.k = "failure" => ~op.skip

QInv ==
    /\ ListsApart /\ PlacedAhead /\ DrainedByCancel
    /\ EveryItemHasOneFate /\ QueuesAreFifo /\ DiscardsAreDeliberate

\* Items of a queue are natural numbers.
LEMMA IdsAreNumbers == Ids \subseteq Nat
BY BoundsAssumption DEF Ids

\* What a list contains, in terms of its positions.
LEMMA ListContents ==
    ASSUME NEW s \in Seq(Ids)
    PROVE  /\ DOMAIN s = 1..Len(s) /\ Len(s) \in Nat
           /\ \A n \in 1..Len(s) : s[n] \in Ids /\ s[n] \in Range(s)
           /\ \A x \in Range(s) : x \in Ids /\ \E n \in 1..Len(s) : x = s[n]
<1>1. DOMAIN s = 1..Len(s) /\ Len(s) \in Nat
    BY LenProperties
<1>2. \A n \in 1..Len(s) : s[n] \in Ids
    BY ElementOfSeq
<1>3. Range(s) = {s[n] : n \in DOMAIN s}
    BY DEF Range
<1> QED BY <1>1, <1>2, <1>3

\* The empty list contains nothing and is in order.
LEMMA EmptyList ==
    /\ Range(<< >>) = {} /\ Ascending(<< >>)
    /\ \A P, via : AheadOf(P, via, << >>)
BY DEF Range, Ascending, AheadOf

\* A list that contains nothing is empty.
LEMMA EmptyRange ==
    ASSUME NEW s \in Seq(Ids), Range(s) = {}
    PROVE  s = << >>
<1>1. Len(s) \in Nat /\ \A n \in 1..Len(s) : s[n] \in Range(s)
    BY ListContents
<1>2. Len(s) = 0
    BY <1>1
<1> QED BY <1>2, EmptySeq

\* Appending the latest item.
LEMMA AppendLatest ==
    ASSUME NEW s \in Seq(Ids), NEW x \in Ids, Ascending(s), \A y \in Range(s) : y < x
    PROVE  /\ Append(s, x) \in Seq(Ids) /\ Ascending(Append(s, x))
           /\ Range(Append(s, x)) = Range(s) \cup {x}
<1> DEFINE t == Append(s, x)
<1>1. /\ t \in Seq(Ids) /\ Len(t) = Len(s) + 1 /\ t[Len(s) + 1] = x
      /\ \A n \in 1..Len(s) : t[n] = s[n]
    BY AppendProperties
<1>2. /\ DOMAIN s = 1..Len(s) /\ Len(s) \in Nat /\ DOMAIN t = 1..Len(t)
      /\ \A n \in 1..Len(s) : s[n] \in Range(s)
      /\ \A y \in Range(s) : \E n \in 1..Len(s) : y = s[n]
      /\ \A n \in 1..Len(t) : t[n] \in Range(t)
      /\ \A y \in Range(t) : \E n \in 1..Len(t) : y = t[n]
    BY <1>1, ListContents
<1> HIDE DEF t
<1>3. Range(t) = Range(s) \cup {x}
    <2>1. 1..(Len(s) + 1) = 1..Len(s) \cup {Len(s) + 1}
        BY <1>2
    <2> QED BY <1>1, <1>2, <2>1
<1>4. Ascending(t)
    BY <1>1, <1>2 DEF Ascending
<1> QED BY <1>1, <1>3, <1>4 DEF t

\* Taking one item out of a list.
LEMMA RemoveOne ==
    ASSUME NEW s \in Seq(Ids), NEW n \in DOMAIN s, Ascending(s)
    PROVE  /\ RemoveAt(s, n) \in Seq(Ids) /\ Ascending(RemoveAt(s, n))
           /\ Range(RemoveAt(s, n)) = Range(s) \ {s[n]}
<1>1. n \in 1..Len(s) /\ Len(s) \in Nat /\ DOMAIN s = 1..Len(s)
    BY LenProperties
<1> DEFINE a == SubSeq(s, 1, n - 1)
           b == SubSeq(s, n + 1, Len(s))
           t == RemoveAt(s, n)
<1>2. /\ a \in Seq(Ids) /\ Len(a) = n - 1 /\ \A i \in 1..(n - 1) : a[i] = s[i]
    <2>1. \A i \in 1..(n - 1) : s[i] \in Ids
        BY <1>1, ElementOfSeq
    <2>2. /\ SubSeq(s, 1, n - 1) \in Seq(Ids)
          /\ Len(SubSeq(s, 1, n - 1)) = IF 1 <= n - 1 THEN n - 1 - 1 + 1 ELSE 0
          /\ \A i \in 1..(n - 1 - 1 + 1) : SubSeq(s, 1, n - 1)[i] = s[1 + i - 1]
        BY <1>1, <2>1, SubSeqProperties
    <2> QED BY <1>1, <2>2
<1>3. /\ b \in Seq(Ids) /\ Len(b) = Len(s) - n /\ \A i \in 1..(Len(s) - n) : b[i] = s[n + i]
    <2>1. \A i \in (n + 1)..Len(s) : s[i] \in Ids
        BY <1>1, ElementOfSeq
    <2>2. /\ SubSeq(s, n + 1, Len(s)) \in Seq(Ids)
          /\ Len(SubSeq(s, n + 1, Len(s)))
                = IF n + 1 <= Len(s) THEN Len(s) - (n + 1) + 1 ELSE 0
          /\ \A i \in 1..(Len(s) - (n + 1) + 1) :
                SubSeq(s, n + 1, Len(s))[i] = s[(n + 1) + i - 1]
        BY <1>1, <2>1, SubSeqProperties
    <2> QED BY <1>1, <2>2
<1> HIDE DEF a, b
<1>4. /\ t \in Seq(Ids) /\ Len(t) = Len(s) - 1
      /\ \A i \in 1..(Len(s) - 1) : t[i] = IF i < n THEN s[i] ELSE s[i + 1]
    <2>1. t = a \o b
        BY DEF RemoveAt, a, b
    <2>2. /\ a \o b \in Seq(Ids) /\ Len(a \o b) = Len(a) + Len(b)
          /\ \A i \in 1..Len(a) + Len(b) :
                (a \o b)[i] = IF i <= Len(a) THEN a[i] ELSE b[i - Len(a)]
        BY <1>2, <1>3, ConcatProperties
    <2>3. ASSUME NEW i \in 1..(Len(s) - 1)
          PROVE  (a \o b)[i] = IF i < n THEN s[i] ELSE s[i + 1]
        <3>1. CASE i < n
            BY <1>1, <1>2, <1>3, <2>2, <3>1
        <3>2. CASE ~(i < n)
            <4>1. i - Len(a) \in 1..(Len(s) - n) /\ ~(i <= Len(a)) /\ i \in 1..Len(a) + Len(b)
                BY <1>1, <1>2, <1>3, <3>2
            <4>2. b[i - Len(a)] = s[n + (i - Len(a))]
                BY <1>3, <4>1
            <4>3. n + (i - Len(a)) = i + 1
                BY <1>1, <1>2
            <4> QED BY <2>2, <3>2, <4>1, <4>2, <4>3
        <3> QED BY <3>1, <3>2
    <2> QED BY <1>1, <1>2, <1>3, <2>1, <2>2, <2>3
<1> HIDE DEF t
<1>5. /\ DOMAIN t = 1..(Len(s) - 1)
      /\ \A m \in 1..(Len(s) - 1) : t[m] \in Range(t)
      /\ \A x \in Range(t) : \E m \in 1..(Len(s) - 1) : x = t[m]
      /\ \A m \in 1..Len(s) : s[m] \in Range(s)
      /\ \A x \in Range(s) : \E m \in 1..Len(s) : x = s[m]
    BY <1>4, ListContents
<1>6. \A i, j \in 1..Len(s) : i < j => s[i] < s[j]
    BY <1>1 DEF Ascending
<1>7. \A i \in 1..Len(s) : s[i] \in Nat
    BY ElementOfSeq, IdsAreNumbers
<1>8. Ascending(t)
    <2>1. ASSUME NEW i \in 1..(Len(s) - 1), NEW j \in 1..(Len(s) - 1), i < j
          PROVE  t[i] < t[j]
        <3>1. i \in 1..Len(s) /\ j \in 1..Len(s) /\ i + 1 \in 1..Len(s) /\ j + 1 \in 1..Len(s)
            BY <1>1
        <3> QED BY <1>1, <1>4, <1>6, <2>1, <3>1
    <2> QED BY <1>5, <2>1 DEF Ascending
<1>9. Range(t) \subseteq Range(s) \ {s[n]}
    <2>1. ASSUME NEW i \in 1..(Len(s) - 1)
          PROVE  t[i] \in Range(s) /\ t[i] # s[n]
        <3>1. i \in 1..Len(s) /\ i + 1 \in 1..Len(s)
            BY <1>1
        <3>2. CASE i < n
            BY <1>1, <1>4, <1>5, <1>6, <1>7, <3>1, <3>2
        <3>3. CASE ~(i < n)
            <4>1. t[i] = s[i + 1] /\ n < i + 1
                BY <1>1, <1>4, <3>3
            <4>2. s[n] < s[i + 1] /\ s[n] \in Nat /\ s[i + 1] \in Nat
                BY <1>1, <1>6, <1>7, <3>1, <4>1
            <4> QED BY <1>5, <3>1, <4>1, <4>2
        <3> QED BY <3>2, <3>3
    <2> QED BY <1>5, <2>1
<1>10. Range(s) \ {s[n]} \subseteq Range(t)
    <2>1. ASSUME NEW i \in 1..Len(s), i # n
          PROVE  s[i] \in Range(t)
        <3>1. CASE i < n
            <4>1. i \in 1..(Len(s) - 1) /\ t[i] = s[i]
                BY <1>1, <1>4, <3>1
            <4> QED BY <1>5, <4>1
        <3>2. CASE i > n
            <4>1. i - 1 \in 1..(Len(s) - 1) /\ ~(i - 1 < n) /\ (i - 1) + 1 = i
                BY <1>1, <3>2
            <4>2. t[i - 1] = s[i]
                BY <1>4, <4>1
            <4> QED BY <1>5, <4>1, <4>2
        <3> QED BY <1>1, <2>1, <3>1, <3>2
    <2> QED BY <1>5, <2>1
<1> QED BY <1>4, <1>8, <1>9, <1>10 DEF t

\* A drain splits a list into what it takes and what it leaves.
LEMMA SplitList ==
    ASSUME NEW s \in Seq(Ids), NEW p \in Seq(Ids), IsPrefix(p, s), Ascending(s)
    PROVE  /\ Rest(s, Len(p)) \in Seq(Ids)
           /\ Ascending(p) /\ Ascending(Rest(s, Len(p)))
           /\ Range(s) = Range(p) \cup Range(Rest(s, Len(p)))
           /\ \A x \in Range(p), y \in Range(Rest(s, Len(p))) : x < y
<1> DEFINE k == Len(p)
           r == Rest(s, Len(p))
<1>1. Len(s) \in Nat /\ k \in Nat /\ k <= Len(s)
    BY LenProperties DEF IsPrefix
<1>2. \A i \in 1..k : p[i] = s[i]
    <2>1. SubSeq(p, 1, k) = SubSeq(s, 1, k)
        BY DEF IsPrefix
    <2>2. /\ \A i \in 1..k : p[i] \in Ids
          /\ \A i \in 1..k : s[i] \in Ids
        BY <1>1, ElementOfSeq
    <2>3. \A i \in 1..(k - 1 + 1) : SubSeq(p, 1, k)[i] = p[1 + i - 1]
        BY <1>1, <2>2, SubSeqProperties
    <2>4. \A i \in 1..(k - 1 + 1) : SubSeq(s, 1, k)[i] = s[1 + i - 1]
        BY <1>1, <2>2, SubSeqProperties
    <2>5. k - 1 + 1 = k /\ \A i \in 1..k : 1 + i - 1 = i
        BY <1>1
    <2> QED BY <2>1, <2>3, <2>4, <2>5
<1>3. /\ r \in Seq(Ids) /\ Len(r) = Len(s) - k
      /\ \A i \in 1..(Len(s) - k) : r[i] = s[k + i]
    <2>1. \A i \in (k + 1)..Len(s) : s[i] \in Ids
        BY <1>1, ElementOfSeq
    <2>2. /\ SubSeq(s, k + 1, Len(s)) \in Seq(Ids)
          /\ Len(SubSeq(s, k + 1, Len(s)))
                = IF k + 1 <= Len(s) THEN Len(s) - (k + 1) + 1 ELSE 0
          /\ \A i \in 1..(Len(s) - (k + 1) + 1) :
                SubSeq(s, k + 1, Len(s))[i] = s[(k + 1) + i - 1]
        BY <1>1, <2>1, SubSeqProperties
    <2>3. r = SubSeq(s, k + 1, Len(s))
        BY DEF Rest
    <2> QED BY <1>1, <2>2, <2>3
<1>4. /\ DOMAIN s = 1..Len(s) /\ DOMAIN p = 1..k
      /\ \A n \in 1..Len(s) : s[n] \in Range(s)
      /\ \A x \in Range(s) : \E n \in 1..Len(s) : x = s[n]
      /\ \A n \in 1..k : p[n] \in Range(p)
      /\ \A x \in Range(p) : \E n \in 1..k : x = p[n]
    BY ListContents
<1> HIDE DEF k, r
<1>5. /\ DOMAIN r = 1..(Len(s) - k)
      /\ \A n \in 1..(Len(s) - k) : r[n] \in Range(r)
      /\ \A x \in Range(r) : \E n \in 1..(Len(s) - k) : x = r[n]
    BY <1>3, ListContents
<1>6. \A i, j \in 1..Len(s) : i < j => s[i] < s[j]
    BY <1>4 DEF Ascending
<1>7. Ascending(p)
    BY <1>1, <1>2, <1>4, <1>6 DEF Ascending
<1>8. Ascending(r)
    <2>1. ASSUME NEW i \in 1..(Len(s) - k), NEW j \in 1..(Len(s) - k), i < j
          PROVE  r[i] < r[j]
        <3>1. k + i \in 1..Len(s) /\ k + j \in 1..Len(s) /\ k + i < k + j
            BY <1>1, <2>1
        <3> QED BY <1>3, <1>6, <3>1
    <2> QED BY <1>5, <2>1 DEF Ascending
<1>9. ASSUME NEW i \in 1..k, NEW j \in 1..(Len(s) - k) PROVE p[i] < r[j]
    <2>1. i \in 1..Len(s) /\ k + j \in 1..Len(s) /\ i < k + j
        BY <1>1
    <2> QED BY <1>2, <1>3, <1>6, <2>1
<1>10. Range(s) = Range(p) \cup Range(r)
    <2>1. \A i \in 1..k : i \in 1..Len(s) /\ p[i] = s[i]
        BY <1>1, <1>2
    <2>2. \A j \in 1..(Len(s) - k) : k + j \in 1..Len(s) /\ r[j] = s[k + j]
        BY <1>1, <1>3
    <2>3. ASSUME NEW i \in 1..Len(s) PROVE s[i] \in Range(p) \cup Range(r)
        <3>1. CASE i <= k
            BY <1>1, <1>2, <1>4, <3>1
        <3>2. CASE i > k
            <4>1. i - k \in 1..(Len(s) - k) /\ k + (i - k) = i
                BY <1>1, <3>2
            <4>2. r[i - k] = s[i]
                BY <1>3, <4>1
            <4> QED BY <1>5, <4>1, <4>2
        <3> QED BY <1>1, <3>1, <3>2
    <2> QED BY <1>4, <1>5, <2>1, <2>2, <2>3
<1> QED BY <1>3, <1>4, <1>5, <1>7, <1>8, <1>9, <1>10 DEF k, r

\* Joining two lists that share no item.
LEMMA JoinLists ==
    ASSUME NEW s \in Seq(Ids), NEW t \in Seq(Ids), IsInjective(s), IsInjective(t),
           Range(s) \cap Range(t) = {}
    PROVE  /\ s \o t \in Seq(Ids) /\ IsInjective(s \o t)
           /\ Range(s \o t) = Range(s) \cup Range(t)
<1> DEFINE u == s \o t
<1>1. /\ u \in Seq(Ids) /\ Len(u) = Len(s) + Len(t)
      /\ \A i \in 1..Len(s) + Len(t) : u[i] = IF i <= Len(s) THEN s[i] ELSE t[i - Len(s)]
    BY ConcatProperties
<1>2. /\ DOMAIN s = 1..Len(s) /\ Len(s) \in Nat /\ DOMAIN t = 1..Len(t) /\ Len(t) \in Nat
      /\ \A n \in 1..Len(s) : s[n] \in Range(s)
      /\ \A x \in Range(s) : \E n \in 1..Len(s) : x = s[n]
      /\ \A n \in 1..Len(t) : t[n] \in Range(t)
      /\ \A x \in Range(t) : \E n \in 1..Len(t) : x = t[n]
    BY ListContents
<1> HIDE DEF u
<1>3. /\ DOMAIN u = 1..Len(s) + Len(t)
      /\ \A n \in 1..Len(s) + Len(t) : u[n] \in Range(u)
      /\ \A x \in Range(u) : \E n \in 1..Len(s) + Len(t) : x = u[n]
    BY <1>1, ListContents
<1>4. \A i \in 1..Len(s) + Len(t) :
        \/ i \in 1..Len(s) /\ u[i] = s[i]
        \/ i - Len(s) \in 1..Len(t) /\ ~(i <= Len(s)) /\ u[i] = t[i - Len(s)]
    BY <1>1, <1>2
<1>5. \A i \in 1..Len(s) : i \in 1..Len(s) + Len(t) /\ u[i] = s[i]
    BY <1>1, <1>2
<1>6. \A i \in 1..Len(t) : Len(s) + i \in 1..Len(s) + Len(t) /\ u[Len(s) + i] = t[i]
    <2> TAKE i \in 1..Len(t)
    <2>1. Len(s) + i \in 1..Len(s) + Len(t) /\ ~(Len(s) + i <= Len(s))
          /\ (Len(s) + i) - Len(s) = i
        BY <1>2
    <2> QED BY <1>1, <2>1
<1>7. Range(u) = Range(s) \cup Range(t)
    <2>1. Range(s) \subseteq Range(u)
        BY <1>2, <1>3, <1>5
    <2>2. Range(t) \subseteq Range(u)
        BY <1>2, <1>3, <1>6
    <2>3. Range(u) \subseteq Range(s) \cup Range(t)
        BY <1>2, <1>3, <1>4
    <2> QED BY <2>1, <2>2, <2>3
<1>8. IsInjective(u)
    <2>1. ASSUME NEW i \in 1..Len(s) + Len(t), NEW j \in 1..Len(s) + Len(t), u[i] = u[j]
          PROVE  i = j
        <3>1. CASE i \in 1..Len(s) /\ u[i] = s[i] /\ j \in 1..Len(s) /\ u[j] = s[j]
            BY <1>2, <2>1, <3>1 DEF IsInjective
        <3>2. CASE /\ i - Len(s) \in 1..Len(t) /\ u[i] = t[i - Len(s)]
                   /\ j - Len(s) \in 1..Len(t) /\ u[j] = t[j - Len(s)]
            <4>1. i - Len(s) = j - Len(s)
                BY <1>2, <2>1, <3>2 DEF IsInjective
            <4> QED BY <1>2, <4>1
        <3>3. CASE i \in 1..Len(s) /\ u[i] = s[i] /\ j - Len(s) \in 1..Len(t)
                   /\ u[j] = t[j - Len(s)]
            BY <1>2, <2>1, <3>3
        <3>4. CASE j \in 1..Len(s) /\ u[j] = s[j] /\ i - Len(s) \in 1..Len(t)
                   /\ u[i] = t[i - Len(s)]
            BY <1>2, <2>1, <3>4
        <3> QED BY <1>4, <3>1, <3>2, <3>3, <3>4
    <2> QED BY <1>3, <2>1 DEF IsInjective
<1> QED BY <1>1, <1>7, <1>8 DEF u

\* A list in order has no item twice.
LEMMA AscendingIsInjective ==
    ASSUME NEW s \in Seq(Ids), Ascending(s)
    PROVE  IsInjective(s)
<1>1. DOMAIN s = 1..Len(s) /\ Len(s) \in Nat /\ \A n \in 1..Len(s) : s[n] \in Nat
    BY ListContents, IdsAreNumbers
<1> QED BY <1>1 DEF Ascending, IsInjective

-----------------------------------------------------------------------------
\* QueuesAreFifo and the last part of EveryItemHasOneFate, of any history.
IdsOf(P) == {P[n].id : n \in DOMAIN P}
PlacedInOrder(P) == \A m, n \in DOMAIN P : m < n /\ P[m].via = P[n].via => P[m].id < P[n].id
PlacedOnce(P) == \A m, n \in DOMAIN P : P[m].id = P[n].id => m = n

\* Placing a list that follows what its queue placed before.
LEMMA PlaceList ==
    ASSUME NEW P \in Seq(Entry), NEW s \in Seq(Ids), Ascending(s),
           NEW via \in {"next", "idle", "writes", "steer", "follow"},
           PlacedInOrder(P), PlacedOnce(P), AheadOf(P, via, s), IdsOf(P) \cap Range(s) = {}
    PROVE  /\ P \o Tag(s, via) \in Seq(Entry)
           /\ PlacedInOrder(P \o Tag(s, via)) /\ PlacedOnce(P \o Tag(s, via))
           /\ IdsOf(P \o Tag(s, via)) = IdsOf(P) \cup Range(s)
           /\ \A v, t : /\ AheadOf(P, v, t)
                        /\ v = via => \A x \in Range(s), y \in Range(t) : x < y
                        => AheadOf(P \o Tag(s, via), v, t)
<1> DEFINE T == Tag(s, via)
           Q == P \o T
<1>1. /\ DOMAIN s = 1..Len(s) /\ Len(s) \in Nat
      /\ \A n \in 1..Len(s) : s[n] \in Ids /\ s[n] \in Range(s)
      /\ \A x \in Range(s) : \E n \in 1..Len(s) : x = s[n]
    BY ListContents
<1>2. /\ T \in Seq(Entry) /\ Len(T) = Len(s) /\ DOMAIN T = 1..Len(s)
      /\ \A n \in 1..Len(s) : T[n] = [id |-> s[n], via |-> via]
    <2>1. T \in Seq(Entry)
        BY TagType
    <2>2. DOMAIN T = 1..Len(s) /\ \A n \in 1..Len(s) : T[n] = [id |-> s[n], via |-> via]
        BY <1>1 DEF Tag
    <2>3. Len(T) = Len(s)
        BY <1>1, <2>1, <2>2, LenProperties
    <2> QED BY <2>1, <2>2, <2>3
<1>3. /\ DOMAIN P = 1..Len(P) /\ Len(P) \in Nat
      /\ \A n \in 1..Len(P) : P[n] \in Entry
    BY LenProperties, ElementOfSeq
<1> HIDE DEF T
<1>4. /\ Q \in Seq(Entry) /\ Len(Q) = Len(P) + Len(s)
      /\ DOMAIN Q = 1..Len(P) + Len(s)
      /\ \A i \in 1..Len(P) + Len(s) : Q[i] = IF i <= Len(P) THEN P[i] ELSE T[i - Len(P)]
    <2>1. /\ Q \in Seq(Entry) /\ Len(Q) = Len(P) + Len(T)
          /\ \A i \in 1..Len(P) + Len(T) : Q[i] = IF i <= Len(P) THEN P[i] ELSE T[i - Len(P)]
        BY <1>2, ConcatProperties
    <2>2. DOMAIN Q = 1..Len(Q)
        BY <2>1, LenProperties
    <2> QED BY <1>2, <2>1, <2>2
<1> HIDE DEF Q
<1>5. \A i \in DOMAIN Q :
        \/ i \in DOMAIN P /\ Q[i] = P[i]
        \/ /\ i - Len(P) \in 1..Len(s) /\ i > Len(P)
           /\ Q[i].id = s[i - Len(P)] /\ Q[i].via = via
    <2> TAKE i \in DOMAIN Q
    <2>1. CASE i <= Len(P)
        BY <1>3, <1>4, <2>1
    <2>2. CASE i > Len(P)
        <3>1. i - Len(P) \in 1..Len(s) /\ ~(i <= Len(P))
            BY <1>1, <1>3, <1>4, <2>2
        <3>2. Q[i] = [id |-> s[i - Len(P)], via |-> via]
            BY <1>2, <1>4, <3>1
        <3> QED BY <2>2, <3>1, <3>2
    <2> QED BY <1>1, <1>3, <1>4, <2>1, <2>2
<1>6. /\ \A i \in DOMAIN P : i \in DOMAIN Q /\ Q[i] = P[i]
      /\ \A j \in 1..Len(s) : Len(P) + j \in DOMAIN Q /\ Q[Len(P) + j].id = s[j]
    <2>1. \A i \in DOMAIN P : i \in DOMAIN Q /\ Q[i] = P[i]
        BY <1>1, <1>3, <1>4
    <2>2. ASSUME NEW j \in 1..Len(s)
          PROVE  Len(P) + j \in DOMAIN Q /\ Q[Len(P) + j].id = s[j]
        <3>1. /\ Len(P) + j \in DOMAIN Q /\ ~(Len(P) + j <= Len(P))
              /\ (Len(P) + j) - Len(P) = j
            BY <1>1, <1>3, <1>4
        <3>2. Q[Len(P) + j] = [id |-> s[j], via |-> via]
            BY <1>2, <1>4, <3>1
        <3> QED BY <3>1, <3>2
    <2> QED BY <2>1, <2>2
<1>7. /\ \A i, j \in 1..Len(s) : i < j => s[i] < s[j]
      /\ \A i \in 1..Len(s) : s[i] \in Nat
      /\ \A n \in DOMAIN P : P[n].id \in Nat
    BY <1>1, <1>3, IdsAreNumbers DEF Ascending, Entry
<1>8. \A n \in DOMAIN P, i \in 1..Len(s) :
        P[n].id # s[i] /\ (P[n].via = via => P[n].id < s[i])
    BY <1>1 DEF AheadOf, IdsOf
<1>9. PlacedInOrder(Q)
    <2> SUFFICES ASSUME NEW m \in DOMAIN Q, NEW n \in DOMAIN Q, m < n, Q[m].via = Q[n].via
                 PROVE  Q[m].id < Q[n].id
        BY DEF PlacedInOrder
    <2>1. CASE n \in DOMAIN P /\ Q[n] = P[n]
        <3>1. m \in DOMAIN P
            BY <1>3, <1>4, <2>1
        <3> QED BY <1>6, <2>1, <3>1 DEF PlacedInOrder
    <2>2. CASE /\ n - Len(P) \in 1..Len(s) /\ n > Len(P)
               /\ Q[n].id = s[n - Len(P)] /\ Q[n].via = via
        <3>1. CASE m \in DOMAIN P /\ Q[m] = P[m]
            BY <1>8, <2>2, <3>1
        <3>2. CASE m - Len(P) \in 1..Len(s) /\ Q[m].id = s[m - Len(P)]
            <4>1. m - Len(P) < n - Len(P)
                BY <1>3, <1>4
            <4> QED BY <1>7, <2>2, <3>2, <4>1
        <3> QED BY <1>5, <3>1, <3>2
    <2> QED BY <1>5, <2>1, <2>2
<1>10. PlacedOnce(Q)
    <2> SUFFICES ASSUME NEW m \in DOMAIN Q, NEW n \in DOMAIN Q, Q[m].id = Q[n].id
                 PROVE  m = n
        BY DEF PlacedOnce
    <2>1. CASE m \in DOMAIN P /\ Q[m] = P[m] /\ n \in DOMAIN P /\ Q[n] = P[n]
        BY <2>1 DEF PlacedOnce
    <2>2. CASE /\ m - Len(P) \in 1..Len(s) /\ Q[m].id = s[m - Len(P)]
               /\ n - Len(P) \in 1..Len(s) /\ Q[n].id = s[n - Len(P)]
        <3>1. \A i, j \in 1..Len(s) : s[i] = s[j] => i = j
            BY <1>7, AscendingIsInjective, <1>1 DEF IsInjective
        <3>2. m - Len(P) = n - Len(P)
            BY <2>2, <3>1
        <3> QED BY <1>3, <1>4, <3>2
    <2>3. ~(m \in DOMAIN P /\ Q[m] = P[m] /\ n - Len(P) \in 1..Len(s) /\ Q[n].id = s[n - Len(P)])
        BY <1>8
    <2>4. ~(n \in DOMAIN P /\ Q[n] = P[n] /\ m - Len(P) \in 1..Len(s) /\ Q[m].id = s[m - Len(P)])
        BY <1>8
    <2> QED BY <1>5, <2>1, <2>2, <2>3, <2>4
<1>11. IdsOf(Q) = IdsOf(P) \cup Range(s)
    <2>1. IdsOf(P) \subseteq IdsOf(Q)
        BY <1>6 DEF IdsOf
    <2>2. Range(s) \subseteq IdsOf(Q)
        BY <1>1, <1>6 DEF IdsOf
    <2>3. IdsOf(Q) \subseteq IdsOf(P) \cup Range(s)
        BY <1>1, <1>5 DEF IdsOf
    <2> QED BY <2>1, <2>2, <2>3
<1>12. ASSUME NEW v, NEW t, AheadOf(P, v, t),
              v = via => \A x \in Range(s), y \in Range(t) : x < y
       PROVE  AheadOf(Q, v, t)
    <2> SUFFICES ASSUME NEW n \in DOMAIN Q, Q[n].via = v, NEW y \in Range(t)
                 PROVE  Q[n].id < y
        BY DEF AheadOf
    <2>1. CASE n \in DOMAIN P /\ Q[n] = P[n]
        BY <1>12, <2>1 DEF AheadOf
    <2>2. CASE n - Len(P) \in 1..Len(s) /\ Q[n].id = s[n - Len(P)] /\ Q[n].via = via
        BY <1>1, <1>12, <2>2
    <2> QED BY <1>5, <2>1, <2>2
<1> QED BY <1>4, <1>9, <1>10, <1>11, <1>12 DEF Q, T

-----------------------------------------------------------------------------
\* A step that leaves every list, every item and the cancel marker alone.
SameQueues ==
    /\ UNCHANGED <<nextRun, inputVars>>
    /\ \A q \in Queues : op'[q] = op[q]
    /\ Cancelled(op') = Cancelled(op)
    /\ op'.k = "failure" => ~op'.skip

\* Such a step keeps the invariant of the queues.
LEMMA QueuesKept ==
    ASSUME QInv, SameQueues
    PROVE  QInv'
<1>1. /\ op'.steer = op.steer /\ op'.follow = op.follow /\ op'.writes = op.writes
      /\ op'.dSteer = op.dSteer /\ op'.dFollow = op.dFollow
    BY DEF SameQueues, Queues
<1>2. Queued(op') = Queued(op)
    BY DEF SameQueues, Queued
<1>3. UNCHANGED <<nextRun, pend, admitted, notes, placed, withdrawn, dropped>>
    BY DEF SameQueues, inputVars
<1>4. ListsApart'
    BY <1>2, <1>3 DEF QInv, ListsApart, SameQueues
<1>5. PlacedAhead'
    BY <1>1, <1>3 DEF QInv, PlacedAhead
<1>6. DrainedByCancel'
    BY <1>1 DEF QInv, DrainedByCancel, SameQueues
<1>7. EveryItemHasOneFate' /\ QueuesAreFifo' /\ DiscardsAreDeliberate'
    BY <1>3 DEF QInv, EveryItemHasOneFate, QueuesAreFifo, DiscardsAreDeliberate, PlacedIds,
                DroppedIds
<1> QED BY <1>4, <1>5, <1>6, <1>7 DEF QInv

\* A replan writes nothing.
LEMMA ReplanQueues ==
    ASSUME QInv, Replan
    PROVE  SameQueues
BY DEF Replan, SameQueues, QInv, DrainedByCancel, laneVars

\* Whatever waits was admitted before the next item.
LEMMA FreshIsLatest ==
    ASSUME IInv, QInv, FreshId \in Ids
    PROVE  /\ \A x \in pend : x < FreshId
           /\ \A x \in Range(nextRun) : x < FreshId
           /\ \A q \in Queues : \A x \in Range(op[q]) : x < FreshId
           /\ FreshId \notin pend \cup PlacedIds \cup withdrawn \cup DroppedIds
           /\ \A n \in DOMAIN placed : placed[n].id < FreshId
<1>1. admitted \in Nat
    BY BoundsAssumption DEF IInv, TypeOK, InputType
<1>2. pend \cup PlacedIds \cup withdrawn \cup DroppedIds = 1..admitted
    BY DEF QInv, EveryItemHasOneFate
<1>3. \A x \in 1..admitted : x < FreshId
    BY <1>1 DEF FreshId
<1>4. Range(nextRun) \subseteq pend /\ \A q \in Queues : Range(op[q]) \subseteq pend
    BY DEF QInv, ListsApart, Queued
<1>5. \A n \in DOMAIN placed : placed[n].id \in PlacedIds
    BY DEF PlacedIds
<1>6. FreshId \notin 1..admitted
    BY <1>1 DEF FreshId
<1> QED BY <1>2, <1>3, <1>4, <1>5, <1>6

\* A new item that is queued meets no fate yet.
LEMMA AdmittedFate ==
    ASSUME IInv, QInv, Admit({FreshId}), UNCHANGED <<placed, withdrawn, dropped>>
    PROVE  EveryItemHasOneFate' /\ QueuesAreFifo' /\ DiscardsAreDeliberate'
<1>1. /\ FreshId \in Ids /\ pend' = pend \cup {FreshId} /\ admitted' = FreshId
      /\ admitted \in Nat /\ FreshId = admitted + 1
    BY AdmitType, BoundsAssumption DEF IInv, TypeOK, InputType, Admit, FreshId
<1>2. 1..admitted' = 1..admitted \cup {FreshId}
    BY <1>1
<1>3. FreshId \notin PlacedIds \cup withdrawn \cup DroppedIds
    BY <1>1, FreshIsLatest
<1>4. PlacedIds' = PlacedIds /\ DroppedIds' = DroppedIds /\ withdrawn' = withdrawn
    BY DEF PlacedIds, DroppedIds
<1>5. EveryItemHasOneFate'
  <2>1. \A m, n \in DOMAIN placed' : placed'[m].id = placed'[n].id => m = n
    BY DEF QInv, EveryItemHasOneFate
  <2> QED BY <1>1, <1>2, <1>3, <1>4, <2>1 DEF QInv, EveryItemHasOneFate
<1> QED BY <1>5 DEF QInv, QueuesAreFifo, DiscardsAreDeliberate

\* A new item at the end of one list of the operation.
LEMMA Enqueued ==
    ASSUME IInv, QInv, Admit({FreshId}), NEW queue \in {"steer", "follow", "writes"},
           op' = [op EXCEPT ![queue] = Append(@, FreshId)],
           UNCHANGED <<nextRun, placed, withdrawn, dropped>>
    PROVE  QInv'
<1>0. op \in OpState /\ nextRun \in Seq(Ids) /\ \A q \in Queues : op[q] \in Seq(Ids)
    BY DEF IInv, TypeOK, LaneType, OpState, Queues
<1>1. FreshId \in Ids /\ pend' = pend \cup {FreshId}
    BY AdmitType DEF IInv, TypeOK, Admit
<1>2. /\ \A x \in pend : x < FreshId
      /\ \A q \in Queues : \A x \in Range(op[q]) : x < FreshId
      /\ \A n \in DOMAIN placed : placed[n].id < FreshId
      /\ FreshId \notin pend
    BY <1>1, FreshIsLatest
<1>3. queue \in Queues
    BY DEF Queues
<1>4. /\ op'[queue] = Append(op[queue], FreshId)
      /\ \A q \in Queues : q # queue => op'[q] = op[q]
      /\ op'.ctl = op.ctl /\ op'.k = op.k /\ op'.skip = op.skip
      /\ op'.dSteer = op.dSteer /\ op'.dFollow = op.dFollow
    BY <1>0, <1>3 DEF OpState, Queues
<1>5. Ascending(op'[queue]) /\ Range(op'[queue]) = Range(op[queue]) \cup {FreshId}
    BY <1>0, <1>1, <1>2, <1>3, <1>4, AppendLatest DEF QInv, ListsApart
<1>6. ListsApart'
  <2>1. Queued(op') = Queued(op) \cup {FreshId}
    BY <1>3, <1>4, <1>5 DEF Queued
  <2>2. \A q \in Queues : Ascending(op'[q]) /\ Range(op'[q]) \subseteq Range(op[q]) \cup {FreshId}
    BY <1>3, <1>4, <1>5 DEF QInv, ListsApart
  <2>3. /\ FreshId \notin Range(nextRun)
        /\ \A q \in Queues : FreshId \notin Range(op[q])
    BY <1>2 DEF QInv, ListsApart, Queued
  <2>4. \A q \in Queues : Range(nextRun) \cap Range(op'[q]) = {}
    BY <2>2, <2>3 DEF QInv, ListsApart
  <2>5. \A q, r \in Queues : q # r => Range(op'[q]) \cap Range(op'[r]) = {}
    BY <1>4, <1>5, <2>3 DEF QInv, ListsApart
  <2> QED BY <1>1, <2>1, <2>2, <2>4, <2>5 DEF QInv, ListsApart
<1>7. PlacedAhead'
  <2>1. ASSUME NEW v, NEW q \in Queues, AheadOf(placed, v, op[q]) PROVE AheadOf(placed, v, op'[q])
    BY <1>2, <1>3, <1>4, <1>5, <2>1 DEF AheadOf
  <2>2. {"steer", "follow", "writes"} \subseteq Queues
    BY DEF Queues
  <2>3. AheadOf(placed, "next", nextRun)'
    BY DEF QInv, PlacedAhead
  <2> QED BY <2>1, <2>2, <2>3 DEF QInv, PlacedAhead
<1>8. DrainedByCancel'
    BY <1>4 DEF QInv, DrainedByCancel, Cancelled
<1> QED BY <1>6, <1>7, <1>8, AdmittedFate DEF QInv

\* A new item for the next run.
LEMMA NextRunQueues ==
    ASSUME IInv, QInv, NextRun
    PROVE  QInv'
<1>0. nextRun \in Seq(Ids)
    BY DEF IInv, TypeOK, LaneType
<1>1. /\ FreshId \in Ids /\ pend' = pend \cup {FreshId} /\ Admit({FreshId})
      /\ nextRun' = Append(nextRun, FreshId) /\ UNCHANGED <<op, placed, withdrawn, dropped>>
    BY AdmitType DEF IInv, TypeOK, Admit, NextRun
<1>2. /\ \A x \in Range(nextRun) : x < FreshId
      /\ \A n \in DOMAIN placed : placed[n].id < FreshId
      /\ FreshId \notin pend
    BY <1>1, FreshIsLatest
<1>3. Ascending(nextRun') /\ Range(nextRun') = Range(nextRun) \cup {FreshId}
    BY <1>0, <1>1, <1>2, AppendLatest DEF QInv, ListsApart
<1>4. ListsApart'
  <2>1. \A q \in Queues : FreshId \notin Range(op[q])
    BY <1>2 DEF QInv, ListsApart, Queued
  <2> QED BY <1>1, <1>3, <2>1 DEF QInv, ListsApart
<1>5. PlacedAhead'
    BY <1>1, <1>2, <1>3 DEF QInv, PlacedAhead, AheadOf
<1>6. DrainedByCancel'
    BY <1>1 DEF QInv, DrainedByCancel
<1> QED BY <1>1, <1>4, <1>5, <1>6, AdmittedFate DEF QInv

\* What moves from waiting to placed has one fate more and none twice.
LEMMA PlacedFate ==
    ASSUME QInv, NEW S, S \subseteq pend, pend' = pend \ S,
           IdsOf(placed') = IdsOf(placed) \cup S, PlacedOnce(placed'), PlacedInOrder(placed'),
           UNCHANGED <<admitted, withdrawn, dropped>>
    PROVE  EveryItemHasOneFate' /\ QueuesAreFifo' /\ DiscardsAreDeliberate'
<1>1. PlacedIds' = PlacedIds \cup S /\ DroppedIds' = DroppedIds
    BY DEF PlacedIds, DroppedIds, IdsOf
<1>2. \A m, n \in DOMAIN placed' : placed'[m].id = placed'[n].id => m = n
    BY DEF PlacedOnce
<1>3. EveryItemHasOneFate'
    BY <1>1, <1>2 DEF QInv, EveryItemHasOneFate
<1> QED BY <1>3 DEF QInv, QueuesAreFifo, DiscardsAreDeliberate, PlacedInOrder

\* The history of placed items, as the lemmas about lists see it.
LEMMA PlacedHistory ==
    ASSUME QInv
    PROVE  /\ PlacedInOrder(placed) /\ PlacedOnce(placed) /\ PlacedIds = IdsOf(placed)
           /\ IdsOf(placed) \cap pend = {}
           /\ Range(nextRun) \subseteq pend /\ \A q \in Queues : Range(op[q]) \subseteq pend
<1>1. PlacedIds = IdsOf(placed)
    BY DEF PlacedIds, IdsOf
<1>2. Range(nextRun) \subseteq pend /\ \A q \in Queues : Range(op[q]) \subseteq pend
    BY DEF QInv, ListsApart, Queued
<1> QED BY <1>1, <1>2 DEF QInv, QueuesAreFifo, EveryItemHasOneFate, PlacedInOrder, PlacedOnce

\* An item written to an idle lane is an entry at once.
LEMMA AppendPlacedQueues ==
    ASSUME IInv, QInv, AppendPlaced
    PROVE  QInv'
<1> DEFINE e == [id |-> FreshId, via |-> "idle"]
<1>0. placed \in Seq(Entry)
    BY DEF IInv, TypeOK, InputType
<1>1. /\ FreshId \in Ids /\ pend' = pend /\ admitted' = FreshId /\ FreshId = admitted + 1
      /\ admitted \in Nat /\ placed' = Append(placed, e)
      /\ UNCHANGED <<op, nextRun, withdrawn, dropped>>
    BY AdmitType, BoundsAssumption
       DEF IInv, TypeOK, InputType, Admit, AppendPlaced, FreshId, laneVars
<1>2. /\ FreshId \notin pend \cup PlacedIds \cup withdrawn \cup DroppedIds
      /\ \A n \in DOMAIN placed : placed[n].id < FreshId
    BY <1>1, FreshIsLatest
<1>3. e \in Entry
    BY <1>1 DEF Entry
<1>4. /\ DOMAIN placed = 1..Len(placed) /\ Len(placed) \in Nat
      /\ DOMAIN placed' = 1..(Len(placed) + 1)
      /\ placed'[Len(placed) + 1] = e
      /\ \A n \in 1..Len(placed) : placed'[n] = placed[n]
    <2>1. /\ placed' \in Seq(Entry) /\ Len(placed') = Len(placed) + 1
          /\ placed'[Len(placed) + 1] = e
          /\ \A n \in 1..Len(placed) : placed'[n] = placed[n]
        BY <1>0, <1>1, <1>3, AppendProperties
    <2> QED BY <1>0, <2>1, LenProperties
<1>5. \A n \in DOMAIN placed' :
        \/ n \in DOMAIN placed /\ placed'[n] = placed[n]
        \/ n = Len(placed) + 1 /\ placed'[n].id = FreshId /\ placed'[n].via = "idle"
  <2>1. \A n \in DOMAIN placed' : n \in 1..Len(placed) \/ n = Len(placed) + 1
    BY <1>4
  <2> QED BY <1>4, <2>1
<1>6. PlacedIds' = PlacedIds \cup {FreshId}
  <2>1. PlacedIds \subseteq PlacedIds'
    <3>1. \A n \in DOMAIN placed : n \in DOMAIN placed' /\ placed'[n] = placed[n]
        BY <1>4
    <3> QED BY <3>1 DEF PlacedIds
  <2>2. FreshId \in PlacedIds'
    <3>1. Len(placed) + 1 \in DOMAIN placed' /\ placed'[Len(placed) + 1].id = FreshId
        BY <1>4
    <3> QED BY <3>1 DEF PlacedIds
  <2>3. PlacedIds' \subseteq PlacedIds \cup {FreshId}
    BY <1>5 DEF PlacedIds
  <2> QED BY <2>1, <2>2, <2>3
<1>7. QueuesAreFifo'
  <2> SUFFICES ASSUME NEW m \in DOMAIN placed', NEW n \in DOMAIN placed', m < n,
                      placed'[m].via = placed'[n].via
               PROVE  placed'[m].id < placed'[n].id
    BY DEF QueuesAreFifo
  <2>1. m \in DOMAIN placed /\ placed'[m] = placed[m]
    BY <1>4, <1>5
  <2> QED BY <1>2, <1>5, <2>1 DEF QInv, QueuesAreFifo
<1>8. EveryItemHasOneFate'
  <2>1. 1..admitted' = 1..admitted \cup {FreshId}
    BY <1>1
  <2>2. ASSUME NEW m \in DOMAIN placed', NEW n \in DOMAIN placed', placed'[m].id = placed'[n].id
        PROVE  m = n
    <3>1. \A k \in DOMAIN placed : placed[k].id # FreshId
        BY <1>2 DEF PlacedIds
    <3> QED BY <1>5, <2>2, <3>1 DEF QInv, EveryItemHasOneFate
  <2>3. DroppedIds' = DroppedIds
    BY <1>1 DEF DroppedIds
  <2> QED BY <1>1, <1>2, <1>6, <2>1, <2>2, <2>3 DEF QInv, EveryItemHasOneFate
<1>9. ListsApart' /\ DrainedByCancel' /\ DiscardsAreDeliberate'
    BY <1>1 DEF QInv, ListsApart, DrainedByCancel, DiscardsAreDeliberate
<1>10. PlacedAhead'
  <2>1. ASSUME NEW v \in {"next", "steer", "follow", "writes"}, NEW s, AheadOf(placed, v, s)
        PROVE  AheadOf(placed', v, s)
    <3>1. v # "idle"
        OBVIOUS
    <3> QED BY <1>5, <2>1, <3>1 DEF AheadOf
  <2> QED BY <1>1, <2>1 DEF QInv, PlacedAhead
<1> QED BY <1>7, <1>8, <1>9, <1>10 DEF QInv

\* Taking back one item of one list.
LEMMA CancelQueuedQueues ==
    ASSUME IInv, QInv, CancelQueued
    PROVE  QInv'
<1>0. op \in OpState /\ nextRun \in Seq(Ids) /\ \A q \in Queues : op[q] \in Seq(Ids)
    BY DEF IInv, TypeOK, LaneType, OpState, Queues
<1>1. PICK x : /\ Withdraw(x)
               /\ \/ /\ \E n \in DOMAIN nextRun : nextRun' = RemoveAt(nextRun, n) /\ x = nextRun[n]
                     /\ UNCHANGED op
                  \/ /\ \E q \in Queues : \E n \in DOMAIN op[q] :
                            op' = [op EXCEPT ![q] = RemoveAt(op[q], n)] /\ x = op[q][n]
                     /\ UNCHANGED nextRun
    BY DEF CancelQueued
<1>2. /\ pend' = pend \ {x} /\ withdrawn' = withdrawn \cup {x}
      /\ UNCHANGED <<admitted, placed, dropped>>
    BY <1>1 DEF Withdraw
<1>3. /\ x \in pend /\ Ascending(nextRun') /\ \A q \in Queues : Ascending(op'[q])
      /\ Range(nextRun') = Range(nextRun) \ {x}
      /\ \A q \in Queues : Range(op'[q]) = Range(op[q]) \ {x}
      /\ op'.k = op.k /\ op'.skip = op.skip /\ Cancelled(op') = Cancelled(op)
      /\ ~Cancelled(op) => op'.dSteer = << >> /\ op'.dFollow = << >>
  <2>1. CASE /\ \E n \in DOMAIN nextRun : nextRun' = RemoveAt(nextRun, n) /\ x = nextRun[n]
             /\ UNCHANGED op
    <3>1. PICK n \in DOMAIN nextRun : nextRun' = RemoveAt(nextRun, n) /\ x = nextRun[n]
        BY <2>1
    <3>2. x \in Range(nextRun)
        BY <3>1 DEF Range
    <3>3. Ascending(nextRun') /\ Range(nextRun') = Range(nextRun) \ {x}
        BY <1>0, <3>1, RemoveOne DEF QInv, ListsApart
    <3>4. x \in pend /\ \A q \in Queues : x \notin Range(op[q])
        BY <3>2 DEF QInv, ListsApart
    <3> QED BY <2>1, <3>3, <3>4 DEF QInv, ListsApart, DrainedByCancel
  <2>2. CASE /\ \E q \in Queues : \E n \in DOMAIN op[q] :
                    op' = [op EXCEPT ![q] = RemoveAt(op[q], n)] /\ x = op[q][n]
             /\ UNCHANGED nextRun
    <3>1. PICK r \in Queues : \E n \in DOMAIN op[r] :
                op' = [op EXCEPT ![r] = RemoveAt(op[r], n)] /\ x = op[r][n]
        BY <2>2
    <3>2. PICK n \in DOMAIN op[r] : op' = [op EXCEPT ![r] = RemoveAt(op[r], n)] /\ x = op[r][n]
        BY <3>1
    <3>3. /\ op'[r] = RemoveAt(op[r], n) /\ \A q \in Queues : q # r => op'[q] = op[q]
          /\ op'.ctl = op.ctl /\ op'.k = op.k /\ op'.skip = op.skip
        BY <1>0, <3>2 DEF OpState, Queues
    <3>4. x \in Range(op[r])
        BY <3>2 DEF Range
    <3>5. Ascending(op'[r]) /\ Range(op'[r]) = Range(op[r]) \ {x}
        BY <1>0, <3>2, <3>3, RemoveOne DEF QInv, ListsApart
    <3>6. /\ x \in pend /\ x \notin Range(nextRun)
          /\ \A q \in Queues : q # r => x \notin Range(op[q])
        BY <3>4 DEF QInv, ListsApart, Queued
    <3>7. ~Cancelled(op) => op'.dSteer = << >> /\ op'.dFollow = << >>
      <4>1. ASSUME ~Cancelled(op) PROVE r # "dSteer" /\ r # "dFollow"
        BY <3>2, <4>1, EmptySeq DEF QInv, DrainedByCancel
      <4>2. "dSteer" \in Queues /\ "dFollow" \in Queues
        BY DEF Queues
      <4> QED BY <3>3, <4>1, <4>2 DEF QInv, DrainedByCancel
    <3> QED BY <2>2, <3>3, <3>5, <3>6, <3>7 DEF QInv, ListsApart, Cancelled
  <2> QED BY <1>1, <2>1, <2>2
<1>4. ListsApart'
  <2>1. Queued(op') = Queued(op) \ {x}
    <3>1. \A y : y \in Queued(op) <=> \E q \in Queues : y \in Range(op[q])
        BY DEF Queued
    <3>2. \A y : y \in Queued(op') <=> \E q \in Queues : y \in Range(op'[q])
        BY DEF Queued
    <3>3. \A q \in Queues : \A y : y \in Range(op'[q]) <=> y \in Range(op[q]) /\ y # x
        BY <1>3
    <3> QED BY <3>1, <3>2, <3>3
  <2> QED BY <1>2, <1>3, <2>1 DEF QInv, ListsApart
<1>5. PlacedAhead'
  <2>1. ASSUME NEW v, NEW q \in Queues, AheadOf(placed, v, op[q]) PROVE AheadOf(placed', v, op'[q])
    BY <1>2, <1>3, <2>1 DEF AheadOf
  <2>2. AheadOf(placed', "next", nextRun')
    BY <1>2, <1>3 DEF QInv, PlacedAhead, AheadOf
  <2>3. {"steer", "follow", "writes"} \subseteq Queues
    BY DEF Queues
  <2> QED BY <2>1, <2>2, <2>3 DEF QInv, PlacedAhead
<1>6. DrainedByCancel'
    BY <1>3 DEF QInv, DrainedByCancel
<1>7. EveryItemHasOneFate' /\ QueuesAreFifo' /\ DiscardsAreDeliberate'
  <2>1. PlacedIds' = PlacedIds /\ DroppedIds' = DroppedIds
    BY <1>2 DEF PlacedIds, DroppedIds
  <2>2. EveryItemHasOneFate'
    BY <1>2, <1>3, <2>1 DEF QInv, EveryItemHasOneFate
  <2> QED BY <1>2, <2>2 DEF QInv, QueuesAreFifo, DiscardsAreDeliberate
<1> QED BY <1>4, <1>5, <1>6, <1>7 DEF QInv

\* The cancel marker moves two lists aside as they are.
LEMMA AbortQueues ==
    ASSUME IInv, QInv, Abort
    PROVE  QInv'
<1>0. op \in OpState /\ ~Cancelled(op)
    BY DEF IInv, TypeOK, LaneType, Abort, Abortable
<1>1. /\ op'.dSteer = op.steer /\ op'.dFollow = op.follow /\ op'.steer = << >>
      /\ op'.follow = << >> /\ op'.writes = op.writes /\ op'.ctl = "cancel"
      /\ op'.k = op.k /\ op'.skip = op.skip
    BY <1>0 DEF Abort, CancelMarked, OpState
<1>2. UNCHANGED <<nextRun, pend, admitted, placed, withdrawn, dropped>>
    BY DEF Abort, laneVars, inputVars
<1>3. op.dSteer = << >> /\ op.dFollow = << >>
    BY <1>0 DEF QInv, DrainedByCancel
<1>4. Range(<< >>) = {} /\ Ascending(<< >>)
    BY EmptyList
<1>5. ListsApart'
  <2>1. Queued(op') = Queued(op)
    BY <1>1, <1>3, <1>4 DEF Queued, Queues
  <2>2. /\ Ascending(op.steer) /\ Ascending(op.follow) /\ Ascending(op.writes)
        /\ \A q \in {"steer", "follow", "writes"} : Range(nextRun) \cap Range(op[q]) = {}
        /\ Range(op.steer) \cap Range(op.follow) = {} /\ Range(op.steer) \cap Range(op.writes) = {}
        /\ Range(op.follow) \cap Range(op.writes) = {}
    BY DEF QInv, ListsApart, Queues
  <2>3. \A q \in Queues : Ascending(op'[q]) /\ Range(nextRun) \cap Range(op'[q]) = {}
    BY <1>1, <1>4, <2>2 DEF Queues
  <2>4. \A q, r \in Queues : q # r => Range(op'[q]) \cap Range(op'[r]) = {}
    BY <1>1, <1>4, <2>2 DEF Queues
  <2> QED BY <1>2, <2>1, <2>3, <2>4 DEF QInv, ListsApart
<1>6. PlacedAhead'
    BY <1>1, <1>2, EmptyList DEF QInv, PlacedAhead
<1>7. DrainedByCancel'
    BY <1>1 DEF QInv, DrainedByCancel, Cancelled
<1>8. EveryItemHasOneFate' /\ QueuesAreFifo' /\ DiscardsAreDeliberate'
    BY <1>2 DEF QInv, EveryItemHasOneFate, QueuesAreFifo, DiscardsAreDeliberate, PlacedIds,
                DroppedIds
<1> QED BY <1>5, <1>6, <1>7, <1>8 DEF QInv

\* A lane nobody runs on has nothing queued but for its next run.
LEMMA IdleQueues ==
    ASSUME IInv, current = 0
    PROVE  op = NoOp /\ \A q \in Queues : op[q] = << >> /\ NewRun[q] = << >>
<1>1. op = NoOp
    BY DEF IInv, TypeOK, LaneType
<1> QED BY <1>1 DEF NoOp, NewRun, Queues

\* Acceptance places what waited for the next run.
LEMMA AcceptQueues ==
    ASSUME IInv, QInv, NEW sel, NEW adaptive, Accept(sel, adaptive)
    PROVE  QInv'
<1>0. nextRun \in Seq(Ids) /\ placed \in Seq(Entry)
    BY DEF IInv, TypeOK, LaneType, InputType
<1>1. /\ current = 0 /\ op' = [NewRun EXCEPT !.adaptive = adaptive]
      /\ placed' = placed \o Tag(nextRun, "next") /\ pend' = pend \ Range(nextRun)
      /\ nextRun' = << >> /\ UNCHANGED <<admitted, withdrawn, dropped>>
    BY DEF Accept
<1>2. /\ \A q \in Queues : op[q] = << >> /\ op'[q] = << >>
      /\ op'.steer = << >> /\ op'.follow = << >> /\ op'.writes = << >>
      /\ op'.dSteer = << >> /\ op'.dFollow = << >> /\ op'.k = "need"
  <2>1. \A q \in Queues : op[q] = << >>
    BY <1>1, IdleQueues
  <2> QED BY <1>1, <2>1 DEF NewRun, Queues
<1>3. /\ PlacedInOrder(placed) /\ PlacedOnce(placed)
      /\ IdsOf(placed) \cap Range(nextRun) = {} /\ Range(nextRun) \subseteq pend
    BY PlacedHistory
<1>4. Ascending(nextRun) /\ AheadOf(placed, "next", nextRun)
    BY DEF QInv, ListsApart, PlacedAhead
<1>5. /\ PlacedInOrder(placed') /\ PlacedOnce(placed')
      /\ IdsOf(placed') = IdsOf(placed) \cup Range(nextRun)
    BY <1>0, <1>1, <1>3, <1>4, PlaceList
<1>6. ListsApart'
  <2>1. Range(nextRun') = {} /\ Ascending(nextRun')
    BY <1>1, EmptyList
  <2>2. \A q \in Queues : Ascending(op'[q]) /\ Range(op'[q]) = {} /\ Range(op[q]) = {}
    BY <1>2, EmptyList
  <2>3. Queued(op) = {} /\ Queued(op') = {}
    BY <2>2 DEF Queued
  <2>4. pend' = {}
    BY <1>1, <2>3 DEF QInv, ListsApart
  <2> QED BY <2>1, <2>2, <2>3, <2>4 DEF ListsApart
<1>7. PlacedAhead'
    BY <1>1, <1>2, EmptyList DEF PlacedAhead
<1>8. DrainedByCancel'
    BY <1>2 DEF DrainedByCancel
<1>9. EveryItemHasOneFate' /\ QueuesAreFifo' /\ DiscardsAreDeliberate'
    BY <1>1, <1>3, <1>5, PlacedFate
<1> QED BY <1>6, <1>7, <1>8, <1>9 DEF QInv

\* What a drain takes of one list.
LEMMA EligiblePrefix ==
    ASSUME NEW s \in Seq(Ids), NEW mode
    PROVE  Eligible(s, mode) \in Seq(Ids) /\ Len(Eligible(s, mode)) \in Nat
BY EligibleType, LenProperties

\* One boundary's drain: three lists give up a prefix and the three prefixes
\* are placed one behind the other.
LEMMA DrainQueues ==
    ASSUME IInv, QInv, Drain
    PROVE  QInv'
<1> DEFINE p == DrainPlan(drv.snap)
           w == p.writes
           s == p.steer
           f == p.follow
<1>1. CASE ~StillFits(p)
  <2>1. Replan
    BY <1>1 DEF Drain
  <2> QED BY <2>1, ReplanQueues, QueuesKept
<1>2. CASE StillFits(p)
  <2>0. /\ op \in OpState /\ drv.snap \in OpState /\ placed \in Seq(Entry) /\ nextRun \in Seq(Ids)
        /\ drv.on /\ op.k = drv.snap.k /\ drv.snap.skip = op.skip
    BY DEF IInv, TypeOK, LaneType, InputType, DriverState, DriverOwnsThePhase, Drain, Planning
  <2>1. w \in Seq(Ids) /\ s \in Seq(Ids) /\ f \in Seq(Ids)
    <3>1. << >> \in Seq(Ids)
        BY EmptySeq
    <3> QED BY <2>0, <3>1, EligiblePrefix DEF DrainPlan, OpState
  <2>2. IsPrefix(w, op.writes) /\ IsPrefix(s, op.steer) /\ IsPrefix(f, op.follow)
    BY <1>2 DEF StillFits, DrainPlan
  <2>3. /\ op' = [op EXCEPT !.writes = Rest(@, Len(w)), !.steer = Rest(@, Len(s)),
                            !.follow = Rest(@, Len(f)),
                            !.k = IF Projects(p) THEN "need" ELSE drv.snap.k,
                            !.skip = Projects(p) \/ drv.snap.skip]
        /\ placed' = placed \o Tag(w, "writes") \o Tag(s, "steer") \o Tag(f, "follow")
        /\ pend' = pend \ (Range(w) \cup Range(s) \cup Range(f))
        /\ UNCHANGED <<nextRun, admitted, withdrawn, dropped>>
    BY <1>2 DEF Drain, laneVars
  <2> HIDE DEF p, w, s, f
  <2>4. /\ op'.writes = Rest(op.writes, Len(w)) /\ op'.steer = Rest(op.steer, Len(s))
        /\ op'.follow = Rest(op.follow, Len(f)) /\ op'.dSteer = op.dSteer
        /\ op'.dFollow = op.dFollow /\ op'.ctl = op.ctl
        /\ op'.k = "failure" => op.k = "failure" /\ op'.skip = op.skip
    <3>1. op'.k = (IF Projects(p) THEN "need" ELSE drv.snap.k)
          /\ op'.skip = (Projects(p) \/ drv.snap.skip)
        BY <2>0, <2>3 DEF OpState
    <3>2. op'.k = "failure" => op.k = "failure" /\ op'.skip = op.skip
        BY <2>0, <3>1 DEF OpState
    <3> QED BY <2>0, <2>3, <3>2 DEF OpState
  <2>5. /\ op.writes \in Seq(Ids) /\ op.steer \in Seq(Ids) /\ op.follow \in Seq(Ids)
        /\ Ascending(op.writes) /\ Ascending(op.steer) /\ Ascending(op.follow)
        /\ Ascending(op.dSteer) /\ Ascending(op.dFollow) /\ Ascending(nextRun)
    BY <2>0 DEF QInv, ListsApart, Queues, OpState
  <2>6. /\ Ascending(w) /\ Ascending(op'.writes)
        /\ Range(op.writes) = Range(w) \cup Range(op'.writes)
        /\ \A x \in Range(w), y \in Range(op'.writes) : x < y
    BY <2>1, <2>2, <2>4, <2>5, SplitList
  <2>7. /\ Ascending(s) /\ Ascending(op'.steer)
        /\ Range(op.steer) = Range(s) \cup Range(op'.steer)
        /\ \A x \in Range(s), y \in Range(op'.steer) : x < y
    BY <2>1, <2>2, <2>4, <2>5, SplitList
  <2>8. /\ Ascending(f) /\ Ascending(op'.follow)
        /\ Range(op.follow) = Range(f) \cup Range(op'.follow)
        /\ \A x \in Range(f), y \in Range(op'.follow) : x < y
    BY <2>1, <2>2, <2>4, <2>5, SplitList
  <2>9. /\ Range(op.writes) \cap Range(op.steer) = {} /\ Range(op.writes) \cap Range(op.follow) = {}
        /\ Range(op.steer) \cap Range(op.follow) = {}
        /\ \A q \in {"writes", "steer", "follow"} : \A r \in {"dSteer", "dFollow"} :
                Range(op[q]) \cap Range(op[r]) = {}
        /\ Range(op.dSteer) \cap Range(op.dFollow) = {}
        /\ \A q \in Queues : Range(nextRun) \cap Range(op[q]) = {}
    BY DEF QInv, ListsApart, Queues
  <2>10. /\ PlacedInOrder(placed) /\ PlacedOnce(placed)
         /\ IdsOf(placed) \cap (Range(w) \cup Range(s) \cup Range(f)) = {}
         /\ Range(w) \cup Range(s) \cup Range(f) \subseteq pend
    <3>1. Range(op.writes) \cup Range(op.steer) \cup Range(op.follow) \subseteq pend
        BY PlacedHistory DEF Queues
    <3> QED BY <2>6, <2>7, <2>8, <3>1, PlacedHistory
  <2>11. /\ AheadOf(placed, "writes", w) /\ AheadOf(placed, "writes", op'.writes)
         /\ AheadOf(placed, "steer", s) /\ AheadOf(placed, "steer", op'.steer)
         /\ AheadOf(placed, "follow", f) /\ AheadOf(placed, "follow", op'.follow)
         /\ AheadOf(placed, "next", nextRun)
    BY <2>6, <2>7, <2>8 DEF QInv, PlacedAhead, AheadOf
  <2> DEFINE P1 == placed \o Tag(w, "writes")
             P2 == P1 \o Tag(s, "steer")
             P3 == P2 \o Tag(f, "follow")
  <2>12. /\ P1 \in Seq(Entry) /\ PlacedInOrder(P1) /\ PlacedOnce(P1)
         /\ IdsOf(P1) = IdsOf(placed) \cup Range(w)
         /\ AheadOf(P1, "writes", op'.writes) /\ AheadOf(P1, "steer", s)
         /\ AheadOf(P1, "steer", op'.steer) /\ AheadOf(P1, "follow", f)
         /\ AheadOf(P1, "follow", op'.follow) /\ AheadOf(P1, "next", nextRun)
    <3>1. IdsOf(placed) \cap Range(w) = {}
        BY <2>10
    <3> QED BY <2>0, <2>1, <2>6, <2>10, <2>11, <3>1, PlaceList
  <2> HIDE DEF P1
  <2>13. /\ P2 \in Seq(Entry) /\ PlacedInOrder(P2) /\ PlacedOnce(P2)
         /\ IdsOf(P2) = IdsOf(P1) \cup Range(s)
         /\ AheadOf(P2, "writes", op'.writes) /\ AheadOf(P2, "steer", op'.steer)
         /\ AheadOf(P2, "follow", f) /\ AheadOf(P2, "follow", op'.follow)
         /\ AheadOf(P2, "next", nextRun)
    <3>1. IdsOf(P1) \cap Range(s) = {}
        BY <2>6, <2>7, <2>9, <2>10, <2>12
    <3> QED BY <2>1, <2>7, <2>12, <3>1, PlaceList
  <2> HIDE DEF P2
  <2>14. /\ PlacedInOrder(P3) /\ PlacedOnce(P3) /\ IdsOf(P3) = IdsOf(P2) \cup Range(f)
         /\ AheadOf(P3, "writes", op'.writes) /\ AheadOf(P3, "steer", op'.steer)
         /\ AheadOf(P3, "follow", op'.follow) /\ AheadOf(P3, "next", nextRun)
    <3>1. IdsOf(P2) \cap Range(f) = {}
        BY <2>6, <2>7, <2>8, <2>9, <2>10, <2>12, <2>13
    <3> QED BY <2>1, <2>8, <2>13, <3>1, PlaceList
  <2>15. placed' = P3
    BY <2>3 DEF P1, P2
  <2> HIDE DEF P3
  <2>16. ListsApart'
    <3>1. \A q \in Queues : Ascending(op'[q]) /\ Range(op'[q]) \subseteq Range(op[q])
        BY <2>4, <2>5, <2>6, <2>7, <2>8 DEF Queues
    <3>2. \A q \in Queues : Range(nextRun) \cap Range(op'[q]) = {}
        BY <2>9, <3>1
    <3>3. \A q, r \in Queues : q # r => Range(op'[q]) \cap Range(op'[r]) = {}
        BY <3>1 DEF QInv, ListsApart
    <3>4. pend' = Range(nextRun) \cup Queued(op')
      <4>1. Queued(op) = Range(op.writes) \cup Range(op.steer) \cup Range(op.follow)
                            \cup Range(op.dSteer) \cup Range(op.dFollow)
        BY DEF Queued, Queues
      <4>2. Queued(op') = Range(op'.writes) \cup Range(op'.steer) \cup Range(op'.follow)
                            \cup Range(op.dSteer) \cup Range(op.dFollow)
        BY <2>4 DEF Queued, Queues
      <4>3. pend = Range(nextRun) \cup Queued(op)
        BY DEF QInv, ListsApart
      <4>4. /\ Range(w) \cap Range(op'.writes) = {} /\ Range(s) \cap Range(op'.steer) = {}
            /\ Range(f) \cap Range(op'.follow) = {}
        <5>1. \A l \in {w, s, f} : \A x \in Range(l) : x \in Nat
            BY <2>1, ListContents, IdsAreNumbers
        <5> QED BY <2>6, <2>7, <2>8, <5>1
      <4>5. \A q \in Queues : Range(nextRun) \cap (Range(w) \cup Range(s) \cup Range(f)) = {}
        BY <2>6, <2>7, <2>8, <2>9 DEF Queues
      <4>6. (Range(w) \cup Range(s) \cup Range(f)) \cap Queued(op') = {}
        <5>1. Range(w) \cap Queued(op') = {}
            BY <2>6, <2>7, <2>8, <2>9, <4>2, <4>4
        <5>2. Range(s) \cap Queued(op') = {}
            BY <2>6, <2>7, <2>8, <2>9, <4>2, <4>4
        <5>3. Range(f) \cap Queued(op') = {}
            BY <2>6, <2>7, <2>8, <2>9, <4>2, <4>4
        <5> QED BY <5>1, <5>2, <5>3
      <4>7. Queued(op) = Range(w) \cup Range(s) \cup Range(f) \cup Queued(op')
        BY <2>6, <2>7, <2>8, <4>1, <4>2
      <4>8. Range(nextRun) \cap (Range(w) \cup Range(s) \cup Range(f)) = {}
        BY <4>5 DEF Queues
      <4> QED BY <2>3, <4>3, <4>6, <4>7, <4>8
    <3> QED BY <2>3, <2>5, <3>1, <3>2, <3>3, <3>4 DEF ListsApart
  <2>17. PlacedAhead'
    BY <2>3, <2>14, <2>15 DEF PlacedAhead
  <2>18. DrainedByCancel'
    BY <2>4 DEF QInv, DrainedByCancel, Cancelled
  <2>19. EveryItemHasOneFate' /\ QueuesAreFifo' /\ DiscardsAreDeliberate'
    <3> DEFINE S == Range(w) \cup Range(s) \cup Range(f)
    <3>1. /\ S \subseteq pend /\ pend' = pend \ S
          /\ IdsOf(placed') = IdsOf(placed) \cup S
          /\ PlacedOnce(placed') /\ PlacedInOrder(placed')
        BY <2>3, <2>10, <2>12, <2>13, <2>14, <2>15
    <3> HIDE DEF S
    <3> QED BY <2>3, <3>1, PlacedFate
  <2> QED BY <2>16, <2>17, <2>18, <2>19 DEF QInv
<1> QED BY <1>1, <1>2

\* A terminal commit that is not superseded discards what is queued; the
\* caller shows that it may.
LEMMA TerminalQueues ==
    ASSUME IInv, QInv, drv.on, NEW outcome \in Outcomes, NEW open, Terminal(outcome, open),
           ~Superseded => \A q \in Queues : op[q] # << >> =>
                \/ outcome = "completed" /\ op.k = "tools"
                \/ /\ outcome = "aborted"
                   /\ q = "writes" => op.k \in {"ready", "retry", "deferred"}
    PROVE  QInv'
<1>1. CASE Superseded
  <2>1. SameQueues
    BY <1>1 DEF Terminal, SameQueues, QInv, DrainedByCancel, laneVars
  <2> QED BY <2>1, QueuesKept
<1>2. CASE ~Superseded
  <2> DEFINE D == UNION {{[id |-> i, queue |-> q, outcome |-> outcome, k |-> op.k] :
                            i \in Range(op[q])} : q \in Queues}
  <2>1. /\ op' = NoOp /\ dropped' = dropped \cup D /\ pend' = pend \ Queued(op)
        /\ UNCHANGED <<nextRun, admitted, placed, withdrawn>>
    BY <1>2 DEF Terminal
  <2>2. /\ \A q \in Queues : op'[q] = << >>
        /\ op'.steer = << >> /\ op'.follow = << >> /\ op'.writes = << >>
        /\ op'.dSteer = << >> /\ op'.dFollow = << >> /\ op'.k = "none"
    BY <2>1 DEF NoOp, NewRun, Queues
  <2>3. \A q \in Queues : Ascending(op'[q]) /\ Range(op'[q]) = {}
    BY <2>2, EmptyList
  <2>4. Queued(op') = {}
    BY <2>3 DEF Queued
  <2>5. ListsApart'
    <3>1. Range(nextRun) \cap Queued(op) = {}
        BY DEF QInv, ListsApart, Queued
    <3>2. pend' = Range(nextRun)
        BY <2>1, <3>1 DEF QInv, ListsApart
    <3> QED BY <2>1, <2>3, <2>4, <3>2 DEF QInv, ListsApart
  <2>6. PlacedAhead'
    BY <2>1, <2>2, EmptyList DEF QInv, PlacedAhead
  <2>7. DrainedByCancel'
    BY <2>2 DEF DrainedByCancel
  <2>8. {d.id : d \in D} = Queued(op)
    <3>1. \A d \in D : d.id \in Queued(op)
        BY DEF Queued
    <3>2. ASSUME NEW x \in Queued(op) PROVE x \in {d.id : d \in D}
        <4>1. PICK q \in Queues : x \in Range(op[q])
            BY <3>2 DEF Queued
        <4>2. [id |-> x, queue |-> q, outcome |-> outcome, k |-> op.k] \in D
            <5>1. [id |-> x, queue |-> q, outcome |-> outcome, k |-> op.k]
                    \in {[id |-> i, queue |-> q, outcome |-> outcome, k |-> op.k] :
                            i \in Range(op[q])}
                BY <4>1
            <5> QED BY <5>1
        <4> HIDE DEF D
        <4> QED BY <4>2
    <3> QED BY <3>1, <3>2
  <2>9. \A d \in D : /\ d.queue \in Queues /\ d.outcome = outcome /\ d.k = op.k
                     /\ op[d.queue] # << >>
    <3> SUFFICES ASSUME NEW q \in Queues, NEW i \in Range(op[q])
                 PROVE  op[q] # << >>
        OBVIOUS
    <3> QED BY EmptyList
  <2> HIDE DEF D
  <2>10. EveryItemHasOneFate'
    <3>1. PlacedIds' = PlacedIds /\ DroppedIds' = DroppedIds \cup Queued(op)
        BY <2>1, <2>8 DEF PlacedIds, DroppedIds
    <3>2. Queued(op) \subseteq pend
        BY DEF QInv, ListsApart
    <3>3. \A m, n \in DOMAIN placed' : placed'[m].id = placed'[n].id => m = n
        BY <2>1 DEF QInv, EveryItemHasOneFate
    <3> QED BY <2>1, <3>1, <3>2, <3>3 DEF QInv, EveryItemHasOneFate
  <2>11. DiscardsAreDeliberate'
    <3>1. \A d \in D : \/ d.outcome = "completed" /\ d.k = "tools"
                       \/ /\ d.outcome = "aborted"
                          /\ d.queue = "writes" => d.k \in {"ready", "retry", "deferred"}
        BY <1>2, <2>9
    <3> QED BY <2>1, <3>1 DEF QInv, DiscardsAreDeliberate
  <2>12. QueuesAreFifo'
    BY <2>1 DEF QInv, QueuesAreFifo
  <2> QED BY <2>5, <2>6, <2>7, <2>10, <2>11, <2>12 DEF QInv
<1> QED BY <1>1, <1>2

\* A checkpoint with nothing to drain has no deferred writes, and unless it is
\* cancelled or may not drain yet, no steering input either.
LEMMA NothingToDrain ==
    ASSUME NEW o \in OpState, ~DrainDue(o), o.k \in {"need", "may", "failure"}
    PROVE  /\ Cancelled(o) => o.writes = << >>
           /\ ~Cancelled(o) /\ ~o.skip /\ o.k # "need" => InboxEmpty(o)
<1>0. o.writes \in Seq(Ids) /\ o.steer \in Seq(Ids) /\ o.follow \in Seq(Ids) /\ << >> \in Seq(Ids)
    BY EmptySeq DEF OpState
<1> DEFINE p == DrainPlan(o)
<1>1. p.writes \in Seq(Ids) /\ p.steer \in Seq(Ids) /\ p.follow \in Seq(Ids)
    BY <1>0, EligiblePrefix DEF DrainPlan
<1>2. ASSUME Cancelled(o) \/ ~o.skip
      PROVE  p.writes = << >> /\ p.steer = << >> /\ p.follow = << >>
  <2>1. p.writes \o p.steer \o p.follow = << >>
    BY <1>2 DEF DrainDue
  <2> HIDE DEF p
  <2>2. /\ p.writes \o p.steer \in Seq(Ids)
        /\ Len(p.writes \o p.steer) = Len(p.writes) + Len(p.steer)
    BY <1>1, ConcatProperties
  <2>3. Len((p.writes \o p.steer) \o p.follow) = Len(p.writes) + Len(p.steer) + Len(p.follow)
    BY <1>1, <2>2, ConcatProperties
  <2>4. Len(p.writes) = 0 /\ Len(p.steer) = 0 /\ Len(p.follow) = 0
    <3>1. Len(<< >>) = 0
        BY EmptySeq
    <3>2. Len(p.writes) \in Nat /\ Len(p.steer) \in Nat /\ Len(p.follow) \in Nat
        BY <1>1, LenProperties
    <3> QED BY <2>1, <2>3, <3>1, <3>2
  <2> QED BY <1>1, <2>4, EmptySeq
<1>3. Cancelled(o) => o.writes = << >>
    BY <1>2 DEF DrainPlan
<1>4. ASSUME ~Cancelled(o), ~o.skip, o.k # "need" PROVE InboxEmpty(o)
  <2>1. /\ o.writes = << >> /\ Eligible(o.steer, SteeringMode) = << >>
        /\ Eligible(o.follow, FollowUpMode) = << >>
    BY <1>2, <1>4 DEF DrainPlan
  <2>2. ASSUME NEW t \in Seq(Ids), NEW mode, Eligible(t, mode) = << >> PROVE t = << >>
    <3>1. <<t[1]>> # << >>
        BY EmptySeq
    <3> QED BY <2>2, <3>1 DEF Eligible
  <2> QED BY <1>0, <2>1, <2>2 DEF InboxEmpty
<1> QED BY <1>3, <1>4

\* The four ways a run ends.
LEMMA FinishQueues ==
    ASSUME IInv, QInv, FinishCompleted \/ FinishFailed \/ FinishAborted \/ FinishTerminated
    PROVE  QInv'
<1>0. /\ drv.on /\ op \in OpState /\ drv.snap \in OpState
      /\ ~Superseded => drv.snap = op
    BY DEF IInv, TypeOK, LaneType, DriverState, FinishCompleted, FinishFailed, FinishAborted,
           FinishTerminated, Planning, Superseded
<1>1. ~Cancelled(op) /\ InboxEmpty(op) => \A q \in Queues : op[q] = << >>
    BY DEF QInv, DrainedByCancel, InboxEmpty, Queues
<1>2. CASE FinishCompleted
  <2>1. Terminal("completed", turnOpen) /\ FinishBoundary(drv.snap)
    BY <1>2 DEF FinishCompleted
  <2>2. ~Superseded => ~Cancelled(op) /\ InboxEmpty(op)
    BY <1>0, <2>1 DEF FinishBoundary
  <2>3. "completed" \in Outcomes
    BY DEF Outcomes
  <2> QED BY <1>0, <1>1, <2>1, <2>2, <2>3, TerminalQueues
<1>3. CASE FinishFailed
  <2>1. /\ Terminal("failed", turnOpen) /\ ~Cancelled(drv.snap) /\ drv.snap.k = "failure"
        /\ ~DrainDue(drv.snap)
    BY <1>3 DEF FinishFailed
  <2>2. ~Superseded => ~Cancelled(op) /\ InboxEmpty(op)
    <3>1. op.k = "failure" => ~op.skip
        BY DEF QInv, DrainedByCancel
    <3> QED BY <1>0, <2>1, <3>1, NothingToDrain
  <2>3. "failed" \in Outcomes
    BY DEF Outcomes
  <2> QED BY <1>0, <1>1, <2>1, <2>2, <2>3, TerminalQueues
<1>4. CASE FinishAborted
  <2>1. /\ Terminal("aborted", turnOpen) /\ Cancelled(drv.snap) /\ ~DrainDue(drv.snap)
        /\ AbortClosable(drv.snap)
    BY <1>4 DEF FinishAborted
  <2>2. ~Superseded => op.writes = << >> \/ op.k \in {"ready", "retry", "deferred"}
    BY <1>0, <2>1, NothingToDrain DEF AbortClosable
  <2>3. "aborted" \in Outcomes
    BY DEF Outcomes
  <2> QED BY <1>0, <2>1, <2>2, <2>3, TerminalQueues
<1>5. CASE FinishTerminated
  <2>1. Terminal("completed", FALSE) /\ drv.snap.k = "tools"
    BY <1>5 DEF FinishTerminated
  <2>2. ~Superseded => op.k = "tools"
    BY <1>0, <2>1
  <2>3. "completed" \in Outcomes
    BY DEF Outcomes
  <2> QED BY <1>0, <2>1, <2>2, <2>3, TerminalQueues
<1> QED BY <1>2, <1>3, <1>4, <1>5

\* Settling a request rewrites the phase and leaves the lists alone.
LEMMA SettlementQueues ==
    ASSUME IInv, QInv, NEW answer, SettleAssistant(answer)
    PROVE  SameQueues
<1>0. op \in OpState /\ DOMAIN op = DOMAIN NoOp /\ (op.k = "failure" => ~op.skip)
    BY DEF IInv, TypeOK, LaneType, QInv, DrainedByCancel, OpState, NoOp, NewRun
<1>1. /\ op' = IF Cancelled(op) THEN [op EXCEPT !.k = "may", !.skip = FALSE]
                                ELSE Classified(op, answer)
      /\ UNCHANGED <<nextRun, inputVars>>
    BY DEF SettleAssistant, laneVars
<1>2. /\ \A q \in Queues : op'[q] = op[q]
      /\ op'.ctl = op.ctl /\ (op'.k = "failure" => ~op'.skip)
  <2>1. CASE Cancelled(op)
    BY <1>0, <1>1, <2>1 DEF OpState, Queues
  <2>2. CASE ~Cancelled(op)
    <3>1. op' = Classified(op, answer)
        BY <1>1, <2>2
    <3>2. CASE answer.kind = "stop"
        BY <1>0, <3>1, <3>2 DEF Classified, OpState, Queues
    <3>3. CASE answer.kind = "tools"
        BY <1>0, <3>1, <3>3 DEF Classified, OpState, Queues
    <3>4. CASE answer.kind = "deferred"
        BY <1>0, <3>1, <3>4 DEF Classified, OpState, Queues
    <3>5. CASE answer.kind = "transient" /\ op.attempt < MaxAttempts
        BY <1>0, <3>1, <3>5 DEF Classified, OpState, Queues
    <3>6. CASE /\ answer.kind \notin {"stop", "tools", "deferred"}
               /\ ~(answer.kind = "transient" /\ op.attempt < MaxAttempts)
      <4>1. op' = [op EXCEPT !.k = "failure", !.skip = FALSE]
        BY <3>1, <3>6 DEF Classified
      <4> QED BY <1>0, <4>1 DEF OpState, Queues
    <3> QED BY <3>2, <3>3, <3>4, <3>5, <3>6
  <2> QED BY <2>1, <2>2
<1> QED BY <1>1, <1>2 DEF SameQueues, Cancelled

\* A step that rewrites the phase and leaves lists and cancel marker alone.
LEMMA PhaseMoves ==
    ASSUME IInv, QInv, UNCHANGED <<nextRun, inputVars>>,
           \A q \in Queues : op'[q] = op[q], op'.ctl = op.ctl,
           op'.k = "failure" => op.k = "failure" /\ op'.skip = op.skip
    PROVE  SameQueues
BY DEF SameQueues, Cancelled, QInv, DrainedByCancel

\* The steps of the driver before, in and after a request.
LEMMA GenerationQueues ==
    ASSUME IInv, QInv,
           \/ NeedAssistant \/ Dispatch \/ RecoverAttempt \/ RetryReady \/ Sleep \/ Wake
           \/ HookStart \/ (\E extend \in BOOLEAN : HookSettle(extend))
    PROVE  SameQueues
<1>0. op \in OpState
    BY DEF IInv, TypeOK, LaneType
<1>1. CASE Replan
    BY <1>1, ReplanQueues
<1>2. CASE ~Replan
  <2>1. UNCHANGED <<nextRun, inputVars>>
    BY <1>2 DEF NeedAssistant, Dispatch, RecoverAttempt, RetryReady, Sleep, Wake, HookStart,
                HookSettle, Cas, laneVars
  <2>2. \/ op' = op
        \/ op' = [op EXCEPT !.k = "ready", !.skip = FALSE, !.attempt = 1, !.turn = @ + 1]
        \/ op' = [op EXCEPT !.k = "pending"] \/ op' = [op EXCEPT !.k = "ready"]
        \/ op' = [op EXCEPT !.k = "ready", !.attempt = @ + 1]
        \/ op' = [op EXCEPT !.k = "need", !.skip = TRUE]
    BY <1>2 DEF NeedAssistant, Dispatch, RecoverAttempt, RetryReady, Sleep, Wake, HookStart,
                HookSettle, Cas, NextAttempt
  <2>3. /\ \A q \in Queues : op'[q] = op[q]
        /\ op'.ctl = op.ctl /\ (op'.k = "failure" => op.k = "failure" /\ op'.skip = op.skip)
    BY <1>0, <2>2 DEF OpState, Queues
  <2> QED BY <2>1, <2>3, PhaseMoves
<1> QED BY <1>1, <1>2

\* The steps of the driver on a tool batch.
LEMMA ToolQueues ==
    ASSUME IInv, QInv,
           \/ PrepareTools \/ ClearTools \/ ToolsDone \/ CancelToolsDone \/ CancelDeferred
           \/ \E i \in Indices : \/ PrepareImmediate(i) \/ PrepareLaunch(i) \/ SettleTool(i)
                                 \/ SettleSynthetic(i) \/ RecoverTool(i)
    PROVE  SameQueues
<1>0. op \in OpState
    BY DEF IInv, TypeOK, LaneType
<1>1. CASE Replan
    BY <1>1, ReplanQueues
<1>2. CASE ~Replan
  <2>1. CASE PrepareTools \/ CancelDeferred
    <3>1. op' = op /\ UNCHANGED <<nextRun, inputVars>>
        BY <2>1 DEF PrepareTools, CancelDeferred, laneVars
    <3> QED BY <3>1, PhaseMoves
  <2>2. CASE ToolsDone \/ CancelToolsDone
    <3>1. \E k \in {"need", "may"} :
            op' = [op EXCEPT !.k = k, !.skip = FALSE, !.calls = << >>, !.auth = "standard"]
        BY <1>2, <2>2 DEF ToolsDone, CancelToolsDone, Cas
    <3>2. /\ \A q \in Queues : op'[q] = op[q]
          /\ op'.ctl = op.ctl /\ op'.k # "failure"
        BY <1>0, <3>1 DEF OpState, Queues
    <3>3. UNCHANGED <<nextRun, inputVars>>
        BY <1>2, <2>2 DEF ToolsDone, CancelToolsDone, Cas, laneVars
    <3> QED BY <3>2, <3>3, PhaseMoves
  <2>3. CASE \/ ClearTools
             \/ \E i \in Indices : \/ PrepareImmediate(i) \/ PrepareLaunch(i) \/ SettleTool(i)
                                   \/ SettleSynthetic(i) \/ RecoverTool(i)
    <3>1. /\ \/ op' = op
             \/ \E calls : op' = [op EXCEPT !.calls = calls]
             \/ \E calls : op' = [op EXCEPT !.auth = "entry", !.calls = calls]
          /\ UNCHANGED <<nextRun, inputVars>>
      <4>1. CASE ClearTools
        BY <1>2, <4>1 DEF ClearTools, laneVars
      <4>2. ASSUME NEW i \in Indices, NEW body, NEW terminate, CommitResult(i, body, terminate)
            PROVE  /\ \E calls : op' = [op EXCEPT !.calls = calls]
                   /\ UNCHANGED <<nextRun, inputVars>>
        <5>1. op' = [op EXCEPT !.calls = [op.calls EXCEPT ![i] =
                        IF terminate /\ ~Cancelled(op) THEN "terminated" ELSE "done"]]
            BY <4>2 DEF CommitResult, Settled
        <5> QED BY <4>2, <5>1 DEF CommitResult, laneVars
      <4>3. ASSUME NEW i \in Indices, PrepareLaunch(i)
            PROVE  /\ \E calls : op' = [op EXCEPT !.calls = calls]
                   /\ UNCHANGED <<nextRun, inputVars>>
        <5>1. PICK replay \in PendingCall : op' = [op EXCEPT !.calls[i] = replay]
            BY <1>2, <4>3 DEF PrepareLaunch
        <5>2. op' = [op EXCEPT !.calls = [op.calls EXCEPT ![i] = replay]]
            BY <5>1
        <5> QED BY <1>2, <4>3, <5>2 DEF PrepareLaunch, laneVars
      <4>4. ASSUME NEW i \in Indices,
                   PrepareImmediate(i) \/ SettleTool(i) \/ SettleSynthetic(i)
            PROVE  /\ \E calls : op' = [op EXCEPT !.calls = calls]
                   /\ UNCHANGED <<nextRun, inputVars>>
        <5>1. \E body, terminate : CommitResult(i, body, terminate)
            BY <4>4 DEF PrepareImmediate, SettleTool, SettleSynthetic
        <5> QED BY <4>2, <5>1
      <4>5. ASSUME NEW i \in Indices, RecoverTool(i)
            PROVE  /\ op' = op \/ \E calls : op' = [op EXCEPT !.calls = calls]
                   /\ UNCHANGED <<nextRun, inputVars>>
        <5>1. CASE CommitResult(i, "interrupted", FALSE)
            BY <4>2, <5>1
        <5>2. CASE op' = op
            BY <4>5, <5>2 DEF RecoverTool, CommitResult, laneVars
        <5> QED BY <4>5, <5>1, <5>2 DEF RecoverTool
      <4> QED BY <2>3, <4>1, <4>3, <4>4, <4>5
    <3>2. /\ \A q \in Queues : op'[q] = op[q]
          /\ op'.ctl = op.ctl /\ op'.k = op.k /\ op'.skip = op.skip
        BY <1>0, <3>1 DEF OpState, Queues
    <3> QED BY <3>1, <3>2, PhaseMoves
  <2> QED BY <2>1, <2>2, <2>3
<1> QED BY <1>1, <1>2

\* The steps of the callers.
LEMMA CallerQueues == IInv /\ QInv /\ Caller => QInv'
<1> SUFFICES ASSUME IInv, QInv, Caller PROVE QInv'
    OBVIOUS
<1>1. CASE \E sel \in Selectors : Resume(sel)
  <2>1. op' = op /\ UNCHANGED <<nextRun, inputVars>>
    BY <1>1 DEF Resume, laneVars
  <2> QED BY <2>1, PhaseMoves, QueuesKept
<1>2. CASE \E sel \in Selectors : \E a \in AdaptiveRuns : Accept(sel, a)
    BY <1>2, AcceptQueues
<1>3. CASE AcceptContinuation
  <2>1. /\ current = 0 /\ op' = [NewRun EXCEPT !.adaptive = TRUE]
        /\ nextRun' = nextRun /\ UNCHANGED inputVars
    BY <1>3 DEF AcceptContinuation
  <2>2. op = NoOp /\ \A q \in Queues : op[q] = << >> /\ NewRun[q] = << >>
    BY <2>1, IdleQueues
  <2>3. /\ \A q \in Queues : op'[q] = op[q]
        /\ op'.ctl = op.ctl /\ op'.k # "failure"
    BY <2>1, <2>2 DEF NewRun, NoOp, Queues
  <2> QED BY <2>1, <2>3, PhaseMoves, QueuesKept
<1>4. CASE NextRun
    BY <1>4, NextRunQueues
<1>5. CASE AppendPlaced
    BY <1>5, AppendPlacedQueues
<1>6. CASE CancelQueued
    BY <1>6, CancelQueuedQueues
<1>7. CASE Abort
    BY <1>7, AbortQueues
<1>8. CASE \E q \in {"steer", "follow"} : Enqueue(q)
  <2>1. PICK q \in {"steer", "follow"} : Enqueue(q)
    BY <1>8
  <2>2. q \in {"steer", "follow", "writes"}
    OBVIOUS
  <2>3. /\ Admit({FreshId}) /\ op' = [op EXCEPT ![q] = Append(@, FreshId)]
        /\ UNCHANGED <<nextRun, placed, withdrawn, dropped>>
    BY <2>1 DEF Enqueue, laneVars
  <2> QED BY <2>2, <2>3, Enqueued
<1>9. CASE \E isNote \in BOOLEAN : AppendDeferred(isNote)
  <2> DEFINE q == "writes"
  <2>1. q \in {"steer", "follow", "writes"}
    OBVIOUS
  <2>2. /\ Admit({FreshId}) /\ op' = [op EXCEPT ![q] = Append(@, FreshId)]
        /\ UNCHANGED <<nextRun, placed, withdrawn, dropped>>
    BY <1>9 DEF AppendDeferred, laneVars
  <2> HIDE DEF q
  <2> QED BY <2>1, <2>2, Enqueued
<1> QED BY <1>1, <1>2, <1>3, <1>4, <1>5, <1>6, <1>7, <1>8, <1>9 DEF Caller

\* No step disturbs the queues.
LEMMA QueueStep == IInv /\ QInv /\ [Next]_vars => QInv'
<1> SUFFICES ASSUME IInv, QInv, [Next]_vars PROVE QInv'
    OBVIOUS
<1>1. CASE DriverStep
  <2>1. CASE \/ Hydrate \/ Drain \/ FinishCompleted \/ FinishFailed \/ FinishAborted
             \/ FinishTerminated
    BY <2>1, ReplanQueues, QueuesKept, DrainQueues, FinishQueues DEF Hydrate
  <2>2. CASE SettleGeneration \/ SettleInterrupted
    BY <2>2, SettlementQueues, QueuesKept DEF SettleGeneration, SettleInterrupted
  <2> QED BY <1>1, <2>1, <2>2, GenerationQueues, ToolQueues, QueuesKept DEF DriverStep
<1>2. CASE EffectStep \/ TimerDue \/ Crash \/ UNCHANGED vars
  <2>1. op' = op /\ UNCHANGED <<nextRun, inputVars>>
    BY <1>2 DEF EffectStep, GenerationStart, CancelDeferredEnds, ToolStart, TimerDue, Crash, vars,
                laneVars
  <2> QED BY <2>1, PhaseMoves, QueuesKept
<1> QED BY <1>1, <1>2, CallerQueues DEF Next

\* The invariant of the queues holds in every reachable state of the harness.
THEOREM QueueInvariance == Spec => []QInv
<1>1. Init => QInv
  <2> SUFFICES ASSUME Init PROVE QInv
    OBVIOUS
  <2>1. /\ op = NoOp /\ nextRun = << >> /\ pend = {} /\ placed = << >> /\ admitted = 0
        /\ withdrawn = {} /\ dropped = {}
    BY DEF Init
  <2>2. /\ \A q \in Queues : op[q] = << >>
        /\ op.steer = << >> /\ op.follow = << >> /\ op.writes = << >>
        /\ op.dSteer = << >> /\ op.dFollow = << >> /\ op.k = "none"
    BY <2>1 DEF NoOp, NewRun, Queues
  <2>3. \A q \in Queues : Ascending(op[q]) /\ Range(op[q]) = {}
    BY <2>2, EmptyList
  <2>4. Ascending(nextRun) /\ Range(nextRun) = {} /\ Queued(op) = {}
    BY <2>1, <2>3, EmptyList DEF Queued
  <2>5. ListsApart
    BY <2>1, <2>3, <2>4 DEF ListsApart
  <2>6. PlacedAhead /\ DrainedByCancel
    BY <2>1, <2>2, EmptyList DEF PlacedAhead, DrainedByCancel
  <2>7. EveryItemHasOneFate
    BY <2>1, EmptySeq DEF EveryItemHasOneFate, PlacedIds, DroppedIds
  <2>8. QueuesAreFifo /\ DiscardsAreDeliberate
    BY <2>1, EmptySeq DEF QueuesAreFifo, DiscardsAreDeliberate
  <2> QED BY <2>5, <2>6, <2>7, <2>8 DEF QInv
<1> QED BY <1>1, QueueStep, Invariance, PTL DEF Spec

\* Every accepted item has exactly one fate, through every drain, withdrawal,
\* abort, terminal commit, replan and crash.
THEOREM ItemsHaveOneFate == Spec => []EveryItemHasOneFate
<1>1. QInv => EveryItemHasOneFate
    BY DEF QInv
<1> QED BY <1>1, QueueInvariance, PTL

\* Input of one queue is placed in the order it was accepted.
THEOREM QueuesStayFifo == Spec => []QueuesAreFifo
<1>1. QInv => QueuesAreFifo
    BY DEF QInv
<1> QED BY <1>1, QueueInvariance, PTL

\* A run that stops or fails discards nothing, and an abort through a
\* checkpoint has applied every deferred write.
THEOREM OnlyDeliberateDiscards == Spec => []DiscardsAreDeliberate
<1>1. QInv => DiscardsAreDeliberate
    BY DEF QInv
<1> QED BY <1>1, QueueInvariance, PTL

\* The lists of a lane never hold an item twice and agree with the
\* pending.entry registers, which is what restoreLane insists on.
THEOREM PendingItemsAreListedOnce == Spec => []OneQueuePerPendingItem
<1>1. IInv /\ QInv => OneQueuePerPendingItem
  <2> SUFFICES ASSUME IInv, QInv PROVE OneQueuePerPendingItem
    OBVIOUS
  <2>1. /\ nextRun \in Seq(Ids) /\ op.steer \in Seq(Ids) /\ op.follow \in Seq(Ids)
        /\ op.writes \in Seq(Ids) /\ op.dSteer \in Seq(Ids) /\ op.dFollow \in Seq(Ids)
    BY DEF IInv, TypeOK, LaneType, OpState
  <2>2. /\ IsInjective(nextRun) /\ IsInjective(op.steer) /\ IsInjective(op.follow)
        /\ IsInjective(op.writes) /\ IsInjective(op.dSteer) /\ IsInjective(op.dFollow)
    <3>1. /\ Ascending(nextRun) /\ Ascending(op.steer) /\ Ascending(op.follow)
          /\ Ascending(op.writes) /\ Ascending(op.dSteer) /\ Ascending(op.dFollow)
        BY DEF QInv, ListsApart, Queues
    <3> QED BY <2>1, <3>1, AscendingIsInjective
  <2> DEFINE A1 == nextRun \o op.steer
             A2 == A1 \o op.follow
             A3 == A2 \o op.writes
             A4 == A3 \o op.dSteer
             A5 == A4 \o op.dFollow
  <2>3. /\ \A q \in Queues : Range(nextRun) \cap Range(op[q]) = {}
        /\ \A q, r \in Queues : q # r => Range(op[q]) \cap Range(op[r]) = {}
        /\ pend = Range(nextRun) \cup Queued(op)
    BY DEF QInv, ListsApart
  <2>4. A1 \in Seq(Ids) /\ IsInjective(A1) /\ Range(A1) = Range(nextRun) \cup Range(op.steer)
    <3>1. Range(nextRun) \cap Range(op.steer) = {}
        BY <2>3 DEF Queues
    <3> QED BY <2>1, <2>2, <3>1, JoinLists
  <2> HIDE DEF A1
  <2>5. A2 \in Seq(Ids) /\ IsInjective(A2) /\ Range(A2) = Range(A1) \cup Range(op.follow)
    <3>1. Range(A1) \cap Range(op.follow) = {}
        BY <2>3, <2>4 DEF Queues
    <3> QED BY <2>1, <2>2, <2>4, <3>1, JoinLists
  <2> HIDE DEF A2
  <2>6. A3 \in Seq(Ids) /\ IsInjective(A3) /\ Range(A3) = Range(A2) \cup Range(op.writes)
    <3>1. Range(A2) \cap Range(op.writes) = {}
        BY <2>3, <2>4, <2>5 DEF Queues
    <3> QED BY <2>1, <2>2, <2>5, <3>1, JoinLists
  <2> HIDE DEF A3
  <2>7. A4 \in Seq(Ids) /\ IsInjective(A4) /\ Range(A4) = Range(A3) \cup Range(op.dSteer)
    <3>1. Range(A3) \cap Range(op.dSteer) = {}
        BY <2>3, <2>4, <2>5, <2>6 DEF Queues
    <3> QED BY <2>1, <2>2, <2>6, <3>1, JoinLists
  <2> HIDE DEF A4
  <2>8. A5 \in Seq(Ids) /\ IsInjective(A5) /\ Range(A5) = Range(A4) \cup Range(op.dFollow)
    <3>1. Range(A4) \cap Range(op.dFollow) = {}
        BY <2>3, <2>4, <2>5, <2>6, <2>7 DEF Queues
    <3> QED BY <2>1, <2>2, <2>7, <3>1, JoinLists
  <2>9. AllQueues = A5
    BY DEF AllQueues, A1, A2, A3, A4
  <2> HIDE DEF A5
  <2>10. Range(AllQueues) = pend
    <3>1. Queued(op) = Range(op.steer) \cup Range(op.follow) \cup Range(op.writes)
                            \cup Range(op.dSteer) \cup Range(op.dFollow)
        BY DEF Queued, Queues
    <3> QED BY <2>3, <2>4, <2>5, <2>6, <2>7, <2>8, <2>9, <3>1
  <2> QED BY <2>8, <2>9, <2>10 DEF OneQueuePerPendingItem
<1> QED BY <1>1, Invariance, QueueInvariance, PTL

-----------------------------------------------------------------------------
(***************************************************************************)
(* A cancelled run has a driver                                            *)
(***************************************************************************)
\* A driver that adopts a cancelled state goes on.
LEMMA AdoptedGoesOn ==
    ASSUME NEW d \in DriverState, NEW o, Cancelled(o), NEW hydrated,
           NEW e \in Adopted(d, o, hydrated)
    PROVE  e.on = d.on
<1>1. e = [d EXCEPT !.pc = "plan", !.snap = o, !.nr = nextRun, !.hyd = hydrated, !.todo = {},
                    !.hooked = d.hooked /\ o.k = "may"]
    BY DEF Adopted
<1> QED BY <1>1 DEF DriverState

\* A step of a driver after which the run is not cancelled, the driver goes on
\* or the lane cannot be restored.
StaysDriven == Cancelled(op') => drv'.on \/ Unrestorable'

\* A replan ends the driver of a cancelled run only if the lane is corrupt.
LEMMA RestoredGoesOn ==
    ASSUME IInv, drv.on, drv' \in Restored(drv), UNCHANGED <<op, args>>
    PROVE  StaysDriven
<1>1. CASE Unrestorable
    BY <1>1 DEF StaysDriven, Unrestorable
<1>2. CASE ~Unrestorable
  <2>1. drv' \in Adopted(drv, op, TRUE) /\ drv \in DriverState
    BY <1>2 DEF Restored, IInv, TypeOK
  <2> QED BY <2>1, AdoptedGoesOn DEF StaysDriven
<1> QED BY <1>1, <1>2

\* A commit that is followed keeps the driver of a cancelled run.
LEMMA FollowGoesOn ==
    ASSUME IInv, drv.on, Follow(op')
    PROVE  StaysDriven
<1>1. drv \in DriverState
    BY DEF IInv, TypeOK
<1> QED BY <1>1, AdoptedGoesOn DEF StaysDriven, Follow

\* A terminal commit leaves no run to be cancelled.
LEMMA TerminalGoesOn ==
    ASSUME IInv, drv.on, NEW outcome, NEW open, Terminal(outcome, open)
    PROVE  StaysDriven
<1>1. CASE Superseded
    BY <1>1, RestoredGoesOn DEF Terminal, batchVars
<1>2. CASE ~Superseded
  <2>1. op' = NoOp
    BY <1>2 DEF Terminal
  <2> QED BY <2>1, NewRunType DEF StaysDriven, Cancelled
<1> QED BY <1>1, <1>2

\* The driver does not leave a cancelled run.
LEMMA DriverGoesOn ==
    ASSUME IInv, DriverStep
    PROVE  StaysDriven
<1>0. /\ drv.on /\ drv \in DriverState /\ op \in OpState
      /\ Cancelled(drv.snap) => Cancelled(op)
  <2>1. drv.on
    BY DEF DriverStep, Hydrate, Drain, HookStart, HookSettle, FinishCompleted, FinishFailed,
           FinishAborted, FinishTerminated, NeedAssistant, Dispatch, SettleGeneration,
           RecoverAttempt, SettleInterrupted, RetryReady, Sleep, Wake, PrepareTools, ClearTools,
           ToolsDone, CancelToolsDone, CancelDeferred, PrepareImmediate, PrepareLaunch,
           SettleTool, SettleSynthetic, RecoverTool, Planning, Preparing
  <2> QED BY <2>1 DEF IInv, TypeOK, LaneType, DriverOwnsThePhase
<1>1. CASE Replan
    BY <1>0, <1>1, RestoredGoesOn DEF Replan, batchVars
<1>2. CASE drv'.on
    BY <1>2 DEF StaysDriven
<1>3. CASE ~Replan /\ ~drv'.on
  <2>1. CASE Hydrate
    BY <1>3, <2>1 DEF Hydrate
  <2>2. CASE Drain \/ NeedAssistant \/ Dispatch \/ RecoverAttempt \/ RetryReady
             \/ ClearTools \/ CancelToolsDone
    <3>1. Follow(op')
        BY <1>3, <2>2 DEF Drain, NeedAssistant, Dispatch, RecoverAttempt, RetryReady, ClearTools,
                          CancelToolsDone, Cas
    <3> QED BY <1>0, <3>1, FollowGoesOn
  <2>3. CASE \E extend \in BOOLEAN : HookSettle(extend)
    <3> DEFINE d == [drv EXCEPT !.hooked = TRUE]
    <3>1. drv' \in Adopted(d, op', drv.hyd) /\ d \in DriverState /\ d.on
        BY <1>0, <1>3, <2>3 DEF HookSettle, DriverState
    <3> HIDE DEF d
    <3> QED BY <3>1, AdoptedGoesOn DEF StaysDriven
  <2>4. CASE FinishCompleted \/ FinishFailed \/ FinishAborted \/ FinishTerminated
    BY <1>0, <2>4, TerminalGoesOn DEF FinishCompleted, FinishFailed, FinishAborted,
                                      FinishTerminated
  <2>5. CASE SettleGeneration \/ SettleInterrupted
    <3>1. PICK answer : SettleAssistant(answer)
        BY <2>5 DEF SettleGeneration, SettleInterrupted
    <3> DEFINE next == IF Cancelled(op) THEN [op EXCEPT !.k = "may", !.skip = FALSE]
                                        ELSE Classified(op, answer)
               ends == turnOpen /\ next.k \notin {"retry", "tools"}
               d    == [drv EXCEPT !.hooked = FALSE, !.ended = @ \/ ends]
               h    == drv.hyd /\ Queued(next) \subseteq Queued(drv.snap)
    <3>2. op' = next /\ IF ends /\ YieldsAt(d, next) THEN drv' = NoDriver
                                                    ELSE drv' \in Adopted(d, next, h)
        BY <3>1 DEF SettleAssistant
    <3>3. turnOpen \in BOOLEAN
        BY DEF IInv, TypeOK, TurnType
    <3> HIDE DEF next, h
    <3>4. d \in DriverState /\ d.on
      <4>1. ends \in BOOLEAN
        BY <3>3
      <4> HIDE DEF ends
      <4> QED BY <1>0, <4>1 DEF DriverState
    <3> HIDE DEF d, ends
    <3>5. CASE YieldsAt(d, next)
        BY <3>2, <3>5 DEF YieldsAt, StaysDriven
    <3>6. CASE drv' \in Adopted(d, next, h)
        BY <3>2, <3>4, <3>6, AdoptedGoesOn DEF StaysDriven
    <3> QED BY <3>2, <3>5, <3>6
  <2>6. CASE Sleep \/ Wake \/ HookStart \/ PrepareTools \/ CancelDeferred
    <3>1. drv'.on
        BY <1>0, <2>6 DEF Sleep, Wake, HookStart, PrepareTools, CancelDeferred, DriverState
    <3> QED BY <3>1 DEF StaysDriven
  <2>7. CASE ToolsDone
    <3>1. CASE Follow(op')
        BY <1>0, <3>1, FollowGoesOn
    <3>2. CASE ~Follow(op')
      <4>1. /\ drv.snap = op /\ ~Cancelled(drv.snap)
            /\ op' = [op EXCEPT !.k = "need", !.skip = FALSE,
                                !.calls = << >>, !.auth = "standard"]
        BY <1>3, <2>7 DEF ToolsDone, Cas
      <4>2. op'.ctl = op.ctl
        BY <1>0, <4>1 DEF OpState
      <4> QED BY <4>1, <4>2 DEF StaysDriven, Cancelled
    <3> QED BY <3>1, <3>2
  <2>8. CASE \E i \in Indices : PrepareImmediate(i) \/ PrepareLaunch(i) \/ SettleTool(i)
                                \/ SettleSynthetic(i) \/ RecoverTool(i)
    <3>1. PICK i \in Indices : PrepareImmediate(i) \/ PrepareLaunch(i) \/ SettleTool(i)
                               \/ SettleSynthetic(i) \/ RecoverTool(i)
        BY <2>8
    <3>2. CASE Follow(op')
        BY <1>0, <3>2, FollowGoesOn
    <3>3. CASE Prepared(i, op')
      <4>1. drv'.on = drv.on
        BY <1>0, <3>3 DEF Prepared, DriverState
      <4> QED BY <1>0, <4>1 DEF StaysDriven
    <3>4. CASE drv' = drv
        BY <1>0, <3>4 DEF StaysDriven
    <3> QED BY <1>3, <3>1, <3>2, <3>3, <3>4 DEF PrepareImmediate, PrepareLaunch, SettleTool,
                                               SettleSynthetic, RecoverTool
  <2> QED BY <2>1, <2>2, <2>3, <2>4, <2>5, <2>6, <2>7, <2>8 DEF DriverStep
<1> QED BY <1>1, <1>2, <1>3

\* A step without a driver's help leaves a lane that cannot be restored as it is.
LEMMA StaysUnrestorable ==
    ASSUME Unrestorable, op'.k = op.k, op'.auth = op.auth, op'.calls = op.calls, args' = args
    PROVE  Unrestorable'
BY DEF Unrestorable

\* No step leaves a cancelled run without a driver, but a crash or a corrupt lane.
LEMMA DrivenStep == IInv /\ CancelledRunIsDriven /\ [Next]_vars => CancelledRunIsDriven'
<1> SUFFICES ASSUME IInv, CancelledRunIsDriven, [Next]_vars, Cancelled(op'), ~drv'.on,
                    ~(crashes' > 0)
             PROVE  Unrestorable'
    BY DEF CancelledRunIsDriven
<1>0. op \in OpState /\ drv \in DriverState /\ crashes \in Nat
    BY BoundsAssumption DEF IInv, TypeOK, LaneType
<1>1. CASE DriverStep
    BY <1>1, DriverGoesOn DEF StaysDriven
<1>2. CASE Crash
    BY <1>0, <1>2 DEF Crash
<1>3. ASSUME op'.k = op.k, op'.auth = op.auth, op'.calls = op.calls, op'.ctl = op.ctl,
             UNCHANGED <<args, drv, crashes>>
      PROVE  Unrestorable'
    BY <1>3, StaysUnrestorable DEF CancelledRunIsDriven, Cancelled
<1>4. CASE EffectStep \/ TimerDue \/ UNCHANGED vars
  <2>1. UNCHANGED <<op, args, drv, crashes>>
    BY <1>4 DEF EffectStep, GenerationStart, CancelDeferredEnds, ToolStart, TimerDue, vars,
                batchVars
  <2> QED BY <1>3, <2>1
<1>5. CASE Caller
  <2>1. CASE \E sel \in Selectors : Resume(sel)
    BY <2>1 DEF Resume
  <2>2. CASE (\E sel \in Selectors : \E a \in AdaptiveRuns : Accept(sel, a)) \/ AcceptContinuation
    <3>1. op'.ctl = "running"
        BY <2>2 DEF Accept, AcceptContinuation, NewRun
    <3> QED BY <3>1 DEF Cancelled
  <2>3. CASE NextRun \/ AppendPlaced
    <3>1. UNCHANGED <<op, args, drv, crashes>>
        BY <2>3 DEF NextRun, AppendPlaced, batchVars
    <3> QED BY <1>3, <3>1
  <2>4. CASE CancelQueued
    <3>1. /\ op' = op \/ \E q \in Queues : \E n \in DOMAIN op[q] :
                              op' = [op EXCEPT ![q] = RemoveAt(op[q], n)]
          /\ UNCHANGED <<args, drv, crashes>>
        BY <2>4 DEF CancelQueued, Withdraw, batchVars
    <3>2. op'.k = op.k /\ op'.calls = op.calls /\ op'.auth = op.auth /\ op'.ctl = op.ctl
        BY <1>0, <3>1 DEF OpState, Queues
    <3> QED BY <1>3, <3>1, <3>2
  <2>5. CASE Abort
    <3>1. op'.k = op.k /\ op'.calls = op.calls /\ op'.auth = op.auth /\ args' = args
        BY <1>0, <2>5 DEF Abort, CancelMarked, OpState, batchVars
    <3>2. Unrestorable
        BY <2>5 DEF Abort, RecoveryDrive, Started, NoDriver
    <3> QED BY <3>1, <3>2, StaysUnrestorable
  <2>6. CASE \/ \E q \in {"steer", "follow"} : Enqueue(q)
             \/ \E isNote \in BOOLEAN : AppendDeferred(isNote)
    <3>1. op'.k = op.k /\ op'.calls = op.calls /\ op'.auth = op.auth /\ op'.ctl = op.ctl
        BY <1>0, <2>6 DEF Enqueue, AppendDeferred, OpState
    <3>2. UNCHANGED <<args, drv, crashes>>
        BY <2>6 DEF Enqueue, AppendDeferred, batchVars
    <3> QED BY <1>3, <3>1, <3>2
  <2> QED BY <1>5, <2>1, <2>2, <2>3, <2>4, <2>5, <2>6 DEF Caller
<1> QED BY <1>1, <1>2, <1>4, <1>5 DEF Next

\* A cancelled run always has a driver to close it, unless the process was lost
\* or the lane cannot be restored.
THEOREM CancelledRunsAreDriven == Spec => []CancelledRunIsDriven
<1>1. Init => CancelledRunIsDriven
    BY NewRunType DEF Init, CancelledRunIsDriven, Cancelled
<1> QED BY <1>1, DrivenStep, Invariance, PTL DEF Spec

-----------------------------------------------------------------------------
(***************************************************************************)
(* The refinement of RunContract                                           *)
(***************************************************************************)
\* The lane as its callers see it: the mapping of Contract, by name.
Phase == IF current = 0 THEN "idle" ELSE IF Cancelled(op) THEN "cancelling" ELSE "running"
LastRun == IF current = 0 THEN last.run ELSE current
Fate == [i \in Ids |-> CASE i \in pend       -> "queued"
                         [] i \in PlacedIds  -> "delivered"
                         [] i \in withdrawn  -> "withdrawn"
                         [] i \in DroppedIds -> "discarded"
                         [] OTHER            -> "none"]
seen == <<Phase, LastRun, last.outcome, Fate>>

\* The fate of an item tells the set that holds it.
FatesTell ==
    \A i \in Ids : /\ i \in pend => Fate[i] = "queued"
                   /\ i \in PlacedIds => Fate[i] = "delivered"
                   /\ i \in withdrawn => Fate[i] = "withdrawn"
                   /\ i \in DroppedIds => Fate[i] = "discarded"
                   /\ i \notin 1..admitted => Fate[i] = "none"

\* No two sets hold the same item.
LEMMA FateOf == EveryItemHasOneFate => FatesTell
BY DEF FatesTell, Fate, EveryItemHasOneFate

\* Nor do they after a step.
LEMMA FateOfNext == EveryItemHasOneFate' => FatesTell'
BY FateOf, PTL

\* A set of items that meets a fate and nobody else.
Meet(fate, S) == Fate' = [i \in Ids |-> IF i \in S THEN fate ELSE Fate[i]]

\* Items that leave pend for one of the other sets, which alone grows.
LEMMA FateMeets ==
    ASSUME IInv, QInv, QInv', NEW S, S \subseteq pend, pend' = pend \ S, UNCHANGED admitted
    PROVE  /\ withdrawn' = withdrawn /\ DroppedIds' = DroppedIds => Meet("delivered", S)
           /\ PlacedIds' = PlacedIds /\ DroppedIds' = DroppedIds => Meet("withdrawn", S)
           /\ PlacedIds' = PlacedIds /\ withdrawn' = withdrawn => Meet("discarded", S)
<1>1. EveryItemHasOneFate /\ EveryItemHasOneFate'
    BY DEF QInv
<1>2. /\ pend \cup PlacedIds \cup withdrawn \cup DroppedIds = 1..admitted
      /\ pend' \cup PlacedIds' \cup withdrawn' \cup DroppedIds' = 1..admitted
      /\ pend \cap (PlacedIds \cup withdrawn \cup DroppedIds) = {}
      /\ pend' \cap (PlacedIds' \cup withdrawn' \cup DroppedIds') = {}
      /\ PlacedIds \cap (withdrawn \cup DroppedIds) = {}
      /\ PlacedIds' \cap (withdrawn' \cup DroppedIds') = {}
      /\ withdrawn \cap DroppedIds = {} /\ withdrawn' \cap DroppedIds' = {}
    BY <1>1 DEF EveryItemHasOneFate
<1>3. DOMAIN Fate = Ids /\ DOMAIN Fate' = Ids /\ Fate' = [i \in Ids |-> Fate'[i]]
    BY DEF Fate
<1>4. FatesTell /\ FatesTell'
    BY <1>1, FateOf, FateOfNext
<1> DEFINE Only(fate) == \A i \in Ids : Fate'[i] = IF i \in S THEN fate ELSE Fate[i]
<1>6. ASSUME NEW fate, Only(fate) PROVE Meet(fate, S)
    BY <1>3, <1>6 DEF Meet
<1>7. ASSUME withdrawn' = withdrawn, DroppedIds' = DroppedIds PROVE Only("delivered")
  <2>1. PlacedIds' = PlacedIds \cup S
    BY <1>2, <1>7
  <2> QED BY <1>2, <1>4, <1>7, <2>1 DEF FatesTell
<1>8. ASSUME PlacedIds' = PlacedIds, DroppedIds' = DroppedIds PROVE Only("withdrawn")
  <2>1. withdrawn' = withdrawn \cup S
    BY <1>2, <1>8
  <2> QED BY <1>2, <1>4, <1>8, <2>1 DEF FatesTell
<1>9. ASSUME PlacedIds' = PlacedIds, withdrawn' = withdrawn PROVE Only("discarded")
  <2>1. DroppedIds' = DroppedIds \cup S
    BY <1>2, <1>9
  <2> QED BY <1>2, <1>4, <1>9, <2>1 DEF FatesTell
<1> HIDE DEF Only
<1> QED BY <1>6, <1>7, <1>8, <1>9

\* A new item is queued, or on an idle lane placed.
LEMMA FateSubmitted ==
    ASSUME IInv, QInv, QInv', FreshId \in Ids, admitted' = FreshId,
           UNCHANGED <<withdrawn, dropped>>,
           NEW fate,
           \/ fate = "queued" /\ pend' = pend \cup {FreshId} /\ placed' = placed
           \/ fate = "delivered" /\ pend' = pend
    PROVE  Meet(fate, {FreshId}) /\ Fate[FreshId] = "none"
<1>0. admitted \in Nat /\ FreshId = admitted + 1
    BY BoundsAssumption DEF IInv, TypeOK, InputType, FreshId
<1>1. EveryItemHasOneFate /\ EveryItemHasOneFate'
    BY DEF QInv
<1>2. 1..admitted' = 1..admitted \cup {FreshId} /\ FreshId \notin 1..admitted
    BY <1>0
<1>3. /\ pend \cup PlacedIds \cup withdrawn \cup DroppedIds = 1..admitted
      /\ pend' \cup PlacedIds' \cup withdrawn' \cup DroppedIds' = 1..admitted \cup {FreshId}
      /\ pend' \cap (PlacedIds' \cup withdrawn' \cup DroppedIds') = {}
      /\ PlacedIds \cap (withdrawn \cup DroppedIds) = {} /\ pend \cap PlacedIds = {}
      /\ PlacedIds' \cap (withdrawn' \cup DroppedIds') = {}
    BY <1>1, <1>2 DEF EveryItemHasOneFate
<1>4. /\ DroppedIds' = DroppedIds /\ withdrawn' = withdrawn
      /\ placed' = placed => PlacedIds' = PlacedIds
    BY DEF DroppedIds, PlacedIds
<1>5. fate = "delivered" => PlacedIds' = PlacedIds \cup {FreshId}
    BY <1>2, <1>3, <1>4
<1>6. FatesTell /\ FatesTell'
    BY <1>1, FateOf, FateOfNext
<1>8. \A i \in Ids : Fate'[i] = IF i \in {FreshId} THEN fate ELSE Fate[i]
  <2>1. CASE fate = "queued"
    BY <1>2, <1>3, <1>4, <1>6, <2>1 DEF FatesTell
  <2>2. CASE fate = "delivered"
    BY <1>2, <1>3, <1>4, <1>5, <1>6, <2>2 DEF FatesTell
  <2> QED BY <2>1, <2>2
<1>9. Fate' = [i \in Ids |-> Fate'[i]]
    BY DEF Fate
<1> QED BY <1>2, <1>6, <1>8, <1>9 DEF Meet, FatesTell

\* A run is opened on an idle lane and takes in items that were waiting.
LEMMA ContractOpens ==
    ASSUME NEW S, S \subseteq pend, pend \subseteq Ids, FatesTell, Phase = "idle",
           Phase' = "running", LastRun' = LastRun + 1, last'.outcome = last.outcome,
           Meet("delivered", S)
    PROVE  Contract!CNext
<1>1. S \in SUBSET Ids /\ S \subseteq {i \in Ids : Fate[i] = "queued"}
    BY DEF FatesTell
<1>2. Contract!Open(S)
    BY <1>1 DEF Contract!Open, Contract!Waiting, Contract!With, Meet, Phase, LastRun, Fate
<1> QED BY <1>1, <1>2 DEF Contract!CNext

\* Items that were waiting reach the transcript of an open run.
LEMMA ContractDelivers ==
    ASSUME NEW S, S # {}, S \subseteq pend, pend \subseteq Ids, FatesTell, Phase # "idle",
           Phase' = Phase, LastRun' = LastRun, last'.outcome = last.outcome,
           Meet("delivered", S)
    PROVE  Contract!CNext
<1>1. S \in SUBSET Ids /\ S \subseteq {i \in Ids : Fate[i] = "queued"}
    BY DEF FatesTell
<1>2. Contract!Deliver(S)
    BY <1>1 DEF Contract!Deliver, Contract!Waiting, Contract!With, Meet, Phase, LastRun, Fate
<1> QED BY <1>1, <1>2 DEF Contract!CNext

\* A run is closed once, as aborted exactly when it was cancelled.
LEMMA ContractCloses ==
    ASSUME NEW S, S \subseteq pend, pend \subseteq Ids, FatesTell, Phase # "idle",
           NEW o \in Outcomes, (o = "aborted") = (Phase = "cancelling"), o = "failed" => S = {},
           Phase' = "idle", LastRun' = LastRun, last'.outcome = o, Meet("discarded", S)
    PROVE  Contract!CNext
<1>1. S \in SUBSET Ids /\ S \subseteq {i \in Ids : Fate[i] = "queued"}
    BY DEF FatesTell
<1>2. Contract!Close(o, S)
    BY <1>1 DEF Contract!Close, Contract!Waiting, Contract!With, Meet, Phase, LastRun, Fate
<1> QED BY <1>1, <1>2 DEF Contract!CNext

\* An item that was waiting is withdrawn.
LEMMA ContractTakesBack ==
    ASSUME NEW i \in pend, pend \subseteq Ids, FatesTell, Phase' = Phase, LastRun' = LastRun,
           last'.outcome = last.outcome, Meet("withdrawn", {i})
    PROVE  Contract!CNext
<1>1. i \in Ids /\ i \in {j \in Ids : Fate[j] = "queued"}
    BY DEF FatesTell
<1>2. Contract!TakeBack(i)
    BY <1>1 DEF Contract!TakeBack, Contract!Waiting, Contract!With, Meet, Phase, LastRun, Fate
<1> QED BY <1>1, <1>2 DEF Contract!CNext

\* A new item waits, or reaches the transcript of an idle lane at once.
LEMMA ContractSubmits ==
    ASSUME NEW i \in Ids, Fate[i] = "none", Phase' = Phase, LastRun' = LastRun,
           last'.outcome = last.outcome,
           Meet("queued", {i}) \/ (Phase = "idle" /\ Meet("delivered", {i}))
    PROVE  Contract!CNext
<1>1. Contract!Submit(i)
    BY DEF Contract!Submit, Contract!With, Meet, Phase, LastRun, Fate
<1> QED BY <1>1 DEF Contract!CNext

\* A running run is cancelled, and nothing else changes.
LEMMA ContractCancels ==
    ASSUME Phase = "running", Phase' = "cancelling", LastRun' = LastRun,
           last'.outcome = last.outcome, Fate' = Fate
    PROVE  Contract!CNext
<1>1. Contract!Cancel
    BY DEF Contract!Cancel, Phase, LastRun, Fate
<1> QED BY <1>1 DEF Contract!CNext

\* A step of the contract, or one it does not see.
Implemented == Contract!CNext \/ UNCHANGED seen

\* What has been established of a state and the next one.
Established == IInv /\ QInv /\ IInv' /\ QInv'

\* Where the sets of the mapping are what the invariants say.
LEMMA Mapped ==
    ASSUME Established
    PROVE  /\ FatesTell /\ pend \subseteq Ids /\ op \in OpState
           /\ current = 0 => ~Cancelled(op)
           /\ UNCHANGED placed => PlacedIds' = PlacedIds
           /\ UNCHANGED dropped => DroppedIds' = DroppedIds
<1>1. FatesTell
    BY FateOf DEF Established, QInv
<1>2. /\ pend \subseteq Ids /\ op \in OpState /\ (current = 0 => op = NoOp)
    BY DEF Established, IInv, TypeOK, InputType, LaneType
<1>3. current = 0 => ~Cancelled(op)
    BY <1>2, NewRunType DEF Cancelled
<1> QED BY <1>1, <1>2, <1>3 DEF PlacedIds, DroppedIds

\* A step that leaves the queues alone and opens or closes nothing.
LEMMA QuietStep ==
    ASSUME SameQueues, UNCHANGED <<current, last>>
    PROVE  Implemented
<1>1. Phase' = Phase /\ LastRun' = LastRun /\ last'.outcome = last.outcome
    BY DEF SameQueues, Phase, LastRun
<1>2. Fate' = Fate
    BY DEF SameQueues, inputVars, Fate, PlacedIds, DroppedIds
<1> QED BY <1>1, <1>2 DEF Implemented, seen

\* A terminal commit closes the run and discards what is queued.
LEMMA TerminalCloses ==
    ASSUME Established, drv.on, NEW outcome \in Outcomes, NEW open, Terminal(outcome, open),
           ~Superseded => /\ outcome = "aborted" <=> Cancelled(op)
                          /\ outcome = "failed" => \A q \in Queues : op[q] = << >>
    PROVE  Implemented
<1>1. CASE Superseded
  <2>1. SameQueues /\ UNCHANGED <<current, last>>
    BY <1>1 DEF Terminal, SameQueues, Established, QInv, DrainedByCancel, laneVars
  <2> QED BY <2>1, QuietStep
<1>2. CASE ~Superseded
  <2>1. /\ current' = 0 /\ last' = [run |-> current, outcome |-> outcome] /\ op' = NoOp
        /\ pend' = pend \ Queued(op) /\ UNCHANGED <<admitted, placed, withdrawn>>
    BY <1>2 DEF Terminal
  <2>2. current # 0
    BY DEF Established, IInv, DriverOwnsThePhase
  <2>3. Queued(op) \subseteq pend
    BY DEF Established, QInv, ListsApart
  <2>4. Meet("discarded", Queued(op))
    BY <2>1, <2>3, FateMeets, Mapped DEF Established
  <2>5. outcome = "failed" => Queued(op) = {}
    BY <1>2, EmptyList DEF Queued
  <2>6. /\ Phase # "idle" /\ (outcome = "aborted") = (Phase = "cancelling") /\ Phase' = "idle"
        /\ LastRun' = LastRun /\ last'.outcome = outcome
    BY <1>2, <2>1, <2>2 DEF Phase, LastRun
  <2> QED BY <2>3, <2>4, <2>5, <2>6, Mapped, ContractCloses DEF Implemented
<1> QED BY <1>1, <1>2

\* The four ways a run ends are the ways the contract closes it.
LEMMA FinishCloses ==
    ASSUME Established, FinishCompleted \/ FinishFailed \/ FinishAborted \/ FinishTerminated
    PROVE  Implemented
<1>0. /\ drv.on /\ op \in OpState /\ drv.snap \in OpState
      /\ ~Superseded => drv.snap = op
    BY DEF Established, IInv, TypeOK, LaneType, DriverState, FinishCompleted, FinishFailed,
           FinishAborted, FinishTerminated, Planning, Superseded
<1>1. {"completed", "failed", "aborted"} \subseteq Outcomes
    BY DEF Outcomes
<1>2. CASE FinishCompleted
  <2>1. Terminal("completed", turnOpen) /\ ~Cancelled(drv.snap)
    BY <1>2 DEF FinishCompleted, FinishBoundary
  <2>2. ~Superseded => ("completed" = "aborted" <=> Cancelled(op))
    BY <1>0, <2>1
  <2> QED BY <1>0, <1>1, <2>1, <2>2, TerminalCloses
<1>3. CASE FinishFailed
  <2>1. /\ Terminal("failed", turnOpen) /\ ~Cancelled(drv.snap) /\ drv.snap.k = "failure"
        /\ ~DrainDue(drv.snap)
    BY <1>3 DEF FinishFailed
  <2>2. ~Superseded => ~Cancelled(op) /\ InboxEmpty(op)
    <3>1. op.k = "failure" => ~op.skip
        BY DEF Established, QInv, DrainedByCancel
    <3> QED BY <1>0, <2>1, <3>1, NothingToDrain
  <2>3. ~Superseded => \A q \in Queues : op[q] = << >>
    BY <2>2 DEF Established, QInv, DrainedByCancel, InboxEmpty, Queues
  <2>4. ~Superseded => ("failed" = "aborted" <=> Cancelled(op))
    BY <2>2
  <2> QED BY <1>0, <1>1, <2>1, <2>3, <2>4, TerminalCloses
<1>4. CASE FinishAborted
  <2>1. Terminal("aborted", turnOpen) /\ Cancelled(drv.snap)
    BY <1>4 DEF FinishAborted
  <2>2. ~Superseded => ("aborted" = "aborted" <=> Cancelled(op))
    BY <1>0, <2>1
  <2> QED BY <1>0, <1>1, <2>1, <2>2, TerminalCloses
<1>5. CASE FinishTerminated
  <2>1. Terminal("completed", FALSE) /\ ~Cancelled(drv.snap)
    BY <1>5 DEF FinishTerminated
  <2>2. ~Superseded => ("completed" = "aborted" <=> Cancelled(op))
    BY <1>0, <2>1
  <2> QED BY <1>0, <1>1, <2>1, <2>2, TerminalCloses
<1> QED BY <1>2, <1>3, <1>4, <1>5

\* A drain delivers something.
LEMMA DrainDelivers ==
    ASSUME Established, Drain
    PROVE  Implemented
<1> DEFINE p == DrainPlan(drv.snap)
           S == Range(p.writes) \cup Range(p.steer) \cup Range(p.follow)
<1>1. CASE ~StillFits(p)
  <2>1. Replan
    BY <1>1 DEF Drain
  <2> QED BY <2>1, ReplanQueues, QuietStep DEF Replan, laneVars, Established
<1>2. CASE StillFits(p)
  <2>0. /\ op \in OpState /\ drv.snap \in OpState /\ drv.on /\ current # 0
    BY DEF Established, IInv, TypeOK, LaneType, DriverState, DriverOwnsThePhase, Drain, Planning
  <2>1. p.writes \in Seq(Ids) /\ p.steer \in Seq(Ids) /\ p.follow \in Seq(Ids)
    <3>1. << >> \in Seq(Ids)
        BY EmptySeq
    <3> QED BY <2>0, <3>1, EligiblePrefix DEF DrainPlan, OpState
  <2>2. /\ pend' = pend \ S /\ UNCHANGED <<laneVars, admitted, withdrawn, dropped>>
        /\ op'.ctl = op.ctl
    <3>1. op' = [op EXCEPT !.writes = Rest(@, Len(p.writes)), !.steer = Rest(@, Len(p.steer)),
                            !.follow = Rest(@, Len(p.follow)),
                            !.k = IF Projects(p) THEN "need" ELSE drv.snap.k,
                            !.skip = Projects(p) \/ drv.snap.skip]
        BY <1>2 DEF Drain
    <3>2. pend' = pend \ S /\ UNCHANGED <<laneVars, admitted, withdrawn, dropped>>
        BY <1>2 DEF Drain
    <3> HIDE DEF p
    <3>3. op'.ctl = op.ctl
        BY <2>0, <3>1 DEF OpState
    <3> QED BY <3>2, <3>3
  <2>3. p.writes \o p.steer \o p.follow # << >>
    BY DEF Drain, DrainDue
  <2>4. /\ IsPrefix(p.writes, op.writes) /\ IsPrefix(p.steer, op.steer)
        /\ IsPrefix(p.follow, op.follow)
    BY <1>2 DEF StillFits, DrainPlan
  <2> HIDE DEF p
  <2>5. S # {}
    <3> SUFFICES ASSUME S = {} PROVE FALSE
        OBVIOUS
    <3>1. p.writes = << >> /\ p.steer = << >> /\ p.follow = << >>
        BY <2>1, EmptyRange
    <3>2. << >> \in Seq(Ids) /\ << >> \o << >> = << >>
        BY EmptySeq, ConcatProperties
    <3> QED BY <2>3, <3>1, <3>2
  <2>6. S \subseteq pend
    <3>1. /\ op.writes \in Seq(Ids) /\ op.steer \in Seq(Ids) /\ op.follow \in Seq(Ids)
          /\ Ascending(op.writes) /\ Ascending(op.steer) /\ Ascending(op.follow)
          /\ Range(op.writes) \cup Range(op.steer) \cup Range(op.follow) \subseteq pend
        BY <2>0 DEF Established, QInv, ListsApart, Queues, Queued, OpState
    <3>2. /\ Range(p.writes) \subseteq Range(op.writes) /\ Range(p.steer) \subseteq Range(op.steer)
          /\ Range(p.follow) \subseteq Range(op.follow)
        BY <2>1, <2>4, <3>1, SplitList
    <3> QED BY <3>1, <3>2
  <2> HIDE DEF S
  <2>7. Meet("delivered", S)
    BY <2>2, <2>6, FateMeets, Mapped DEF Established
  <2>8. /\ Phase # "idle" /\ Phase' = Phase /\ LastRun' = LastRun /\ last'.outcome = last.outcome
    BY <2>0, <2>2 DEF laneVars, Phase, LastRun, Cancelled
  <2> QED BY <2>5, <2>6, <2>7, <2>8, Mapped, ContractDelivers DEF Implemented
<1> QED BY <1>1, <1>2

\* What callers do is what the contract lets them do.
LEMMA CallersMapped ==
    ASSUME Established, Caller
    PROVE  Implemented
<1>0. /\ FatesTell /\ pend \subseteq Ids /\ op \in OpState /\ (current = 0 => ~Cancelled(op))
      /\ UNCHANGED placed => PlacedIds' = PlacedIds
      /\ UNCHANGED dropped => DroppedIds' = DroppedIds
    BY Mapped
<1>1. CASE \E sel \in Selectors : Resume(sel)
  <2>1. SameQueues /\ UNCHANGED <<current, last>>
    BY <1>1 DEF Resume, SameQueues, laneVars, Established, QInv, DrainedByCancel
  <2> QED BY <2>1, QuietStep
<1>2. CASE \/ \E sel \in Selectors : \E a \in AdaptiveRuns : Accept(sel, a)
           \/ AcceptContinuation
  <2>1. /\ current = 0 /\ current' = last.run + 1 /\ last' = last
        /\ pend' = pend \ Range(nextRun) /\ UNCHANGED <<admitted, withdrawn, dropped>>
    <3>1. CASE \E sel \in Selectors : \E a \in AdaptiveRuns : Accept(sel, a)
        BY <3>1 DEF Accept
    <3>2. CASE AcceptContinuation
      <4>1. Range(nextRun) = {}
        BY <3>2, EmptyList DEF AcceptContinuation
      <4> QED BY <3>2, <4>1 DEF AcceptContinuation, inputVars
    <3> QED BY <1>2, <3>1, <3>2
  <2>2. op'.ctl = "running"
    BY <1>2 DEF Accept, AcceptContinuation, NewRun
  <2>3. last.run \in Nat
    BY BoundsAssumption DEF Established, IInv, TypeOK, LaneType
  <2>4. Phase = "idle" /\ Phase' = "running" /\ LastRun' = LastRun + 1
    BY <2>1, <2>2, <2>3 DEF Phase, LastRun, Cancelled
  <2>5. Range(nextRun) \subseteq pend
    BY DEF Established, QInv, ListsApart
  <2>6. Meet("delivered", Range(nextRun))
    BY <1>0, <2>1, <2>5, FateMeets DEF Established
  <2> QED BY <1>0, <2>1, <2>4, <2>5, <2>6, ContractOpens DEF Implemented
<1>3. CASE \/ NextRun \/ \E q \in {"steer", "follow"} : Enqueue(q)
           \/ \E isNote \in BOOLEAN : AppendDeferred(isNote)
  <2>1. /\ Admit({FreshId}) /\ UNCHANGED <<current, last, placed, withdrawn, dropped>>
        /\ op'.ctl = op.ctl
    BY <1>0, <1>3 DEF NextRun, Enqueue, AppendDeferred, laneVars, OpState
  <2>2. FreshId \in Ids /\ admitted' = FreshId /\ pend' = pend \cup {FreshId}
    BY <2>1, AdmitType DEF Established, IInv, TypeOK, Admit
  <2>3. Meet("queued", {FreshId}) /\ Fate[FreshId] = "none"
    BY <2>1, <2>2, FateSubmitted DEF Established
  <2>4. Phase' = Phase /\ LastRun' = LastRun /\ last'.outcome = last.outcome
    BY <2>1 DEF Phase, LastRun, Cancelled
  <2>5. Meet("queued", {FreshId}) \/ (Phase = "idle" /\ Meet("delivered", {FreshId}))
    BY <2>3
  <2>6. Contract!CNext
    BY <2>2, <2>3, <2>4, <2>5, ContractSubmits
  <2> QED BY <2>6 DEF Implemented
<1>4. CASE AppendPlaced
  <2>1. /\ Admit({}) /\ UNCHANGED <<current, last, op, withdrawn, dropped>> /\ current = 0
    BY <1>4 DEF AppendPlaced, laneVars
  <2>2. FreshId \in Ids /\ admitted' = FreshId /\ pend' = pend
    BY <2>1, AdmitType DEF Established, IInv, TypeOK, Admit
  <2>3. Meet("delivered", {FreshId}) /\ Fate[FreshId] = "none"
    BY <2>1, <2>2, FateSubmitted DEF Established
  <2>4. Phase = "idle" /\ Phase' = Phase /\ LastRun' = LastRun /\ last'.outcome = last.outcome
    BY <2>1 DEF Phase, LastRun
  <2>5. Meet("queued", {FreshId}) \/ (Phase = "idle" /\ Meet("delivered", {FreshId}))
    BY <2>3, <2>4
  <2>6. Contract!CNext
    BY <2>2, <2>3, <2>4, <2>5, ContractSubmits
  <2> QED BY <2>6 DEF Implemented
<1>5. CASE CancelQueued
  <2>1. PICK x : /\ Withdraw(x)
                 /\ \/ \E n \in DOMAIN nextRun : x = nextRun[n] /\ op' = op
                    \/ \E q \in Queues : \E n \in DOMAIN op[q] :
                            op' = [op EXCEPT ![q] = RemoveAt(op[q], n)] /\ x = op[q][n]
    BY <1>5 DEF CancelQueued
  <2>2. x \in pend
    BY <2>1 DEF Established, QInv, ListsApart, Queued, Range
  <2>3. op'.ctl = op.ctl
    BY <1>0, <2>1 DEF OpState, Queues
  <2>4. /\ pend' = pend \ {x} /\ UNCHANGED <<current, last, admitted, placed, dropped>>
    BY <2>1 DEF Withdraw
  <2>5. Meet("withdrawn", {x})
    BY <1>0, <2>2, <2>4, FateMeets DEF Established
  <2>6. Phase' = Phase /\ LastRun' = LastRun /\ last'.outcome = last.outcome
    BY <2>3, <2>4 DEF Phase, LastRun, Cancelled
  <2> QED BY <1>0, <2>2, <2>5, <2>6, ContractTakesBack DEF Implemented
<1>6. CASE Abort
  <2>1. /\ current # 0 /\ ~Cancelled(op) /\ op'.ctl = "cancel"
        /\ UNCHANGED <<current, last, inputVars>>
    BY <1>0, <1>6 DEF Abort, Abortable, CancelMarked, laneVars, OpState
  <2>2. Phase = "running" /\ Phase' = "cancelling" /\ LastRun' = LastRun
        /\ last'.outcome = last.outcome
    BY <2>1 DEF Phase, LastRun, Cancelled
  <2>3. Fate' = Fate
    BY <2>1 DEF inputVars, Fate, PlacedIds, DroppedIds
  <2> QED BY <2>2, <2>3, ContractCancels DEF Implemented
<1> QED BY <1>1, <1>2, <1>3, <1>4, <1>5, <1>6 DEF Caller

\* Every step of the lane is a step of its contract or leaves it alone.
LEMMA StepMapped == Established /\ [Next]_vars => Implemented
<1> SUFFICES ASSUME Established, [Next]_vars PROVE Implemented
    OBVIOUS
<1>1. CASE DriverStep
  <2>1. CASE Drain \/ FinishCompleted \/ FinishFailed \/ FinishAborted \/ FinishTerminated
    BY <2>1, DrainDelivers, FinishCloses
  <2>2. CASE SettleGeneration \/ SettleInterrupted
    <3>1. PICK answer : SettleAssistant(answer)
        BY <2>2 DEF SettleGeneration, SettleInterrupted
    <3>2. UNCHANGED <<current, last>>
        BY <3>1 DEF SettleAssistant, laneVars
    <3> QED BY <3>1, <3>2, SettlementQueues, QuietStep DEF Established
  <2>3. CASE Hydrate
    BY <2>3, ReplanQueues, QuietStep DEF Hydrate, Replan, laneVars, Established
  <2>4. CASE \/ NeedAssistant \/ Dispatch \/ RecoverAttempt \/ RetryReady \/ Sleep \/ Wake
             \/ HookStart \/ (\E extend \in BOOLEAN : HookSettle(extend))
    <3>1. UNCHANGED <<current, last>>
        BY <2>4 DEF NeedAssistant, Dispatch, RecoverAttempt, RetryReady, Sleep, Wake, HookStart,
                    HookSettle, Cas, Replan, laneVars
    <3> QED BY <2>4, <3>1, GenerationQueues, QuietStep DEF Established
  <2>5. CASE \/ PrepareTools \/ ClearTools \/ ToolsDone \/ CancelToolsDone \/ CancelDeferred
             \/ \E i \in Indices : \/ PrepareImmediate(i) \/ PrepareLaunch(i) \/ SettleTool(i)
                                   \/ SettleSynthetic(i) \/ RecoverTool(i)
    <3>1. UNCHANGED <<current, last>>
        BY <2>5 DEF PrepareTools, ClearTools, ToolsDone, CancelToolsDone, CancelDeferred,
                    PrepareImmediate, PrepareLaunch, SettleTool, SettleSynthetic, RecoverTool,
                    CommitResult, Cas, Replan, laneVars
    <3> QED BY <2>5, <3>1, ToolQueues, QuietStep DEF Established
  <2> QED BY <1>1, <2>1, <2>2, <2>3, <2>4, <2>5 DEF DriverStep
<1>2. CASE EffectStep \/ TimerDue \/ Crash \/ UNCHANGED vars
  <2>1. op' = op /\ UNCHANGED <<laneVars, inputVars>>
    BY <1>2 DEF EffectStep, GenerationStart, CancelDeferredEnds, ToolStart, TimerDue, Crash, vars
  <2>2. SameQueues /\ UNCHANGED <<current, last>>
    BY <2>1, PhaseMoves DEF laneVars, Established
  <2> QED BY <2>2, QuietStep
<1> QED BY <1>1, <1>2, CallersMapped DEF Next

\* The lane, seen by its callers, implements RunContract: runs are opened one
\* at a time and closed once, the outcome tells whether the run was cancelled,
\* and every accepted item meets exactly one fate.
THEOREM LaneKeepsItsContract == Spec => ImplementsContract
<1>1. Init => Contract!CInit
  <2> SUFFICES ASSUME Init PROVE Contract!CInit
    OBVIOUS
  <2>1. /\ current = 0 /\ last.run = 0 /\ last.outcome = "none" /\ pend = {} /\ PlacedIds = {}
        /\ withdrawn = {} /\ DroppedIds = {}
    BY EmptySeq DEF Init, PlacedIds, DroppedIds
  <2> QED BY <2>1 DEF Contract!CInit
<1>2. Established /\ [Next]_vars => [Contract!CNext]_(Contract!cvars)
    BY StepMapped DEF Implemented, seen, Phase, LastRun, Fate, Contract!cvars
<1> QED BY <1>1, <1>2, Invariance, QueueInvariance, PTL
    DEF Spec, ImplementsContract, Contract!CSpec, Established
=============================================================================
