----------------------------- MODULE HarnessRun -----------------------------
(***************************************************************************)
(* One lane of the durable agent harness (packages/agent/src/harness/v4):  *)
(* the registers a lane keeps in the session, the driver that plans from a *)
(* snapshot of them, the effects the driver launches, and the callers that *)
(* write to the same lane between any two of the driver's steps.           *)
(*                                                                         *)
(* Every commit runs on the lane's mutation line (runtime.ts), so a commit *)
(* is one action.  What a driver reads and what it commits are NOT one     *)
(* step: it plans from drv.snap, the state its previous commit or restore  *)
(* returned, and other writers may have moved op since.  A register CAS on *)
(* a sequence number is a comparison of values here: a write followed by   *)
(* its inverse is the only difference, and it only costs the code one more *)
(* restore.                                                                *)
(*                                                                         *)
(* Definitions whose comment begins with "Mutant:" are not part of the     *)
(* model: each is the definition after it with one plausible bug, and a    *)
(* property below must fail when the bug replaces the original.            *)
(***************************************************************************)
EXTENDS Integers, Sequences, FiniteSets, SequencesExt

CONSTANTS
    MaxItems,            \* queue items the callers submit (bound)
    MaxRuns,             \* operations accepted on the lane (bound)
    MaxTurns,            \* turns after which provider and hook add no work (bound)
    MaxCalls,            \* tool calls in one assistant message (bound)
    MaxCrashes,          \* process losses (bound)
    MaxAttempts,         \* retryPolicy.maxAttempts
    SteeringMode,        \* settings.steeringMode
    FollowUpMode,        \* settings.followUpMode
    Parallel,            \* settings.toolExecution = "parallel", no sequential tool
    HookRegistered,      \* a before_run_end handler is installed
    IdentityMayVanish,   \* a captured model or tool may be missing at the gate
    AdaptiveRuns,        \* the values of "accepted with an adaptive basis"
    Selectors            \* the drive selectors callers use

Modes == {"all", "one-at-a-time"}

ASSUME BoundsAssumption ==
    /\ MaxItems \in Nat /\ MaxRuns \in Nat /\ MaxTurns \in Nat
    /\ MaxCalls \in Nat /\ MaxCrashes \in Nat

ASSUME SettingsAssumption ==
    /\ MaxAttempts \in Nat \ {0}
    /\ SteeringMode \in Modes /\ FollowUpMode \in Modes
    /\ Parallel \in BOOLEAN /\ HookRegistered \in BOOLEAN
    /\ IdentityMayVanish \in BOOLEAN
    /\ AdaptiveRuns \subseteq BOOLEAN
    /\ Selectors \subseteq {"settled", "post_turn"}

VARIABLES
    \* durable registers of the lane and of its operation
    current,     \* lane.state.currentOperationId: a run number, 0 when idle
    nextRun,     \* lane.state.pendingNextRun
    last,        \* lane.lastResult
    op,          \* op.state and the adaptive flag of op.meta
    pend,        \* the ids that have a pending.entry register
    args,        \* source indices that have an op.tool_args register
    \* process-local state, lost in a crash
    drv,         \* the lane's driver
    gen,         \* live provider request of the current attempt
    tool,        \* live execution of each tool call of the current batch
    cd,          \* best-effort cancellation of a deferred response
    turnOpen,    \* GenerationRunDriver.turnStarted
    \* the clock
    due,         \* Date.now() has reached the retry's notBefore
    \* history
    admitted,    \* ids handed out so far; ids are 1..admitted, in order
    notes,       \* ids of custom writes no projector turns into context
    placed,      \* queue items that became session entries, in order
    withdrawn,   \* ids cancelQueued took back
    dropped,     \* ids a terminal commit deleted unplaced
    ran,         \* executions started of each tool call of the batch
    results,     \* tool results of the batch, in the order they were written
    asked,       \* identity of the last provider request started
    crashes

laneVars  == <<current, nextRun, last>>
inputVars == <<pend, admitted, notes, placed, withdrawn, dropped>>
batchVars == <<args, tool, ran, results>>
turnVars  == <<gen, asked, due, turnOpen>>
vars == <<laneVars, op, drv, inputVars, batchVars, turnVars, cd, crashes>>

-----------------------------------------------------------------------------
(***************************************************************************)
(* Registers                                                               *)
(***************************************************************************)
Ids     == 1..MaxItems
Indices == 1..MaxCalls

\* Run phases: the two checkpoint continuations, the three generation
\* statuses, tools, the suspended deferred phase and failure_drain.
Kinds == {"none", "need", "may", "ready", "pending", "retry",
          "tools", "deferred", "failure"}

\* effect_pending calls carry their replay class, completed ones their terminate flag.
PendingCall == {"safe", "never"}
DoneCall    == {"done", "terminated"}
UnstartedCall == {"planned", "truncated"}
CallStatus  == UnstartedCall \cup PendingCall \cup DoneCall

Queues == {"steer", "follow", "writes", "dSteer", "dFollow"}

OpState ==
    [adaptive : BOOLEAN, ctl : {"running", "cancel"}, k : Kinds, skip : BOOLEAN,
     attempt : Nat, turn : Nat, calls : Seq(CallStatus),
     auth : {"standard", "adaptive", "entry"},
     steer : Seq(Ids), follow : Seq(Ids), writes : Seq(Ids),
     dSteer : Seq(Ids), dFollow : Seq(Ids)]

NewRun ==
    [adaptive |-> FALSE, ctl |-> "running", k |-> "need", skip |-> TRUE,
     attempt |-> 0, turn |-> 0, calls |-> << >>, auth |-> "standard",
     steer |-> << >>, follow |-> << >>, writes |-> << >>,
     dSteer |-> << >>, dFollow |-> << >>]

NoOp == [NewRun EXCEPT !.k = "none", !.skip = FALSE]

Queued(o) == UNION {Range(o[q]) : q \in Queues}
InboxEmpty(o) == o.steer = << >> /\ o.follow = << >> /\ o.writes = << >>
Cancelled(o) == o.ctl = "cancel"

\* Mutant: results may be awaited in any order.
AnyOpen(o, i) == i \in DOMAIN o.calls /\ o.calls[i] \notin DoneCall

\* The first call, in source order, that is not completed.
FirstOpen(o, i) ==
    /\ i \in DOMAIN o.calls /\ o.calls[i] \notin DoneCall
    /\ \A j \in 1..(i - 1) : o.calls[j] \in DoneCall
AllDone(o) == \A i \in DOMAIN o.calls : o.calls[i] \in DoneCall

\* restoreLane rejects a pending standard call without its argument register.
Unrestorable ==
    /\ op.k = "tools" /\ op.auth = "standard"
    /\ \E i \in DOMAIN op.calls : op.calls[i] \in PendingCall /\ i \notin args

-----------------------------------------------------------------------------
(***************************************************************************)
(* The driver's view                                                       *)
(***************************************************************************)
NoDriver ==
    [on |-> FALSE, sel |-> "settled", pc |-> "plan", snap |-> NoOp,
     nr |-> << >>, hyd |-> TRUE, todo |-> {}, hooked |-> FALSE,
     ended |-> FALSE]

\* drive(): a fresh pass over the snapshot o, hook boundaries cleared.
Started(sel, o, nr) ==
    [NoDriver EXCEPT !.on = TRUE, !.sel = sel, !.snap = o, !.nr = nr]

\* Mutant: the boundary a hook already ran for is forgotten on every pass.
AdoptedForgetful(d, o, hydrated) ==
    IF ~Cancelled(o) /\ o.k = "deferred" THEN {NoDriver}
    ELSE {[d EXCEPT !.pc = "plan", !.snap = o, !.nr = nextRun,
                    !.hyd = hydrated, !.todo = {}, !.hooked = FALSE]}

\* The states a driver may be in once it takes o as its current operation: a
\* suspended deferred phase and a missing identity end the drive at once.
\* hooked survives only at the boundary the hook ran for.
Adopted(d, o, hydrated) ==
    IF ~Cancelled(o) /\ o.k = "deferred" THEN {NoDriver}
    ELSE {[d EXCEPT !.pc = "plan", !.snap = o, !.nr = nextRun,
                    !.hyd = hydrated, !.todo = {},
                    !.hooked = d.hooked /\ o.k = "may"]}
         \cup IF IdentityMayVanish /\ ~Cancelled(o) /\ o.k = "ready"
              THEN {NoDriver} ELSE {}

\* The commit returned o: payloads of ids admitted since are not hydrated.
Follow(o) ==
    drv' \in Adopted(drv, o, drv.hyd /\ Queued(o) \subseteq Queued(drv.snap))

\* replan: re-restore under the mutation line, or die on a corrupt lane.
Restored(d) == IF Unrestorable THEN {NoDriver} ELSE Adopted(d, op, TRUE)
Replan ==
    /\ drv' \in Restored(drv)
    /\ UNCHANGED <<laneVars, op, inputVars, batchVars, turnVars, cd, crashes>>

\* The planner decides from a snapshot whose queued payloads are hydrated.
Planning == drv.on /\ drv.pc = "plan" /\ drv.hyd

\* commitTransition: op.state and lane.state must both be the ones planned from.
Cas(commit) == IF drv.snap = op /\ drv.nr = nextRun THEN commit ELSE Replan

Hydrate == drv.on /\ drv.pc = "plan" /\ ~drv.hyd /\ Replan

-----------------------------------------------------------------------------
(***************************************************************************)
(* Callers: acceptance, queues, cancellation of items, abort               *)
(***************************************************************************)
Tag(s, via) == [n \in DOMAIN s |-> [id |-> s[n], via |-> via]]

\* prompt / execute: pending next-run items become prompt entries.
Accept(sel, adaptive) ==
    /\ current = 0 /\ last.run < MaxRuns
    /\ current' = last.run + 1
    /\ op' = [NewRun EXCEPT !.adaptive = adaptive]
    /\ placed' = placed \o Tag(nextRun, "next")
    /\ pend' = pend \ Range(nextRun)
    /\ nextRun' = << >>
    /\ drv' = Started(sel, op', << >>)
    /\ cd' = "none"
    /\ UNCHANGED <<last, admitted, notes, withdrawn, dropped, batchVars,
                   turnVars, crashes>>

\* An exact continuation opens the lane without a prompt and without a driver.
AcceptContinuation ==
    /\ TRUE \in AdaptiveRuns
    /\ current = 0 /\ last.run < MaxRuns /\ nextRun = << >>
    /\ current' = last.run + 1
    /\ op' = [NewRun EXCEPT !.adaptive = TRUE]
    /\ cd' = "none"
    /\ UNCHANGED <<nextRun, last, drv, inputVars, batchVars, turnVars, crashes>>

\* resume / execute on an open lane nobody drives.
Resume(sel) ==
    /\ current # 0 /\ ~drv.on /\ ~Unrestorable
    /\ drv' \in Adopted(Started(sel, op, nextRun), op, TRUE)
    /\ drv'.on
    /\ UNCHANGED <<laneVars, op, inputVars, batchVars, turnVars, cd, crashes>>

FreshId == admitted + 1
Admit(set) ==
    /\ admitted < MaxItems
    /\ admitted' = FreshId
    /\ pend' = pend \cup set

NextRun ==
    /\ Admit({FreshId})
    /\ nextRun' = Append(nextRun, FreshId)
    /\ UNCHANGED <<current, last, op, drv, notes, placed, withdrawn, dropped,
                   batchVars, turnVars, cd, crashes>>

\* Mutant: new input overtakes the input already queued.
EnqueueFirst(queue) ==
    /\ current # 0 /\ ~Cancelled(op)
    /\ Admit({FreshId})
    /\ op' = [op EXCEPT ![queue] = <<FreshId>> \o @]
    /\ UNCHANGED <<laneVars, drv, notes, placed, withdrawn, dropped,
                   batchVars, turnVars, cd, crashes>>

\* steer and followUp are refused once the operation is cancelled.
Enqueue(queue) ==
    /\ current # 0 /\ ~Cancelled(op)
    /\ Admit({FreshId})
    /\ op' = [op EXCEPT ![queue] = Append(@, FreshId)]
    /\ UNCHANGED <<laneVars, drv, notes, placed, withdrawn, dropped,
                   batchVars, turnVars, cd, crashes>>

\* appendMessage / appendCustomEntry: deferred while any run is open.
AppendDeferred(isNote) ==
    /\ current # 0
    /\ Admit({FreshId})
    /\ op' = [op EXCEPT !.writes = Append(@, FreshId)]
    /\ notes' = IF isNote THEN notes \cup {FreshId} ELSE notes
    /\ UNCHANGED <<laneVars, drv, placed, withdrawn, dropped,
                   batchVars, turnVars, cd, crashes>>

AppendPlaced ==
    /\ current = 0
    /\ Admit({})
    /\ placed' = Append(placed, [id |-> FreshId, via |-> "idle"])
    /\ UNCHANGED <<laneVars, op, drv, notes, withdrawn, dropped,
                   batchVars, turnVars, cd, crashes>>

Withdraw(i) ==
    /\ pend' = pend \ {i}
    /\ withdrawn' = withdrawn \cup {i}
    /\ UNCHANGED <<current, last, drv, admitted, notes, placed, dropped,
                   batchVars, turnVars, cd, crashes>>

CancelQueued ==
    \/ \E n \in DOMAIN nextRun :
        /\ nextRun' = RemoveAt(nextRun, n)
        /\ Withdraw(nextRun[n])
        /\ UNCHANGED op
    \/ \E q \in Queues : \E n \in DOMAIN op[q] :
        /\ op' = [op EXCEPT ![q] = RemoveAt(@, n)]
        /\ Withdraw(op[q][n])
        /\ UNCHANGED nextRun

\* Mutant: abort does not ask whether an operation is open.
AbortableWhenIdle == ~Cancelled(op)

Abortable == current # 0 /\ ~Cancelled(op)

\* Mutant: the queues are copied to the drained lists and not emptied.
CancelMarkedCopy(o) ==
    [o EXCEPT !.ctl = "cancel", !.dSteer = o.steer, !.dFollow = o.follow]

\* The cancel marker, with steer and followUp moved to the drained lists.
CancelMarked(o) ==
    [o EXCEPT !.ctl = "cancel", !.dSteer = o.steer, !.dFollow = o.follow,
              !.steer = << >>, !.follow = << >>]

\* Without a live driver abort starts one, unless the lane cannot be restored.
RecoveryDrive(o) ==
    IF drv.on \/ Unrestorable THEN drv ELSE Started("settled", o, nextRun)

\* abort: one commit; a repeated abort writes nothing.
Abort ==
    /\ Abortable
    /\ op' = CancelMarked(op)
    /\ drv' = RecoveryDrive(op')
    /\ UNCHANGED <<laneVars, inputVars, batchVars, turnVars, cd, crashes>>

-----------------------------------------------------------------------------
(***************************************************************************)
(* Checkpoints: inbox drain, finish boundary hook, terminal commit         *)
(***************************************************************************)
Eligible(s, mode) == IF mode = "all" \/ s = << >> THEN s ELSE <<s[1]>>

\* What one boundary consumes: all writes, steer by its mode, followUp only
\* when the continuation is exhausted; under cancellation writes alone.
DrainPlan(o) ==
    [writes |-> o.writes,
     steer  |-> IF Cancelled(o) THEN << >> ELSE Eligible(o.steer, SteeringMode),
     follow |-> IF Cancelled(o) \/ o.k = "need" THEN << >>
                ELSE Eligible(o.follow, FollowUpMode)]

DrainDue(o) ==
    /\ o.k \in {"need", "may", "failure"}
    /\ Cancelled(o) \/ ~o.skip
    /\ LET p == DrainPlan(o) IN p.writes \o p.steer \o p.follow # << >>

Projects(p) ==
    p.steer # << >> \/ p.follow # << >> \/ ~(Range(p.writes) \subseteq notes)

\* Mutant: the drain trusts the lists it was planned from.
FitsByPhase(p) == op.k = drv.snap.k

\* commitInboxDrain re-reads op.state; the plan must still fit it.
StillFits(p) ==
    /\ op.k = drv.snap.k
    /\ Cancelled(op) => p.steer = << >> /\ p.follow = << >>
    /\ \A q \in DOMAIN p : IsPrefix(p[q], op[q])

Rest(s, n) == SubSeq(s, n + 1, Len(s))

Drain ==
    /\ Planning /\ DrainDue(drv.snap)
    /\ LET p == DrainPlan(drv.snap) IN
       IF ~StillFits(p) THEN Replan
       ELSE
        /\ op' = [op EXCEPT !.writes = Rest(@, Len(p.writes)),
                            !.steer  = Rest(@, Len(p.steer)),
                            !.follow = Rest(@, Len(p.follow)),
                            !.k    = IF Projects(p) THEN "need" ELSE drv.snap.k,
                            !.skip = Projects(p) \/ drv.snap.skip]
        /\ placed' = placed \o Tag(p.writes, "writes") \o Tag(p.steer, "steer")
                            \o Tag(p.follow, "follow")
        /\ pend' = pend \ (Range(p.writes) \cup Range(p.steer) \cup Range(p.follow))
        /\ Follow(op')
        /\ UNCHANGED <<laneVars, admitted, notes, withdrawn, dropped,
                       batchVars, turnVars, cd, crashes>>

\* before_run_end: dispatched at a drained finish boundary, awaited inline.
HookPending(d, o) == HookRegistered /\ o.k = "may" /\ ~d.hooked

\* Mutant: a boundary with follow-ups left is taken for the end.
BoundaryLeavesFollowUps(o) ==
    ~Cancelled(o) /\ o.k = "may" /\ o.steer = << >> /\ o.writes = << >>

FinishBoundary(o) == ~Cancelled(o) /\ o.k = "may" /\ InboxEmpty(o)

HookStart ==
    /\ Planning /\ FinishBoundary(drv.snap) /\ HookPending(drv, drv.snap)
    /\ drv' = [drv EXCEPT !.pc = "hook"]
    /\ UNCHANGED <<laneVars, op, inputVars, batchVars, turnVars, cd, crashes>>

\* A result is stale, and discarded, once input or a cancel marker arrived;
\* a follow-up is born placed together with the new checkpoint.
HookSettle(extend) ==
    /\ drv.on /\ drv.pc = "hook"
    /\ extend => op.turn < MaxTurns
    /\ IF ~FinishBoundary(op) THEN Replan
       ELSE
        /\ op' = IF extend THEN [op EXCEPT !.k = "need", !.skip = TRUE] ELSE op
        /\ drv' \in Adopted([drv EXCEPT !.hooked = TRUE], op', drv.hyd)
        /\ UNCHANGED <<laneVars, inputVars, batchVars, turnVars, cd, crashes>>

\* Mutant: the terminal commit does not compare op.state.
NeverSuperseded == FALSE

\* Only op.state is compared, not lane.state.
Superseded == drv.snap # op

\* commitTerminal: one transaction closes the lane and deletes every register
\* of the operation.
Terminal(outcome, turnLeftOpen) ==
  /\ turnOpen' = turnLeftOpen
  /\ IF Superseded
     THEN /\ drv' \in Restored(drv)
          /\ UNCHANGED <<laneVars, op, inputVars, batchVars, gen, asked, due, cd, crashes>>
     ELSE
     /\ current' = 0
     /\ last' = [run |-> current, outcome |-> outcome]
     /\ op' = NoOp
     /\ dropped' = dropped \cup
            UNION {{[id |-> i, queue |-> q, outcome |-> outcome, k |-> op.k] :
                        i \in Range(op[q])} : q \in Queues}
     /\ pend' = pend \ Queued(op)
     /\ args' = {}
     /\ drv' = NoDriver
     /\ UNCHANGED <<nextRun, admitted, notes, placed, withdrawn, tool, ran,
                    results, gen, asked, due, cd, crashes>>

FinishCompleted ==
    /\ Planning /\ FinishBoundary(drv.snap) /\ ~HookPending(drv, drv.snap)
    /\ Terminal("completed", turnOpen)

FinishFailed ==
    /\ Planning /\ ~Cancelled(drv.snap)
    /\ drv.snap.k = "failure" /\ ~DrainDue(drv.snap)
    /\ Terminal("failed", turnOpen)

\* Mutant: a generation that is not in flight is left to the ordinary planner.
ClosableAtCheckpoint(o) == o.k \in {"need", "may", "failure"}

\* The cancellation planner finishes from a drained checkpoint, from a
\* generation that is not in flight and from a deferred phase.
AbortClosable(o) ==
    \/ o.k \in {"need", "may", "failure", "ready", "retry"}
    \/ o.k = "deferred" /\ cd # "none"

FinishAborted ==
    /\ Planning /\ Cancelled(drv.snap) /\ ~DrainDue(drv.snap)
    /\ AbortClosable(drv.snap)
    /\ Terminal("aborted", turnOpen)

-----------------------------------------------------------------------------
(***************************************************************************)
(* Generation: one provider request per attempt                            *)
(***************************************************************************)
NeedAssistant ==
    /\ Planning /\ ~Cancelled(drv.snap)
    /\ drv.snap.k = "need" /\ ~DrainDue(drv.snap)
    /\ Cas(/\ op' = [op EXCEPT !.k = "ready", !.skip = FALSE,
                               !.attempt = 1, !.turn = @ + 1]
           /\ Follow(op')
           /\ UNCHANGED <<laneVars, inputVars, batchVars, turnVars, cd, crashes>>)

\* The intent is durable before the request is launched.
Dispatch ==
    /\ Planning /\ ~Cancelled(drv.snap) /\ drv.snap.k = "ready"
    /\ Cas(/\ op' = [op EXCEPT !.k = "pending"]
           /\ Follow(op')
           /\ gen' = "launched"
           /\ turnOpen' = TRUE
           /\ UNCHANGED <<laneVars, inputVars, batchVars, asked, due, cd, crashes>>)

\* Mutant: an effect that was launched always starts.
NeverRefused == FALSE

\* effectStartCheck: a durable cancel marker means the effect never starts.
StartRefused == Cancelled(op)

GenerationStart ==
    /\ gen = "launched"
    /\ IF StartRefused
       THEN gen' = "refused" /\ UNCHANGED asked
       ELSE gen' = "started" /\ asked' = <<current, op.turn, op.attempt>>
    /\ UNCHANGED <<laneVars, op, drv, inputVars, batchVars, due, turnOpen, cd, crashes>>

\* classifyGenerationOutcome and settlementPhase: a transient failure waits for
\* its retry while attempts remain, any other failure drains.
Classified(o, answer) ==
    CASE answer.kind = "stop"     -> [o EXCEPT !.k = "may", !.skip = FALSE]
      [] answer.kind = "tools"    -> [o EXCEPT !.k = "tools", !.calls = answer.calls,
                                        !.auth = IF o.adaptive THEN "adaptive" ELSE "standard"]
      [] answer.kind = "deferred" -> [o EXCEPT !.k = "deferred"]
      [] answer.kind = "transient" /\ o.attempt < MaxAttempts
                                  -> [o EXCEPT !.k = "retry", !.attempt = @ + 1]
      [] OTHER                    -> [o EXCEPT !.k = "failure", !.skip = FALSE]

\* What the provider may answer; more tool work only below the turn bound.
Answers ==
    {[kind |-> kind, calls |-> << >>] :
        kind \in {"stop", "deferred", "transient", "fatal"}} \cup
    {[kind |-> "tools", calls |-> [i \in 1..n |-> status]] :
        n \in IF op.turn < MaxTurns THEN 0..MaxCalls ELSE {},
        status \in UnstartedCall}

\* post_turn drives yield where the next pass would start a second turn.
YieldsAt(d, o) ==
    /\ d.sel = "post_turn" /\ ~Cancelled(o)
    /\ \/ o.k = "may" /\ (~InboxEmpty(o) \/ HookPending(d, o))
       \/ o.k = "failure" /\ ~InboxEmpty(o)

\* commitEffectSettlement for an assistant: rebuilt from the LATEST op.state,
\* and the durable cancel marker overrides whatever was answered.
SettleAssistant(answer) ==
    LET next == IF Cancelled(op) THEN [op EXCEPT !.k = "may", !.skip = FALSE]
                                 ELSE Classified(op, answer)
        ends == turnOpen /\ next.k \notin {"retry", "tools"}
        d    == [drv EXCEPT !.hooked = FALSE, !.ended = @ \/ ends]
    IN /\ op' = next
       /\ turnOpen' = (turnOpen /\ ~ends)
       /\ due' = FALSE
       /\ gen' = "none"
       /\ IF next.k = "tools"
          THEN /\ results' = << >>
               /\ ran' = [i \in Indices |-> 0]
          ELSE UNCHANGED <<results, ran>>
       /\ IF ends /\ YieldsAt(d, next)
          THEN drv' = NoDriver
          ELSE drv' \in Adopted(d, next,
                    drv.hyd /\ Queued(next) \subseteq Queued(drv.snap))
       /\ UNCHANGED <<laneVars, inputVars, args, tool, asked, cd, crashes>>

\* await_effect on the live request.
SettleGeneration ==
    /\ Planning /\ drv.snap.k = "pending" /\ gen \in {"started", "refused"}
    /\ \E answer \in IF gen = "started" THEN Answers
                     ELSE {[kind |-> "fatal", calls |-> << >>]} :
            SettleAssistant(answer)

\* Mutant: the planner does not ask which effects are running.
UnknownAlways == drv.snap.k = "pending"

\* A durable intent without a live request.
UnknownAttempt == drv.snap.k = "pending" /\ gen = "none"

\* Mutant: the interrupted attempt is sent again.
SameAttempt(o) == [o EXCEPT !.k = "ready"]

NextAttempt(o) == [o EXCEPT !.k = "ready", !.attempt = @ + 1]

\* An attempt that may have reached the provider is never sent again.
RecoverAttempt ==
    /\ Planning /\ ~Cancelled(drv.snap)
    /\ UnknownAttempt /\ drv.snap.attempt < MaxAttempts
    /\ Cas(/\ op' = NextAttempt(op)
           /\ Follow(op')
           /\ UNCHANGED <<laneVars, inputVars, batchVars, turnVars, cd, crashes>>)

SettleInterrupted ==
    /\ Planning /\ UnknownAttempt
    /\ Cancelled(drv.snap) \/ drv.snap.attempt >= MaxAttempts
    /\ SettleAssistant([kind |-> "fatal", calls |-> << >>])

RetryReady ==
    /\ Planning /\ ~Cancelled(drv.snap) /\ drv.snap.k = "retry" /\ due
    /\ Cas(/\ op' = [op EXCEPT !.k = "ready"]
           /\ Follow(op')
           /\ UNCHANGED <<laneVars, inputVars, batchVars, turnVars, cd, crashes>>)

\* wait: the abort signal ends the sleep too, but the pass after it plans from
\* the snapshot it slept on; an already aborted signal does not sleep at all.
Sleep ==
    /\ Planning /\ ~Cancelled(drv.snap) /\ drv.snap.k = "retry"
    /\ ~due /\ ~Cancelled(op)
    /\ drv' = [drv EXCEPT !.pc = "sleep"]
    /\ UNCHANGED <<laneVars, op, inputVars, batchVars, turnVars, cd, crashes>>

Wake ==
    /\ drv.on /\ drv.pc = "sleep" /\ (due \/ Cancelled(op))
    /\ drv' = [drv EXCEPT !.pc = "plan"]
    /\ UNCHANGED <<laneVars, op, inputVars, batchVars, turnVars, cd, crashes>>

TimerDue ==
    /\ op.k = "retry" /\ ~due
    /\ due' = TRUE
    /\ UNCHANGED <<laneVars, op, drv, inputVars, batchVars, gen, asked, turnOpen,
                   cd, crashes>>

-----------------------------------------------------------------------------
(***************************************************************************)
(* The tool batch                                                          *)
(***************************************************************************)
\* commitToolSettlement.  Settling the last source index deletes every
\* argument register of the batch; cancellation overrides the body of a call
\* that never started and every terminate flag.
Settled(i, terminate) ==
    [op EXCEPT !.calls[i] = IF terminate /\ ~Cancelled(op) THEN "terminated" ELSE "done"]
Recorded(i, body) ==
    Append(results,
           [call |-> i,
            body |-> IF Cancelled(op) /\ op.calls[i] \in UnstartedCall
                     THEN "aborted" ELSE body])

ArgumentsAfter(i) == IF i = Len(op.calls) THEN {} ELSE args

CommitResult(i, body, terminate) ==
    /\ op' = Settled(i, terminate)
    /\ results' = Recorded(i, body)
    /\ args' = ArgumentsAfter(i)
    /\ tool' = [tool EXCEPT ![i] = "none"]
    /\ UNCHANGED <<laneVars, inputVars, ran, turnVars, cd, crashes>>

\* Mutant: every call of the batch is prepared again.
EveryCall(o) == DOMAIN o.calls

\* prepare_tools: the driver walks the planned calls of one snapshot.
Planned(o) == {i \in DOMAIN o.calls : o.calls[i] = "planned"}

PrepareTools ==
    /\ Planning /\ drv.snap.k = "tools" /\ ~Cancelled(drv.snap)
    /\ drv.snap.auth = "standard"
    /\ \E i \in DOMAIN drv.snap.calls :
        /\ FirstOpen(drv.snap, i) /\ drv.snap.calls[i] = "planned"
        /\ drv' = [drv EXCEPT !.pc = "prep",
                    !.todo = IF Parallel THEN Planned(drv.snap) ELSE {i}]
    /\ UNCHANGED <<laneVars, op, inputVars, batchVars, turnVars, cd, crashes>>

\* Mutant: the loop forgets the state its commit returned.
PreparedStale(i, o) ==
    drv' = [drv EXCEPT !.todo = @ \ {i},
                !.pc = IF drv.todo = {i} THEN "plan" ELSE "prep"]

\* The loop keeps its own snapshot up to date and only then plans again.
Preparing(i) ==
    drv.on /\ drv.pc = "prep" /\ i \in drv.todo /\ \A j \in drv.todo : i <= j
Prepared(i, o) ==
    drv' = [drv EXCEPT !.todo = @ \ {i}, !.snap = o, !.nr = nextRun,
                !.pc = IF drv.todo = {i} THEN "plan" ELSE "prep",
                !.hyd = @ /\ Queued(o) \subseteq Queued(drv.snap)]

\* An unknown tool, invalid arguments or a blocking hook answers at once ...
PrepareImmediate(i) ==
    /\ Preparing(i)
    /\ \E terminate \in BOOLEAN : CommitResult(i, "blocked", terminate)
    /\ Prepared(i, op')

\* ... any other call commits its intent and arguments and is launched.
PrepareLaunch(i) ==
    /\ Preparing(i)
    /\ IF Cancelled(op) THEN Replan
       ELSE
        /\ \E replay \in PendingCall : op' = [op EXCEPT !.calls[i] = replay]
        /\ args' = args \cup {i}
        /\ tool' = [tool EXCEPT ![i] = "launched"]
        /\ Prepared(i, op')
        /\ UNCHANGED <<laneVars, inputVars, ran, results, turnVars, cd, crashes>>

\* clear_tools: one commit decides a whole adaptive batch.  Blocked calls stay
\* planned; allowed ones are launched together.
ClearTools ==
    /\ Planning /\ drv.snap.k = "tools" /\ ~Cancelled(drv.snap)
    /\ drv.snap.auth = "adaptive"
    /\ \E i \in DOMAIN drv.snap.calls :
            FirstOpen(drv.snap, i) /\ drv.snap.calls[i] = "planned"
    /\ IF Cancelled(op) THEN Replan
       ELSE \E decided \in [DOMAIN op.calls -> {"planned"} \cup PendingCall] :
        /\ op' = [op EXCEPT !.auth = "entry", !.calls = decided]
        /\ tool' = [i \in Indices |-> IF i \in DOMAIN decided /\ decided[i] # "planned"
                                      THEN "launched" ELSE "none"]
        /\ Follow(op')
        /\ UNCHANGED <<laneVars, inputVars, args, ran, results, turnVars, cd, crashes>>

\* The start check of a launched call, then its execution: a standard call
\* needs its argument register.
ToolStart(i) ==
    /\ tool[i] = "launched"
    /\ LET refused == StartRefused
           broken  == op.auth = "standard" /\ i \notin args
       IN IF refused \/ broken
          THEN /\ tool' = [tool EXCEPT ![i] = IF refused THEN "refused" ELSE "broken"]
               /\ UNCHANGED ran
          ELSE /\ tool' = [tool EXCEPT ![i] = "started"]
               /\ ran' = [ran EXCEPT ![i] = IF @ = 2 THEN 2 ELSE @ + 1]
    /\ UNCHANGED <<laneVars, op, drv, inputVars, args, results, turnVars, cd, crashes>>

\* await_effect on a live call; finalizing it reads the arguments again.
SettleTool(i) ==
    /\ Planning /\ drv.snap.k = "tools" /\ FirstOpen(drv.snap, i)
    /\ drv.snap.calls[i] \in PendingCall
    /\ tool[i] \in {"started", "refused", "broken"}
    /\ \E terminate \in BOOLEAN :
        /\ terminate => tool[i] = "started"
        /\ CommitResult(i,
             CASE tool[i] = "refused" -> "interrupted"
               [] tool[i] = "started" /\ (op.auth = "entry" \/ i \in args) -> "live"
               [] OTHER -> "lost",
             terminate)
    /\ Follow(op')

\* A planned call that must not run: truncated, blocked by the batch's
\* clearance, or overtaken by the cancel marker.
SettleSynthetic(i) ==
    /\ Planning /\ drv.snap.k = "tools" /\ FirstOpen(drv.snap, i)
    /\ \/ drv.snap.calls[i] = "truncated"
       \/ drv.snap.calls[i] = "planned" /\ (Cancelled(drv.snap) \/ drv.snap.auth = "entry")
    /\ CommitResult(i, IF drv.snap.calls[i] = "truncated" THEN "truncated" ELSE "blocked", FALSE)
    /\ Follow(op')

\* Mutant: every tool may be run again.
ReplayableAlways(o, i) == ~Cancelled(o)

Replayable(o, i) == ~Cancelled(o) /\ o.calls[i] = "safe"

\* A pending call nobody runs is replayed only if it was captured as safe, the
\* tool still is, and the run is not cancelled.
RecoverTool(i) ==
    /\ Planning /\ drv.snap.k = "tools" /\ FirstOpen(drv.snap, i)
    /\ drv.snap.calls[i] \in PendingCall /\ tool[i] = "none"
    /\ \/ /\ Replayable(drv.snap, i)
          /\ tool' = [tool EXCEPT ![i] = "launched"]
          /\ UNCHANGED <<laneVars, op, drv, inputVars, args, ran, results,
                         turnVars, cd, crashes>>
       \/ /\ CommitResult(i, "interrupted", FALSE)
          /\ Follow(op')

\* All calls completed: terminate, or back to the provider; a post_turn drive
\* hands the lane back here.
ToolsDone ==
    /\ Planning /\ drv.snap.k = "tools" /\ AllDone(drv.snap)
    /\ ~Cancelled(drv.snap)
    /\ drv.snap.calls = << >> \/ "done" \in Range(drv.snap.calls)
    /\ Cas(/\ op' = [op EXCEPT !.k = "need", !.skip = FALSE,
                               !.calls = << >>, !.auth = "standard"]
           /\ IF drv.sel = "post_turn" THEN drv' = NoDriver ELSE Follow(op')
           /\ turnOpen' = FALSE
           /\ UNCHANGED <<laneVars, inputVars, batchVars, gen, asked, due, cd, crashes>>)

FinishTerminated ==
    /\ Planning /\ drv.snap.k = "tools" /\ AllDone(drv.snap)
    /\ ~Cancelled(drv.snap)
    /\ drv.snap.calls # << >> /\ "done" \notin Range(drv.snap.calls)
    /\ Terminal("completed", FALSE)

CancelToolsDone ==
    /\ Planning /\ drv.snap.k = "tools" /\ AllDone(drv.snap)
    /\ Cancelled(drv.snap)
    /\ Cas(/\ op' = [op EXCEPT !.k = "may", !.skip = FALSE,
                               !.calls = << >>, !.auth = "standard"]
           /\ Follow(op')
           /\ turnOpen' = FALSE
           /\ UNCHANGED <<laneVars, inputVars, batchVars, gen, asked, due, cd, crashes>>)

\* Cancelling a deferred response: one best-effort call per process.
CancelDeferred ==
    /\ Planning /\ Cancelled(drv.snap) /\ drv.snap.k = "deferred" /\ cd = "none"
    /\ cd' = "live"
    /\ UNCHANGED <<laneVars, op, drv, inputVars, batchVars, turnVars, crashes>>

CancelDeferredEnds ==
    /\ cd = "live"
    /\ cd' = "done"
    /\ UNCHANGED <<laneVars, op, drv, inputVars, batchVars, turnVars, crashes>>

\* close() or a lost process: every register stays, every effect is gone.
Crash ==
    /\ crashes < MaxCrashes
    /\ crashes' = crashes + 1
    /\ drv' = NoDriver
    /\ gen' = "none"
    /\ tool' = [i \in Indices |-> "none"]
    /\ cd' = "none"
    /\ turnOpen' = FALSE
    /\ UNCHANGED <<laneVars, op, inputVars, args, ran, results, asked, due>>

-----------------------------------------------------------------------------
Init ==
    /\ current = 0 /\ nextRun = << >> /\ last = [run |-> 0, outcome |-> "none"]
    /\ op = NoOp /\ pend = {} /\ args = {}
    /\ drv = NoDriver /\ gen = "none" /\ cd = "none" /\ turnOpen = FALSE
    /\ tool = [i \in Indices |-> "none"] /\ due = FALSE
    /\ admitted = 0 /\ notes = {} /\ placed = << >> /\ withdrawn = {} /\ dropped = {}
    /\ ran = [i \in Indices |-> 0] /\ results = << >>
    /\ asked = <<0, 0, 0>> /\ crashes = 0

Caller ==
    \/ \E sel \in Selectors : Resume(sel) \/ \E a \in AdaptiveRuns : Accept(sel, a)
    \/ AcceptContinuation
    \/ NextRun \/ AppendPlaced \/ CancelQueued \/ Abort
    \/ \E q \in {"steer", "follow"} : Enqueue(q)
    \/ \E isNote \in BOOLEAN : AppendDeferred(isNote)

DriverStep ==
    \/ Hydrate \/ Drain \/ HookStart \/ \E extend \in BOOLEAN : HookSettle(extend)
    \/ FinishCompleted \/ FinishFailed \/ FinishAborted \/ FinishTerminated
    \/ NeedAssistant \/ Dispatch \/ SettleGeneration \/ RecoverAttempt
    \/ SettleInterrupted \/ RetryReady \/ Sleep \/ Wake
    \/ PrepareTools \/ ClearTools \/ ToolsDone \/ CancelToolsDone \/ CancelDeferred
    \/ \E i \in Indices : PrepareImmediate(i) \/ PrepareLaunch(i) \/ SettleTool(i)
                          \/ SettleSynthetic(i) \/ RecoverTool(i)

EffectStep ==
    GenerationStart \/ CancelDeferredEnds \/ \E i \in Indices : ToolStart(i)

Next == Caller \/ DriverStep \/ EffectStep \/ TimerDue \/ Crash

Spec == Init /\ [][Next]_vars

\* The driver is a loop that never stops on its own and effects that were
\* launched run: nothing is assumed about callers, crashes or the clock ...
Running == WF_vars(DriverStep) /\ WF_vars(GenerationStart) /\
           \A i \in Indices : WF_vars(ToolStart(i))
\* ... and with a clock that advances: minimal-run.ts:3239 says that abort wakes a retry
\* wait, but the driver goes on planning from the snapshot it slept on (run-driver.ts:407)
\* until the retry is due.
FairSpec == Spec /\ Running /\ WF_vars(TimerDue)

-----------------------------------------------------------------------------
(***************************************************************************)
(* What is checked                                                         *)
(***************************************************************************)
DriverState ==
    [on : BOOLEAN, sel : {"settled", "post_turn"},
     pc : {"plan", "sleep", "prep", "hook"}, snap : OpState, nr : Seq(Ids),
     hyd : BOOLEAN, todo : SUBSET Indices, hooked : BOOLEAN, ended : BOOLEAN]

Outcomes == {"completed", "failed", "aborted"}

Entry == [id : Ids, via : {"next", "idle", "writes", "steer", "follow"}]
Discard == [id : Ids, queue : Queues, outcome : Outcomes, k : Kinds]
Result == [call : Indices,
           body : {"live", "lost", "interrupted", "blocked", "truncated", "aborted"}]

LaneType ==
    /\ current \in 0..MaxRuns /\ nextRun \in Seq(Ids)
    /\ last \in [run : 0..MaxRuns, outcome : Outcomes \cup {"none"}]
    /\ op \in OpState
    /\ (current = 0) = (op = NoOp)

InputType ==
    /\ pend \subseteq Ids /\ admitted \in 0..MaxItems
    /\ notes \subseteq Ids /\ withdrawn \subseteq Ids
    /\ placed \in Seq(Entry) /\ dropped \subseteq Discard

BatchType ==
    /\ args \subseteq Indices
    /\ tool \in [Indices -> {"none", "launched", "started", "refused", "broken"}]
    /\ ran \in [Indices -> 0..2]
    /\ results \in Seq(Result)

TurnType ==
    /\ gen \in {"none", "launched", "started", "refused"}
    /\ asked \in Nat \X Nat \X Nat
    /\ due \in BOOLEAN /\ turnOpen \in BOOLEAN

\* Every register, process variable and history variable holds a value of the
\* shape the v4 registers and the driver have, and an idle lane has no operation.
TypeOK ==
    /\ LaneType /\ InputType /\ BatchType /\ TurnType
    /\ drv \in DriverState
    /\ cd \in {"none", "live", "done"} /\ crashes \in 0..MaxCrashes

PlacedIds  == {placed[n].id : n \in DOMAIN placed}
DroppedIds == {d.id : d \in dropped}
AllQueues  == nextRun \o op.steer \o op.follow \o op.writes \o op.dSteer \o op.dFollow

\* restoreLane calls a lane corrupt when a pending id is in two lists or has no
\* pending.entry register: no order of drains, aborts, withdrawals and terminal
\* commits gets there, and no register outlives its list.
OneQueuePerPendingItem ==
    /\ IsInjective(AllQueues)
    /\ Range(AllQueues) = pend

\* An accepted item is still queued, became one entry, was taken back or was
\* discarded by a terminal commit: never two of these, never none.
EveryItemHasOneFate ==
    /\ pend \cup PlacedIds \cup withdrawn \cup DroppedIds = 1..admitted
    /\ pend \cap (PlacedIds \cup withdrawn \cup DroppedIds) = {}
    /\ PlacedIds \cap (withdrawn \cup DroppedIds) = {}
    /\ withdrawn \cap DroppedIds = {}
    /\ \A m, n \in DOMAIN placed : placed[m].id = placed[n].id => m = n

\* Items that entered by the same queue become entries in the order they were
\* accepted, whatever was withdrawn, replanned or interrupted between them.
QueuesAreFifo ==
    \A m, n \in DOMAIN placed :
        m < n /\ placed[m].via = placed[n].via => placed[m].id < placed[n].id

\* Only the driver moves the phase: a driver's snapshot, however stale, has the
\* phase, attempt and calls of op.state, which is what lets a settlement rebuild
\* its successor from the latest register without a sequence check.
DriverOwnsThePhase ==
    drv.on =>
        /\ current # 0
        /\ drv.snap.k = op.k /\ drv.snap.skip = op.skip
        /\ drv.snap.turn = op.turn /\ drv.snap.attempt = op.attempt
        /\ drv.snap.calls = op.calls /\ drv.snap.auth = op.auth
        /\ Cancelled(drv.snap) => Cancelled(op)

\* A run is never closed, and never leaves the phase that awaits it, while a
\* provider request or a tool it launched is still running.
NoOrphanedEffect ==
    /\ gen # "none" => drv.on /\ op.k = "pending"
    /\ \A i \in Indices : tool[i] # "none" =>
            op.k = "tools" /\ i \in DOMAIN op.calls /\ op.calls[i] \in PendingCall

\* Driver, effects and register stay together, whatever callers, crashes and resumes do:
\* neither half lasts without the other, since a settlement keeps the phase right only
\* for the driver that awaits it, and a resume drives only what nothing runs in.
PhaseIsOwned == DriverOwnsThePhase /\ NoOrphanedEffect

\* Each call of a batch gets exactly one result, across immediate answers,
\* live settlements, recovery after a crash and cancellation.
OneResultPerCall ==
    op.k = "tools" =>
        /\ \A m, n \in DOMAIN results : results[m].call = results[n].call => m = n
        /\ {results[n].call : n \in DOMAIN results}
              = {i \in DOMAIN op.calls : op.calls[i] \in DoneCall}

\* Where calls are cleared as one batch, or run one at a time, results are
\* written in source order and no argument register is missing when needed.
OrderedUnlessInterleaved ==
    op.k = "tools" /\ (op.auth = "entry" \/ ~Parallel) =>
        /\ \A m, n \in DOMAIN results : m < n => results[m].call < results[n].call
        /\ \A n \in DOMAIN results : results[n].body # "lost"
        /\ ~Unrestorable

\* Argument registers do not outlive the batch they belong to.
NoLeakedArguments == op.k # "tools" => args = {}

\* Input accepted by a run is discarded only when the run is aborted or its
\* tools terminated it: a stop or a failure that raced an admission replans.
\* An abort that went through a checkpoint has applied every deferred write.
\* That a terminated batch discards at all is against the documentation
\* (TerminationKeepsInput below), and so is what an abort discards elsewhere.
DiscardsAreDeliberate ==
    \A d \in dropped :
        \/ d.outcome = "completed" /\ d.k = "tools"
        \/ d.outcome = "aborted" /\ (d.queue = "writes" => d.k \in {"ready", "retry", "deferred"})

\* Without a crash a cancelled run always has a driver to end it.
CancelledRunIsDriven ==
    Cancelled(op) /\ ~drv.on => crashes > 0 \/ Unrestorable

Later(a, b) ==
    \/ a[1] > b[1]
    \/ a[1] = b[1] /\ a[2] > b[2]
    \/ a[1] = b[1] /\ a[2] = b[2] /\ a[3] > b[3]

\* After the cancel marker is durable no provider request and no tool starts,
\* and nothing but deferred writes is consumed: whatever was already planned.
CancelStopsWork ==
    [][Cancelled(op) =>
        /\ asked' = asked
        /\ \A i \in Indices : ran'[i] <= ran[i]
        /\ \A n \in DOMAIN placed' : n > Len(placed) => placed'[n].via = "writes"]_vars

\* No attempt is sent to the provider twice: requests carry strictly
\* increasing (run, turn, attempt), also across crashes and retries.
AttemptsAreNeverRepeated ==
    [][gen # "started" /\ gen' = "started" => Later(asked', asked)]_vars

\* A tool call is executed a second time only if it was captured as replay-safe.
NoUnsafeReplay ==
    [][\A i \in Indices : 0 < ran[i] /\ ran[i] < ran'[i] => op.calls[i] = "safe"]_vars

\* The lane, seen by its callers, implements RunContract.
Contract == INSTANCE RunContract WITH
    phase <- IF current = 0 THEN "idle"
             ELSE IF Cancelled(op) THEN "cancelling" ELSE "running",
    run <- IF current = 0 THEN last.run ELSE current,
    outcome <- last.outcome,
    fate <- [i \in Ids |-> CASE i \in pend       -> "queued"
                             [] i \in PlacedIds  -> "delivered"
                             [] i \in withdrawn  -> "withdrawn"
                             [] i \in DroppedIds -> "discarded"
                             [] OTHER            -> "none"]
ImplementsContract == Contract!CSpec

\* A drive always comes back: it ends, yields or suspends the run, and no
\* replan, hook or recovery loop keeps it going once callers stop adding work.
DriveReturns == drv.on ~> ~drv.on

\* A cancelled run that has a driver is closed, unless the process is lost or
\* the lane cannot be restored.
CancelledRunCloses ==
    \A c \in 0..MaxCrashes :
        (Cancelled(op) /\ drv.on /\ crashes = c) ~>
            (current = 0 \/ crashes # c \/ Unrestorable)

-----------------------------------------------------------------------------
(***************************************************************************)
(* What the documentation says and the code does not do                    *)
(***************************************************************************)
\* restore.ts: an effect_pending standard call has its op.tool_args register.
PendingCallKeepsItsArguments == ~Unrestorable

\* harness-v2.md: deferred writes survive abort and are applied before the run closes.
AcceptedWritesAreApplied == \A d \in dropped : d.queue # "writes"

\* harness-v2.md: where a batch is terminated by its tools, steering and follow-up
\* input can still start another turn, and accepted input is never lost.
TerminationKeepsInput == \A d \in dropped : d.outcome # "completed"

\* run-driver.ts: a post-turn drive never starts a second provider request.
OneTurnPerPostTurnDrive ==
    [][drv.on /\ drv.sel = "post_turn" /\ drv.ended => asked' = asked]_vars

=============================================================================
