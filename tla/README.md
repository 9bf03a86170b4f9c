# Verification of Jip-pi

TLA+ models of the parts of Jip-pi whose correctness depends on interleaving,
crashes and ordering, the TLC configurations that check them on small instances,
and TLAPS proofs of the properties that carry the rest. `PROJECT.json` lists the
components, runs, hazards, findings and theorems in machine-readable form and maps
every definition to the source lines it models.

Run a configuration with `tlc -config X.cfg M.tla`, check a proof with
`tlapm M.tla`.

## 1. The system

Jip-pi is a TypeScript monorepo for a coding agent. Four layers matter here:

| layer | packages | state | what is hard |
|---|---|---|---|
| adaptive runtime | `adaptive-agent` | task journal, continuation journal, promotion journal, workspace manifest, workspaces | several durable authorities that a crash can leave out of step |
| durable harness | `agent/src/harness/v4` | the registers and entries of a session, one driver per lane, live effects | callers write between any two steps of the driver; every step may be the last before a crash |
| session storage | `agent/src/harness/v4/jsonl`, `session-backends` | one append-only file per session | torn lines, failed appends, one writer |
| in-process agent and its session | `agent/src` (`agent.ts`, `agent-loop.ts`), `coding-agent/src/core` | a transcript in memory, two queues, a loop; a session file, a display of the queues, counters of retry and recovery | callers queue and abort between any two awaits of the loop; retry, recovery and compaction each rewrite the transcript |

Around them: `ai` (model providers), the modes of `coding-agent`, `desktop`, `tui`,
`pi-*-adapter`, `agent-protocol` (user interfaces and clients), `telemetry`, `evals`,
`scripts`, and the earlier harness (`harness/reducer.ts`, `harness/session`). They use
the four layers or are replaced by them, and hold no protocol of their own that the
models need.

### Components, their operations and what makes them correct

**Durable lane runtime** (`minimal-run.ts`, `run-driver.ts` and the pure planners
`generation.ts`, `tools.ts`, `inbox.ts`, `cancellation.ts`; `restore.ts` reads it
back). A lane holds at most one operation. Callers accept a run (`prompt`,
`execute`), resume it, queue input (`steer`, `followUp`, `nextRun`, deferred
`appendMessage`/`appendCustomEntry`), withdraw it (`cancelQueued`) and `abort`. A
driver loop plans one action from a snapshot of the registers, commits it, launches
effects (provider request, tools, hook, sleep) and settles them. Commits of all of
them are serialized by the lane's mutation line, but planning, effects and callers
are not. Correct means: accepted input is neither lost, doubled nor reordered; a
cancelled run starts nothing more and closes; every tool call gets one result; an
effect that may have happened is not repeated; a crash at any point leaves a lane
that can be resumed.

**Durable session log** (`jsonl/repo.ts`, `jsonl/storage.ts`, `session.ts`). A
session is a file with one line per transaction. Opening loads the file, repairs a
torn tail and registers the writer; commits are queued and appended one at a time; a
failed append faults the handle. Correct means: an acknowledged transaction is in the
file and stays there in order, any other is in it entirely or not at all, the file
can always be loaded, one writer.

**Journals of the adaptive runtime** (`task-journal.ts`, `continuation-journal.ts`,
the journal in `workspace-promotion.ts`, `runtime-manifest.ts`). The same file format
with four variants of `append`. Correct means: a journal only this code wrote can be
read, an event is recorded once, sequence numbers increase, a closed journal is
silent.

**Branch continuation** (`branch-continuation.ts`, `branch-origin*.ts`,
`continuation-checkpoint.ts`) forks a checkpoint into one accepted run per variant.
What it does is spread over the continuation journal, the freeze marker of the source
lane, the child sessions and the leases of the workspace manifest; a call that was lost
is made again. Correct means: a child has one run however often the call is repeated, a
group that is ready has every child's session, workspace and run, and its origin is
frozen.

**Workspace promotion** (`workspace-promotion.ts`, `workspace-manager.ts`) applies a
candidate's changes to the user's foreground path by path, under a journal, and rolls
them back when something fails or is found open after a crash. The user may edit the
foreground at any time. Correct means: the foreground is never a mix of two candidates,
what was rolled back is as it was captured, edits survive, a receipt is final.

**Candidate graph and task runtime** (`candidate-graph.ts`, `adaptive-runtime.ts`,
`candidate-turn-runner.ts`, ...) drives the candidates of one task. Its loop keeps only
workers in memory: it decides from the fold of the task journal and acts on the other
authorities, and reconciles them when it is opened. Correct means: no lane goes on past
an undecided turn, a branch origin stands still, an attempt is given up only with a clean
foreground, the outcome tells how the foreground was left, and a task ends with its
workspaces released.

**In-process agent** (`agent.ts`, `agent-loop.ts`, `tool-execution.ts`) holds the
transcript and runs the loop: emit the prompts, poll the steering queue, ask, execute the
batch, poll again, and take follow-ups when it would stop. The loop works on a copy of the
transcript, which the agent extends on the loop's events. Correct means: the copy that is
sent agrees with the transcript, results follow their calls, queued input is delivered
once and in order, and nothing is asked under an aborted signal.

**Application session** (`agent-session.ts`, `session-manager.ts`,
`compaction/compaction.ts`) listens to the agent, persists its messages, shows its queues,
and after each run retries, compacts, continues or settles. Correct means: the display is
what is queued, the session file gives the transcript back, the continuations it starts
are never refused, an abort is heeded, and a session that is active settles with its
queues empty.

**Policy, evaluation, controller** are pure functions of one turn's data. **Workspace
adapters** are git and file-system commands. **Tools** are I/O, except the per-file
mutation queue.

The hazards of all of these, with their lines, are in `PROJECT.json`.

## 2. Modules

| module | models |
|---|---|
| `HarnessRun` | one lane of the v4 harness: registers, driver, effects, callers, crash |
| `RunContract` | what a lane promises its callers; `HarnessRun` implements it |
| `JsonlFile` | an append-only file of JSON lines, appends that are cut short, what a reader accepts |
| `SessionLog` | the session file, its repository and its handles |
| `DurableLog` | what a session log promises; `SessionLog` implements it |
| `AdaptiveJournal` | the four journals of the adaptive runtime |
| `Failures` | the bounds on failing operations and lost processes that the next four share |
| `Promotion` | promote, rollback and recover of a candidate's workspace, and the user's edits |
| `ContinuationGroup` | `forkExact` over its four authorities |
| `AdaptiveTask` | one task: graph, turns, branch, verification, promotion, cleanup; composes the two above |
| `TaskContract` | what a task promises about the foreground; `AdaptiveTask` implements it |
| `AdaptiveHost` | the program around it: a task, or direct calls of the two components |
| `Agent` | the in-process agent: transcript, queues, and the loop between its awaits |
| `AgentSession` | the application's session around it: display, file, retry, compaction, abort, restart |
| `Conversation` | what a user may rely on in a transcript; `AgentSession` implements it |
| `HarnessRun_proofs` | the inductive invariant of `HarnessRun` and its consequences |
| `HarnessActions_proofs` | what no step of `HarnessRun` may do, what becomes of every tool call and of every queued item, the refinement of `RunContract` |
| `SessionLog_proofs`, `AdaptiveJournal_proofs` | the files: loadability, the refinement of `DurableLog`, numbers and keys |
| `Promotion_proofs`, `ContinuationGroup_proofs` | the two components under any order of calls |
| `AdaptiveHost_proofs` | the same properties of the composition, the task's own, how its calls end, the refinement of `TaskContract` |
| `AgentSession_proofs` | types, context, file, continuations, aborts, display and refinement of the application's session |

`HarnessRun` takes a commit to be atomic and durable when it returns. That is what
`SessionLog` shows of the storage below it, as long as calls that open,
create or delete the session do not overlap. The
two logs share `JsonlFile`; they differ in that the session log repairs a torn tail
and faults after a failed append, and the journals do neither.

Definitions whose comment begins with "Mutant:" are not part of a model. Each is the
definition that follows it with one plausible bug; `PROJECT.json` pairs it with the
property that then fails, so that every property is known to depend on the code.

### HarnessRun

*State.* `current`, `nextRun`, `last` are `lane.state` and `lane.lastResult`; `op` is
`op.state` with the flag of `op.meta`; `pend` and `args` are the ids that have a
`pending.entry` and an `op.tool_args` register. `drv` is the driver: the snapshot it
plans from (`snap`, `nr`), whether all payloads of the snapshot are loaded (`hyd`),
where it waits (`pc`). `gen`, `tool`, `cd` are live effects. The rest is history.

*Steps.* Callers are `Accept`, `AcceptContinuation`, `Resume`, `NextRun`, `Enqueue`,
`AppendDeferred`, `AppendPlaced`, `CancelQueued` and `Abort`. The driver's actions are
the planner's (`Drain`, `NeedAssistant`, `Dispatch`, `RetryReady`, `PrepareTools`,
`ClearTools`, `ToolsDone`, `Finish...`, `Cancel...`), the settlements (`Settle...`,
`HookSettle`) and `Replan`, which every failed comparison falls back to. Effects start
in `GenerationStart` and `ToolStart`, where the code re-enters the mutation line and
checks for the cancel marker. `Crash` loses everything that is not a register.

*Choices.*
- A driver decides from `drv.snap` and commits against `op`. A transition compares
  both registers it was planned from (`Cas`), a terminal commit only `op.state`
  (`Superseded`), a drain its lists and the control (`StillFits`), a settlement
  nothing: which is why `DriverOwnsThePhase` matters.
- Sequence numbers are compared as values. A value that changed and changed back
  would be told apart by the code; that costs it one more restore.
- The decision to yield, suspend or stop for a missing identity is taken on the state
  a commit returned, so it is part of that commit (`Adopted`).
- Acceptance and the start of its drive are one step. The window between them is a
  few microtasks, while a competing restore awaits several reads.
- Queue items are numbers in order of acceptance; message bodies, tool results and
  arguments are reduced to what the properties tell apart.
- The drained payloads returned by `abort`, usage rows, events and telemetry are left
  out, as are the lane's configuration and its revision check, the manual gate and
  finalization by another party. Compaction, navigation and further lanes are
  rejected by the code as not implemented.

### SessionLog and JsonlFile

A line either parses to the record it was written for or does not parse; a text
appended behind an unterminated line joins it, and the two never parse. `Cuts` are the
outcomes of an append: nothing, part of the line, the line without its LF, all of it,
each with success reported only for the last.

`Open`, `Load` and `Repair` split opening at its file operations. `Commit` queues,
`Begin` takes the next transaction if the handle has not faulted, `AppendOk` and
`AppendFails` end the append. `Close` seals the session, `Release` gives the writer
back when the queue is empty. `Crash` loses every handle and leaves any prefix of the
lines being written. A transaction is one record with one position.

`Create` stands for `createNow` and for the inner half of `fork`: it is refused while
there is a file or a writer, and creations of one session follow each other
(`LineFree`). `Publish` renames the complete file into place, with a fork's entries as
one more record, and asks for a writer again before it loads. `Delete` asks for a
writer, `DeleteEnds` removes the file or fails. `header` is the file's beginning:
`"none"` without a file, `"ok"`, or `"missing"` when an append made the file
(`Touched`), which no load accepts. The header and initial record appear with the file
and are not lines of the log. `OverlappingCalls` says whether a caller may open, create
or delete a session while such a call is under way.

### AdaptiveJournal

One instance serves its calls in order. `kind` chooses the store: the task journal
appends blindly, the continuation journal reads and answers a known event, the
promotion journal numbers after the file, the manifest after a cached counter.
`CallAppend`/`CallClose` queue a call, `Write`, `WriteFails`, `Answer` and `ServeClose`
serve it. An append that has been answered without writing (`Answer`) is a repeated
or conflicting event, an unreadable journal, or a call that `close` overtook.

### Promotion

*State.* `fg` is the foreground, one content per path: as captured (`Base`), as the user
left it (`Edit`), or a candidate's. `journal` is the fold of each attempt's journal file,
`copies` its recovery copies, `manifest` its record in the manifest, `call` the promote
or recover call that is running. `lost` and `raced` are history: writes whose `applied`
event was never recorded, and paths edited between a comparison and the write it is for.

*Steps.* `Promote` answers from the receipt or begins; `VerifyLease`, `Gate`, `Recheck`
and `Open` are what comes before the first write; `Prepare`, `Apply` and `Record` repeat
for each path; `VerifyForeground`, `Close` and `Settle` end it. `ApplyFails` starts the
rollback: `Compare`, `Restore`, `Confirm` per path, newest first, then `RollbackDone` and
`Settle`. `Recover` handles the records it finds open. `UserEdit` may come between any
two of them, and the process may be lost there (`Crash /\ CallLost`).

*Choices.* Every candidate changes the same paths, which is the case in which two of them
meet; a candidate without changes is `Identical`. How a path is hashed, copied or patched
is one operation on it. An edit never restores the captured content by chance.

### ContinuationGroup

*State.* `group` and `child` are the recorded events, `frozen` the marker of the source
lane, `session`, `lease` and `runs` what exists of each child, `fork` the call: where it
is, the child it is about, and the leases it holds and would release.

*Steps.* One action per durable effect of `forkExact`, in the order of the code: the
freeze, then for each child its session, lease, admission and events, then
`GroupReady`. `ForkFails` is an untyped error anywhere in between: it releases what the
call holds and leaves the journal as it is. A rejected admission is recorded for child
and group and unfreezes the source. A release is three steps (`ReleaseHeld`): the lease
is marked `releasing`; its directory is removed and it is marked `released`, or `orphaned`
when the directory stays; and the snapshot goes when no lease refers to it any more. The
process may be lost between any two.

*Choices.* The checkpoint, its fingerprints and the sealed snapshot are inputs that the
group has or has not: their comparison never fails for the same plan.

### AdaptiveTask and AdaptiveHost

*State.* `task` and `node` are the fold of the task journal: status, outcome, the
winner's slot, and for each candidate its status, settlement, the turn observed and the
turn decided. `lane` is the run of a candidate's lane with its count of provider calls,
`root` the leases of the root's snapshots. `run` says where `run()` is; only `run` and
`workers` are lost with the process. The rest is the state of `Promotion` and
`ContinuationGroup`, whose actions the task's steps include.

*Steps.* `Chosen` is `nextCandidate`; every step of the loop is guarded by it or by the
place the previous one went to. The parts in the order of the module: opening and
reconciliation, workers, turns and decisions, branching, verification, winner and
promotion, release and cleanup, then the lost process.

*Choices.*
- A turn is one step: what happens inside it is the harness, whose lane is `idle`,
  `accepted`, `parked`, `completed` or `failed` to the task.
- `Decision` keeps the order of `decideController` and leaves failing checks open; the
  tie-break between verified candidates is open as well.
- One level of branching, and every variant is forked.
- `releaseCandidate` is `Release`, `Remove`, `Unreference` and `RecordReleased`: the lease
  is marked, its directory removed and the mark completed, the snapshot let go, the event
  appended. The process may be lost between any two; a lease that is left `releasing` is
  one that nothing releases again but `recover()`, which is the host's.
- Errors of the release are swallowed, as in the code; what `finalizeCleanup` throws is
  `threw`, and the host may call `run()` again.

`AdaptiveHost` runs a task, or calls `promote` and `recover` itself for any candidate in
any order, or calls `forkExact` itself again and again. A task promotes one candidate at
most and never comes back to a group that was interrupted, so what two attempts or two
calls leave each other happens only in the last two; the properties of the components are
checked in all three.

### Agent

*State.* `messages` is the transcript (`_state.messages`), `steering` and `followUp` the
two `PendingMessageQueue`s, `run` the active run: the point at which its loop waits
(`at`), its copy of the transcript (`context`), the messages still to be emitted (`rest`),
`hasMoreToolCalls` (`more`), the signal (`aborted`), and the batch: how it runs, which
calls are prepared and with what outcome, how many results are given.

*Steps.* One per await of the loop: `DeliverPrompt`, `PollSteering`, `Inject`, `Respond`,
`PrepareCall`, `CheckSignal`, `FinishCall`, `GiveResult`, `PollFollowUp`, `CloseRun`,
`EndRun`.
`StartPrompt` and `Continue` are `prompt()` and `continue()`; `Enqueue` and `AbortRun` may
come in between any two.

*Choices.*
- Emitting a message, the listener that persists it and the push into the loop's copy are
  one step: the listener awaits only extensions, and whoever comes in between changes
  queues or the signal, which the step does not read.
- An answer is how it stopped and how many calls it has. `"overflow"` is an error answer
  that says the context is too long. The provider decides how it stopped, and the loop
  takes the answer from a queue later (`anthropic-messages.ts:766`, `agent-loop.ts:319`),
  so a run aborted meanwhile may end with any answer.
- An answer that ends the run at once is followed by `closing`: the listeners of
  `message_end` and `turn_end` are awaited before `agent_end` (`agent-loop.ts:199`), and an
  abort may still meet the run there.
- Listeners that throw, `reset`, `prepareNextTurn` and `shouldStopAfterTurn` are left out.

### AgentSession

*State.* `active` is `_isAgentRunActive`, `at` where `prompt`, `compact` and
`_runAgentPrompt` are, `mirror` the two lists that are shown, `last`, `attempt` and
`recovered` the fields of retry and recovery, `pending` the shell output that waits,
`entries` the current branch of the session. `quiet` and `stranded` are history.

*Steps.* `RunStep` is a step of the agent with what `_handleAgentEvent` does of it
(`Heard`). `RunEnds`, `PrepareRetry`, `Recover`, `CompactThreshold`, `CompactionDone`,
`CompactionFails`, `Resume` and `Settle` are `_handlePostAgentRun` and its loop; between
two of its awaits it is one step. `Prompt` and `Launch` are `prompt()` before and after
its preflight. Clients call `Queue`, `ClearQueue`, `RecordShell`, `CompactManually` and
`Abort` at any time; `Restart` loses what is not in the file.

*Choices.*
- A compaction stands in `entries` with the index of the first entry it keeps; which one
  that is depends on token counts and is open (`Cuts`), up to `MaxKept`.
- What depends on usage figures (is the context over the threshold, was an answer cut off
  below its limit, is an error transient) is open as well.
- Inputs are distinct. The code finds a delivered message in the display by its text, so
  that of two equal ones in different queues the wrong one may disappear.
- Clients do not call `prompt()` twice before the first has started its run, nor during a
  compaction. `prompt()` refuses a call during a manual compaction (`:1136-1140`); during an
  automatic one nothing in the session does, and the application asks `isCompacting`.
- Branches and navigation, models, custom and `nextTurn` messages, extensions and failing
  writes are left out; compaction is enabled.

## 3. Runs

Bounds are constants of the modules; each stops an environment that could go on for
ever and none is in the code.

| run | result | bounds | what it asks |
|---|---|---|---|
| `HarnessTools` | pass, 0.4M states | 1 item, 1 run, 2 turns, 2 calls, 2 attempts, 1 crash, both batch kinds, hook, missing identities | driver against registers, effects, results, replays; drives return, cancelled runs close, also inside a batch |
| `HarnessQueues` | pass, 1.7M states | 2 items, 1 run, 2 turns, 1 call, 2 attempts, 1 crash, hook, both selectors | fate, order and registers of input; cancellation; `RunContract` |
| `SessionLog` | pass, 0.25M states | 3 handles, 3 transactions, any creations and deletes | `DurableLog`, release |
| `AdaptiveJournal` | pass, 38k states | 3 appends, 2 keys, 2 bodies, 2 losses | duplicates, numbering |
| `AdaptiveHost` | pass, 0.6M states | 2 children, 3 candidates (1 without changes), 2 paths (1 new), 1 edit, 1 fault, 1 crash, 3 provider calls | foreground, edits, receipts, twins, turns, ends, `TaskContract` |
| `AgentSession` | pass, 0.5M states | 2 inputs, 1 batch of 2 calls, 2 failed answers, 1 retry, 1 compaction, 1 interruption | display, file, context, continuations, aborts, `Conversation`, settling |
| `HarnessLostArguments` | violation | 2 calls | argument registers of pending calls |
| `HarnessDeferredWrites` | violation | 1 item | deferred writes under abort |
| `HarnessPostTurn` | violation | 1 item | one request per post-turn drive |
| `HarnessTerminated` | violation | 1 item, 2 turns, 1 call | input queued when tools terminate a run |
| `SessionLogRace` | violation | 2 overlapping opens | one writer |
| `JournalTornTail` | violation | 2 appends, 1 loss | reading a journal after a torn line |

*Why the bounds are enough.* Two items of one queue are needed for order, and one of them
may be withdrawn or set aside while the other is drained; that more items and further runs
change nothing is proved for every bound (section 4). Two calls give every order of
settlement and the distinction between last and not last source index; two turns give a
request after a batch, a drain between turns and a run that is cancelled inside a batch:
with one turn no answer has calls. `HarnessTools` takes the two calls and one item,
`HarnessQueues` the two items and one call: order in a queue and settlement in a batch
meet only where a batch ends, and both runs have that. Two attempts separate a retry from
exhaustion. One crash can fall between any two steps, and a second falls into a state that
`Resume` could have reached. Three handles give a repair and a reopening after it; each of
them may lose an append. In `AdaptiveHost` two paths give a rollback order and a mix of
two candidates, one of them is new and has no copy; two children give a sibling that is
provisioned, released or driven later; the third provider call exhausts the budget between
two candidates. One crash meets every step, and one fault before or after it gives the
failing retry. The user edits only while a task has a winner and has not ended
(`EditForeground`): before, nobody but the capture looks at the foreground, and nobody
does afterwards. `DirectCandidates` are the ones a host promotes itself: two of them meet
each other, the third is the one without changes. In `AgentSession` two inputs give an
order within a queue and between the two; one batch of two calls gives a batch that an
abort stops half-way; two failed answers and one retry give exhaustion, recovery after a
retry, and the exception of `ContinuationsStart`; one interruption, be it an abort, a
shell command, `clearQueue` or a lost process, falls between any two steps, and `MaxKept`
lets a compaction cut before an answer, a failed answer or an input.

*Fairness.* `FairSpec` assumes weak fairness of the driver's steps and of
the start of a launched effect: both are continuations of promises that the event loop
runs. It also assumes that a retry's time comes. Nothing is assumed of callers, of crashes
or of an effect's answer other than that an effect that started is settled (the driver
awaits it; a provider or tool that hangs for ever is outside the model). The bounds on
turns and on what hooks add stand for callers, providers and hooks that stop adding work:
with ones that do not, a drive need not end. `SessionLog` assumes that the file operations
of a handle and of a delete settle. `HostSpec` assumes weak fairness of the task's steps:
what `run()` awaits comes back. It assumes nothing of crashes, edits, the host's own
calls, or that anybody opens the task again. `AgentSession` assumes weak fairness of the
session's and the agent's steps together: the loop is one chain of awaits, a provider
answers, and tools, compactions and the backoff end. Nothing is assumed of clients.

`CHECK_DEADLOCK FALSE` is set throughout: an idle lane, a closed session and a journal
nobody calls rightly stop once the bounds are used up.

### What the checks show

*Passing.* Input of any kind survives any interleaving of drains, aborts, withdrawals and
replans with exactly one fate, and queues stay first-in first-out (`EveryItemHasOneFate`,
`QueuesAreFifo`); the registers never reach a state that `restoreLane` calls corrupt on
account of its queues (`OneQueuePerPendingItem`). A run that completes by a stop or fails
discards nothing (`DiscardsAreDeliberate`). One that is aborted discards, and one that its
tools terminate discards all that waits, against the documentation:
`TerminationKeepsInput` states what it says, `HarnessTerminated` violates it, and the
property excepts this case by name. After the cancel marker no request and no tool starts
(`CancelStopsWork`). Every call of a batch has one result (`OneResultPerCall`), in source
order when the batch is adaptive or sequential (`OrderedUnlessInterleaved`). The session
log implements `DurableLog` through any sequence of torn lines, repairs and faults: a
session appears complete or not at all, belongs to one writer at a time, and is removed
only while it has none.

Every drive comes back (`DriveReturns`) and a cancelled run closes (`CancelledRunCloses`).
An abort does not end a retry wait, although the comment at `minimal-run.ts:3239` says so:
the next pass plans from the snapshot the driver slept on (`run-driver.ts:407`), and the loop
repeats until the retry is due. So `CancelledRunCloses` needs a clock that advances, which is
the last conjunct of `FairSpec`.

The foreground is never a mix of two candidates (`OneCandidateInForeground`), a group is
complete when it is ready (`ReadyIsComplete`) and has no twins (`NoTwinRuns`), no turn is
passed over undecided (`TurnsAreDecided`), and the task implements `TaskContract`. Where
the code leaves a window open the property names it, and nothing beyond it:

| exception | what the code does |
|---|---|
| `lost` in `RolledBackIsRestored` | a process or an append lost after a path is written (`workspace-promotion.ts:546`) and before its `applied` event (`:558`): recovery sees no applied path, discards journal and copies, and the write stays |
| `raced` in `EditsSurvive`, `CopiesOutliveNeed` | an edit between the hash that allows a write and the write, or before the hash of that write is taken, is overwritten or taken for the attempt's own |
| `StuckGroup` in `EndsAreAccountedFor` | a crash after the group's first event and before `group_ready`: reconciliation refuses the task (`candidate-graph.ts:694`), so the reattachment in `branch-continuation.ts` is never reached; after `group_failed` likewise |
| `StuckLease` | a lease is marked `releasing` before its directory is removed and `released` after it (`temp-directory-workspace-adapter.ts:751-759`); a crash in between leaves it so, cleanup passes over it (`adaptive-runtime.ts:1707-1710`), and `releaseSnapshot` throws on every later `run()` (`:1742`, `:1757`) until `recover()` is called |
| `StuckRelease` | the snapshot goes with the last lease; a crash between that and `candidate_released` makes cleanup look it up again and throw on every later `run()` |
| `StuckSibling` | a pruned sibling's lease is released; after a crash the worker of the other one is rebuilt by forking the group again, which finds that lease and conflicts |
| `StuckPromotion` | an attempt that needs attention, and a crash before `task_terminal`: the next attempt is refused twice and the task cannot end |
| an edit of the user after a crash | met by the second attempt, it is thrown as "could not be settled after recovery" |
| journals are legible in `AdaptiveTask` | a line of the task journal torn by the crash, and written behind, faults the task as well: `JournalTornTail` shows it, and `EndsAreAccountedFor` leaves it out |
| `provisioning` in `TurnsAreDecided` | a crash between the root's first turn and `root_run_accepted`: the root starts over as provisioning and its durable decision is not read again |

Other things the model follows the code in, and a reader should know: the lease check of
reconciliation looks up a field that statuses do not have (`adaptive-runtime.ts:364-371`)
and never fails; the budget does not count what released candidates spent (`:1816`); a
prune for an exhausted budget before a turn is not journaled as a decision
(`:740-748`), so the outcome is `no_verified_candidate`; a verified candidate is promoted
before its sibling is driven, and if it is then demoted the task settles without driving
the sibling; a process lost in a promotion leads to a rollback by `recover`, and the
retry replays that receipt and demotes the winner; a second capture of the root after a
crash shares the first one's directory.

The session shows what is queued (`QueuesAreMirrored`), what is sent is the transcript
(`ContextIsTranscript`), the file gives it back (`SessionHoldsTheTranscript`), it
implements `Conversation`, and an active session settles with empty queues
(`SessionSettles`). Its exceptions and what the model follows the code in:

| where | what the code does |
|---|---|
| `ContinuationsStart` | a transient error, its retry, then an overflow: both failed answers are in the session, the compaction may bring both back, and `_runAutoCompaction` removes only the last (`agent-session.ts:2190-2200`); `agent.continue()` then throws, against the comment at `:2193-2196` |
| `AbortIsHeeded`, `LastFailed` | an answer that failed, or was cut off at its limit, is asked for again by the retry (`:2692`) and by the recovery (`:1967`, `:1991`) whether or not the run was aborted meanwhile |
| `AbortIsHeeded`, `quiet` | an abort after `agent_end`, or during a compaction that follows a run, has no signal to set (`agent.ts:319`) and stops neither the recovery nor a continuation; one that ends a backoff is followed by a continuation if input is queued |
| `Over` | input queued while a run was aborted is there after `agent_end` and is sent; the comment at `:1105-1106` says that the loop has drained it |
| `Continue` | a batch that its tools terminated leaves a result at the end, and input queued at `agent_end` makes `continue()` ask the provider about that result first |
| `AbortIsHeeded`, `ClearQueue` | a continuation is started for input that was queued too late for an aborted run; taken back before it is polled, the request goes out without it (`agent-loop.ts:140-169`) |
| `ClearQueue` | returns what is shown, which includes input a run has drained and not yet emitted; that input is still delivered |
| `Prompt` | two overlapping `prompt()` calls pass the test of `isStreaming` both (`:1170`, set at `:1067`); excluded in the model |

*Violated.* Each of these runs checks one statement of the repository; the findings in
`PROJECT.json` quote it and tell the counterexample.
- A parallel batch whose last call is answered at once deletes the arguments of
  calls that still run; a crash then makes the lane unrestorable, which is why
  `CancelledRunIsDriven` and `CancelledRunCloses` except `Unrestorable` lanes.
- Aborting in `ready` or `retry_wait` discards deferred writes.
- A post-turn drive can send a second request.
- A batch that all its tools terminate ends the run with the input that is queued, steering
  and follow-ups included, and the terminal commit deletes it.
- Overlapping opens give a session two writers. `SessionLog` therefore runs with
  `OverlappingCalls = FALSE`.
- The journals drop a torn tail when reading and append behind it when writing.

## 4. Proofs

Proved by TLAPS for every value of the constants that satisfies the assumptions of the
modules. `PROJECT.json` lists every theorem; the table gives the argument.

| module | invariant | what follows |
|---|---|---|
| `HarnessRun_proofs` | `IInv` | `TypeOK`, `DriverOwnsThePhase` and `NoOrphanedEffect` (`PhaseIsOwned`) |
| `HarnessActions_proofs` | `IInv`, `AskedBefore` | `CancelStopsWork`, `AttemptsAreNeverRepeated` |
| | `IInv`, `BInv` | `OneResultPerCall`, `NoLeakedArguments`, `OrderedUnlessInterleaved`, `NoUnsafeReplay` |
| | `IInv`, `QInv` | `OneQueuePerPendingItem`, `EveryItemHasOneFate`, `QueuesAreFifo`, `DiscardsAreDeliberate`, `ImplementsContract`; `CancelledRunIsDriven` from `IInv` alone |
| `SessionLog_proofs` | `LInv`, for `~OverlappingCalls` | `TypeOK`, `OneWriter`, `SessionIsLoadable`, `WriterKnowsTheLog`, `ImplementsDurableLog` |
| `AdaptiveJournal_proofs` | `JInv` | `TypeOK`, `KeysAreUnique`, `SequenceNumbersIncrease`, `ClosedJournalIsSilent` |
| `Promotion_proofs` | `PInv` | `OneCandidateInForeground`, `RolledBackIsRestored`, `CopiesOutliveNeed`, `EditsSurvive`, `ReceiptIsFinal`, for any order of calls (`PromotionSpec`) |
| `ContinuationGroup_proofs` | `GInv` | `NoTwinRuns`, `ReadyIsComplete`, for any order of calls (`GroupSpec`) |
| `AdaptiveHost_proofs` | `HInv` | all of the last two rows for the composition, `TaskTypeOK`, `TurnsAreDecided` and `OriginIsReadOnly` (`LanesTakeTurns`), `ImplementsTaskContract` |
| | `HInv`, `EInv` | `EndsAreAccountedFor` |
| `AgentSession_proofs` | `Typed` | `TypeOK` |
| | `Typed`, `Held` | `ContextIsTranscript` |
| | `Typed`, `Held`, `Batch`, `Sound` | `SessionHoldsTheTranscript`, `ContinuationsStart` |
| | those and `Quieted` | `AbortIsHeeded` |
| | `Typed`, `Queued` | `QueuesAreMirrored` |
| | all but `Quieted`, and `Told` | `ImplementsConversation` |

*`IInv`* is `TypeOK /\ Shape /\ DriverOwnsThePhase /\ NoOrphanedEffect`. None of the last
two is inductive alone. A settlement rebuilds `op` from the latest register, so that
it leaves the right phase only if the phase is the one the driver planned from;
that the driver is the only one to move it is `DriverOwnsThePhase`. It survives a
resume because no effect is live when there is no driver, which is
`NoOrphanedEffect`; and that survives a settlement because of the first. `Shape` says
that an idle lane has neither an operation nor a driver and that a prepare loop walks
calls of the batch. `AskedBefore` adds that the last request sent never
lies ahead of the attempt in `op`, and lies behind it while a request is only launched.

*`BInv`* relates the calls of a batch to what surrounds them: their argument registers
(`ArgumentsFollowCalls`: the settlement of the last source index deletes what is left),
the order of results (`ResultsInOrder`: where nothing interleaves the finished calls are
a prefix), the one commit that clears an adaptive batch (`ClearedAtOnce`), executions
(`Executions`: what is launched again is safe), and the calls a preparation holds while
its hook runs (`Preparation`), which must still be planned when it commits them.

*`QInv`* is about the items. Every list is in order of acceptance, no two lists share an
item, and the lists together are the pending registers (`ListsApart`). The order of what
was placed is not inductive by itself: a drain adds the items the queue still holds, so
that these must lie behind all the queue has placed (`PlacedAhead`). Lists are set aside
only by the cancel marker and a drain after a failure never skips the inbox
(`DrainedByCancel`), which is what leaves nothing for a commit to discard that was not
meant to be. The refinement sorts the steps by what happens to the fates: an item is
submitted, a set of waiting items is delivered, withdrawn or discarded with the end of
the run, or nothing changes for the callers.

*`LInv`* says that one handle is in use at a time and none during a delete (`Exclusive`),
that a file which is there begins with its header and loads (`Published`), that a repair
works on what the file still holds (`Unchanged`), and that transactions which wait have
not entered the log and wait once (`Waiting`). The first is where `~OverlappingCalls` is
needed, and `SessionLogRace` shows that it is. With it every append continues the log the
handle loaded, so that the log grows by whole transactions; that is the refinement.

*`JInv`* is about legible lines, since an illegible one may lie anywhere: their keys
differ, their numbers rise, and the manifest's cached counter is ahead of all of them,
also after an append that failed. It carries that a highest number exists, because
`MaxSeq` chooses it.

*`PInv`* relates the call to the foreground path by path: which paths hold the
candidate's content before, in and after the window between a write and its `applied`
event (`Windows`), and that every path which holds a candidate's content is accounted for
by an attempt that is open or promoted, or by `lost` (`Accounted`).

*`GInv`* says what each stage of `forkExact` has recorded and made so far (`Progress`),
also while the leases of a call that failed are given back one mark at a time,
and what a group that is ready or has failed still has (`Ends`): that an accepted run is
never forgotten is what excludes a twin.

*`HInv`* keeps `PInv` and `GInv` and adds what the authorities say of each other: where
`run()` is and what it is about (`Here`), what the branch decision means for group and
lanes (`Branch`), turns against observations and decisions (`Turns`), what statuses imply
(`Graph`), and winner and candidates against the promotion journals (`Attempts`). The
last is what the refinement needs: its steps are the selection of a winner
(`OneAttempt`), the steps of a promotion (`ForegroundMoves`), statuses that end a
candidate (`Abandons`) and outcomes (`Settles`).

*`EInv`* explains how calls of `run()` end. That one returned says that three authorities
agree, and that one threw says what another process left in them, so the property rests on
three layers, which only speak of a host that runs the task:
- `Structure` holds whatever fails: who has a worker and, while no process was lost, that
  whoever was started has one (`Staffed`); that a branch has one origin and that nothing
  else happens while a child waits to be provisioned (`Lineage`); that the loop drives
  children in their order, and forks a group again only for one that is active
  (`InOrder`); how far the cleanup has come, what is released by then, and at which mark
  a release stands (`Cursor`); and
  which leases a stage of `forkExact`, an event of the group and the root's capture imply
  (`Leases`, `RootLeases`). What returned has released everything follows from this alone.
- `Kepts` holds while no operation failed and no child was rejected: whoever may work has
  its workspace, and workspaces are given back in the order of the children (`Lent`,
  `RootLent`), where a root's lease that stands at `releasing` without a release under way
  was left there by a crash; what the graph calls released is released (`GivenBack`); a
  group is forked again only after a crash, and fails then only for what a crash left,
  released or half released (`Rebuilt`, `LeftReleasing`), while a first call makes its
  leases one by one (`Fresh`); the cleanup leaves no ready lease behind it (`Passed`). The
  proof turned on the order of the children: a lease that a second `forkExact` finds
  released belongs to a sibling before every active one, so that undoing the call, which
  releases what it holds up to there, never takes the workspace of one that still works.
- `Tried` says how an attempt ends without a promotion: a fault was counted (`Reasons`); a
  second attempt conflicts only when its journal needs attention or the user edited
  (`SecondAttempt`); and without a crash a promotion conflicts only for what drifted before
  its journal was opened, of which a second attempt is told before it conflicts
  (`Unbroken`).

Every throw of the model (`WhoThrows`) is then either impossible while nothing has failed
(`WorkerLeased`, `WinnerLeased`, `GroupLetGo`, `RootLetGo`) or meets one of the states
named in the property, after a crash (`ReopenRefused`, `ForkRefused`, `NodeRefused`,
`RetryRefused`).

*`Typed`* adds to `TypeOK` what its own preservation needs: a run holds messages to be
emitted exactly while it waits for their listeners, a summary's cut lies before it
(`CutsInside`), and a prompt that waits to be launched is an input.

*`Held`* says at each point of the loop how the copy of a run and the transcript differ:
the copy is ahead by the prompts that are still to be emitted (`prompts`), and behind by
the results a batch has given (`prepare`, `check`, `results`); everywhere else the two are
equal, unless the run is over.

*`Batch`* counts: results given, calls prepared and calls of the batch, and that the last
message before the results is the answer they belong to. *`Sound`* rests on it. Its parts
are the answer that is judged after a run, which is the last of the transcript
(`Judgement`), what a request is about, at every point from which one can be reached
(`Asked`: after `continue` there is something to answer, unless two failed answers follow
each other in the session), and `SessionHoldsTheTranscript` itself: a continuation that is
refused is a statement about the end of the transcript, and after a compaction that end is
known only through the file. `Rebuilt` and `Lasting` get lemmas of their own: what an
appended message, a dropped answer, a flushed shell output and an appended summary do to
them.

*`Quieted`* says where a session that is quiet can be: in an aborted run, past its end, or
in a run that has not polled for the input it was started for. A run that closes has its
answer at the end of the transcript; a backoff and the continuation behind it follow an
answer that failed and is the last of the session (`LastFailed`, kept by whatever may be
written meanwhile: `BehindIsLast`, `LastStaysFailed`); and where the next step may start a
run, there is queued input, no follow-up to take, or that answer. So a request of a quiet
session comes from a run that is not aborted, and delivers input or repeats what failed.
That repetition and one other case are the exceptions of
`AbortIsHeeded`. The other: an aborted run whose batch its tools terminated, with a steering
message queued late, is followed by a continuation for that message
(`agent-session.ts:1070`), and `clearQueue` (`:1521`) may take the message back before the
first poll; the request goes out without it (`agent-loop.ts:169`).

*`Queued`* says that input waits in lines: every queue, with what a run has drained from
it in front, is in the order in which its inputs were sent, and of one kind (`Lines`). So
the message that starts is the head of the line that is shown, if it is shown, and stands
in neither list if it is not, which is what makes the removal from the display
(`agent-session.ts:618-632`) take away the right one (`Mirrored`).

*`Told`* relates the ends of the transcript and of what the session file says without its
summaries (`Log`). The two differ in length after a compaction, and in answers that failed
after a retry, but an answer that failed ends the transcript only where it ends the log,
and one that is complete ends the log only where it ends the transcript (`Alike`): that is
what lets a request that the transcript justifies be justified by the log. It also says
that the results of a batch given so far stand behind their answer (`Given`), that no
shell output stands at the end of the log of an active session, that inputs in the log
were sent, that no summary follows another, and that an answer the log has is one for
which the file is written. The refinement maps an input that is sent, delivered, taken
back or lost, an answer, a result and shell output to the action of `Conversation` of that
kind, and every other step to a stutter: a drain moves input from a queue to the run and
leaves what waits alone (`DrainKeeps`), a run delivers the oldest input of its kind
because of `Lines` (`HeadIsOldest`), and a compaction says nothing (`SaidAppend`).

Sequences that are filtered are reasoned about by the set of places that are kept: a
recursive function of the places (`Only`) is characterised by the least element of the
set of numbers at which a statement fails, so that no induction theorem with an operator
parameter is needed (`SetInduction`, `SelectionValues`, `SelectionGrows`).

*Proved and not run.* `NoLeakedArguments`, `CancelledRunIsDriven`, `SessionIsLoadable`,
`WriterKnowsTheLog` and `ClosedJournalIsSilent` are parts of the invariants above that the
refinements or other properties rest on; they hold for every bound, and no run repeats
them.

*Model-checked only.* Liveness (`DriveReturns`, `CancelledRunCloses`, `CloseReleases`,
`RunReturns`, `SessionSettles`) is beyond the prover, and so is what the runs that expect a
violation show. Every invariant and every action property of a passing run is proved.

## 5. Not modelled

The models cover the protocols; most of the repository is not one. By lines, the map
covers a small share of the whole: the rest is user interfaces, providers, generated
model tables, exporters, adapters of external programs and the applications around them,
which keep no state that another actor or a crash could find half-changed, or whose state
belongs to a library or the operating system.

Inside the parts that are modelled:
- of the agent and its session, what section 2 lists;
- how the session file is written: the first flush writes entry by entry
  (`session-manager.ts:1005-1011`) and an append may be cut short (`:1047`, `:1058`); a load
  skips the torn line (`:509-516`) and the next append joins it. `Restart` keeps the file
  whole or has none, so `SessionHoldsTheTranscript` and `ImplementsConversation` speak of a
  file that was written completely;
- of the harness, the provider's `cancelDeferred` call that a terminal commit does not
  await (`minimal-run.ts:2030`), and the events a run emits (`run-driver.ts:252` keeps
  `turnStarted` across an abort from `retry_wait`);
- appends of the task journal that fail (`AdaptiveJournal` shows what they leave; in
  `AdaptiveTask` an append is made or the process is lost), and lines of it that a crash
  tore;
- faults that only throw: model drift, policy violations, projections;
- budgets of tokens and time, which differ from the budget of calls in what they count;
- a second level of branching;
- what directories contain, and the git adapter;
- the freeze barrier's check before its mutation (`branch-origin-barrier.ts:84`), within
  one call, and the freeze that a repeated call of a failed group leaves behind
  (`branch-continuation.ts:355`): the marker is modelled, its effect on other callers of
  the source lane is not;
- the capture of a checkpoint, the dispatch gate, and fingerprints;
- usage rows, events and telemetry of the harness;
- what changes no state: the list of sessions and the queries of a session.

`FileMutationQueue` (`file-mutation-queue.ts`), the SQLite backend, whose transactions
give `DurableLog` directly, the earlier harness, and the policy and controller beyond the
order of their decisions are left out as well; `PROJECT.json` gives the reason for each
component.

## 6. Plan

1. Branches and navigation in `AgentSession`: the leaf that moves while a run is active.
2. `FileMutationQueue`: registration and release per canonical path, keys that change
   while waiting.
3. The journal of the task with failing appends inside `AdaptiveTask`.
