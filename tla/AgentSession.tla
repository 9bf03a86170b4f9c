---------------------------- MODULE AgentSession ----------------------------
(***************************************************************************)
(* The session of the application around an in-process agent.  It listens  *)
(* to the agent's messages, keeps the transcript in a session file, shows  *)
(* what is queued, and after each run decides whether to retry, to compact *)
(* the context, to go on with queued input, or to settle.  Prompts, input, *)
(* shell commands and aborts arrive between any two of its steps, and the  *)
(* process may be lost.                                                    *)
(*                                                                         *)
(* Clients do not call prompt or compact while a prompt is between its     *)
(* call and the start of its run, nor while a compaction runs: prompt      *)
(* refuses during a manual one, and the application checks isCompacting.   *)
(***************************************************************************)
EXTENDS Agent, FiniteSets

CONSTANTS
    MaxInputs,      \* inputs of the user (bound)
    MaxRetries,     \* retry.maxRetries
    MaxBreaks,      \* aborts, shell commands, calls of clearQueue, lost processes (bound)
    MaxCompactions, \* summaries in a session (bound)
    MaxKept         \* entries a compaction keeps (bound)

ASSUME SessionAssumption ==
    {MaxInputs, MaxRetries, MaxBreaks, MaxCompactions, MaxKept} \subseteq Nat

VARIABLES
    active,         \* _isAgentRunActive
    at,             \* where prompt, compact and _runAgentPrompt are
    next,           \* the message a prompt in preflight will send
    mirror,         \* _steeringMessages and _followUpMessages
    last,           \* _lastAssistantMessage, and the message judged after the run
    attempt,        \* _retryAttempt
    recovered,      \* _overflowRecoveryAttempted
    job,            \* the compaction in progress
    pending,        \* length of _pendingBashMessages
    entries,        \* the current branch of the session
    used,           \* inputs and breaks so far
    quiet,          \* an abort met a run and nothing was sent since (history)
    stranded        \* agent.continue() threw (history)

session == <<active, at, next, mirror, last, attempt, recovered, job, pending, entries>>
vars == <<agent, session, used, quiet, stranded>>

Inputs == 1..MaxInputs
Kinds == {"prompt", "steer", "followUp"}
User(i, kind) == Message("user", i, kind, 0)
Shell == Message("shell", 0, "none", 0)
Summary(cut) == Message("summary", cut, "none", clock + 1)
None == Message("none", 0, "none", 0)
NoJob == [after |-> "none", retry |-> FALSE, cut |-> 0]

\* "post" is the start of _handlePostAgentRun, "backoff" its sleep before a retry,
\* "cancelled" the point behind an aborted sleep, "decide" that behind a compaction,
\* "continue" a continuation that is due.
Points == {"idle", "preflight", "launch", "running", "post", "backoff", "cancelled",
           "compacting", "decide", "continue"}

Unused == [inputs |-> 0, breaks |-> 0]

Init ==
    /\ AgentInit
    /\ active = FALSE /\ at = "idle" /\ next = None
    /\ mirror = [steer |-> <<>>, followUp |-> <<>>]
    /\ last = None /\ attempt = 0 /\ recovered = FALSE
    /\ job = NoJob /\ pending = 0 /\ entries = <<>>
    /\ used = Unused /\ quiet = FALSE /\ stranded = FALSE

-----------------------------------------------------------------------------
(***************************************************************************)
(* The session file                                                        *)
(***************************************************************************)
Compactions(s) == {k \in DOMAIN s : s[k].role = "summary"}
Latest(s) == CHOOSE k \in Compactions(s) : \A o \in Compactions(s) : o <= k

\* buildContextEntries: the latest summary, what it kept, and what came after it.  A
\* summary stands in the branch with the index of its first kept entry.
Rebuilt(s) ==
    IF Compactions(s) = {} THEN s
    ELSE LET k == Latest(s)
         IN <<s[k]>> \o SubSeq(s, s[k].n, k - 1) \o SubSeq(s, k + 1, Len(s))

\* prepareCompaction and findCutPoint: the first kept entry is never a result, and there
\* is something before it that the last summary did not cover.
Cuts(s) ==
    IF s = <<>> \/ Last(s).role = "summary" \/ Cardinality(Compactions(s)) >= MaxCompactions
    THEN {}
    ELSE LET start == IF Compactions(s) = {} THEN 1 ELSE s[Latest(s)].n
         IN {k \in (start + 1)..Len(s) : /\ k + MaxKept > Len(s)
                                          /\ s[k].role \notin {"summary", "toolResult"}}

DropAnswer(s) == IF EndsWithAnswer(s) THEN SubSeq(s, 1, Len(s) - 1) ELSE s

\* Mutant: the failed answer that a compaction brings back stays.
RestoredWhole(s, retry) == Rebuilt(s)

\* The context after a compaction: one that is to be retried must not end with the
\* failed answer, which the session still has.
Restored(s, retry) ==
    IF retry /\ Rebuilt(s) # <<>> /\ Last(Rebuilt(s)).kind \in Incomplete
    THEN DropAnswer(Rebuilt(s)) ELSE Rebuilt(s)

-----------------------------------------------------------------------------
(***************************************************************************)
(* Listening to the agent                                                  *)
(***************************************************************************)
\* Mutant: only steering is looked for.
ShownSteering(m) == [mirror EXCEPT !.steer = RemoveFirst(@, m)]

\* A message that starts is no longer shown as queued: steering is searched first.
Shown(m) ==
    IF m \in ToSet(mirror.steer) THEN [mirror EXCEPT !.steer = RemoveFirst(@, m)]
    ELSE [mirror EXCEPT !.followUp = RemoveFirst(@, m)]

\* Mutant: results are not persisted.
PersistedInput(m) == IF m.role = "toolResult" THEN entries ELSE Append(entries, m)

Persisted(m) == Append(entries, m)

Heard(m) ==
    /\ entries' = Persisted(m)
    /\ mirror' = Shown(m)
    /\ last' = IF IsAnswer(m) THEN m ELSE last
    /\ recovered' = (recovered /\ (IsAnswer(m) => m.kind \in Incomplete)
                               /\ m.role # "user")
    /\ attempt' = IF IsAnswer(m) /\ m.kind \notin Failures THEN 0 ELSE attempt

\* _handleAgentEvent.
Listen ==
    IF messages' = messages
    THEN UNCHANGED <<entries, mirror, last, recovered, attempt>>
    ELSE Heard(Last(messages'))

\* A run that no abort has met delivers input.
Delivers == messages' # messages /\ Last(messages').role = "user" /\ ~run.aborted

\* A request goes out.
Asks == run'.at = "request" /\ run.at # "request"

\* Either ends the quiet.
Quiet == quiet' = (quiet /\ ~Delivers /\ ~Asks)

RunStep ==
    /\ at = "running" /\ AgentStep /\ Listen /\ Quiet
    /\ UNCHANGED <<active, at, next, job, pending, used, stranded>>

RunEnds ==
    /\ at = "running" /\ EndRun
    /\ at' = "post"
    /\ UNCHANGED <<active, next, mirror, last, attempt, recovered, job, pending, entries,
                   used, quiet, stranded>>

-----------------------------------------------------------------------------
(***************************************************************************)
(* Prompting                                                               *)
(***************************************************************************)
\* Input while a run is active is queued; steer and followUp queue it at any time.
Queue(kind) ==
    /\ used.inputs < MaxInputs
    /\ LET m == User(used.inputs + 1, kind)
       IN Enqueue(m) /\ mirror' = [mirror EXCEPT ![kind] = Append(@, m)]
    /\ used' = [used EXCEPT !.inputs = @ + 1]
    /\ quiet' = FALSE
    /\ UNCHANGED <<messages, run, spent, clock, active, at, next, last, attempt,
                   recovered, job, pending, entries, stranded>>

\* prompt: the preflight looks whether to compact.  The flush before it finds nothing:
\* shell output is pending only while a run is active (TypeOK).
Prompt ==
    /\ used.inputs < MaxInputs
    /\ ~active /\ at = "idle"
    /\ at' = "preflight" /\ next' = User(used.inputs + 1, "prompt")
    /\ used' = [used EXCEPT !.inputs = @ + 1]
    /\ UNCHANGED <<agent, active, mirror, last, attempt, recovered, job, pending, entries,
                   quiet, stranded>>

\* clearQueue returns what is shown; input that a run has drained and not yet emitted is
\* returned and still delivered.  A continuation that was started for what is taken back
\* asks without it.
ClearQueue ==
    /\ used.breaks < MaxBreaks
    /\ mirror' = [steer |-> <<>>, followUp |-> <<>>]
    /\ steering' = <<>> /\ followUp' = <<>>
    /\ used' = [used EXCEPT !.breaks = @ + 1]
    /\ quiet' = (quiet /\ (Running => run.aborted))
    /\ UNCHANGED <<messages, run, spent, clock, active, at, next, last, attempt,
                   recovered, job, pending, entries, stranded>>

\* Mutant: shell output is recorded at once.
NeverDeferred == FALSE

\* Shell output waits while a run is active, to stay out of batches.
Deferred == active

RecordShell ==
    /\ used.breaks < MaxBreaks
    /\ used' = [used EXCEPT !.breaks = @ + 1]
    /\ IF Deferred
       THEN pending' = pending + 1 /\ UNCHANGED <<messages, entries>>
       ELSE /\ messages' = Append(messages, Shell) /\ entries' = Append(entries, Shell)
            /\ UNCHANGED pending
    /\ UNCHANGED <<queues, run, spent, clock, active, at, next, mirror, last, attempt,
                   recovered, job, quiet, stranded>>

-----------------------------------------------------------------------------
(***************************************************************************)
(* After a run                                                             *)
(***************************************************************************)

\* _prepareRetry: the failed answer leaves the context and stays in the session.
PrepareRetry ==
    /\ at = "post" /\ last.kind = "error" /\ attempt < MaxRetries
    /\ attempt' = attempt + 1
    /\ messages' = DropAnswer(messages)
    /\ at' = "backoff"
    /\ UNCHANGED <<queues, run, spent, clock, active, next, mirror, last, recovered, job,
                   pending, entries, used, quiet, stranded>>

\* A run that did not fail, whose retries are exhausted, or whose error is not a transient
\* one, is not retried.
AfterRetry == IF at = "post" /\ last.kind \in Failures THEN 0 ELSE attempt

\* The answer _checkCompaction looks at: the last of the run, or before a prompt the last
\* one in the context, aborted ones included.
Judged ==
    IF at # "preflight" THEN last
    ELSE LET answers == {k \in DOMAIN messages : IsAnswer(messages[k])}
         IN IF answers = {} THEN None
            ELSE messages[CHOOSE k \in answers : \A o \in answers : o <= k]

\* It is newer than the last compaction.
Newer == \A k \in Compactions(entries) : entries[k].time < Judged.time

Checked == /\ at \in {"post", "cancelled", "preflight"}
           /\ IsAnswer(Judged) /\ Newer
           /\ at # "preflight" => Judged.kind # "aborted"

\* Context overflow, or an answer cut off below its output limit, is compacted and asked
\* again once.
Recoverable == Checked /\ Judged.kind \in Incomplete \ {"error"} /\ ~recovered

\* Nothing to do: the context is small, or the answer was aborted, is old, was cut off at
\* its output limit, or its recovery was tried before.
NoCompaction == /\ at \in {"post", "cancelled", "preflight"}
                /\ ~(Recoverable /\ Judged.kind = "overflow")

Onward == IF at = "preflight" THEN "launch" ELSE "decide"

Compacting(retry) ==
    /\ at' = "compacting"
    /\ \E cut \in Cuts(entries) : job' = [after |-> Onward, retry |-> retry, cut |-> cut]

\* _checkCompaction, first case.  There may be nothing to compact, or no way to.
Recover ==
    /\ Recoverable
    /\ recovered' = TRUE
    /\ messages' = DropAnswer(messages)
    /\ attempt' = AfterRetry
    /\ \/ Compacting(TRUE)
       \/ at' = Onward /\ UNCHANGED job
    /\ UNCHANGED <<queues, run, spent, clock, active, next, mirror, last, pending, entries,
                   used, quiet, stranded>>

\* The context is over the threshold, or overflowed under an answer that is complete.
CompactThreshold ==
    /\ Checked /\ Judged.kind # "overflow"
    /\ Compacting(FALSE)
    /\ attempt' = AfterRetry
    /\ UNCHANGED <<agent, active, next, mirror, last, recovered, pending, entries, used,
                   quiet, stranded>>

\* _runAgentPrompt, when the preflight found nothing to compact or has compacted.
Launch ==
    /\ at = "launch" \/ (at = "preflight" /\ NoCompaction)
    /\ StartPrompt(<<next>>)
    /\ active' = TRUE /\ at' = "running" /\ next' = None
    /\ UNCHANGED <<mirror, last, attempt, recovered, job, pending, entries, used, quiet,
                   stranded>>

\* compact(): what it aborts first has settled.
CompactManually ==
    /\ at = "idle"
    /\ at' = "compacting"
    /\ \E cut \in Cuts(entries) : job' = [after |-> "idle", retry |-> FALSE, cut |-> cut]
    /\ UNCHANGED <<agent, active, next, mirror, last, attempt, recovered, pending, entries,
                   used, quiet, stranded>>

CompactionDone ==
    /\ at = "compacting"
    /\ entries' = Append(entries, Summary(job.cut))
    /\ messages' = Restored(entries', job.retry)
    /\ clock' = clock + 1
    /\ at' = IF job.retry /\ job.after = "decide" THEN "continue" ELSE job.after
    /\ job' = NoJob
    /\ UNCHANGED <<queues, run, spent, active, next, mirror, last, attempt, recovered,
                   pending, used, quiet, stranded>>

\* The summary failed, an extension cancelled it, or abortCompaction was called.
CompactionFails ==
    /\ at = "compacting"
    /\ at' = job.after /\ job' = NoJob
    /\ UNCHANGED <<agent, active, next, mirror, last, attempt, recovered, pending, entries,
                   used, quiet, stranded>>

\* Mutant: nothing goes on behind a compaction.
OverUncompacted == at \in {"post", "cancelled"} /\ NoCompaction

\* The run and its compaction check are over.
Over == at = "decide" \/ (at \in {"post", "cancelled"} /\ NoCompaction)

\* The backoff is over, a recovered request is asked again, or input is waiting.
Due == at \in {"backoff", "continue"} \/ (Over /\ HasQueued)

Resume ==
    /\ Due /\ Continue
    /\ at' = "running" /\ last' = None /\ attempt' = AfterRetry
    /\ UNCHANGED <<active, next, mirror, recovered, job, pending, entries, used, quiet,
                   stranded>>

\* agent.continue() throws, and prompt() rejects.
Throws == Due /\ ~CanContinue

\* The finally of _runAgentPrompt: _flushPendingBashMessages and _emitAgentSettled.
Settle ==
    /\ Throws \/ (Over /\ ~HasQueued)
    /\ LET output == [k \in 1..pending |-> Shell]
       IN messages' = messages \o output /\ entries' = entries \o output
    /\ pending' = 0 /\ active' = FALSE /\ at' = "idle"
    /\ last' = None /\ attempt' = AfterRetry /\ stranded' = (stranded \/ Throws)
    /\ UNCHANGED <<queues, run, spent, clock, next, mirror, recovered, job, used, quiet>>

-----------------------------------------------------------------------------
(***************************************************************************)
(* Aborts and restarts                                                     *)
(***************************************************************************)
\* abort: the sleep before a retry ends, and the signal of a run is aborted.
Abort ==
    /\ used.breaks < MaxBreaks
    /\ used' = [used EXCEPT !.breaks = @ + 1]
    /\ AbortRun
    /\ at' = IF at = "backoff" THEN "cancelled" ELSE at
    /\ attempt' = IF at = "backoff" THEN 0 ELSE attempt
    /\ quiet' = (quiet \/ (Running /\ ~At("end")) \/ (at = "backoff" /\ ~HasQueued))
    /\ UNCHANGED <<messages, queues, spent, clock, active, next, mirror, last, recovered,
                   job, pending, entries, stranded>>

\* The file of a session is written when it has an answer.
Kept == IF \E k \in DOMAIN entries : IsAnswer(entries[k]) THEN entries ELSE <<>>

\* The process is lost and the session opened again.
Restart ==
    /\ used.breaks < MaxBreaks
    /\ used' = [used EXCEPT !.breaks = @ + 1]
    /\ entries' = Kept /\ messages' = Rebuilt(Kept)
    /\ steering' = <<>> /\ followUp' = <<>> /\ run' = NoRun
    /\ active' = FALSE /\ at' = "idle" /\ next' = None
    /\ mirror' = [steer |-> <<>>, followUp |-> <<>>]
    /\ last' = None /\ attempt' = 0 /\ recovered' = FALSE /\ job' = NoJob /\ pending' = 0
    /\ quiet' = FALSE
    /\ UNCHANGED <<spent, clock, stranded>>

-----------------------------------------------------------------------------
SessionStep ==
    \/ RunStep \/ RunEnds \/ Launch \/ PrepareRetry
    \/ Recover \/ CompactThreshold \/ CompactionDone \/ CompactionFails
    \/ Resume \/ Settle

ClientStep ==
    \/ \E kind \in {"steer", "followUp"} : Queue(kind)
    \/ Prompt \/ ClearQueue \/ RecordShell \/ CompactManually \/ Abort

Next == SessionStep \/ ClientStep \/ Restart

\* The event loop runs what is due, a provider answers, tools and compactions end.
Spec == Init /\ [][Next]_vars /\ WF_vars(SessionStep)

-----------------------------------------------------------------------------
(***************************************************************************)
(* Properties                                                              *)
(***************************************************************************)
Messages == [role : {"user", "assistant", "toolResult", "shell", "summary", "none"},
             n : Nat, kind : Kinds \cup Stops \cup {"none"}, time : Nat]

\* Types, and when a session counts as active: isStreaming covers the run and everything
\* that follows it, but not the preflight of a prompt or a compaction that is not part of
\* what follows a run.  Without a run nothing of the last one is left.
TypeOK ==
    /\ messages \in Seq(Messages) /\ entries \in Seq(Messages)
    /\ steering \in Seq(Messages) /\ followUp \in Seq(Messages)
    /\ mirror \in [steer : Seq(Messages), followUp : Seq(Messages)]
    /\ run.at \in Places /\ (~Running => run = NoRun) /\ (Running <=> at = "running")
    /\ next \in Messages /\ last \in Messages /\ attempt \in 0..MaxRetries
    /\ pending \in Nat /\ (pending > 0 => active)
    /\ {active, recovered, quiet, stranded} \subseteq BOOLEAN /\ at \in Points
    /\ active <=> at \notin {"idle", "preflight", "launch"}
                  /\ (at = "compacting" => job.after = "decide")

\* What the user is shown as queued (agent-session.ts:614-634) is what the agent has
\* queued, and what a run has drained from one queue and not emitted yet, or, if
\* clearQueue came in between, without that: no interleaving of input, drains,
\* deliveries and clears leaves an item in one of the two only.
QueuesAreMirrored ==
    \/ mirror = [steer |-> steering, followUp |-> followUp]
    \/ mirror = [steer |-> run.rest \o steering, followUp |-> followUp]
    \/ mirror = [steer |-> steering, followUp |-> run.rest \o followUp]

\* A request carries the transcript: the copy of a run (agent-loop.ts:107, 193, 229) and
\* the agent's own (agent.ts:556) agree whenever the provider is asked, whatever was
\* injected, aborted, compacted or run in the shell in between.
ContextIsTranscript == At("request") \/ At("refused") => run.context = messages

\* SelectSeq, written as a recursive function, which proofs can look into.
Only(s, Keep(_)) ==
    LET taken[k \in 0..Len(s)] == IF k = 0 THEN <<>>
                                  ELSE IF Keep(s[k]) THEN Append(taken[k - 1], s[k])
                                  ELSE taken[k - 1]
    IN taken[Len(s)]

\* What a reader of the session file would rebuild is what the agent holds, but for
\* answers that failed or were cut off, which retry and recovery take out of the context
\* only (agent-session.ts:2716-2720, 2017-2023).
Failed(m) == IsAnswer(m) /\ m.kind \in Incomplete
Lasting(s) == Only(s, LAMBDA m : ~Failed(m))
SessionHoldsTheTranscript == Lasting(messages) = Lasting(Rebuilt(entries))

\* The continuation the session starts after a run is never refused by the agent
\* (agent-session.ts:1071, agent.ts:368), with one exception: when two failed answers
\* follow each other in the session, the compaction that recovers from the second brings
\* the first back as well, and only one is removed (:2190-2200).
ContinuationsStart ==
    stranded => \E k \in 2..Len(entries) : Failed(entries[k - 1]) /\ Failed(entries[k])

\* The last answer of the session failed or was cut off.
LastFailed == \E k \in DOMAIN entries :
    Failed(entries[k]) /\ \A o \in (k + 1)..Len(entries) : ~IsAnswer(entries[o])

\* Once abort (agent-session.ts:1553) met a run before its agent_end, or a backoff with
\* nothing queued, no request goes out until there is input, sent later or queued before,
\* that a run without the abort delivers.  There are two exceptions.  An answer that
\* failed or was cut off is asked for again, by a run of its own: neither the retry
\* (:2692) nor the recovery (:1967) asks whether the run before was aborted.  And a
\* continuation whose input clearQueue takes back before it is polled asks without it.
AbortIsHeeded == [][quiet /\ Asks => ~run.aborted /\ (Delivers \/ LastFailed)]_vars

\* The entries of the session, summaries left aside, and the inputs on their way to it
\* implement Conversation.
Plain(m) == [role |-> m.role, n |-> m.n, kind |-> m.kind]
Said(s) == Only([k \in DOMAIN s |-> Plain(s[k])], LAMBDA m : m.role # "summary")
Undelivered ==
    {m \in {next} \cup ToSet(run.rest) \cup ToSet(steering) \cup ToSet(followUp) : m # None}
C == INSTANCE Conversation WITH
        log <- Said(entries),
        waiting <- {Plain(m) : m \in Undelivered},
        Calls <- 0..MaxCalls
ImplementsConversation == C!Spec

\* A session that became active settles, through whatever retries, recoveries and
\* continuations, and input that is queued while it is active does not stay queued.
SessionSettles ==
    /\ active ~> ~active
    /\ HasQueued /\ active ~> ~HasQueued

=============================================================================
