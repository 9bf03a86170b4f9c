------------------------------- MODULE Agent -------------------------------
(***************************************************************************)
(* The in-process agent: a transcript, two queues of input, and at most    *)
(* one run of the agent loop.  A run works on its own copy of the          *)
(* transcript, takes input at fixed points, asks the provider, executes    *)
(* the tool calls of the answer and asks again.  Callers queue input and   *)
(* abort between any two of its steps.  AgentSession drives it.            *)
(*                                                                         *)
(* Definitions whose comment begins with "Mutant:" are not part of the     *)
(* model: each is the definition after it with one plausible bug.          *)
(***************************************************************************)
EXTENDS Integers, Sequences, SequencesExt

CONSTANTS
    MaxBatches,     \* answers with tool calls (bound)
    MaxFailures,    \* answers that failed or were cut off (bound)
    MaxCalls,       \* tool calls of an answer (bound)
    SteeringMode,   \* drain mode of the steering queue
    FollowUpMode,   \* drain mode of the follow-up queue
    Modes           \* how batches run: by toolExecution, and one by one if a tool of
                    \* the batch asks for it

QueueModes == {"all", "one-at-a-time"}

ASSUME AgentAssumption ==
    /\ {MaxBatches, MaxFailures, MaxCalls} \subseteq Nat
    /\ {SteeringMode, FollowUpMode} \subseteq QueueModes
    /\ Modes \subseteq {"parallel", "sequential"}

VARIABLES
    messages,   \* _state.messages
    steering,   \* steeringQueue
    followUp,   \* followUpQueue
    run,        \* activeRun, with where its loop is and what it holds
    spent,      \* answers with tool calls, and answers that failed, so far
    clock       \* counts answers and compactions: their timestamps

agent == <<messages, steering, followUp, run, spent, clock>>
queues == <<steering, followUp>>

\* A message, reduced to its role, a number, a kind and its time.  An input has its
\* number and how it was sent, an answer the number of its tool calls and how it
\* stopped, a result the index of its call.
Message(role, n, kind, time) == [role |-> role, n |-> n, kind |-> kind, time |-> time]
Answer(stop, calls) == Message("assistant", calls, stop, clock + 1)
Result(c) == Message("toolResult", c, "none", 0)
IsAnswer(m) == m.role = "assistant"

\* "error" and "overflow" are answers with stopReason "error"; the second says that the
\* context is too long.
Failures == {"error", "overflow"}
Incomplete == Failures \cup {"length"}
Stops == {"stop", "toolUse", "length", "aborted"} \cup Failures

\* The point at which a run waits: for listeners of its prompts ("prompts"), of input it
\* injects ("inject"), of turn_end ("steer"), of an answer that ends the run and of its
\* turn_end ("closing") or of agent_end ("end"), for a poll of the follow-ups, for the
\* provider ("request", or "refused" if the signal was aborted before), or within a batch,
\* which prepares calls, checks the signal after each, and waits for calls and for
\* listeners of their results ("results").
Places == {"idle", "prompts", "steer", "followUp", "inject", "request", "refused",
           "prepare", "check", "results", "closing", "end"}

\* What became of a prepared call: it is to be executed, has an outcome, or has one that
\* terminates the batch.
Outcomes == {"answered", "terminates"}

\* context is currentContext.messages, rest the messages still to be emitted, more is
\* hasMoreToolCalls, skip skipInitialSteeringPoll; mode, calls, prepared and given belong
\* to the batch: how it runs, its size, the calls prepared so far, the results emitted.
NoRun == [at |-> "idle", context |-> <<>>, rest |-> <<>>, more |-> FALSE, skip |-> FALSE,
          aborted |-> FALSE, mode |-> "none", calls |-> 0, prepared |-> <<>>, given |-> 0]

At(place) == run.at = place
Running == ~At("idle")

AgentInit ==
    /\ messages = <<>> /\ steering = <<>> /\ followUp = <<>>
    /\ run = NoRun /\ spent = [batches |-> 0, failures |-> 0] /\ clock = 0

-----------------------------------------------------------------------------
(***************************************************************************)
(* Queues                                                                  *)
(***************************************************************************)
\* PendingMessageQueue.drain: what is taken and what stays.
Taken(queue, mode) == IF mode = "all" \/ queue = <<>> THEN queue ELSE <<Head(queue)>>
Left(queue, mode) == IF mode = "all" \/ queue = <<>> THEN <<>> ELSE Tail(queue)

HasQueued == steering # <<>> \/ followUp # <<>>

\* steer and followUp.
Enqueue(m) ==
    /\ steering' = IF m.kind = "steer" THEN Append(steering, m) ELSE steering
    /\ followUp' = IF m.kind = "followUp" THEN Append(followUp, m) ELSE followUp

\* Mutant: the abort of an idle agent is remembered.
AbortAlways == run' = [run EXCEPT !.aborted = TRUE]

\* abort: without an active run there is no signal to abort.
AbortRun == run' = [run EXCEPT !.aborted = Running]

-----------------------------------------------------------------------------
(***************************************************************************)
(* Starting and ending a run                                               *)
(***************************************************************************)
\* runAgentLoop copies the transcript, with all prompts, before it emits the first.
Started(prompts, skip) ==
    [NoRun EXCEPT !.at = IF prompts = <<>> THEN "steer" ELSE "prompts",
                  !.context = messages \o prompts, !.rest = prompts,
                  !.more = TRUE, !.skip = skip]

StartPrompt(prompts) ==
    /\ ~Running
    /\ run' = Started(prompts, FALSE)
    /\ UNCHANGED <<messages, queues, spent, clock>>

EndsWithAnswer(s) == s # <<>> /\ IsAnswer(Last(s))

\* continue: behind an answer it needs queued input, and throws without.
CanContinue == messages # <<>> /\ (EndsWithAnswer(messages) => HasQueued)

Continue ==
    /\ ~Running /\ CanContinue
    /\ \/ /\ ~EndsWithAnswer(messages)
          /\ run' = Started(<<>>, FALSE)
          /\ UNCHANGED queues
       \/ /\ EndsWithAnswer(messages) /\ steering # <<>>
          /\ run' = Started(Taken(steering, SteeringMode), TRUE)
          /\ steering' = Left(steering, SteeringMode)
          /\ UNCHANGED followUp
       \/ /\ EndsWithAnswer(messages) /\ steering = <<>>
          /\ run' = Started(Taken(followUp, FollowUpMode), FALSE)
          /\ followUp' = Left(followUp, FollowUpMode)
          /\ UNCHANGED steering
    /\ UNCHANGED <<messages, spent, clock>>

\* The listeners of the answer that ends the run and of turn_end are done.
CloseRun ==
    /\ At("closing")
    /\ run' = [run EXCEPT !.at = "end"]
    /\ UNCHANGED <<messages, queues, spent, clock>>

\* The listeners of agent_end are done: finishRun.
EndRun ==
    /\ At("end")
    /\ run' = NoRun
    /\ UNCHANGED <<messages, queues, spent, clock>>

-----------------------------------------------------------------------------
(***************************************************************************)
(* The loop: input                                                         *)
(***************************************************************************)
\* message_end appends to the transcript, then listeners are awaited.
DeliverPrompt ==
    /\ At("prompts")
    /\ messages' = Append(messages, Head(run.rest))
    /\ run' = [run EXCEPT !.rest = Tail(@),
                          !.at = IF Len(run.rest) = 1 THEN "steer" ELSE @]
    /\ UNCHANGED <<queues, spent, clock>>

\* Mutant: an aborted signal does not keep a request back.
AskingAnyway == "request"

\* A request whose signal is aborted is not sent; the provider answers "aborted".
Asking == IF run.aborted THEN "refused" ELSE "request"

PollSteering ==
    /\ At("steer")
    /\ LET taken == IF run.skip THEN <<>> ELSE Taken(steering, SteeringMode)
       IN /\ steering' = IF run.skip THEN steering ELSE Left(steering, SteeringMode)
          /\ run' = [run EXCEPT !.skip = FALSE, !.rest = taken,
                                !.at = CASE taken # <<>> -> "inject"
                                         [] taken = <<>> /\ run.more -> Asking
                                         [] OTHER -> "followUp"]
    /\ UNCHANGED <<messages, followUp, spent, clock>>

PollFollowUp ==
    /\ At("followUp")
    /\ followUp' = Left(followUp, FollowUpMode)
    /\ run' = [run EXCEPT !.rest = Taken(followUp, FollowUpMode),
                          !.at = IF followUp = <<>> THEN "end" ELSE "inject"]
    /\ UNCHANGED <<messages, steering, spent, clock>>

Inject ==
    /\ At("inject")
    /\ messages' = Append(messages, Head(run.rest))
    /\ run' = [run EXCEPT !.context = Append(@, Head(run.rest)), !.rest = Tail(@),
                          !.at = IF Len(run.rest) = 1 THEN Asking ELSE @]
    /\ UNCHANGED <<queues, spent, clock>>

-----------------------------------------------------------------------------
(***************************************************************************)
(* The loop: answers and tool calls                                        *)
(***************************************************************************)
\* Where an answer leads.  The calls of a truncated one are failed, not executed.
After(stop, calls) ==
    CASE stop \in Failures \cup {"aborted"} -> "closing"
      [] stop \notin Failures \cup {"aborted"} /\ calls = 0 -> "steer"
      [] stop = "length" /\ calls > 0 -> "results"
      [] OTHER -> "prepare"

\* What a provider may answer.  It decides how an answer stopped when it is complete or
\* failed, and the loop takes it from a queue, later: what was decided before the signal
\* came is kept, and only what goes wrong after it is reported as "aborted".
Answers(stop, calls) ==
    /\ At("request") \/ At("refused")
    /\ At("refused") => stop = "aborted"
    /\ stop = "aborted" => run.aborted
    /\ stop = "toolUse" => calls > 0
    /\ calls > 0 => stop \in {"toolUse", "length"} /\ spent.batches < MaxBatches
    /\ stop \in Incomplete => spent.failures < MaxFailures

Respond(stop, calls) ==
    /\ Answers(stop, calls)
    /\ LET at == After(stop, calls)
       IN \E mode \in IF calls > 0 THEN Modes ELSE {"none"} :
          run' = [run EXCEPT !.context = Append(@, Answer(stop, calls)),
                             !.at = at, !.more = FALSE, !.mode = mode, !.calls = calls,
                             !.prepared = IF at = "results"
                                          THEN [c \in 1..calls |-> "answered"] ELSE <<>>]
    /\ messages' = Append(messages, Answer(stop, calls))
    /\ spent' = [batches |-> spent.batches + (IF calls > 0 THEN 1 ELSE 0),
                 failures |-> spent.failures + (IF stop \in Incomplete THEN 1 ELSE 0)]
    /\ clock' = clock + 1
    /\ UNCHANGED queues

Parallel == run.mode = "parallel"

\* prepareToolCall: under an aborted signal a call is answered, never executed; else it
\* may also be unknown, invalid or blocked.
Prepared == IF run.aborted THEN {"answered"} ELSE Outcomes \cup {"ready"}

PrepareCall ==
    /\ At("prepare")
    /\ \E outcome \in Prepared :
         run' = [run EXCEPT !.prepared = Append(@, outcome),
                            !.at = IF Parallel THEN "check" ELSE "results"]
    /\ UNCHANGED <<messages, queues, spent, clock>>

\* Mutant: a batch that stopped early is filled up in the context.
TurnedWhole(r) ==
    [r EXCEPT !.at = "steer",
              !.context = @ \o [c \in 1..r.calls |-> Result(c)],
              !.more = \E c \in 1..r.given : r.prepared[c] # "terminates",
              !.mode = "none", !.calls = 0, !.prepared = <<>>, !.given = 0]

\* The turn after the batch r.given: shouldTerminateToolBatch, and the results reach the
\* context of the run.
Turned(r) ==
    [r EXCEPT !.at = "steer",
              !.context = @ \o [c \in 1..r.given |-> Result(c)],
              !.more = \E c \in 1..r.given : r.prepared[c] # "terminates",
              !.mode = "none", !.calls = 0, !.prepared = <<>>, !.given = 0]

\* After a call the signal is looked at: an aborted batch takes no further call.
CheckSignal ==
    /\ At("check")
    /\ LET over == run.aborted \/ Len(run.prepared) = run.calls
       IN run' = CASE ~over -> [run EXCEPT !.at = "prepare"]
                   [] over /\ Parallel -> [run EXCEPT !.at = "results"]
                   [] OTHER -> Turned(run)
    /\ UNCHANGED <<messages, queues, spent, clock>>

\* A tool that runs comes back, in any order in a parallel batch.
FinishCall(c) ==
    /\ At("results") /\ c \in DOMAIN run.prepared /\ run.prepared[c] = "ready"
    /\ \E outcome \in Outcomes : run' = [run EXCEPT !.prepared[c] = outcome]
    /\ UNCHANGED <<messages, queues, spent, clock>>

\* Promise.all: no result is emitted while a call of the batch runs.
Done == \A c \in DOMAIN run.prepared : run.prepared[c] # "ready"

GiveResult ==
    /\ At("results") /\ Done
    /\ LET next == [run EXCEPT !.given = @ + 1]
       IN run' = CASE next.given < Len(run.prepared) -> next
                   [] next.given = Len(run.prepared) /\ Parallel -> Turned(next)
                   [] OTHER -> [next EXCEPT !.at = "check"]
    /\ messages' = Append(messages, Result(run.given + 1))
    /\ UNCHANGED <<queues, spent, clock>>

AgentStep ==
    \/ DeliverPrompt \/ PollSteering \/ PollFollowUp \/ Inject
    \/ \E stop \in Stops, calls \in 0..MaxCalls : Respond(stop, calls)
    \/ PrepareCall \/ CheckSignal \/ GiveResult \/ CloseRun
    \/ \E c \in 1..MaxCalls : FinishCall(c)

=============================================================================
