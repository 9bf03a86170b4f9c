---------------------------- MODULE Conversation ----------------------------
(***************************************************************************)
(* What a user may rely on in the transcript of a session, whatever runs,  *)
(* retries, compactions and restarts are behind it: it only grows, every   *)
(* input that was sent and not taken back stands in it once and in order,  *)
(* the provider is asked only when there is something to answer, and the   *)
(* results of an answer follow it at once and in the order of its calls.   *)
(***************************************************************************)
EXTENDS Integers, Sequences, SequencesExt

CONSTANTS Inputs,   \* numbers of inputs, in the order in which they are sent
          Kinds,    \* how an input is sent
          Stops,    \* how an answer stops
          Calls     \* numbers of tool calls of an answer

VARIABLES
    log,        \* the messages of the transcript
    waiting     \* the inputs that were sent and are not in it

Message(role, n, kind) == [role |-> role, n |-> n, kind |-> kind]

vars == <<log, waiting>>

Init == log = <<>> /\ waiting = {}

Delivered == {log[j] : j \in {k \in DOMAIN log : log[k].role = "user"}}

\* Inputs are sent one after another.
Send(m) ==
    /\ \A o \in waiting \cup Delivered : o.n < m.n
    /\ waiting' = waiting \cup {m}
    /\ UNCHANGED log

\* Inputs that wait may be taken back, or go with the process.
Withdraw(taken) ==
    /\ waiting' = waiting \ taken
    /\ UNCHANGED log

\* The oldest input of its kind enters the transcript.
Deliver(m) ==
    /\ \A o \in waiting : o.kind = m.kind => o.n >= m.n
    /\ log' = Append(log, m)
    /\ waiting' = waiting \ {m}

\* An answer is due after input, after results, and again after one that failed or was
\* cut off.
Due == /\ log # <<>>
       /\ \/ Last(log).role \in {"user", "toolResult"}
          \/ Last(log).role = "assistant" /\ Last(log).kind \in {"error", "overflow", "length"}

Respond(stop, calls) ==
    /\ Due
    /\ log' = Append(log, Message("assistant", calls, stop))
    /\ UNCHANGED waiting

\* The result of call c follows those of the calls before it, and they their answer.
Return(c) ==
    /\ c <= Len(log)
    /\ LET asked == Len(log) - c + 1
       IN /\ log[asked].role = "assistant" /\ log[asked].n >= c
          /\ \A k \in 1..(c - 1) : log[asked + k] = Message("toolResult", k, "none")
    /\ log' = Append(log, Message("toolResult", c, "none"))
    /\ UNCHANGED waiting

\* What a user ran in the shell is recorded, at once or together with what came before
\* it; bounded by what the next transcript holds.
Note ==
    /\ Len(log) < Len(log')
    /\ log' = log \o [k \in 1..(Len(log') - Len(log)) |-> Message("shell", 0, "none")]
    /\ UNCHANGED waiting

\* A process that is lost before the first answer takes the transcript with it.
Vanish ==
    /\ \A k \in DOMAIN log : log[k].role # "assistant"
    /\ log' = <<>> /\ waiting' = {}

Next ==
    \/ \E i \in Inputs, kind \in Kinds : Send(Message("user", i, kind))
    \/ \E taken \in SUBSET waiting : Withdraw(taken)
    \/ \E m \in waiting : Deliver(m)
    \/ \E stop \in Stops, calls \in Calls : Respond(stop, calls)
    \/ \E c \in Calls \ {0} : Return(c)
    \/ Note
    \/ Vanish

Spec == Init /\ [][Next]_vars

=============================================================================
