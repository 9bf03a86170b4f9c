---------------------------- MODULE RunContract ----------------------------
(***************************************************************************)
(* What a lane promises its callers, without drivers, snapshots, effects   *)
(* or crashes: runs are opened one at a time and closed exactly once, the  *)
(* outcome tells whether the run was cancelled, and every accepted item    *)
(* meets exactly one fate.                                                 *)
(***************************************************************************)
EXTENDS Integers

CONSTANTS Ids, Outcomes

VARIABLES
    phase,     \* "idle", "running" or "cancelling"
    run,       \* number of the last run opened
    outcome,   \* outcome of the last run closed
    fate       \* "none", "queued", "delivered", "withdrawn" or "discarded"

cvars == <<phase, run, outcome, fate>>

With(fate0, S) == [i \in Ids |-> IF i \in S THEN fate0 ELSE fate[i]]
Waiting == {i \in Ids : fate[i] = "queued"}

CInit ==
    /\ phase = "idle" /\ run = 0 /\ outcome = "none"
    /\ fate = [i \in Ids |-> "none"]

\* Opening a run delivers some of the waiting items as its prompt.
Open(S) ==
    /\ phase = "idle" /\ S \subseteq Waiting
    /\ phase' = "running" /\ run' = run + 1
    /\ fate' = With("delivered", S)
    /\ UNCHANGED outcome

Submit(i) ==
    /\ fate[i] = "none"
    /\ \/ fate' = With("queued", {i})
       \/ phase = "idle" /\ fate' = With("delivered", {i})
    /\ UNCHANGED <<phase, run, outcome>>

Deliver(S) ==
    /\ phase # "idle" /\ S # {} /\ S \subseteq Waiting
    /\ fate' = With("delivered", S)
    /\ UNCHANGED <<phase, run, outcome>>

TakeBack(i) ==
    /\ i \in Waiting
    /\ fate' = With("withdrawn", {i})
    /\ UNCHANGED <<phase, run, outcome>>

Cancel ==
    /\ phase = "running" /\ phase' = "cancelling"
    /\ UNCHANGED <<run, outcome, fate>>

\* Only a cancelled run ends aborted, and it ends no other way; a run that
\* failed discards nothing.
Close(o, S) ==
    /\ phase # "idle" /\ S \subseteq Waiting
    /\ (o = "aborted") = (phase = "cancelling")
    /\ o = "failed" => S = {}
    /\ phase' = "idle" /\ outcome' = o
    /\ fate' = With("discarded", S)
    /\ UNCHANGED run

CNext ==
    \/ \E S \in SUBSET Ids : Open(S) \/ Deliver(S) \/ \E o \in Outcomes : Close(o, S)
    \/ \E i \in Ids : Submit(i) \/ TakeBack(i)
    \/ Cancel

CSpec == CInit /\ [][CNext]_cvars
=============================================================================
