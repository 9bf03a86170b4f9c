---------------------------- MODULE AdaptiveHost ----------------------------
(***************************************************************************)
(* A program around the adaptive runtime, as it is model-checked.  It runs *)
(* one task (AdaptiveTask); or it calls promote and recover of the         *)
(* workspace manager itself, for any candidate and in any order; or it     *)
(* calls forkExact itself, again after any failure.  A task promotes one   *)
(* candidate at most and gives a group up that was interrupted, so what    *)
(* two attempts, or two calls for one group, leave each other is only met  *)
(* in the last two.                                                        *)
(***************************************************************************)
EXTENDS AdaptiveTask

CONSTANT DirectCandidates   \* those a host promotes itself (bound)

ASSUME HostAssumption == DirectCandidates \subseteq Candidates

VARIABLE mode

hostVars == <<vars, mode>>

HostInit == Init /\ mode \in {"task", "manager", "continuation"}

CallManager == \E c \in DirectCandidates : Promote(c) \/ Recover(c)

DirectPromotion ==
    /\ mode = "manager"
    /\ CallManager \/ PromotionStep \/ TakeResult \/ UserEdit \/ (Crash /\ CallLost)
    /\ UNCHANGED <<graph, process, lane, root, continuation, mode>>

DirectFork ==
    /\ mode = "continuation"
    /\ ForkExact \/ ForkStep \/ TakeFork \/ (Crash /\ ForkLost)
    /\ UNCHANGED <<graph, process, lane, root, promotion, mode>>

TaskStep == mode = "task" /\ Step /\ UNCHANGED mode

HostNext ==
    \/ TaskStep \/ DirectPromotion \/ DirectFork
    \/ mode = "task" /\ (Reopen \/ RunAgain \/ CrashTask \/ EditForeground) /\ UNCHANGED mode

\* What run() awaits comes back; nothing is assumed of crashes, edits, the host's
\* calls and reopening.
HostSpec == HostInit /\ [][HostNext]_hostVars /\ WF_hostVars(TaskStep)
=============================================================================
