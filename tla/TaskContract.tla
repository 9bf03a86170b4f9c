---------------------------- MODULE TaskContract ----------------------------
(***************************************************************************)
(* What the caller of an adaptive task is promised about the foreground:   *)
(* one candidate at a time is attempted, none twice, an attempt is given up*)
(* only when the foreground is clean again, and the one outcome says how   *)
(* the foreground was left.                                                *)
(***************************************************************************)
CONSTANTS Candidates, None

VARIABLES
    outcome,     \* the task's outcome
    attempt,     \* the candidate that is being promoted
    abandoned,   \* candidates that will not be promoted any more
    foreground   \* "clean", "open" (an attempt has started to write) or "promoted"

Init == outcome = None /\ attempt = None /\ abandoned = {} /\ foreground = "clean"

Attempt(c) ==
    /\ attempt = None /\ c \notin abandoned /\ foreground = "clean"
    /\ attempt' = c
    /\ UNCHANGED <<outcome, abandoned, foreground>>

Write ==
    /\ attempt # None /\ foreground = "clean" /\ foreground' = "open"
    /\ UNCHANGED <<outcome, attempt, abandoned>>

\* Rolled back, discarded, or applied to the end.
Leave(state) ==
    /\ foreground = "open" /\ foreground' = state
    /\ UNCHANGED <<outcome, attempt, abandoned>>

Abandon(c) ==
    /\ c \notin abandoned /\ (attempt = c => foreground = "clean")
    /\ abandoned' = abandoned \cup {c}
    /\ attempt' = IF attempt = c THEN None ELSE attempt
    /\ UNCHANGED <<outcome, foreground>>

Consistent(result) ==
    CASE result = "promoted"           -> foreground = "promoted"
      [] result = "needs_attention"    -> attempt # None /\ foreground = "open"
      [] result = "foreground_changed" -> attempt # None /\ foreground = "clean"
      [] OTHER                         -> attempt = None /\ foreground = "clean"

Settle(result) ==
    /\ Consistent(result) /\ outcome' = result
    /\ UNCHANGED <<attempt, abandoned, foreground>>

Next ==
    /\ outcome = None
    /\ \/ \E c \in Candidates : Attempt(c) \/ Abandon(c)
       \/ Write \/ Leave("clean") \/ Leave("promoted")
       \/ \E result \in {"promoted", "needs_attention", "foreground_changed",
                         "no_verified_candidate", "budget_exhausted", "suspended"} :
            Settle(result)

Spec == Init /\ [][Next]_<<outcome, attempt, abandoned, foreground>>
=============================================================================
