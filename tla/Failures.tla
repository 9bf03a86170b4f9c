------------------------------ MODULE Failures ------------------------------
(***************************************************************************)
(* What goes wrong under the adaptive runtime, counted so that instances   *)
(* stay finite: an operation of the file system fails, the process is lost.*)
(***************************************************************************)
EXTENDS Naturals

CONSTANTS
    MaxFaults,   \* operations that fail (bound)
    MaxCrashes   \* processes lost (bound)

ASSUME FailuresAssumption == MaxFaults \in Nat /\ MaxCrashes \in Nat

VARIABLES faults, crashes

failures == <<faults, crashes>>

FailuresTypeOK == faults \in 0..MaxFaults /\ crashes \in 0..MaxCrashes
FailuresInit == faults = 0 /\ crashes = 0

Fault == faults < MaxFaults /\ faults' = faults + 1 /\ UNCHANGED crashes
Crash == crashes < MaxCrashes /\ crashes' = crashes + 1 /\ UNCHANGED faults
=============================================================================
