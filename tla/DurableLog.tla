----------------------------- MODULE DurableLog -----------------------------
(***************************************************************************)
(* What a durable session log promises.  A session is created with a log   *)
(* that is complete at once, is taken and given back by one writer at a    *)
(* time, and is removed while nobody has it.  In between the log only      *)
(* grows, at its end and under its writer.  A transaction may be           *)
(* acknowledged when it enters the log and at no other time; one that      *)
(* enters unacknowledged is in doubt for its caller and final for          *)
(* everybody else.                                                         *)
(***************************************************************************)
EXTENDS Naturals, Sequences

CONSTANT Txs
VARIABLES exists, held, log, acked

dvars == <<exists, held, log, acked>>

DInit == exists \in BOOLEAN /\ ~held /\ log = << >> /\ acked = << >>

Publish ==
    /\ ~exists /\ ~held /\ exists'
    /\ log' \in {<< >>} \cup {<<tx>> : tx \in Txs}
    /\ UNCHANGED <<held, acked>>

Take == exists /\ ~held /\ held' /\ UNCHANGED <<exists, log, acked>>
Give == held /\ ~held' /\ UNCHANGED <<exists, log, acked>>

\* The writer may be lost in the same step.
Enter(tx) ==
    /\ exists /\ held /\ held' \in BOOLEAN
    /\ \A n \in DOMAIN log : log[n] # tx
    /\ log' = Append(log, tx)
    /\ acked' \in {acked, Append(acked, tx)}
    /\ UNCHANGED exists

Remove ==
    /\ exists /\ ~held /\ ~exists'
    /\ log' = << >> /\ acked' = << >>
    /\ UNCHANGED held

DNext == Publish \/ Take \/ Give \/ (\E tx \in Txs : Enter(tx)) \/ Remove

DSpec == DInit /\ [][DNext]_dvars
=============================================================================
