------------------------------ MODULE MCLeaseTiming ------------------------------
(***************************************************************************)
(* LeaseTiming on small instances.  The executions of a process are alike: *)
(* they may trade places, also in the queue of the pool.  With two of them *)
(* the database goes down once, and not for longer than ShortOutage.       *)
(***************************************************************************)
EXTENDS LeaseTiming

CONSTANT ShortOutage

Symmetry == Permutations(Job)

Short == longest <= ShortOutage

MCInit == Init /\ (~Short => Cardinality({j \in Job : running[j]}) <= 1)

MCNext == Next /\ (Short => outages' <= 1)

MCSpec == MCInit /\ [][MCNext]_vars
================================================================================
