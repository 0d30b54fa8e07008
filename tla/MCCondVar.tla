----------------------------- MODULE MCCondVar -----------------------------
(* The condition variable core against the FIFOs it promises.               *)
EXTENDS CondVar

(* Two instances in one: every thread waits for variable 1, or all but the   *)
(* last thread wait for any variable.                                       *)
VARIABLE wide

Bound ==
    IF wide THEN waits[NumThreads - 1] = NoCvar
    ELSE \A t \in Threads : waits[t] \in {1, NoCvar}

BoundedInit == Init /\ wide \in BOOLEAN

BoundedNext == Next /\ UNCHANGED wide /\ Bound'

BoundedSpec == BoundedInit /\ [][BoundedNext]_<<vars, wide>> /\ WF_vars(Wakes)
=============================================================================
