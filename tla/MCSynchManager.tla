--------------------------- MODULE MCSynchManager ---------------------------
(* The synchronization manager core against the mutexes it promises.        *)
EXTENDS SynchManager

VARIABLE wide            \* which of the two instances is explored

(* Mutexes are numbered.  Three threads use mutexes 1 and 2 in every way;   *)
(* or all threads use fast mutexes, where thread 0 uses them all and shares *)
(* mutex t with thread t.                                                  *)
Uses(t, m) == held[t][m] > 0 \/ blocked[t] = m

ThreeThreads ==
    /\ \A m \in Mutexes : m > 2 => mutex[m].kind = "SYNCH_FAST"
    /\ \A t \in Threads, m \in Mutexes : Uses(t, m) => t <= 2 /\ m <= 2

SharedWithZero ==
    /\ \A m \in Mutexes : mutex[m].kind = "SYNCH_FAST"
    /\ \A t \in Threads, m \in Mutexes : Uses(t, m) => t \in {0, m}

Bound == IF wide THEN SharedWithZero ELSE ThreeThreads

BoundedInit == Init /\ wide \in BOOLEAN

BoundedNext == Next /\ UNCHANGED wide /\ Bound'

BoundedSpec ==
    BoundedInit /\ [][BoundedNext]_<<vars, wide>> /\ WF_vars(MasterNext)
=============================================================================
