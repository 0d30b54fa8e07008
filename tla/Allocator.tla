----------------------------- MODULE Allocator -----------------------------
(***************************************************************************)
(* What the heap of the network stack promises its callers: the regions they *)
(* hold lie inside the heap and apart from each other, stay where            *)
(* they are until they are freed, and may be made smaller.                    *)
(***************************************************************************)
EXTENDS Naturals

CONSTANTS MEM_SIZE, Sizes

VARIABLE live            \* the regions allocated: at an address, of a size

Region == [at : 0 .. MEM_SIZE, size : Sizes]

Inside(r) == r.at + r.size <= MEM_SIZE

Apart(r, s) == r.at + r.size <= s.at \/ s.at + s.size <= r.at

Init == live = {}

Malloc ==
    \E r \in Region :
        /\ Inside(r)
        /\ \A s \in live : Apart(r, s)
        /\ live' = live \cup {r}

Free == \E r \in live : live' = live \ {r}

Shrink ==
    \E r \in live, n \in Sizes :
        /\ n <= r.size
        /\ live' = (live \ {r}) \cup {[r EXCEPT !.size = n]}

Next == Malloc \/ Free \/ Shrink

Spec == Init /\ [][Next]_live
=============================================================================
