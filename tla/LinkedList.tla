----------------------------- MODULE LinkedList -----------------------------
(***************************************************************************)
(* Lists as the cores keep them: a register for the first element, one for  *)
(* the last, and a link per thread in a memory that all lists share.        *)
(***************************************************************************)
EXTENDS Naturals

(* q is the list that starts at f, ends at l and follows the links.          *)
Follows(q, n, f, l, link) ==
    /\ n > 0 => q[1] = f /\ q[n] = l
    /\ \A i \in 1 .. n : i < n => link[q[i]] = q[i + 1]

(* q goes through the n elements of S along the links, once each.           *)
Lists(q, S, n, f, l, link) ==
    /\ Follows(q, n, f, l, link)
    /\ \A i, j \in 1 .. n : q[i] = q[j] => i = j
    /\ S = {q[i] : i \in 1 .. n}

(* The elements of S, among the threads T, are linked from f to l, once      *)
(* each, and n is their number.                                            *)
Chain(T, S, n, f, l, link) ==
    \E q \in [1 .. n -> T] : Lists(q, S, n, f, l, link)

(* The threads along the links from f, as far as l.                          *)
Along(N, f, l, link) ==
    LET w[i \in 1 .. N] == IF i = 1 THEN f
                           ELSE IF w[i - 1] = l THEN l ELSE link[w[i - 1]]
    IN  w

(* Those elements in their order.  They are N at most.                       *)
ListOf(N, S, f, l, link) ==
    LET w == Along(N, f, l, link)
    IN  IF S = {} THEN <<>>
        ELSE [i \in {j \in 1 .. N : j > 1 => w[j - 1] # l} |-> w[i]]

(* The first n threads along the links, where only their number is kept.     *)
Walk(T, n, f, link) ==
    CHOOSE q \in [1 .. n -> T] : Follows(q, n, f, q[n], link)
=============================================================================
