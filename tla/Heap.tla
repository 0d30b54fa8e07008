-------------------------------- MODULE Heap --------------------------------
(***************************************************************************)
(* The heap of the network stack (lwip/core/mem.c).  A byte array is cut into *)
(* blocks, each behind a header with the addresses of the next and of the     *)
(* previous one; lfree is where mem_malloc starts to look.  lwIP is built      *)
(* with NO_SYS, so the semaphore is empty and each call is one step of the     *)
(* one task that makes it.                                                   *)
(*                                                                         *)
(* mem has the headers by their address.  ram_end, the used block at           *)
(* MEM_SIZE, is not among them: its prev is written and never read.           *)
(* live is the callers' view, trimmed whether mem_realloc has cut off a        *)
(* block below lfree.                                                        *)
(***************************************************************************)
EXTENDS Naturals

CONSTANTS MEM_SIZE, MEM_ALIGNMENT,
          SIZEOF_STRUCT_MEM, MIN_SIZE,
          Sizes          \* that callers ask for

ASSUME HeapAssumption ==
    /\ {MEM_SIZE, MEM_ALIGNMENT, SIZEOF_STRUCT_MEM} \subseteq Nat \ {0}
    /\ MIN_SIZE \in Nat
    /\ MEM_SIZE % MEM_ALIGNMENT = 0 /\ SIZEOF_STRUCT_MEM % MEM_ALIGNMENT = 0
    /\ SIZEOF_STRUCT_MEM <= MEM_SIZE
    /\ Sizes \subseteq Nat \ {0}

VARIABLES mem, lfree, live, trimmed

vars == <<mem, lfree, live, trimmed>>

(* Blocks are offsets in ram, which is taken to begin at an aligned address:  *)
(* it is declared as an array of bytes.                                      *)
mem_init ==
    /\ mem = [p \in {0} |-> [next |-> MEM_SIZE, prev |-> 0, used |-> FALSE]]
    /\ lfree = 0
    /\ live = {} /\ trimmed = FALSE

-----------------------------------------------------------------------------
(* Whether the header at p is that of a free block: ram_end is used.          *)
Free(m, p) == p # MEM_SIZE /\ ~ m[p].used

(* Mutant of Join: the block behind is not linked back.                      *)
Join_oneway(m, p) ==
    [a \in DOMAIN m \ {m[p].next} |->
        IF a = p THEN [m[p] EXCEPT !.next = m[m[p].next].next] ELSE m[a]]

(* Block p takes in the one behind it.                                       *)
Join(m, p) ==
    LET n == m[p].next
    IN  [a \in DOMAIN m \ {n} |->
            IF a = p THEN [m[p] EXCEPT !.next = m[n].next]
            ELSE IF a = m[n].next THEN [m[a] EXCEPT !.prev = p]
            ELSE m[a]]

(* Mutant of Split: the block in front is not marked as used.                *)
Split_unmarked(m, p, c) ==
    [a \in DOMAIN m \cup {c} |->
        IF a = p THEN [m[p] EXCEPT !.next = c]
        ELSE IF a = c THEN [next |-> m[p].next, prev |-> p, used |-> FALSE]
        ELSE IF a = m[p].next THEN [m[a] EXCEPT !.prev = c]
        ELSE m[a]]

(* Block p is cut at c, and what is behind is free.                          *)
Split(m, p, c) ==
    [a \in DOMAIN m \cup {c} |->
        IF a = p THEN [m[p] EXCEPT !.next = c, !.used = TRUE]
        ELSE IF a = c THEN [next |-> m[p].next, prev |-> p, used |-> FALSE]
        ELSE IF a = m[p].next THEN [m[a] EXCEPT !.prev = c]
        ELSE m[a]]

(* Join in a heap of headers m and lfree l.                                  *)
Plug(h, p) ==
    [m |-> Join(h.m, p), l |-> IF h.l = h.m[p].next THEN p ELSE h.l]

plug_forward(h, p) == IF Free(h.m, h.m[p].next) THEN Plug(h, p) ELSE h

plug_backward(h, p) ==
    IF h.m[p].prev # p /\ Free(h.m, h.m[p].prev) THEN Plug(h, h.m[p].prev) ELSE h

(* Mutant of plug_holes: the block in front is left alone.                   *)
plug_holes_forward(h, p) == plug_forward(h, p)

plug_holes(h, p) == plug_backward(plug_forward(h, p), p)

(* Mutants of Aligned: it rounds down; it does nothing.                      *)
Aligned_down(n) == n - (n % MEM_ALIGNMENT)

Aligned_not(n) == n

Aligned(n) ==
    IF n % MEM_ALIGNMENT = 0 THEN n
    ELSE n + MEM_ALIGNMENT - ((n + SIZEOF_STRUCT_MEM) % MEM_ALIGNMENT)

(* The room in a block, which has to do for another header too.  The          *)
(* subtraction is unsigned: of a block smaller than its header it is huge.   *)
Fits(m, p, n) ==
    LET from == p + SIZEOF_STRUCT_MEM
    IN  \/ m[p].next < from
        \/ m[p].next - from >= n + SIZEOF_STRUCT_MEM

IsFirst(p, S) == p \in S /\ \A q \in S : p <= q

-----------------------------------------------------------------------------
(* The first fit from lfree on.  lfree moves on to the next free block when   *)
(* it is the one taken, and would stop at ram_end.  A request that cannot be  *)
(* met returns NULL and changes nothing.                                    *)
mem_malloc(size) ==
    LET n == Aligned(size)
        fit == {p \in DOMAIN mem : p >= lfree /\ ~ mem[p].used /\ Fits(mem, p, n)}
    IN  /\ n <= MEM_SIZE
        /\ \E p \in fit :
              /\ IsFirst(p, fit)
              /\ mem' = Split(mem, p, p + SIZEOF_STRUCT_MEM + n)
              /\ LET from == {a \in DOMAIN mem' : a >= p /\ ~ mem'[a].used} \cup {MEM_SIZE}
                 IN  \E l \in from \cup {lfree} :
                        /\ IF p = lfree THEN IsFirst(l, from) ELSE l = lfree
                        /\ lfree' = l
              /\ live' = live \cup {[at |-> p + SIZEOF_STRUCT_MEM, size |-> size]}
        /\ UNCHANGED trimmed

(* Mutant of mem_free: lfree is left where it is.                            *)
mem_free_behind(r) ==
    LET p == r.at - SIZEOF_STRUCT_MEM
        h == plug_holes([m |-> [mem EXCEPT ![p].used = FALSE], l |-> lfree], p)
    IN  /\ mem' = h.m /\ lfree' = h.l
        /\ live' = live \ {r}
        /\ UNCHANGED trimmed

mem_free(r) ==
    LET p == r.at - SIZEOF_STRUCT_MEM
        h == plug_holes([m |-> [mem EXCEPT ![p].used = FALSE],
                         l |-> IF p < lfree THEN p ELSE lfree], p)
    IN  /\ mem' = h.m /\ lfree' = h.l
        /\ live' = live \ {r}
        /\ UNCHANGED trimmed

(* Only pbuf_realloc calls it, to make a block smaller.  A rest that is too   *)
(* small stays in the block.                                                *)
mem_realloc(r, newsize) ==
    LET n == Aligned(newsize)
        p == r.at - SIZEOF_STRUCT_MEM
        c == p + SIZEOF_STRUCT_MEM + n
        h == plug_holes([m |-> Split(mem, p, c), l |-> lfree], c)
    IN  /\ newsize <= r.size /\ n <= MEM_SIZE
        /\ IF n + SIZEOF_STRUCT_MEM + MIN_SIZE < mem[p].next - p - SIZEOF_STRUCT_MEM
           THEN /\ mem' = h.m /\ lfree' = h.l
                /\ trimmed' = (trimmed \/ c < h.l)
           ELSE UNCHANGED <<mem, lfree, trimmed>>
        /\ live' = (live \ {r}) \cup {[r EXCEPT !.size = newsize]}

Next ==
    \/ \E size \in Sizes : mem_malloc(size)
    \/ \E r \in live : mem_free(r) \/ \E size \in Sizes : mem_realloc(r, size)

Spec == mem_init /\ [][Next]_vars

-----------------------------------------------------------------------------
(* The headers m are those of blocks from the start of the heap to its end,   *)
(* each with room for its header at least, and linked both ways.              *)
Links(m) ==
    /\ 0 \in DOMAIN m /\ m[0].prev = 0
    /\ \A p \in DOMAIN m :
          /\ p + SIZEOF_STRUCT_MEM <= m[p].next
          /\ m[p].next \in DOMAIN m \cup {MEM_SIZE}
          /\ p # 0 => m[p].prev \in DOMAIN m /\ m[m[p].prev].next = p
    /\ \A p, q \in DOMAIN m : p < q => m[p].next <= q

(* Free blocks with a free one behind them.                                  *)
Holes(m) == {p \in DOMAIN m : ~ m[p].used /\ Free(m, m[p].next)}

(* The headers keep their form, at addresses inside the heap.                *)
TypeOK ==
    /\ DOMAIN mem \subseteq 0 .. MEM_SIZE - 1
    /\ mem \in [DOMAIN mem -> [next : Nat, prev : Nat, used : BOOLEAN]]
    /\ lfree \in 0 .. MEM_SIZE
    /\ live \subseteq [at : Nat, size : Sizes]
    /\ trimmed \in BOOLEAN

(* The list of blocks stays whole: whatever was split by mem_malloc and        *)
(* mem_realloc and joined by plug_holes, one comes behind the other and both  *)
(* links agree.                                                             *)
Linked == Links(mem)

(* Two free blocks are never neighbours: what was freed, in any order, is one *)
(* block again.  (mem_malloc splits the block it takes and refuses an exact   *)
(* fit, so that one piece of this size cannot be had.)                       *)
Plugged == Holes(mem) = {}

(* mem_malloc misses no free block: lfree is the lowest, as long as           *)
(* mem_realloc has not cut one off below it; it is a free one in any case, as *)
(* the assertion at the end of mem_malloc has it.                            *)
LowestFree ==
    /\ lfree \in DOMAIN mem /\ ~ mem[lfree].used
    /\ ~ trimmed => \A p \in DOMAIN mem : ~ mem[p].used => lfree <= p

OwnedBy(m, regions) ==
    /\ \A r \in regions :
          LET p == r.at - SIZEOF_STRUCT_MEM
          IN  /\ r.at >= SIZEOF_STRUCT_MEM
              /\ p \in DOMAIN m /\ m[p].used
              /\ r.at + r.size <= m[p].next
    /\ \A p \in DOMAIN m :
          m[p].used => \E r \in regions : r.at = p + SIZEOF_STRUCT_MEM
    /\ \A r, s \in regions : r.at = s.at => r = s

(* The used blocks are those the callers hold, one each and large enough: a   *)
(* block is never handed out twice, and none is lost.                        *)
Owned == OwnedBy(mem, live)

(* Every region is aligned, although sizes are not: the assertion of          *)
(* mem_malloc, where ram begins at an aligned address.                       *)
AlignedRegions == \A r \in live : r.at % MEM_ALIGNMENT = 0

A == INSTANCE Allocator

(* Callers hold regions inside the heap and apart from each other.          *)
ImplementsAllocator == A!Spec
=============================================================================
