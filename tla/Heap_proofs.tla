----------------------------- MODULE Heap_proofs -----------------------------
(***************************************************************************)
(* Proofs about the heap, for every size of it and of what is asked for: the   *)
(* list of blocks stays whole, and callers get regions apart from each other. *)
(* Join and Split are shown to keep a list of headers Good; plug_holes joins   *)
(* at most twice; each call is a split or a plug_holes on a Good list.         *)
(***************************************************************************)
EXTENDS Heap, Integers, TLAPS

Header == [next : Nat, prev : Nat, used : BOOLEAN]

(* Headers m that are well formed.                                           *)
Good(m) ==
    /\ DOMAIN m \subseteq 0 .. MEM_SIZE - 1
    /\ m \in [DOMAIN m -> Header]
    /\ Links(m)

LEMMA Bounds ==
    /\ MEM_SIZE \in Nat \ {0}
    /\ MEM_ALIGNMENT \in Nat \ {0}
    /\ SIZEOF_STRUCT_MEM \in Nat \ {0}
    /\ MIN_SIZE \in Nat
  BY HeapAssumption

(* Rounding up for alignment does not make a request smaller.                 *)
LEMMA AlignedUp == \A n \in Nat : Aligned(n) \in Nat /\ Aligned(n) >= n
  BY Bounds DEF Aligned

(* What the links say of a block, unfolded.                                  *)
LEMMA GoodFacts ==
  ASSUME NEW m, Good(m), NEW p \in DOMAIN m
  PROVE  /\ p \in Nat /\ p < MEM_SIZE
         /\ m[p].next \in Nat /\ m[p].prev \in Nat /\ m[p].used \in BOOLEAN
         /\ p < m[p].next
         /\ m[p].next \in DOMAIN m \cup {MEM_SIZE}
         /\ p # 0 => m[p].prev \in DOMAIN m /\ m[m[p].prev].next = p
         /\ \A q \in DOMAIN m : p < q => m[p].next <= q
  <1>1. m[p] \in Header
    BY DEF Good
  <1>2. p \in Nat /\ p < MEM_SIZE
    BY Bounds DEF Good
  <1> QED
    BY <1>1, <1>2, Bounds DEF Good, Links, Header

(* The prev link of a block leads to the one whose next link leads back.      *)
LEMMA Neighbours ==
  ASSUME NEW m, Good(m), NEW p \in DOMAIN m, m[p].next # MEM_SIZE
  PROVE  m[p].next \in DOMAIN m /\ m[m[p].next].prev = p
  <1> DEFINE n == m[p].next
             a == m[n].prev
  <1>1. n \in DOMAIN m /\ p < n /\ n \in Nat /\ p \in Nat
    BY GoodFacts
  <1>2. a \in DOMAIN m /\ m[a].next = n /\ a \in Nat
    <2>1. n # 0
      BY <1>1
    <2>2. a \in DOMAIN m /\ m[a].next = n
      BY <1>1, <2>1, GoodFacts
    <2> QED  BY <2>2, GoodFacts
  <1>3. ~ (a < p)
    BY <1>1, <1>2, GoodFacts
  <1>4. ~ (p < a)
    <2> SUFFICES ASSUME p < a PROVE FALSE  OBVIOUS
    <2>1. n <= a /\ a < m[a].next
      BY <1>2, GoodFacts
    <2> QED  BY <2>1, <1>1, <1>2
  <1> QED
    BY <1>1, <1>2, <1>3, <1>4


(* The headers j after a join, field by field.                               *)
IsJoin(m, p, j) ==
    /\ DOMAIN j = DOMAIN m \ {m[p].next}
    /\ \A a \in DOMAIN j :
          /\ j[a].used = m[a].used
          /\ j[a].next = IF a = p THEN m[m[p].next].next ELSE m[a].next
          /\ j[a].prev = IF a = m[m[p].next].next THEN p ELSE m[a].prev

(* Joining a block with the one behind it keeps the list whole.               *)
LEMMA JoinGood ==
  ASSUME NEW m, Good(m), NEW p \in DOMAIN m, m[p].next # MEM_SIZE
  PROVE  Good(Join(m, p)) /\ IsJoin(m, p, Join(m, p))
  <1> DEFINE n == m[p].next
             q == m[n].next
             j == Join(m, p)
  <1>1. n \in DOMAIN m /\ m[n].prev = p /\ p < n /\ n < q /\ p # n /\ q # n /\ q # p
    BY Neighbours, GoodFacts
  <1>2. \A a \in DOMAIN m : m[a] \in Header
    BY DEF Good
  <1>3. DOMAIN j = DOMAIN m \ {n}
    BY DEF Join
  <1>4. \A a \in DOMAIN j :
           /\ j[a] \in Header
           /\ j[a].used = m[a].used
           /\ j[a].next = IF a = p THEN q ELSE m[a].next
           /\ j[a].prev = IF a = q THEN p ELSE m[a].prev
    <2> SUFFICES ASSUME NEW a \in DOMAIN j
                 PROVE  /\ j[a] \in Header
                        /\ j[a].used = m[a].used
                        /\ j[a].next = IF a = p THEN q ELSE m[a].next
                        /\ j[a].prev = IF a = q THEN p ELSE m[a].prev
      OBVIOUS
    <2>1. a \in DOMAIN m /\ m[a] \in Header /\ q \in Nat /\ p \in Nat
      BY <1>1, <1>2, <1>3, GoodFacts
    <2>2. j[a] = IF a = p THEN [m[p] EXCEPT !.next = q]
                 ELSE IF a = q THEN [m[a] EXCEPT !.prev = p] ELSE m[a]
      BY <1>3 DEF Join
    <2> QED  BY <2>1, <2>2, <1>1 DEF Header
  <1>5. j \in [DOMAIN j -> Header] /\ DOMAIN j \subseteq 0 .. MEM_SIZE - 1
    <2>1. j = [a \in DOMAIN j |-> j[a]]
      BY DEF Join
    <2> QED  BY <2>1, <1>3, <1>4 DEF Good
  <1> HIDE DEF j
  <1>6. Links(j)
    <2>1. 0 \in DOMAIN j /\ j[0].prev = 0
      <3>1. 0 \in DOMAIN m /\ m[0].prev = 0 /\ n # 0 /\ q # 0
        BY <1>1, GoodFacts, Bounds DEF Good, Links
      <3> QED  BY <3>1, <1>3, <1>4
    <2>2. ASSUME NEW a \in DOMAIN j
          PROVE  /\ a + SIZEOF_STRUCT_MEM <= j[a].next
                 /\ j[a].next \in DOMAIN j \cup {MEM_SIZE}
                 /\ a # 0 => j[a].prev \in DOMAIN j /\ j[j[a].prev].next = a
      <3>1. a \in DOMAIN m /\ a # n
        BY <1>3
      <3>2. a + SIZEOF_STRUCT_MEM <= j[a].next
        <4>1. a + SIZEOF_STRUCT_MEM <= m[a].next
          BY <3>1 DEF Good, Links
        <4> QED  BY <4>1, <1>1, <1>4, <3>1, GoodFacts, Bounds
      <3>3. j[a].next \in DOMAIN j \cup {MEM_SIZE}
        <4>1. CASE a = p
          BY <4>1, <1>1, <1>3, <1>4, GoodFacts
        <4>2. CASE a # p
          <5>1. m[a].next # n
            BY <4>2, <1>1, <3>1, Neighbours, GoodFacts
          <5> QED  BY <4>2, <5>1, <1>3, <1>4, <3>1, GoodFacts
        <4> QED  BY <4>1, <4>2
      <3>4. ASSUME a # 0
            PROVE  j[a].prev \in DOMAIN j /\ j[j[a].prev].next = a
        <4>1. CASE a = q
          BY <4>1, <1>1, <1>3, <1>4
        <4>2. CASE a # q
          <5>1. m[a].prev \in DOMAIN m /\ m[m[a].prev].next = a
            BY <3>1, <3>4, GoodFacts
          <5>2. m[a].prev # n
            BY <5>1, <4>2
          <5>3. m[a].prev # p
            BY <5>1, <3>1
          <5> QED  BY <4>2, <5>1, <5>2, <5>3, <1>3, <1>4
        <4> QED  BY <4>1, <4>2
      <3> QED  BY <3>2, <3>3, <3>4
    <2>3. ASSUME NEW a \in DOMAIN j, NEW b \in DOMAIN j, a < b
          PROVE  j[a].next <= b
      <3>1. a \in DOMAIN m /\ b \in DOMAIN m /\ b # n /\ b \in Nat
        BY <1>3, GoodFacts
      <3>2. CASE a = p
        <4>1. n <= b
          BY <3>1, <3>2, <2>3, GoodFacts
        <4>2. q <= b
          BY <4>1, <3>1, <1>1, GoodFacts
        <4> QED  BY <4>2, <3>2, <1>4
      <3>3. CASE a # p
        BY <3>1, <3>3, <2>3, <1>4, GoodFacts
      <3> QED  BY <3>2, <3>3
    <2> QED  BY <2>1, <2>2, <2>3 DEF Links
  <1> QED  BY <1>3, <1>4, <1>5, <1>6 DEF Good, IsJoin, j


(* The headers j after a split, field by field.                              *)
IsSplit(m, p, c, j) ==
    /\ DOMAIN j = DOMAIN m \cup {c}
    /\ \A a \in DOMAIN j :
          /\ j[a].used = IF a = p THEN TRUE ELSE IF a = c THEN FALSE ELSE m[a].used
          /\ j[a].next = IF a = p THEN c ELSE IF a = c THEN m[p].next ELSE m[a].next
          /\ j[a].prev = IF a = c THEN p ELSE IF a = m[p].next THEN c ELSE m[a].prev

(* Cutting a block in two that each have room for a header keeps it whole too. *)
LEMMA SplitGood ==
  ASSUME NEW m, Good(m), NEW p \in DOMAIN m, NEW c \in Nat,
         p + SIZEOF_STRUCT_MEM <= c, c + SIZEOF_STRUCT_MEM <= m[p].next
  PROVE  Good(Split(m, p, c)) /\ IsSplit(m, p, c, Split(m, p, c)) /\ c \notin DOMAIN m
  <1> DEFINE n == m[p].next
             j == Split(m, p, c)
  <1>1. p < c /\ c < n /\ p \in Nat /\ n \in Nat /\ p # n /\ c # n /\ c # p
    BY GoodFacts, Bounds
  <1>2. c \notin DOMAIN m
    BY <1>1, GoodFacts
  <1>3. DOMAIN j = DOMAIN m \cup {c}
    BY DEF Split
  <1>4. \A a \in DOMAIN j :
           /\ j[a] \in Header
           /\ j[a].used = IF a = p THEN TRUE ELSE IF a = c THEN FALSE ELSE m[a].used
           /\ j[a].next = IF a = p THEN c ELSE IF a = c THEN n ELSE m[a].next
           /\ j[a].prev = IF a = c THEN p ELSE IF a = n THEN c ELSE m[a].prev
    <2> SUFFICES ASSUME NEW a \in DOMAIN j
        PROVE
           /\ j[a] \in Header
           /\ j[a].used = IF a = p THEN TRUE ELSE IF a = c THEN FALSE ELSE m[a].used
           /\ j[a].next = IF a = p THEN c ELSE IF a = c THEN n ELSE m[a].next
           /\ j[a].prev = IF a = c THEN p ELSE IF a = n THEN c ELSE m[a].prev
      BY Zenon
    <2>1. j[a] = IF a = p THEN [m[p] EXCEPT !.next = c, !.used = TRUE]
                 ELSE IF a = c THEN [next |-> n, prev |-> p, used |-> FALSE]
                 ELSE IF a = n THEN [m[a] EXCEPT !.prev = c] ELSE m[a]
      BY <1>3 DEF Split
    <2>2. a # c => m[a] \in Header
      BY <1>3 DEF Good
    <2>3. CASE a = p
      <3>1. j[a] = [m[p] EXCEPT !.next = c, !.used = TRUE] /\ m[p] \in Header
        BY <2>1, <2>2, <2>3, <1>1
      <3> QED  BY <3>1, <2>3, <1>1, Zenon DEF Header
    <2>4. CASE a = c
      <3>1. j[a] = [next |-> n, prev |-> p, used |-> FALSE]
        BY <2>1, <2>4, <1>1
      <3> QED  BY <3>1, <2>4, <1>1 DEF Header
    <2>5. CASE a # p /\ a # c
      BY <2>1, <2>2, <2>5 DEF Header
    <2> QED  BY <2>3, <2>4, <2>5, Zenon
  <1>5. j \in [DOMAIN j -> Header] /\ DOMAIN j \subseteq 0 .. MEM_SIZE - 1
    <2>1. j = [a \in DOMAIN j |-> j[a]]
      BY DEF Split
    <2>2. n <= MEM_SIZE
      BY GoodFacts, Bounds
    <2>3. c \in 0 .. MEM_SIZE - 1
      BY <2>2, <1>1, Bounds
    <2> QED  BY <2>1, <2>3, <1>3, <1>4, Zenon DEF Good
  <1> HIDE DEF j
  <1>6. Links(j)
    <2>1. 0 \in DOMAIN j /\ j[0].prev = 0
      <3>1. 0 \in DOMAIN m /\ m[0].prev = 0 /\ n # 0 /\ c # 0
        BY <1>1 DEF Good, Links
      <3> QED  BY <3>1, <1>3, <1>4, Zenon
    <2>2. ASSUME NEW a \in DOMAIN j
          PROVE  /\ a + SIZEOF_STRUCT_MEM <= j[a].next
                 /\ j[a].next \in DOMAIN j \cup {MEM_SIZE}
                 /\ a # 0 => j[a].prev \in DOMAIN j /\ j[j[a].prev].next = a
      <3>1. CASE a = c
        <4>1. j[c].next = n /\ j[c].prev = p
          BY <3>1, <1>1, <1>4, Zenon
        <4>2. p \in DOMAIN j /\ j[p].next = c
          BY <1>3, <1>4, Zenon
        <4>3. n \in DOMAIN j \cup {MEM_SIZE}
          BY <1>3, GoodFacts
        <4> QED  BY <3>1, <4>1, <4>2, <4>3
      <3>2. CASE a # c
        <4>1. a \in DOMAIN m
          BY <3>2, <1>3
        <4>2. a + SIZEOF_STRUCT_MEM <= j[a].next
          BY <4>1, <3>2, <1>4, Zenon DEF Good, Links
        <4>3. j[a].next \in DOMAIN j \cup {MEM_SIZE}
          <5>1. m[a].next \in DOMAIN m \cup {MEM_SIZE}
            BY <4>1, GoodFacts
          <5> QED  BY <5>1, <3>2, <1>3, <1>4, Zenon
        <4>4. ASSUME a # 0
              PROVE  j[a].prev \in DOMAIN j /\ j[j[a].prev].next = a
          <5>1. CASE a = n
            BY <5>1, <1>1, <1>3, <1>4, Zenon
          <5>2. CASE a # n
            <6>1. m[a].prev \in DOMAIN m /\ m[m[a].prev].next = a
              BY <4>1, <4>4, GoodFacts
            <6>2. m[a].prev # p /\ m[a].prev # c
              BY <6>1, <5>2, <1>2
            <6> QED  BY ZenonT(30), <6>1, <6>2, <3>2, <5>2, <1>3, <1>4
          <5> QED  BY <5>1, <5>2
        <4> QED  BY <4>2, <4>3, <4>4
      <3> QED  BY <3>1, <3>2
    <2>3. ASSUME NEW a \in DOMAIN j, NEW b \in DOMAIN j, a < b
          PROVE  j[a].next <= b
      <3>1. CASE a = c
        <4>1. b \in DOMAIN m /\ p < b
          BY <3>1, <2>3, <1>1, <1>3, GoodFacts
        <4>2. n <= b
          BY <4>1, GoodFacts
        <4>3. j[a].next = n
          BY <3>1, <1>1, <1>4, Zenon
        <4> QED  BY <4>2, <4>3
      <3>2. CASE b = c /\ a # c
        <4>1. a \in DOMAIN m /\ a \in Nat /\ a < c
          BY <3>2, <2>3, <1>3, GoodFacts, Zenon
        <4>2. ~ (p < a)
          BY <4>1, <1>1, GoodFacts
        <4>3. CASE a = p
          <5>1. j[a].next = c
            BY <4>3, <1>4, Zenon
          <5> QED  BY <5>1, <3>2
        <4>4. CASE a < p
          <5>1. m[a].next <= p
            BY <4>1, <4>4, GoodFacts
          <5>2. m[a].next \in Nat
            BY <4>1, GoodFacts
          <5>3. a # p
            BY <4>1, <4>4, <1>1
          <5>4. j[a].next = m[a].next
            BY <5>3, <3>2, <1>4, Zenon
          <5> QED  BY <5>1, <5>2, <5>4, <3>2, <1>1
        <4> QED  BY <4>1, <4>2, <4>3, <4>4, <1>1
      <3>3. CASE a # c /\ b # c
        <4>1. a \in DOMAIN m /\ b \in DOMAIN m /\ b \in Nat
          BY <3>3, <1>3, GoodFacts
        <4>2. m[a].next <= b
          BY <4>1, <2>3, GoodFacts
        <4>3. CASE a = p
          <5>1. j[a].next = c
            BY <4>3, <1>4, Zenon
          <5> QED  BY <5>1, <4>1, <4>2, <4>3, <1>1
        <4>4. CASE a # p
          <5>1. j[a].next = m[a].next
            BY <4>4, <3>3, <1>4, Zenon
          <5> QED  BY <5>1, <4>2
        <4> QED  BY <4>3, <4>4
      <3> QED  BY <3>1, <3>2, <3>3
    <2> QED  BY <2>1, <2>2, <2>3 DEF Links
  <1> QED  BY <1>2, <1>3, <1>4, <1>5, <1>6, Zenon DEF Good, IsSplit, j


(* What a join leaves as it was: the used blocks and their ends.              *)
Kept(m, g) ==
    /\ DOMAIN g \subseteq DOMAIN m
    /\ \A a \in DOMAIN m : m[a].used => a \in DOMAIN g /\ g[a].next = m[a].next
    /\ \A a \in DOMAIN g : g[a].used = m[a].used

LEMMA KeptTrans ==
  ASSUME NEW m, NEW g, NEW k, Kept(m, g), Kept(g, k)
  PROVE  Kept(m, k)
  BY DEF Kept

(* One join of two free blocks: lfree stays a free block and does not rise,   *)
(* and only the joined block may have a free one behind it afterwards, if    *)
(* the second of the two had.                                               *)
LEMMA PlugKeeps ==
  ASSUME NEW h, Good(h.m), NEW p \in DOMAIN h.m,
         ~ h.m[p].used, Free(h.m, h.m[p].next),
         h.l \in DOMAIN h.m, ~ h.m[h.l].used
  PROVE  LET g == Plug(h, p)
         IN  /\ Good(g.m) /\ Kept(h.m, g.m)
             /\ g.l \in DOMAIN g.m /\ ~ g.m[g.l].used /\ g.l <= h.l
             /\ p \in DOMAIN g.m /\ g.m[p].prev = h.m[p].prev
             /\ Holes(g.m) \subseteq (Holes(h.m) \ {p})
                                     \cup (IF h.m[p].next \in Holes(h.m) THEN {p} ELSE {})
  <1> DEFINE m == h.m
             n == m[p].next
             q == m[n].next
             j == Join(m, p)
             g == Plug(h, p)
  <1>1. g.m = j /\ g.l = IF h.l = n THEN p ELSE h.l
    BY DEF Plug
  <1> HIDE DEF g
  <1>2. n # MEM_SIZE /\ ~ m[n].used
    BY DEF Free
  <1>3. n \in DOMAIN m /\ m[n].prev = p /\ p < n /\ n < q /\ p # n /\ q # n /\ q # p
    BY <1>2, Neighbours, GoodFacts
  <1>4. Good(j) /\ IsJoin(m, p, j)
    BY <1>2, JoinGood
  <1> HIDE DEF j
  <1>5. /\ DOMAIN j = DOMAIN m \ {n}
        /\ \A a \in DOMAIN j :
              /\ j[a].used = m[a].used
              /\ j[a].next = IF a = p THEN q ELSE m[a].next
              /\ j[a].prev = IF a = q THEN p ELSE m[a].prev
    BY <1>4 DEF IsJoin
  <1>6. Kept(m, j)
    BY <1>2, <1>4, <1>5 DEF Kept
  <1>7. g.l \in DOMAIN j /\ ~ j[g.l].used /\ g.l <= h.l
    <2>1. CASE h.l = n
      BY <2>1, <1>1, <1>3, <1>4, <1>5, GoodFacts
    <2>2. CASE h.l # n
      BY <2>2, <1>1, <1>4, <1>5, GoodFacts
    <2> QED  BY <2>1, <2>2, Zenon
  <1>8. p \in DOMAIN j /\ j[p].prev = m[p].prev
    BY <1>3, <1>4, <1>5
  <1>9. ASSUME NEW a \in Holes(j)
        PROVE  a \in (Holes(m) \ {p}) \cup (IF n \in Holes(m) THEN {p} ELSE {})
    <2>1. a \in DOMAIN j /\ ~ j[a].used /\ j[a].next # MEM_SIZE /\ ~ j[j[a].next].used
      BY <1>9 DEF Holes, Free
    <2>2. j[a].next \in DOMAIN j
      BY <2>1, <1>4, GoodFacts
    <2>3. CASE a = p
      <3>1. j[a].next = q
        BY <2>1, <2>3, <1>5
      <3>2. n \in Holes(m)
        BY <3>1, <2>1, <2>2, <1>2, <1>3, <1>5, Zenon DEF Holes, Free
      <3> QED  BY <3>2, <2>3
    <2>4. CASE a # p
      <3>1. j[a].next = m[a].next
        BY <2>1, <2>4, <1>5, Zenon
      <3>2. a \in Holes(m)
        BY <3>1, <2>1, <2>2, <1>4, <1>5 DEF Holes, Free
      <3> QED  BY <3>2, <2>4
    <2> QED  BY <2>3, <2>4
  <1> QED
    BY <1>1, <1>4, <1>6, <1>7, <1>8, <1>9 DEF g

(* plug_holes joins what a block that has become free leaves to be joined.     *)
LEMMA PlugHolesKeeps ==
  ASSUME NEW h, Good(h.m), NEW p \in DOMAIN h.m, ~ h.m[p].used,
         h.l \in DOMAIN h.m, ~ h.m[h.l].used,
         Holes(h.m) \subseteq {p, h.m[p].prev}
  PROVE  LET g == plug_holes(h, p)
         IN  /\ Good(g.m) /\ Kept(h.m, g.m)
             /\ g.l \in DOMAIN g.m /\ ~ g.m[g.l].used /\ g.l <= h.l
             /\ Holes(g.m) = {}
  <1> DEFINE f == plug_forward(h, p)
             q == h.m[p].prev
             g == plug_backward(f, p)
  <1> HIDE DEF f, g
  <1>1. /\ Good(f.m) /\ Kept(h.m, f.m)
        /\ f.l \in DOMAIN f.m /\ ~ f.m[f.l].used /\ f.l <= h.l
        /\ p \in DOMAIN f.m /\ f.m[p].prev = q /\ ~ f.m[p].used
        /\ Holes(f.m) \subseteq {q} /\ p \notin Holes(f.m)
    <2>1. CASE Free(h.m, h.m[p].next)
      <3>1. f = Plug(h, p)
        BY <2>1 DEF plug_forward, f
      <3>2. h.m[p].next \notin {p, q}
        <4>1. p < h.m[p].next /\ p \in Nat /\ h.m[p].next \in Nat
          BY GoodFacts
        <4>2. q <= p
          <5>1. CASE p = 0
            BY <5>1, <4>1 DEF Good, Links
          <5>2. CASE p # 0
            BY <5>2, GoodFacts
          <5> QED  BY <5>1, <5>2
        <4> QED  BY <4>1, <4>2, GoodFacts
      <3>3. h.m[p].next \notin Holes(h.m)
        BY <3>2
      <3>4. /\ Good(f.m) /\ Kept(h.m, f.m)
            /\ f.l \in DOMAIN f.m /\ ~ f.m[f.l].used /\ f.l <= h.l
            /\ p \in DOMAIN f.m /\ f.m[p].prev = q
            /\ Holes(f.m) \subseteq Holes(h.m) \ {p}
        BY SMTT(30), <2>1, <3>1, <3>3, PlugKeeps, SMTT(30)
      <3> QED  BY <3>4 DEF Kept
    <2>2. CASE ~ Free(h.m, h.m[p].next)
      <3>1. f = h
        BY <2>2 DEF plug_forward, f
      <3>2. p \notin Holes(h.m)
        BY <2>2 DEF Holes
      <3>3. h.l <= h.l
        BY GoodFacts
      <3> QED  BY <3>1, <3>2, <3>3 DEF Kept
    <2> QED  BY <2>1, <2>2
  <1>2. plug_holes(h, p) = g
    BY DEF plug_holes, f, g
  <1>3. CASE q # p /\ Free(f.m, q)
    <2>1. g = Plug(f, q)
      BY <1>1, <1>3 DEF plug_backward, g
    <2>2. q \in DOMAIN f.m /\ f.m[q].next = p
      <3>1. p # 0
        BY <1>3 DEF Good, Links
      <3> QED  BY <3>1, <1>1, GoodFacts
    <2>3. ~ f.m[q].used /\ Free(f.m, f.m[q].next)
      <3>1. p # MEM_SIZE
        BY <1>1, GoodFacts, SMTT(30)
      <3> QED  BY <3>1, <2>2, <1>1, <1>3 DEF Free
    <2>4. /\ Good(g.m) /\ Kept(f.m, g.m)
          /\ g.l \in DOMAIN g.m /\ ~ g.m[g.l].used /\ g.l <= f.l
          /\ Holes(g.m) \subseteq Holes(f.m) \ {q}
      BY <1>1, <2>1, <2>2, <2>3, PlugKeeps, SMTT(30)
    <2>5. Kept(h.m, g.m)
      BY <1>1, <2>4, KeptTrans
    <2>6. g.l <= h.l
      BY <1>1, <2>4, GoodFacts
    <2> QED  BY <1>1, <1>2, <2>4, <2>5, <2>6
  <1>4. CASE ~ (q # p /\ Free(f.m, q))
    <2>1. g = f
      BY <1>1, <1>4 DEF plug_backward, g
    <2>2. Holes(f.m) = {}
      <3>1. CASE q = p
        BY <3>1, <1>1
      <3>2. CASE q # p
        <4>1. p # 0
          BY <3>2 DEF Good, Links
        <4>2. q \in DOMAIN f.m /\ q # MEM_SIZE
          BY <4>1, <1>1, GoodFacts
        <4>3. f.m[q].used
          BY <4>2, <3>2, <1>4 DEF Free
        <4> QED  BY <4>3, <1>1 DEF Holes
      <3> QED  BY <3>1, <3>2
    <2> QED  BY <1>1, <1>2, <2>1, <2>2
  <1> QED
    BY <1>3, <1>4


-----------------------------------------------------------------------------
(* Each conjunct needs others: Plugged the links, LowestFree that a split      *)
(* leaves a free block, Owned that a join takes in no used one.                *)
IInv == TypeOK /\ Linked /\ Plugged /\ LowestFree /\ Owned

LEMMA InitIInv == mem_init => IInv
  <1> SUFFICES ASSUME mem_init PROVE IInv  OBVIOUS
  <1>1. /\ DOMAIN mem = {0} /\ mem[0].next = MEM_SIZE /\ mem[0].prev = 0
        /\ ~ mem[0].used
        /\ mem \in [DOMAIN mem -> [next : Nat, prev : Nat, used : BOOLEAN]]
    BY Bounds DEF mem_init
  <1>2. lfree = 0 /\ live = {} /\ trimmed = FALSE
    BY DEF mem_init
  <1>3. TypeOK
    <2>1. DOMAIN mem \subseteq 0 .. MEM_SIZE - 1 /\ lfree \in 0 .. MEM_SIZE
      BY <1>1, <1>2, Bounds
    <2>2. live \subseteq [at : Nat, size : Sizes] /\ trimmed \in BOOLEAN
      BY <1>2, Zenon
    <2> QED  BY <1>1, <2>1, <2>2 DEF TypeOK
  <1>4. Linked
    BY <1>1, HeapAssumption, Bounds DEF Linked, Links
  <1>5. Plugged /\ LowestFree /\ Owned
    BY <1>1, <1>2 DEF Plugged, Holes, Free, LowestFree, Owned, OwnedBy
  <1> QED  BY <1>3, <1>4, <1>5 DEF IInv

(* The regions of two used blocks do not overlap and end inside the heap.      *)
LEMMA OwnedApart ==
  ASSUME NEW m, Good(m), NEW regions, regions \subseteq [at : Nat, size : Sizes],
         OwnedBy(m, regions)
  PROVE  /\ \A r \in regions : A!Inside(r)
         /\ \A r, s \in regions : r # s => A!Apart(r, s)
  <1>1. ASSUME NEW r \in regions
        PROVE  /\ r.at \in Nat /\ r.size \in Nat /\ r.at >= SIZEOF_STRUCT_MEM
               /\ r.at - SIZEOF_STRUCT_MEM \in DOMAIN m
               /\ m[r.at - SIZEOF_STRUCT_MEM].next \in Nat
               /\ r.at + r.size <= m[r.at - SIZEOF_STRUCT_MEM].next
               /\ m[r.at - SIZEOF_STRUCT_MEM].next <= MEM_SIZE
    <2>1. r.at \in Nat /\ r.size \in Nat
      BY HeapAssumption, Zenon
    <2>2. /\ r.at >= SIZEOF_STRUCT_MEM
          /\ r.at - SIZEOF_STRUCT_MEM \in DOMAIN m
          /\ r.at + r.size <= m[r.at - SIZEOF_STRUCT_MEM].next
      BY DEF OwnedBy
    <2>3. /\ m[r.at - SIZEOF_STRUCT_MEM].next \in Nat
          /\ m[r.at - SIZEOF_STRUCT_MEM].next \in DOMAIN m \cup {MEM_SIZE}
      BY <2>2, GoodFacts
    <2>4. m[r.at - SIZEOF_STRUCT_MEM].next <= MEM_SIZE
      <3>1. \A a \in DOMAIN m : a \in Nat /\ a < MEM_SIZE
        BY GoodFacts
      <3> QED  BY <3>1, <2>3, Bounds
    <2> QED  BY <2>1, <2>2, <2>3, <2>4
  <1>2. \A r \in regions : A!Inside(r)
    BY <1>1, Bounds DEF A!Inside
  <1>3. ASSUME NEW r \in regions, NEW s \in regions, r.at < s.at
        PROVE  r.at + r.size <= s.at
    <2> DEFINE p == r.at - SIZEOF_STRUCT_MEM
               q == s.at - SIZEOF_STRUCT_MEM
    <2>1. p \in DOMAIN m /\ q \in DOMAIN m /\ p < q
      BY <1>1, <1>3, Bounds
    <2>2. m[p].next <= q
      BY <2>1, GoodFacts
    <2> QED  BY <2>2, <1>1, Bounds
  <1>4. ASSUME NEW r \in regions, NEW s \in regions, r # s
        PROVE  A!Apart(r, s)
    <2>1. r.at # s.at
      BY <1>4 DEF OwnedBy
    <2>2. r.at < s.at \/ s.at < r.at
      BY <2>1, <1>1
    <2> QED  BY <2>2, <1>3 DEF A!Apart
  <1> QED  BY <1>2, <1>4


LEMMA IInvGood == IInv => Good(mem)
  BY DEF IInv, TypeOK, Linked, Good, Header

(* A split of block p leaves no free neighbours when p was used or had none.   *)
LEMMA SplitHoles ==
  ASSUME NEW m, Good(m), NEW p \in DOMAIN m, NEW c \in Nat,
         p + SIZEOF_STRUCT_MEM <= c, c + SIZEOF_STRUCT_MEM <= m[p].next,
         Holes(m) = {}
  PROVE  /\ Holes(Split(m, p, c)) \subseteq {c}
         /\ ~ m[p].used => Holes(Split(m, p, c)) = {}
  <1> DEFINE j == Split(m, p, c)
  <1>1. Good(j) /\ IsSplit(m, p, c, j) /\ c \notin DOMAIN m
    BY SplitGood
  <1> HIDE DEF j
  <1>2. ASSUME NEW a \in Holes(j)
        PROVE  a = c /\ m[p].used
    <2>1. a \in DOMAIN j /\ ~ j[a].used /\ j[a].next # MEM_SIZE /\ ~ j[j[a].next].used
      BY <1>2 DEF Holes, Free
    <2>2. j[a].next \in DOMAIN j
      BY <1>1, <2>1, GoodFacts
    <2>3. a # p
      BY <1>1, <2>1, Zenon DEF IsSplit
    <2>4. a = c
      <3> SUFFICES ASSUME a # c PROVE FALSE  OBVIOUS
      <3>1. a \in DOMAIN m /\ ~ m[a].used /\ j[a].next = m[a].next
        BY <1>1, <2>1, <2>3, Zenon DEF IsSplit
      <3>2. m[a].next \in DOMAIN m
        BY <3>1, <2>1, GoodFacts
      <3>3. m[a].next # c /\ m[a].next # p
        BY <3>1, <3>2, <1>1, <2>1, <2>2, Zenon DEF IsSplit
      <3>4. ~ m[m[a].next].used
        BY <3>1, <3>3, <1>1, <2>1, <2>2, Zenon DEF IsSplit
      <3> QED  BY <3>1, <3>4, <2>1 DEF Holes, Free
    <2>5. m[p].used
      <3> SUFFICES ASSUME ~ m[p].used PROVE FALSE  OBVIOUS
      <3>1. c # p
        BY <1>1
      <3>2. j[a].next = m[p].next
        BY <1>1, <2>1, <2>4, <3>1, Zenon DEF IsSplit
      <3>3. m[p].next \in DOMAIN m
        BY <3>2, <2>1, GoodFacts
      <3>4. m[p].next # p /\ m[p].next # c
        BY <3>3, <1>1, GoodFacts
      <3>5. ~ m[m[p].next].used
        BY <3>2, <3>4, <1>1, <2>1, <2>2, Zenon DEF IsSplit
      <3> QED  BY <3>2, <3>5, <2>1 DEF Holes, Free
    <2> QED  BY <2>4, <2>5
  <1> QED  BY <1>2 DEF j

(* mem_malloc: the block it takes is free and large enough to be split.        *)
LEMMA MallocIInv ==
  ASSUME IInv, NEW size \in Sizes, mem_malloc(size)
  PROVE  IInv'
  <1> DEFINE n == Aligned(size)
             fit == {p \in DOMAIN mem : p >= lfree /\ ~ mem[p].used /\ Fits(mem, p, n)}
  <1>1. PICK p \in fit :
           LET from == {a \in DOMAIN mem' : a >= p /\ ~ mem'[a].used} \cup {MEM_SIZE}
           IN  /\ mem' = Split(mem, p, p + SIZEOF_STRUCT_MEM + n)
               /\ \E l \in from \cup {lfree} :
                     /\ IF p = lfree THEN IsFirst(l, from) ELSE l = lfree
                     /\ lfree' = l
               /\ live' = live \cup {[at |-> p + SIZEOF_STRUCT_MEM, size |-> size]}
    BY Zenon DEF mem_malloc
  <1> DEFINE c == p + SIZEOF_STRUCT_MEM + n
             new == [at |-> p + SIZEOF_STRUCT_MEM, size |-> size]
             from == {a \in DOMAIN mem' : a >= p /\ ~ mem'[a].used} \cup {MEM_SIZE}
  <1>2. Good(mem) /\ Holes(mem) = {}
    BY IInvGood DEF IInv, Plugged
  <1>3. n \in Nat /\ n >= size /\ size \in Nat /\ size > 0
    BY AlignedUp, HeapAssumption
  <1>4. p \in DOMAIN mem /\ p >= lfree /\ ~ mem[p].used /\ p \in Nat /\ p < MEM_SIZE
    BY <1>2, GoodFacts
  <1>5. c \in Nat /\ p + SIZEOF_STRUCT_MEM <= c /\ c + SIZEOF_STRUCT_MEM <= mem[p].next
    <2>1. Fits(mem, p, n)
      OBVIOUS
    <2>2. p + SIZEOF_STRUCT_MEM <= mem[p].next /\ mem[p].next \in Nat
      BY <1>2, <1>4, GoodFacts DEF Good, Links
    <2> QED  BY <2>1, <2>2, <1>3, <1>4, Bounds DEF Fits
  <1>6. Good(mem') /\ IsSplit(mem, p, c, mem') /\ c \notin DOMAIN mem
    BY <1>1, <1>2, <1>4, <1>5, SplitGood
  <1>7. Plugged'
    BY <1>1, <1>2, <1>4, <1>5, SplitHoles DEF Plugged
  <1>8. c \in DOMAIN mem' /\ ~ mem'[c].used /\ c # p /\ p < c /\ c < MEM_SIZE
    <2>1. c # p /\ p < c
      BY <1>4, <1>5, Bounds
    <2>2. c \in DOMAIN mem' /\ ~ mem'[c].used
      BY <1>6, <2>1, Zenon DEF IsSplit
    <2> QED  BY <2>1, <2>2, <1>6, GoodFacts
  <1>9. \A a \in DOMAIN mem' : ~ mem'[a].used => a = c \/ (a \in DOMAIN mem /\ ~ mem[a].used)
    BY <1>6, Zenon DEF IsSplit
  <1>10. LowestFree' /\ lfree' \in Nat /\ lfree' <= MEM_SIZE /\ trimmed' = trimmed
    <2>1. trimmed' = trimmed
      BY DEF mem_malloc
    <2>2. lfree \in DOMAIN mem /\ ~ mem[lfree].used /\ lfree \in Nat /\ lfree < MEM_SIZE
      BY <1>2, GoodFacts DEF IInv, LowestFree
    <2>3. ~ trimmed => \A a \in DOMAIN mem : ~ mem[a].used => lfree <= a
      BY DEF IInv, LowestFree
    <2>4. CASE p # lfree
      <3>1. lfree' = lfree
        BY <2>4, <1>1
      <3>2. lfree \in DOMAIN mem' /\ ~ mem'[lfree].used
        BY <2>2, <2>4, <1>6, Zenon DEF IsSplit
      <3>3. lfree <= c
        BY <2>2, <1>4, <1>8, <1>5
      <3>4. ASSUME ~ trimmed, NEW a \in DOMAIN mem', ~ mem'[a].used
            PROVE  lfree <= a
        BY <3>3, <3>4, <2>3, <1>9
      <3>5. lfree \in Nat /\ lfree <= MEM_SIZE
        BY <2>2, Bounds
      <3> QED  BY <3>1, <3>2, <3>4, <3>5, <2>1 DEF LowestFree
    <2>5. CASE p = lfree
      <3>1. IsFirst(lfree', from)
        BY <2>5, <1>1
      <3>2. c \in from
        BY <1>4, <1>5, <1>8
      <3>3. lfree' <= c /\ lfree' \in from
        BY <3>1, <3>2 DEF IsFirst
      <3>4. lfree' # MEM_SIZE
        BY <3>3, <1>5, <1>8, Bounds
      <3>5. lfree' \in DOMAIN mem' /\ ~ mem'[lfree'].used
        BY <3>3, <3>4
      <3>6. ASSUME ~ trimmed, NEW a \in DOMAIN mem', ~ mem'[a].used
            PROVE  lfree' <= a
        <4>1. a >= p
          BY <3>6, <2>3, <2>5, <1>4, <1>5, <1>8, <1>9
        <4>2. a \in from
          BY <4>1, <3>6
        <4> QED  BY <4>2, <3>1 DEF IsFirst
      <3>7. lfree' \in Nat /\ lfree' <= MEM_SIZE
        BY <3>5, <1>6, GoodFacts, Bounds
      <3> QED  BY <3>5, <3>6, <3>7, <2>1 DEF LowestFree
    <2> QED  BY <2>4, <2>5
  <1>11. new \in [at : Nat, size : Sizes] /\ new.at - SIZEOF_STRUCT_MEM = p
    BY <1>4, Bounds
  <1>12. TypeOK'
    <2>1. live' \subseteq [at : Nat, size : Sizes]
      BY <1>1, <1>11 DEF IInv, TypeOK
    <2>2. lfree' \in 0 .. MEM_SIZE
      BY <1>10, Bounds
    <2>3. trimmed' \in BOOLEAN
      BY <1>10 DEF IInv, TypeOK
    <2> QED  BY <2>1, <2>2, <2>3, <1>6 DEF TypeOK, Good, Header
  <1>13. Owned'
    <2>1. ASSUME NEW r \in live
          PROVE  LET b == r.at - SIZEOF_STRUCT_MEM
                 IN  /\ r.at >= SIZEOF_STRUCT_MEM
                     /\ b \in DOMAIN mem' /\ mem'[b].used
                     /\ r.at + r.size <= mem'[b].next
                     /\ r.at # new.at
      <3> DEFINE b == r.at - SIZEOF_STRUCT_MEM
      <3>1. /\ r.at >= SIZEOF_STRUCT_MEM /\ b \in DOMAIN mem /\ mem[b].used
            /\ r.at + r.size <= mem[b].next
        BY DEF IInv, Owned, OwnedBy
      <3>2. b # p /\ b # c
        BY <3>1, <1>4, <1>6
      <3>3. b \in DOMAIN mem' /\ mem'[b].used = mem[b].used /\ mem'[b].next = mem[b].next
        BY <3>1, <3>2, <1>6, Zenon DEF IsSplit
      <3> QED  BY <3>1, <3>2, <3>3, <1>11
    <2>2. p \in DOMAIN mem' /\ mem'[p].used /\ mem'[p].next = c
      BY <1>4, <1>6, Zenon DEF IsSplit
    <2>3. new.at >= SIZEOF_STRUCT_MEM /\ new.at + new.size <= c
      BY <1>3, <1>4, Bounds
    <2>4. ASSUME NEW r \in live'
          PROVE  LET b == r.at - SIZEOF_STRUCT_MEM
                 IN  /\ r.at >= SIZEOF_STRUCT_MEM
                     /\ b \in DOMAIN mem' /\ mem'[b].used
                     /\ r.at + r.size <= mem'[b].next
      <3>1. CASE r = new
        BY <3>1, <2>2, <2>3, <1>11
      <3>2. CASE r \in live
        BY <3>2, <2>1
      <3> QED  BY <3>1, <3>2, <1>1
    <2>5. ASSUME NEW a \in DOMAIN mem', mem'[a].used
          PROVE  \E r \in live' : r.at = a + SIZEOF_STRUCT_MEM
      <3>1. CASE a = p
        <4>1. new \in live' /\ new.at = a + SIZEOF_STRUCT_MEM
          BY <3>1, <1>1
        <4> QED  BY <4>1
      <3>2. CASE a # p
        <4>1. a \in DOMAIN mem /\ mem[a].used
          BY <3>2, <2>5, <1>6, <1>8, Zenon DEF IsSplit
        <4> QED  BY <4>1, <1>1 DEF IInv, Owned, OwnedBy
      <3> QED  BY <3>1, <3>2
    <2>6. ASSUME NEW r \in live', NEW s \in live', r.at = s.at
          PROVE  r = s
      BY <2>6, <2>1, <1>1 DEF IInv, Owned, OwnedBy
    <2> QED  BY <2>4, <2>5, <2>6 DEF Owned, OwnedBy
  <1> QED  BY <1>6, <1>7, <1>10, <1>12, <1>13 DEF IInv, Linked, Good


(* mem_free: the block becomes free, and only it and the block in front of it  *)
(* may have a free one behind them until plug_holes is done.                  *)
LEMMA FreeIInv ==
  ASSUME IInv, NEW r \in live, mem_free(r)
  PROVE  IInv'
  <1> DEFINE p == r.at - SIZEOF_STRUCT_MEM
             m == [mem EXCEPT ![p].used = FALSE]
             h == [m |-> m, l |-> IF p < lfree THEN p ELSE lfree]
             g == plug_holes(h, p)
  <1>1. mem' = g.m /\ lfree' = g.l /\ live' = live \ {r} /\ trimmed' = trimmed
    BY DEF mem_free
  <1> HIDE DEF g
  <1>2. Good(mem) /\ Holes(mem) = {}
    BY IInvGood DEF IInv, Plugged
  <1>3. p \in DOMAIN mem /\ mem[p].used /\ p \in Nat
    <2>1. p \in DOMAIN mem /\ mem[p].used
      BY DEF IInv, Owned, OwnedBy
    <2> QED  BY <2>1, <1>2, GoodFacts
  <1>4. /\ DOMAIN m = DOMAIN mem
        /\ \A a \in DOMAIN mem : /\ m[a] \in Header
                                 /\ m[a].next = mem[a].next /\ m[a].prev = mem[a].prev
                                 /\ m[a].used = IF a = p THEN FALSE ELSE mem[a].used
    <2>1. \A a \in DOMAIN mem : mem[a] \in Header
      BY <1>2 DEF Good
    <2> QED  BY <2>1, <1>3, Zenon DEF Header
  <1>5. Good(m)
    <2>1. m \in [DOMAIN m -> Header]
      BY <1>4, Zenon
    <2>2. Links(m)
      BY <1>2, <1>4 DEF Good, Links
    <2> QED  BY <2>1, <2>2, <1>2, <1>4 DEF Good
  <1> HIDE DEF m
  <1>6. Holes(m) \subseteq {p, m[p].prev}
    <2> SUFFICES ASSUME NEW a \in Holes(m), a # p PROVE a = m[p].prev  OBVIOUS
    <2>1. a \in DOMAIN mem /\ ~ mem[a].used /\ mem[a].next # MEM_SIZE /\ ~ m[mem[a].next].used
      BY <1>4, Zenon DEF Holes, Free
    <2>2. mem[a].next \in DOMAIN mem /\ mem[mem[a].next].prev = a
      BY <2>1, <1>2, Neighbours
    <2>3. mem[a].next = p
      BY <2>1, <2>2, <1>2, <1>4, Zenon DEF Holes, Free
    <2> QED  BY <2>2, <2>3, <1>3, <1>4, Zenon
  <1>7. lfree \in DOMAIN mem /\ ~ mem[lfree].used /\ lfree \in Nat
    BY <1>2, GoodFacts DEF IInv, LowestFree
  <1>8. h.m = m /\ h.l \in DOMAIN m /\ ~ m[h.l].used /\ h.l <= p /\ h.l <= lfree /\ h.l \in Nat
    <2>1. p \in DOMAIN m /\ ~ m[p].used /\ lfree \in DOMAIN m /\ ~ m[lfree].used
      BY <1>3, <1>4, <1>7, Zenon
    <2>2. h.m = m /\ h.l = IF p < lfree THEN p ELSE lfree
      OBVIOUS
    <2>3. CASE p < lfree
      BY <2>1, <2>2, <2>3, <1>3, <1>7
    <2>4. CASE ~ (p < lfree)
      BY <2>1, <2>2, <2>4, <1>3, <1>7
    <2> QED  BY <2>3, <2>4
  <1> HIDE DEF h
  <1>9. /\ Good(g.m) /\ Kept(m, g.m) /\ Holes(g.m) = {}
        /\ g.l \in DOMAIN g.m /\ ~ g.m[g.l].used /\ g.l <= h.l
    <2>1. p \in DOMAIN h.m /\ ~ h.m[p].used
      BY <1>3, <1>4, <1>8, Zenon
    <2>2. Good(h.m) /\ Holes(h.m) \subseteq {p, h.m[p].prev}
      BY <1>5, <1>6, <1>8
    <2> QED  BY <2>1, <2>2, <1>8, PlugHolesKeeps, Zenon DEF g
  <1>10. g.l \in Nat /\ g.l < MEM_SIZE
    BY <1>9, GoodFacts
  <1>11. LowestFree'
    <2>1. ASSUME ~ trimmed, NEW a \in DOMAIN g.m, ~ g.m[a].used
          PROVE  g.l <= a
      <3>1. a \in DOMAIN mem /\ ~ m[a].used /\ a \in Nat
        BY <2>1, <1>2, <1>4, <1>9, GoodFacts DEF Kept
      <3>2. a = p \/ lfree <= a
        BY <2>1, <3>1, <1>4, Zenon DEF IInv, LowestFree
      <3> QED  BY <3>1, <3>2, <1>3, <1>7, <1>8, <1>9, <1>10
    <2> QED  BY <2>1, <1>1, <1>9 DEF LowestFree
  <1>12. TypeOK'
    <2>1. lfree' \in 0 .. MEM_SIZE
      BY <1>1, <1>10, Bounds
    <2>2. live' \subseteq [at : Nat, size : Sizes] /\ trimmed' \in BOOLEAN
      BY <1>1 DEF IInv, TypeOK
    <2> QED  BY <2>1, <2>2, <1>1, <1>9 DEF TypeOK, Good, Header
  <1>13. Owned'
    <2>1. ASSUME NEW s \in live'
          PROVE  LET b == s.at - SIZEOF_STRUCT_MEM
                 IN  /\ s.at >= SIZEOF_STRUCT_MEM
                     /\ b \in DOMAIN mem' /\ mem'[b].used
                     /\ s.at + s.size <= mem'[b].next
      <3> DEFINE b == s.at - SIZEOF_STRUCT_MEM
      <3>1. s \in live /\ s # r
        BY <1>1
      <3>2. s.at \in Nat /\ r.at \in Nat /\ s.at # r.at
        BY <3>1 DEF IInv, TypeOK, Owned, OwnedBy
      <3>3. /\ s.at >= SIZEOF_STRUCT_MEM /\ b \in DOMAIN mem /\ mem[b].used
            /\ s.at + s.size <= mem[b].next
        BY <3>1 DEF IInv, Owned, OwnedBy
      <3>4. b # p
        BY <3>2, Bounds
      <3>5. m[b].used /\ m[b].next = mem[b].next
        BY <3>3, <3>4, <1>4, Zenon
      <3>6. b \in DOMAIN g.m /\ g.m[b].used /\ g.m[b].next = mem[b].next
        BY <3>3, <3>5, <1>4, <1>9 DEF Kept
      <3> QED  BY <3>3, <3>6, <1>1
    <2>2. ASSUME NEW a \in DOMAIN mem', mem'[a].used
          PROVE  \E s \in live' : s.at = a + SIZEOF_STRUCT_MEM
      <3>1. a \in DOMAIN mem /\ m[a].used
        BY <2>2, <1>1, <1>4, <1>9 DEF Kept
      <3>2. a # p /\ mem[a].used /\ a \in Nat
        BY <3>1, <1>2, <1>3, <1>4, GoodFacts, Zenon
      <3>3. PICK s \in live : s.at = a + SIZEOF_STRUCT_MEM
        BY <3>1, <3>2 DEF IInv, Owned, OwnedBy
      <3>4. s # r
        BY <3>2, <3>3, Bounds
      <3> QED  BY <3>3, <3>4, <1>1
    <2>3. \A s, t \in live' : s.at = t.at => s = t
      BY <1>1 DEF IInv, Owned, OwnedBy
    <2> QED  BY <2>1, <2>2, <2>3 DEF Owned, OwnedBy
  <1> QED  BY <1>1, <1>9, <1>11, <1>12, <1>13 DEF IInv, Linked, Plugged, Good


(* mem_realloc: what is cut off is a free block behind a used one, which        *)
(* plug_holes joins with the one behind it; a shorter region still fits.      *)
LEMMA ReallocIInv ==
  ASSUME IInv, NEW r \in live, NEW size \in Sizes, mem_realloc(r, size)
  PROVE  IInv'
  <1> DEFINE n == Aligned(size)
             p == r.at - SIZEOF_STRUCT_MEM
             c == p + SIZEOF_STRUCT_MEM + n
             m == Split(mem, p, c)
             h == [m |-> m, l |-> lfree]
             g == plug_holes(h, c)
             new == [r EXCEPT !.size = size]
             cut == n + SIZEOF_STRUCT_MEM + MIN_SIZE < mem[p].next - p - SIZEOF_STRUCT_MEM
  <1>1. /\ live' = (live \ {r}) \cup {new} /\ size <= r.size
        /\ cut => mem' = g.m /\ lfree' = g.l /\ trimmed' = (trimmed \/ c < g.l)
        /\ ~ cut => mem' = mem /\ lfree' = lfree /\ trimmed' = trimmed
    BY DEF mem_realloc
  <1> HIDE DEF g, cut
  <1>2. Good(mem) /\ Holes(mem) = {}
    BY IInvGood DEF IInv, Plugged
  <1>3. n \in Nat /\ n >= size /\ size \in Nat /\ r.at \in Nat /\ r.size \in Nat
    BY AlignedUp, HeapAssumption DEF IInv, TypeOK
  <1>4. /\ p \in DOMAIN mem /\ mem[p].used /\ p \in Nat
        /\ r.at >= SIZEOF_STRUCT_MEM /\ r.at + r.size <= mem[p].next
        /\ mem[p].next \in Nat
    <2>1. /\ p \in DOMAIN mem /\ mem[p].used
          /\ r.at >= SIZEOF_STRUCT_MEM /\ r.at + r.size <= mem[p].next
      BY DEF IInv, Owned, OwnedBy
    <2> QED  BY <2>1, <1>2, GoodFacts
  <1>5. new \in [at : Nat, size : Sizes] /\ new.at = r.at /\ new.size = size
    BY <1>3 DEF IInv, TypeOK
  <1> HIDE DEF new
  <1>6. live' \subseteq [at : Nat, size : Sizes]
    BY <1>1, <1>5 DEF IInv, TypeOK
  <1>7. \A s, t \in live' : s.at = t.at => s = t
    BY <1>1, <1>5 DEF IInv, Owned, OwnedBy
  <1>8. CASE ~ cut
    <2>1. mem' = mem /\ lfree' = lfree /\ trimmed' = trimmed
      BY <1>1, <1>8
    <2>2. new.at + new.size <= mem[p].next
      BY <1>1, <1>3, <1>4, <1>5
    <2>3. ASSUME NEW s \in live'
          PROVE  LET b == s.at - SIZEOF_STRUCT_MEM
                 IN  /\ s.at >= SIZEOF_STRUCT_MEM
                     /\ b \in DOMAIN mem /\ mem[b].used
                     /\ s.at + s.size <= mem[b].next
      <3>1. CASE s = new
        BY <3>1, <2>2, <1>4, <1>5
      <3>2. CASE s \in live
        BY <3>2 DEF IInv, Owned, OwnedBy
      <3> QED  BY <3>1, <3>2, <1>1
    <2>4. ASSUME NEW a \in DOMAIN mem, mem[a].used
          PROVE  \E s \in live' : s.at = a + SIZEOF_STRUCT_MEM
      <3>1. PICK s \in live : s.at = a + SIZEOF_STRUCT_MEM
        BY <2>4 DEF IInv, Owned, OwnedBy
      <3>2. CASE s = r
        BY <3>1, <3>2, <1>1, <1>5
      <3>3. CASE s # r
        BY <3>1, <3>3, <1>1
      <3> QED  BY <3>2, <3>3
    <2>5. Owned'
      BY <2>1, <2>3, <2>4, <1>7 DEF Owned, OwnedBy
    <2>6. TypeOK' /\ Linked' /\ Plugged' /\ LowestFree'
      BY <2>1, <1>6 DEF IInv, TypeOK, Linked, Plugged, LowestFree
    <2> QED  BY <2>5, <2>6 DEF IInv
  <1>9. CASE cut
    <2>1. c \in Nat /\ p + SIZEOF_STRUCT_MEM <= c /\ c + SIZEOF_STRUCT_MEM <= mem[p].next
      BY <1>3, <1>4, <1>9, Bounds DEF cut
    <2>2. Good(m) /\ IsSplit(mem, p, c, m) /\ c \notin DOMAIN mem /\ Holes(m) \subseteq {c}
      BY <2>1, <1>2, <1>4, SplitGood, SplitHoles
    <2> HIDE DEF m
    <2>3. c # p /\ c \in DOMAIN m /\ ~ m[c].used /\ m[p].used /\ m[p].next = c
      BY <2>2, <1>4, Zenon DEF IsSplit
    <2>4. \A a \in DOMAIN mem : a # p => a \in DOMAIN m /\ m[a].used = mem[a].used
                                         /\ m[a].next = mem[a].next
      BY <2>2, Zenon DEF IsSplit
    <2>5. lfree \in DOMAIN mem /\ ~ mem[lfree].used /\ lfree \in Nat
      BY <1>2, GoodFacts DEF IInv, LowestFree
    <2>6. h.m = m /\ h.l = lfree /\ lfree \in DOMAIN m /\ ~ m[lfree].used
      BY <2>4, <2>5, <1>4
    <2> HIDE DEF h
    <2>7. /\ Good(g.m) /\ Kept(m, g.m) /\ Holes(g.m) = {}
          /\ g.l \in DOMAIN g.m /\ ~ g.m[g.l].used /\ g.l <= lfree
      <3>1. Good(h.m) /\ c \in DOMAIN h.m /\ ~ h.m[c].used
            /\ Holes(h.m) \subseteq {c, h.m[c].prev}
            /\ h.l \in DOMAIN h.m /\ ~ h.m[h.l].used
        BY <2>2, <2>3, <2>6
      <3> QED  BY SMTT(30), <3>1, <2>6, PlugHolesKeeps, SMTT(30) DEF g
    <2>8. mem' = g.m /\ lfree' = g.l /\ trimmed' = (trimmed \/ c < g.l)
      BY <1>1, <1>9
    <2>9. g.l \in Nat /\ g.l < MEM_SIZE
      BY <2>7, GoodFacts
    <2>10. LowestFree'
      <3>1. ASSUME ~ trimmed', NEW a \in DOMAIN g.m, ~ g.m[a].used
            PROVE  g.l <= a
        <4>1. a \in DOMAIN m /\ ~ m[a].used
          BY <3>1, <2>7 DEF Kept
        <4>2. CASE a = c
          <5>1. ~ (c < g.l)
            BY <3>1, <2>8, Zenon
          <5> QED  BY <5>1, <4>2, <2>1, <2>9
        <4>3. CASE a # c
          <5>1. a \in DOMAIN mem /\ ~ mem[a].used
            BY <4>1, <4>3, <2>2, <2>3, Zenon DEF IsSplit
          <5>2. lfree <= a /\ a \in Nat
            BY <5>1, <3>1, <2>8, <1>2, GoodFacts DEF IInv, LowestFree, TypeOK
          <5> QED  BY <5>2, <2>5, <2>7, <2>9
        <4> QED  BY <4>2, <4>3
      <3> QED  BY <3>1, <2>7, <2>8 DEF LowestFree
    <2>11. TypeOK'
      <3>1. lfree' \in 0 .. MEM_SIZE
        BY <2>8, <2>9, Bounds
      <3>2. trimmed' \in BOOLEAN
        BY <2>8 DEF IInv, TypeOK
      <3> QED  BY <3>1, <3>2, <2>7, <2>8, <1>6 DEF TypeOK, Good, Header
    <2>12. Owned'
      <3>1. p \in DOMAIN g.m /\ g.m[p].used /\ g.m[p].next = c
        BY <2>2, <2>3, <2>7, <1>4 DEF Kept, IsSplit
      <3>2. new.at + new.size <= c /\ new.at - SIZEOF_STRUCT_MEM = p
        BY <1>3, <1>4, <1>5, Bounds
      <3>3. ASSUME NEW s \in live'
            PROVE  LET b == s.at - SIZEOF_STRUCT_MEM
                   IN  /\ s.at >= SIZEOF_STRUCT_MEM
                       /\ b \in DOMAIN g.m /\ g.m[b].used
                       /\ s.at + s.size <= g.m[b].next
        <4>1. CASE s = new
          BY <4>1, <3>1, <3>2, <1>4, <1>5
        <4>2. CASE s \in live /\ s # r
          <5> DEFINE b == s.at - SIZEOF_STRUCT_MEM
          <5>1. /\ s.at >= SIZEOF_STRUCT_MEM /\ b \in DOMAIN mem /\ mem[b].used
                /\ s.at + s.size <= mem[b].next
            BY <4>2 DEF IInv, Owned, OwnedBy
          <5>2. s.at # r.at /\ s.at \in Nat
            BY <4>2 DEF IInv, TypeOK, Owned, OwnedBy
          <5>3. b # p
            BY <5>2, <1>3, Bounds
          <5>4. b \in DOMAIN g.m /\ g.m[b].used /\ g.m[b].next = mem[b].next
            BY <5>1, <5>3, <2>4, <2>7 DEF Kept
          <5> QED  BY <5>1, <5>4
        <4> QED  BY <4>1, <4>2, <1>1
      <3>4. ASSUME NEW a \in DOMAIN g.m, g.m[a].used
            PROVE  \E s \in live' : s.at = a + SIZEOF_STRUCT_MEM
        <4>1. a \in DOMAIN mem /\ mem[a].used
          <5>1. a \in DOMAIN m /\ m[a].used
            BY <3>4, <2>7 DEF Kept
          <5>2. a # c
            BY <5>1, <2>3
          <5>3. a = p \/ mem[a].used
            BY <5>1, <5>2, <2>2, Zenon DEF IsSplit
          <5> QED  BY <5>1, <5>2, <5>3, <2>2, <1>4 DEF IsSplit
        <4>2. PICK s \in live : s.at = a + SIZEOF_STRUCT_MEM
          BY <4>1 DEF IInv, Owned, OwnedBy
        <4>3. CASE s = r
          BY <4>2, <4>3, <1>1, <1>5
        <4>4. CASE s # r
          BY <4>2, <4>4, <1>1
        <4> QED  BY <4>3, <4>4
      <3> QED  BY <3>3, <3>4, <2>8, <1>7, SMTT(30) DEF Owned, OwnedBy
    <2> QED  BY <2>7, <2>8, <2>10, <2>11, <2>12 DEF IInv, Linked, Plugged, Good
  <1> QED  BY <1>8, <1>9

-----------------------------------------------------------------------------
(* The invariant holds for every heap size, header size, alignment and set of  *)
(* request sizes, and every sequence of calls.                                *)
LEMMA HeapInvariant == Spec => []IInv
  <1>1. mem_init => IInv
    BY InitIInv
  <1>2. IInv /\ [Next]_vars => IInv'
    <2> SUFFICES ASSUME IInv, [Next]_vars PROVE IInv'  OBVIOUS
    <2>1. CASE UNCHANGED vars
      BY <2>1 DEF vars, IInv, TypeOK, Linked, Plugged, LowestFree, Owned
    <2>2. ASSUME NEW size \in Sizes, mem_malloc(size) PROVE IInv'
      BY <2>2, MallocIInv
    <2>3. ASSUME NEW r \in live, mem_free(r) PROVE IInv'
      BY <2>3, FreeIInv
    <2>4. ASSUME NEW r \in live, NEW size \in Sizes, mem_realloc(r, size) PROVE IInv'
      BY <2>4, ReallocIInv
    <2> QED  BY <2>1, <2>2, <2>3, <2>4 DEF Next
  <1> QED  BY <1>1, <1>2, PTL DEF Spec


(* Alignment.  What % says, as multiples, which can be added up.              *)
Multiple(x) == \E k \in Int : x = k * MEM_ALIGNMENT

LEMMA MultipleSum ==
  ASSUME NEW x \in Int, NEW y \in Int, Multiple(x), Multiple(y)
  PROVE  Multiple(x + y) /\ Multiple(x - y)
  <1>1. PICK k \in Int : x = k * MEM_ALIGNMENT
    BY DEF Multiple
  <1>2. PICK l \in Int : y = l * MEM_ALIGNMENT
    BY DEF Multiple
  <1>3. /\ x + y = (k + l) * MEM_ALIGNMENT /\ k + l \in Int
        /\ x - y = (k - l) * MEM_ALIGNMENT /\ k - l \in Int
    BY <1>1, <1>2, Bounds
  <1> QED  BY <1>3, Zenon DEF Multiple

LEMMA Remainder ==
  ASSUME NEW x \in Nat
  PROVE  /\ x % MEM_ALIGNMENT \in Nat /\ x % MEM_ALIGNMENT < MEM_ALIGNMENT
         /\ Multiple(x - (x % MEM_ALIGNMENT))
  <1> DEFINE q == x \div MEM_ALIGNMENT
             r == x % MEM_ALIGNMENT
  <1>1. q \in Nat /\ r \in Nat /\ r < MEM_ALIGNMENT /\ x = q * MEM_ALIGNMENT + r
    BY Bounds
  <1> HIDE DEF q, r
  <1>2. x - r = q * MEM_ALIGNMENT /\ q \in Int
    BY <1>1, Bounds
  <1> QED  BY <1>1, <1>2 DEF Multiple, r

(* The only multiple between two neighbours is zero.                         *)
LEMMA SmallMultiple ==
  ASSUME NEW r \in Int, -MEM_ALIGNMENT < r, r < MEM_ALIGNMENT, Multiple(r)
  PROVE  r = 0
  <1>1. PICK k \in Int : r = k * MEM_ALIGNMENT
    BY DEF Multiple
  <1>2. k < 1
    BY <1>1, Bounds
  <1>3. k > -1
    BY <1>1, Bounds
  <1> QED  BY <1>1, <1>2, <1>3, Bounds

LEMMA ZeroRemainder == ASSUME NEW x \in Nat
                       PROVE  x % MEM_ALIGNMENT = 0 <=> Multiple(x)
  <1> DEFINE r == x % MEM_ALIGNMENT
  <1>1. r \in Nat /\ r < MEM_ALIGNMENT /\ Multiple(x - r)
    BY Remainder
  <1> HIDE DEF r
  <1>2. ASSUME r = 0 PROVE Multiple(x)
    <2>1. x - r = x
      BY <1>2
    <2> QED  BY <1>1, <2>1
  <1>3. ASSUME Multiple(x) PROVE r = 0
    <2>1. x - (x - r) = r /\ x - r \in Int /\ r > -MEM_ALIGNMENT
      BY <1>1, Bounds
    <2>2. Multiple(x - (x - r))
      BY <1>1, <1>3, <2>1, MultipleSum
    <2> QED  BY <1>1, <2>1, <2>2, SmallMultiple
  <1> QED  BY <1>2, <1>3 DEF r

(* What mem_malloc and mem_realloc round a size up to is a multiple, although *)
(* the remainder they take is that of the size with a header.                *)
LEMMA AlignedMultiple == ASSUME NEW n \in Nat PROVE Multiple(Aligned(n))
  <1>1. CASE n % MEM_ALIGNMENT = 0
    BY <1>1, ZeroRemainder DEF Aligned
  <1>2. CASE n % MEM_ALIGNMENT # 0
    <2> DEFINE r == (n + SIZEOF_STRUCT_MEM) % MEM_ALIGNMENT
    <2>1. n + SIZEOF_STRUCT_MEM \in Nat /\ SIZEOF_STRUCT_MEM \in Nat
      BY Bounds
    <2>2. r \in Nat /\ Multiple(n + SIZEOF_STRUCT_MEM - r)
      BY <2>1, Remainder
    <2>3. Aligned(n) = n + MEM_ALIGNMENT - r
      BY <1>2 DEF Aligned
    <2> HIDE DEF r
    <2>4. Multiple(SIZEOF_STRUCT_MEM) /\ Multiple(MEM_ALIGNMENT)
      <3>1. SIZEOF_STRUCT_MEM % MEM_ALIGNMENT = 0
        BY HeapAssumption
      <3>2. MEM_ALIGNMENT = 1 * MEM_ALIGNMENT
        BY Bounds
      <3> QED  BY <3>1, <3>2, <2>1, ZeroRemainder DEF Multiple
    <2> DEFINE a == n + SIZEOF_STRUCT_MEM - r
               b == a - SIZEOF_STRUCT_MEM
    <2>5. a \in Int /\ b \in Int
      BY <2>1, <2>2
    <2>6. Multiple(b)
      BY <2>1, <2>2, <2>4, <2>5, MultipleSum
    <2>7. Multiple(b + MEM_ALIGNMENT)
      BY <2>4, <2>5, <2>6, Bounds, MultipleSum
    <2>8. b + MEM_ALIGNMENT = Aligned(n)
      BY <2>1, <2>2, <2>3, Bounds
    <2> QED  BY <2>7, <2>8
  <1> QED  BY <1>1, <1>2

(* Every header is at a multiple: an invariant of its own, which rests on IInv *)
(* for what the callers hold.                                                *)
InPlace == \A p \in DOMAIN mem : Multiple(p)

(* A block is cut at a multiple.                                             *)
LEMMA CutMultiple ==
  ASSUME IInv, InPlace, NEW p \in DOMAIN mem, NEW size \in Sizes
  PROVE  /\ Multiple(p + SIZEOF_STRUCT_MEM)
         /\ Multiple(p + SIZEOF_STRUCT_MEM + Aligned(size))
  <1>1. p \in Nat /\ SIZEOF_STRUCT_MEM \in Nat /\ size \in Nat /\ Aligned(size) \in Nat
    BY Zenon, IInvGood, GoodFacts, Bounds, HeapAssumption, AlignedUp
  <1>2. Multiple(p) /\ Multiple(SIZEOF_STRUCT_MEM) /\ Multiple(Aligned(size))
    BY <1>1, HeapAssumption, ZeroRemainder, AlignedMultiple DEF InPlace
  <1>3. Multiple(p + SIZEOF_STRUCT_MEM)
    BY <1>1, <1>2, MultipleSum
  <1> QED  BY <1>1, <1>2, <1>3, MultipleSum

(* plug_holes takes headers away and puts none anywhere else.                 *)
LEMMA PlugHolesDomain ==
  ASSUME NEW h, NEW p PROVE DOMAIN plug_holes(h, p).m \subseteq DOMAIN h.m
  <1>1. ASSUME NEW k, NEW a PROVE DOMAIN Plug(k, a).m \subseteq DOMAIN k.m
    BY DEF Plug, Join
  <1>2. DOMAIN plug_forward(h, p).m \subseteq DOMAIN h.m
    BY <1>1, Zenon DEF plug_forward
  <1>3. ASSUME NEW k PROVE DOMAIN plug_backward(k, p).m \subseteq DOMAIN k.m
    BY <1>1, Zenon DEF plug_backward
  <1> QED  BY <1>2, <1>3 DEF plug_holes

LEMMA InPlaceStep == IInv /\ InPlace /\ [Next]_vars => InPlace'
  <1> SUFFICES ASSUME IInv, InPlace, [Next]_vars PROVE InPlace'  OBVIOUS
  <1>1. CASE UNCHANGED vars
    BY <1>1 DEF vars, InPlace
  <1>2. ASSUME NEW size \in Sizes, mem_malloc(size) PROVE InPlace'
    <2>1. PICK p \in DOMAIN mem :
             mem' = Split(mem, p, p + SIZEOF_STRUCT_MEM + Aligned(size))
      BY <1>2 DEF mem_malloc
    <2>2. DOMAIN mem' = DOMAIN mem \cup {p + SIZEOF_STRUCT_MEM + Aligned(size)}
      BY <2>1 DEF Split
    <2> QED  BY <2>2, CutMultiple DEF InPlace
  <1>3. ASSUME NEW r \in live, mem_free(r) PROVE InPlace'
    <2> DEFINE p == r.at - SIZEOF_STRUCT_MEM
               h == [m |-> [mem EXCEPT ![p].used = FALSE],
                     l |-> IF p < lfree THEN p ELSE lfree]
    <2>1. mem' = plug_holes(h, p).m
      BY <1>3 DEF mem_free
    <2>2. DOMAIN h.m = DOMAIN mem
      OBVIOUS
    <2> HIDE DEF h
    <2> QED  BY <2>1, <2>2, PlugHolesDomain DEF InPlace
  <1>4. ASSUME NEW r \in live, NEW size \in Sizes, mem_realloc(r, size) PROVE InPlace'
    <2> DEFINE p == r.at - SIZEOF_STRUCT_MEM
               c == p + SIZEOF_STRUCT_MEM + Aligned(size)
               h == [m |-> Split(mem, p, c), l |-> lfree]
    <2>1. mem' = plug_holes(h, c).m \/ mem' = mem
      BY <1>4 DEF mem_realloc
    <2>2. DOMAIN h.m = DOMAIN mem \cup {c}
      BY DEF Split
    <2>3. p \in DOMAIN mem
      BY DEF IInv, Owned, OwnedBy
    <2>4. Multiple(c)
      BY <2>3, CutMultiple
    <2> HIDE DEF c, h
    <2> QED  BY <2>1, <2>2, <2>4, PlugHolesDomain DEF InPlace
  <1> QED  BY <1>1, <1>2, <1>3, <1>4 DEF Next

(* Regions start at multiples of MEM_ALIGNMENT, as mem_malloc asserts, for     *)
(* every alignment, header size and size of the requests.                    *)
THEOREM RegionsAligned == Spec => []AlignedRegions
  <1>1. mem_init => InPlace
    <2>1. 0 = 0 * MEM_ALIGNMENT /\ 0 \in Int
      BY Bounds
    <2>2. Multiple(0)
      BY <2>1, Zenon DEF Multiple
    <2> QED  BY <2>2 DEF mem_init, InPlace
  <1>2. IInv /\ InPlace => AlignedRegions
    <2> SUFFICES ASSUME IInv, InPlace, NEW r \in live PROVE r.at % MEM_ALIGNMENT = 0
      BY DEF AlignedRegions
    <2> DEFINE p == r.at - SIZEOF_STRUCT_MEM
    <2>1. p \in DOMAIN mem /\ r.at \in Nat /\ r.size \in Sizes
      BY DEF IInv, TypeOK, Owned, OwnedBy
    <2>2. p + SIZEOF_STRUCT_MEM = r.at
      BY <2>1, Bounds
    <2>3. Multiple(p + SIZEOF_STRUCT_MEM)
      BY <2>1, CutMultiple
    <2> QED  BY <2>1, <2>2, <2>3, ZeroRemainder
  <1> QED  BY <1>1, <1>2, InPlaceStep, HeapInvariant, PTL DEF Spec

-----------------------------------------------------------------------------
(* The list of blocks stays whole through mem_malloc, mem_free and            *)
(* mem_realloc.                                                              *)
THEOREM ListWhole == Spec => []Linked
  <1>1. IInv => Linked
    BY DEF IInv
  <1> QED  BY <1>1, HeapInvariant, PTL

(* plug_holes leaves no two free blocks side by side, whatever was freed and  *)
(* cut off before.                                                          *)
THEOREM HolesPlugged == Spec => []Plugged
  <1>1. IInv => Plugged
    BY DEF IInv
  <1> QED  BY <1>1, HeapInvariant, PTL

(* lfree is a free block, the lowest unless mem_realloc cut one off below it,  *)
(* so that mem_malloc, which looks from lfree on, misses none.                *)
THEOREM NoneMissed == Spec => []LowestFree
  <1>1. IInv => LowestFree
    BY DEF IInv
  <1> QED  BY <1>1, HeapInvariant, PTL

(* Every used block belongs to exactly one caller and is large enough.        *)
THEOREM BlocksOwned == Spec => []Owned
  <1>1. IInv => Owned
    BY DEF IInv
  <1> QED  BY <1>1, HeapInvariant, PTL

(* mem.c implements the allocator: what mem_malloc returns lies inside the     *)
(* heap, apart from all that callers hold, and stays theirs.                  *)
THEOREM HeapImplementsAllocator == Spec => ImplementsAllocator
  <1>1. mem_init => A!Init
    BY DEF mem_init, A!Init
  <1>2. IInv /\ IInv' /\ [Next]_vars => [A!Next]_live
    <2> SUFFICES ASSUME IInv, IInv', [Next]_vars PROVE [A!Next]_live  OBVIOUS
    <2>1. CASE UNCHANGED vars
      BY <2>1 DEF vars
    <2>2. ASSUME NEW size \in Sizes, mem_malloc(size) PROVE A!Malloc
      <3>1. PICK p \in DOMAIN mem :
               /\ ~ mem[p].used
               /\ live' = live \cup {[at |-> p + SIZEOF_STRUCT_MEM, size |-> size]}
        BY <2>2 DEF mem_malloc
      <3> DEFINE new == [at |-> p + SIZEOF_STRUCT_MEM, size |-> size]
      <3>2. Good(mem) /\ p \in Nat
        BY IInvGood, GoodFacts
      <3>3. Good(mem') /\ live' \subseteq [at : Nat, size : Sizes] /\ OwnedBy(mem', live')
        BY DEF IInv, TypeOK, Linked, Owned, Good, Header
      <3>4. /\ \A r \in live' : A!Inside(r)
            /\ \A r, s \in live' : r # s => A!Apart(r, s)
        BY <3>3, OwnedApart
      <3>5. new \in live' /\ new.at \in Nat /\ new.size \in Nat
        BY <3>1, <3>2, HeapAssumption, Bounds
      <3>6. new \in A!Region
        <4>1. new.at + new.size <= MEM_SIZE
          BY <3>4, <3>5 DEF A!Inside
        <4>2. new.at \in 0 .. MEM_SIZE
          BY <4>1, <3>5, Bounds
        <4> QED  BY <4>2 DEF A!Region
      <3>7. ASSUME NEW s \in live PROVE s # new
        <4>1. s.at - SIZEOF_STRUCT_MEM \in DOMAIN mem /\ mem[s.at - SIZEOF_STRUCT_MEM].used
          BY DEF IInv, Owned, OwnedBy
        <4>2. s = new => s.at - SIZEOF_STRUCT_MEM = p
          BY <3>2, Bounds
        <4> QED  BY <4>1, <4>2, <3>1
      <3>8. \A s \in live : A!Apart(new, s)
        BY <3>1, <3>4, <3>5, <3>7
      <3>9. A!Inside(new)
        BY <3>4, <3>5
      <3> QED  BY <3>1, <3>6, <3>8, <3>9 DEF A!Malloc
    <2>3. ASSUME NEW r \in live, mem_free(r) PROVE A!Free
      BY <2>3 DEF mem_free, A!Free
    <2>4. ASSUME NEW r \in live, NEW size \in Sizes, mem_realloc(r, size) PROVE A!Shrink
      BY <2>4 DEF mem_realloc, A!Shrink
    <2> QED  BY <2>1, <2>2, <2>3, <2>4 DEF Next, A!Next
  <1> QED  BY <1>1, <1>2, HeapInvariant, PTL DEF Spec, A!Spec, ImplementsAllocator
==============================================================================
