-------------------------- MODULE LinkedList_proofs --------------------------
(* What appending to a list, taking its first element and writing links      *)
(* elsewhere do to it.                                                      *)
EXTENDS LinkedList, Integers, Sequences, WellFoundedInduction, TLAPS

(* A list is empty, or has its first and its last element among the threads. *)
LEMMA ChainEnds ==
    ASSUME NEW T, NEW S, NEW n \in Nat, NEW f, NEW l, NEW link,
           Chain(T, S, n, f, l, link)
    PROVE  /\ S \subseteq T
           /\ n = 0 <=> S = {}
           /\ n > 0 => f \in S /\ l \in S
           /\ n = 1 => f = l /\ S = {f}
           /\ n > 1 => f # l
<1>1. PICK q \in [1 .. n -> T] :
        /\ Follows(q, n, f, l, link)
        /\ \A i, j \in 1 .. n : q[i] = q[j] => i = j
        /\ S = {q[i] : i \in 1 .. n}
  BY DEF Chain, Lists
<1>2. n > 0 => 1 \in 1 .. n /\ n \in 1 .. n
  OBVIOUS
<1>3. n > 0 => q[1] = f /\ q[n] = l
  BY <1>1 DEF Follows
<1>4. S \subseteq T
  BY <1>1
<1>5. n = 0 <=> S = {}
  BY <1>1, <1>2
<1>6. n > 0 => f \in S /\ l \in S
  BY <1>1, <1>2, <1>3
<1>7. n = 1 => f = l /\ S = {f}
  BY <1>1, <1>3
<1>8. n > 1 => f # l
  BY <1>1, <1>2, <1>3
<1> QED
  BY <1>4, <1>5, <1>6, <1>7, <1>8

(* The empty list has any ends and links.                                   *)
LEMMA ChainEmpty ==
    ASSUME NEW T, NEW f, NEW l, NEW link
    PROVE  Chain(T, {}, 0, f, l, link)
<1> DEFINE q == [i \in 1 .. 0 |-> f]
<1>1. q \in [1 .. 0 -> T]
  OBVIOUS
<1>2. {} = {q[i] : i \in 1 .. 0}
  OBVIOUS
<1>3. Follows(q, 0, f, l, link) /\ \A i, j \in 1 .. 0 : q[i] = q[j] => i = j
  BY DEF Follows
<1> QED
  BY Zenon, <1>1, <1>2, <1>3 DEF Chain, Lists

(* A list of one.                                                           *)
LEMMA ChainOne ==
    ASSUME NEW T, NEW t \in T, NEW link
    PROVE  Chain(T, {t}, 1, t, t, link)
<1> DEFINE q == [i \in 1 .. 1 |-> t]
<1>1. q \in [1 .. 1 -> T] /\ q[1] = t
  OBVIOUS
<1>2. {t} = {q[i] : i \in 1 .. 1}
  OBVIOUS
<1>3. Follows(q, 1, t, t, link) /\ \A i, j \in 1 .. 1 : q[i] = q[j] => i = j
  BY <1>1 DEF Follows
<1> QED
  BY <1>1, <1>2, <1>3 DEF Chain, Lists

(* Only the links of the elements but the last matter.                      *)
LEMMA ListsFrame ==
    ASSUME NEW S, NEW n \in Nat, NEW f, NEW l, NEW link, NEW new, NEW q,
           Lists(q, S, n, f, l, link),
           \A t \in S : t # l => new[t] = link[t]
    PROVE  Lists(q, S, n, f, l, new)
<1>1. /\ Follows(q, n, f, l, link)
      /\ \A i, j \in 1 .. n : q[i] = q[j] => i = j
      /\ S = {q[i] : i \in 1 .. n}
  BY DEF Lists
<1>2. ASSUME NEW i \in 1 .. n, i < n PROVE new[q[i]] = q[i + 1]
  <2>1. q[i] \in S /\ q[n] = l /\ q[i] # q[n]
    BY <1>1, <1>2 DEF Follows
  <2> QED
    BY <1>1, <1>2, <2>1 DEF Follows
<1>3. Follows(q, n, f, l, new)
  BY <1>1, <1>2 DEF Follows
<1> QED
  BY <1>1, <1>3 DEF Lists

LEMMA ChainFrame ==
    ASSUME NEW T, NEW S, NEW n \in Nat, NEW f, NEW l, NEW link, NEW new,
           Chain(T, S, n, f, l, link),
           \A t \in S : t # l => new[t] = link[t]
    PROVE  Chain(T, S, n, f, l, new)
  BY ListsFrame DEF Chain

(* The new links go from the last element of S to t.                        *)
Links(S, l, t, link, new) ==
    new[l] = t /\ \A u \in S : u # l => new[u] = link[u]

(* The last element is linked to a new one.                                 *)
LEMMA ListsAppend ==
    ASSUME NEW T, NEW S, NEW n \in Nat \ {0}, NEW f, NEW l, NEW link, NEW new,
           NEW t \in T, t \notin S, NEW q \in [1 .. n -> T],
           Lists(q, S, n, f, l, link), Links(S, l, t, link, new)
    PROVE  /\ Append(q, t) \in [1 .. n + 1 -> T]
           /\ Lists(Append(q, t), S \cup {t}, n + 1, f, t, new)
<1>1. /\ Follows(q, n, f, l, link)
      /\ \A i, j \in 1 .. n : q[i] = q[j] => i = j
      /\ S = {q[i] : i \in 1 .. n}
  BY DEF Lists
<1> DEFINE p == Append(q, t)
<1>0. q \in Seq(T) /\ Len(q) = n
  OBVIOUS
<1>2. /\ p \in [1 .. n + 1 -> T]
      /\ p[n + 1] = t
      /\ \A i \in 1 .. n : p[i] = q[i] /\ q[i] \in S
  <2>1. p \in Seq(T) /\ Len(p) = n + 1
    BY <1>0
  <2>2. p[n + 1] = t /\ \A i \in 1 .. n : p[i] = q[i]
    BY <1>0
  <2> HIDE DEF p
  <2>3. p \in [1 .. n + 1 -> T]
    BY <2>1
  <2> QED
    BY <1>1, <2>2, <2>3
<1>3. \A i \in 1 .. n + 1 : i = n + 1 \/ i \in 1 .. n
  OBVIOUS
<1> HIDE DEF p
<1>4. q[1] = f /\ q[n] = l
  BY <1>1 DEF Follows
<1>5. ASSUME NEW i \in 1 .. n + 1, i < n + 1 PROVE new[p[i]] = p[i + 1]
  <2>1. CASE i = n
    BY <1>2, <1>4, <2>1 DEF Links
  <2>2. CASE i < n
    <3>1. i \in 1 .. n /\ n \in 1 .. n /\ i + 1 \in 1 .. n
      BY <2>2
    <3>2. q[i] \in S /\ q[i] # l /\ link[q[i]] = q[i + 1]
      BY <1>1, <1>4, <2>2, <3>1 DEF Follows
    <3> QED
      BY <1>2, <3>1, <3>2 DEF Links
  <2> QED
    BY <1>5, <2>1, <2>2
<1>6. Follows(p, n + 1, f, t, new)
  BY <1>2, <1>4, <1>5 DEF Follows
<1>7. \A i, j \in 1 .. n + 1 : p[i] = p[j] => i = j
  BY <1>1, <1>2, <1>3
<1>8. S \cup {t} = {p[i] : i \in 1 .. n + 1}
  BY <1>1, <1>2, <1>3
<1> QED
  BY <1>2, <1>6, <1>7, <1>8 DEF Lists, p

LEMMA ChainAppend ==
    ASSUME NEW T, NEW S, NEW n \in Nat \ {0}, NEW f, NEW l, NEW link, NEW new,
           NEW t \in T, t \notin S,
           Chain(T, S, n, f, l, link),
           \A u \in S : u # l => new[u] = link[u],
           new[l] = t
    PROVE  Chain(T, S \cup {t}, n + 1, f, t, new)
<1>1. PICK q \in [1 .. n -> T] : Lists(q, S, n, f, l, link)
  BY DEF Chain
<1> DEFINE p == Append(q, t)
<1>0. Links(S, l, t, link, new)
  BY DEF Links
<1>2. p \in [1 .. n + 1 -> T] /\ Lists(p, S \cup {t}, n + 1, f, t, new)
  BY Zenon, <1>0, <1>1, ListsAppend
<1> HIDE DEF p
<1> QED
  BY <1>2 DEF Chain

(* The first element is taken off.                                          *)
LEMMA ListsTail ==
    ASSUME NEW T, NEW S, NEW n \in Nat \ {0}, NEW f, NEW l, NEW link,
           NEW q \in [1 .. n -> T], Lists(q, S, n, f, l, link)
    PROVE  /\ q # <<>> /\ Head(q) = f
           /\ Tail(q) \in [1 .. n - 1 -> T]
           /\ Lists(Tail(q), S \ {f}, n - 1, link[f], l, link)
<1>1. /\ Follows(q, n, f, l, link)
      /\ \A i, j \in 1 .. n : q[i] = q[j] => i = j
      /\ S = {q[i] : i \in 1 .. n}
  BY DEF Lists
<1> DEFINE p == Tail(q)
<1>0. q \in Seq(T) /\ Len(q) = n /\ q # <<>> /\ Head(q) = q[1]
  OBVIOUS
<1>2. /\ p \in [1 .. n - 1 -> T]
      /\ \A i \in 1 .. n - 1 : p[i] = q[i + 1] /\ i + 1 \in 1 .. n /\ i \in 1 .. n
  <2>1. p \in Seq(T) /\ Len(p) = n - 1
    BY <1>0
  <2>2. \A i \in 1 .. n - 1 : p[i] = q[i + 1]
    BY <1>0
  <2> HIDE DEF p
  <2>3. p \in [1 .. n - 1 -> T]
    BY <2>1
  <2> QED
    BY <2>2, <2>3
<1> HIDE DEF p
<1>3. q[1] = f /\ q[n] = l /\ 1 \in 1 .. n
  BY <1>1 DEF Follows
<1>4. Follows(p, n - 1, link[f], l, link)
  <2>1. n - 1 > 0 => p[1] = link[f] /\ p[n - 1] = l
    BY <1>1, <1>2, <1>3 DEF Follows
  <2>2. ASSUME NEW i \in 1 .. n - 1, i < n - 1 PROVE link[p[i]] = p[i + 1]
    BY <1>1, <1>2, <2>2 DEF Follows
  <2> QED
    BY <2>1, <2>2 DEF Follows
<1>5. \A i, j \in 1 .. n - 1 : p[i] = p[j] => i = j
  BY <1>1, <1>2
<1>6. S \ {f} = {p[i] : i \in 1 .. n - 1}
  <2>1. ASSUME NEW x \in S \ {f} PROVE x \in {p[i] : i \in 1 .. n - 1}
    <3>1. PICK i \in 1 .. n : x = q[i] /\ i # 1
      BY <1>1, <1>3
    <3>2. i - 1 \in 1 .. n - 1 /\ p[i - 1] = x
      BY <1>2, <3>1
    <3> QED
      BY <3>2
  <2>2. ASSUME NEW i \in 1 .. n - 1 PROVE p[i] \in S \ {f}
    BY <1>1, <1>2, <1>3
  <2> QED
    BY <2>1, <2>2
<1>7. Lists(p, S \ {f}, n - 1, link[f], l, link)
  BY Zenon, <1>4, <1>5, <1>6 DEF Lists
<1>8. q # <<>> /\ Head(q) = f
  BY Zenon, <1>0, <1>3
<1> QED
  BY Zenon, <1>2, <1>7, <1>8 DEF p

LEMMA ChainTail ==
    ASSUME NEW T, NEW S, NEW n \in Nat \ {0}, NEW f, NEW l, NEW link,
           Chain(T, S, n, f, l, link)
    PROVE  Chain(T, S \ {f}, n - 1, link[f], l, link)
<1>1. PICK q \in [1 .. n -> T] : Lists(q, S, n, f, l, link)
  BY DEF Chain
<1>2. /\ Tail(q) \in [1 .. n - 1 -> T]
      /\ Lists(Tail(q), S \ {f}, n - 1, link[f], l, link)
  BY Zenon, <1>1, ListsTail
<1> QED
  BY <1>2, Zenon DEF Chain

(* A set of numbers has a smallest one.                                     *)
LEMMA Least ==
    ASSUME NEW S, S \subseteq Nat, S # {}
    PROVE  \E x \in S : \A y \in S : x <= y
<1> DEFINE R == {ss \in Nat \X Nat : ss[1] < ss[2]}
<1>1. IsWellFoundedOn(R, Nat)
  BY NatLessThanWellFounded, Zenon DEF OpToRel
<1> HIDE DEF R
<1>2. PICK x \in S : \A y \in S : ~ (<<y, x>> \in R)
  BY Zenon, <1>1, WFMin
<1>3. ASSUME NEW y \in S PROVE x <= y
  <2>1. x \in Nat /\ y \in Nat
    OBVIOUS
  <2>2. y < x => <<y, x>> \in R
    BY <2>1 DEF R
  <2> QED
    BY <1>2, <2>1, <2>2
<1> QED
  BY <1>3

Injective(q, n) == \A i, j \in 1 .. n : q[i] = q[j] => i = j

(* Different ones of N numbers are N at most.                               *)
LEMMA Pigeonhole ==
    ASSUME NEW N \in Nat, NEW n \in Nat, NEW q \in [1 .. n -> 0 .. N - 1],
           Injective(q, n)
    PROVE  n <= N
<1> DEFINE Fails(k, m, r) == m > k /\ r \in [1 .. m -> 0 .. k - 1] /\ Injective(r, m)
           D == {k \in Nat : \E m \in Nat : \E r : Fails(k, m, r)}
<1>1. ASSUME NEW k \in Nat, NEW m \in Nat, NEW r, Fails(k, m, r)
      PROVE  k - 1 \in D
  <2> DEFINE s == [i \in 1 .. m - 1 |-> IF r[i] = k - 1 THEN r[m] ELSE r[i]]
  <2>1. m > k /\ r \in [1 .. m -> 0 .. k - 1] /\ m \in 1 .. m
    BY <1>1
  <2>2. r[m] \in 0 .. k - 1
    BY <2>1
  <2>3. k - 1 \in Nat /\ m - 1 \in Nat /\ m - 1 > k - 1
    BY <2>1, <2>2
  <2>4. ASSUME NEW i \in 1 .. m - 1
        PROVE  /\ i \in 1 .. m /\ i # m /\ r[i] # r[m]
               /\ s[i] = IF r[i] = k - 1 THEN r[m] ELSE r[i]
    <3>1. i \in 1 .. m /\ i # m
      OBVIOUS
    <3> QED
      BY <1>1, <2>1, <3>1 DEF Injective
  <2>5. s \in [1 .. m - 1 -> 0 .. (k - 1) - 1]
    <3>1. ASSUME NEW i \in 1 .. m - 1 PROVE s[i] \in 0 .. (k - 1) - 1
      <4>1. r[i] \in 0 .. k - 1 /\ r[i] # r[m]
        BY <2>1, <2>4
      <4> QED
        BY <2>2, <2>4, <4>1
    <3> QED
      BY <3>1
  <2>6. Injective(s, m - 1)
    <3>1. ASSUME NEW i \in 1 .. m - 1, NEW j \in 1 .. m - 1, s[i] = s[j]
          PROVE  i = j
      <4>1. r[i] = r[j]
        <5> HIDE DEF s
        <5> QED
          BY <2>4, <3>1
      <4> QED
        BY <1>1, <2>4, <4>1 DEF Injective
    <3> HIDE DEF s
    <3> QED
      BY <3>1 DEF Injective
  <2> HIDE DEF s
  <2>7. Fails(k - 1, m - 1, s)
    BY <2>3, <2>5, <2>6
  <2> QED
    BY <2>3, <2>7
<1> HIDE DEF Fails
<1>2. D = {}
  <2> SUFFICES ASSUME D # {} PROVE FALSE
    OBVIOUS
  <2>1. D \subseteq Nat
    OBVIOUS
  <2>2. PICK k \in D : \A y \in D : k <= y
    <3> HIDE DEF D
    <3> QED
      BY Zenon, <2>1, Least
  <2>3. k - 1 \in D
    BY <1>1, <2>2
  <2>4. k \in Nat /\ k <= k - 1
    BY <2>1, <2>2, <2>3
  <2> QED
    BY <2>4
<1>3. ASSUME n > N PROVE FALSE
  <2>1. Fails(N, n, q)
    BY <1>3 DEF Fails
  <2>2. N \in D
    BY <2>1
  <2> QED
    BY Zenon, <1>2, <2>2
<1> QED
  BY <1>3

(* One of the numbers is not among them: they are fewer than N.              *)
LEMMA Fewer ==
    ASSUME NEW N \in Nat, NEW n \in Nat, NEW q \in [1 .. n -> 0 .. N - 1],
           Injective(q, n), NEW u \in 0 .. N - 1, \A i \in 1 .. n : q[i] # u
    PROVE  n < N
<1> DEFINE p == [i \in 1 .. n + 1 |-> IF i = n + 1 THEN u ELSE q[i]]
<1>1. p \in [1 .. n + 1 -> 0 .. N - 1]
  OBVIOUS
<1>2. Injective(p, n + 1)
  BY DEF Injective
<1> HIDE DEF p
<1>3. n + 1 \in Nat
  OBVIOUS
<1>4. n + 1 <= N
  BY Zenon, <1>1, <1>2, <1>3, Pigeonhole
<1> QED
  BY <1>4

(* A list has no more elements than there are threads.                      *)
LEMMA ChainBound ==
    ASSUME NEW N \in Nat, NEW S, NEW n \in Nat, NEW f, NEW l, NEW link,
           Chain(0 .. N - 1, S, n, f, l, link)
    PROVE  n <= N
<1>1. PICK q \in [1 .. n -> 0 .. N - 1] : Injective(q, n)
  BY DEF Chain, Lists, Injective
<1> QED
  BY <1>1, Pigeonhole

LEMMA ChainFewer ==
    ASSUME NEW N \in Nat, NEW S, NEW n \in Nat, NEW f, NEW l, NEW link,
           Chain(0 .. N - 1, S, n, f, l, link), NEW u \in 0 .. N - 1, u \notin S
    PROVE  n < N
<1>1. PICK q \in [1 .. n -> 0 .. N - 1] : Injective(q, n) /\ S = {q[i] : i \in 1 .. n}
  BY SMTT(30) DEF Chain, Lists, Injective
<1>2. \A i \in 1 .. n : q[i] # u
  BY <1>1
<1> QED
  BY Zenon, <1>1, <1>2, Fewer

(* An element that is not the last has a successor, which is not the first.  *)
LEMMA ChainSucc ==
    ASSUME NEW T, NEW S, NEW n \in Nat, NEW f, NEW l, NEW link,
           Chain(T, S, n, f, l, link)
    PROVE  /\ \A x \in S : x # l => link[x] \in S /\ link[x] # f
           /\ n > 1 => f # l
<1>1. PICK q \in [1 .. n -> T] :
        /\ Follows(q, n, f, l, link)
        /\ \A i, j \in 1 .. n : q[i] = q[j] => i = j
        /\ S = {q[i] : i \in 1 .. n}
  BY DEF Chain, Lists
<1>2. ASSUME NEW x \in S, x # l PROVE link[x] \in S /\ link[x] # f
  <2>1. PICK i \in 1 .. n : x = q[i]
    BY <1>1
  <2>2. i < n /\ n > 0
    BY <1>1, <1>2, <2>1 DEF Follows
  <2>3. i + 1 \in 1 .. n /\ 1 \in 1 .. n /\ i + 1 # 1
    BY <2>2
  <2>4. link[x] = q[i + 1] /\ f = q[1]
    BY <1>1, <2>1, <2>2 DEF Follows
  <2> QED
    BY <1>1, <2>3, <2>4
<1>3. ASSUME n > 1 PROVE f # l
  <2>1. 1 \in 1 .. n /\ n \in 1 .. n /\ n # 1 /\ n > 0
    BY <1>3
  <2> QED
    BY <1>1, <2>1 DEF Follows
<1> QED
  BY <1>2, <1>3

(* Without its last element a list ends at the one before.                  *)
Front(q, k) == [i \in 1 .. k |-> q[i]]

LEMMA ListsFront ==
    ASSUME NEW T, NEW S, NEW k \in Nat \ {0}, NEW f, NEW l, NEW link,
           NEW q \in [1 .. k + 1 -> T], Lists(q, S, k + 1, f, l, link)
    PROVE  /\ q[k] \in S /\ q[k] # l /\ link[q[k]] = l
           /\ Front(q, k) \in [1 .. k -> T]
           /\ Lists(Front(q, k), S \ {l}, k, f, q[k], link)
<1> DEFINE n == k + 1
           r == Front(q, k)
<1>1. /\ Follows(q, n, f, l, link)
      /\ \A i, j \in 1 .. n : q[i] = q[j] => i = j
      /\ S = {q[i] : i \in 1 .. n}
  BY DEF Lists
<1>2. /\ n \in Nat \ {0} /\ k + 1 = n /\ k < n
      /\ k \in 1 .. n /\ k \in 1 .. k /\ 1 \in 1 .. k /\ n \in 1 .. n
      /\ \A i \in 1 .. k : i \in 1 .. n /\ i # n /\ i < n
      /\ \A i \in 1 .. k : i < k => i + 1 \in 1 .. k
      /\ \A i \in 1 .. n : i # n => i \in 1 .. k
  OBVIOUS
<1>3. /\ q[n] = l /\ q[1] = f
      /\ \A i \in 1 .. n : i < n => link[q[i]] = q[i + 1]
  BY <1>1, <1>2 DEF Follows
<1>4. r \in [1 .. k -> T] /\ \A i \in 1 .. k : r[i] = q[i]
  BY <1>2 DEF Front
<1> HIDE DEF n, r
<1>5. \A i \in 1 .. k : i < k => link[r[i]] = r[i + 1]
  BY <1>2, <1>3, <1>4
<1>6. Follows(r, k, f, q[k], link)
  BY <1>2, <1>3, <1>4, <1>5 DEF Follows
<1>7. \A i, j \in 1 .. k : r[i] = r[j] => i = j
  BY <1>1, <1>2, <1>4
<1>8. S \ {l} = {r[i] : i \in 1 .. k}
  <2>1. \A i \in 1 .. k : r[i] \in S \ {l}
    BY <1>1, <1>2, <1>3, <1>4
  <2>2. \A s \in S \ {l} : \E i \in 1 .. k : s = r[i]
    BY <1>1, <1>2, <1>3, <1>4
  <2> QED
    BY <2>1, <2>2
<1>9. q[k] \in S /\ q[k] # l /\ link[q[k]] = l
  BY <1>1, <1>2, <1>3
<1> QED
  BY Zenon, <1>4, <1>6, <1>7, <1>8, <1>9 DEF Lists, r

LEMMA ChainFront ==
    ASSUME NEW T, NEW S, NEW n \in Nat, n > 1, NEW f, NEW l, NEW link,
           Chain(T, S, n, f, l, link)
    PROVE  \E m \in S : /\ m # l /\ link[m] = l
                        /\ Chain(T, S \ {l}, n - 1, f, m, link)
<1>1. PICK k \in Nat \ {0} : n = k + 1 /\ n - 1 = k
  <2>1. n - 1 \in Nat \ {0} /\ n = (n - 1) + 1
    OBVIOUS
  <2> QED
    BY <2>1
<1>2. PICK q \in [1 .. k + 1 -> T] : Lists(q, S, k + 1, f, l, link)
  BY <1>1 DEF Chain
<1>3. /\ q[k] \in S /\ q[k] # l /\ link[q[k]] = l
      /\ Front(q, k) \in [1 .. k -> T]
      /\ Lists(Front(q, k), S \ {l}, k, f, q[k], link)
  BY Zenon, <1>2, ListsFront
<1> QED
  BY <1>1, <1>3 DEF Chain
-----------------------------------------------------------------------------
(* The links leave no choice.                                                *)
LEMMA FollowsOnce ==
    ASSUME NEW n \in Nat, NEW m \in Nat, NEW f, NEW l, NEW k, NEW link, NEW q, NEW r,
           Follows(q, n, f, l, link), Follows(r, m, f, k, link)
    PROVE  \A i \in 1 .. n : i \in 1 .. m => q[i] = r[i]
<1> DEFINE D == {i \in 1 .. n : i \in 1 .. m /\ q[i] # r[i]}
<1> SUFFICES ASSUME D # {} PROVE FALSE
  OBVIOUS
<1>1. D \subseteq Nat
  OBVIOUS
<1> HIDE DEF D
<1>2. PICK i \in D : \A j \in D : i <= j
  BY Zenon, <1>1, Least
<1>3. i \in 1 .. n /\ i \in 1 .. m /\ q[i] # r[i]
  BY DEF D
<1>4. i # 1
  BY <1>3 DEF Follows
<1>5. /\ i - 1 \in 1 .. n /\ i - 1 \in 1 .. m /\ i - 1 < n /\ i - 1 < m
      /\ i - 1 + 1 = i /\ ~ (i <= i - 1)
  BY <1>3, <1>4
<1>6. q[i - 1] = r[i - 1]
  BY <1>2, <1>5 DEF D
<1>7. link[q[i - 1]] = q[i] /\ link[r[i - 1]] = r[i]
  BY <1>5 DEF Follows
<1> QED
  BY <1>3, <1>6, <1>7

LEMMA ListsOnce ==
    ASSUME NEW S, NEW n \in Nat, NEW m \in Nat, NEW f, NEW l, NEW link,
           NEW q, NEW r, Lists(q, S, n, f, l, link), Lists(r, S, m, f, l, link)
    PROVE  n <= m /\ \A i \in 1 .. n : i \in 1 .. m => q[i] = r[i]
<1>1. /\ Follows(q, n, f, l, link) /\ Follows(r, m, f, l, link)
      /\ \A i, j \in 1 .. n : q[i] = q[j] => i = j
      /\ S = {q[i] : i \in 1 .. n} /\ S = {r[i] : i \in 1 .. m}
  BY SMTT(30) DEF Lists
<1>2. \A i \in 1 .. n : i \in 1 .. m => q[i] = r[i]
  BY <1>1, FollowsOnce
<1>3. ASSUME m < n PROVE FALSE
  <2>1. n \in 1 .. n
    BY <1>3
  <2>2. q[n] \in S
    BY <1>1, <2>1
  <2>3. m # 0
    BY <1>1, <2>2
  <2>4. m \in 1 .. m /\ m \in 1 .. n /\ m # n
    BY <1>3, <2>3
  <2>5. q[m] = r[m] /\ r[m] = l /\ q[n] = l
    BY <1>1, <1>2, <2>1, <2>4 DEF Follows
  <2> QED
    BY <1>1, <2>1, <2>4, <2>5
<1> QED
  BY <1>2, <1>3

(* Following the links gives a list its elements, and then its last again.   *)
IsAlong(w, q, n, N, l) ==
    /\ \A i \in 1 .. n : w[i] = q[i]
    /\ \A i \in 1 .. N : i > n => w[i] = l

LEMMA AlongIs ==
    ASSUME NEW N \in Nat, NEW S, NEW n \in 1 .. N, NEW f, NEW l, NEW link,
           NEW q, Lists(q, S, n, f, l, link)
    PROVE  IsAlong(Along(N, f, l, link), q, n, N, l)
<1>1. /\ q[1] = f /\ q[n] = l /\ 1 \in 1 .. n /\ n \in 1 .. n
      /\ \A i \in 1 .. n : i < n => link[q[i]] = q[i + 1]
      /\ \A i, j \in 1 .. n : q[i] = q[j] => i = j
  BY DEF Lists, Follows
<1> DEFINE Step(v) == [i \in 1 .. N |-> IF i = 1 THEN f
                                      ELSE IF v[i - 1] = l THEN l ELSE link[v[i - 1]]]
           v == [i \in 1 .. N |-> IF i <= n THEN q[i] ELSE l]
           w == Along(N, f, l, link)
<1>2. v = Step(v)
  <2>1. ASSUME NEW i \in 1 .. N PROVE v[i] = Step(v)[i]
    <3>1. CASE i = 1
      BY <1>1, <3>1
    <3>2. CASE i # 1 /\ i <= n
      <4>1. /\ i - 1 \in 1 .. n /\ i - 1 < n /\ i - 1 + 1 = i
            /\ i - 1 \in 1 .. N /\ i - 1 <= n /\ i - 1 # n
        BY <3>2
      <4>2. v[i - 1] = q[i - 1] /\ q[i - 1] # l /\ link[q[i - 1]] = q[i]
        BY <1>1, <4>1
      <4>3. v[i] = q[i]
        BY <3>2
      <4>4. Step(v)[i] = IF v[i - 1] = l THEN l ELSE link[v[i - 1]]
        BY <3>2
      <4> HIDE DEF v, Step
      <4> QED
        BY <4>2, <4>3, <4>4
    <3>3. CASE i > n
      <4>1. i - 1 \in 1 .. N /\ i # 1 /\ (i - 1 <= n => i - 1 = n) /\ ~ (i <= n)
        BY <3>3
      <4>2. v[i - 1] = l /\ v[i] = l
        BY <1>1, <4>1
      <4>3. Step(v)[i] = IF v[i - 1] = l THEN l ELSE link[v[i - 1]]
        BY <4>1
      <4> HIDE DEF v, Step
      <4> QED
        BY <4>2, <4>3
    <3> QED
      BY <3>1, <3>2, <3>3
  <2> QED
    BY <2>1, Zenon
<1>3. w = Step(w)
  <2> HIDE DEF v
  <2> QED
    BY <1>2, Zenon DEF Along
<1> DEFINE D == {i \in 1 .. N : w[i] # v[i]}
<1>4. D = {}
  <2> SUFFICES ASSUME D # {} PROVE FALSE
    OBVIOUS
  <2>1. D \subseteq Nat
    OBVIOUS
  <2> HIDE DEF D
  <2>2. PICK i \in D : \A j \in D : i <= j
    BY Zenon, <2>1, Least
  <2> HIDE DEF v, w
  <2>3. i \in 1 .. N /\ w[i] # v[i]
    BY DEF D
  <2>4. w[i] = Step(w)[i] /\ v[i] = Step(v)[i]
    BY <1>2, <1>3, Zenon
  <2>5. i # 1
    BY <2>3, <2>4
  <2>6. i - 1 \in 1 .. N /\ ~ (i <= i - 1)
    BY <2>3, <2>5
  <2>7. w[i - 1] = v[i - 1]
    BY <2>2, <2>6 DEF D
  <2> QED
    BY <2>3, <2>4, <2>5, <2>7
<1>5. \A i \in 1 .. N : w[i] = v[i]
  BY Zenon, <1>4
<1> HIDE DEF w, D
<1>6. /\ \A i \in 1 .. n : w[i] = q[i]
      /\ \A i \in 1 .. N : i > n => w[i] = l
  BY <1>5
<1> QED
  BY <1>6, Zenon DEF w, IsAlong

(* The list of the elements of a chain, and there is no other.              *)
LEMMA SeqIs ==
    ASSUME NEW N \in Nat, NEW S, NEW n \in 0 .. N, NEW f, NEW l, NEW link,
           NEW q, q \in [1 .. n -> S], Lists(q, S, n, f, l, link)
    PROVE  q = ListOf(N, S, f, l, link)
<1> DEFINE w == Along(N, f, l, link)
           D == {j \in 1 .. N : j > 1 => w[j - 1] # l}
<1>1. ListOf(N, S, f, l, link) = IF S = {} THEN <<>> ELSE [i \in D |-> w[i]]
  BY Zenon DEF ListOf
<1>2. /\ S = {q[i] : i \in 1 .. n}
      /\ \A i, j \in 1 .. n : q[i] = q[j] => i = j
      /\ n > 0 => q[n] = l
  BY DEF Lists, Follows
<1>3. CASE n = 0
  <2>1. S = {} /\ 1 .. n = {}
    BY <1>2, <1>3
  <2>2. q = <<>>
    BY <2>1
  <2> QED
    BY <1>1, <2>1, <2>2, Zenon
<1>4. CASE n # 0
  <2>1. n \in 1 .. N /\ n \in 1 .. n
    BY <1>4
  <2>0. IsAlong(w, q, n, N, l)
    BY <2>1, AlongIs
  <2> HIDE DEF w
  <2>2. /\ \A i \in 1 .. n : w[i] = q[i]
        /\ \A i \in 1 .. N : i > n => w[i] = l
    BY <2>0, Zenon DEF IsAlong
  <2>3. S # {} /\ q[n] = l
    BY <1>2, <2>1
  <2>4. ASSUME NEW j \in 1 .. N PROVE (j > 1 => w[j - 1] # l) <=> j <= n
    <3>1. CASE j <= n
      <4>1. j > 1 => j - 1 \in 1 .. n /\ j - 1 # n
        BY <3>1
      <4> QED
        BY <1>2, <2>1, <2>2, <2>3, <3>1, <4>1
    <3>2. CASE j > n
      <4>1. j > 1 /\ j - 1 \in 1 .. N /\ (j - 1 > n \/ j - 1 = n) /\ ~ (j <= n)
        BY <2>1, <3>2
      <4>2. w[j - 1] = l
        BY <2>1, <2>2, <2>3, <4>1
      <4> QED
        BY <4>1, <4>2
    <3> QED
      BY <3>1, <3>2
  <2>5. D = 1 .. n
    BY <2>1, <2>4
  <2> HIDE DEF D
  <2>6. q = [i \in 1 .. n |-> w[i]]
    BY <2>2
  <2> QED
    BY <1>1, <2>3, <2>5, <2>6, Zenon
<1> QED
  BY <1>3, <1>4

LEMMA SeqChain ==
    ASSUME NEW N \in Nat, NEW S, NEW n \in Nat, NEW f, NEW l, NEW link,
           Chain(0 .. N - 1, S, n, f, l, link)
    PROVE  /\ n \in 0 .. N
           /\ ListOf(N, S, f, l, link) \in [1 .. n -> S]
           /\ Lists(ListOf(N, S, f, l, link), S, n, f, l, link)
<1>1. PICK q \in [1 .. n -> 0 .. N - 1] : Lists(q, S, n, f, l, link)
  BY DEF Chain
<1>2. n \in 0 .. N
  BY ChainBound
<1>3. q \in [1 .. n -> S]
  BY <1>1 DEF Lists
<1>4. q = ListOf(N, S, f, l, link)
  BY <1>1, <1>2, <1>3, SeqIs
<1> QED
  BY <1>1, <1>2, <1>3, <1>4

(* The sequence has the elements and no other.                              *)
LEMMA SeqMembers ==
    ASSUME NEW N \in Nat, NEW S, NEW n \in Nat, NEW f, NEW l, NEW link,
           Chain(0 .. N - 1, S, n, f, l, link)
    PROVE  /\ \A i \in 1 .. Len(ListOf(N, S, f, l, link)) : ListOf(N, S, f, l, link)[i] \in S
           /\ ListOf(N, S, f, l, link) = <<>> <=> S = {}
<1> DEFINE q == ListOf(N, S, f, l, link)
<1>1. q \in [1 .. n -> S]
  BY Zenon, SeqChain
<1> HIDE DEF q
<1>2. q \in Seq(S) /\ Len(q) = n
  BY <1>1
<1>3. n = 0 <=> S = {}
  BY ChainEnds
<1>4. q = <<>> <=> n = 0
  BY <1>2
<1> QED
  BY <1>1, <1>2, <1>3, <1>4 DEF q

(* The list of no threads and that of one.                                  *)
LEMMA SeqEmpty ==
    ASSUME NEW N \in Nat, NEW f, NEW l, NEW link
    PROVE  ListOf(N, {}, f, l, link) = <<>>
<1>1. PICK n \in Nat : n = 0
  OBVIOUS
<1>2. Chain(0 .. N - 1, {}, n, f, l, link)
  BY <1>1, ChainEmpty
<1> DEFINE q == ListOf(N, {}, f, l, link)
<1>3. q \in [1 .. n -> {}]
  BY Zenon, <1>2, SeqChain
<1> HIDE DEF q
<1>4. q \in Seq({}) /\ Len(q) = 0
  BY <1>1, <1>3
<1>5. q = <<>>
  BY <1>4
<1> QED
  BY <1>5 DEF q

LEMMA SeqOne ==
    ASSUME NEW N \in Nat, NEW t \in 0 .. N - 1, NEW link
    PROVE  ListOf(N, {t}, t, t, link) = <<t>>
<1>1. PICK n \in Nat : n = 1
  OBVIOUS
<1>2. Chain(0 .. N - 1, {t}, n, t, t, link)
  BY <1>1, ChainOne
<1> DEFINE q == ListOf(N, {t}, t, t, link)
<1>3. q \in [1 .. n -> {t}]
  BY SMTT(30), <1>2, SeqChain
<1> HIDE DEF q
<1>4. q = <<t>>
  BY <1>1, <1>3
<1> QED
  BY <1>4 DEF q

(* Links elsewhere do not matter.                                           *)
LEMMA SeqFrame ==
    ASSUME NEW N \in Nat, NEW S, NEW n \in Nat, NEW f, NEW l, NEW link, NEW new,
           Chain(0 .. N - 1, S, n, f, l, link),
           \A t \in S : t # l => new[t] = link[t]
    PROVE  ListOf(N, S, f, l, new) = ListOf(N, S, f, l, link)
<1> DEFINE q == ListOf(N, S, f, l, link)
<1>1. n \in 0 .. N /\ q \in [1 .. n -> S] /\ Lists(q, S, n, f, l, link)
  BY SeqChain
<1> HIDE DEF q
<1>2. Lists(q, S, n, f, l, new)
  BY <1>1, ListsFrame
<1>3. q = ListOf(N, S, f, l, new)
  BY Zenon, <1>1, <1>2, SeqIs
<1> QED
  BY <1>3 DEF q

(* What a list is after it got a new last element.                          *)
IsAppend(r, q, t) == r = Append(q, t)

LEMMA SeqAppend ==
    ASSUME NEW N \in Nat, NEW S, NEW n \in Nat \ {0}, NEW f, NEW l, NEW link,
           NEW new, NEW t \in 0 .. N - 1, t \notin S,
           Chain(0 .. N - 1, S, n, f, l, link), Links(S, l, t, link, new)
    PROVE  IsAppend(ListOf(N, S \cup {t}, f, t, new), ListOf(N, S, f, l, link), t)
<1> DEFINE q == ListOf(N, S, f, l, link)
           p == Append(q, t)
           U == S \cup {t}
           m == n + 1
<1>1. q \in [1 .. n -> S] /\ Lists(q, S, n, f, l, link)
  BY Zenon, SeqChain
<1> HIDE DEF q
<1>2. q \in [1 .. n -> U] /\ t \in U
  BY <1>1
<1>3. p \in [1 .. n + 1 -> U] /\ Lists(p, S \cup {t}, n + 1, f, t, new)
  <2> HIDE DEF U
  <2> QED
    BY Zenon, <1>1, <1>2, ListsAppend
<1>4. Chain(0 .. N - 1, U, m, f, t, new)
  BY Zenon, ChainAppend DEF Links
<1> HIDE DEF p
<1>5. m \in Nat /\ p \in [1 .. m -> U] /\ Lists(p, U, m, f, t, new)
  BY <1>3
<1> HIDE DEF m, U
<1>6. m \in 0 .. N
  BY <1>4, <1>5, ChainBound
<1>7. p = ListOf(N, U, f, t, new)
  BY <1>5, <1>6, SeqIs
<1> QED
  BY <1>7 DEF q, p, U, IsAppend

(* The sequence q starts with f, and r is the rest.                         *)
IsPopped(r, q, f) == q # <<>> /\ Head(q) = f /\ r = Tail(q)

LEMMA SeqTail ==
    ASSUME NEW N \in Nat, NEW S, NEW n \in Nat \ {0}, NEW f, NEW l, NEW link,
           Chain(0 .. N - 1, S, n, f, l, link)
    PROVE  IsPopped(ListOf(N, S \ {f}, link[f], l, link), ListOf(N, S, f, l, link), f)
<1> DEFINE q == ListOf(N, S, f, l, link)
           p == Tail(q)
           U == S \ {f}
           m == n - 1
<1>1. n \in 0 .. N /\ q \in [1 .. n -> S] /\ Lists(q, S, n, f, l, link)
  BY Zenon, SeqChain
<1> HIDE DEF q
<1>2. /\ q # <<>> /\ Head(q) = f
      /\ p \in [1 .. n - 1 -> S] /\ Lists(p, S \ {f}, n - 1, link[f], l, link)
  BY Zenon, <1>1, ListsTail
<1> HIDE DEF p
<1>3. m \in 0 .. N /\ p \in [1 .. m -> S] /\ Lists(p, U, m, link[f], l, link)
  BY <1>1, <1>2
<1> HIDE DEF m, U
<1>4. p \in [1 .. m -> U]
  BY <1>3 DEF Lists
<1>5. p = ListOf(N, U, link[f], l, link)
  BY <1>3, <1>4, SeqIs
<1> QED
  BY Zenon, <1>2, <1>5 DEF q, p, U, IsPopped

(* The sequence q ends with l, and r is what comes before.                   *)
IsFront(r, q, l) ==
    \E k \in Nat : Len(q) = k + 1 /\ q[k + 1] = l /\ r = Front(q, k)

LEMMA SeqFront ==
    ASSUME NEW N \in Nat, NEW S, NEW n \in Nat, n > 1, NEW f, NEW l, NEW link,
           NEW m \in S, m # l, link[m] = l, Chain(0 .. N - 1, S, n, f, l, link)
    PROVE  IsFront(ListOf(N, S \ {l}, f, m, link), ListOf(N, S, f, l, link), l)
<1> DEFINE q == ListOf(N, S, f, l, link)
           U == S \ {l}
<1>0. PICK k \in Nat \ {0} : n = k + 1
  <2>1. n - 1 \in Nat \ {0} /\ n = (n - 1) + 1
    OBVIOUS
  <2> QED
    BY <2>1
<1>1. n \in 0 .. N /\ q \in [1 .. n -> S] /\ Lists(q, S, n, f, l, link)
  BY Zenon, SeqChain
<1> HIDE DEF q
<1>2. q \in [1 .. k + 1 -> S] /\ Lists(q, S, k + 1, f, l, link)
  BY <1>0, <1>1
<1>3. /\ Front(q, k) \in [1 .. k -> S]
      /\ Lists(Front(q, k), S \ {l}, k, f, q[k], link)
  BY Zenon, <1>2, ListsFront
<1>4. q[k] = m /\ q[k + 1] = l
  <2>1. /\ S = {q[i] : i \in 1 .. k + 1} /\ q[k + 1] = l
        /\ \A i, j \in 1 .. k + 1 : q[i] = q[j] => i = j
        /\ \A i \in 1 .. k + 1 : i < k + 1 => link[q[i]] = q[i + 1]
    BY <1>2 DEF Lists, Follows
  <2>2. PICK i \in 1 .. k + 1 : m = q[i]
    BY <2>1
  <2>3. i # k + 1
    BY <2>1, <2>2
  <2>4. i < k + 1 /\ i + 1 \in 1 .. k + 1 /\ k + 1 \in 1 .. k + 1
    BY <2>3
  <2>5. q[i + 1] = q[k + 1]
    BY <2>1, <2>2, <2>4
  <2>6. i = k
    BY <2>1, <2>4, <2>5
  <2> QED
    BY <2>1, <2>2, <2>6
<1>5. /\ k \in 0 .. N /\ Front(q, k) \in [1 .. k -> U]
      /\ Lists(Front(q, k), U, k, f, m, link)
  <2>1. k \in 0 .. N
    BY <1>0, <1>1
  <2>2. Lists(Front(q, k), U, k, f, m, link)
    BY <1>3, <1>4
  <2>3. U = {Front(q, k)[i] : i \in 1 .. k}
    BY <2>2 DEF Lists
  <2> QED
    BY <1>3, <2>1, <2>2, <2>3
<1> HIDE DEF U
<1>6. Front(q, k) = ListOf(N, U, f, m, link)
  BY <1>5, SeqIs
<1>7. Len(q) = k + 1
  BY <1>2
<1> QED
  BY <1>4, <1>6, <1>7 DEF q, U, IsFront

(* Counted threads along the links are the list that has as many.           *)
LEMMA WalkSeq ==
    ASSUME NEW N \in Nat, NEW S, NEW n \in Nat, NEW f, NEW l, NEW link,
           Chain(0 .. N - 1, S, n, f, l, link)
    PROVE  Walk(0 .. N - 1, n, f, link) = ListOf(N, S, f, l, link)
<1> DEFINE q == ListOf(N, S, f, l, link)
           r == Walk(0 .. N - 1, n, f, link)
<1>0. S \subseteq 0 .. N - 1
  <2>1. PICK T : T = 0 .. N - 1
    OBVIOUS
  <2>2. Chain(T, S, n, f, l, link)
    BY <2>1
  <2>3. S \subseteq T
    BY <2>2, ChainEnds
  <2> QED
    BY <2>1, <2>3
<1>1. q \in [1 .. n -> S] /\ Lists(q, S, n, f, l, link)
  BY Zenon, SeqChain
<1> HIDE DEF q
<1>2. q \in [1 .. n -> 0 .. N - 1] /\ Follows(q, n, f, q[n], link)
  BY <1>0, <1>1 DEF Lists, Follows
<1>3. r \in [1 .. n -> 0 .. N - 1] /\ Follows(r, n, f, r[n], link)
  BY Zenon, <1>2 DEF Walk
<1> HIDE DEF r
<1>4. \A i \in 1 .. n : i \in 1 .. n => q[i] = r[i]
  BY <1>2, <1>3, FollowsOnce
<1>5. q = r
  BY <1>2, <1>3, <1>4
<1> QED
  BY <1>5 DEF q, r
=============================================================================
