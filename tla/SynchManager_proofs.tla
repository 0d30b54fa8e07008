------------------------- MODULE SynchManager_proofs -------------------------
(***************************************************************************)
(* The mutexes of the synchronization manager exclude, no thread that       *)
(* sleeps in a lock call is forgotten, and the longest waiter is next, for   *)
(* any number of threads and mutexes.                                       *)
(***************************************************************************)
EXTENDS SynchManager, LinkedList_proofs

(* The list from f to l of the threads W that wait for a mutex of owner o:  *)
(* its last thread links to itself, and without waiters both ends are the   *)
(* owner.                                                                  *)
Queue(o, f, l, W, link) ==
    \E n \in 0 .. NumThreads :
        /\ Chain(Threads, W, n, f, l, link)
        /\ IF n = 0 THEN f = o /\ l = o ELSE link[l] = l

(* A new owner has no waiters.                                              *)
LEMMA QueueEmpty ==
    ASSUME NEW o, NEW link
    PROVE  Queue(o, o, o, {}, link)
<1>1. 0 \in 0 .. NumThreads
  BY SynchAssumption
<1> QED
  BY <1>1, ChainEmpty DEF Queue

(* The ends tell whether there are waiters.                                 *)
LEMMA QueueEnds ==
    ASSUME NEW o, NEW f, NEW l, NEW W, NEW link, o \notin W,
           Queue(o, f, l, W, link)
    PROVE  /\ W \subseteq Threads
           /\ f = o <=> W = {}
           /\ l = o <=> W = {}
           /\ W # {} => f \in W /\ l \in W /\ link[l] = l
<1>1. PICK n \in 0 .. NumThreads :
        /\ Chain(Threads, W, n, f, l, link)
        /\ IF n = 0 THEN f = o /\ l = o ELSE link[l] = l
  BY DEF Queue
<1>2. n \in Nat
  BY SynchAssumption
<1>3. /\ W \subseteq Threads
      /\ n = 0 <=> W = {}
      /\ n > 0 => f \in W /\ l \in W
  BY <1>1, <1>2, ChainEnds
<1> QED
  BY <1>1, <1>2, <1>3

(* Only the links of the waiters matter.                                    *)
LEMMA QueueFrame ==
    ASSUME NEW o, NEW f, NEW l, NEW W, NEW link, NEW new,
           Queue(o, f, l, W, link), \A u \in W : new[u] = link[u]
    PROVE  Queue(o, f, l, W, new)
<1>1. PICK n \in 0 .. NumThreads :
        /\ Chain(Threads, W, n, f, l, link)
        /\ IF n = 0 THEN f = o /\ l = o ELSE link[l] = l
  BY DEF Queue
<1>2. n \in Nat
  BY SynchAssumption
<1>3. Chain(Threads, W, n, f, l, new)
  BY <1>1, <1>2, ChainFrame
<1>4. n # 0 => l \in W
  BY <1>1, <1>2, ChainEnds
<1> QED
  BY <1>1, <1>3, <1>4 DEF Queue

(* LOCK queues a thread behind the last waiter.                             *)
LEMMA QueueAdd ==
    ASSUME NEW o, NEW f, NEW l, NEW W, NEW link, NEW t \in Threads,
           o \notin W, t \notin W, Queue(o, f, l, W, link),
           link \in [Threads -> Threads]
    PROVE  /\ f = o => Queue(o, t, t, W \cup {t}, [link EXCEPT ![t] = t])
           /\ f # o => Queue(o, f, t, W \cup {t},
                             [link EXCEPT ![l] = t, ![t] = t])
<1>1. PICK n \in 0 .. NumThreads :
        /\ Chain(Threads, W, n, f, l, link)
        /\ IF n = 0 THEN f = o /\ l = o ELSE link[l] = l
  BY DEF Queue
<1>2. n \in Nat /\ NumThreads \in Nat \ {0}
  BY SynchAssumption
<1>3. CASE f = o
  <2>1. W = {}
    BY <1>3, QueueEnds
  <2>2. Chain(Threads, {t}, 1, t, t, [link EXCEPT ![t] = t])
    BY ChainOne
  <2>3. 1 \in 0 .. NumThreads
    BY <1>2
  <2> QED
    BY <1>3, <2>1, <2>2, <2>3 DEF Queue
<1>4. CASE f # o
  <2> DEFINE new == [link EXCEPT ![l] = t, ![t] = t]
  <2>1. W \subseteq Threads /\ l \in W /\ W # {}
    BY <1>4, QueueEnds
  <2>2. n \in Nat \ {0}
    BY <1>1, <1>2, <1>4
  <2>3. new[l] = t /\ new[t] = t /\ \A u \in W : u # l => new[u] = link[u]
    BY <2>1
  <2> HIDE DEF new
  <2>4. Chain(Threads, W \cup {t}, n + 1, f, t, new)
    BY <1>1, <2>2, <2>3, ChainAppend
  <2>5. n + 1 <= NumThreads
    <3>1. n + 1 \in Nat /\ NumThreads \in Nat
      BY <1>2
    <3> QED
      BY <2>4, <3>1, ChainBound DEF Threads
  <2>6. n + 1 \in 0 .. NumThreads /\ n + 1 # 0
    BY <1>2, <2>5
  <2>7. Queue(o, f, t, W \cup {t}, new)
    BY <2>3, <2>4, <2>6 DEF Queue
  <2> QED
    BY <1>4, <2>7 DEF new
<1> QED
  BY <1>3, <1>4

(* UNLOCK makes the first waiter the owner.                                 *)
LEMMA QueueNext ==
    ASSUME NEW o, NEW f, NEW l, NEW W, NEW link,
           o \notin W, Queue(o, f, l, W, link), W # {}
    PROVE  Queue(f, link[f], l, W \ {f}, link)
<1>1. PICK n \in 0 .. NumThreads :
        /\ Chain(Threads, W, n, f, l, link)
        /\ IF n = 0 THEN f = o /\ l = o ELSE link[l] = l
  BY DEF Queue
<1>2. n \in Nat /\ NumThreads \in Nat \ {0}
  BY SynchAssumption
<1>3. n # 0 /\ link[l] = l
  BY <1>1, <1>2, ChainEnds
<1>4. Chain(Threads, W \ {f}, n - 1, link[f], l, link)
  BY Zenon, <1>1, <1>2, <1>3, ChainTail
<1>5. n = 1 => f = l
  BY <1>1, <1>2, ChainEnds
<1>6. n - 1 \in 0 .. NumThreads /\ (n - 1 = 0 <=> n = 1)
  BY <1>2, <1>3
<1> QED
  BY <1>3, <1>4, <1>5, <1>6 DEF Queue

-----------------------------------------------------------------------------
(* The owner of a mutex holds it as often as the count says, unless it is   *)
(* still to be woken: then it is going to hold it once.                     *)
OwnerHolds(m) ==
    ~ Free(m) => IF blocked[mutex[m].owner] = m
                 THEN mutex[m].count = 1 /\ held[mutex[m].owner][m] = 0
                 ELSE held[mutex[m].owner][m] = mutex[m].count

OwnersHold == \A m \in Mutexes : OwnerHolds(m)

(* Only a recursive mutex is locked more than once.                         *)
OnlyRecursive ==
    \A m \in Mutexes :
        mutex[m].kind # "SYNCH_RECURS" => mutex[m].count \in {0, 1}

IInv == TypeOK /\ HoldersOwn /\ OwnersHold /\ OnlyRecursive /\ WakeupsExact

(* The types of one mutex and one thread.                                   *)
LEMMA Types ==
    ASSUME TypeOK, NEW m \in Mutexes, NEW t \in Threads
    PROVE  /\ mutex[m].owner \in Threads /\ mutex[m].next \in Threads
           /\ mutex[m].last \in Threads /\ mutex[m].kind \in Kinds
           /\ mutex[m].count \in Nat /\ mutex[m].count < CountSize
           /\ held[t][m] \in Nat
           /\ tnext[t] \in Threads /\ snext[t] \in Threads
           /\ m # NoMutex
<1>1. CountSize \in Nat /\ NoMutex \notin Mutexes
  BY SynchAssumption
<1>2. mutex[m] \in [owner : Threads, next : Threads, last : Threads,
                    count : 0 .. CountSize - 1, kind : Kinds]
  BY DEF TypeOK
<1>3. mutex[m].count \in 0 .. CountSize - 1
  BY <1>2
<1> QED
  BY <1>1, <1>2, <1>3 DEF TypeOK

(* Nobody holds a free mutex.                                               *)
LEMMA FreeUnheld ==
    ASSUME IInv, NEW m \in Mutexes, Free(m), NEW t \in Threads
    PROVE  held[t][m] = 0
<1>1. held[t][m] \in Nat
  BY Types DEF IInv
<1>2. held[t][m] > 0 => held[t][m] = 0
  BY DEF IInv, HoldersOwn, Free
<1> QED
  BY <1>1, <1>2

(* A step that changes neither the owner and the count of a mutex nor        *)
(* whether the owner holds it.                                              *)
LEMMA OwnerHoldsKept ==
    ASSUME IInv, NEW m \in Mutexes, mutex'[m].owner = mutex[m].owner,
           mutex'[m].count = mutex[m].count,
           held'[mutex[m].owner][m] = held[mutex[m].owner][m],
           blocked'[mutex[m].owner] = m <=> blocked[mutex[m].owner] = m
    PROVE  OwnerHolds(m)'
<1>1. OwnerHolds(m)
  BY DEF IInv, OwnersHold
<1> QED
  BY <1>1 DEF OwnerHolds, Free

(* WaitersLinked in terms of Queue.                                         *)
LEMMA LinkedQueue ==
    ASSUME NEW m \in Mutexes
    PROVE  WaitersLinked(m) <=>
             IF Free(m) THEN \A t \in Threads : blocked[t] # m
             ELSE Queue(mutex[m].owner, mutex[m].next, mutex[m].last,
                        Waiters(m), tnext)
  BY DEF WaitersLinked, Queue

(* After reset nobody owns a mutex and nobody sleeps.                       *)
LEMMA InitIInv == Init => IInv
<1> SUFFICES ASSUME Init PROVE IInv
  OBVIOUS
<1> USE SynchAssumption
<1>1. TypeOK
  BY DEF Init, TypeOK, Threads, Kinds
<1>2. HoldersOwn /\ OwnersHold /\ OnlyRecursive
  BY DEF Init, HoldersOwn, OwnersHold, OwnerHolds, OnlyRecursive, Free, Threads
<1>3. \A m \in Mutexes : WaitersLinked(m)
  BY DEF Init, WaitersLinked, Free
<1>4. SleepingOwners = {} /\ ~ Sending
  BY DEF Init, SleepingOwners, Sending
<1>5. OwnersLinked
  <2>1. Chain(Threads, {}, 0, send_first, send_last, snext)
    BY ChainEmpty
  <2> QED
    BY <1>4, <2>1 DEF Init, OwnersLinked
<1> QED
  BY <1>1, <1>2, <1>3, <1>5 DEF IInv, WakeupsExact

(* What a lock or trylock call does.                                        *)
LEMMA LockCases ==
    ASSUME IInv, NEW m \in Mutexes, NEW t \in Threads,
           Lock(m, t) \/ Trylock(m, t)
    PROVE  /\ blocked[t] = NoMutex
           /\ UNCHANGED master
           /\ \/ Free(m) /\ mutex' = Taken(m, t) /\ Granted(m, t)
                 /\ UNCHANGED tnext
              \/ /\ ~ Free(m) /\ Recursive(m, t)
                 /\ mutex[m].count < CountSize - 1
                 /\ mutex' = Nested(m) /\ Granted(m, t) /\ UNCHANGED tnext
              \/ ~ Free(m) /\ mutex[m].owner # t /\ WaitFor(m, t)
              \/ UNCHANGED <<core, callers>>
<1>1. CASE Trylock(m, t)
  BY <1>1 DEF Trylock, TRYLOCK, Nests, core
<1>2. CASE Lock(m, t)
  <2>1. blocked[t] = NoMutex /\ UNCHANGED master /\ Nests(m, t) /\ LOCK(m, t)
        /\ ~ (held[t][m] > 0 /\ mutex[m].kind = "SYNCH_FAST")
    BY <1>2 DEF Lock, LOCK
  <2>2. CASE Free(m)
    BY <2>1, <2>2 DEF LOCK
  <2>3. CASE ~ Free(m) /\ Recursive(m, t)
    BY <2>1, <2>3 DEF LOCK, Nests, Recursive
  <2>4. CASE ~ Free(m) /\ ~ Recursive(m, t)
    <3>1. CASE mutex[m].owner = t
      <4>1. NoMutex # m
        BY SynchAssumption
      <4>2. held[t][m] = mutex[m].count /\ mutex[m].count > 0
        BY <2>1, <2>4, <3>1, <4>1 DEF IInv, OwnersHold, OwnerHolds, TypeOK, Free
      <4>3. mutex[m].kind = "SYNCH_ERROR"
        BY <2>1, <2>4, <3>1, <4>2 DEF IInv, TypeOK, Kinds, Recursive
      <4> QED
        BY <2>1, <2>4, <3>1, <4>3 DEF LOCK
    <3>2. CASE mutex[m].owner # t
      BY <2>1, <2>4, <3>2 DEF LOCK
    <3> QED
      BY <3>1, <3>2
  <2> QED
    BY <2>2, <2>3, <2>4
<1> QED
  BY <1>1, <1>2

(* A step that changes one mutex and nothing about who sleeps keeps the      *)
(* lists: a free mutex is taken or stays free, a mutex keeps its owner and   *)
(* its list, or one that nobody waits for is freed.                         *)
LEMMA ListsKept ==
    ASSUME IInv, TypeOK', NEW m \in Mutexes,
           UNCHANGED <<blocked, tnext, master>>,
           \A x \in Mutexes \ {m} : mutex'[x] = mutex[x],
           \/ /\ Free(m) /\ ~ Free(m)'
              /\ mutex'[m].next = mutex'[m].owner
              /\ mutex'[m].last = mutex'[m].owner
           \/ /\ Free(m) <=> Free(m)'
              /\ mutex'[m].owner = mutex[m].owner
              /\ mutex'[m].next = mutex[m].next
              /\ mutex'[m].last = mutex[m].last
           \/ Free(m)' /\ \A t \in Threads : blocked[t] # m
    PROVE  WakeupsExact'
<1>1. WaitersLinked(m)
  BY DEF IInv, WakeupsExact
<1>2. Free(m) => \A t \in Threads : blocked[t] # m
  BY <1>1 DEF WaitersLinked
<1>3. \A t \in Threads : blocked[t] = m => mutex'[m].owner = mutex[m].owner
  BY <1>2
<1>4. SleepingOwners' = SleepingOwners
  BY <1>3 DEF SleepingOwners
<1>5. OwnersLinked'
  BY <1>4 DEF IInv, WakeupsExact, OwnersLinked, Sending, master
<1>6. ASSUME NEW x \in Mutexes \ {m} PROVE WaitersLinked(x)'
  <2>1. mutex'[x] = mutex[x] /\ WaitersLinked(x)
    BY DEF IInv, WakeupsExact
  <2>2. Waiters(x)' = Waiters(x) /\ (Free(x)' <=> Free(x))
    BY <2>1 DEF Waiters, Free
  <2> QED
    BY <2>1, <2>2 DEF WaitersLinked
<1>7. WaitersLinked(m)'
  <2>1. CASE Free(m)'
    <3>1. \A t \in Threads : blocked[t] # m
      BY <1>2, <2>1
    <3> QED
      BY <2>1, <3>1 DEF WaitersLinked
  <2>2. CASE ~ Free(m)' /\ Free(m)
    <3>1. Waiters(m)' = {}
      BY <1>2, <2>2 DEF Waiters
    <3>2. mutex'[m].next = mutex'[m].owner /\ mutex'[m].last = mutex'[m].owner
      BY <2>2
    <3>3. Queue(mutex'[m].owner, mutex'[m].next, mutex'[m].last, {}, tnext')
      BY <3>2, QueueEmpty
    <3> QED
      BY <2>2, <3>1, <3>3 DEF WaitersLinked, Queue
  <2>3. CASE ~ Free(m)' /\ ~ Free(m)
    <3>1. /\ mutex'[m].owner = mutex[m].owner
          /\ mutex'[m].next = mutex[m].next
          /\ mutex'[m].last = mutex[m].last
      BY <2>3
    <3>2. Waiters(m)' = Waiters(m)
      BY <3>1 DEF Waiters
    <3> QED
      BY <1>1, <2>3, <3>1, <3>2 DEF WaitersLinked
  <2> QED
    BY <2>1, <2>2, <2>3
<1> QED
  BY <1>5, <1>6, <1>7 DEF WakeupsExact

(* A free mutex is taken.                                                   *)
LEMMA TakenKeeps ==
    ASSUME IInv, NEW m \in Mutexes, NEW t \in Threads, blocked[t] = NoMutex,
           Free(m), mutex' = Taken(m, t), Granted(m, t),
           UNCHANGED <<tnext, master>>
    PROVE  IInv'
<1>1. TypeOK'
  BY SynchAssumption DEF IInv, TypeOK, Taken, Granted, master
<1>2. /\ mutex'[m] = [owner |-> t, next |-> t, last |-> t, count |-> 1,
                      kind |-> mutex[m].kind]
      /\ \A x \in Mutexes \ {m} : mutex'[x] = mutex[x]
      /\ blocked' = blocked
  BY DEF IInv, TypeOK, Taken, Granted
<1>3. /\ held'[t][m] = held[t][m] + 1
      /\ \A x \in Mutexes, u \in Threads :
            x # m \/ u # t => held'[u][x] = held[u][x]
  BY DEF IInv, TypeOK, Granted
<1>4. \A u \in Threads : held[u][m] = 0
  BY FreeUnheld
<1>5. ~ Free(m)'
  BY <1>2 DEF Free
<1>6. WakeupsExact'
  BY <1>1, <1>2, <1>5, ListsKept
<1>7. HoldersOwn'
  BY <1>2, <1>3, <1>4 DEF IInv, HoldersOwn
<1>8. OwnersHold'
  <2>1. OwnerHolds(m)'
    BY <1>2, <1>3, <1>4, SynchAssumption DEF OwnerHolds
  <2>2. ASSUME NEW x \in Mutexes \ {m} PROVE OwnerHolds(x)'
    BY <1>2, <1>3, Types, OwnerHoldsKept DEF IInv
  <2> QED
    BY <2>1, <2>2 DEF OwnersHold
<1>9. OnlyRecursive'
  BY <1>2 DEF IInv, OnlyRecursive
<1> QED
  BY <1>1, <1>6, <1>7, <1>8, <1>9 DEF IInv

(* The owner of a recursive mutex locks it again.                           *)
LEMMA NestedKeeps ==
    ASSUME IInv, NEW m \in Mutexes, NEW t \in Threads, blocked[t] = NoMutex,
           ~ Free(m), Recursive(m, t), mutex[m].count < CountSize - 1,
           mutex' = Nested(m), Granted(m, t), UNCHANGED <<tnext, master>>
    PROVE  IInv'
<1>1. /\ mutex[m].count \in Nat
      /\ (mutex[m].count + 1) % CountSize = mutex[m].count + 1
  <2>1. CountSize \in Nat /\ mutex[m].count \in 0 .. CountSize - 1
    BY SynchAssumption DEF IInv, TypeOK
  <2> QED
    BY <2>1
<1>2. /\ mutex'[m] = [mutex[m] EXCEPT !.count = mutex[m].count + 1]
      /\ \A x \in Mutexes \ {m} : mutex'[x] = mutex[x]
      /\ blocked' = blocked
  BY Zenon, <1>1 DEF IInv, TypeOK, Nested, Granted
<1>3. TypeOK'
  <2>1. mutex[m].count + 1 \in 0 .. CountSize - 1
    BY <1>1, SynchAssumption
  <2>2. mutex' = [mutex EXCEPT ![m].count = mutex[m].count + 1]
    BY Zenon, <1>1 DEF Nested
  <2>3. mutex' \in [Mutexes -> [owner : Threads, next : Threads, last : Threads,
                                count : 0 .. CountSize - 1, kind : Kinds]]
    <3> DEFINE R == 0 .. CountSize - 1
               E == [owner : Threads, next : Threads, last : Threads,
                     count : R, kind : Kinds]
    <3>1. mutex \in [Mutexes -> E] /\ mutex[m].count + 1 \in R
      BY <2>1 DEF IInv, TypeOK
    <3> HIDE DEF R
    <3>2. mutex' \in [Mutexes -> E]
      BY <2>2, <3>1
    <3> QED
      BY <3>2 DEF R
  <2>4. held' \in [Threads -> [Mutexes -> Nat]]
    BY DEF IInv, TypeOK, Granted
  <2> QED
    BY <2>3, <2>4 DEF IInv, TypeOK, Granted, master
<1>4. /\ held'[t][m] = held[t][m] + 1
      /\ \A x \in Mutexes, u \in Threads :
            x # m \/ u # t => held'[u][x] = held[u][x]
  BY DEF IInv, TypeOK, Granted
<1>5. /\ mutex[m].owner = t /\ mutex[m].kind = "SYNCH_RECURS"
      /\ held[t][m] = mutex[m].count
  <2>1. m # NoMutex
    BY SynchAssumption
  <2> QED
    BY <2>1 DEF IInv, OwnersHold, OwnerHolds, Recursive
<1>6. /\ mutex'[m].owner = mutex[m].owner /\ mutex'[m].next = mutex[m].next
      /\ mutex'[m].last = mutex[m].last /\ mutex'[m].kind = mutex[m].kind
      /\ mutex'[m].count = mutex[m].count + 1
  BY <1>2 DEF IInv, TypeOK
<1>7. ~ Free(m)'
  BY <1>6 DEF IInv, TypeOK, Free
<1>8. WakeupsExact'
  BY Zenon, <1>2, <1>3, <1>6, <1>7, ListsKept
<1>9. HoldersOwn'
  <2> SUFFICES ASSUME NEW x \in Mutexes, NEW u \in Threads, held'[u][x] > 0
               PROVE  mutex'[x].owner = u /\ mutex'[x].count = held'[u][x]
    BY DEF HoldersOwn
  <2>1. CASE x # m
    BY <1>2, <1>4, <2>1 DEF IInv, HoldersOwn
  <2>2. CASE x = m
    BY <1>4, <1>5, <1>6, <2>2 DEF IInv, HoldersOwn
  <2> QED
    BY <2>1, <2>2
<1>10. OwnersHold'
  <2>1. OwnerHolds(m)'
    BY <1>2, <1>4, <1>5, <1>6, SynchAssumption DEF OwnerHolds
  <2>2. ASSUME NEW x \in Mutexes \ {m} PROVE OwnerHolds(x)'
    BY <1>2, <1>4, Types, OwnerHoldsKept DEF IInv
  <2> QED
    BY <2>1, <2>2 DEF OwnersHold
<1>11. OnlyRecursive'
  BY ZenonT(30), <1>2, <1>5, <1>6 DEF IInv, OnlyRecursive
<1> QED
  BY <1>3, <1>8, <1>9, <1>10, <1>11 DEF IInv

(* A thread queues for a mutex that another one owns.                       *)
LEMMA WaitForKeeps ==
    ASSUME IInv, NEW m \in Mutexes, NEW t \in Threads, blocked[t] = NoMutex,
           ~ Free(m), mutex[m].owner # t, WaitFor(m, t), UNCHANGED master
    PROVE  IInv'
<1> DEFINE o == mutex[m].owner
           f == mutex[m].next
           l == mutex[m].last
           W == Waiters(m)
<1>1. TypeOK
  BY DEF IInv
<1>2. /\ o \in Threads /\ f \in Threads /\ l \in Threads
      /\ \A x \in Mutexes : x # NoMutex
      /\ tnext \in [Threads -> Threads]
  BY <1>1, Types DEF TypeOK
<1>3. o \notin W /\ t \notin W /\ W \subseteq Threads
  BY <1>2 DEF Waiters
<1>4. Queue(o, f, l, W, tnext)
  BY LinkedQueue DEF IInv, WakeupsExact
<1>5. f # o => l \in W
  BY <1>3, <1>4, QueueEnds
<1>6. /\ mutex'[m].owner = o /\ mutex'[m].count = mutex[m].count
      /\ mutex'[m].kind = mutex[m].kind
      /\ mutex'[m].next = IF f = o THEN t ELSE f
      /\ mutex'[m].last = t
      /\ \A x \in Mutexes \ {m} : mutex'[x] = mutex[x]
  BY <1>1 DEF WaitFor, TypeOK
<1>7. /\ tnext' = IF f = o THEN [tnext EXCEPT ![t] = t]
                  ELSE [tnext EXCEPT ![l] = t, ![t] = t]
      /\ blocked' = [blocked EXCEPT ![t] = m] /\ held' = held
  BY DEF WaitFor
<1>8. TypeOK'
  <2> DEFINE E == [owner : Threads, next : Threads, last : Threads,
                   count : 0 .. CountSize - 1, kind : Kinds]
  <2>1. mutex \in [Mutexes -> E]
    BY <1>1 DEF TypeOK
  <2>2. mutex' = IF f = o THEN [mutex EXCEPT ![m].next = t, ![m].last = t]
                 ELSE [mutex EXCEPT ![m].last = t]
    BY DEF WaitFor
  <2>3. mutex' \in [Mutexes -> E]
    BY ZenonT(30), <2>1, <2>2
  <2>4. /\ tnext' \in [Threads -> Threads]
        /\ blocked' \in [Threads -> Mutexes \cup {NoMutex}]
    BY SMTT(30), <1>1, <1>2, <1>7 DEF TypeOK
  <2> QED
    BY Zenon, <1>1, <1>7, <2>3, <2>4 DEF TypeOK, master
<1>9. blocked'[t] = m /\ \A u \in Threads \ {t} : blocked'[u] = blocked[u]
  BY <1>1, <1>7 DEF TypeOK
<1>10. \A x \in Mutexes : Free(x)' <=> Free(x)
  BY <1>6 DEF Free
<1>11. WaitersLinked(m)'
  <2>1. Waiters(m)' = W \cup {t}
    BY <1>6, <1>9 DEF Waiters
  <2>2. Queue(o, mutex'[m].next, t, W \cup {t}, tnext')
    BY ZenonT(30), <1>2, <1>3, <1>4, <1>6, <1>7, QueueAdd
  <2> QED
    BY <1>6, <1>10, <2>1, <2>2 DEF WaitersLinked, Queue
<1>12. ASSUME NEW x \in Mutexes \ {m} PROVE WaitersLinked(x)'
  <2>1. Waiters(x)' = Waiters(x) /\ Waiters(x) \subseteq Threads \ (W \cup {t})
    BY <1>2, <1>6, <1>9 DEF Waiters
  <2>2. WaitersLinked(x)
    BY DEF IInv, WakeupsExact
  <2>3. CASE Free(x)
    BY SMTT(30), <1>2, <1>9, <1>10, <2>2, <2>3 DEF WaitersLinked
  <2>4. CASE ~ Free(x)
    <3>1. \A u \in Waiters(x) : tnext'[u] = tnext[u]
      BY <1>2, <1>5, <1>7, <2>1
    <3>2. Queue(mutex[x].owner, mutex[x].next, mutex[x].last, Waiters(x), tnext)
      BY <2>2, <2>4, LinkedQueue
    <3>3. Queue(mutex[x].owner, mutex[x].next, mutex[x].last, Waiters(x), tnext')
      BY <3>1, <3>2, QueueFrame
    <3> QED
      BY <1>6, <1>10, <2>1, <2>4, <3>3 DEF WaitersLinked, Queue
  <2> QED
    BY <2>3, <2>4
<1>13. OwnersLinked'
  <2>1. SleepingOwners' = SleepingOwners
    <3>1. \A x \in Mutexes : mutex'[x].owner = mutex[x].owner
      BY <1>6
    <3>2. t \notin SleepingOwners /\ t \notin SleepingOwners'
      BY <1>2, <1>6, <1>9 DEF SleepingOwners
    <3>3. \A u \in Threads \ {t} : u \in SleepingOwners <=> u \in SleepingOwners'
      BY <1>9, <3>1 DEF SleepingOwners
    <3> QED
      BY <3>2, <3>3 DEF SleepingOwners
  <2> QED
    BY <2>1 DEF IInv, WakeupsExact, OwnersLinked, Sending, master
<1>14. HoldersOwn' /\ OnlyRecursive'
  BY <1>6, <1>7 DEF IInv, HoldersOwn, OnlyRecursive
<1>15. OwnersHold'
  <2>1. ASSUME NEW x \in Mutexes PROVE OwnerHolds(x)'
    <3>1. mutex'[x].owner = mutex[x].owner /\ mutex'[x].count = mutex[x].count
      BY <1>6
    <3>2. mutex[x].owner \in Threads
      BY <1>1, Types
    <3>3. blocked'[mutex[x].owner] = x <=> blocked[mutex[x].owner] = x
      BY <1>2, <1>9, <3>2
    <3> QED
      BY <1>7, <3>1, <3>3, OwnerHoldsKept
  <2> QED
    BY <2>1 DEF OwnersHold
<1> QED
  BY <1>8, <1>11, <1>12, <1>13, <1>14, <1>15 DEF IInv, WakeupsExact

(* The master takes note of a new owner: it has room for it, as the thread   *)
(* that unlocked is awake.                                                  *)
LEMMA SendKeeps ==
    ASSUME TypeOK, OwnersLinked, queue_cs = "IDLE", NEW f \in Threads, Send(f),
           f \notin SleepingOwners, SleepingOwners' = SleepingOwners \cup {f},
           NEW t \in Threads, t \notin SleepingOwners, t # f
    PROVE  /\ OwnersLinked'
           /\ snext' \in [Threads -> Threads]
           /\ queue_cs' = "IDLE" /\ send_cs' = "SENDING"
           /\ send_first' \in Threads /\ send_last' \in Threads
           /\ send_cur' \in Threads /\ send_count' \in 0 .. NumThreads - 1
<1>1. /\ snext \in [Threads -> Threads] /\ send_cs \in {"IDLE", "SENDING"}
      /\ send_first \in Threads /\ send_last \in Threads /\ send_cur \in Threads
      /\ send_count \in Nat /\ send_count \in 0 .. NumThreads - 1
      /\ NumThreads \in Nat \ {0}
  BY SynchAssumption DEF TypeOK
<1>2. send_last' = f /\ queue_cs' = "IDLE"
  BY DEF Send
<1>3. CASE send_cs = "IDLE"
  <2>1. ~ Sending /\ send_count = 0
    BY <1>3 DEF Sending, OwnersLinked
  <2>2. SleepingOwners = {}
    <3>1. Chain(Threads, SleepingOwners, send_count, send_first, send_last, snext)
      BY <2>1 DEF OwnersLinked
    <3> QED
      BY <1>1, <2>1, <3>1, ChainEnds
  <2>3. /\ send_cs' = "SENDING" /\ send_cur' = f /\ send_first' = snext[f]
        /\ snext' = snext /\ send_count' = 0
    BY <1>3, <2>1 DEF Send
  <2>4. Sending' /\ SleepingOwners' \ {send_cur'} = {}
    BY <1>2, <2>2, <2>3 DEF Sending
  <2>5. Chain(Threads, {}, 0, send_first', send_last', snext')
    BY ChainEmpty
  <2>6. OwnersLinked'
    BY <1>2, <2>3, <2>4, <2>5 DEF OwnersLinked
  <2> QED
    BY <1>1, <1>2, <2>1, <2>3, <2>6
<1>4. CASE send_cs = "SENDING"
  <2> DEFINE S == SleepingOwners \ {send_cur}
  <2>1. Sending /\ send_cur \in SleepingOwners
    BY <1>4 DEF Sending, OwnersLinked
  <2>2. Chain(Threads, S, send_count, send_first, send_last, snext)
    BY <2>1 DEF OwnersLinked
  <2>3. /\ send_cs' = "SENDING" /\ send_cur' = send_cur
        /\ send_count' = (send_count + 1) % NumThreads
        /\ IF send_count = 0
           THEN send_first' = f /\ snext' = snext
           ELSE send_first' = send_first /\ snext' = [snext EXCEPT ![send_last] = f]
    BY <1>4 DEF Send
  <2>4. f \notin S /\ SleepingOwners' \ {send_cur'} = S \cup {f} /\ Sending'
    BY <1>2, <2>1, <2>3 DEF Sending
  <2>5. Chain(Threads, S \cup {f}, send_count + 1, send_first', f, snext')
    <3>1. CASE send_count = 0
      <4>1. S = {}
        BY <1>1, <2>2, <3>1, ChainEnds
      <4> QED
        BY <2>3, <3>1, <4>1, ChainOne
    <3>2. CASE send_count # 0
      <4>1. S \subseteq Threads /\ send_last \in S
        BY <1>1, <2>2, <3>2, ChainEnds
      <4>2. snext'[send_last] = f /\ \A u \in S : u # send_last => snext'[u] = snext[u]
        BY <1>1, <2>3, <3>2, <4>1
      <4>3. send_count \in Nat \ {0}
        BY <1>1, <3>2
      <4> QED
        BY <2>2, <2>3, <2>4, <3>2, <4>2, <4>3, ChainAppend
    <3> QED
      BY <3>1, <3>2
  <2>6. send_count + 1 < NumThreads
    <3>1. t \notin S \cup {f} /\ send_count + 1 \in Nat
      BY <1>1
    <3> QED
      BY Zenon, <1>1, <2>5, <3>1, ChainFewer DEF Threads
  <2>7. send_count' = send_count + 1
    BY <1>1, <2>3, <2>6
  <2>8. OwnersLinked'
    BY ZenonT(30), <1>2, <2>1, <2>3, <2>4, <2>5, <2>7 DEF OwnersLinked
  <2>9. snext' \in [Threads -> Threads] /\ send_first' \in Threads
    BY <1>1, <2>3
  <2> QED
    BY <1>1, <1>2, <2>3, <2>6, <2>7, <2>8, <2>9
<1> QED
  BY <1>1, <1>3, <1>4

(* The three things UNLOCK does to a mutex that is held.                    *)
Undone(m) ==
    /\ mutex[m].count > 1 /\ mutex[m].kind = "SYNCH_RECURS"
    /\ mutex' = [mutex EXCEPT ![m].count = mutex[m].count - 1]

Freed(m) ==
    /\ mutex[m].count = 1
    /\ mutex' = [mutex EXCEPT ![m].owner = 0, ![m].next = 0, ![m].last = 0,
                              ![m].count = 0]

HandedOver(m) ==
    /\ mutex[m].count = 1
    /\ mutex' = [mutex EXCEPT ![m].owner = mutex[m].next,
                              ![m].next = tnext[mutex[m].next], ![m].count = 1]

(* What an unlock call of a thread that holds the mutex does: it undoes one  *)
(* of several locks, frees the mutex, or hands it over.                     *)
LEMMA UnlockCases ==
    ASSUME IInv, NEW m \in Mutexes, NEW t \in Threads, OwnerUnlocks(m, t)
    PROVE  /\ blocked[t] = NoMutex /\ queue_cs = "IDLE"
           /\ mutex[m].owner = t /\ held[t][m] = mutex[m].count
           /\ mutex[m].count \in Nat \ {0}
           /\ UNCHANGED <<tnext, blocked>>
           /\ held' = [held EXCEPT ![t][m] = mutex[m].count - 1]
           /\ \/ Undone(m) /\ UNCHANGED master
              \/ mutex[m].last = t /\ Freed(m) /\ UNCHANGED master
              \/ mutex[m].last # t /\ HandedOver(m) /\ Send(mutex[m].next)
<1>1. /\ held[t][m] > 0 /\ queue_cs = "IDLE" /\ blocked[t] = NoMutex
      /\ UNLOCK(m) /\ UNCHANGED <<tnext, blocked>>
      /\ held' = [held EXCEPT ![t][m] = IF @ > 0 THEN @ - 1 ELSE 0]
  BY DEF OwnerUnlocks, Unlock, UNLOCK
<1>2. mutex[m].count \in Nat /\ held[t][m] \in Nat
  BY Types DEF IInv
<1>3. mutex[m].owner = t /\ held[t][m] = mutex[m].count
  BY <1>1 DEF IInv, HoldersOwn
<1>4. held' = [held EXCEPT ![t][m] = mutex[m].count - 1]
  BY Zenon, <1>1, <1>3
<1>5. mutex[m].kind # "SYNCH_RECURS" => mutex[m].count = 1
  BY <1>1, <1>2, <1>3 DEF IInv, OnlyRecursive
<1>6. CASE mutex[m].count > 1
  <2>1. mutex[m].kind = "SYNCH_RECURS" /\ mutex[m].count \notin {0, 1}
    BY <1>2, <1>5, <1>6
  <2>2. mutex' = [mutex EXCEPT ![m].count = mutex[m].count - 1]
        /\ UNCHANGED master
    BY <1>1, <2>1 DEF UNLOCK, HandsOver
  <2> QED
    BY Zenon, <1>1, <1>2, <1>3, <1>4, <1>6, <2>1, <2>2 DEF Undone
<1>7. CASE mutex[m].count = 1 /\ mutex[m].last = t
  <2>1. /\ mutex' = [mutex EXCEPT ![m].owner = 0, ![m].next = 0,
                                  ![m].last = 0, ![m].count = 0]
        /\ UNCHANGED master
    BY <1>1, <1>3, <1>7 DEF UNLOCK, HandsOver
  <2> QED
    BY <1>1, <1>2, <1>3, <1>4, <1>7, <2>1 DEF Freed
<1>8. CASE mutex[m].count = 1 /\ mutex[m].last # t
  <2>1. /\ mutex' = [mutex EXCEPT ![m].owner = mutex[m].next,
                                  ![m].next = tnext[mutex[m].next],
                                  ![m].count = 1]
        /\ Send(mutex[m].next)
    BY <1>1, <1>3, <1>8 DEF UNLOCK, HandsOver
  <2> QED
    BY <1>1, <1>2, <1>3, <1>4, <1>8, <2>1 DEF HandedOver
<1>9. mutex[m].count > 1 \/ mutex[m].count = 1
  BY <1>1, <1>2, <1>3
<1> QED
  BY <1>6, <1>7, <1>8, <1>9

(* Only the owner holds a mutex.                                            *)
LEMMA OthersUnheld ==
    ASSUME IInv, NEW m \in Mutexes
    PROVE  \A u \in Threads : u # mutex[m].owner => held[u][m] = 0
  BY Types DEF IInv, HoldersOwn

(* A mutex locked several times is unlocked once, or one that nobody waits   *)
(* for is freed.                                                            *)
LEMMA GivenUpKeeps ==
    ASSUME IInv, NEW m \in Mutexes, NEW t \in Threads, blocked[t] = NoMutex,
           mutex[m].owner = t, held[t][m] = mutex[m].count,
           mutex[m].count \in Nat \ {0},
           UNCHANGED <<tnext, blocked, master>>,
           held' = [held EXCEPT ![t][m] = mutex[m].count - 1],
           Undone(m) \/ (mutex[m].last = t /\ Freed(m))
    PROVE  IInv'
<1> DEFINE n == mutex[m].count - 1
<1>1. n \in Nat /\ n \in 0 .. CountSize - 1 /\ n < mutex[m].count
  <2>1. mutex[m].count < CountSize /\ CountSize \in Nat
    BY Types, SynchAssumption DEF IInv
  <2> QED
    BY <2>1
<1>0. held' = [held EXCEPT ![t][m] = n]
  OBVIOUS
<1> HIDE DEF n
<1>2. /\ held' \in [Threads -> [Mutexes -> Nat]]
      /\ held'[t][m] = n
      /\ \A x \in Mutexes, u \in Threads :
            x # m \/ u # t => held'[u][x] = held[u][x]
  BY <1>1, <1>0 DEF IInv, TypeOK
<1> USE DEF n
<1>3. m # NoMutex /\ 0 \in Threads
  BY SynchAssumption DEF Threads
<1>4. \A u \in Threads : u # t => held[u][m] = 0
  BY OthersUnheld
<1>5. /\ \A x \in Mutexes \ {m} : mutex'[x] = mutex[x]
      /\ mutex'[m].kind = mutex[m].kind
      /\ mutex'[m].count = n
      /\ mutex[m].count > 1 => /\ mutex'[m].owner = t
                               /\ mutex'[m].next = mutex[m].next
                               /\ mutex'[m].last = mutex[m].last
  <2>1. mutex \in [Mutexes -> [owner : Threads, next : Threads, last : Threads,
                                count : 0 .. CountSize - 1, kind : Kinds]]
    BY DEF IInv, TypeOK
  <2> QED
    BY <2>1 DEF Undone, Freed
<1>6. TypeOK'
  <2> DEFINE R == 0 .. CountSize - 1
             E == [owner : Threads, next : Threads, last : Threads,
                   count : R, kind : Kinds]
  <2>1. mutex \in [Mutexes -> E] /\ n \in R /\ 0 \in R
    BY <1>1, SynchAssumption DEF IInv, TypeOK
  <2> HIDE DEF R
  <2>2. mutex' \in [Mutexes -> E]
    BY <1>3, <2>1 DEF Undone, Freed
  <2>3. mutex' \in [Mutexes -> [owner : Threads, next : Threads, last : Threads,
                                count : 0 .. CountSize - 1, kind : Kinds]]
    BY <2>2 DEF R
  <2> QED
    BY <1>2, <2>3 DEF IInv, TypeOK, master
<1> HIDE DEF n
<1>7. HoldersOwn'
  <2> SUFFICES ASSUME NEW x \in Mutexes, NEW u \in Threads, held'[u][x] > 0
               PROVE  mutex'[x].owner = u /\ mutex'[x].count = held'[u][x]
    BY DEF HoldersOwn
  <2>1. CASE x # m
    BY <1>2, <1>5, <2>1 DEF IInv, HoldersOwn
  <2>2. CASE x = m
    <3>1. u = t
      BY <1>2, <1>4, <2>2
    <3>2. mutex[m].count > 1
      BY <1>2, <2>2, <3>1 DEF n
    <3> QED
      BY <1>2, <1>5, <2>2, <3>1, <3>2
  <2> QED
    BY <2>1, <2>2
<1>8. OwnersHold'
  <2>1. OwnerHolds(m)'
    <3>1. CASE mutex[m].count > 1
      BY <1>2, <1>3, <1>5, <3>1 DEF OwnerHolds
    <3>2. CASE mutex[m].count = 1
      <4>1. Free(m)'
        BY <1>5, <3>2 DEF Free, n
      <4> QED
        BY <4>1 DEF OwnerHolds
    <3> QED
      BY <3>1, <3>2
  <2>2. ASSUME NEW x \in Mutexes \ {m} PROVE OwnerHolds(x)'
    BY <1>2, <1>5, Types, OwnerHoldsKept DEF IInv
  <2> QED
    BY <2>1, <2>2 DEF OwnersHold
<1>9. OnlyRecursive'
  <2>1. mutex[m].kind # "SYNCH_RECURS" => n = 0
    BY DEF n, Undone, Freed
  <2> QED
    BY <1>5, <2>1 DEF IInv, OnlyRecursive
<1>10. WakeupsExact'
  <2>1. CASE mutex[m].count > 1
    <3>1. ~ Free(m) /\ ~ Free(m)'
      BY <1>5, <2>1 DEF Free, n
    <3> QED
      BY <1>5, <1>6, <2>1, <3>1, ListsKept
  <2>2. CASE mutex[m].count = 1
    <3>1. Free(m)' /\ ~ Free(m) /\ mutex[m].last = t
      BY <1>5, <2>2 DEF Free, n, Undone
    <3>2. Queue(t, mutex[m].next, t, Waiters(m), tnext)
      BY <3>1, LinkedQueue DEF IInv, WakeupsExact
    <3>3. t \notin Waiters(m)
      BY DEF Waiters
    <3>4. Waiters(m) = {}
      BY <3>2, <3>3, QueueEnds
    <3>5. \A u \in Threads : blocked[u] # m
      BY <1>3, <3>4 DEF Waiters
    <3> QED
      BY <1>5, <1>6, <3>1, <3>5, ListsKept
  <2> QED
    BY <2>1, <2>2
<1> QED
  BY <1>6, <1>7, <1>8, <1>9, <1>10 DEF IInv

(* A mutex is handed over to its first waiter.                              *)
LEMMA HandedOverKeeps ==
    ASSUME IInv, NEW m \in Mutexes, NEW t \in Threads, blocked[t] = NoMutex,
           queue_cs = "IDLE", mutex[m].owner = t,
           held[t][m] = mutex[m].count, UNCHANGED <<tnext, blocked>>,
           held' = [held EXCEPT ![t][m] = mutex[m].count - 1],
           mutex[m].last # t, HandedOver(m), Send(mutex[m].next)
    PROVE  IInv'
<1> DEFINE f == mutex[m].next
<1>1. mutex[m].count = 1 /\ ~ Free(m) /\ m # NoMutex
  BY SynchAssumption DEF HandedOver, Free
<1>2. Queue(t, f, mutex[m].last, Waiters(m), tnext) /\ t \notin Waiters(m)
  BY <1>1, LinkedQueue DEF IInv, WakeupsExact, Waiters
<1>3. f \in Waiters(m) /\ Waiters(m) # {}
  BY <1>2, QueueEnds
<1>4. f \in Threads /\ blocked[f] = m /\ f # t /\ tnext[f] \in Threads
  BY <1>3 DEF Waiters, IInv, TypeOK
<1>5. /\ \A x \in Mutexes \ {m} : mutex'[x] = mutex[x]
      /\ mutex'[m].owner = f /\ mutex'[m].next = tnext[f]
      /\ mutex'[m].last = mutex[m].last /\ mutex'[m].count = 1
      /\ mutex'[m].kind = mutex[m].kind
  <2>1. mutex \in [Mutexes -> [owner : Threads, next : Threads, last : Threads,
                                count : 0 .. CountSize - 1, kind : Kinds]]
    BY DEF IInv, TypeOK
  <2> QED
    BY <2>1 DEF HandedOver
<1>6. mutex' \in [Mutexes -> [owner : Threads, next : Threads, last : Threads,
                              count : 0 .. CountSize - 1, kind : Kinds]]
  <2> DEFINE R == 0 .. CountSize - 1
             E == [owner : Threads, next : Threads, last : Threads,
                   count : R, kind : Kinds]
  <2>1. mutex \in [Mutexes -> E] /\ 1 \in R
    BY SynchAssumption DEF IInv, TypeOK
  <2> HIDE DEF R
  <2> DEFINE a == [mutex EXCEPT ![m].owner = f]
             b == [a EXCEPT ![m].next = tnext[f]]
             c == [b EXCEPT ![m].count = 1]
  <2>2. mutex' = c
    BY DEF HandedOver
  <2>3. a \in [Mutexes -> E]
    BY <1>4, <2>1
  <2> HIDE DEF a
  <2>4. b \in [Mutexes -> E]
    BY <1>4, <2>3
  <2> HIDE DEF b
  <2>5. mutex' \in [Mutexes -> E]
    BY <2>1, <2>2, <2>4
  <2> QED
    BY <2>5 DEF R
<1>7. held' = [held EXCEPT ![t][m] = 0]
  BY <1>1
<1>8. /\ held' \in [Threads -> [Mutexes -> Nat]]
      /\ held'[t][m] = 0
      /\ \A x \in Mutexes, u \in Threads :
            x # m \/ u # t => held'[u][x] = held[u][x]
  BY <1>7 DEF IInv, TypeOK
<1>9. \A u \in Threads : held'[u][m] = 0
  BY SMTT(30), <1>8, OthersUnheld
<1> HIDE DEF f
<1>10. HoldersOwn'
  BY <1>5, <1>8, <1>9 DEF IInv, HoldersOwn
<1>11. OwnersHold'
  <2>1. OwnerHolds(m)'
    BY SMTT(30), <1>4, <1>5, <1>9 DEF OwnerHolds
  <2>2. ASSUME NEW x \in Mutexes \ {m} PROVE OwnerHolds(x)'
    BY <1>5, <1>8, Types, OwnerHoldsKept DEF IInv
  <2> QED
    BY <2>1, <2>2 DEF OwnersHold
<1>12. OnlyRecursive'
  BY <1>5 DEF IInv, OnlyRecursive
<1>13. f \notin SleepingOwners /\ t \notin SleepingOwners
  BY <1>1, <1>4, SynchAssumption DEF SleepingOwners
<1>14. SleepingOwners' = SleepingOwners \cup {f}
  <2>1. ASSUME NEW u \in Threads
        PROVE  u \in SleepingOwners' <=> u \in SleepingOwners \cup {f}
    <3>1. CASE u = f
      BY <1>4, <1>5, <3>1 DEF SleepingOwners
    <3>2. CASE u # f
      <4>1. ASSUME NEW x \in Mutexes
            PROVE  (blocked'[u] = x /\ mutex'[x].owner = u) <=>
                   (blocked[u] = x /\ mutex[x].owner = u)
        BY <1>1, <1>5, <3>2
      <4> QED
        BY <3>2, <4>1 DEF SleepingOwners
    <3> QED
      BY <3>1, <3>2
  <2>2. SleepingOwners' \subseteq Threads /\ SleepingOwners \cup {f} \subseteq Threads
    BY <1>4 DEF SleepingOwners
  <2> QED
    BY <2>1, <2>2
<1>15. /\ OwnersLinked'
       /\ snext' \in [Threads -> Threads]
       /\ queue_cs' = "IDLE" /\ send_cs' = "SENDING"
       /\ send_first' \in Threads /\ send_last' \in Threads
       /\ send_cur' \in Threads /\ send_count' \in 0 .. NumThreads - 1
  <2>1. TypeOK /\ OwnersLinked /\ Send(f)
    BY DEF IInv, WakeupsExact, f
  <2> QED
    BY <1>4, <1>13, <1>14, <2>1, SendKeeps
<1>16. TypeOK'
  BY <1>6, <1>8, <1>15 DEF IInv, TypeOK
<1>17. WaitersLinked(m)'
  <2>1. Waiters(m)' = Waiters(m) \ {f}
    <3>1. Waiters(m)' = {u \in Threads : blocked[u] = m /\ f # u}
      BY <1>5 DEF Waiters
    <3>2. blocked[t] # m
      BY <1>1
    <3> QED
      BY <3>1, <3>2 DEF Waiters
  <2>2. Queue(f, tnext[f], mutex[m].last, Waiters(m) \ {f}, tnext)
    BY SMTT(30), <1>2, <1>3, QueueNext
  <2>3. ~ Free(m)'
    BY <1>5 DEF Free
  <2> QED
    BY <1>5, <2>1, <2>2, <2>3 DEF WaitersLinked, Queue
<1>18. ASSUME NEW x \in Mutexes \ {m} PROVE WaitersLinked(x)'
  <2>1. mutex'[x] = mutex[x] /\ WaitersLinked(x)
    BY <1>5 DEF IInv, WakeupsExact
  <2>2. Waiters(x)' = Waiters(x) /\ (Free(x)' <=> Free(x))
    BY <2>1 DEF Waiters, Free
  <2> QED
    BY <2>1, <2>2 DEF WaitersLinked
<1> QED
  BY <1>10, <1>11, <1>12, <1>15, <1>16, <1>17, <1>18 DEF IInv, WakeupsExact

(* A free mutex is initialized.                                             *)
LEMMA InitMutexKeeps ==
    ASSUME IInv, NEW m \in Mutexes, NEW k \in UsedKinds, InitMutex(m, k)
    PROVE  IInv'
<1>1. /\ Free(m) /\ mutex' = [mutex EXCEPT ![m].kind = k]
      /\ UNCHANGED <<tnext, master, blocked, held>>
  BY DEF InitMutex, KIND, callers
<1>2. TypeOK'
  <2>1. k \in Kinds
    BY SynchAssumption DEF Kinds
  <2> QED
    BY ZenonT(30), <1>1, <2>1 DEF IInv, TypeOK, master
<1>3. /\ \A x \in Mutexes \ {m} : mutex'[x] = mutex[x]
      /\ mutex'[m].owner = mutex[m].owner /\ mutex'[m].next = mutex[m].next
      /\ mutex'[m].last = mutex[m].last /\ mutex'[m].count = mutex[m].count
      /\ mutex[m].count = 0
  BY <1>1 DEF IInv, TypeOK, Free
<1>4. \A x \in Mutexes :
        mutex'[x].owner = mutex[x].owner /\ mutex'[x].count = mutex[x].count
  BY <1>3
<1>5. HoldersOwn'
  BY <1>1, <1>4 DEF IInv, HoldersOwn
<1>6. OwnersHold'
  BY <1>1, <1>4, OwnerHoldsKept DEF OwnersHold
<1>7. OnlyRecursive'
  BY <1>3 DEF IInv, OnlyRecursive
<1>8. Free(m)' <=> Free(m)
  BY <1>4 DEF Free
<1>9. WakeupsExact'
  BY <1>1, <1>2, <1>3, <1>8, ListsKept
<1> QED
  BY <1>2, <1>5, <1>6, <1>7, <1>9 DEF IInv

(* The master has woken an owner, which now holds its mutex.                 *)
LEMMA SendDoneKeeps ==
    ASSUME IInv, SendDone
    PROVE  IInv'
<1>0. PICK e \in Threads : e = send_cur
  BY DEF IInv, TypeOK
<1>1. Sending /\ e \in SleepingOwners
  BY <1>0 DEF SendDone, Sending, IInv, WakeupsExact, OwnersLinked
<1>2. PICK m \in Mutexes : m = blocked[e] /\ mutex[m].owner = e
  BY <1>1 DEF SleepingOwners
<1>3. ~ Free(m)
  BY <1>1, <1>2 DEF IInv, WakeupsExact, WaitersLinked
<1>4. mutex[m].count = 1 /\ held[e][m] = 0
  BY <1>2, <1>3 DEF IInv, OwnersHold, OwnerHolds
<1>5. /\ blocked' = [blocked EXCEPT ![e] = NoMutex]
      /\ held' = [held EXCEPT ![e][m] = held[e][m] + 1]
      /\ UNCHANGED <<mutex, tnext, snext, send_first, send_last, send_count>>
      /\ IF send_count = 0
         THEN send_cs' = "IDLE" /\ queue_cs' = "IDLE" /\ send_cur' = send_cur
         ELSE queue_cs' = "GET" /\ send_cur' = send_first /\ send_cs' = "SENDING"
  <2>1. m # NoMutex
    BY SynchAssumption
  <2> QED
    BY <1>0, <1>2, <2>1 DEF SendDone, core
<1>6. held' = [held EXCEPT ![e][m] = 1]
  BY <1>4, <1>5
<1>7. /\ held' \in [Threads -> [Mutexes -> Nat]]
      /\ held'[e][m] = 1
      /\ \A x \in Mutexes, u \in Threads :
            x # m \/ u # e => held'[u][x] = held[u][x]
  BY <1>1, <1>2, <1>6 DEF IInv, TypeOK
<1>8. /\ blocked' \in [Threads -> Mutexes \cup {NoMutex}]
      /\ blocked'[e] = NoMutex
      /\ \A u \in Threads : u # e => blocked'[u] = blocked[u]
  BY <1>1, <1>5 DEF IInv, TypeOK
<1>9. TypeOK'
  BY <1>5, <1>7, <1>8 DEF IInv, TypeOK
<1>10. HoldersOwn'
  BY <1>2, <1>4, <1>5, <1>7 DEF IInv, HoldersOwn
<1>11. OwnersHold'
  <2>1. OwnerHolds(m)'
    BY <1>2, <1>4, <1>5, <1>7, <1>8, SynchAssumption DEF OwnerHolds
  <2>2. ASSUME NEW x \in Mutexes \ {m} PROVE OwnerHolds(x)'
    <3>1. mutex[x].owner \in Threads /\ x # NoMutex
      BY SynchAssumption DEF IInv, TypeOK
    <3>2. blocked[e] # x
      BY <1>2
    <3>3. blocked'[mutex[x].owner] = x <=> blocked[mutex[x].owner] = x
      BY <1>8, <3>1, <3>2
    <3> QED
      BY <1>5, <1>7, <3>1, <3>3, OwnerHoldsKept
  <2> QED
    BY <2>1, <2>2 DEF OwnersHold
<1>12. OnlyRecursive'
  BY <1>5 DEF IInv, OnlyRecursive
<1>13. SleepingOwners' = SleepingOwners \ {e}
  <2>1. e \notin SleepingOwners'
    BY <1>8, SynchAssumption DEF SleepingOwners
  <2>2. \A u \in Threads : u # e => (u \in SleepingOwners' <=> u \in SleepingOwners)
    BY <1>5, <1>8 DEF SleepingOwners
  <2>3. SleepingOwners' \subseteq Threads /\ SleepingOwners \subseteq Threads
    BY DEF SleepingOwners
  <2> QED
    BY <2>1, <2>2, <2>3
<1>14. OwnersLinked'
  <2>1. Chain(Threads, SleepingOwners', send_count, send_first, send_last, snext)
    BY <1>0, <1>1, <1>13 DEF IInv, WakeupsExact, OwnersLinked
  <2>2. ~ Sending'
    BY <1>5 DEF Sending
  <2>3. send_count \in Nat
    BY SynchAssumption DEF IInv, TypeOK
  <2>4. send_count # 0 => send_first \in SleepingOwners'
    BY <2>1, <2>3, ChainEnds
  <2> QED
    BY <1>5, <2>1, <2>2, <2>3, <2>4 DEF OwnersLinked
<1>15. ASSUME NEW x \in Mutexes PROVE WaitersLinked(x)'
  <2>1. Waiters(x)' = Waiters(x)
    <3>1. ASSUME NEW u \in Threads
          PROVE  (blocked'[u] = x /\ mutex'[x].owner # u) <=>
                 (blocked[u] = x /\ mutex[x].owner # u)
      <4>1. blocked[e] = x => mutex[x].owner = e
        BY <1>2
      <4>2. x # NoMutex
        BY SynchAssumption
      <4> QED
        BY <1>5, <1>8, <4>1, <4>2
    <3> QED
      BY <3>1 DEF Waiters
  <2>2. WaitersLinked(x) /\ (Free(x)' <=> Free(x))
    BY SMTT(30), <1>5 DEF IInv, WakeupsExact, Free
  <2>3. Free(x) => \A u \in Threads : blocked'[u] # x
    BY <1>8, <2>2, SynchAssumption DEF WaitersLinked
  <2> QED
    BY <1>5, <2>1, <2>2, <2>3 DEF WaitersLinked
<1> QED
  BY <1>9, <1>10, <1>11, <1>12, <1>14, <1>15 DEF IInv, WakeupsExact

(* The master has taken the next owner off its list.                        *)
LEMMA QueueGetDoneKeeps ==
    ASSUME IInv, QueueGetDone
    PROVE  IInv'
<1>1. /\ queue_cs = "GET" /\ queue_cs' = "IDLE"
      /\ send_first' = snext[send_first]
      /\ send_count' = (send_count + NumThreads - 1) % NumThreads
      /\ UNCHANGED <<mutex, tnext, blocked, held, snext, send_last, send_cs,
                     send_cur>>
  BY DEF QueueGetDone, core, callers
<1>2. OwnersLinked /\ \A m \in Mutexes : WaitersLinked(m)
  BY DEF IInv, WakeupsExact
<1>3. /\ send_count \in 0 .. NumThreads - 1 /\ send_count > 0
      /\ NumThreads \in Nat \ {0}
  BY <1>1, <1>2, SynchAssumption DEF IInv, TypeOK, OwnersLinked
<1>4. send_count \in Nat \ {0} /\ send_count' = send_count - 1
  <2>1. send_count \in Nat \ {0} /\ send_count < NumThreads
    BY <1>3
  <2>2. (send_count + NumThreads - 1) % NumThreads = send_count - 1
    BY <1>3, <2>1
  <2> QED
    BY <1>1, <2>1, <2>2
<1>5. TypeOK'
  <2>1. send_count' \in 0 .. NumThreads - 1
    BY <1>3, <1>4
  <2> QED
    BY <1>1, <2>1 DEF IInv, TypeOK
<1>6. HoldersOwn' /\ OnlyRecursive'
  BY <1>1 DEF IInv, HoldersOwn, OnlyRecursive
<1>7. OwnersHold'
  BY <1>1 DEF IInv, OwnersHold, OwnerHolds, Free
<1>8. OwnersLinked'
  <2>1. send_cs = "SENDING" /\ ~ Sending /\ Sending' /\ send_cur = send_first
    BY <1>1, <1>2 DEF OwnersLinked, Sending, IInv, TypeOK
  <2>2. SleepingOwners' = SleepingOwners /\ send_cur \in SleepingOwners
    BY <1>1, <1>2, <2>1 DEF SleepingOwners, OwnersLinked
  <2>3. Chain(Threads, SleepingOwners, send_count, send_first, send_last, snext)
    BY <1>2, <2>1 DEF OwnersLinked
  <2>4. Chain(Threads, SleepingOwners \ {send_first}, send_count - 1,
              snext[send_first], send_last, snext)
    BY SMTT(30), <1>4, <2>3, ChainTail
  <2> QED
    BY <1>1, <1>4, <2>1, <2>2, <2>4 DEF OwnersLinked
<1>9. ASSUME NEW x \in Mutexes PROVE WaitersLinked(x)'
  <2>1. WaitersLinked(x) /\ Waiters(x)' = Waiters(x) /\ (Free(x)' <=> Free(x))
    BY <1>1, <1>2 DEF Waiters, Free
  <2> QED
    BY <1>1, <2>1 DEF WaitersLinked
<1> QED
  BY <1>5, <1>6, <1>7, <1>8, <1>9 DEF IInv, WakeupsExact

(* Nothing changes.                                                         *)
LEMMA StutterKeeps ==
    ASSUME IInv, UNCHANGED vars
    PROVE  IInv'
<1> USE DEF vars, core, master, callers
<1>1. TypeOK' /\ HoldersOwn' /\ OnlyRecursive'
  BY DEF IInv, TypeOK, HoldersOwn, OnlyRecursive
<1>2. OwnersHold'
  BY DEF IInv, OwnersHold, OwnerHolds, Free
<1>3. SleepingOwners' = SleepingOwners /\ (Sending' <=> Sending)
  BY DEF SleepingOwners, Sending
<1>4. OwnersLinked'
  BY <1>3 DEF IInv, WakeupsExact, OwnersLinked
<1>5. ASSUME NEW x \in Mutexes PROVE WaitersLinked(x)'
  <2>1. WaitersLinked(x) /\ Waiters(x)' = Waiters(x) /\ (Free(x)' <=> Free(x))
    BY DEF IInv, WakeupsExact, Waiters, Free
  <2> QED
    BY <2>1 DEF WaitersLinked
<1> QED
  BY <1>1, <1>2, <1>4, <1>5 DEF IInv, WakeupsExact

(* No call and no step of the master breaks the invariant.                  *)
LEMMA NextIInv == IInv /\ [Next]_vars => IInv'
<1> SUFFICES ASSUME IInv, [Next]_vars PROVE IInv'
  BY SMTT(30)
<1>1. ASSUME NEW m \in Mutexes, NEW t \in Threads,
             Lock(m, t) \/ Trylock(m, t)
      PROVE  IInv'
  <2>1. blocked[t] = NoMutex /\ UNCHANGED master
    BY <1>1, LockCases
  <2>2. CASE Free(m) /\ mutex' = Taken(m, t) /\ Granted(m, t) /\ UNCHANGED tnext
    BY <2>1, <2>2, TakenKeeps
  <2>3. CASE /\ ~ Free(m) /\ Recursive(m, t)
             /\ mutex[m].count < CountSize - 1
             /\ mutex' = Nested(m) /\ Granted(m, t) /\ UNCHANGED tnext
    BY <2>1, <2>3, NestedKeeps
  <2>4. CASE ~ Free(m) /\ mutex[m].owner # t /\ WaitFor(m, t)
    BY <2>1, <2>4, WaitForKeeps
  <2>5. CASE UNCHANGED <<core, callers>>
    <3>1. UNCHANGED vars
      BY <2>1, <2>5 DEF vars
    <3> QED
      BY <3>1, StutterKeeps
  <2> QED
    BY ZenonT(30), <1>1, <2>2, <2>3, <2>4, <2>5, LockCases
<1>2. ASSUME NEW m \in Mutexes, NEW t \in Threads, OwnerUnlocks(m, t)
      PROVE  IInv'
  <2>1. /\ blocked[t] = NoMutex /\ queue_cs = "IDLE"
        /\ mutex[m].owner = t /\ held[t][m] = mutex[m].count
        /\ mutex[m].count \in Nat \ {0}
        /\ UNCHANGED <<tnext, blocked>>
        /\ held' = [held EXCEPT ![t][m] = mutex[m].count - 1]
    BY <1>2, UnlockCases
  <2>2. CASE /\ Undone(m) \/ (mutex[m].last = t /\ Freed(m))
             /\ UNCHANGED master
    BY Zenon, <2>1, <2>2, GivenUpKeeps
  <2>3. CASE mutex[m].last # t /\ HandedOver(m) /\ Send(mutex[m].next)
    BY Zenon, <2>1, <2>3, HandedOverKeeps
  <2>4. \/ Undone(m) /\ UNCHANGED master
        \/ mutex[m].last = t /\ Freed(m) /\ UNCHANGED master
        \/ mutex[m].last # t /\ HandedOver(m) /\ Send(mutex[m].next)
    <3> QED
      BY <1>2, UnlockCases
  <2> QED
    BY <2>2, <2>3, <2>4
<1> QED
  BY <1>1, <1>2, InitMutexKeeps, SendDoneKeeps, QueueGetDoneKeeps, StutterKeeps
  DEF Next, MasterNext

(* The invariant holds whatever the threads do.                             *)
LEMMA AlwaysIInv == Spec => []IInv
  BY InitIInv, NextIInv, PTL DEF Spec

(* Mutual exclusion: whoever holds a mutex after LOCK, TRYLOCK or a          *)
(* hand-over is the owner the core has on record, with the right count, for *)
(* any number of threads and mutexes.                                       *)
THEOREM MutualExclusion == Spec => []HoldersOwn
<1>1. IInv => HoldersOwn
  BY DEF IInv
<1> QED
  BY <1>1, AlwaysIInv, PTL

(* No thread that sleeps in a lock call is forgotten or woken twice: LOCK,   *)
(* UNLOCK and the master keep both linked lists exact, for any number of    *)
(* threads and mutexes.                                                     *)
THEOREM NoSleeperLost == Spec => []WakeupsExact
<1>1. IInv => WakeupsExact
  BY DEF IInv
<1> QED
  BY <1>1, AlwaysIInv, PTL

-----------------------------------------------------------------------------
(* The list of a mutex that has waiters is a chain of at least one.          *)
LEMMA WaitingChain ==
    ASSUME IInv, NEW m \in Mutexes, ~ Free(m)
    PROVE  /\ NumThreads \in Nat
           /\ \E n \in Nat :
                 /\ Chain(0 .. NumThreads - 1, Waiters(m), n, mutex[m].next,
                          mutex[m].last, tnext)
                 /\ n = 0 <=> Waiters(m) = {}
<1>1. PICK n \in 0 .. NumThreads :
        Chain(Threads, Waiters(m), n, mutex[m].next, mutex[m].last, tnext)
  BY DEF IInv, WakeupsExact, WaitersLinked
<1>2. n \in Nat
  BY SynchAssumption
<1> QED
  BY <1>1, <1>2, ChainEnds, SynchAssumption DEF Threads

(* Nobody waits for a free mutex.                                           *)
LEMMA FreeUnwaited ==
    ASSUME IInv, NEW m \in Mutexes, Free(m)
    PROVE  Waiters(m) = {} /\ \A t \in Threads : blocked[t] # m
  BY DEF IInv, WakeupsExact, WaitersLinked, Waiters

(* A step that leaves the waiters of a mutex and their links alone.          *)
LEMMA WaitingKept ==
    ASSUME IInv, NEW m \in Mutexes, Waiters(m)' = Waiters(m),
           Waiters(m) # {} => /\ mutex'[m].next = mutex[m].next
                              /\ mutex'[m].last = mutex[m].last,
           \A t \in Waiters(m) : tnext'[t] = tnext[t]
    PROVE  Waiting(m)' = Waiting(m)
<1>1. CASE Waiters(m) = {}
  BY <1>1, SeqEmpty, SynchAssumption DEF Waiting
<1>2. CASE Waiters(m) # {}
  <2>1. ~ Free(m)
    BY <1>2, FreeUnwaited
  <2>2. PICK n \in Nat :
          Chain(0 .. NumThreads - 1, Waiters(m), n, mutex[m].next, mutex[m].last, tnext)
    BY <2>1, WaitingChain
  <2>3. ListOf(NumThreads, Waiters(m), mutex[m].next, mutex[m].last, tnext')
        = ListOf(NumThreads, Waiters(m), mutex[m].next, mutex[m].last, tnext)
    BY <2>2, SynchAssumption, SeqFrame
  <2> QED
    BY <1>2, <2>3 DEF Waiting
<1> QED
  BY <1>1, <1>2

(* Nothing the threads see changes.                                         *)
LEMMA Unseen ==
    ASSUME \A x \in Mutexes : /\ Owner(x)' = Owner(x)
                              /\ mutex'[x].count = mutex[x].count
                              /\ Waiting(x)' = Waiting(x),
           Asleep' = Asleep
    PROVE  [M!Next]_(M!vars)
<1>1. UNCHANGED M!vars
  BY SMTT(30) DEF M!vars
<1> QED
  BY <1>1

(* A free mutex is taken.                                                   *)
LEMMA TakenMaps ==
    ASSUME IInv, NEW m \in Mutexes, NEW t \in Threads, blocked[t] = NoMutex,
           Free(m), mutex' = Taken(m, t), Granted(m, t), UNCHANGED tnext
    PROVE  M!Take(m, t)
<1>1. /\ mutex'[m] = [owner |-> t, next |-> t, last |-> t, count |-> 1,
                      kind |-> mutex[m].kind]
      /\ \A x \in Mutexes \ {m} : mutex'[x] = mutex[x]
      /\ blocked' = blocked
  BY DEF IInv, TypeOK, Taken, Granted
<1>2. \A x \in Mutexes : Waiters(x)' = Waiters(x)
  <2>1. \A x \in Mutexes \ {m} : Waiters(x)' = Waiters(x)
    BY <1>1 DEF Waiters
  <2>2. Waiters(m)' = Waiters(m)
    BY SMTT(30), <1>1, FreeUnwaited DEF Waiters
  <2> QED
    BY <2>1, <2>2
<1>3. ASSUME NEW x \in Mutexes PROVE Waiting(x)' = Waiting(x)
  BY <1>1, <1>2, FreeUnwaited, WaitingKept
<1>4. /\ Owner(m) = NoThread /\ Owner(m)' = t
      /\ \A x \in Mutexes \ {m} : Owner(x)' = Owner(x)
  BY <1>1 DEF Owner, Free
<1>5. Asleep' = Asleep /\ t \notin Asleep
  BY <1>1 DEF Asleep
<1>6. [x \in Mutexes |-> Owner(x)]' = [[x \in Mutexes |-> Owner(x)] EXCEPT ![m] = t]
  BY Zenon, <1>4
<1>7. [x \in Mutexes |-> mutex[x].count]'
        = [[x \in Mutexes |-> mutex[x].count] EXCEPT ![m] = 1]
  <2>1. mutex'[m].count = 1 /\ \A x \in Mutexes \ {m} : mutex'[x].count = mutex[x].count
    BY <1>1
  <2> QED
    BY Zenon, <2>1
<1>8. [x \in Mutexes |-> Waiting(x)]' = [x \in Mutexes |-> Waiting(x)]
  BY <1>3
<1> QED
  BY <1>4, <1>5, <1>6, <1>7, <1>8 DEF M!Take

(* The owner of a recursive mutex locks it again.                           *)
LEMMA NestedMaps ==
    ASSUME IInv, NEW m \in Mutexes, NEW t \in Threads, blocked[t] = NoMutex,
           ~ Free(m), Recursive(m, t), mutex[m].count < CountSize - 1,
           mutex' = Nested(m), Granted(m, t), UNCHANGED tnext
    PROVE  M!TakeAgain(m, t)
<1>1. /\ mutex[m].count \in Nat
      /\ (mutex[m].count + 1) % CountSize = mutex[m].count + 1
  <2>1. CountSize \in Nat /\ mutex[m].count \in 0 .. CountSize - 1
    BY SynchAssumption DEF IInv, TypeOK
  <2> QED
    BY <2>1
<1>2. /\ mutex'[m] = [mutex[m] EXCEPT !.count = mutex[m].count + 1]
      /\ \A x \in Mutexes \ {m} : mutex'[x] = mutex[x]
      /\ blocked' = blocked
  BY SMTT(30), <1>1 DEF IInv, TypeOK, Nested, Granted
<1>3. /\ mutex'[m].owner = t /\ mutex[m].owner = t /\ mutex'[m].next = mutex[m].next
      /\ mutex'[m].last = mutex[m].last /\ mutex'[m].count = mutex[m].count + 1
  BY <1>2 DEF IInv, TypeOK, Recursive
<1>4. \A x \in Mutexes : Waiters(x)' = Waiters(x)
  BY ZenonT(30), <1>2, <1>3 DEF Waiters
<1>5. ASSUME NEW x \in Mutexes PROVE Waiting(x)' = Waiting(x)
  BY Zenon, <1>2, <1>3, <1>4, WaitingKept
<1>6. Owner(m) = t /\ \A x \in Mutexes : Owner(x)' = Owner(x)
  <2>1. Owner(m) = t /\ Owner(m)' = t
    BY <1>1, <1>3 DEF Owner, Free
  <2>2. \A x \in Mutexes \ {m} : Owner(x)' = Owner(x)
    BY <1>2 DEF Owner, Free
  <2> QED
    BY <2>1, <2>2
<1>7. Asleep' = Asleep /\ t \notin Asleep
  BY <1>2 DEF Asleep
<1> QED
  BY Zenon, <1>2, <1>3, <1>5, <1>6, <1>7 DEF M!TakeAgain

(* A thread queues behind the last waiter.                                  *)
LEMMA WaitForMaps ==
    ASSUME IInv, NEW m \in Mutexes, NEW t \in Threads, blocked[t] = NoMutex,
           ~ Free(m), mutex[m].owner # t, WaitFor(m, t)
    PROVE  M!Sleep(m, t)
<1> DEFINE o == mutex[m].owner
           f == mutex[m].next
           l == mutex[m].last
           W == Waiters(m)
<1>1. TypeOK
  BY DEF IInv
<1>2. /\ o \in Threads /\ f \in Threads /\ l \in Threads
      /\ \A x \in Mutexes : x # NoMutex
      /\ tnext \in [Threads -> Threads]
  BY SMTT(30), <1>1, Types DEF TypeOK
<1>3. o \notin W /\ t \notin W /\ W \subseteq Threads
  BY ZenonT(30), <1>2 DEF Waiters
<1>4. Queue(o, f, l, W, tnext)
  BY Zenon, LinkedQueue DEF IInv, WakeupsExact
<1>5. (f = o <=> W = {}) /\ (f # o => l \in W)
  <2> HIDE DEF o, f, l, W
  <2> QED
    BY <1>3, <1>4, QueueEnds
<1>6. /\ mutex'[m].owner = o /\ mutex'[m].count = mutex[m].count
      /\ mutex'[m].next = IF f = o THEN t ELSE f
      /\ mutex'[m].last = t
      /\ \A x \in Mutexes \ {m} : mutex'[x] = mutex[x]
  BY <1>1 DEF WaitFor, TypeOK
<1>7. /\ tnext' = IF f = o THEN [tnext EXCEPT ![t] = t]
                  ELSE [tnext EXCEPT ![l] = t, ![t] = t]
      /\ blocked' = [blocked EXCEPT ![t] = m]
  BY DEF WaitFor
<1>8. blocked'[t] = m /\ \A u \in Threads \ {t} : blocked'[u] = blocked[u]
  BY SMTT(30), <1>1, <1>7 DEF TypeOK
<1>9. Waiters(m)' = W \cup {t}
  BY Zenon, <1>6, <1>8 DEF Waiters
<1>10. Waiting(m)' = Append(Waiting(m), t)
  <2>1. CASE f = o
    <3>1. Waiting(m)' = ListOf(NumThreads, {t}, t, t, tnext')
      <4>1. mutex'[m].next = t /\ mutex'[m].last = t
        BY <1>6, <2>1, Zenon
      <4>2. Waiting(m)' = ListOf(NumThreads, Waiters(m)', mutex'[m].next,
                                 mutex'[m].last, tnext')
        BY Zenon DEF Waiting
      <4>3. Waiters(m)' = {t}
        BY <1>5, <1>9, <2>1
      <4> QED
        BY <4>1, <4>2, <4>3, Zenon
    <3>2. Waiting(m) = ListOf(NumThreads, {}, f, l, tnext)
      BY SMTT(30), <1>5, <2>1 DEF Waiting
    <3>3. Waiting(m)' = <<t>> /\ Waiting(m) = <<>>
      BY SMTT(30), <3>1, <3>2, SeqOne, SeqEmpty, SynchAssumption DEF Threads
    <3> QED
      BY SMTT(30), <3>3
  <2>2. CASE f # o
    <3>1. PICK n \in Nat \ {0} : Chain(0 .. NumThreads - 1, W, n, f, l, tnext)
      BY SMTT(30), <1>5, <2>2, WaitingChain
    <3>2. Links(W, l, t, tnext, tnext')
      BY <1>2, <1>3, <1>5, <1>7, <2>2 DEF Links
    <3>3. IsAppend(ListOf(NumThreads, W \cup {t}, f, t, tnext'),
                   ListOf(NumThreads, W, f, l, tnext), t)
      <4> HIDE DEF W, f, l
      <4> QED
        BY SMTT(30), <1>3, <3>1, <3>2, SynchAssumption, SeqAppend DEF Threads
    <3>4. Waiting(m)' = ListOf(NumThreads, W \cup {t}, f, t, tnext')
      <4>1. mutex'[m].next = f /\ mutex'[m].last = t
        BY <1>6, <2>2, Zenon
      <4>2. Waiting(m)' = ListOf(NumThreads, Waiters(m)', mutex'[m].next,
                                 mutex'[m].last, tnext')
        BY Zenon DEF Waiting
      <4> QED
        BY <1>9, <4>1, <4>2, Zenon
    <3> QED
      BY ZenonT(30), <3>3, <3>4 DEF Waiting, IsAppend
  <2> QED
    BY <2>1, <2>2
<1>11. ASSUME NEW x \in Mutexes \ {m} PROVE Waiting(x)' = Waiting(x)
  <2>1. Waiters(x)' = Waiters(x) /\ Waiters(x) \subseteq Threads \ (W \cup {t})
    <3>1. x # m /\ x # NoMutex /\ mutex'[x] = mutex[x]
      BY Zenon, <1>2, <1>6
    <3>2. Waiters(x)' = Waiters(x)
      BY Zenon, <1>8, <3>1 DEF Waiters
    <3> QED
      BY Zenon, <3>1, <3>2 DEF Waiters
  <2>2. \A u \in Waiters(x) : tnext'[u] = tnext[u]
    BY <1>2, <1>5, <1>7, <2>1
  <2> QED
    BY SMTT(30), <1>6, <2>1, <2>2, WaitingKept
<1>12. Owner(m) = o /\ o # NoThread /\ \A x \in Mutexes : Owner(x)' = Owner(x)
  <2>1. o \in Nat
    BY <1>2, SynchAssumption DEF Threads
  <2> QED
    BY ZenonT(30), <1>6, <2>1, SynchAssumption DEF Owner, Free
<1>13. Asleep' = Asleep \cup {t} /\ t \notin Asleep
  BY SMTT(30), <1>2, <1>8 DEF Asleep
<1>14. \A x \in Mutexes : mutex'[x].count = mutex[x].count
  BY <1>6
<1> HIDE DEF o, f, l, W
<1>15. o # t
  BY DEF o
<1> QED
  BY ZenonT(30), <1>10, <1>11, <1>12, <1>13, <1>14, <1>15 DEF M!Sleep

(* A mutex locked several times is unlocked once, or freed, or handed to the  *)
(* first waiter.                                                            *)
LEMMA UnlockMaps ==
    ASSUME IInv, NEW m \in Mutexes, NEW t \in Threads, OwnerUnlocks(m, t)
    PROVE  M!Release(m, t)
<1> DEFINE f == mutex[m].next
           l == mutex[m].last
           W == Waiters(m)
<1>1. /\ blocked[t] = NoMutex /\ mutex[m].owner = t
      /\ mutex[m].count \in Nat \ {0}
      /\ UNCHANGED <<tnext, blocked>>
  BY UnlockCases
<1>2. \/ Undone(m)
      \/ mutex[m].last = t /\ Freed(m)
      \/ mutex[m].last # t /\ HandedOver(m)
  BY UnlockCases
<1>3. mutex \in [Mutexes -> [owner : Threads, next : Threads, last : Threads,
                             count : 0 .. CountSize - 1, kind : Kinds]]
  BY DEF IInv, TypeOK
<1>4. \A x \in Mutexes \ {m} : mutex'[x] = mutex[x]
  BY <1>2, <1>3 DEF Undone, Freed, HandedOver
<1>5. ~ Free(m) /\ Owner(m) = t /\ t # NoThread
  BY <1>1, SynchAssumption DEF Free, Owner, Threads
<1>6. Asleep' = Asleep /\ t \notin Asleep
  BY <1>1 DEF Asleep
<1>7. ASSUME NEW x \in Mutexes \ {m}
      PROVE  Waiting(x)' = Waiting(x) /\ Owner(x)' = Owner(x)
  <2>1. Waiters(x)' = Waiters(x)
    BY <1>1, <1>4 DEF Waiters
  <2>2. Waiting(x)' = Waiting(x)
    BY <1>1, <1>4, <2>1, WaitingKept
  <2> QED
    BY <1>4, <2>2 DEF Owner, Free
<1>8. Queue(t, f, l, W, tnext) /\ t \notin W
  BY ZenonT(30), <1>1, <1>5, LinkedQueue DEF IInv, WakeupsExact, Waiters
<1>9. (l = t <=> W = {}) /\ (W # {} => f \in W)
  BY <1>8, QueueEnds
<1>10. PICK n \in Nat :
         Chain(0 .. NumThreads - 1, W, n, f, l, tnext) /\ (n = 0 <=> W = {})
  BY <1>5, WaitingChain
<1>12. CASE Undone(m)
  <2>1. /\ mutex'[m].owner = t /\ mutex'[m].next = f /\ mutex'[m].last = l
        /\ mutex'[m].count = mutex[m].count - 1 /\ mutex[m].count > 1
    BY <1>1, <1>3, <1>12 DEF Undone
  <2>2. Waiters(m)' = W
    BY SMTT(30), <1>1, <2>1 DEF Waiters
  <2>3. Waiting(m)' = Waiting(m)
    BY SMTT(30), <1>1, <2>1, <2>2, WaitingKept
  <2>4. Owner(m)' = t
    BY <1>1, <2>1 DEF Owner, Free
  <2> QED
    BY ZenonT(30), <1>4, <1>5, <1>6, <1>7, <2>1, <2>3, <2>4 DEF M!Release
<1>13. CASE l = t /\ Freed(m)
  <2>1. mutex'[m].count = 0 /\ mutex[m].count = 1
    BY <1>3, <1>13 DEF Freed
  <2>2. W = {} /\ Waiters(m)' = {}
    <3>1. \A u \in Threads : blocked[u] # m
      BY SMTT(30), <1>1, <1>9, <1>13, SynchAssumption DEF Waiters
    <3> QED
      BY SMTT(30), <1>1, <1>9, <1>13, <3>1 DEF Waiters
  <2>3. Waiting(m)' = <<>> /\ Waiting(m) = <<>>
    BY <2>2, SeqEmpty, SynchAssumption DEF Waiting
  <2>4. Owner(m)' = NoThread
    BY <2>1 DEF Owner, Free
  <2>5. [x \in Mutexes |-> Owner(x)]'
          = [[x \in Mutexes |-> Owner(x)] EXCEPT ![m] = NoThread]
    BY Zenon, <1>7, <2>4
  <2>6. [x \in Mutexes |-> mutex[x].count]'
          = [[x \in Mutexes |-> mutex[x].count] EXCEPT ![m] = 0]
    BY Zenon, <1>4, <2>1
  <2>7. [x \in Mutexes |-> Waiting(x)]' = [x \in Mutexes |-> Waiting(x)]
    BY SMTT(30), <1>7, <2>3
  <2>8. /\ [x \in Mutexes |-> Owner(x)][m] = t
         /\ ~ ([x \in Mutexes |-> mutex[x].count][m] > 1)
         /\ [x \in Mutexes |-> Waiting(x)][m] = Waiting(m)
    BY <1>5, <2>1
  <2> QED
    BY Zenon, <1>6, <2>3, <2>5, <2>6, <2>7, <2>8 DEF M!Release
<1>14. CASE l # t /\ HandedOver(m)
  <2>1. /\ mutex'[m].owner = f /\ mutex'[m].next = tnext[f]
        /\ mutex'[m].last = l /\ mutex'[m].count = 1 /\ mutex[m].count = 1
    BY <1>3, <1>14 DEF HandedOver
  <2>2. W # {} /\ n \in Nat \ {0}
    BY <1>9, <1>10, <1>14
  <2>3. Waiters(m)' = W \ {f}
    <3>1. blocked[t] # m
      BY <1>1, SynchAssumption
    <3> QED
      BY <1>1, <2>1, <3>1 DEF Waiters
  <2>4. /\ Waiting(m) # <<>> /\ Head(Waiting(m)) = f
        /\ ListOf(NumThreads, W \ {f}, tnext[f], l, tnext) = Tail(Waiting(m))
    <3>1. IsPopped(ListOf(NumThreads, W \ {f}, tnext[f], l, tnext),
                   ListOf(NumThreads, W, f, l, tnext), f)
      <4> HIDE DEF W, f, l
      <4> QED
        BY Zenon, <1>10, <2>2, SynchAssumption, SeqTail
    <3> QED
      BY Zenon, <3>1 DEF Waiting, IsPopped
  <2>5. Waiting(m)' = Tail(Waiting(m))
    BY ZenonT(30), <1>1, <2>1, <2>3, <2>4 DEF Waiting
  <2>6. Owner(m)' = Head(Waiting(m))
    BY <2>1, <2>4 DEF Owner, Free
  <2>7. [x \in Mutexes |-> Owner(x)]'
          = [[x \in Mutexes |-> Owner(x)] EXCEPT ![m] = Head(Waiting(m))]
    BY ZenonT(30), <1>7, <2>6
  <2>8. [x \in Mutexes |-> mutex[x].count]' = [x \in Mutexes |-> mutex[x].count]
    BY <1>4, <2>1
  <2>9. [x \in Mutexes |-> Waiting(x)]'
          = [[x \in Mutexes |-> Waiting(x)] EXCEPT ![m] = Tail(Waiting(m))]
    BY Zenon, <1>7, <2>5
  <2>10. /\ [x \in Mutexes |-> Owner(x)][m] = t
         /\ ~ ([x \in Mutexes |-> mutex[x].count][m] > 1)
         /\ [x \in Mutexes |-> Waiting(x)][m] = Waiting(m)
    BY <1>5, <2>1
  <2> QED
    BY Zenon, <1>6, <2>4, <2>7, <2>8, <2>9, <2>10 DEF M!Release
<1> QED
  BY <1>2, <1>12, <1>13, <1>14

(* The master's read wakes an owner, which waits for nothing else.          *)
LEMMA SendDoneMaps ==
    ASSUME IInv, SendDone
    PROVE  \E t \in Threads : M!WakeUp(t)
<1>1. PICK e \in Threads : e = send_cur
  BY DEF IInv, TypeOK
<1>2. e \in SleepingOwners
  BY <1>1 DEF SendDone, Sending, IInv, WakeupsExact, OwnersLinked
<1>3. PICK m \in Mutexes : m = blocked[e] /\ mutex[m].owner = e
  BY <1>2 DEF SleepingOwners
<1>4. ~ Free(m)
  BY <1>2, <1>3, FreeUnwaited
<1>5. /\ blocked' = [blocked EXCEPT ![e] = NoMutex]
      /\ UNCHANGED <<mutex, tnext>>
  BY <1>1 DEF SendDone, core
<1>6. blocked'[e] = NoMutex /\ \A u \in Threads : u # e => blocked'[u] = blocked[u]
  BY <1>5 DEF IInv, TypeOK
<1>7. \A x \in Mutexes : x # NoMutex
  BY SynchAssumption
<1>8. ASSUME NEW x \in Mutexes
      PROVE  /\ Waiters(x)' = Waiters(x) /\ e \notin Waiters(x)
             /\ Waiting(x)' = Waiting(x) /\ Owner(x)' = Owner(x)
             /\ \A i \in 1 .. Len(Waiting(x)) : Waiting(x)[i] # e
  <2>1. e \notin Waiters(x) /\ e \notin Waiters(x)'
    BY SMTT(30), <1>3, <1>6, <1>7 DEF Waiters
  <2>2. Waiters(x)' = Waiters(x)
    BY <1>5, <1>6, <2>1 DEF Waiters
  <2>3. Waiting(x)' = Waiting(x)
    BY <1>5, <2>2, WaitingKept
  <2>4. \A i \in 1 .. Len(Waiting(x)) : Waiting(x)[i] \in Waiters(x)
    <3>1. CASE Free(x)
      <4>1. Waiting(x) = <<>>
        BY ZenonT(30), <3>1, FreeUnwaited, SeqEmpty, SynchAssumption DEF Waiting
      <4> QED
        BY <4>1
    <3>2. CASE ~ Free(x)
      BY <3>2, WaitingChain, SeqMembers DEF Waiting
    <3> QED
      BY <3>1, <3>2
  <2> QED
    BY <1>5, <2>1, <2>2, <2>3, <2>4 DEF Owner, Free
<1>9. Asleep' = Asleep \ {e} /\ e \in Asleep
  BY <1>3, <1>6, <1>7 DEF Asleep
<1>10. Owner(m) = e
  BY <1>3, <1>4 DEF Owner
<1>11. M!WakeUp(e)
  BY SMTT(30), <1>5, <1>8, <1>9, <1>10 DEF M!WakeUp
<1> QED
  BY <1>11

(* What the threads see depends on these only.                              *)
LEMMA RestMaps ==
    ASSUME UNCHANGED <<tnext, blocked>>,
           \A x \in Mutexes : /\ mutex'[x].owner = mutex[x].owner
                              /\ mutex'[x].next = mutex[x].next
                              /\ mutex'[x].last = mutex[x].last
                              /\ mutex'[x].count = mutex[x].count
    PROVE  [M!Next]_(M!vars)
<1>1. \A x \in Mutexes : Waiters(x)' = Waiters(x) /\ Owner(x)' = Owner(x)
  BY DEF Waiters, Owner, Free
<1>2. \A x \in Mutexes : Waiting(x)' = Waiting(x)
  BY <1>1 DEF Waiting
<1>3. Asleep' = Asleep
  BY DEF Asleep
<1> QED
  BY SMTT(30), <1>1, <1>2, <1>3, Unseen

LEMMA InitMaps == Init => M!Init
<1> SUFFICES ASSUME Init PROVE M!Init
  OBVIOUS
<1>1. \A m \in Mutexes : Free(m) /\ mutex[m].count = 0 /\ Owner(m) = NoThread
  BY DEF Init, Free, Owner
<1>2. \A m \in Mutexes : Waiters(m) = {}
  BY SynchAssumption DEF Init, Waiters
<1>3. \A m \in Mutexes : Waiting(m) = <<>>
  BY ZenonT(30), <1>2, SeqEmpty, SynchAssumption DEF Waiting
<1>4. Asleep = {}
  BY DEF Init, Asleep
<1> QED
  BY <1>1, <1>3, <1>4 DEF M!Init

LEMMA NextMaps == IInv /\ [Next]_vars => [M!Next]_(M!vars)
<1> SUFFICES ASSUME IInv, [Next]_vars PROVE [M!Next]_(M!vars)
  BY SMTT(30)
<1>1. ASSUME NEW m \in Mutexes, NEW t \in Threads, Lock(m, t) \/ Trylock(m, t)
      PROVE  [M!Next]_(M!vars)
  <2>1. blocked[t] = NoMutex
    BY Zenon, <1>1, LockCases
  <2>2. CASE Free(m) /\ mutex' = Taken(m, t) /\ Granted(m, t) /\ UNCHANGED tnext
    BY SMTT(30), <2>1, <2>2, TakenMaps DEF M!Next
  <2>3. CASE /\ ~ Free(m) /\ Recursive(m, t)
             /\ mutex[m].count < CountSize - 1
             /\ mutex' = Nested(m) /\ Granted(m, t) /\ UNCHANGED tnext
    BY <2>1, <2>3, NestedMaps DEF M!Next
  <2>4. CASE ~ Free(m) /\ mutex[m].owner # t /\ WaitFor(m, t)
    BY <2>1, <2>4, WaitForMaps DEF M!Next
  <2>5. CASE UNCHANGED <<core, callers>>
    BY <2>5, RestMaps DEF core, callers
  <2> QED
    BY <1>1, <2>2, <2>3, <2>4, <2>5, LockCases
<1>2. ASSUME NEW m \in Mutexes, NEW t \in Threads, OwnerUnlocks(m, t)
      PROVE  [M!Next]_(M!vars)
  BY <1>2, UnlockMaps DEF M!Next
<1>3. ASSUME NEW m \in Mutexes, NEW k \in UsedKinds, InitMutex(m, k)
      PROVE  [M!Next]_(M!vars)
  <2>1. mutex' = [mutex EXCEPT ![m].kind = k] /\ UNCHANGED <<tnext, blocked>>
    BY <1>3 DEF InitMutex, KIND, callers
  <2>2. \A x \in Mutexes : /\ mutex'[x].owner = mutex[x].owner
                           /\ mutex'[x].next = mutex[x].next
                           /\ mutex'[x].last = mutex[x].last
                           /\ mutex'[x].count = mutex[x].count
    BY <2>1 DEF IInv, TypeOK
  <2> QED
    BY <2>1, <2>2, RestMaps
<1>4. ASSUME SendDone PROVE [M!Next]_(M!vars)
  BY <1>4, SendDoneMaps DEF M!Next
<1>5. ASSUME QueueGetDone PROVE [M!Next]_(M!vars)
  BY <1>5, RestMaps DEF QueueGetDone, core, callers
<1>6. ASSUME UNCHANGED vars PROVE [M!Next]_(M!vars)
  BY <1>6, RestMaps DEF vars, core, callers
<1> QED
  BY <1>1, <1>2, <1>3, <1>4, <1>5, <1>6 DEF Next, MasterNext

(* The core implements FIFO mutexes: LOCK takes a free mutex or queues its     *)
(* caller at the tail of the mutex's list, TRYLOCK takes it or is refused, and  *)
(* UNLOCK hands it to the head of that list and asks for that thread alone to   *)
(* be woken, for any number of threads and mutexes.                          *)
THEOREM CoreImplementsMutex == Spec => ImplementsMutex
<1>1. Spec => M!Init /\ [][M!Next]_(M!vars)
  BY InitMaps, NextMaps, AlwaysIInv, PTL DEF Spec
<1> QED
  BY <1>1 DEF ImplementsMutex, M!Spec
=============================================================================
