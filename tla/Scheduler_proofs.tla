-------------------------- MODULE Scheduler_proofs --------------------------
(***************************************************************************)
(* The queue bits, the lists, the encoder and the decision register of the  *)
(* scheduler agree, for any number of threads and priorities; and its lock   *)
(* for malloc excludes.                                                     *)
(***************************************************************************)
EXTENDS SchedulerCore, LinkedList_proofs

(* The threads S, linked from h to l in one direction and back in the other. *)
List(S, h, l, next, prev) ==
    /\ \E n \in 1 .. NumIDs : Chain(Threads, S, n, h, l, next)
    /\ \A t \in S \ {l} : prev[next[t]] = t

(* A list of one thread.                                                    *)
LEMMA ListNew ==
    ASSUME NEW t \in Threads, NEW next, NEW prev
    PROVE  List({t}, t, t, next, prev)
<1>1. 1 \in 1 .. NumIDs
  BY SchedulerAssumption
<1> QED
  BY <1>1, ChainOne DEF List

(* The ends of a list, and how they tell whether it has one element.        *)
LEMMA ListEnds ==
    ASSUME NEW S, NEW h, NEW l, NEW next, NEW prev, List(S, h, l, next, prev)
    PROVE  /\ S \subseteq Threads /\ h \in S /\ l \in S
           /\ h = l <=> S = {h}
           /\ \A t \in S \ {l} : next[t] \in S /\ next[t] # h
<1>1. PICK n \in 1 .. NumIDs : Chain(Threads, S, n, h, l, next)
  BY DEF List
<1>2. n \in Nat /\ n > 0
  BY SchedulerAssumption
<1>3. /\ S \subseteq Threads /\ h \in S /\ l \in S
      /\ n = 1 => h = l /\ S = {h}
  BY <1>1, <1>2, ChainEnds
<1>4. /\ \A t \in S : t # l => next[t] \in S /\ next[t] # h
      /\ n > 1 => h # l
  BY <1>1, <1>2, ChainSucc
<1> QED
  BY <1>2, <1>3, <1>4

(* Only the links between the elements matter.                              *)
LEMMA ListFrame ==
    ASSUME NEW S, NEW h, NEW l, NEW next, NEW prev, NEW next1, NEW prev1,
           List(S, h, l, next, prev),
           \A t \in S \ {l} : next1[t] = next[t],
           \A t \in S \ {h} : prev1[t] = prev[t]
    PROVE  List(S, h, l, next1, prev1)
<1>1. PICK n \in 1 .. NumIDs : Chain(Threads, S, n, h, l, next)
  BY DEF List
<1>2. n \in Nat
  BY SchedulerAssumption
<1>3. Chain(Threads, S, n, h, l, next1)
  BY <1>1, <1>2, ChainFrame
<1>4. \A t \in S \ {l} : next[t] \in S /\ next[t] # h /\ prev[next[t]] = t
  <2>1. \A t \in S \ {l} : next[t] \in S /\ next[t] # h
    BY ListEnds
  <2> QED
    BY <2>1 DEF List
<1>5. \A t \in S \ {l} : prev1[next1[t]] = t
  BY <1>4
<1> QED
  BY <1>3, <1>5 DEF List

(* ENQUEUE puts a thread behind the last.                                   *)
LEMMA ListAppend ==
    ASSUME NEW S, NEW h, NEW l, NEW next, NEW prev, NEW next1, NEW prev1,
           NEW u \in Threads, u \notin S,
           List(S, h, l, next, prev),
           \A t \in S \ {l} : next1[t] = next[t],
           \A t \in S : prev1[t] = prev[t],
           next1[l] = u, prev1[u] = l
    PROVE  List(S \cup {u}, h, u, next1, prev1)
<1>1. PICK n \in 1 .. NumIDs : Chain(Threads, S, n, h, l, next)
  BY DEF List
<1>2. n \in Nat \ {0} /\ NumIDs \in Nat
  BY SchedulerAssumption
<1>3. Chain(Threads, S \cup {u}, n + 1, h, u, next1)
  BY <1>1, <1>2, ChainAppend
<1>4. n + 1 \in 1 .. NumIDs
  <2> DEFINE m == n + 1
             U == S \cup {u}
  <2>1. m \in Nat /\ Chain(Threads, U, m, h, u, next1)
    BY <1>2, <1>3
  <2> HIDE DEF m, U
  <2>2. m <= NumIDs
    BY <1>2, <2>1, ChainBound DEF Threads
  <2> QED
    BY <1>2, <2>2 DEF m
<1>5. \A t \in S \ {l} : next[t] \in S /\ prev[next[t]] = t
  <2>1. \A t \in S \ {l} : next[t] \in S
    BY ListEnds
  <2> QED
    BY <2>1 DEF List
<1>6. \A t \in (S \cup {u}) \ {u} : prev1[next1[t]] = t
  BY <1>5
<1> QED
  BY <1>3, <1>4, <1>6 DEF List

(* DEQUEUE takes the first off.                                             *)
LEMMA ListPop ==
    ASSUME NEW S, NEW h, NEW l, NEW next, NEW prev,
           List(S, h, l, next, prev), h # l
    PROVE  List(S \ {h}, next[h], l, next, prev)
<1>1. PICK n \in 1 .. NumIDs : Chain(Threads, S, n, h, l, next)
  BY DEF List
<1>2. n \in Nat \ {0} /\ NumIDs \in Nat
  BY SchedulerAssumption
<1>3. n # 1
  BY <1>1, <1>2, ChainEnds
<1>4. n - 1 \in 1 .. NumIDs
  BY <1>2, <1>3
<1>5. Chain(Threads, S \ {h}, n - 1, next[h], l, next)
  BY <1>1, <1>2, ChainTail
<1> QED
  BY <1>4, <1>5 DEF List

(* SET_SCHED_PARAM takes the last off.                                      *)
LEMMA ListDrop ==
    ASSUME NEW S, NEW h, NEW l, NEW next, NEW prev,
           List(S, h, l, next, prev), h # l
    PROVE  /\ List(S \ {l}, h, prev[l], next, prev)
           /\ prev[l] \in S \ {l} /\ next[prev[l]] = l
<1>1. PICK n \in 1 .. NumIDs : Chain(Threads, S, n, h, l, next)
  BY DEF List
<1>2. n \in Nat \ {0} /\ NumIDs \in Nat
  BY SchedulerAssumption
<1>3. n # 1
  BY <1>1, <1>2, ChainEnds
<1>4. n - 1 \in 1 .. NumIDs /\ n > 1
  BY <1>2, <1>3
<1>5. PICK m \in S : /\ m # l /\ next[m] = l
                     /\ Chain(Threads, S \ {l}, n - 1, h, m, next)
  BY Zenon, <1>1, <1>2, <1>4, ChainFront
<1>6. prev[l] = m
  BY <1>5 DEF List
<1> QED
  BY <1>4, <1>5, <1>6 DEF List

-----------------------------------------------------------------------------
PrevLink == [t \in Threads |-> thread[t].prev]

IInv == TypeOK /\ QueueBitsExact /\ NextIsBest

(* What a step does to the list of priority p: nothing, t comes last, or t    *)
(* leaves it from an end.                                                   *)
Untouched(p) ==
    /\ ReadyAt(p)' = ReadyAt(p)
    /\ ReadyAt(p) # {} => level'[p] = level[p]
    /\ \A x \in ReadyAt(p) : x # level[p].tail => NextLink'[x] = NextLink[x]

Joins(t, p) ==
    /\ t \notin ReadyAt(p) /\ ReadyAt(p)' = ReadyAt(p) \cup {t}
    /\ level'[p].tail = t
    /\ level'[p].head = IF p \in encoder_input THEN level[p].head ELSE t
    /\ p \in encoder_input =>
          Links(ReadyAt(p), level[p].tail, t, NextLink, NextLink')

Leaves(t, p) ==
    /\ t \in ReadyAt(p) /\ ReadyAt(p)' = ReadyAt(p) \ {t}
    /\ \A x \in ReadyAt(p) \ {t} : NextLink'[x] = NextLink[x]
    /\ level[p].head # level[p].tail =>
          \/ /\ t = level[p].head /\ level'[p].head = NextLink[t]
             /\ level'[p].tail = level[p].tail
          \/ /\ t = level[p].tail /\ level'[p].tail = PrevLink[t]
             /\ level'[p].head = level[p].head

SamePriorities == \A x \in Threads : thread'[x].priority = thread[x].priority

NewPriority(t, v) ==
    /\ thread'[t].priority = v
    /\ \A x \in Threads \ {t} : thread'[x].priority = thread[x].priority

(* The smallest of a set of numbers.                                        *)
LEMMA MinIsLeast ==
    ASSUME NEW S, S \subseteq Nat, S # {}
    PROVE  Min(S) \in S /\ \A y \in S : Min(S) <= y
<1> DEFINE R == {ss \in Nat \X Nat : ss[1] < ss[2]}
<1>0. IsWellFoundedOn(R, Nat)
  BY NatLessThanWellFounded, Zenon DEF OpToRel
<1> HIDE DEF R
<1>1. PICK x \in S : \A y \in S : ~ (<<y, x>> \in R)
  BY Zenon, <1>0, WFMin
<1>2. ASSUME NEW y \in S PROVE x <= y
  <2>1. x \in Nat /\ y \in Nat
    OBVIOUS
  <2>2. y < x => <<y, x>> \in R
    BY <2>1 DEF R
  <2> QED
    BY <1>1, <2>1, <2>2
<1> QED
  BY Zenon, <1>2 DEF Min

(* What the encoder finds.                                                  *)
LEMMA Encoded ==
    ASSUME Encode, encoder_input' \subseteq Priorities,
           encoder_output \in Priorities
    PROVE  /\ encoder_output' \in Priorities
           /\ encoder_input' # {} =>
                 /\ encoder_output' \in encoder_input'
                 /\ \A p \in encoder_input' : encoder_output' <= p
<1>1. Priorities \subseteq Nat
  BY SchedulerAssumption DEF Priorities
<1>2. CASE encoder_input' = {}
  BY <1>2 DEF Encode
<1>3. CASE encoder_input' # {}
  BY Zenon, <1>1, <1>3, MinIsLeast DEF Encode
<1> QED
  BY <1>2, <1>3

(* The types of one thread and one priority.                                *)
LEMMA Types ==
    ASSUME TypeOK, NEW t \in Threads, NEW p \in Priorities
    PROVE  /\ thread[t] \in [queued : BOOLEAN, priority : Priorities,
                             next : Threads, prev : Threads]
           /\ thread[t].priority \in Priorities
           /\ thread[t].next \in Threads /\ thread[t].prev \in Threads
           /\ level[p] \in [head : Threads, tail : Threads]
           /\ level[p].head \in Threads /\ level[p].tail \in Threads
<1>1. /\ thread[t] \in [queued : BOOLEAN, priority : Priorities,
                        next : Threads, prev : Threads]
      /\ level[p] \in [head : Threads, tail : Threads]
  BY DEF TypeOK
<1> QED
  BY <1>1

(* ListExact in terms of List, before and after a step.                     *)
LEMMA ExactList ==
    ASSUME TypeOK, NEW p \in Priorities, ListExact(p)
    PROVE  /\ p \in encoder_input =>
                 List(ReadyAt(p), level[p].head, level[p].tail, NextLink, PrevLink)
           /\ p \notin encoder_input => ReadyAt(p) = {}
<1>1. CASE p \in encoder_input
  <2>1. /\ \E n \in 1 .. NumIDs : Chain(Threads, ReadyAt(p), n, level[p].head,
                                        level[p].tail, NextLink)
        /\ \A t \in ReadyAt(p) \ {level[p].tail} :
               thread[thread[t].next].prev = t
    BY <1>1 DEF ListExact
  <2>2. \A t \in ReadyAt(p) : PrevLink[NextLink[t]] = thread[thread[t].next].prev
    BY Types DEF ReadyAt, PrevLink, NextLink
  <2> QED
    BY <1>1, <2>1, <2>2 DEF List
<1>2. CASE p \notin encoder_input
  BY <1>2 DEF ListExact
<1> QED
  BY <1>1, <1>2

LEMMA ListExactNext ==
    ASSUME TypeOK', NEW p \in Priorities,
           p \in encoder_input' =>
              List(ReadyAt(p)', level'[p].head, level'[p].tail, NextLink', PrevLink'),
           p \notin encoder_input' => ReadyAt(p)' = {}
    PROVE  ListExact(p)'
<1>1. CASE p \in encoder_input'
  <2>1. \A t \in ReadyAt(p)' : PrevLink'[NextLink'[t]] = thread'[thread'[t].next].prev
    <3>1. ASSUME NEW t \in Threads PROVE thread'[t].next \in Threads
      BY DEF TypeOK
    <3> QED
      BY <3>1 DEF ReadyAt, PrevLink, NextLink
  <2> QED
    BY <1>1, <2>1 DEF List, ListExact
<1>2. CASE p \notin encoder_input'
  BY <1>2 DEF ListExact
<1> QED
  BY <1>1, <1>2

(* A step that changes neither the threads of a list nor the links between   *)
(* them.                                                                    *)
LEMMA ListExactKept ==
    ASSUME TypeOK, TypeOK', NEW p \in Priorities, ListExact(p),
           ReadyAt(p)' = ReadyAt(p), level'[p] = level[p],
           p \in encoder_input' <=> p \in encoder_input,
           \A t \in ReadyAt(p) : /\ thread'[t].next = thread[t].next
                                              \/ t = level[p].tail
                                /\ thread'[t].prev = thread[t].prev
    PROVE  ListExact(p)'
<1>1. CASE p \in encoder_input
  <2>1. List(ReadyAt(p), level[p].head, level[p].tail, NextLink, PrevLink)
    BY <1>1, ExactList
  <2>2. \A t \in ReadyAt(p) : t \in Threads
    BY DEF ReadyAt
  <2>3. /\ \A t \in ReadyAt(p) \ {level[p].tail} : NextLink'[t] = NextLink[t]
        /\ \A t \in ReadyAt(p) : PrevLink'[t] = PrevLink[t]
    BY <2>2 DEF NextLink, PrevLink
  <2>4. List(ReadyAt(p), level[p].head, level[p].tail, NextLink', PrevLink')
    BY <2>1, <2>3, ListFrame
  <2> QED
    BY <1>1, <2>4, ListExactNext
<1>2. CASE p \notin encoder_input
  BY <1>2, ExactList, ListExactNext
<1> QED
  BY <1>1, <1>2

(* After reset no thread is ready.                                          *)
LEMMA InitIInv == Init => IInv
<1> SUFFICES ASSUME Init PROVE IInv
  OBVIOUS
<1>1. 0 \in Threads /\ 0 \in Priorities /\ DefaultPri \in Priorities
  BY SchedulerAssumption DEF Threads, Priorities
<1>2. TypeOK
  BY Zenon, <1>1 DEF Init, TypeOK
<1>3. \A p \in Priorities : ReadyAt(p) = {} /\ p \notin encoder_input
  BY DEF Init, ReadyAt
<1>4. QueueBitsExact
  BY <1>3 DEF QueueBitsExact, ListExact
<1>5. NextIsBest
  BY DEF Init, NextIsBest
<1> QED
  BY <1>2, <1>4, <1>5 DEF IInv

(* A step that leaves the queue alone.                                      *)
LEMMA QueueKept ==
    ASSUME IInv, TypeOK', NextIsBest',
           UNCHANGED <<thread, level, encoder_input>>
    PROVE  IInv'
<1>1. ASSUME NEW p \in Priorities PROVE ListExact(p)'
  <2>1. ReadyAt(p)' = ReadyAt(p) /\ ListExact(p)
    BY DEF ReadyAt, IInv, QueueBitsExact
  <2> QED
    BY <2>1, ListExactKept DEF IInv
<1> QED
  BY <1>1 DEF IInv, QueueBitsExact

(* A software thread is put behind the last of its priority.                *)
LEMMA EnqSoftwareKeeps ==
    ASSUME IInv, NEW t \in Threads, ~ thread[t].queued, ENQ_software(t),
           UNCHANGED <<idle, current>>
    PROVE  /\ IInv' /\ SamePriorities
           /\ Joins(t, thread[t].priority)
           /\ \A r \in Priorities \ {thread[t].priority} : Untouched(r)
<1>1. PICK p \in Priorities : p = thread[t].priority
  BY DEF IInv, TypeOK
<1>2. PICK l \in Threads : l = level[p].tail
  BY DEF IInv, TypeOK
<1>3. /\ IF p \in encoder_input
         THEN /\ thread' = [thread EXCEPT
                               ![l].next = t,
                               ![t] = [thread[t] EXCEPT !.queued = TRUE,
                                                        !.prev = l]]
              /\ level' = [level EXCEPT ![p].tail = t]
         ELSE /\ thread' = [thread EXCEPT ![t].queued = TRUE]
              /\ level' = [level EXCEPT ![p] = [head |-> t, tail |-> t]]
      /\ encoder_input' = encoder_input \cup {p} /\ Encode
      /\ next_thread_id' = BestHead /\ Next_Thread_Valid' = TRUE
      /\ UNCHANGED <<param, hw_start, idle_thread_id, idle_thread_valid, current>>
  BY <1>1, <1>2, Zenon DEF ENQ_software, idle
<1>4. \A r \in Priorities : t \notin ReadyAt(r)
  BY DEF ReadyAt
<1>5. p \in encoder_input =>
        List(ReadyAt(p), level[p].head, l, NextLink, PrevLink) /\ l \in ReadyAt(p)
  BY <1>2, ExactList, ListEnds DEF IInv, QueueBitsExact
<1>6. p \in encoder_input => l # t
  BY <1>4, <1>5
<1>7. /\ thread' \in [Threads -> [queued : BOOLEAN, priority : Priorities,
                                  next : Threads, prev : Threads]]
      /\ \A x \in Threads :
            /\ thread'[x].priority = thread[x].priority
            /\ x # t => thread'[x].queued = thread[x].queued
            /\ x # t => thread'[x].prev = thread[x].prev
            /\ x # l => thread'[x].next = thread[x].next
      /\ thread'[t].queued = TRUE
      /\ p \in encoder_input => thread'[l].next = t /\ thread'[t].prev = l
      /\ p \notin encoder_input => thread'[l].next = thread[l].next
  <2>1. thread \in [Threads -> [queued : BOOLEAN, priority : Priorities,
                                next : Threads, prev : Threads]]
    BY DEF IInv, TypeOK
  <2> DEFINE B == BOOLEAN
             E == [queued : B, priority : Priorities, next : Threads,
                   prev : Threads]
             a == [thread[t] EXCEPT !.queued = TRUE, !.prev = l]
             b == [thread[l] EXCEPT !.next = t]
             d == [thread[t] EXCEPT !.queued = TRUE]
  <2>2. thread \in [Threads -> E] /\ TRUE \in B
    BY <2>1
  <2> HIDE DEF B
  <2>3. a \in E /\ b \in E /\ d \in E
    <3>1. thread[t] \in E /\ thread[l] \in E
      BY <2>2
    <3>2. b \in E
      BY <3>1
    <3>3. d \in E
      BY Zenon, <2>2, <3>1
    <3>4. a = [d EXCEPT !.prev = l]
      OBVIOUS
    <3> HIDE DEF d
    <3>5. [d EXCEPT !.prev = l] \in E
      BY <3>3
    <3> QED
      BY <3>2, <3>3, <3>4, <3>5 DEF d
  <2>4. /\ a.queued = TRUE /\ a.priority = thread[t].priority
        /\ a.next = thread[t].next /\ a.prev = l
        /\ b.queued = thread[l].queued /\ b.priority = thread[l].priority
        /\ b.next = t /\ b.prev = thread[l].prev
        /\ d.queued = TRUE /\ d.priority = thread[t].priority
        /\ d.next = thread[t].next /\ d.prev = thread[t].prev
    BY <2>2
  <2>5. CASE p \in encoder_input
    <3>1. thread' = [thread EXCEPT ![l] = b, ![t] = a]
      BY <1>3, <2>5
    <3> HIDE DEF a, b, E
    <3>2. /\ thread' \in [Threads -> E] /\ thread'[t] = a /\ thread'[l] = b
          /\ \A x \in Threads : x # t /\ x # l => thread'[x] = thread[x]
      BY <1>6, <2>2, <2>3, <2>5, <3>1
    <3>3. thread' \in [Threads -> [queued : BOOLEAN, priority : Priorities,
                                   next : Threads, prev : Threads]]
      BY <3>2 DEF E, B
    <3>4. /\ thread'[t].queued = TRUE
          /\ thread'[l].next = t /\ thread'[t].prev = l
      BY <2>4, <3>2
    <3>5. ASSUME NEW x \in Threads
          PROVE  /\ thread'[x].priority = thread[x].priority
                 /\ x # t => thread'[x].queued = thread[x].queued
                 /\ x # t => thread'[x].prev = thread[x].prev
                 /\ x # l => thread'[x].next = thread[x].next
      BY ZenonT(30), <2>4, <3>2
    <3> QED
      BY <2>5, <3>3, <3>4, <3>5, Zenon
  <2>6. CASE p \notin encoder_input
    <3>1. thread' = [thread EXCEPT ![t] = d]
      BY <1>3, <2>6
    <3> HIDE DEF d, E
    <3>2. /\ thread' \in [Threads -> E] /\ thread'[t] = d
          /\ \A x \in Threads : x # t => thread'[x] = thread[x]
      BY <2>2, <2>3, <3>1
    <3> QED
      BY <2>4, <2>6, <3>2, Zenon DEF E, B
  <2> QED
    BY Zenon, <2>5, <2>6
<1>8. /\ level' \in [Priorities -> [head : Threads, tail : Threads]]
      /\ \A r \in Priorities \ {p} : level'[r] = level[r]
      /\ level'[p].tail = t
      /\ p \in encoder_input => level'[p].head = level[p].head
      /\ p \notin encoder_input => level'[p].head = t
  <2>1. level \in [Priorities -> [head : Threads, tail : Threads]]
    BY DEF IInv, TypeOK
  <2> QED
    BY <1>3, <2>1
<1>9. /\ encoder_input' \subseteq Priorities
      /\ encoder_output' \in Priorities
      /\ encoder_output' \in encoder_input'
      /\ \A r \in encoder_input' : encoder_output' <= r
  <2>1. encoder_input' \subseteq Priorities /\ encoder_output \in Priorities
        /\ encoder_input' # {} /\ Encode
    BY <1>3 DEF IInv, TypeOK
  <2> QED
    BY <2>1, Encoded
<1>10. next_thread_id' = level'[encoder_output'].head /\ Next_Thread_Valid' = TRUE
  BY <1>3 DEF BestHead
<1>11. TypeOK'
  <2>1. next_thread_id' \in Threads
    BY <1>8, <1>9, <1>10
  <2> QED
    BY Zenon, <1>3, <1>7, <1>8, <1>9, <1>10, <2>1 DEF IInv, TypeOK
<1>12. NextIsBest'
  BY <1>9, <1>10 DEF NextIsBest
<1>13. ReadyAt(p)' = ReadyAt(p) \cup {t}
  BY <1>1, <1>7 DEF ReadyAt
<1>14. ASSUME NEW r \in Priorities \ {p} PROVE ReadyAt(r)' = ReadyAt(r)
  <2>1. \A x \in Threads : (thread'[x].queued /\ thread'[x].priority = r) <=>
                           (thread[x].queued /\ thread[x].priority = r)
    BY <1>1, <1>7, Zenon
  <2> QED
    BY <2>1 DEF ReadyAt
<1>15. ListExact(p)'
  <2>1. CASE p \in encoder_input
    <3>1. \A x \in ReadyAt(p) : x \in Threads /\ x # t
      BY <1>4 DEF ReadyAt
    <3>2. /\ \A x \in ReadyAt(p) \ {l} : NextLink'[x] = NextLink[x]
          /\ \A x \in ReadyAt(p) : PrevLink'[x] = PrevLink[x]
          /\ NextLink'[l] = t /\ PrevLink'[t] = l
      BY <1>7, <2>1, <3>1 DEF NextLink, PrevLink
    <3>3. List(ReadyAt(p) \cup {t}, level[p].head, t, NextLink', PrevLink')
      BY <1>4, <1>5, <2>1, <3>2, ListAppend
    <3> QED
      BY Zenon, <1>3, <1>8, <1>11, <1>13, <2>1, <3>3, ListExactNext
  <2>2. CASE p \notin encoder_input
    <3>1. ReadyAt(p)' = {t}
      BY <1>13, <2>2, ExactList DEF IInv, QueueBitsExact
    <3>2. List({t}, t, t, NextLink', PrevLink')
      BY ListNew
    <3> QED
      BY Zenon, <1>3, <1>8, <1>11, <2>2, <3>1, <3>2, ListExactNext
  <2> QED
    BY <2>1, <2>2
<1>16. ASSUME NEW r \in Priorities \ {p} PROVE ListExact(r)' /\ Untouched(r)
  <2>1. r \in encoder_input' <=> r \in encoder_input
    BY <1>3
  <2>2. \A x \in ReadyAt(r) : x \in Threads /\ x # t /\ (p \in encoder_input => x # l)
    <3>1. \A x \in ReadyAt(r) : x \notin ReadyAt(p)
      BY DEF ReadyAt
    <3> QED
      BY <1>4, <1>5, <3>1 DEF ReadyAt
  <2>3. \A x \in ReadyAt(r) : /\ thread'[x].next = thread[x].next
                              /\ thread'[x].prev = thread[x].prev
    BY <1>7, <2>2
  <2>4. ListExact(r)
    BY DEF IInv, QueueBitsExact
  <2>5. ListExact(r)'
    BY <1>8, <1>11, <1>14, <2>1, <2>3, <2>4, ListExactKept DEF IInv
  <2>6. Untouched(r)
    BY <1>8, <1>14, <2>2, <2>3 DEF Untouched, NextLink
  <2> QED
    BY <2>5, <2>6
<1>17. Joins(t, p)
  <2>1. CASE p \in encoder_input
    <3>1. \A x \in ReadyAt(p) : x \in Threads
      BY DEF ReadyAt
    <3>2. Links(ReadyAt(p), l, t, NextLink, NextLink')
      BY <1>7, <2>1, <3>1 DEF NextLink, Links
    <3> QED
      BY <1>2, <1>4, <1>8, <1>13, <2>1, <3>2, Zenon DEF Joins
  <2>2. CASE p \notin encoder_input
    BY <1>4, <1>8, <1>13, <2>2, Zenon DEF Joins
  <2> QED
    BY <2>1, <2>2
<1>18. SamePriorities
  BY <1>7, Zenon DEF SamePriorities
<1>19. IInv'
  BY <1>11, <1>12, <1>15, <1>16 DEF IInv, QueueBitsExact
<1> QED
  BY <1>1, <1>16, <1>17, <1>18, <1>19, Zenon

(* The chosen thread, or the idle thread, is taken off the queue.           *)
LEMMA DispatchKeeps ==
    ASSUME IInv, Dispatch
    PROVE  /\ IInv' /\ SamePriorities
           /\ \A r \in Priorities :
                 IF next_thread_id \in ReadyAt(r) THEN Leaves(next_thread_id, r)
                 ELSE Untouched(r)
<1>1. PICK t \in Threads : t = next_thread_id
  BY DEF IInv, TypeOK
<1>2. PICK p \in Priorities : p = thread[t].priority
  BY DEF IInv, TypeOK
<1>3. PICK h \in Threads : h = level[p].head
  BY DEF IInv, TypeOK
<1>4. /\ current' = t
      /\ IF h = level[p].tail
         THEN encoder_input' = encoder_input \ {p} /\ UNCHANGED level
         ELSE /\ level' = [level EXCEPT ![p].head = thread[h].next]
              /\ UNCHANGED encoder_input
      /\ thread' = [thread EXCEPT ![t].queued = FALSE]
      /\ Encode
      /\ IF encoder_input' = {}
         THEN /\ Next_Thread_Valid' = idle_thread_valid
              /\ next_thread_id' = IF idle_thread_valid THEN idle_thread_id
                                   ELSE next_thread_id
         ELSE Next_Thread_Valid' = TRUE /\ next_thread_id' = BestHead
      /\ UNCHANGED <<param, idle_thread_id, idle_thread_valid, hw_start>>
  BY <1>1, <1>2, <1>3, Zenon DEF Dispatch, DEQ, idle
<1>5. /\ encoder_input # {} => p \in encoder_input
      /\ p \in encoder_input => t = h
  <2>1. CASE encoder_input = {}
    BY <2>1
  <2>2. CASE encoder_input # {}
    <3>1. PICK r \in encoder_input : r = encoder_output
      BY <2>2 DEF IInv, NextIsBest
    <3>2. t = level[r].head /\ r \in Priorities
      BY <1>1, <2>2, <3>1 DEF IInv, NextIsBest, TypeOK
    <3>3. t \in ReadyAt(r)
      BY <3>2, ExactList, ListEnds DEF IInv, QueueBitsExact
    <3>4. r = p
      BY <1>2, <3>3 DEF ReadyAt
    <3> QED
      BY <1>3, <3>2, <3>4
  <2> QED
    BY <2>1, <2>2
<1>6. /\ thread' \in [Threads -> [queued : BOOLEAN, priority : Priorities,
                                  next : Threads, prev : Threads]]
      /\ thread'[t].queued = FALSE
      /\ \A x \in Threads : /\ thread'[x].priority = thread[x].priority
                            /\ thread'[x].next = thread[x].next
                            /\ thread'[x].prev = thread[x].prev
                            /\ x # t => thread'[x].queued = thread[x].queued
  <2> DEFINE B == BOOLEAN
             E == [queued : B, priority : Priorities, next : Threads,
                   prev : Threads]
             a == [thread[t] EXCEPT !.queued = FALSE]
  <2>1. thread \in [Threads -> E] /\ FALSE \in B
    BY DEF IInv, TypeOK
  <2> HIDE DEF B
  <2>2. a \in E /\ thread' = [thread EXCEPT ![t] = a]
    <3>1. thread[t] \in E
      BY <2>1
    <3>2. a \in E
      BY Zenon, <2>1, <3>1
    <3> QED
      BY <1>4, <3>2
  <2>3. /\ a.queued = FALSE /\ a.priority = thread[t].priority
        /\ a.next = thread[t].next /\ a.prev = thread[t].prev
    BY <2>1
  <2> HIDE DEF a, E
  <2>4. /\ thread' \in [Threads -> E] /\ thread'[t] = a
        /\ \A x \in Threads : x # t => thread'[x] = thread[x]
    BY <2>1, <2>2
  <2> QED
    BY <2>3, <2>4, Zenon DEF E, B
<1>7. \A r \in Priorities : ReadyAt(r)' = ReadyAt(r) \ {t}
  <2>1. \A r \in Priorities, x \in Threads :
          (thread'[x].queued /\ thread'[x].priority = r) <=>
          (thread[x].queued /\ thread[x].priority = r /\ x # t)
    BY <1>6, Zenon
  <2> QED
    BY <2>1 DEF ReadyAt
<1>8. \A r \in Priorities \ {p} : t \notin ReadyAt(r)
  BY <1>2 DEF ReadyAt
<1>9. /\ level' \in [Priorities -> [head : Threads, tail : Threads]]
      /\ \A r \in Priorities \ {p} : level'[r] = level[r]
      /\ level'[p].tail = level[p].tail
      /\ h # level[p].tail => level'[p].head = thread[h].next
  <2>1. level \in [Priorities -> [head : Threads, tail : Threads]]
        /\ thread[h].next \in Threads
    BY DEF IInv, TypeOK
  <2> QED
    BY <1>4, <2>1
<1>10. /\ encoder_input' \subseteq Priorities
       /\ encoder_output' \in Priorities
       /\ encoder_input' # {} =>
             /\ encoder_output' \in encoder_input'
             /\ \A r \in encoder_input' : encoder_output' <= r
  <2>1. encoder_input' \subseteq Priorities /\ encoder_output \in Priorities
        /\ Encode
    BY <1>4 DEF IInv, TypeOK
  <2> QED
    BY <2>1, Encoded
<1>11. encoder_input' # {} =>
         next_thread_id' = level'[encoder_output'].head /\ Next_Thread_Valid' = TRUE
  BY <1>4 DEF BestHead
<1>12. TypeOK'
  <2>1. next_thread_id' \in Threads /\ Next_Thread_Valid' \in BOOLEAN
    <3>1. CASE encoder_input' # {}
      BY Zenon, <1>9, <1>10, <1>11, <3>1
    <3>2. CASE encoder_input' = {}
      BY <1>4, <3>2, Zenon DEF IInv, TypeOK
    <3> QED
      BY <3>1, <3>2
  <2> QED
    BY <1>4, <1>6, <1>9, <1>10, <2>1 DEF IInv, TypeOK
<1>13. NextIsBest'
  BY <1>10, <1>11 DEF NextIsBest
<1>14. ASSUME NEW r \in Priorities \ {p} PROVE ListExact(r)'
  <2>1. r \in encoder_input' <=> r \in encoder_input
    BY <1>4
  <2>2. ReadyAt(r)' = ReadyAt(r) /\ \A x \in ReadyAt(r) : x \in Threads
    BY <1>7, <1>8 DEF ReadyAt
  <2>3. \A x \in ReadyAt(r) : /\ thread'[x].next = thread[x].next
                              /\ thread'[x].prev = thread[x].prev
    BY <1>6, <2>2
  <2>4. ListExact(r)
    BY DEF IInv, QueueBitsExact
  <2> QED
    BY <1>9, <1>12, <2>1, <2>2, <2>3, <2>4, ListExactKept DEF IInv
<1>15. ListExact(p)'
  <2> DEFINE S == ReadyAt(p)
             l == level[p].tail
  <2>1. CASE p \notin encoder_input
    <3>1. ReadyAt(p)' = {} /\ p \notin encoder_input'
      BY <1>4, <1>7, <2>1, ExactList DEF IInv, QueueBitsExact
    <3> QED
      BY <1>12, <3>1, ListExactNext
  <2>2. CASE p \in encoder_input
    <3>1. List(S, h, l, NextLink, PrevLink) /\ t = h
      BY <1>3, <1>5, <2>2, ExactList DEF IInv, QueueBitsExact
    <3>2. NextLink' = NextLink /\ PrevLink' = PrevLink /\ NextLink[h] = thread[h].next
      BY <1>6 DEF NextLink, PrevLink
    <3>3. CASE h = l
      <4>1. S = {h}
        BY <3>1, <3>3, ListEnds
      <4>2. ReadyAt(p)' = {} /\ p \notin encoder_input'
        BY <1>4, <1>7, <3>1, <3>3, <4>1
      <4> QED
        BY <1>12, <4>2, ListExactNext
    <3>4. CASE h # l
      <4>1. List(S \ {h}, NextLink[h], l, NextLink, PrevLink)
        BY SMTT(30), <3>1, <3>4, ListPop
      <4>2. ReadyAt(p)' = S \ {h} /\ level'[p].head = NextLink[h]
            /\ level'[p].tail = l
        BY <1>7, <1>9, <3>1, <3>2, <3>4
      <4>3. List(ReadyAt(p)', level'[p].head, level'[p].tail, NextLink', PrevLink')
        BY <3>2, <4>1, <4>2
      <4>4. p \in encoder_input'
        BY SMTT(30), <1>4, <2>2, <3>4
      <4> QED
        BY <1>12, <4>3, <4>4, ListExactNext
    <3> QED
      BY <3>3, <3>4
  <2> QED
    BY <2>1, <2>2
<1>16. IInv' /\ SamePriorities
  BY <1>6, <1>12, <1>13, <1>14, <1>15 DEF IInv, QueueBitsExact, SamePriorities
<1>17. NextLink' = NextLink /\ NextLink[h] = thread[h].next
  BY <1>6 DEF NextLink
<1>18. ASSUME NEW r \in Priorities
       PROVE  IF t \in ReadyAt(r) THEN Leaves(t, r) ELSE Untouched(r)
  <2>1. CASE t \in ReadyAt(r)
    <3>1. r = p /\ t = h
      BY <1>5, <1>8, <2>1, ExactList DEF IInv, QueueBitsExact
    <3> QED
      BY <1>3, <1>7, <1>9, <1>17, <2>1, <3>1, Zenon DEF Leaves
  <2>2. CASE t \notin ReadyAt(r)
    <3>1. ReadyAt(r)' = ReadyAt(r)
      BY <1>7, <2>2
    <3>2. ReadyAt(r) # {} => r # p
      <4>1. CASE p \in encoder_input
        <5>1. t \in ReadyAt(p)
          BY <1>3, <1>5, <4>1, ExactList, ListEnds DEF IInv, QueueBitsExact
        <5> QED
          BY <2>2, <5>1
      <4>2. CASE p \notin encoder_input
        BY <4>2, ExactList DEF IInv, QueueBitsExact
      <4> QED
        BY <4>1, <4>2
    <3>3. ReadyAt(r) # {} => level'[r] = level[r]
      BY <1>9, <3>2
    <3> QED
      BY <1>17, <2>2, <3>1, <3>3, Zenon DEF Untouched
  <2> QED
    BY <2>1, <2>2
<1> QED
  BY <1>1, <1>16, <1>18, Zenon

(* List e, cut at the end where t is, is list f.                             *)
IsCut(t, e, f) ==
    e.head # e.tail =>
       \/ t = e.head /\ f.head = NextLink[t] /\ f.tail = e.tail
       \/ t = e.tail /\ f.tail = PrevLink[t] /\ f.head = e.head

(* A queued thread at an end of its list is taken off it.                    *)
LEMMA Unlinking ==
    ASSUME IInv, NEW t \in Threads, thread[t].queued, AtAnEnd(t),
           NEW o \in Priorities, o = thread[t].priority
    PROVE  LET u == Unlinked(t)
           IN  /\ u.thread = thread
               /\ u.level \in [Priorities -> [head : Threads, tail : Threads]]
               /\ \A r \in Priorities \ {o} : u.level[r] = level[r]
               /\ u.encoder_input \subseteq Priorities
               /\ \A r \in Priorities \ {o} :
                     r \in u.encoder_input <=> r \in encoder_input
               /\ o \in u.encoder_input =>
                     List(ReadyAt(o) \ {t}, u.level[o].head, u.level[o].tail,
                          NextLink, PrevLink)
               /\ o \notin u.encoder_input => ReadyAt(o) = {t}
               /\ IsCut(t, level[o], u.level[o])
<1> DEFINE e == level[o]
           S == ReadyAt(o)
           Same == [thread |-> thread, level |-> level,
                    encoder_input |-> encoder_input]
           u == Unlinked(t)
<1>1. t \in S
  BY SMTT(30) DEF ReadyAt
<1>2. o \in encoder_input
  BY <1>1, ExactList DEF IInv, QueueBitsExact
<1>3. List(S, e.head, e.tail, NextLink, PrevLink)
  BY <1>2, ExactList DEF IInv, QueueBitsExact
<1>4. /\ level \in [Priorities -> [head : Threads, tail : Threads]]
      /\ encoder_input \subseteq Priorities
      /\ thread[t].next \in Threads /\ thread[t].prev \in Threads
      /\ NextLink[t] = thread[t].next /\ PrevLink[t] = thread[t].prev
  BY SMTT(30), Types DEF IInv, TypeOK, NextLink, PrevLink
<1>5. CASE e.head = e.tail
  <2>1. u = [Same EXCEPT !.encoder_input = encoder_input \ {o}]
    BY <1>5 DEF Unlinked
  <2>2. /\ u.thread = thread /\ u.level = level
        /\ u.encoder_input = encoder_input \ {o}
    BY <2>1
  <2>3. S = {t}
    BY <1>1, <1>3, <1>5, ListEnds
  <2>4. IsCut(t, e, u.level[o])
    BY <1>5, Zenon DEF IsCut
  <2> QED
    BY <1>4, <2>2, <2>3, <2>4
<1>6. CASE e.head # e.tail /\ t = e.head
  <2>1. u = [Same EXCEPT !.level[o].head = thread[t].next]
    BY Zenon, <1>6 DEF Unlinked
  <2> DEFINE lv == [level EXCEPT ![o].head = thread[t].next]
  <2>2. /\ u.thread = thread /\ u.encoder_input = encoder_input /\ u.level = lv
    BY <2>1
  <2>3. /\ lv \in [Priorities -> [head : Threads, tail : Threads]]
        /\ \A r \in Priorities \ {o} : lv[r] = level[r]
        /\ lv[o].head = thread[t].next /\ lv[o].tail = e.tail
    BY SMTT(30), <1>4
  <2>4. List(S \ {t}, NextLink[t], e.tail, NextLink, PrevLink)
    BY ZenonT(30), <1>3, <1>6, ListPop
  <2>5. IsCut(t, e, lv[o])
    BY <1>4, <1>6, <2>3, Zenon DEF IsCut
  <2> HIDE DEF lv, S, u
  <2> QED
    BY SMTT(30), <1>2, <1>4, <2>2, <2>3, <2>4, <2>5 DEF S, u
<1>7. CASE e.head # e.tail /\ t # e.head /\ t = e.tail
  <2>1. u = [Same EXCEPT !.level[o].tail = thread[t].prev]
    BY Zenon, <1>7 DEF Unlinked
  <2> DEFINE lv == [level EXCEPT ![o].tail = thread[t].prev]
  <2>2. /\ u.thread = thread /\ u.encoder_input = encoder_input /\ u.level = lv
    BY <2>1
  <2>3. /\ lv \in [Priorities -> [head : Threads, tail : Threads]]
        /\ \A r \in Priorities \ {o} : lv[r] = level[r]
        /\ lv[o].head = e.head /\ lv[o].tail = thread[t].prev
    BY <1>4
  <2>4. List(S \ {t}, e.head, PrevLink[t], NextLink, PrevLink)
    <3>1. List(S, e.head, t, NextLink, PrevLink) /\ e.head # t
      BY Zenon, <1>3, <1>7
    <3> HIDE DEF S, e
    <3> QED
      BY SMTT(30), <3>1, ListDrop
  <2>5. IsCut(t, e, lv[o])
    BY <1>4, <1>7, <2>3, Zenon DEF IsCut
  <2> HIDE DEF lv, S, u
  <2> QED
    BY SMTT(30), <1>2, <1>4, <2>2, <2>3, <2>4, <2>5 DEF S, u
<1>8. t = e.head \/ t = e.tail
  BY DEF AtAnEnd
<1> QED
  BY <1>5, <1>6, <1>7, <1>8, Zenon

(* Thread t is given priority v and put behind l, and what its fields and    *)
(* those of the other threads are then.                                     *)
PutBehind(t, l, v) ==
    thread' = [thread EXCEPT
                  ![l].next = t,
                  ![t] = [[thread[t] EXCEPT !.priority = v] EXCEPT !.prev = l]]

IsBehind(t, l, v) ==
    /\ thread' \in [Threads -> [queued : BOOLEAN, priority : Priorities,
                                next : Threads, prev : Threads]]
    /\ \A x \in Threads :
          /\ thread'[x].queued = thread[x].queued
          /\ x # t => thread'[x].priority = thread[x].priority
          /\ x # t => thread'[x].prev = thread[x].prev
          /\ x # l => thread'[x].next = thread[x].next
    /\ thread'[t].priority = v
    /\ thread'[l].next = t /\ thread'[t].prev = l

LEMMA MovedFields ==
    ASSUME IInv, NEW t \in Threads, NEW l \in Threads, l # t,
           NEW v \in Priorities, PutBehind(t, l, v)
    PROVE  IsBehind(t, l, v)
<1> DEFINE B == BOOLEAN
           E == [queued : B, priority : Priorities, next : Threads,
                 prev : Threads]
           d == [thread[t] EXCEPT !.priority = v]
           a == [d EXCEPT !.prev = l]
           b == [thread[l] EXCEPT !.next = t]
<1>1. thread \in [Threads -> E]
  BY DEF IInv, TypeOK
<1> HIDE DEF B
<1>2. thread[t] \in E /\ thread[l] \in E
  BY <1>1
<1>3. d \in E /\ b \in E
  BY <1>2
<1>4. /\ d.queued = thread[t].queued /\ d.priority = v
      /\ d.next = thread[t].next
      /\ b.queued = thread[l].queued /\ b.priority = thread[l].priority
      /\ b.next = t /\ b.prev = thread[l].prev
  BY <1>2
<1>5. thread' = [thread EXCEPT ![l] = b, ![t] = a]
  BY DEF PutBehind
<1> HIDE DEF d, b
<1>6. a \in E /\ a.queued = thread[t].queued /\ a.priority = v
      /\ a.next = thread[t].next /\ a.prev = l
  BY <1>3, <1>4
<1> HIDE DEF a, E
<1>7. /\ thread' \in [Threads -> E] /\ thread'[t] = a /\ thread'[l] = b
      /\ \A x \in Threads : x # t /\ x # l => thread'[x] = thread[x]
  BY <1>1, <1>3, <1>5, <1>6
<1>8. ASSUME NEW x \in Threads
      PROVE  /\ thread'[x].queued = thread[x].queued
             /\ x # t => thread'[x].priority = thread[x].priority
             /\ x # t => thread'[x].prev = thread[x].prev
             /\ x # l => thread'[x].next = thread[x].next
  <2>1. CASE x = t
    BY <1>6, <1>7, <2>1, Zenon
  <2>2. CASE x = l
    BY <1>4, <1>7, <2>2, Zenon
  <2>3. CASE x # t /\ x # l
    BY <1>7, <2>3, Zenon
  <2> QED
    BY <2>1, <2>2, <2>3, Zenon
<1> QED
  BY <1>4, <1>6, <1>7, <1>8, Zenon DEF E, B, IsBehind

(* The same when t is the only thread of its new priority, or not queued.    *)
LEMMA PriorityFields ==
    ASSUME IInv, NEW t \in Threads, NEW v \in Priorities,
           thread' = [thread EXCEPT ![t].priority = v]
    PROVE  /\ thread' \in [Threads -> [queued : BOOLEAN, priority : Priorities,
                                       next : Threads, prev : Threads]]
           /\ \A x \in Threads :
                 /\ thread'[x].queued = thread[x].queued
                 /\ x # t => thread'[x].priority = thread[x].priority
                 /\ thread'[x].prev = thread[x].prev
                 /\ thread'[x].next = thread[x].next
           /\ thread'[t].priority = v
<1> DEFINE B == BOOLEAN
           E == [queued : B, priority : Priorities, next : Threads,
                 prev : Threads]
           d == [thread[t] EXCEPT !.priority = v]
<1>1. thread \in [Threads -> E]
  BY DEF IInv, TypeOK
<1> HIDE DEF B
<1>2. thread[t] \in E
  BY <1>1
<1>3. d \in E
  BY <1>2
<1>4. /\ d.queued = thread[t].queued /\ d.priority = v
      /\ d.next = thread[t].next /\ d.prev = thread[t].prev
  BY <1>2
<1>5. thread' = [thread EXCEPT ![t] = d]
  OBVIOUS
<1> HIDE DEF d, E
<1>6. /\ thread' \in [Threads -> E] /\ thread'[t] = d
      /\ \A x \in Threads : x # t => thread'[x] = thread[x]
  BY <1>1, <1>3, <1>5
<1> QED
  BY <1>4, <1>6, Zenon DEF E, B

(* A queued thread at an end of its list moves to another list.             *)
LEMMA MoveToKeeps ==
    ASSUME IInv, NEW t \in Threads, thread[t].queued, AtAnEnd(t),
           NEW v \in Priorities, v # thread[t].priority,
           MoveTo(t, v), ChooseNext,
           param' \in [Threads -> {SW} \cup HWParams],
           UNCHANGED <<idle, hw_start, current>>
    PROVE  /\ IInv' /\ NewPriority(t, v)
           /\ Leaves(t, thread[t].priority) /\ Joins(t, v)
           /\ \A r \in Priorities \ {v, thread[t].priority} : Untouched(r)
<1>1. PICK o \in Priorities : o = thread[t].priority
  BY DEF IInv, TypeOK
<1>2. PICK lv, en : lv = Unlinked(t).level /\ en = Unlinked(t).encoder_input
  OBVIOUS
<1>3. /\ Unlinked(t).thread = thread
      /\ lv \in [Priorities -> [head : Threads, tail : Threads]]
      /\ \A r \in Priorities \ {o} : lv[r] = level[r]
      /\ en \subseteq Priorities
      /\ \A r \in Priorities \ {o} : r \in en <=> r \in encoder_input
      /\ o \in en => List(ReadyAt(o) \ {t}, lv[o].head, lv[o].tail,
                          NextLink, PrevLink)
      /\ o \notin en => ReadyAt(o) = {t}
      /\ IsCut(t, level[o], lv[o])
  BY ZenonT(30), <1>1, <1>2, Unlinking
<1>4. PICK l \in Threads : l = level[v].tail
  BY DEF IInv, TypeOK
<1>5. v \in en <=> v \in encoder_input
  BY <1>1, <1>3
<1>6. /\ IF v \in encoder_input
         THEN /\ thread' = [thread EXCEPT
                               ![l].next = t,
                               ![t] = [[thread[t] EXCEPT !.priority = v]
                                          EXCEPT !.prev = l]]
              /\ level' = [lv EXCEPT ![v] = [level[v] EXCEPT !.tail = t]]
         ELSE /\ thread' = [thread EXCEPT ![t] = [thread[t] EXCEPT !.priority = v]]
              /\ level' = [lv EXCEPT ![v] = [head |-> t, tail |-> t]]
      /\ encoder_input' = en \cup {v} /\ Encode
  BY <1>2, <1>3, <1>4, <1>5, Zenon DEF MoveTo
<1>7. /\ \A r \in Priorities \ {o} : t \notin ReadyAt(r)
      /\ t \in ReadyAt(o)
  BY <1>1 DEF ReadyAt
<1>8. v \in encoder_input =>
        List(ReadyAt(v), level[v].head, l, NextLink, PrevLink) /\ l \in ReadyAt(v)
  BY <1>4, ExactList, ListEnds DEF IInv, QueueBitsExact
<1>9. v \in encoder_input => l # t
  BY <1>1, <1>7, <1>8
<1>10. /\ thread' \in [Threads -> [queued : BOOLEAN, priority : Priorities,
                                   next : Threads, prev : Threads]]
       /\ \A x \in Threads :
             /\ thread'[x].queued = thread[x].queued
             /\ x # t => thread'[x].priority = thread[x].priority
             /\ x # t => thread'[x].prev = thread[x].prev
             /\ (v \notin encoder_input \/ x # l) => thread'[x].next = thread[x].next
       /\ thread'[t].priority = v
       /\ v \in encoder_input => thread'[l].next = t /\ thread'[t].prev = l
  <2>1. CASE v \in encoder_input
    <3>1. PutBehind(t, l, v)
      BY <1>6, <2>1, Zenon DEF PutBehind
    <3>2. IsBehind(t, l, v)
      BY <1>9, <2>1, <3>1, MovedFields
    <3> QED
      BY <2>1, <3>2, Zenon DEF IsBehind
  <2>2. CASE v \notin encoder_input
    <3>1. thread' = [thread EXCEPT ![t].priority = v]
      BY <1>6, <2>2
    <3>2. /\ thread' \in [Threads -> [queued : BOOLEAN, priority : Priorities,
                                      next : Threads, prev : Threads]]
          /\ \A x \in Threads :
                /\ thread'[x].queued = thread[x].queued
                /\ x # t => thread'[x].priority = thread[x].priority
                /\ thread'[x].prev = thread[x].prev
                /\ thread'[x].next = thread[x].next
          /\ thread'[t].priority = v
      BY ZenonT(30), <3>1, PriorityFields
    <3> QED
      BY <2>2, <3>2, Zenon
  <2> QED
    BY <2>1, <2>2
<1>11. /\ level' \in [Priorities -> [head : Threads, tail : Threads]]
       /\ \A r \in Priorities \ {v} : level'[r] = lv[r]
       /\ level'[v].tail = t
       /\ v \in encoder_input => level'[v].head = level[v].head
       /\ v \notin encoder_input => level'[v].head = t
  <2>1. level[v] \in [head : Threads, tail : Threads]
    BY Types DEF IInv
  <2> QED
    BY <1>3, <1>6, <2>1
<1>12. /\ encoder_input' \subseteq Priorities
       /\ encoder_output' \in Priorities
       /\ encoder_output' \in encoder_input'
       /\ \A r \in encoder_input' : encoder_output' <= r
  <2>1. encoder_input' \subseteq Priorities /\ encoder_output \in Priorities
        /\ encoder_input' # {} /\ Encode
    BY <1>3, <1>6 DEF IInv, TypeOK
  <2> QED
    BY <2>1, Encoded
<1>13. next_thread_id' = level'[encoder_output'].head
       /\ Next_Thread_Valid' = Next_Thread_Valid
  BY SMTT(30), <1>12 DEF ChooseNext, BestHead
<1>14. TypeOK'
  <2>1. next_thread_id' \in Threads
    BY <1>11, <1>12, <1>13
  <2> QED
    BY ZenonT(30), <1>10, <1>11, <1>12, <1>13, <2>1 DEF IInv, TypeOK, idle
<1>15. NextIsBest'
  <2>1. encoder_input # {}
    BY <1>1, <1>7, ExactList DEF IInv, QueueBitsExact
  <2> QED
    BY <1>12, <1>13, <2>1 DEF IInv, NextIsBest
<1>16. /\ ReadyAt(v)' = ReadyAt(v) \cup {t}
       /\ \A r \in Priorities \ {v} : ReadyAt(r)' = ReadyAt(r) \ {t}
  <2>1. ASSUME NEW x \in Threads, NEW r \in Priorities
        PROVE  (thread'[x].queued /\ thread'[x].priority = r) <=>
               IF x = t THEN r = v ELSE thread[x].queued /\ thread[x].priority = r
    <3>1. CASE x = t
      BY <1>10, <3>1, Zenon
    <3>2. CASE x # t
      BY <1>10, <3>2, Zenon
    <3> QED
      BY <3>1, <3>2, Zenon
  <2> QED
    BY <2>1 DEF ReadyAt
<1>17. ListExact(v)'
  <2>1. CASE v \in encoder_input
    <3>1. \A x \in ReadyAt(v) : x \in Threads /\ x # t
      BY <1>1, <1>7 DEF ReadyAt
    <3>2. /\ \A x \in ReadyAt(v) \ {l} : NextLink'[x] = NextLink[x]
          /\ \A x \in ReadyAt(v) : PrevLink'[x] = PrevLink[x]
          /\ NextLink'[l] = t /\ PrevLink'[t] = l
      BY <1>10, <2>1, <3>1 DEF NextLink, PrevLink
    <3>3. List(ReadyAt(v) \cup {t}, level[v].head, t, NextLink', PrevLink')
      BY <1>8, <2>1, <3>1, <3>2, ListAppend
    <3> QED
      BY Zenon, <1>6, <1>11, <1>14, <1>16, <2>1, <3>3, ListExactNext
  <2>2. CASE v \notin encoder_input
    <3>1. ReadyAt(v)' = {t}
      BY <1>16, <2>2, ExactList DEF IInv, QueueBitsExact
    <3>2. List({t}, t, t, NextLink', PrevLink')
      BY ListNew
    <3> QED
      BY Zenon, <1>6, <1>11, <1>14, <2>2, <3>1, <3>2, ListExactNext
  <2> QED
    BY <2>1, <2>2
<1>18. ASSUME NEW r \in Priorities \ {v}
       PROVE  /\ \A x \in ReadyAt(r) \ {t} :
                    x \in Threads /\ (v \in encoder_input => x # l)
              /\ \A x \in ReadyAt(r) \ {t} : /\ thread'[x].next = thread[x].next
                                              /\ thread'[x].prev = thread[x].prev
  <2>1. \A x \in ReadyAt(r) : x \notin ReadyAt(v) /\ x \in Threads
    BY DEF ReadyAt
  <2>2. \A x \in ReadyAt(r) : v \in encoder_input => x # l
    BY <1>8, <2>1
  <2> QED
    BY <1>10, <2>1, <2>2
<1>19. ListExact(o)'
  <2>1. ReadyAt(o)' = ReadyAt(o) \ {t} /\ level'[o] = lv[o]
        /\ (o \in encoder_input' <=> o \in en)
    BY SMTT(30), <1>1, <1>6, <1>11, <1>16
  <2>2. CASE o \in en
    <3>1. List(ReadyAt(o) \ {t}, lv[o].head, lv[o].tail, NextLink, PrevLink)
      BY <1>3, <2>2
    <3>2. \A x \in ReadyAt(o) \ {t} : NextLink'[x] = NextLink[x]
                                     /\ PrevLink'[x] = PrevLink[x]
      BY <1>1, <1>18 DEF NextLink, PrevLink
    <3>3. List(ReadyAt(o) \ {t}, lv[o].head, lv[o].tail, NextLink', PrevLink')
      BY SMTT(30), <3>1, <3>2, ListFrame
    <3> QED
      BY ZenonT(30), <1>14, <2>1, <2>2, <3>3, ListExactNext
  <2>3. CASE o \notin en
    <3>1. ReadyAt(o)' = {}
      BY SMTT(30), <1>3, <2>1, <2>3
    <3> QED
      BY SMTT(30), <1>14, <2>1, <2>3, <3>1, ListExactNext
  <2> QED
    BY <2>2, <2>3
<1>20. ASSUME NEW r \in Priorities \ {v, o} PROVE ListExact(r)' /\ Untouched(r)
  <2>1. ReadyAt(r)' = ReadyAt(r) /\ level'[r] = level[r]
        /\ (r \in encoder_input' <=> r \in encoder_input)
    <3>1. r \in Priorities \ {v} /\ r \in Priorities \ {o} /\ r # v
      OBVIOUS
    <3>2. ReadyAt(r)' = ReadyAt(r) \ {t} /\ t \notin ReadyAt(r)
      BY SMTT(30), <1>7, <1>16, <3>1
    <3>3. level'[r] = level[r]
      BY <1>3, <1>11, <3>1
    <3>4. r \in encoder_input' <=> r \in encoder_input
      <4>1. encoder_input' = en \cup {v}
        BY <1>6
      <4>2. r \in en <=> r \in encoder_input
        BY <1>3, <3>1
      <4> QED
        BY <3>1, <4>1, <4>2
    <3> QED
      BY <3>2, <3>3, <3>4
  <2>2. \A x \in ReadyAt(r) : /\ thread'[x].next = thread[x].next
                              /\ thread'[x].prev = thread[x].prev
    BY <1>7, <1>18
  <2>3. ListExact(r)
    BY DEF IInv, QueueBitsExact
  <2>4. ListExact(r)'
    BY SMTT(30), <1>14, <2>1, <2>2, <2>3, ListExactKept DEF IInv
  <2>5. \A x \in ReadyAt(r) : x \in Threads
    BY DEF ReadyAt
  <2>6. Untouched(r)
    BY <2>1, <2>2, <2>5 DEF Untouched, NextLink
  <2> QED
    BY <2>4, <2>6
<1>21. Joins(t, v)
  <2>1. t \notin ReadyAt(v)
    BY <1>1, <1>7
  <2>2. CASE v \in encoder_input
    <3>1. \A x \in ReadyAt(v) : x \in Threads
      BY DEF ReadyAt
    <3>2. Links(ReadyAt(v), l, t, NextLink, NextLink')
      BY <1>10, <2>2, <3>1 DEF NextLink, Links
    <3> QED
      BY <1>4, <1>11, <1>16, <2>1, <2>2, <3>2, Zenon DEF Joins
  <2>3. CASE v \notin encoder_input
    BY <1>11, <1>16, <2>1, <2>3, Zenon DEF Joins
  <2> QED
    BY <2>2, <2>3
<1>22. Leaves(t, o)
  <2>1. o \in Priorities \ {v}
    BY <1>1
  <2>2. ReadyAt(o)' = ReadyAt(o) \ {t} /\ level'[o] = lv[o]
    BY <1>11, <1>16, <2>1, Zenon
  <2>3. \A x \in ReadyAt(o) \ {t} : NextLink'[x] = NextLink[x]
    BY <1>18, <2>1 DEF NextLink
  <2> QED
    BY <1>3, <1>7, <2>2, <2>3, Zenon DEF Leaves, IsCut
<1>23. NewPriority(t, v)
  BY <1>10, Zenon DEF NewPriority
<1>24. IInv'
  BY <1>14, <1>15, <1>17, <1>19, <1>20 DEF IInv, QueueBitsExact
<1> QED
  BY <1>1, <1>20, <1>21, <1>22, <1>23, <1>24, Zenon

(* A thread that is in no list gets a priority.                             *)
LEMMA SetUnqueuedKeeps ==
    ASSUME IInv, NEW t \in Threads, ~ thread[t].queued, NEW v \in Priorities,
           thread' = [thread EXCEPT ![t].priority = v],
           UNCHANGED <<level, encoder_input, encoder_output>>, ChooseNext,
           param' \in [Threads -> {SW} \cup HWParams],
           UNCHANGED <<idle, hw_start, current>>
    PROVE  /\ IInv' /\ NewPriority(t, v)
           /\ \A p \in Priorities : Untouched(p)
<1>1. /\ thread' \in [Threads -> [queued : BOOLEAN, priority : Priorities,
                                  next : Threads, prev : Threads]]
      /\ \A x \in Threads :
            /\ thread'[x].queued = thread[x].queued
            /\ x # t => thread'[x].priority = thread[x].priority
            /\ thread'[x].prev = thread[x].prev
            /\ thread'[x].next = thread[x].next
      /\ thread'[t].priority = v
  BY PriorityFields, Zenon
<1>2. TypeOK'
  <2>1. next_thread_id' \in Threads /\ Next_Thread_Valid' = Next_Thread_Valid
    BY DEF IInv, TypeOK, ChooseNext, BestHead
  <2> QED
    BY Zenon, <1>1, <2>1 DEF IInv, TypeOK, idle
<1>3. NextIsBest'
  BY DEF IInv, NextIsBest, ChooseNext, BestHead
<1>4. ASSUME NEW p \in Priorities PROVE ListExact(p)' /\ Untouched(p)
  <2>1. \A x \in Threads : thread[x].queued /\ thread[x].priority = p
                       <=> thread'[x].queued /\ thread'[x].priority = p
    <3>1. ASSUME NEW x \in Threads
          PROVE  thread[x].queued /\ thread[x].priority = p
                   <=> thread'[x].queued /\ thread'[x].priority = p
      BY <1>1, Zenon
    <3> QED
      BY <3>1, Zenon
  <2>2. ReadyAt(p)' = ReadyAt(p)
    BY <2>1 DEF ReadyAt
  <2>3. \A x \in ReadyAt(p) : /\ thread'[x].next = thread[x].next
                              /\ thread'[x].prev = thread[x].prev
    BY <1>1 DEF ReadyAt
  <2>4. ListExact(p)
    BY DEF IInv, QueueBitsExact
  <2>5. ListExact(p)'
    BY <1>2, <2>2, <2>3, <2>4, ListExactKept DEF IInv
  <2>6. \A x \in ReadyAt(p) : x \in Threads
    BY DEF ReadyAt
  <2>7. Untouched(p)
    BY <2>2, <2>3, <2>6 DEF Untouched, NextLink
  <2> QED
    BY <2>5, <2>7
<1>5. NewPriority(t, v)
  BY <1>1, Zenon DEF NewPriority
<1> QED
  BY <1>2, <1>3, <1>4, <1>5 DEF IInv, QueueBitsExact

(* SET_SCHED_PARAM of a software thread, and what it does to the lists.      *)
Applied(t, v) ==
    /\ NewPriority(t, v)
    /\ IF thread[t].queued
       THEN /\ v # thread[t].priority
            /\ Leaves(t, thread[t].priority) /\ Joins(t, v)
            /\ \A r \in Priorities \ {v, thread[t].priority} : Untouched(r)
       ELSE \A r \in Priorities : Untouched(r)

LEMMA SetParamKeeps ==
    ASSUME IInv, NEW t \in Threads, NEW v \in Priorities \cup HWParams,
           NEW allowed \in BOOLEAN, SafeToMove(t, v), SetParam(t, v, allowed)
    PROVE  IInv' /\ (Software(v) /\ allowed => Applied(t, v))
<1>1. param' \in [Threads -> {SW} \cup HWParams]
  <2>1. param' = [param EXCEPT ![t] = IF Software(v) THEN SW ELSE v]
    BY DEF SetParam, SET_SCHED_PARAM
  <2>2. (IF Software(v) THEN SW ELSE v) \in {SW} \cup HWParams
    BY DEF Software
  <2> QED
    BY <2>1, <2>2 DEF IInv, TypeOK
<1>2. UNCHANGED <<idle, hw_start, current>>
  BY DEF SetParam, SET_SCHED_PARAM
<1>3. CASE ~ (Software(v) /\ allowed)
  <2>1. UNCHANGED <<thread, level, encoder_input, encoder_output, decision>>
    BY <1>3, Zenon DEF SetParam, SET_SCHED_PARAM
  <2>2. TypeOK' /\ NextIsBest'
    BY <1>1, <1>2, <2>1 DEF IInv, TypeOK, NextIsBest, decision, idle
  <2> QED
    BY <1>3, <2>1, <2>2, QueueKept
<1>4. CASE Software(v) /\ allowed
  <2>1. SetPriority(t, v) /\ ChooseNext /\ v \in Priorities
    BY <1>4, Zenon DEF SetParam, SET_SCHED_PARAM, Software
  <2>2. CASE thread[t].queued
    <3>1. MoveTo(t, v) /\ AtAnEnd(t) /\ v # thread[t].priority
      BY <2>1, <2>2, Zenon DEF SetPriority, SafeToMove
    <3>2. /\ IInv' /\ NewPriority(t, v)
          /\ Leaves(t, thread[t].priority) /\ Joins(t, v)
          /\ \A r \in Priorities \ {v, thread[t].priority} : Untouched(r)
      BY <1>1, <1>2, <2>1, <2>2, <3>1, MoveToKeeps
    <3> QED
      BY <2>2, <3>1, <3>2, Zenon DEF Applied
  <2>3. CASE ~ thread[t].queued
    <3>1. /\ thread' = [thread EXCEPT ![t].priority = v]
          /\ UNCHANGED <<level, encoder_input, encoder_output>>
      BY <2>1, <2>3, Zenon DEF SetPriority
    <3>2. IInv' /\ NewPriority(t, v) /\ \A r \in Priorities : Untouched(r)
      BY Zenon, <1>1, <1>2, <2>1, <2>3, <3>1, SetUnqueuedKeeps
    <3> QED
      BY <2>3, <3>2, Zenon DEF Applied
  <2> QED
    BY <2>2, <2>3
<1> QED
  BY <1>3, <1>4

LEMMA EnqueueKeeps ==
    ASSUME IInv, NEW t \in Threads, Enqueue(t)
    PROVE  IInv'
<1>1. ~ thread[t].queued /\ UNCHANGED <<idle, current>>
  BY DEF Enqueue, ENQ
<1>2. CASE param[t] = SW
  BY <1>1, <1>2, EnqSoftwareKeeps DEF Enqueue, ENQ
<1>3. CASE param[t] # SW
  <2>1. ENQ_hardware(t)
    BY <1>3 DEF Enqueue, ENQ
  <2>2. hw_start' \in {{b} : b \in HWParams}
    BY <1>3, <2>1 DEF IInv, TypeOK, ENQ_hardware
  <2>3. TypeOK' /\ NextIsBest'
    BY <1>1, <2>1, <2>2
       DEF ENQ_hardware, IInv, TypeOK, NextIsBest, queue, decision, idle
  <2> QED
    BY <2>1, <2>3, QueueKept DEF ENQ_hardware, queue
<1> QED
  BY <1>2, <1>3

LEMMA SetIdleKeeps ==
    ASSUME IInv, SetIdle
    PROVE  IInv'
<1>1. UNCHANGED queue /\ UNCHANGED <<hw_start, current>>
  BY DEF SetIdle, SET_IDLE_THREAD
<1>2. /\ idle_thread_id' = IdleThread /\ idle_thread_valid' = TRUE
      /\ Next_Thread_Valid' = TRUE
      /\ next_thread_id' = IF Next_Thread_Valid THEN next_thread_id ELSE IdleThread
  BY DEF SetIdle, SET_IDLE_THREAD
<1>3. IdleThread \in Threads
  BY SchedulerAssumption DEF Threads
<1>4. TypeOK' /\ NextIsBest'
  BY <1>1, <1>2, <1>3 DEF IInv, TypeOK, NextIsBest, queue
<1> QED
  BY <1>1, <1>4, QueueKept DEF queue

LEMMA FinishedKeeps ==
    ASSUME IInv, ENQ_start_hw_thread_finished
    PROVE  IInv'
<1>1. TypeOK' /\ NextIsBest'
  BY DEF ENQ_start_hw_thread_finished, IInv, TypeOK, NextIsBest, queue,
         decision, idle
<1> QED
  BY <1>1, QueueKept DEF ENQ_start_hw_thread_finished, queue

LEMMA NextIInv == IInv /\ [Next]_vars => IInv'
<1> SUFFICES ASSUME IInv, [Next]_vars PROVE IInv'
  OBVIOUS
<1>1. CASE Other
  BY <1>1, EnqueueKeeps, SetIdleKeeps, DispatchKeeps, FinishedKeeps DEF Other
<1>2. CASE \E t \in Threads, v \in Priorities \cup HWParams, a \in BOOLEAN :
              SafeToMove(t, v) /\ SetParam(t, v, a)
  BY <1>2, SetParamKeeps, Zenon
<1>3. CASE UNCHANGED vars
  <2>1. TypeOK' /\ NextIsBest'
    BY <1>3 DEF vars, IInv, TypeOK, NextIsBest, queue, decision, idle
  <2> QED
    BY <1>3, <2>1, QueueKept DEF vars, queue
<1> QED
  BY <1>1, <1>2, <1>3 DEF Next

LEMMA AlwaysIInv == Spec => []IInv
  BY InitIInv, NextIInv, PTL DEF Spec

(* However ENQUEUE, DEQUEUE and SET_SCHED_PARAM follow one another, for any  *)
(* number of threads and of priorities, the queue bits agree with the lists *)
(* of PRIORITY_DATA and THREAD_DATA.                                        *)
THEOREM QueueAgrees == Spec => []QueueBitsExact
<1>1. IInv => QueueBitsExact
  BY DEF IInv
<1> QED
  BY <1>1, AlwaysIInv, PTL

(* The decision register always holds the first thread of the best priority *)
(* that is ready, although only DEQUEUE, ENQUEUE and SET_SCHED_PARAM set it. *)
THEOREM BestRunsNext == Spec => []NextIsBest
<1>1. IInv => NextIsBest
  BY DEF IInv
<1> QED
  BY <1>1, AlwaysIInv, PTL

-----------------------------------------------------------------------------
(* The list of priority p as a FIFO: its elements are the threads of that    *)
(* priority that are queued, the first is the head.                         *)
LEMMA QueueChain ==
    ASSUME IInv, NEW p \in Priorities
    PROVE  \E n \in Nat :
              /\ Chain(0 .. NumIDs - 1, ReadyAt(p), n, level[p].head,
                       level[p].tail, NextLink)
              /\ p \in encoder_input <=> n > 0
<1>1. CASE p \in encoder_input
  <2>1. List(ReadyAt(p), level[p].head, level[p].tail, NextLink, PrevLink)
    BY <1>1, ExactList DEF IInv, QueueBitsExact
  <2>2. PICK n \in 1 .. NumIDs : Chain(Threads, ReadyAt(p), n, level[p].head,
                                       level[p].tail, NextLink)
    BY <2>1 DEF List
  <2>3. n \in Nat /\ n > 0
    BY SchedulerAssumption
  <2> QED
    BY <1>1, <2>2, <2>3 DEF Threads
<1>2. CASE p \notin encoder_input
  <2>1. ReadyAt(p) = {}
    BY <1>2, ExactList DEF IInv, QueueBitsExact
  <2>2. Chain(0 .. NumIDs - 1, {}, 0, level[p].head, level[p].tail, NextLink)
    BY ChainEmpty
  <2>3. 0 \in Nat /\ ~ (0 > 0)
    OBVIOUS
  <2> QED
    BY <1>2, <2>1, <2>2, <2>3
<1> QED
  BY <1>1, <1>2

Once(q) == \A i, j \in 1 .. Len(q) : q[i] = q[j] => i = j

LEMMA QueueIs ==
    ASSUME IInv, NEW p \in Priorities
    PROVE  /\ \E n \in Nat : Queue(p) \in [1 .. n -> Threads] /\ Len(Queue(p)) = n
           /\ Once(Queue(p))
           /\ Queue(p) = <<>> <=> p \notin encoder_input
           /\ p \in encoder_input => Head(Queue(p)) = level[p].head
           /\ \A t : RQ!In(t, Queue(p)) <=> t \in ReadyAt(p)
<1> DEFINE q == Queue(p)
           S == ReadyAt(p)
<1>1. PICK n \in Nat :
              /\ Chain(0 .. NumIDs - 1, S, n, level[p].head,
                       level[p].tail, NextLink)
              /\ p \in encoder_input <=> n > 0
  BY QueueChain
<1>2. NumIDs \in Nat /\ S \subseteq Threads
  BY SchedulerAssumption DEF ReadyAt
<1>3. q \in [1 .. n -> S] /\ Lists(q, S, n, level[p].head, level[p].tail, NextLink)
  BY Zenon, <1>1, <1>2, SeqChain DEF Queue
<1> HIDE DEF q, S
<1>4. /\ n > 0 => q[1] = level[p].head
      /\ \A i, j \in 1 .. n : q[i] = q[j] => i = j
      /\ S = {q[i] : i \in 1 .. n}
  BY <1>3 DEF Lists, Follows
<1>5. q \in [1 .. n -> Threads]
  BY <1>2, <1>3
<1>6. Len(q) = n /\ q \in Seq(S)
  BY <1>3
<1>7. q = <<>> <=> ~ (n > 0)
  BY <1>3, <1>6
<1>8. n > 0 => Head(q) = q[1]
  BY <1>6, <1>7
<1>9. \A t : RQ!In(t, q) <=> t \in S
  BY <1>4, <1>6 DEF RQ!In
<1>10. Once(q)
  BY <1>4, <1>6 DEF Once
<1> QED
  BY <1>1, <1>4, <1>5, <1>6, <1>7, <1>8, <1>9, <1>10 DEF q, S

(* A list that a step leaves alone is the same FIFO after it.               *)
LEMMA QueueStays ==
    ASSUME IInv, NEW p \in Priorities, Untouched(p)
    PROVE  Queue(p)' = Queue(p)
<1>1. NumIDs \in Nat
  BY SchedulerAssumption
<1>2. CASE ReadyAt(p) = {}
  BY <1>1, <1>2, SeqEmpty DEF Queue, Untouched
<1>3. CASE ReadyAt(p) # {}
  <2>1. PICK n \in Nat : Chain(0 .. NumIDs - 1, ReadyAt(p), n, level[p].head,
                               level[p].tail, NextLink)
    BY QueueChain
  <2>2. \A x \in ReadyAt(p) : x # level[p].tail => NextLink'[x] = NextLink[x]
    BY DEF Untouched
  <2>3. ListOf(NumIDs, ReadyAt(p), level[p].head, level[p].tail, NextLink')
          = ListOf(NumIDs, ReadyAt(p), level[p].head, level[p].tail, NextLink)
    BY <1>1, <2>1, <2>2, SeqFrame
  <2>4. ReadyAt(p)' = ReadyAt(p) /\ level'[p] = level[p]
    BY <1>3 DEF Untouched
  <2> QED
    BY <2>3, <2>4, Zenon DEF Queue
<1> QED
  BY <1>2, <1>3

(* A thread that joins it is the last of the FIFO.                          *)
LEMMA QueueGrows ==
    ASSUME IInv, NEW p \in Priorities, NEW t \in Threads, Joins(t, p)
    PROVE  Queue(p)' = Append(Queue(p), t)
<1>1. NumIDs \in Nat /\ t \in 0 .. NumIDs - 1
  BY SchedulerAssumption DEF Threads
<1>2. PICK n \in Nat :
              /\ Chain(0 .. NumIDs - 1, ReadyAt(p), n, level[p].head,
                       level[p].tail, NextLink)
              /\ p \in encoder_input <=> n > 0
  BY QueueChain
<1>3. CASE p \in encoder_input
  <2>1. n \in Nat \ {0}
    BY <1>2, <1>3
  <2>2. t \notin ReadyAt(p) /\ Links(ReadyAt(p), level[p].tail, t, NextLink, NextLink')
    BY <1>3, Zenon DEF Joins
  <2>3. IsAppend(ListOf(NumIDs, ReadyAt(p) \cup {t}, level[p].head, t, NextLink'),
                 ListOf(NumIDs, ReadyAt(p), level[p].head, level[p].tail, NextLink), t)
    BY <1>1, <1>2, <2>1, <2>2, SeqAppend
  <2>4. ReadyAt(p)' = ReadyAt(p) \cup {t} /\ level'[p].head = level[p].head
        /\ level'[p].tail = t
    BY <1>3, Zenon DEF Joins
  <2> QED
    BY <2>3, <2>4, Zenon DEF Queue, IsAppend
<1>4. CASE p \notin encoder_input
  <2>1. ReadyAt(p) = {}
    BY <1>4, ExactList DEF IInv, QueueBitsExact
  <2>2. Queue(p) = <<>>
    BY <1>4, QueueIs
  <2>3. ReadyAt(p)' = {t} /\ level'[p].head = t /\ level'[p].tail = t
    BY <1>4, <2>1 DEF Joins
  <2>4. Queue(p)' = <<t>>
    BY <1>1, <2>3, SeqOne DEF Queue
  <2>5. Append(<<>>, t) = <<t>>
    OBVIOUS
  <2> QED
    BY <2>2, <2>4, <2>5, Zenon
<1> QED
  BY <1>3, <1>4

(* A FIFO without its first or its last element, or an element of another.   *)
LEMMA WithoutFirst ==
    ASSUME NEW n \in Nat, NEW q \in [1 .. n -> Threads], Len(q) = n, Once(q),
           NEW r, NEW t, IsPopped(r, q, t)
    PROVE  r = RQ!Without(q, t)
<1>1. q # <<>> /\ Head(q) = t /\ r = Tail(q) /\ q \in Seq(Threads)
  BY DEF IsPopped
<1>2. n > 0 /\ q[1] = t
  BY <1>1
<1>3. 1 \in 1 .. n /\ RQ!In(t, q)
  BY <1>2 DEF RQ!In
<1> DEFINE i == CHOOSE j \in 1 .. Len(q) : q[j] = t
<1>4. i \in 1 .. n /\ q[i] = t
  BY <1>2, <1>3
<1>5. i = 1
  BY <1>2, <1>3, <1>4 DEF Once
<1>6. RQ!Without(q, t) =
        [j \in 1 .. Len(q) - 1 |-> IF j < i THEN q[j] ELSE q[j + 1]]
  BY <1>3, Zenon DEF RQ!Without
<1> HIDE DEF i
<1>7. r = [j \in 1 .. n - 1 |-> q[j + 1]]
  <2>1. Tail(q) \in Seq(Threads) /\ Len(Tail(q)) = n - 1
    BY <1>1, <1>2
  <2>2. \A j \in 1 .. n - 1 : Tail(q)[j] = q[j + 1]
    BY <1>1, <1>2
  <2>3. /\ r \in Seq(Threads) /\ Len(r) = n - 1
        /\ \A j \in 1 .. n - 1 : r[j] = q[j + 1]
    BY <1>1, <2>1, <2>2, Zenon
  <2>4. r \in [1 .. n - 1 -> Threads]
    BY <2>3
  <2> QED
    BY <2>3, <2>4
<1>8. \A j \in 1 .. n - 1 : ~ (j < i)
  BY <1>5
<1> QED
  BY <1>6, <1>7, <1>8

LEMMA WithoutLast ==
    ASSUME NEW n \in Nat, NEW q \in [1 .. n -> Threads], Len(q) = n, Once(q),
           NEW r, NEW t, IsFront(r, q, t)
    PROVE  r = RQ!Without(q, t)
<1>1. PICK k \in Nat : n = k + 1 /\ q[n] = t /\ r = [j \in 1 .. k |-> q[j]]
  BY DEF IsFront, Front
<1>2. n \in 1 .. n /\ RQ!In(t, q)
  BY <1>1 DEF RQ!In
<1> DEFINE i == CHOOSE j \in 1 .. Len(q) : q[j] = t
<1>3. i \in 1 .. n /\ q[i] = t
  BY <1>1, <1>2
<1>4. i = n
  BY <1>1, <1>2, <1>3 DEF Once
<1>5. RQ!Without(q, t) =
        [j \in 1 .. Len(q) - 1 |-> IF j < i THEN q[j] ELSE q[j + 1]]
  BY <1>2, Zenon DEF RQ!Without
<1> HIDE DEF i
<1>6. n - 1 = k /\ \A j \in 1 .. k : j < i
  BY <1>1, <1>4
<1> QED
  BY <1>1, <1>5, <1>6

(* The FIFO of a list that a thread leaves from an end.                      *)
LEMMA QueueShrinks ==
    ASSUME IInv, NEW p \in Priorities, NEW t \in Threads, Leaves(t, p)
    PROVE  Queue(p)' = RQ!Without(Queue(p), t)
<1> DEFINE S == ReadyAt(p)
           h == level[p].head
           l == level[p].tail
           q == ListOf(NumIDs, S, h, l, NextLink)
<1>1. NumIDs \in Nat
  BY SchedulerAssumption
<1>2. t \in S /\ p \in encoder_input
  BY ExactList DEF IInv, QueueBitsExact, Leaves
<1>3. PICK n \in Nat \ {0} : Chain(0 .. NumIDs - 1, S, n, h, l, NextLink)
  <2>1. PICK n \in Nat :
              /\ Chain(0 .. NumIDs - 1, S, n, h, l, NextLink)
              /\ p \in encoder_input <=> n > 0
    BY QueueChain
  <2> QED
    BY <1>2, <2>1
<1>4. List(S, h, l, NextLink, PrevLink)
  BY <1>2, ExactList DEF IInv, QueueBitsExact
<1>5. S' = S \ {t} /\ \A x \in S \ {t} : NextLink'[x] = NextLink[x]
  BY Zenon DEF Leaves
<1>6. PICK k \in Nat : q \in [1 .. k -> Threads] /\ Len(q) = k
  BY QueueIs DEF Queue
<1>7. Once(q) /\ Queue(p) = q
  BY QueueIs DEF Queue
<1>8. CASE t = h /\ (h # l => level'[p].head = NextLink[t] /\ level'[p].tail = l)
  <2> DEFINE r == ListOf(NumIDs, S \ {t}, NextLink[t], l, NextLink)
  <2>1. IsPopped(r, q, t)
    BY Zenon, <1>1, <1>3, <1>8, SeqTail
  <2>2. Queue(p)' = r
    <3>1. CASE h = l
      <4>1. S \ {t} = {}
        BY <1>2, <1>4, <3>1, ListEnds
      <4> QED
        BY Zenon, <1>1, <1>5, <4>1, SeqEmpty DEF Queue
    <3>2. CASE h # l
      <4>1. List(S \ {t}, NextLink[t], l, NextLink, PrevLink)
        BY SMTT(30), <1>4, <1>8, <3>2, ListPop
      <4>2. PICK m \in 1 .. NumIDs :
                Chain(Threads, S \ {t}, m, NextLink[t], l, NextLink)
        BY <4>1 DEF List
      <4>3. m \in Nat /\ Chain(0 .. NumIDs - 1, S \ {t}, m, NextLink[t], l, NextLink)
        BY <1>1, <4>2 DEF Threads
      <4>4. ListOf(NumIDs, S \ {t}, NextLink[t], l, NextLink') = r
        BY <1>1, <1>5, <4>3, SeqFrame
      <4> QED
        BY <1>5, <1>8, <3>2, <4>4, Zenon DEF Queue
    <3> QED
      BY <3>1, <3>2
  <2> HIDE DEF q, r
  <2> QED
    BY <1>6, <1>7, <2>1, <2>2, WithoutFirst
<1>9. CASE t = l /\ h # l /\ level'[p].tail = PrevLink[t] /\ level'[p].head = h
  <2> DEFINE m == PrevLink[t]
             r == ListOf(NumIDs, S \ {t}, h, m, NextLink)
  <2>1. List(S \ {t}, h, m, NextLink, PrevLink) /\ m \in S \ {t} /\ NextLink[m] = t
    BY <1>4, <1>9, ListDrop
  <2>2. n > 1
    <3>1. PICK T : T = 0 .. NumIDs - 1
      OBVIOUS
    <3>2. Chain(T, S, n, h, l, NextLink)
      BY <1>3, <3>1, Zenon
    <3> HIDE DEF S, h, l
    <3>3. n # 1
      BY <1>9, <3>2, ChainEnds
    <3> QED
      BY <3>3
  <2> HIDE DEF m, S
  <2>3. IsFront(r, q, t)
    <3>1. m \in S /\ m # l /\ NextLink[m] = l
      BY <1>9, <2>1
    <3> QED
      BY <1>1, <1>3, <1>9, <2>2, <3>1, SeqFront
  <2>4. PICK i \in 1 .. NumIDs : Chain(Threads, S \ {t}, i, h, m, NextLink)
    BY <2>1 DEF List
  <2>5. i \in Nat /\ Chain(0 .. NumIDs - 1, S \ {t}, i, h, m, NextLink)
    BY <1>1, <2>4 DEF Threads
  <2>6. ListOf(NumIDs, S \ {t}, h, m, NextLink') = r
    BY <1>1, <1>5, <2>5, SeqFrame
  <2>7. Queue(p)' = r
    BY <1>5, <1>9, <2>6, Zenon DEF Queue, S, m
  <2> HIDE DEF q, r
  <2> QED
    BY <1>6, <1>7, <2>3, <2>7, WithoutLast
<1>10. h = l => t = h
  BY <1>2, <1>4, ListEnds
<1> QED
  BY <1>8, <1>9, <1>10, Zenon DEF Leaves

(* With no thread ready the decision is the idle thread, once there is one.   *)
IdleInv ==
    encoder_input = {} =>
        /\ Next_Thread_Valid <=> idle_thread_valid
        /\ idle_thread_valid => next_thread_id = idle_thread_id

RInv == IInv /\ IdleInv

LEMMA NextIdle == ASSUME RInv, [Next]_vars PROVE IdleInv'
<1>1. CASE \E t \in Threads : Enqueue(t)
  <2>1. PICK t \in Threads : Enqueue(t)
    BY <1>1
  <2>2. CASE param[t] = SW
    <3>1. encoder_input' = encoder_input \cup {thread[t].priority}
      BY <2>1, <2>2 DEF Enqueue, ENQ, ENQ_software
    <3> QED
      BY <3>1 DEF IdleInv
  <2>3. CASE param[t] # SW
    BY Zenon, <2>1, <2>3 DEF Enqueue, ENQ, ENQ_hardware, queue, decision, idle, RInv, IdleInv
  <2> QED
    BY <2>2, <2>3
<1>2. CASE SetIdle
  BY <1>2 DEF SetIdle, SET_IDLE_THREAD, queue, RInv, IdleInv
<1>3. CASE Dispatch
  BY <1>3 DEF Dispatch, DEQ, idle, IdleInv
<1>4. CASE ENQ_start_hw_thread_finished \/ UNCHANGED vars
  BY <1>4 DEF ENQ_start_hw_thread_finished, vars, queue, decision, idle, RInv, IdleInv
<1>5. CASE \E t \in Threads, v \in Priorities \cup HWParams, a \in BOOLEAN :
              SafeToMove(t, v) /\ SetParam(t, v, a)
  <2>1. PICK t \in Threads, v \in Priorities \cup HWParams, a \in BOOLEAN :
              SafeToMove(t, v) /\ SetParam(t, v, a)
    BY <1>5, Zenon
  <2>2. UNCHANGED <<idle_thread_id, idle_thread_valid>>
    BY <2>1 DEF SetParam, SET_SCHED_PARAM, idle
  <2>3. CASE ~ (Software(v) /\ a)
    <3>1. UNCHANGED <<encoder_input, next_thread_id, Next_Thread_Valid>>
      BY <2>1, <2>3, Zenon DEF SetParam, SET_SCHED_PARAM, decision
    <3> QED
      BY <2>2, <3>1 DEF RInv, IdleInv
  <2>4. CASE Software(v) /\ a
    <3>1. SetPriority(t, v) /\ ChooseNext
      BY <2>1, <2>4, Zenon DEF SetParam, SET_SCHED_PARAM
    <3>2. CASE thread[t].queued
      <4>1. v \in encoder_input'
        BY <3>1, <3>2, Zenon DEF SetPriority, MoveTo
      <4> QED
        BY <4>1 DEF IdleInv
    <3>3. CASE ~ thread[t].queued
      <4>1. encoder_input' = encoder_input
        BY <3>1, <3>3, Zenon DEF SetPriority
      <4> QED
        BY <2>2, <3>1, <4>1 DEF ChooseNext, RInv, IdleInv
    <3> QED
      BY <3>2, <3>3
  <2> QED
    BY <2>3, <2>4
<1> QED
  BY <1>1, <1>2, <1>3, <1>4, <1>5, Zenon DEF Next, Other

LEMMA AlwaysRInv == Spec => []RInv
<1>1. Init => RInv
  BY InitIInv DEF Init, RInv, IdleInv
<1>2. RInv /\ [Next]_vars => RInv'
  BY NextIInv, NextIdle DEF RInv
<1> QED
  BY <1>1, <1>2, PTL DEF Spec

(* The FIFOs, the priorities, the idle thread and the decision.             *)
FIFOs == [p \in Priorities |-> Queue(p)]
PriorityOf == [t \in Threads |-> thread[t].priority]
IdleOne == IF idle_thread_valid THEN idle_thread_id ELSE NoThread
NextOne == IF Next_Thread_Valid THEN next_thread_id ELSE NoThread

(* The decision registers hold the first thread of the best FIFO.           *)
IsChosen == NextOne = RQ!Choice(FIFOs, IdleOne)

LEMMA Chosen == RInv => IsChosen
<1> SUFFICES ASSUME RInv PROVE NextOne = RQ!Choice(FIFOs, IdleOne)
  BY DEF IsChosen
<1>1. IInv /\ encoder_input \subseteq Priorities
  BY DEF RInv, IInv, TypeOK
<1>2. \A p \in Priorities : /\ FIFOs[p] = Queue(p)
                            /\ FIFOs[p] = <<>> <=> p \notin encoder_input
                            /\ p \in encoder_input => Head(FIFOs[p]) = level[p].head
  BY <1>1, QueueIs DEF FIFOs
<1>3. CASE encoder_input = {}
  <2>1. \A p \in Priorities : FIFOs[p] = <<>>
    BY <1>2, <1>3
  <2>2. RQ!Choice(FIFOs, IdleOne) = IdleOne
    BY <2>1, Zenon DEF RQ!Choice
  <2>3. NextOne = IdleOne
    BY <1>3 DEF RInv, IdleInv, NextOne, IdleOne
  <2> QED
    BY <2>2, <2>3
<1>4. CASE encoder_input # {}
  <2> DEFINE e == encoder_output
             b == RQ!Best(FIFOs)
             IsBest(p) == /\ FIFOs[p] # <<>>
                          /\ \A r \in Priorities : FIFOs[r] # <<>> => p <= r
  <2>1. /\ Next_Thread_Valid /\ e \in encoder_input /\ e \in Priorities
        /\ \A p \in encoder_input : e <= p
        /\ next_thread_id = level[e].head
    BY <1>1, <1>4 DEF IInv, NextIsBest
  <2>2. IsBest(e)
    BY <1>2, <2>1
  <2>3. b \in Priorities /\ IsBest(b)
    BY <2>1, <2>2, Zenon DEF RQ!Best
  <2>4. b <= e /\ e <= b
    BY <1>2, <2>1, <2>3
  <2> HIDE DEF b
  <2>5. b = e
    BY <2>1, <2>3, <2>4 DEF Priorities
  <2>6. RQ!Choice(FIFOs, IdleOne) = Head(FIFOs[b])
    BY <2>1, <2>2, Zenon DEF RQ!Choice, b
  <2>7. Head(FIFOs[e]) = next_thread_id
    BY <1>2, <2>1, Zenon
  <2> QED
    BY <2>1, <2>5, <2>6, <2>7, Zenon DEF NextOne
<1> QED
  BY <1>3, <1>4

LEMMA ChosenNext ==
    ASSUME RInv' PROVE NextOne' = RQ!Choice(FIFOs', IdleOne')
<1>1. RInv' => IsChosen'
  BY Chosen, PTL
<1> QED
  BY <1>1, Zenon DEF IsChosen

(* A thread is in a FIFO if its queue bit is set.                            *)
LEMMA ReadyIsQueued ==
    ASSUME IInv, NEW t \in Threads
    PROVE  RQ!Ready(t) <=> thread[t].queued
<1>1. \A p \in Priorities : RQ!In(t, Queue(p)) <=> t \in ReadyAt(p)
  BY QueueIs
<1>2. thread[t].priority \in Priorities
  BY DEF IInv, TypeOK
<1>3. RQ!Ready(t) <=> \E p \in Priorities : RQ!In(t, Queue(p))
  BY DEF RQ!Ready
<1>4. thread[t].queued <=> \E p \in Priorities : t \in ReadyAt(p)
  BY <1>2 DEF ReadyAt
<1> QED
  BY <1>1, <1>3, <1>4, Zenon

LEMMA FIFOsAre ==
    /\ FIFOs' = [p \in Priorities |-> Queue(p)']
    /\ PriorityOf' = [t \in Threads |-> thread'[t].priority]
  BY DEF FIFOs, PriorityOf

(* ENQUEUE of a software thread is the Enqueue of the FIFOs.                 *)
LEMMA EnqueueMaps ==
    ASSUME RInv, RInv', NEW t \in Threads, Enqueue(t), param[t] = SW
    PROVE  RQ!Enqueue(t)
<1>1. ~ thread[t].queued /\ UNCHANGED <<idle, current>> /\ ENQ_software(t)
  BY DEF Enqueue, ENQ
<1>2. IInv /\ thread[t].priority \in Priorities
  BY DEF RInv, IInv, TypeOK
<1>3. PICK o \in Priorities : o = thread[t].priority
  BY <1>2
<1>4. /\ SamePriorities /\ Joins(t, o)
      /\ \A r \in Priorities \ {o} : Untouched(r)
  BY <1>1, <1>2, <1>3, EnqSoftwareKeeps
<1>5. PriorityOf' = PriorityOf
  BY <1>4, FIFOsAre DEF SamePriorities, PriorityOf
<1>6. FIFOs' = [FIFOs EXCEPT ![o] = Append(FIFOs[o], t)]
  <2>1. Queue(o)' = Append(Queue(o), t)
    BY <1>2, <1>4, QueueGrows
  <2>2. \A r \in Priorities \ {o} : Queue(r)' = Queue(r)
    BY <1>2, <1>4, QueueStays
  <2> QED
    BY Zenon, <2>1, <2>2, FIFOsAre DEF FIFOs
<1>7. PriorityOf[t] = o
  BY <1>3 DEF PriorityOf
<1>8. IdleOne' = IdleOne /\ current' = current
  BY <1>1 DEF idle, IdleOne
<1>9. ~ RQ!Ready(t)
  BY <1>1, <1>2, ReadyIsQueued
<1>10. NextOne' = RQ!Choice(FIFOs', IdleOne)
  BY <1>8, ChosenNext
<1>11. FIFOs' = [FIFOs EXCEPT ![PriorityOf[t]] = Append(@, t)]
  BY <1>6, <1>7
<1> QED
  BY <1>5, <1>8, <1>9, <1>10, <1>11, Zenon
     DEF RQ!Enqueue, FIFOs, PriorityOf, IdleOne, NextOne

(* NEXT_THREAD, with its DEQUEUE, is the Dispatch of the FIFOs.              *)
LEMMA DispatchMaps ==
    ASSUME RInv, RInv', Dispatch
    PROVE  RQ!Dispatch
<1>1. PICK t \in Threads : t = next_thread_id
  BY DEF RInv, IInv, TypeOK
<1>2. IInv /\ current' = t /\ UNCHANGED idle /\ NextOne = t
  BY <1>1 DEF RInv, Dispatch, DEQ, NextOne
<1>3. /\ SamePriorities
      /\ \A r \in Priorities : IF t \in ReadyAt(r) THEN Leaves(t, r) ELSE Untouched(r)
  BY <1>1, <1>2, DispatchKeeps
<1>4. PriorityOf' = PriorityOf
  BY <1>3, FIFOsAre DEF SamePriorities, PriorityOf
<1>5. ASSUME NEW r \in Priorities PROVE Queue(r)' = RQ!Without(Queue(r), t)
  <2>1. CASE t \in ReadyAt(r)
    BY <1>2, <1>3, <2>1, QueueShrinks
  <2>2. CASE t \notin ReadyAt(r)
    <3>1. Queue(r)' = Queue(r)
      BY <1>2, <1>3, <2>2, QueueStays
    <3>2. ~ RQ!In(t, Queue(r))
      BY <1>2, <2>2, QueueIs
    <3> QED
      BY <3>1, <3>2, Zenon DEF RQ!Without
  <2> QED
    BY <2>1, <2>2
<1>6. FIFOs' = [r \in Priorities |-> RQ!Without(FIFOs[r], NextOne)]
  <2>1. \A r \in Priorities : FIFOs[r] = Queue(r)
    BY DEF FIFOs
  <2> QED
    BY <1>2, <1>5, <2>1, FIFOsAre
<1>7. IdleOne' = IdleOne
  BY <1>2 DEF idle, IdleOne
<1>8. NextOne # NoThread
  BY <1>2, CoreAssumption, SchedulerAssumption DEF Threads
<1>9. NextOne' = RQ!Choice(FIFOs', IdleOne)
  BY <1>7, ChosenNext
<1> QED
  BY <1>2, <1>4, <1>6, <1>7, <1>8, <1>9, Zenon
     DEF RQ!Dispatch, FIFOs, PriorityOf, IdleOne, NextOne

(* SET_SCHED_PARAM of a software thread is the SetPriority of the FIFOs.     *)
LEMMA SetParamMaps ==
    ASSUME RInv, RInv', NEW t \in Threads, NEW v \in Priorities,
           SafeToMove(t, v), SetParam(t, v, TRUE)
    PROVE  RQ!SetPriority(t, v)
<1>1. IInv /\ UNCHANGED <<idle, current>> /\ Software(v)
  BY DEF RInv, SetParam, SET_SCHED_PARAM, Software
<1>2. Applied(t, v)
  BY Zenon, <1>1, SetParamKeeps
<1>3. PICK o \in Priorities : o = thread[t].priority
  BY <1>1 DEF IInv, TypeOK
<1>4. PriorityOf[t] = o
  BY <1>3 DEF PriorityOf
<1>5. PriorityOf' = [PriorityOf EXCEPT ![t] = v]
  <2>1. /\ thread'[t].priority = v
        /\ \A x \in Threads \ {t} : thread'[x].priority = thread[x].priority
    BY <1>2, Zenon DEF Applied, NewPriority
  <2> QED
    BY Zenon, <2>1, FIFOsAre DEF PriorityOf
<1>6. RQ!Ready(t) <=> thread[t].queued
  BY <1>1, ReadyIsQueued
<1>7. RQ!Ready(t) => v # PriorityOf[t]
  BY <1>2, <1>3, <1>4, <1>6, Zenon DEF Applied
<1> DEFINE left == [FIFOs EXCEPT ![PriorityOf[t]] = RQ!Without(@, t)]
<1>8. FIFOs' = IF RQ!Ready(t) THEN [left EXCEPT ![v] = Append(@, t)] ELSE FIFOs
  <2>1. CASE thread[t].queued
    <3>1. Leaves(t, o) /\ Joins(t, v) /\ v # o
          /\ \A r \in Priorities \ {v, o} : Untouched(r)
      BY <1>2, <1>3, <2>1, Zenon DEF Applied
    <3>2. Queue(o)' = RQ!Without(Queue(o), t)
      BY <1>1, <3>1, QueueShrinks
    <3>3. Queue(v)' = Append(Queue(v), t)
      BY <1>1, <3>1, QueueGrows
    <3>4. \A r \in Priorities \ {v, o} : Queue(r)' = Queue(r)
      BY <1>1, <3>1, QueueStays
    <3>5. FIFOs' = [[FIFOs EXCEPT ![o] = RQ!Without(@, t)]
                       EXCEPT ![v] = Append(@, t)]
      BY Zenon, <3>1, <3>2, <3>3, <3>4, FIFOsAre DEF FIFOs
    <3> QED
      BY <1>4, <1>6, <2>1, <3>5, Zenon
  <2>2. CASE ~ thread[t].queued
    <3>1. \A r \in Priorities : Queue(r)' = Queue(r)
      BY <1>1, <1>2, <2>2, QueueStays DEF Applied
    <3>2. FIFOs' = FIFOs
      BY <3>1, FIFOsAre DEF FIFOs
    <3> QED
      BY <1>6, <2>2, <3>2, Zenon
  <2> QED
    BY Zenon, <2>1, <2>2
<1>9. IdleOne' = IdleOne /\ current' = current
  BY <1>1 DEF idle, IdleOne
<1>10. NextOne' = RQ!Choice(FIFOs', IdleOne)
  BY <1>9, ChosenNext
<1> QED
  BY <1>5, <1>7, <1>8, <1>9, <1>10, Zenon
     DEF RQ!SetPriority, FIFOs, PriorityOf, IdleOne, NextOne

LEMMA SameLists ==
    ASSUME UNCHANGED <<thread, level>>
    PROVE  FIFOs' = FIFOs /\ PriorityOf' = PriorityOf
<1>1. \A p \in Priorities : Queue(p)' = Queue(p)
  BY DEF Queue, ReadyAt, NextLink
<1> QED
  BY <1>1, FIFOsAre DEF FIFOs, PriorityOf

LEMMA SetIdleMaps ==
    ASSUME RInv, RInv', SetIdle
    PROVE  RQ!SetIdle(IdleThread)
<1>1. /\ UNCHANGED queue /\ current' = current
      /\ ~ idle_thread_valid /\ idle_thread_valid' /\ idle_thread_id' = IdleThread
      /\ ~ thread[IdleThread].queued
  BY DEF SetIdle, SET_IDLE_THREAD, MayBeIdle
<1>2. IdleThread \in Threads /\ IInv
  BY SchedulerAssumption DEF Threads, RInv
<1>3. FIFOs' = FIFOs /\ PriorityOf' = PriorityOf
  BY <1>1, SameLists DEF queue
<1>4. IdleOne = NoThread /\ IdleOne' = IdleThread
  BY <1>1 DEF IdleOne
<1>5. ~ RQ!Ready(IdleThread)
  BY <1>1, <1>2, ReadyIsQueued
<1>6. NextOne' = RQ!Choice(FIFOs, IdleThread)
  BY <1>3, <1>4, ChosenNext
<1> QED
  BY <1>1, <1>3, <1>4, <1>5, <1>6, Zenon
     DEF RQ!SetIdle, FIFOs, PriorityOf, IdleOne, NextOne

(* Nothing that the FIFOs show changes.                                      *)
LEMMA Unseen ==
    ASSUME UNCHANGED <<thread, level, decision, idle, current>>
    PROVE  UNCHANGED RQ!vars
<1>1. FIFOs' = FIFOs /\ PriorityOf' = PriorityOf
  BY SameLists
<1>2. IdleOne' = IdleOne /\ NextOne' = NextOne /\ current' = current
  BY DEF decision, idle, IdleOne, NextOne
<1> QED
  BY <1>1, <1>2, Zenon DEF RQ!vars, FIFOs, PriorityOf, IdleOne, NextOne

LEMMA InitMaps == Init => RQ!Init
<1> SUFFICES ASSUME Init PROVE RQ!Init
  OBVIOUS
<1>1. \A p \in Priorities : ReadyAt(p) = {}
  BY DEF Init, ReadyAt
<1>2. NumIDs \in Nat
  BY SchedulerAssumption
<1>3. \A p \in Priorities : Queue(p) = <<>>
  BY SMTT(30), <1>1, <1>2, SeqEmpty DEF Queue
<1>4. PriorityOf = [t \in Threads |-> DefaultPri]
  BY DEF Init, PriorityOf
<1>5. FIFOs = [p \in Priorities |-> <<>>]
  BY <1>3 DEF FIFOs
<1>6. IdleOne = NoThread /\ NextOne = NoThread /\ current = 0
  BY DEF Init, IdleOne, NextOne
<1> QED
  BY <1>4, <1>5, <1>6, Zenon DEF RQ!Init, FIFOs, PriorityOf, IdleOne, NextOne

LEMMA NextMaps ==
    ASSUME RInv, RInv', [Next]_vars
    PROVE  [RQ!Next]_(RQ!vars)
<1>1. CASE \E t \in Threads : Enqueue(t)
  <2>1. PICK t \in Threads : Enqueue(t)
    BY <1>1
  <2>2. CASE param[t] = SW
    BY <2>1, <2>2, EnqueueMaps, Zenon DEF RQ!Next
  <2>3. CASE param[t] # SW
    BY <2>1, <2>3, Unseen DEF Enqueue, ENQ, ENQ_hardware, queue
  <2> QED
    BY <2>2, <2>3
<1>2. CASE SetIdle
  <2>1. IdleThread \in Threads
    BY SchedulerAssumption DEF Threads
  <2> QED
    BY <1>2, <2>1, SetIdleMaps, Zenon DEF RQ!Next
<1>3. CASE Dispatch
  BY <1>3, DispatchMaps, Zenon DEF RQ!Next
<1>4. CASE ENQ_start_hw_thread_finished \/ UNCHANGED vars
  BY <1>4, Unseen DEF ENQ_start_hw_thread_finished, vars, queue
<1>5. CASE \E t \in Threads, v \in Priorities \cup HWParams, a \in BOOLEAN :
              SafeToMove(t, v) /\ SetParam(t, v, a)
  <2>1. PICK t \in Threads, v \in Priorities \cup HWParams, a \in BOOLEAN :
              SafeToMove(t, v) /\ SetParam(t, v, a)
    BY <1>5, Zenon
  <2>2. CASE ~ (Software(v) /\ a)
    <3>1. UNCHANGED <<thread, level, decision, idle, current>>
      BY <2>1, <2>2, Zenon DEF SetParam, SET_SCHED_PARAM
    <3> QED
      BY <3>1, Unseen
  <2>3. CASE Software(v) /\ a
    <3>1. v \in Priorities /\ SetParam(t, v, TRUE)
      BY Zenon, <2>1, <2>3 DEF Software
    <3> QED
      BY <2>1, <3>1, SetParamMaps, Zenon DEF RQ!Next
  <2> QED
    BY <2>2, <2>3
<1> QED
  BY <1>1, <1>2, <1>3, <1>4, <1>5, Zenon DEF Next, Other

(* For any number of threads and of priorities, the lists that the core       *)
(* mends in its BRAMs, its encoder and its decision registers are one FIFO    *)
(* per priority: ENQUEUE appends, NEXT_THREAD takes the thread that has       *)
(* waited longest at the best priority, SET_SCHED_PARAM moves a thread to    *)
(* the end of another FIFO, and the decision is made again with each.        *)
THEOREM CoreImplementsReadyQueue == CoreSpec => ImplementsReadyQueue
<1>1. CoreInit => Init
  BY DEF CoreInit
<1>2. [CoreNext]_<<vars, locking, lockVars>> => [Next]_vars
  BY DEF CoreNext
<1>3. CoreSpec => Spec
  BY <1>1, <1>2, PTL DEF CoreSpec, Spec
<1>4. RInv /\ RInv' /\ [Next]_vars => [RQ!Next]_(RQ!vars)
  BY NextMaps
<1> QED
  BY <1>3, <1>4, InitMaps, AlwaysRInv, PTL DEF Spec, ImplementsReadyQueue, RQ!Spec

-----------------------------------------------------------------------------
(* The malloc lock, the other half of the core: the registers of the lock   *)
(* have their ranges, and say who is inside.                                *)
LockInv ==
    /\ malloc_mutex \in {0, 1}
    /\ malloc_mutex_holder \in Lock!Threads
    /\ lock_count \in 0 .. CountSize - 1
    /\ inside \in [Lock!Threads -> Nat]
    /\ Lock!HolderInside

(* Init establishes the invariant.                                          *)
LEMMA InitLockInv == ASSUME Lock!LockAssumption, Lock!Init PROVE LockInv
  BY DEF Lock!LockAssumption, Lock!Init, LockInv, Lock!HolderInside,
         Lock!Threads, Lock!NoHolder

(* An answered __malloc_lock keeps it: the count has room for one more.     *)
LEMMA LockKeeps ==
    ASSUME Lock!LockAssumption, LockInv,
           NEW t \in Lock!Threads, Lock!__malloc_lock(t)
    PROVE  LockInv'
<1> USE DEF Lock!LockAssumption, LockInv, Lock!HolderInside, Lock!Threads
<1>1. inside[t] < CountSize - 1
  BY DEF Lock!__malloc_lock
<1>2. CASE malloc_mutex = 0
  <2>1. lock_count = 0 /\ \A u \in Lock!Threads : inside[u] = 0
    BY <1>2
  <2>2. /\ malloc_mutex' = 1 /\ malloc_mutex_holder' = t
        /\ lock_count' = 1
        /\ inside' = [inside EXCEPT ![t] = @ + 1]
    BY <1>2, <2>1 DEF Lock!__malloc_lock, Lock!ACQUIRE, Lock!Counted
  <2> QED
    BY <2>1, <2>2
<1>3. CASE malloc_mutex = 1 /\ malloc_mutex_holder = t
  <2>1. inside[t] = lock_count /\ lock_count + 1 < CountSize
    BY <1>1, <1>3
  <2>2. /\ malloc_mutex' = 1 /\ malloc_mutex_holder' = t
        /\ lock_count' = (lock_count + 1) % CountSize
        /\ inside' = [inside EXCEPT ![t] = @ + 1]
    BY <1>3 DEF Lock!__malloc_lock, Lock!ACQUIRE, Lock!Counted
  <2>3. lock_count' = lock_count + 1
    BY SMTT(30), <2>1, <2>2
  <2> QED
    BY <1>3, <2>1, <2>2, <2>3
<1>4. CASE malloc_mutex = 1 /\ malloc_mutex_holder # t
  BY <1>4 DEF Lock!__malloc_lock, Lock!ACQUIRE, Lock!lock
<1> QED
  BY SMTT(30), <1>2, <1>3, <1>4

(* So does __malloc_unlock: its caller is inside, and so is the holder.     *)
LEMMA UnlockKeeps ==
    ASSUME Lock!LockAssumption, LockInv,
           NEW t \in Lock!Threads, Lock!__malloc_unlock(t)
    PROVE  LockInv'
<1> USE DEF Lock!LockAssumption, LockInv, Lock!HolderInside, Lock!Threads
<1>1. malloc_mutex = 1 /\ malloc_mutex_holder = t /\ inside[t] = lock_count
  BY DEF Lock!__malloc_unlock
<1>2. lock_count > 0
  BY <1>1
<1>3. lock_count' = lock_count - 1
  <2>1. lock_count' = (lock_count + CountSize - 1) % CountSize
    BY <1>1 DEF Lock!__malloc_unlock, Lock!RELEASE
  <2> QED
    BY SMTT(30), <1>2, <2>1
<1>4. inside' = [inside EXCEPT ![t] = @ - 1]
  BY DEF Lock!__malloc_unlock
<1>5. IF lock_count' = 0
      THEN malloc_mutex' = 0 /\ malloc_mutex_holder' = Lock!NoHolder
      ELSE malloc_mutex' = malloc_mutex /\ malloc_mutex_holder' = malloc_mutex_holder
  BY DEF Lock!__malloc_unlock, Lock!RELEASE
<1> QED
  BY <1>1, <1>2, <1>3, <1>4, <1>5 DEF Lock!NoHolder

(* The malloc lock of the scheduler core excludes: with any number of        *)
(* threads and any width of the count, the holder the core has on record is  *)
(* the only thread in malloc, and its count is the thread's nesting depth.   *)
(* The ready queue, served by the same state machine, does not disturb it.  *)
THEOREM MallocExclusive == Lock!LockAssumption => (CoreSpec => []HolderInside)
<1> SUFFICES ASSUME Lock!LockAssumption PROVE CoreSpec => []HolderInside
  OBVIOUS
<1> DEFINE state == <<vars, locking, lockVars>>
<1>1. CoreInit => LockInv
  BY InitLockInv DEF CoreInit
<1>2. LockInv /\ [CoreNext]_state => LockInv'
  <2> SUFFICES ASSUME LockInv, [CoreNext]_state PROVE LockInv'
    OBVIOUS
  <2>1. CASE Lock!Next
    BY <2>1, LockKeeps, UnlockKeeps DEF Lock!Next
  <2>2. CASE UNCHANGED lockVars
    BY <2>2 DEF LockInv, Lock!HolderInside, lockVars
  <2> QED
    BY <2>1, <2>2 DEF CoreNext
<1>3. LockInv => HolderInside
  BY DEF LockInv, HolderInside
<1> QED
  BY <1>1, <1>2, <1>3, PTL DEF CoreSpec
=============================================================================
