--------------------------- MODULE CondVar_proofs ---------------------------
(***************************************************************************)
(* The condition variable core forgets no waiter, wakes none twice, never   *)
(* fills its channel and keeps the order, for any number of threads and     *)
(* variables.                                                              *)
(***************************************************************************)
EXTENDS CondVar, LinkedList_proofs

(* The idle thread never waits.                                             *)
SomeoneRuns == \E u \in Threads : waits[u] = NoCvar

IInv == TypeOK /\ WaitersExact /\ SomeoneRuns

(* The types of one variable and one thread.                                *)
LEMMA Types ==
    ASSUME TypeOK, NEW c \in Cvars, NEW t \in Threads
    PROVE  /\ cvar[c].length \in Nat /\ cvar[c].length < NumThreads
           /\ cvar[c].owner \in Threads /\ cvar[c].lastReq \in Threads
           /\ link[t] \in Threads /\ c # NoCvar
<1>1. NumThreads \in Nat \ {0} /\ NoCvar \notin Cvars
  BY CondVarAssumption
<1>2. cvar[c] \in [length : 0 .. NumThreads - 1, owner : Threads,
                   lastReq : Threads]
  BY DEF TypeOK
<1>3. cvar[c].length \in 0 .. NumThreads - 1
  BY <1>2
<1> QED
  BY <1>1, <1>2, <1>3 DEF TypeOK

(* While no broadcast is under way every waiter is in the list of its        *)
(* variable or signalled.                                                   *)
LEMMA IdleLinked ==
    ASSUME IInv, todo = 0
    PROVE  Linked({})
<1>1. PICK L \in SUBSET {v \in Threads : waits[v] # NoCvar} : Linked(L)
  BY DEF IInv, WaitersExact
<1>2. PICK l \in Threads : Chain(Threads, L, todo, entry, l, link)
  BY <1>1 DEF Linked
<1>3. L = {}
  BY <1>2, ChainEnds
<1> QED
  BY <1>1, <1>3

(* After reset nobody waits.                                                *)
LEMMA InitIInv == Init => IInv
<1> SUFFICES ASSUME Init PROVE IInv
  OBVIOUS
<1> USE CondVarAssumption
<1>1. 0 \in Threads /\ 0 \in 0 .. NumThreads - 1
  BY DEF Threads
<1>2. TypeOK
  <2>1. chan \in Seq(Threads) /\ Len(chan) = 0
    BY DEF Init
  <2> QED
    BY <1>1, <2>1 DEF Init, TypeOK
<1>3. SomeoneRuns
  BY <1>1 DEF Init, SomeoneRuns
<1>4. Signalled = {} /\ SignalledOnce
  BY DEF Init, Signalled, SignalledOnce
<1>5. \A c \in Cvars : Queued(c, {}) = {}
  BY DEF Init, Queued
<1>6. Linked({})
  BY <1>1, <1>5, ChainEmpty DEF Init, Linked
<1>7. WaitersExact
  BY <1>4, <1>6 DEF WaitersExact
<1> QED
  BY <1>2, <1>3, <1>7 DEF IInv

-----------------------------------------------------------------------------
(* With no broadcast under way a thread queues: the length does not wrap,    *)
(* and only the link of the last waiter changes.                            *)
LEMMA WaitStep ==
    ASSUME IInv, NEW c \in Cvars, NEW t \in Threads, Wait(c, t)
    PROVE  /\ waits[t] = NoCvar /\ todo = 0 /\ Linked({})
           /\ \E u \in Threads \ {t} : waits[u] = NoCvar
           /\ UNCHANGED <<todo, entry, chan, sending>>
           /\ waits' = [waits EXCEPT ![t] = c]
           /\ t \notin Queued(c, {}) /\ t \notin Signalled
           /\ link' \in [Threads -> Threads]
           /\ \A v \in Threads \ Queued(c, {}) : link'[v] = link[v]
           /\ cvar[c].length # 0 =>
                 Links(Queued(c, {}), cvar[c].lastReq, t, link, link')
           /\ cvar' \in [Cvars -> [length : 0 .. NumThreads - 1, owner : Threads,
                                   lastReq : Threads]]
           /\ cvar'[c] = [length |-> cvar[c].length + 1,
                          owner |-> IF cvar[c].length = 0 THEN t ELSE cvar[c].owner,
                          lastReq |-> t]
           /\ \A d \in Cvars \ {c} : cvar'[d] = cvar[d]
           /\ Chain(Threads, Queued(c, {}) \cup {t}, cvar[c].length + 1,
                    IF cvar[c].length = 0 THEN t ELSE cvar[c].owner, t, link')
<1>1. /\ waits[t] = NoCvar /\ todo = 0
      /\ UNCHANGED <<todo, entry, chan, sending>>
      /\ waits' = [waits EXCEPT ![t] = c]
  BY DEF Wait, ENQUEUE, Idle, loop, master
<1>2. PICK u \in Threads \ {t} : waits[u] = NoCvar
  BY DEF Wait
<1>3. Linked({})
  BY <1>1, IdleLinked
<1> DEFINE Q == Queued(c, {})
           k == cvar[c].length
           f == cvar[c].owner
           l == cvar[c].lastReq
<1>5. k \in Nat /\ k < NumThreads /\ f \in Threads /\ l \in Threads
      /\ NumThreads \in Nat \ {0} /\ c # NoCvar
  BY Types, CondVarAssumption DEF IInv
<1>6. Chain(Threads, Q, k, f, l, link)
  BY <1>3 DEF Linked
<1>7. t \notin Q /\ u \notin Q /\ t \notin Signalled
  BY <1>1, <1>2, <1>5 DEF Queued, IInv, WaitersExact, SignalledOnce
<1>8. \E new \in [Threads -> Threads] :
         /\ Chain(Threads, Q \cup {t}, k + 1, IF k = 0 THEN t ELSE f, t, new)
         /\ k + 1 < NumThreads
         /\ \A v \in Threads \ Q : new[v] = link[v]
         /\ k # 0 => Links(Q, l, t, link, new)
         /\ link' = new
  <2> HIDE DEF Q, k, f, l
  <2>1. ASSUME NEW new, Chain(Threads, Q \cup {t}, k + 1, IF k = 0 THEN t ELSE f, t, new)
        PROVE  k + 1 < NumThreads
    <3>1. u \notin Q \cup {t} /\ k + 1 \in Nat
      BY <1>2, <1>5, <1>7
    <3> DEFINE S == Q \cup {t}
               n == k + 1
               g == IF k = 0 THEN t ELSE f
    <3>2. u \in Threads /\ u \notin S /\ n \in Nat /\ Chain(Threads, S, n, g, t, new)
      BY <2>1, <3>1
    <3> HIDE DEF S, n, g
    <3>3. n < NumThreads
      BY <1>5, <3>2, ChainFewer DEF Threads
    <3> QED
      BY <3>3 DEF n
  <2>2. CASE k = 0
    <3>1. Q = {} /\ Chain(Threads, {t}, 1, t, t, link)
      BY <1>6, <2>2, ChainEnds, ChainOne
    <3>2. Chain(Threads, Q \cup {t}, k + 1, IF k = 0 THEN t ELSE f, t, link)
      BY <2>2, <3>1
    <3>3. 1 < NumThreads
      BY <2>1, <2>2, <3>2
    <3>4. (k + 1) % NumThreads = 1
      BY <2>2, <3>3, <1>5
    <3>5. link' = link /\ link \in [Threads -> Threads]
      BY <3>4 DEF Wait, ENQUEUE, IInv, TypeOK, k
    <3> QED
      BY SMTT(30), <2>1, <2>2, <3>2, <3>5
  <2>3. CASE k # 0
    <3> DEFINE new == [link EXCEPT ![l] = t]
    <3>1. Q \subseteq Threads /\ l \in Q
      BY <1>5, <1>6, <2>3, ChainEnds
    <3>2. /\ new \in [Threads -> Threads] /\ new[l] = t
          /\ \A v \in Threads : v # l => new[v] = link[v]
      BY <3>1 DEF IInv, TypeOK
    <3> HIDE DEF new
    <3>3. k \in Nat \ {0}
      BY <1>5, <2>3
    <3>4. Chain(Threads, Q \cup {t}, k + 1, f, t, new)
      BY SMTT(30), <1>6, <1>7, <3>1, <3>2, <3>3, ChainAppend
    <3>5. k + 1 < NumThreads /\ Links(Q, l, t, link, new)
      BY <2>1, <2>3, <3>1, <3>2, <3>4 DEF Links
    <3>6. (k + 1) % NumThreads # 1
      BY <1>5, <3>3, <3>5
    <3>7. link' = new
      BY <3>6 DEF Wait, ENQUEUE, k, l, new
    <3> QED
      BY <2>3, <3>1, <3>2, <3>4, <3>5, <3>7
  <2> QED
    BY SMTT(30), <2>2, <2>3
<1>9. /\ cvar' \in [Cvars -> [length : 0 .. NumThreads - 1, owner : Threads,
                              lastReq : Threads]]
      /\ cvar'[c] = [length |-> k + 1, owner |-> IF k = 0 THEN t ELSE f,
                      lastReq |-> t]
      /\ \A d \in Cvars \ {c} : cvar'[d] = cvar[d]
  <2>1. k + 1 < NumThreads
    BY <1>8
  <2>2. (k + 1) % NumThreads = k + 1 /\ k + 1 \in 0 .. NumThreads - 1
        /\ (k + 1 = 1 <=> k = 0)
    BY <1>5, <2>1
  <2> DEFINE R == 0 .. NumThreads - 1
             E == [length : R, owner : Threads, lastReq : Threads]
  <2>3. cvar \in [Cvars -> E] /\ k + 1 \in R
    BY <2>2 DEF IInv, TypeOK
  <2>4. IF k = 0
        THEN cvar' = [cvar EXCEPT ![c] = [length |-> k + 1, owner |-> t,
                                          lastReq |-> t]]
        ELSE cvar' = [cvar EXCEPT ![c].length = k + 1, ![c].lastReq = t]
    BY <2>2 DEF Wait, ENQUEUE
  <2> HIDE DEF R, k
  <2>5. cvar' \in [Cvars -> E] /\ \A d \in Cvars \ {c} : cvar'[d] = cvar[d]
    BY <2>3, <2>4
  <2>6. cvar'[c] = [length |-> k + 1, owner |-> IF k = 0 THEN t ELSE f,
                    lastReq |-> t]
    BY <2>3, <2>4
  <2> QED
    BY <2>5, <2>6 DEF R
<1> QED
  BY <1>1, <1>2, <1>3, <1>7, <1>8, <1>9

LEMMA WaitKeeps ==
    ASSUME IInv, NEW c \in Cvars, NEW t \in Threads, Wait(c, t)
    PROVE  IInv'
<1>1. /\ todo = 0 /\ Linked({}) /\ UNCHANGED <<todo, entry, chan, sending>>
      /\ waits' = [waits EXCEPT ![t] = c]
      /\ t \notin Queued(c, {}) /\ t \notin Signalled
      /\ link' \in [Threads -> Threads]
      /\ \A v \in Threads \ Queued(c, {}) : link'[v] = link[v]
  BY Zenon, WaitStep
<1>2. /\ cvar' \in [Cvars -> [length : 0 .. NumThreads - 1, owner : Threads,
                              lastReq : Threads]]
      /\ cvar'[c] = [length |-> cvar[c].length + 1,
                     owner |-> IF cvar[c].length = 0 THEN t ELSE cvar[c].owner,
                     lastReq |-> t]
      /\ \A d \in Cvars \ {c} : cvar'[d] = cvar[d]
      /\ Chain(Threads, Queued(c, {}) \cup {t}, cvar[c].length + 1,
               IF cvar[c].length = 0 THEN t ELSE cvar[c].owner, t, link')
  BY Zenon, WaitStep
<1>3. PICK u \in Threads \ {t} : waits[u] = NoCvar
  BY DEF Wait
<1>4. /\ waits' \in [Threads -> Cvars \cup {NoCvar}]
      /\ waits'[t] = c /\ \A v \in Threads \ {t} : waits'[v] = waits[v]
  BY <1>1 DEF IInv, TypeOK
<1>5. Signalled' = Signalled
  BY <1>1 DEF Signalled
<1>6. Queued(c, {})' = Queued(c, {}) \cup {t}
  BY <1>1, <1>4, <1>5 DEF Queued
<1>7. ASSUME NEW d \in Cvars \ {c} PROVE Queued(d, {})' = Queued(d, {})
  <2>1. waits[t] = NoCvar /\ d # NoCvar
    BY ZenonT(30), WaitStep, CondVarAssumption
  <2> QED
    BY <1>4, <1>5, <2>1 DEF Queued
<1>8. TypeOK'
  BY <1>1, <1>2, <1>4 DEF IInv, TypeOK
<1>9. SomeoneRuns'
  BY <1>3, <1>4 DEF SomeoneRuns
<1>10. SignalledOnce'
  BY <1>1, <1>4, <1>5 DEF IInv, WaitersExact, SignalledOnce
<1>11. Linked({})'
  <2>1. Chain(Threads, {}, todo', entry', t, link')
    BY <1>1, ChainEmpty
  <2>2. Chain(Threads, Queued(c, {})', cvar'[c].length, cvar'[c].owner,
              cvar'[c].lastReq, link')
    <3>1. PICK g : g = IF cvar[c].length = 0 THEN t ELSE cvar[c].owner
      OBVIOUS
    <3>2. cvar'[c] = [length |-> cvar[c].length + 1, owner |-> g, lastReq |-> t]
      BY Zenon, <1>2, <3>1
    <3>3. /\ cvar'[c].length = cvar[c].length + 1 /\ cvar'[c].lastReq = t
          /\ cvar'[c].owner = g
      BY <3>2
    <3> QED
      BY Zenon, <1>2, <1>6, <3>1, <3>3
  <2>3. ASSUME NEW d \in Cvars \ {c}
        PROVE  Chain(Threads, Queued(d, {})', cvar'[d].length, cvar'[d].owner,
                     cvar'[d].lastReq, link')
    <3>1. Chain(Threads, Queued(d, {}), cvar[d].length, cvar[d].owner,
                cvar[d].lastReq, link)
      BY <1>1 DEF Linked
    <3>2. \A v \in Queued(d, {}) : link'[v] = link[v]
      BY <1>1 DEF Queued
    <3>3. cvar[d].length \in Nat
      BY Types DEF IInv
    <3>4. Chain(Threads, Queued(d, {}), cvar[d].length, cvar[d].owner,
                cvar[d].lastReq, link')
      BY <3>1, <3>2, <3>3, ChainFrame
    <3> QED
      BY <1>2, <1>7, <3>4
  <2> QED
    BY <2>1, <2>2, <2>3 DEF Linked
<1>12. WaitersExact'
  BY <1>10, <1>11 DEF WaitersExact
<1> QED
  BY <1>8, <1>9, <1>12 DEF IInv

(* Nothing changes.                                                         *)
LEMMA StutterKeeps ==
    ASSUME IInv, UNCHANGED vars
    PROVE  IInv'
<1> USE DEF vars, table, loop, master
<1>1. TypeOK' /\ SomeoneRuns'
  BY DEF IInv, TypeOK, SomeoneRuns
<1>2. Signalled' = Signalled
  BY DEF Signalled
<1>3. SignalledOnce'
  BY <1>2 DEF IInv, WaitersExact, SignalledOnce
<1>4. \A L : Linked(L) => Linked(L)'
  <2> SUFFICES ASSUME NEW L, Linked(L) PROVE Linked(L)'
    OBVIOUS
  <2>1. \A c \in Cvars : Queued(c, L)' = Queued(c, L)
    BY <1>2 DEF Queued
  <2> QED
    BY <2>1 DEF Linked
<1>5. WaitersExact'
  BY <1>2, <1>3, <1>4 DEF IInv, WaitersExact
<1> QED
  BY <1>1, <1>5 DEF IInv

(* A thread that waits and was not signalled is put in the channel.         *)
LEMMA SignalOne ==
    ASSUME IInv, NEW e \in Threads, waits[e] # NoCvar, e \notin Signalled,
           ~ Full, chan' = Append(chan, e), UNCHANGED <<sending, waits>>
    PROVE  /\ Signalled' = Signalled \cup {e}
           /\ SignalledOnce'
           /\ chan' \in Seq(Threads) /\ Len(chan') <= ChanDepth
<1>1. chan \in Seq(Threads) /\ Len(chan) <= ChanDepth /\ Len(chan) \in Nat
      /\ ChanDepth \in Nat
  BY CondVarAssumption DEF IInv, TypeOK
<1>2. /\ chan' \in Seq(Threads) /\ Len(chan') = Len(chan) + 1
      /\ \A i \in 1 .. Len(chan) : chan'[i] = chan[i]
      /\ chan'[Len(chan) + 1] = e
  BY <1>1
<1>3. Len(chan') <= ChanDepth
  BY <1>1, <1>2 DEF Full
<1>4. {chan'[i] : i \in 1 .. Len(chan')} = {chan[i] : i \in 1 .. Len(chan)} \cup {e}
  <2>1. 1 .. Len(chan') = (1 .. Len(chan)) \cup {Len(chan) + 1}
    BY <1>1, <1>2
  <2> HIDE <1>1
  <2> QED
    BY <1>2, <2>1
<1>5. Signalled' = Signalled \cup {e}
  BY <1>4 DEF Signalled
<1>6. \A i \in 1 .. Len(chan) : chan[i] # e
  BY DEF Signalled
<1>7. \A j \in 1 .. Len(sending) : sending[j] # e
  BY DEF Signalled
<1>8. \A i \in 1 .. Len(chan') : i \in 1 .. Len(chan) \/ i = Len(chan) + 1
  BY <1>1, <1>2
<1>9. SignalledOnce'
  <2>1. \A t \in Signalled' : waits'[t] # NoCvar
    BY <1>5 DEF IInv, WaitersExact, SignalledOnce
  <2>2. \A i, j \in 1 .. Len(chan') : chan'[i] = chan'[j] => i = j
    BY <1>2, <1>6, <1>8 DEF IInv, WaitersExact, SignalledOnce
  <2>3. \A i \in 1 .. Len(chan'), j \in 1 .. Len(sending') : chan'[i] # sending'[j]
    BY <1>2, <1>7, <1>8 DEF IInv, WaitersExact, SignalledOnce
  <2> QED
    BY <2>1, <2>2, <2>3 DEF SignalledOnce
<1> QED
  BY <1>2, <1>3, <1>5, <1>9

(* The first waiter is signalled.                                           *)
LEMMA DequeueKeeps ==
    ASSUME IInv, NEW c \in Cvars, DEQUEUE(c)
    PROVE  IInv'
<1>1. CASE cvar[c].length = 0
  <2>1. UNCHANGED vars
    BY <1>1 DEF DEQUEUE, vars, table, loop, master
  <2> QED
    BY <2>1, StutterKeeps
<1>2. CASE cvar[c].length # 0
  <2> DEFINE k == cvar[c].length
             l == cvar[c].lastReq
  <2>1. PICK f \in Threads : f = cvar[c].owner
    BY DEF IInv, TypeOK
  <2>2. /\ ~ Full /\ chan' = Append(chan, f) /\ todo = 0
        /\ cvar' = [cvar EXCEPT ![c].length = k - 1,
                                ![c].owner = IF k = 1 THEN f ELSE link[f]]
        /\ UNCHANGED <<link, todo, entry, sending, waits>>
    BY <1>2, <2>1 DEF DEQUEUE, Idle, loop
  <2>3. PICK L \in SUBSET {v \in Threads : waits[v] # NoCvar} :
          L \cap Signalled = {} /\ Linked(L)
    BY DEF IInv, WaitersExact
  <2>4. PICK e \in Threads : Chain(Threads, L, todo, entry, e, link)
    BY <2>3 DEF Linked
  <2>5. L = {}
    BY <2>2, <2>4, ChainEnds
  <2>6. /\ k \in Nat \ {0} /\ k < NumThreads /\ l \in Threads
        /\ NumThreads \in Nat /\ c # NoCvar /\ link[f] \in Threads
    BY <1>2, Types, CondVarAssumption DEF IInv
  <2> DEFINE Q == Queued(c, {})
  <2>7. Chain(Threads, Q, k, f, l, link)
    BY <2>1, <2>3, <2>5 DEF Linked
  <2>8. f \in Q
    BY <2>6, <2>7, ChainEnds
  <2>9. waits[f] = c /\ f \notin Signalled /\ waits[f] # NoCvar
    BY <2>6, <2>8 DEF Queued
  <2>10. /\ Signalled' = Signalled \cup {f} /\ SignalledOnce'
         /\ chan' \in Seq(Threads) /\ Len(chan') <= ChanDepth
    BY <2>2, <2>9, SignalOne
  <2>11. /\ cvar' \in [Cvars -> [length : 0 .. NumThreads - 1, owner : Threads,
                                  lastReq : Threads]]
         /\ cvar'[c] = [length |-> k - 1, owner |-> IF k = 1 THEN f ELSE link[f],
                        lastReq |-> l]
         /\ \A d \in Cvars \ {c} : cvar'[d] = cvar[d]
    <3> DEFINE R == 0 .. NumThreads - 1
               E == [length : R, owner : Threads, lastReq : Threads]
               g == IF k = 1 THEN f ELSE link[f]
    <3>1. cvar \in [Cvars -> E] /\ k - 1 \in R
      BY <2>6 DEF IInv, TypeOK
    <3>2. g \in Threads
      BY <2>6
    <3>3. cvar' = [cvar EXCEPT ![c].length = k - 1, ![c].owner = g]
      BY <2>2
    <3> HIDE DEF R, k, g
    <3>4. cvar' \in [Cvars -> E] /\ \A d \in Cvars \ {c} : cvar'[d] = cvar[d]
      BY Zenon, <3>1, <3>2, <3>3
    <3>5. cvar'[c] = [length |-> k - 1, owner |-> g, lastReq |-> l]
      BY Zenon, <3>1, <3>3
    <3> QED
      BY <3>4, <3>5 DEF R, g
  <2>12. TypeOK' /\ SomeoneRuns'
    BY <2>2, <2>10, <2>11 DEF IInv, TypeOK, SomeoneRuns
  <2>13. Queued(c, {})' = Q \ {f}
    BY <2>2, <2>10 DEF Queued
  <2>14. \A d \in Cvars \ {c} : Queued(d, {})' = Queued(d, {})
    BY <2>2, <2>9, <2>10 DEF Queued
  <2>15. Chain(Threads, Queued(c, {})', cvar'[c].length, cvar'[c].owner,
               cvar'[c].lastReq, link')
    <3>0. /\ cvar'[c].length = k - 1 /\ cvar'[c].lastReq = l
          /\ k = 1 => cvar'[c].owner = f
          /\ k # 1 => cvar'[c].owner = link[f]
      BY <2>11
    <3> HIDE DEF Q, k, l
    <3>1. Chain(Threads, Q \ {f}, k - 1, link[f], l, link)
      BY <2>6, <2>7, ChainTail
    <3>2. CASE k = 1
      <4>1. Q \ {f} = {}
        BY <2>7, <3>2, ChainEnds
      <4>2. Chain(Threads, {}, 0, f, l, link)
        BY ChainEmpty
      <4>3. cvar'[c].length = 0 /\ cvar'[c].owner = f /\ cvar'[c].lastReq = l
        BY <3>0, <3>2
      <4>4. Queued(c, {})' = {} /\ link' = link
        BY <2>2, <2>13, <4>1
      <4> QED
        BY <4>2, <4>3, <4>4
    <3>3. CASE k # 1
      BY Zenon, <2>2, <2>13, <3>0, <3>1, <3>3
    <3> QED
      BY <3>2, <3>3
  <2>16. Linked({})'
    <3>1. Chain(Threads, {}, todo', entry', f, link')
      BY <2>2, ChainEmpty
    <3>2. \A d \in Cvars \ {c} :
            Chain(Threads, Queued(d, {})', cvar'[d].length, cvar'[d].owner,
                  cvar'[d].lastReq, link')
      BY <2>2, <2>3, <2>5, <2>11, <2>14 DEF Linked
    <3> QED
      BY <2>15, <3>1, <3>2 DEF Linked
  <2>17. WaitersExact'
    BY <2>10, <2>16 DEF WaitersExact
  <2> QED
    BY <2>12, <2>17 DEF IInv
<1> QED
  BY <1>1, <1>2

(* A broadcast takes the whole list.                                        *)
LEMMA DequeueAllKeeps ==
    ASSUME IInv, NEW c \in Cvars, DEQUEUE_ALL(c)
    PROVE  IInv'
<1>1. CASE DEQUEUE(c)
  BY <1>1, DequeueKeeps
<1>2. CASE ~ DEQUEUE(c)
  <2>1. /\ todo = 0 /\ todo' = cvar[c].length /\ entry' = cvar[c].owner
        /\ cvar' = [cvar EXCEPT ![c].length = 0]
        /\ UNCHANGED <<link, chan, sending, waits>>
    BY <1>2 DEF DEQUEUE_ALL, Idle, master
  <2>2. PICK L \in SUBSET {v \in Threads : waits[v] # NoCvar} :
          L \cap Signalled = {} /\ Linked(L)
    BY DEF IInv, WaitersExact
  <2>3. PICK e \in Threads : Chain(Threads, L, todo, entry, e, link)
    BY <2>2 DEF Linked
  <2>4. L = {}
    BY <2>1, <2>3, ChainEnds
  <2>5. PICK M : M = Queued(c, {})
    OBVIOUS
  <2>6. Chain(Threads, M, cvar[c].length, cvar[c].owner, cvar[c].lastReq, link)
    BY <2>2, <2>4, <2>5 DEF Linked
  <2>7. NumThreads \in Nat \ {0} /\ c # NoCvar
    BY CondVarAssumption
  <2>8. M \subseteq {v \in Threads : waits[v] # NoCvar} /\ M \cap Signalled = {}
    BY <2>5, <2>7 DEF Queued
  <2>9. /\ cvar' \in [Cvars -> [length : 0 .. NumThreads - 1, owner : Threads,
                                 lastReq : Threads]]
        /\ cvar'[c].length = 0
        /\ \A d \in Cvars \ {c} : cvar'[d] = cvar[d]
    BY ZenonT(30), <2>1, <2>7 DEF IInv, TypeOK
  <2>10. cvar[c].length \in 0 .. NumThreads - 1 /\ cvar[c].owner \in Threads
         /\ cvar[c].lastReq \in Threads
    BY DEF IInv, TypeOK
  <2>11. TypeOK' /\ SomeoneRuns'
    BY <2>1, <2>9, <2>10 DEF IInv, TypeOK, SomeoneRuns
  <2>12. Signalled' = Signalled /\ SignalledOnce'
    BY <2>1 DEF IInv, WaitersExact, SignalledOnce, Signalled
  <2>13. Queued(c, M)' = {}
    BY <2>1, <2>5, <2>12 DEF Queued
  <2>14. \A d \in Cvars \ {c} : Queued(d, M)' = Queued(d, {})
    BY <2>1, <2>5, <2>12 DEF Queued
  <2>15. Linked(M)'
    <3>1. Chain(Threads, M, todo', entry', cvar[c].lastReq, link')
      BY <2>1, <2>6
    <3>2. Chain(Threads, Queued(c, M)', cvar'[c].length, cvar'[c].owner,
                cvar'[c].lastReq, link')
      BY <2>9, <2>13, ChainEmpty
    <3>3. \A d \in Cvars \ {c} :
            Chain(Threads, Queued(d, M)', cvar'[d].length, cvar'[d].owner,
                  cvar'[d].lastReq, link')
      BY <2>1, <2>2, <2>4, <2>9, <2>14 DEF Linked
    <3> QED
      BY <2>10, <3>1, <3>2, <3>3 DEF Linked
  <2>16. WaitersExact'
    BY <2>1, <2>8, <2>12, <2>15 DEF WaitersExact
  <2> QED
    BY <2>11, <2>16 DEF IInv
<1> QED
  BY <1>1, <1>2

(* A broadcast sends the next of its waiters.                                *)
LEMMA RemoveLoopKeeps ==
    ASSUME IInv, deqall_remove_loop
    PROVE  IInv'
<1>1. PICK f \in Threads : f = entry
  BY DEF IInv, TypeOK
<1>2. /\ todo > 0 /\ ~ Full /\ chan' = Append(chan, f)
      /\ entry' = link[f] /\ todo' = todo - 1
      /\ UNCHANGED <<cvar, link, sending, waits>>
  BY <1>1 DEF deqall_remove_loop, table
<1>3. todo \in 0 .. NumThreads - 1 /\ NumThreads \in Nat /\ link[f] \in Threads
  BY CondVarAssumption DEF IInv, TypeOK
<1>4. todo \in Nat \ {0} /\ todo - 1 \in 0 .. NumThreads - 1
  BY <1>2, <1>3
<1>5. PICK L \in SUBSET {v \in Threads : waits[v] # NoCvar} :
        L \cap Signalled = {} /\ Linked(L)
  BY DEF IInv, WaitersExact
<1>6. PICK l \in Threads : Chain(Threads, L, todo, f, l, link)
  BY <1>1, <1>5 DEF Linked
<1>7. f \in L /\ Chain(Threads, L \ {f}, todo - 1, link[f], l, link)
  BY <1>4, <1>6, ChainEnds, ChainTail
<1>8. /\ Signalled' = Signalled \cup {f} /\ SignalledOnce'
      /\ chan' \in Seq(Threads) /\ Len(chan') <= ChanDepth
  BY <1>2, <1>5, <1>7, SignalOne
<1>9. TypeOK' /\ SomeoneRuns'
  BY <1>2, <1>3, <1>4, <1>8 DEF IInv, TypeOK, SomeoneRuns
<1>10. \A c \in Cvars : Queued(c, L \ {f})' = Queued(c, L)
  BY <1>2, <1>7, <1>8 DEF Queued
<1>11. Linked(L \ {f})'
  <2>1. Chain(Threads, L \ {f}, todo', entry', l, link')
    BY <1>2, <1>7
  <2>2. \A c \in Cvars : Chain(Threads, Queued(c, L \ {f})', cvar'[c].length,
                               cvar'[c].owner, cvar'[c].lastReq, link')
    BY Zenon, <1>2, <1>5, <1>10 DEF Linked
  <2> QED
    BY SMTT(30), <2>1, <2>2 DEF Linked
<1>12. WaitersExact'
  BY <1>2, <1>5, <1>8, <1>11 DEF WaitersExact
<1> QED
  BY <1>9, <1>12 DEF IInv

(* A step that changes neither which threads are signalled, nor who waits,   *)
(* nor a list.                                                              *)
LEMMA ListsKept ==
    ASSUME IInv, TypeOK', UNCHANGED <<cvar, link, todo, entry, waits>>,
           Signalled' = Signalled, SignalledOnce'
    PROVE  IInv'
<1>1. PICK L \in SUBSET {v \in Threads : waits[v] # NoCvar} :
        L \cap Signalled = {} /\ Linked(L)
  BY DEF IInv, WaitersExact
<1>2. \A c \in Cvars : Queued(c, L)' = Queued(c, L)
  BY DEF Queued
<1>3. Linked(L)'
  BY <1>1, <1>2 DEF Linked
<1>4. WaitersExact'
  BY <1>1, <1>3 DEF WaitersExact
<1> QED
  BY <1>4 DEF IInv, SomeoneRuns

(* The master takes a thread out of the channel.                            *)
LEMMA RunKeeps ==
    ASSUME IInv, CMD_RUN
    PROVE  IInv'
<1>1. /\ chan # <<>> /\ sending = <<>> /\ sending' = <<Head(chan)>>
      /\ chan' = Tail(chan) /\ UNCHANGED <<cvar, link, todo, entry, waits>>
  BY DEF CMD_RUN, table, loop
<1>2. chan \in Seq(Threads) /\ Len(chan) \in Nat \ {0} /\ Len(chan) <= ChanDepth
      /\ ChanDepth \in Nat
  BY <1>1, CondVarAssumption DEF IInv, TypeOK
<1>3. /\ chan' \in Seq(Threads) /\ Len(chan') = Len(chan) - 1
      /\ \A i \in 1 .. Len(chan) - 1 : chan'[i] = chan[i + 1]
  BY <1>1, <1>2
<1>4. Len(sending') = 1 /\ sending'[1] = chan[1] /\ chan[1] \in Threads
      /\ Len(sending) = 0
  BY <1>1, <1>2
<1>5. Len(chan') <= ChanDepth
  BY <1>2, <1>3
<1>6. TypeOK'
  BY <1>1, <1>2, <1>3, <1>4, <1>5 DEF IInv, TypeOK
<1>7. Signalled' = Signalled
  <2>1. Signalled = {chan[i] : i \in 1 .. Len(chan)}
    BY <1>4 DEF Signalled
  <2>2. Signalled' = {chan'[i] : i \in 1 .. Len(chan')} \cup {chan[1]}
    BY <1>4 DEF Signalled
  <2>3. \A i \in 1 .. Len(chan') : i + 1 \in 1 .. Len(chan) /\ chan'[i] = chan[i + 1]
    BY <1>2, <1>3
  <2>4. \A i \in 1 .. Len(chan) :
          i = 1 \/ (i - 1 \in 1 .. Len(chan') /\ chan'[i - 1] = chan[i])
    BY <1>2, <1>3
  <2>5. 1 \in 1 .. Len(chan)
    BY <1>2
  <2>6. {chan'[i] : i \in 1 .. Len(chan')} \subseteq Signalled
    BY <2>1, <2>3
  <2>7. \A i \in 1 .. Len(chan) :
          chan[i] = chan[1] \/ chan[i] \in {chan'[j] : j \in 1 .. Len(chan')}
    BY <2>4
  <2> QED
    BY ZenonT(30), <2>1, <2>2, <2>5, <2>6, <2>7
<1>8. SignalledOnce'
  <2>1. SignalledOnce
    BY DEF IInv, WaitersExact
  <2>2. \A i \in 1 .. Len(chan') : i + 1 \in 1 .. Len(chan) /\ chan'[i] = chan[i + 1]
                                  /\ i \in Nat /\ i + 1 # 1
    BY <1>2, <1>3
  <2>3. \A i, j \in 1 .. Len(chan') : chan'[i] = chan'[j] => i = j
    BY <2>1, <2>2 DEF SignalledOnce
  <2>4. 1 \in 1 .. Len(chan)
    BY <1>2
  <2>5. \A i \in 1 .. Len(chan') : chan'[i] # chan[1]
    BY <2>1, <2>2, <2>4 DEF SignalledOnce
  <2>6. \A i \in 1 .. Len(chan'), j \in 1 .. Len(sending') : chan'[i] # sending'[j]
    BY <1>4, <2>5
  <2>7. \A t \in Signalled' : waits'[t] # NoCvar
    BY <1>1, <1>7, <2>1 DEF SignalledOnce
  <2> QED
    BY <2>3, <2>6, <2>7 DEF SignalledOnce
<1> QED
  BY <1>1, <1>6, <1>7, <1>8, ListsKept

(* The thread on the bus runs again.                                        *)
LEMMA DoneKeeps ==
    ASSUME IInv, CMD_DONE
    PROVE  IInv'
<1>1. PICK t \in Threads : sending = <<t>>
  BY DEF CMD_DONE, IInv, TypeOK
<1>2. /\ sending' = <<>> /\ waits' = [waits EXCEPT ![t] = NoCvar]
      /\ UNCHANGED <<cvar, link, todo, entry, chan>>
  BY <1>1 DEF CMD_DONE, table, loop
<1>3. Len(sending) = 1 /\ sending[1] = t /\ Len(sending') = 0
  BY <1>1, <1>2
<1>4. /\ waits' \in [Threads -> Cvars \cup {NoCvar}] /\ waits'[t] = NoCvar
      /\ \A u \in Threads \ {t} : waits'[u] = waits[u]
  BY <1>2 DEF IInv, TypeOK
<1>5. TypeOK' /\ SomeoneRuns'
  BY <1>2, <1>4 DEF IInv, TypeOK, SomeoneRuns
<1>6. SignalledOnce /\ Signalled = {chan[i] : i \in 1 .. Len(chan)} \cup {t}
  BY <1>3 DEF IInv, WaitersExact, Signalled
<1>7. t \notin {chan[i] : i \in 1 .. Len(chan)}
  BY <1>3, <1>6 DEF SignalledOnce
<1>8. Signalled' = {chan[i] : i \in 1 .. Len(chan)}
  BY <1>2, <1>3 DEF Signalled
<1>9. Signalled' = Signalled \ {t} /\ Signalled \subseteq Threads
  <2>1. \A i \in 1 .. Len(chan) : chan[i] \in Threads
    BY DEF IInv, TypeOK
  <2> QED
    BY <1>6, <1>7, <1>8, <2>1
<1>10. SignalledOnce'
  BY <1>2, <1>3, <1>4, <1>6, <1>9 DEF SignalledOnce
<1>11. PICK L \in SUBSET {v \in Threads : waits[v] # NoCvar} :
         L \cap Signalled = {} /\ Linked(L)
  BY DEF IInv, WaitersExact
<1>12. t \notin L
  BY <1>6, <1>11
<1>13. \A c \in Cvars : Queued(c, L)' = Queued(c, L)
  <2>1. NoCvar \notin Cvars
    BY CondVarAssumption
  <2> QED
    BY <1>4, <1>6, <1>9, <2>1 DEF Queued
<1>14. Linked(L)'
  BY <1>2, <1>11, <1>13 DEF Linked
<1>15. WaitersExact'
  BY <1>4, <1>9, <1>10, <1>11, <1>12, <1>14 DEF WaitersExact
<1> QED
  BY <1>5, <1>15 DEF IInv

(* No command and no step of the master breaks the invariant.               *)
LEMMA NextIInv == IInv /\ [Next]_vars => IInv'
  BY WaitKeeps, DequeueKeeps, DequeueAllKeeps, RemoveLoopKeeps, RunKeeps,
     DoneKeeps, StutterKeeps DEF Next, Wakes

(* The invariant holds whatever the threads do.                             *)
LEMMA AlwaysIInv == Spec => []IInv
  BY InitIInv, NextIInv, PTL DEF Spec

(* ENQUEUE, DEQUEUE and DEQUEUE_ALL lose no waiter and send none twice, also *)
(* while a broadcast is half done, for any number of threads and variables. *)
THEOREM NoWaiterLost == Spec => []WaitersExact
<1>1. IInv => WaitersExact
  BY DEF IInv
<1> QED
  BY <1>1, AlwaysIInv, PTL

(* The channel to the master, as deep as there are threads, is never full:  *)
(* a signal or a broadcast does not wait with the bus held.                 *)
THEOREM SignalsNeverWait == Spec => []ChannelNeverFull
<1>1. IInv => ChannelNeverFull
  <2> SUFFICES ASSUME IInv, ChanDepth >= NumThreads PROVE Len(chan) # ChanDepth
    BY DEF ChannelNeverFull, Full
  <2> DEFINE n == Len(chan)
  <2>1. chan \in [1 .. n -> Threads] /\ n \in Nat
    BY DEF IInv, TypeOK
  <2>2. \A i, j \in 1 .. n : chan[i] = chan[j] => i = j
    BY DEF IInv, WaitersExact, SignalledOnce
  <2>3. PICK u \in Threads : waits[u] = NoCvar
    BY DEF IInv, SomeoneRuns
  <2>4. \A i \in 1 .. n : chan[i] # u
    BY <2>3 DEF IInv, WaitersExact, SignalledOnce, Signalled
  <2> HIDE DEF n
  <2>5. Injective(chan, n)
    BY <2>2 DEF Injective
  <2>6. NumThreads \in Nat /\ ChanDepth \in Nat
    BY CondVarAssumption
  <2>7. n < NumThreads
    BY Zenon, <2>1, <2>3, <2>4, <2>5, <2>6, Fewer DEF Threads
  <2>8. n # ChanDepth
    BY <2>1, <2>6, <2>7
  <2> QED
    BY <2>8 DEF n
<1> QED
  BY <1>1, AlwaysIInv, PTL

-----------------------------------------------------------------------------
(* The first element is dropped.                                            *)
LEMMA Dropped ==
    ASSUME NEW T, NEW t \in T, NEW c \in Seq(T), NEW w \in Seq(T)
    PROVE  /\ <<t>> \o c \o w # <<>>
           /\ <<>> \o c \o w = Tail(<<t>> \o c \o w)
<1>1. <<t>> \in Seq(T) /\ c \o w \in Seq(T) /\ <<>> \o c = c
  OBVIOUS
<1>2. <<t>> \o c \o w = <<t>> \o (c \o w)
  BY SMTT(30), <1>1
<1>3. PICK d \in Seq(T) : d = c \o w
  BY <1>1, Zenon
<1>4. <<t>> \o d # <<>>
  BY SMTT(30)
<1>5. Tail(<<t>> \o d) = d
  BY SMTT(30)
<1> QED
  BY <1>1, <1>2, <1>3, <1>4, <1>5, Zenon

(* The threads along the links are the list of a chain.                     *)
LEMMA WalkIs ==
    ASSUME NEW S, NEW n \in Nat, NEW f, NEW l, NEW lk, Chain(Threads, S, n, f, l, lk)
    PROVE  /\ Walk(Threads, n, f, lk) = ListOf(NumThreads, S, f, l, lk)
           /\ NumThreads \in Nat /\ Chain(0 .. NumThreads - 1, S, n, f, l, lk)
  BY WalkSeq, CondVarAssumption DEF Threads

LEMMA WalkMembers ==
    ASSUME NEW S, NEW n \in Nat, NEW f, NEW l, NEW lk, Chain(Threads, S, n, f, l, lk)
    PROVE  /\ Walk(Threads, n, f, lk) \in Seq(Threads)
           /\ \A i \in 1 .. Len(Walk(Threads, n, f, lk)) : Walk(Threads, n, f, lk)[i] \in S
<1>1. ListOf(NumThreads, S, f, l, lk) \in [1 .. n -> S] /\ S \subseteq Threads
  BY ZenonT(30), WalkIs, SeqChain, ChainEnds
<1> DEFINE q == Walk(Threads, n, f, lk)
<1>2. q \in [1 .. n -> S]
  BY <1>1, WalkIs
<1> HIDE DEF q
<1>3. q \in Seq(Threads) /\ Len(q) = n
  BY <1>1, <1>2
<1> QED
  BY <1>2, <1>3 DEF q

LEMMA WalkNone ==
    ASSUME NEW f, NEW lk
    PROVE  Walk(Threads, 0, f, lk) = <<>>
<1>1. PICK n \in Nat : n = 0
  OBVIOUS
<1>2. Chain(Threads, {}, n, f, f, lk)
  BY <1>1, ChainEmpty
<1>3. Walk(Threads, n, f, lk) = ListOf(NumThreads, {}, f, f, lk) /\ NumThreads \in Nat
  BY <1>2, WalkIs
<1> QED
  BY <1>1, <1>3, SeqEmpty

LEMMA WalkOne ==
    ASSUME NEW t \in Threads, NEW lk
    PROVE  Walk(Threads, 1, t, lk) = <<t>>
<1>1. PICK n \in Nat : n = 1
  OBVIOUS
<1>2. Chain(Threads, {t}, n, t, t, lk)
  BY <1>1, ChainOne
<1>3. Walk(Threads, n, t, lk) = ListOf(NumThreads, {t}, t, t, lk)
  BY <1>2, WalkIs
<1>4. NumThreads \in Nat /\ t \in 0 .. NumThreads - 1
  BY CondVarAssumption DEF Threads
<1> QED
  BY <1>1, <1>3, <1>4, SeqOne

LEMMA WalkFrame ==
    ASSUME NEW S, NEW n \in Nat, NEW f, NEW l, NEW lk, NEW new,
           Chain(Threads, S, n, f, l, lk), \A t \in S : new[t] = lk[t]
    PROVE  Walk(Threads, n, f, new) = Walk(Threads, n, f, lk)
<1>1. Chain(Threads, S, n, f, l, new)
  BY ChainFrame
<1>2. ListOf(NumThreads, S, f, l, new) = ListOf(NumThreads, S, f, l, lk)
  BY WalkIs, SeqFrame
<1> QED
  BY <1>1, <1>2, WalkIs

LEMMA WalkAppend ==
    ASSUME NEW S, NEW n \in Nat \ {0}, NEW f, NEW l, NEW lk, NEW new, NEW t \in Threads,
           t \notin S, Chain(Threads, S, n, f, l, lk), Links(S, l, t, lk, new)
    PROVE  IsAppend(Walk(Threads, n + 1, f, new), Walk(Threads, n, f, lk), t)
<1>1. Walk(Threads, n, f, lk) = ListOf(NumThreads, S, f, l, lk)
  BY WalkIs
<1>2. PICK U : U = S \cup {t}
  BY Zenon
<1>3. PICK m \in Nat : m = n + 1
  OBVIOUS
<1>4. Chain(Threads, U, m, f, t, new)
  BY <1>2, <1>3, ChainAppend DEF Links
<1>5. Walk(Threads, m, f, new) = ListOf(NumThreads, U, f, t, new)
  BY <1>4, WalkIs
<1>6. IsAppend(ListOf(NumThreads, S \cup {t}, f, t, new), ListOf(NumThreads, S, f, l, lk), t)
  BY SeqAppend, CondVarAssumption DEF Threads
<1> QED
  BY <1>1, <1>2, <1>3, <1>5, <1>6

LEMMA WalkTail ==
    ASSUME NEW S, NEW n \in Nat \ {0}, NEW f, NEW l, NEW lk, Chain(Threads, S, n, f, l, lk)
    PROVE  IsPopped(Walk(Threads, n - 1, lk[f], lk), Walk(Threads, n, f, lk), f)
<1>1. Walk(Threads, n, f, lk) = ListOf(NumThreads, S, f, l, lk)
  BY WalkIs
<1>2. PICK U : U = S \ {f}
  BY Zenon
<1>3. PICK m \in Nat : m = n - 1
  OBVIOUS
<1>4. PICK g : g = lk[f]
  OBVIOUS
<1>5. Chain(Threads, U, m, g, l, lk)
  BY Zenon, <1>2, <1>3, <1>4, ChainTail
<1>6. Walk(Threads, m, g, lk) = ListOf(NumThreads, U, g, l, lk)
  BY <1>5, WalkIs
<1>7. IsPopped(ListOf(NumThreads, S \ {f}, lk[f], l, lk), ListOf(NumThreads, S, f, l, lk), f)
  BY Zenon, SeqTail, CondVarAssumption DEF Threads
<1> QED
  BY Zenon, <1>1, <1>2, <1>3, <1>4, <1>6, <1>7

-----------------------------------------------------------------------------
(* The rest of a broadcast, and the lists of the variables.                 *)
Rest == Walk(Threads, todo, entry, link)

LEMMA Parts ==
    ASSUME IInv
    PROVE  /\ sending \in Seq(Threads) /\ chan \in Seq(Threads) /\ Rest \in Seq(Threads)
           /\ Waking = sending \o chan \o Rest
           /\ todo = 0 => Rest = <<>>
<1>0. PICK L \in SUBSET {v \in Threads : waits[v] # NoCvar} : Linked(L)
  BY DEF IInv, WaitersExact
<1>1. PICK l \in Threads : Chain(Threads, L, todo, entry, l, link)
  BY <1>0 DEF Linked
<1>2. todo \in Nat
  BY CondVarAssumption DEF IInv, TypeOK
<1>3. Rest \in Seq(Threads)
  BY <1>1, <1>2, WalkMembers DEF Rest
<1>4. todo = 0 => Rest = <<>>
  BY WalkNone DEF Rest
<1>5. chan \in Seq(Threads) /\ (sending = <<>> \/ \E t \in Threads : sending = <<t>>)
  BY DEF IInv, TypeOK
<1>6. sending \in Seq(Threads)
  <2>1. ASSUME NEW t \in Threads PROVE <<t>> \in Seq(Threads)
    OBVIOUS
  <2>2. <<>> \in Seq(Threads)
    OBVIOUS
  <2> QED
    BY Zenon, <1>5, <2>1, <2>2
<1> QED
  BY <1>3, <1>4, <1>5, <1>6 DEF Waking, Rest

LEMMA Listed ==
    ASSUME IInv, NEW L, Linked(L), NEW c \in Cvars
    PROVE  /\ cvar[c].length \in Nat
           /\ Chain(Threads, Queued(c, L), cvar[c].length, cvar[c].owner,
                    cvar[c].lastReq, link)
           /\ Waiting(c) \in Seq(Threads)
           /\ \A i \in 1 .. Len(Waiting(c)) : Waiting(c)[i] \in Queued(c, L)
<1>1. cvar[c].length \in Nat
  BY CondVarAssumption DEF IInv, TypeOK
<1>2. Chain(Threads, Queued(c, L), cvar[c].length, cvar[c].owner,
            cvar[c].lastReq, link)
  BY DEF Linked
<1> QED
  BY Zenon, <1>1, <1>2, WalkMembers DEF Waiting

(* A thread that runs is not asleep.                                        *)
LEMMA Awake ==
    ASSUME IInv, todo = 0, NEW t \in Threads, waits[t] = NoCvar
    PROVE  t \notin C!Asleep
<1>1. Linked({}) /\ t \notin Signalled
  BY IdleLinked DEF IInv, WaitersExact, SignalledOnce
<1>2. t \notin C!Range(Waking)
  <2>1. Waking = sending \o chan /\ sending \in Seq(Threads) /\ chan \in Seq(Threads)
    BY Parts
  <2>2. \A i \in 1 .. Len(Waking) : \/ \E j \in 1 .. Len(sending) : Waking[i] = sending[j]
                                    \/ \E j \in 1 .. Len(chan) : Waking[i] = chan[j]
    BY <2>1
  <2> QED
    BY <1>1, <2>2 DEF Signalled, C!Range
<1>3. ASSUME NEW c \in Cvars PROVE t \notin C!Range(Waiting(c))
  <2>1. \A i \in 1 .. Len(Waiting(c)) : Waiting(c)[i] \in Queued(c, {})
    BY <1>1, Listed
  <2>2. t \notin Queued(c, {})
    BY CondVarAssumption DEF Queued
  <2> QED
    BY <2>1, <2>2 DEF C!Range
<1> QED
  BY <1>2, <1>3 DEF C!Asleep

LEMMA WaitMaps ==
    ASSUME IInv, NEW c \in Cvars, NEW t \in Threads, Wait(c, t)
    PROVE  C!Wait(c, t)
<1>1. /\ waits[t] = NoCvar /\ todo = 0 /\ Linked({})
      /\ UNCHANGED <<todo, entry, chan, sending>>
      /\ t \notin Queued(c, {})
      /\ \A v \in Threads \ Queued(c, {}) : link'[v] = link[v]
      /\ cvar[c].length # 0 =>
            Links(Queued(c, {}), cvar[c].lastReq, t, link, link')
      /\ cvar'[c] = [length |-> cvar[c].length + 1,
                     owner |-> IF cvar[c].length = 0 THEN t ELSE cvar[c].owner,
                     lastReq |-> t]
      /\ \A d \in Cvars \ {c} : cvar'[d] = cvar[d]
  BY Zenon, WaitStep
<1>2. t \notin C!Asleep
  BY <1>1, Awake
<1>3. Waking' = Waking
  BY <1>1, WalkNone DEF Waking
<1>4. ASSUME NEW d \in Cvars \ {c} PROVE Waiting(d)' = Waiting(d)
  <2>1. /\ cvar[d].length \in Nat
        /\ Chain(Threads, Queued(d, {}), cvar[d].length, cvar[d].owner,
                 cvar[d].lastReq, link)
    BY <1>1, Listed
  <2>2. \A v \in Queued(d, {}) : link'[v] = link[v]
    BY <1>1 DEF Queued
  <2>3. Walk(Threads, cvar[d].length, cvar[d].owner, link')
          = Walk(Threads, cvar[d].length, cvar[d].owner, link)
    BY <2>1, <2>2, WalkFrame
  <2> QED
    BY <1>1, <2>3 DEF Waiting
<1>5. Waiting(c)' = Append(Waiting(c), t)
  <2> DEFINE k == cvar[c].length
             f == cvar[c].owner
             g == IF k = 0 THEN t ELSE f
  <2>1. cvar'[c].length = k + 1 /\ cvar'[c].owner = g
    <3>1. cvar'[c] = [length |-> k + 1, owner |-> g, lastReq |-> t]
      BY Zenon, <1>1
    <3> HIDE DEF k, g
    <3> QED
      BY <3>1
  <2>2. /\ k \in Nat
        /\ Chain(Threads, Queued(c, {}), k, f, cvar[c].lastReq, link)
    BY <1>1, Listed
  <2>3. CASE k = 0
    <3>1. Waiting(c) = <<>> /\ Waiting(c)' = Walk(Threads, 1, t, link')
      BY <2>1, <2>3, WalkNone DEF Waiting
    <3> QED
      BY <3>1, WalkOne
  <2>4. CASE k # 0
    <3>1. Waiting(c)' = Walk(Threads, k + 1, f, link')
      BY <2>1, <2>4 DEF Waiting
    <3>2. IsAppend(Walk(Threads, k + 1, f, link'), Walk(Threads, k, f, link), t)
      <4> HIDE DEF k, f
      <4> QED
        BY <1>1, <2>2, <2>4, WalkAppend DEF k
    <3> QED
      BY <3>1, <3>2 DEF IsAppend, Waiting
  <2> QED
    BY <2>3, <2>4
<1> QED
  BY Zenon, <1>2, <1>3, <1>4, <1>5 DEF C!Wait

(* A signal moves the first waiter, if there is one, to those that wake up.  *)
LEMMA DequeueMaps ==
    ASSUME IInv, NEW c \in Cvars, DEQUEUE(c)
    PROVE  C!Signal(c) \/ UNCHANGED C!vars
<1>1. CASE cvar[c].length = 0
  <2>1. UNCHANGED <<cvar, link, todo, entry, chan, sending>>
    BY <1>1 DEF DEQUEUE, loop
  <2> QED
    BY <2>1 DEF C!vars, Waiting, Waking
<1>2. CASE cvar[c].length # 0
  <2> DEFINE k == cvar[c].length
             f == cvar[c].owner
  <2>1. /\ chan' = Append(chan, f) /\ todo = 0
        /\ cvar' = [cvar EXCEPT ![c].length = k - 1,
                                ![c].owner = IF k = 1 THEN f ELSE link[f]]
        /\ UNCHANGED <<link, todo, entry, sending>>
    BY <1>2 DEF DEQUEUE, Idle, loop
  <2>2. /\ cvar'[c].length = k - 1 /\ (k # 1 => cvar'[c].owner = link[f])
        /\ \A d \in Cvars \ {c} : cvar'[d] = cvar[d]
    BY <2>1 DEF IInv, TypeOK
  <2>3. /\ k \in Nat \ {0} /\ f \in Threads
        /\ Chain(Threads, Queued(c, {}), k, f, cvar[c].lastReq, link)
    BY <1>2, <2>1, IdleLinked, Listed DEF IInv, TypeOK
  <2>4. IsPopped(Walk(Threads, k - 1, link[f], link), Walk(Threads, k, f, link), f)
    <3> HIDE DEF k, f
    <3> QED
      BY <2>3, WalkTail
  <2>5. Waiting(c) # <<>> /\ Head(Waiting(c)) = f
    BY <2>4 DEF IsPopped, Waiting
  <2>6. Waiting(c)' = Tail(Waiting(c))
    <3>1. CASE k = 1
      <4>1. Waiting(c)' = <<>>
        BY <2>1, <2>2, <3>1, WalkNone DEF Waiting
      <4>2. Walk(Threads, k - 1, link[f], link) = <<>>
        BY <3>1, WalkNone
      <4> QED
        BY <2>4, <4>1, <4>2 DEF IsPopped, Waiting
    <3>2. CASE k # 1
      BY Zenon, <2>1, <2>2, <2>4, <3>2 DEF IsPopped, Waiting
    <3> QED
      BY <3>1, <3>2
  <2>7. ASSUME NEW d \in Cvars \ {c} PROVE Waiting(d)' = Waiting(d)
    BY Zenon, <2>1, <2>2 DEF Waiting
  <2>8. Waking' = Append(Waking, f)
    <3>1. /\ Waking = sending \o chan \o <<>> /\ Waking' = sending \o Append(chan, f) \o <<>>
          /\ sending \in Seq(Threads) /\ chan \in Seq(Threads)
      BY Zenon, <2>1, Parts, WalkNone DEF Waking
    <3> HIDE DEF f
    <3> QED
      BY SMTT(30), <2>3, <3>1
  <2> QED
    BY Zenon, <2>5, <2>6, <2>7, <2>8 DEF C!Signal
<1> QED
  BY <1>1, <1>2

(* A broadcast moves all of them, also those that are still to be sent.      *)
LEMMA DequeueAllMaps ==
    ASSUME IInv, NEW c \in Cvars, DEQUEUE_ALL(c)
    PROVE  C!Signal(c) \/ C!Broadcast(c) \/ UNCHANGED C!vars
<1>1. CASE DEQUEUE(c)
  BY <1>1, DequeueMaps
<1>2. CASE ~ DEQUEUE(c)
  <2>1. /\ todo = 0 /\ todo' = cvar[c].length /\ entry' = cvar[c].owner
        /\ cvar' = [cvar EXCEPT ![c].length = 0]
        /\ UNCHANGED <<link, chan, sending>>
    BY <1>2 DEF DEQUEUE_ALL, Idle, master
  <2>2. cvar'[c].length = 0 /\ \A d \in Cvars \ {c} : cvar'[d] = cvar[d]
    BY <2>1 DEF IInv, TypeOK
  <2>3. Waiting(c)' = <<>>
    BY <2>2, WalkNone DEF Waiting
  <2>4. ASSUME NEW d \in Cvars \ {c} PROVE Waiting(d)' = Waiting(d)
    BY <2>1, <2>2 DEF Waiting
  <2>5. Waking' = Waking \o Waiting(c)
    <3>1. /\ Waking = sending \o chan \o <<>>
          /\ Waking' = sending \o chan \o Waiting(c)
          /\ sending \in Seq(Threads) /\ chan \in Seq(Threads)
      BY <2>1, Parts, WalkNone DEF Waking, Waiting
    <3>2. Waiting(c) \in Seq(Threads)
      BY <2>1, IdleLinked, Listed
    <3> QED
      BY <3>1, <3>2
  <2> QED
    BY Zenon, <2>3, <2>4, <2>5 DEF C!Broadcast
<1> QED
  BY <1>1, <1>2

(* The master and the loop of a broadcast move threads towards the bus; the   *)
(* first of them wakes up.                                                  *)
LEMMA WakesMaps ==
    ASSUME IInv, Wakes
    PROVE  C!WakeUp \/ UNCHANGED C!vars
<1>1. /\ sending \in Seq(Threads) /\ chan \in Seq(Threads) /\ Rest \in Seq(Threads)
      /\ Waking = sending \o chan \o Rest /\ Waking' = sending' \o chan' \o Rest'
  BY Parts DEF Waking, Rest
<1>2. UNCHANGED <<cvar, link>> /\ \A c \in Cvars : Waiting(c)' = Waiting(c)
  BY DEF Wakes, deqall_remove_loop, CMD_RUN, CMD_DONE, table, Waiting
<1>3. CASE deqall_remove_loop
  <2>1. /\ todo > 0 /\ chan' = Append(chan, entry) /\ entry' = link[entry]
        /\ todo' = todo - 1 /\ sending' = sending
    BY <1>3 DEF deqall_remove_loop
  <2>2. PICK L \in SUBSET {v \in Threads : waits[v] # NoCvar} : Linked(L)
    BY DEF IInv, WaitersExact
  <2>3. PICK l \in Threads : Chain(Threads, L, todo, entry, l, link)
    BY <2>2 DEF Linked
  <2>4. todo \in Nat \ {0}
    BY <2>1, CondVarAssumption DEF IInv, TypeOK
  <2>5. IsPopped(Walk(Threads, todo - 1, link[entry], link),
                 Walk(Threads, todo, entry, link), entry)
    BY <2>3, <2>4, WalkTail
  <2>6. Rest # <<>> /\ Head(Rest) = entry /\ Rest' = Tail(Rest)
    BY <1>2, <2>1, <2>5 DEF IsPopped, Rest
  <2>7. Waking' = sending \o Append(chan, Head(Rest)) \o Tail(Rest)
    BY Zenon, <1>1, <2>1, <2>6
  <2>8. Waking' = Waking
    <3>0. /\ sending \in Seq(Threads) /\ chan \in Seq(Threads)
          /\ Rest \in Seq(Threads) /\ Rest # <<>>
      BY <1>1, <2>6
    <3>1. sending \o Append(chan, Head(Rest)) \o Tail(Rest) = sending \o chan \o Rest
      <4>1. PICK x : x = sending \o chan
        BY Zenon
      <4>2. x \in Seq(Threads) /\ Head(Rest) \in Threads
        BY <3>0, <4>1
      <4>3. sending \o Append(chan, Head(Rest)) = Append(x, Head(Rest))
        BY <3>0, <4>1, <4>2
      <4>4. PICK w : w = Rest
        OBVIOUS
      <4>5. Append(x, Head(w)) \o Tail(w) = x \o w
        <5>1. w \in Seq(Threads) /\ w # <<>>
          BY <3>0, <4>4
        <5> QED
          BY <4>2, <5>1
      <4> QED
        BY Zenon, <4>1, <4>3, <4>4, <4>5
    <3> QED
      BY Zenon, <1>1, <2>7, <3>1
  <2> QED
    BY <1>2, <2>8 DEF C!vars
<1>4. CASE CMD_RUN
  <2>1. /\ chan # <<>> /\ sending = <<>> /\ sending' = <<Head(chan)>>
        /\ chan' = Tail(chan) /\ Rest' = Rest
    BY <1>4 DEF CMD_RUN, table, loop, Rest
  <2>2. /\ Waking' = <<Head(chan)>> \o Tail(chan) \o Rest
        /\ Waking = <<>> \o chan \o Rest
    BY <1>1, <2>1
  <2>3. <<Head(chan)>> \o Tail(chan) = <<>> \o chan
    BY <1>1, <2>1
  <2>4. Waking' = Waking
    BY Zenon, <2>2, <2>3
  <2> QED
    BY <1>2, <2>4 DEF C!vars
<1>5. CASE CMD_DONE
  <2>1. PICK t \in Threads : sending = <<t>>
    BY <1>5 DEF CMD_DONE, IInv, TypeOK
  <2>2. sending' = <<>> /\ chan' = chan /\ Rest' = Rest
    BY <1>5 DEF CMD_DONE, table, loop, Rest
  <2>3. /\ Waking = <<t>> \o chan \o Rest
        /\ Waking' = <<>> \o chan \o Rest
    BY <1>1, <2>1, <2>2
  <2>4. Waking # <<>> /\ Waking' = Tail(Waking)
    <3>1. /\ <<t>> \o chan \o Rest # <<>>
          /\ <<>> \o chan \o Rest = Tail(<<t>> \o chan \o Rest)
      BY SMTT(30), <1>1, Dropped
    <3> QED
      BY Zenon, <2>3, <3>1
  <2> QED
    BY <1>2, <2>4 DEF C!WakeUp
<1> QED
  BY <1>3, <1>4, <1>5 DEF Wakes

LEMMA CondInitMaps == Init => C!Init
<1> SUFFICES ASSUME Init PROVE C!Init
  OBVIOUS
<1>1. Waking = <<>>
  BY WalkNone DEF Init, Waking
<1>2. ASSUME NEW c \in Cvars PROVE Waiting(c) = <<>>
  BY WalkNone DEF Init, Waiting
<1> QED
  BY <1>1, <1>2 DEF C!Init

LEMMA CondNextMaps == IInv /\ [Next]_vars => [C!Next]_(C!vars)
<1> SUFFICES ASSUME IInv, [Next]_vars PROVE C!Next \/ UNCHANGED C!vars
  OBVIOUS
<1>1. ASSUME NEW c \in Cvars, DEQUEUE(c) \/ DEQUEUE_ALL(c)
      PROVE  C!Next \/ UNCHANGED C!vars
  BY <1>1, DequeueMaps, DequeueAllMaps DEF C!Next
<1>2. ASSUME NEW c \in Cvars, NEW t \in Threads, Wait(c, t)
      PROVE  C!Next
  BY <1>2, WaitMaps DEF C!Next
<1>3. ASSUME Wakes PROVE C!Next \/ UNCHANGED C!vars
  BY <1>3, WakesMaps DEF C!Next
<1>4. ASSUME UNCHANGED vars PROVE UNCHANGED C!vars
  BY <1>4 DEF vars, table, loop, master, C!vars, Waiting, Waking
<1> QED
  BY <1>1, <1>2, <1>3, <1>4 DEF Next

(* ENQUEUE, DEQUEUE and DEQUEUE_ALL implement a FIFO of waiters per variable  *)
(* for any number of threads and variables: a signal wakes the thread that    *)
(* waited longest and a broadcast all of them in order, whatever commands     *)
(* come while the threads of an earlier one are still being woken.           *)
THEOREM CoreImplementsCondition == Spec => ImplementsCondition
<1>1. Spec => C!Init /\ [][C!Next]_(C!vars)
  BY CondInitMaps, CondNextMaps, AlwaysIInv, PTL DEF Spec
<1> QED
  BY <1>1 DEF ImplementsCondition, C!Spec
=============================================================================
