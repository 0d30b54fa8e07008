------------------------ MODULE ThreadManager_proofs ------------------------
(***************************************************************************)
(* Proofs about the thread manager, for every number of IDs.                *)
(*                                                                         *)
(* Only CREATE and CLEAR move IDs between the table and the stack; for      *)
(* every other step the argument is that the set of used IDs, the stack and *)
(* next_ID stay.                                                           *)
(***************************************************************************)
EXTENDS ThreadManager, FiniteSetTheorems, TLAPS

IDInv == FreeIDsUnused /\ NoIDLost

-----------------------------------------------------------------------------
(* The set of used IDs is finite, so that it can be counted.                *)
LEMMA UsedFinite == IsFiniteSet(UsedIDs)
<1>1. NumIDs - 1 \in Int
  BY NumIDsAssumption
<1>2. IsFiniteSet(IDs)
  BY <1>1, FS_Interval DEF IDs
<1>3. UsedIDs \subseteq IDs
  BY DEF UsedIDs
<1> QED
  BY <1>2, <1>3, FS_Subset

(* The invariant holds after reset: no ID is used, and cell i holds ID i.   *)
LEMMA InitInv == Init => TypeOK /\ IDInv
<1> SUFFICES ASSUME Init PROVE TypeOK /\ IDInv
  OBVIOUS
<1>1. 0 \in IDs
  BY NumIDsAssumption DEF IDs
<1>2. TypeOK
  BY <1>1, NumIDsAssumption
  DEF Init, TypeOK, Entry, UnusedEntry, Status, States, NoRequest, Opcodes,
      Zeroes, Codes
<1>3. UsedIDs = {}
  BY DEF UsedIDs, Init, UnusedEntry
<1>4. FreeCells = IDs
  BY DEF FreeCells, Init, IDs
<1>5. FreeIDsUnused
  BY <1>3, <1>4 DEF FreeIDsUnused, Init
<1>6. NoIDLost
  BY <1>3, <1>4, FS_EmptySet DEF NoIDLost, Init
<1> QED
  BY <1>2, <1>5, <1>6 DEF IDInv

(* A step that keeps the used IDs and the stack keeps the invariant.        *)
LEMMA SameIDs ==
    ASSUME IDInv, UsedIDs' = UsedIDs, UNCHANGED <<stack, next_ID>>
    PROVE  IDInv'
<1>1. FreeCells' = FreeCells
  BY DEF FreeCells
<1> QED
  BY <1>1 DEF IDInv, FreeIDsUnused, NoIDLost

(* CREATE moves one ID from the stack to the table.                         *)
LEMMA CreateIDs ==
    ASSUME NEW d \in {0, 1}, TypeOK, IDInv, CreateThread(d)
    PROVE  IDInv'
<1>1. CASE NoMoreIDs
  <2>1. UNCHANGED table
    BY <1>1 DEF CreateThread
  <2> QED
    BY <2>1, SameIDs DEF table, UsedIDs
<1>2. CASE ~ NoMoreIDs
  <2> DEFINE x == stack[next_ID]
  <2>1. /\ entry' = [entry EXCEPT ![x] = NewEntry(d)]
        /\ next_ID' = next_ID + 1
        /\ stack' = stack
    BY <1>2 DEF CreateThread
  <2>2. next_ID \in IDs /\ next_ID \in Nat
    BY <1>2, NumIDsAssumption DEF TypeOK, NoMoreIDs, IDs
  <2>3. x \in IDs
    BY <2>2 DEF TypeOK
  <2>4. next_ID \in FreeCells
    BY <2>2 DEF FreeCells
  <2>5. x \notin UsedIDs
    BY <2>4 DEF IDInv, FreeIDsUnused
  <2>6. UsedIDs' = UsedIDs \cup {x}
    BY <2>1, <2>3 DEF UsedIDs, TypeOK, NewEntry
  <2>7. FreeCells' = FreeCells \ {next_ID}
    BY <2>1, <2>2 DEF FreeCells, IDs
  <2>8. FreeIDsUnused'
    BY <2>1, <2>4, <2>6, <2>7 DEF IDInv, FreeIDsUnused
  <2>9. Cardinality(UsedIDs)' = next_ID'
    BY <2>1, <2>5, <2>6, UsedFinite, FS_AddElement DEF IDInv, NoIDLost
  <2>10. \A t \in IDs \ UsedIDs' : \E i \in FreeCells' : stack'[i] = t
    BY <2>1, <2>6, <2>7 DEF IDInv, NoIDLost
  <2> QED
    BY <2>8, <2>9, <2>10 DEF IDInv, NoIDLost
<1> QED
  BY <1>1, <1>2

(* CLEAR moves one ID from the table to the stack.  The count of the used    *)
(* IDs shows that there is room: next_ID is not 0 while a thread exists.     *)
LEMMA ClearIDs ==
    ASSUME NEW t \in IDs, TypeOK, IDInv, ClearThread(t)
    PROVE  IDInv'
<1>1. CASE entry[t].status # "exited"
  <2>1. UNCHANGED table
    BY <1>1 DEF ClearThread
  <2> QED
    BY <2>1, SameIDs DEF table, UsedIDs
<1>2. CASE entry[t].status = "exited"
  <2>1. entry' = [entry EXCEPT ![t] = UnusedEntry] /\ DeallocateID(t)
    BY <1>2 DEF ClearThread
  <2>2. t \in UsedIDs
    BY <1>2 DEF UsedIDs
  <2>3. next_ID # 0
    BY <2>2, UsedFinite, FS_EmptySet DEF IDInv, NoIDLost
  <2>4. next_ID - 1 \in IDs /\ next_ID \in Nat
    BY <2>3, NumIDsAssumption DEF TypeOK, IDs
  <2>5. /\ next_ID' = next_ID - 1
        /\ stack' = [stack EXCEPT ![next_ID - 1] = t]
    BY <2>1, <2>3 DEF DeallocateID
  <2>6. UsedIDs' = UsedIDs \ {t}
    BY <2>1 DEF UsedIDs, TypeOK, UnusedEntry
  <2>7. FreeCells' = FreeCells \cup {next_ID - 1}
    BY <2>4, <2>5 DEF FreeCells, IDs
  <2>8. next_ID - 1 \notin FreeCells
    BY <2>4 DEF FreeCells
  <2>9. stack'[next_ID - 1] = t /\ \A i \in FreeCells : stack'[i] = stack[i]
    BY <2>4, <2>5, <2>8 DEF TypeOK, FreeCells
  <2>10. FreeIDsUnused'
    BY <2>2, <2>6, <2>7, <2>9 DEF IDInv, FreeIDsUnused
  <2>11. Cardinality(UsedIDs)' = next_ID'
    BY <2>2, <2>5, <2>6, UsedFinite, FS_RemoveElement DEF IDInv, NoIDLost
  <2>12. \A u \in IDs \ UsedIDs' : \E i \in FreeCells' : stack'[i] = u
    BY <2>6, <2>7, <2>9 DEF IDInv, NoIDLost
  <2> QED
    BY <2>10, <2>11, <2>12 DEF IDInv, NoIDLost
<1> QED
  BY <1>1, <1>2

-----------------------------------------------------------------------------
(* Between two transactions, and on every answer of the scheduler, the       *)
(* registers keep their ranges.                                             *)
LEMMA TypeStep == TypeOK /\ [Next]_vars => TypeOK'
<1> SUFFICES ASSUME TypeOK, [Next]_vars PROVE TypeOK'
  OBVIOUS
<1> USE NumIDsAssumption DEF TypeOK
<1>0. 0 \in IDs
  BY DEF IDs
<1>1. ASSUME NEW code \in Codes, NEW id \in IDs \cup SchedData,
             EndTransaction(code, id)
      PROVE  /\ bus_data_out' \in [code : Codes, id : IDs \cup SchedData]
             /\ state' \in States
             /\ addr' \in IDs
  BY <1>0, <1>1 DEF EndTransaction, States
<1>2. ASSUME RaiseException
      PROVE  /\ bus_data_out' \in [code : Codes, id : IDs \cup SchedData]
             /\ state' \in States
             /\ addr' \in IDs
  BY <1>0, <1>2 DEF RaiseException, States, Zeroes, Codes
<1>3. ASSUME NEW op \in Opcodes, NEW t \in IDs, NEW s \in States,
             AskScheduler(op, t, s)
      PROVE  /\ tm2sch' \in [op : Opcodes, data : IDs]
             /\ bus_data_out' \in [code : Codes, id : IDs \cup SchedData]
             /\ state' \in States
             /\ addr' \in IDs
  BY <1>0, <1>3 DEF AskScheduler
<1>4. ASSUME NEW d \in {0, 1}, CreateThread(d) PROVE TypeOK'
  <2>1. CASE NoMoreIDs
    BY <1>0, <1>1, <1>4, <2>1 DEF CreateThread, table, Codes
  <2>2. CASE ~ NoMoreIDs
    <3>1. next_ID \in IDs /\ next_ID + 1 \in 0 .. NumIDs
      BY <2>2 DEF NoMoreIDs, IDs
    <3>2. stack[next_ID] \in IDs
      BY <3>1
    <3>3. NewEntry(d) \in Entry
      BY <1>0, <1>4 DEF NewEntry, Entry, Status
    <3>4. /\ entry' = [entry EXCEPT ![stack[next_ID]] = NewEntry(d)]
          /\ next_ID' = next_ID + 1
          /\ EndTransaction("OK", stack[next_ID])
          /\ UNCHANGED <<stack, current_cpu_thread, tm2sch>>
      BY <1>4, <2>2 DEF CreateThread
    <3>5. entry' \in [IDs -> Entry]
      BY Zenon, <3>3, <3>4
    <3>6. "OK" \in Codes
      BY DEF Codes
    <3> QED
      BY Zenon, <1>1, <3>1, <3>2, <3>4, <3>5, <3>6
  <2> QED
    BY <2>1, <2>2
<1>5. ASSUME NEW t \in IDs, ClearThread(t) PROVE TypeOK'
  <2>1. CASE entry[t].status = "exited"
    <3>1. UnusedEntry \in Entry
      BY <1>0 DEF UnusedEntry, Entry, Status
    <3>2. /\ entry' = [entry EXCEPT ![t] = UnusedEntry]
          /\ DeallocateID(t)
          /\ EndTransaction("OK", 0)
          /\ UNCHANGED <<current_cpu_thread, tm2sch>>
      BY <1>5, <2>1 DEF ClearThread
    <3>3. stack' \in [IDs -> IDs]
      BY <1>5, <3>2 DEF DeallocateID
    <3>4. next_ID' \in 0 .. NumIDs
      BY <3>2 DEF DeallocateID
    <3>5. entry' \in [IDs -> Entry]
      BY <1>5, <3>1, <3>2
    <3>6. "OK" \in Codes
      BY DEF Codes
    <3> QED
      BY <1>0, <1>1, <3>2, <3>3, <3>4, <3>5, <3>6
  <2>2. CASE entry[t].status # "exited"
    BY <1>0, <1>1, <1>5, <2>2 DEF ClearThread, table, Codes
  <2> QED
    BY <2>1, <2>2
<1>6. ASSUME NEW t \in IDs, JoinThread(t) PROVE TypeOK'
  <2>1. JoinCode(t) \in Codes
    BY DEF JoinCode, JoinError, Codes
  <2>2. entry' \in [IDs -> Entry]
    BY <1>6 DEF JoinThread, Entry
  <2> QED
    BY <1>0, <1>1, <1>6, <2>1, <2>2 DEF JoinThread
<1>7. ASSUME NEW t \in IDs, Exits(t) PROVE TypeOK'
  <2>1. entry' \in [IDs -> Entry] /\ entry[t].pid \in IDs
    BY <1>7 DEF Exits, ExitThread, Entry, Status
  <2> QED
    BY <1>0, <1>1, <1>3, <1>7, <2>1
    DEF Exits, ExitThread, Codes, Opcodes, States
<1>8. ASSUME NEW t \in IDs, AddThread(t) PROVE TypeOK'
  BY <1>0, <1>1, <1>3, <1>8 DEF AddThread, table, Codes, Opcodes, States
<1>9. ASSUME NEW t \in IDs, IsQueued(t) PROVE TypeOK'
  BY <1>3, <1>9 DEF IsQueued, table, Opcodes, States
<1>10. ASSUME NEW nid \in IDs, NextThreadAvailable(nid) PROVE TypeOK'
  BY <1>0, <1>2, <1>3, <1>10
  DEF NextThreadAvailable, table, Opcodes, States
<1>11. ASSUME NEW valid \in BOOLEAN, NEW nid \in IDs,
              NextThread(valid, nid) \/ NextThreadWait4Scheduler(valid, nid)
       PROVE  TypeOK'
  BY <1>10, <1>11
  DEF NextThread, NextThreadWait4Scheduler, table, States
<1>12. ASSUME YieldThread PROVE TypeOK'
  BY <1>0, <1>1, <1>3, <1>12 DEF YieldThread, table, Codes, Opcodes, States
<1>13. ASSUME UndefinedAddress PROVE TypeOK'
  BY <1>2, <1>13 DEF UndefinedAddress, table
<1>14. ASSUME EndTransactionWait PROVE TypeOK'
  BY <1>0, <1>14 DEF EndTransactionWait, table, States, Zeroes, Codes
<1>15. ASSUME SchedulerAnswers PROVE TypeOK'
  BY <1>0, <1>15 DEF SchedulerAnswers, table, NoRequest, Opcodes
<1>16. ASSUME NEW data \in SchedData,
              \/ IsQueuedDone(data)
              \/ NextThreadCheckDequeue(data)
              \/ AtCheckEnqueue(data)
              \/ YieldCheckDequeue(data)
              \/ ExitCheckEnqueue(data)
       PROVE  TypeOK'
  BY <1>0, <1>1, <1>16
  DEF IsQueuedDone, NextThreadCheckDequeue, AtCheckEnqueue, YieldCheckDequeue,
      ExitCheckEnqueue, CheckDequeue, CheckEnqueue, Answered, table, Codes
<1>17. ASSUME NEW data \in SchedData, AtCheckIsQueue(data) PROVE TypeOK'
  BY <1>0, <1>1, <1>3, <1>17
  DEF AtCheckIsQueue, Answered, table, Codes, Opcodes, States
<1>18. ASSUME NEW data \in SchedData, YieldCheckQueueEmpty(data) PROVE TypeOK'
  BY <1>1, <1>3, <1>18
  DEF YieldCheckQueueEmpty, Answered, table, Codes, Opcodes, States
<1>19. ASSUME NEW data \in SchedData, NEW nid \in IDs,
              YieldCheckEnqueue(data, nid)
       PROVE  TypeOK'
  BY <1>0, <1>1, <1>3, <1>19
  DEF YieldCheckEnqueue, Answered, table, Codes, Opcodes, States
<1>20. ASSUME UNCHANGED vars PROVE TypeOK'
  BY <1>20 DEF vars, table
<1> QED
  BY <1>4, <1>5, <1>6, <1>7, <1>8, <1>9, <1>11, <1>12, <1>13, <1>14, <1>15,
     <1>16, <1>17, <1>18, <1>19, <1>20 DEF Next

-----------------------------------------------------------------------------
(* A step other than CREATE and CLEAR.                                      *)
OtherStep ==
    \/ \E t \in IDs : JoinThread(t) \/ Exits(t)
    \/ UNCHANGED table

(* Every step is a CREATE, a CLEAR, or one of the others.                   *)
LEMMA Steps ==
    ASSUME [Next]_vars
    PROVE  \/ \E d \in {0, 1} : CreateThread(d)
           \/ \E t \in IDs : ClearThread(t)
           \/ OtherStep
<1>1. ASSUME NEW valid \in BOOLEAN, NEW nid \in IDs,
             NextThread(valid, nid) \/ NextThreadWait4Scheduler(valid, nid)
      PROVE  UNCHANGED table
  BY <1>1 DEF NextThread, NextThreadWait4Scheduler, NextThreadAvailable, table
<1>2. ASSUME NEW data \in SchedData,
             \/ IsQueuedDone(data)
             \/ NextThreadCheckDequeue(data)
             \/ AtCheckIsQueue(data)
             \/ AtCheckEnqueue(data)
             \/ YieldCheckQueueEmpty(data)
             \/ \E nid \in IDs : YieldCheckEnqueue(data, nid)
             \/ YieldCheckDequeue(data)
             \/ ExitCheckEnqueue(data)
      PROVE  UNCHANGED table
  BY <1>2
  DEF IsQueuedDone, NextThreadCheckDequeue, AtCheckIsQueue, AtCheckEnqueue,
      YieldCheckQueueEmpty, YieldCheckEnqueue, YieldCheckDequeue,
      ExitCheckEnqueue, CheckDequeue, CheckEnqueue, Answered
<1>3. ASSUME \/ \E t \in IDs : AddThread(t) \/ IsQueued(t)
             \/ YieldThread
             \/ UndefinedAddress
             \/ EndTransactionWait
             \/ SchedulerAnswers
             \/ UNCHANGED vars
      PROVE  UNCHANGED table
  BY <1>3
  DEF AddThread, IsQueued, YieldThread, UndefinedAddress, EndTransactionWait,
      SchedulerAnswers, vars, table
<1> QED
  BY <1>1, <1>2, <1>3 DEF Next, OtherStep

(* JOIN and EXIT change one field each of an entry in use.                  *)
LEMMA OtherIDs ==
    ASSUME TypeOK, OtherStep
    PROVE  /\ UsedIDs' = UsedIDs
           /\ UNCHANGED <<stack, next_ID>>
           /\ KeepsIdentity
<1>1. ASSUME NEW t \in IDs, JoinThread(t)
      PROVE  /\ UsedIDs' = UsedIDs
             /\ UNCHANGED <<stack, next_ID>>
             /\ KeepsIdentity
  <2>1. entry' = entry \/ entry' = [entry EXCEPT ![t].joined = 1]
    BY <1>1 DEF JoinThread
  <2> QED
    BY <1>1, <2>1 DEF JoinThread, UsedIDs, KeepsIdentity, TypeOK, Entry
<1>2. ASSUME NEW t \in IDs, Exits(t)
      PROVE  /\ UsedIDs' = UsedIDs
             /\ UNCHANGED <<stack, next_ID>>
             /\ KeepsIdentity
  BY <1>2 DEF Exits, ExitThread, UsedIDs, KeepsIdentity, TypeOK, Entry
<1>3. ASSUME UNCHANGED table
      PROVE  /\ UsedIDs' = UsedIDs
             /\ UNCHANGED <<stack, next_ID>>
             /\ KeepsIdentity
  BY <1>3 DEF table, UsedIDs, KeepsIdentity
<1> QED
  BY <1>1, <1>2, <1>3 DEF OtherStep

(* One step keeps the invariant.                                            *)
LEMMA InvStep == TypeOK /\ IDInv /\ [Next]_vars => IDInv'
  BY Steps, CreateIDs, ClearIDs, OtherIDs, SameIDs

(* One step keeps the identity of the threads in the table: CREATE writes   *)
(* the entry of an unused ID only.                                          *)
LEMMA IdentityStep == TypeOK /\ IDInv /\ [Next]_vars => KeepsIdentity
<1> SUFFICES ASSUME TypeOK, IDInv, [Next]_vars PROVE KeepsIdentity
  OBVIOUS
<1>1. ASSUME NEW d \in {0, 1}, CreateThread(d) PROVE KeepsIdentity
  <2>1. CASE NoMoreIDs
    BY <1>1, <2>1 DEF CreateThread, table, KeepsIdentity
  <2>2. CASE ~ NoMoreIDs
    <3>1. entry' = [entry EXCEPT ![stack[next_ID]] = NewEntry(d)]
      BY <1>1, <2>2 DEF CreateThread
    <3>2. next_ID \in FreeCells
      BY <2>2, NumIDsAssumption DEF TypeOK, NoMoreIDs, IDs, FreeCells
    <3>3. stack[next_ID] \notin UsedIDs
      BY <3>2 DEF IDInv, FreeIDsUnused
    <3>4. \A t \in UsedIDs : entry'[t] = entry[t]
      BY <3>1, <3>3 DEF UsedIDs, TypeOK
    <3> QED
      BY <3>4 DEF KeepsIdentity
  <2> QED
    BY <2>1, <2>2
<1>2. ASSUME NEW t \in IDs, ClearThread(t) PROVE KeepsIdentity
  <2>1. CASE entry[t].status # "exited"
    BY <1>2, <2>1 DEF ClearThread, table, KeepsIdentity
  <2>2. CASE entry[t].status = "exited"
    <3>1. entry' = [entry EXCEPT ![t] = UnusedEntry]
      BY <1>2, <2>2 DEF ClearThread
    <3>2. \A u \in UsedIDs : entry'[u] \in {entry[u], UnusedEntry}
      BY <3>1 DEF UsedIDs, TypeOK
    <3> QED
      BY <3>2 DEF KeepsIdentity
  <2> QED
    BY <2>1, <2>2
<1> QED
  BY <1>1, <1>2, Steps, OtherIDs

-----------------------------------------------------------------------------
(* Every register and table field of the thread manager keeps its range.    *)
THEOREM TypeCorrect == Spec => []TypeOK
<1>1. Init => TypeOK
  BY InitInv
<1> QED
  BY <1>1, TypeStep, PTL DEF Spec

(* CREATE never hands out the ID of a thread that is in the table: an ID on *)
(* the stack is that of no thread.                                          *)
THEOREM FreshIDs == Spec => []FreeIDsUnused
<1>1. IDInv => FreeIDsUnused
  BY DEF IDInv
<1> QED
  BY <1>1, InitInv, TypeStep, InvStep, PTL DEF Spec

(* No ID is ever lost: exactly next_ID of them are in use and every other    *)
(* one is on the stack.                                                     *)
THEOREM IDsConserved == Spec => []NoIDLost
<1>1. IDInv => NoIDLost
  BY DEF IDInv
<1> QED
  BY <1>1, InitInv, TypeStep, InvStep, PTL DEF Spec

(* A thread in the table stays the same thread until it is cleared.         *)
THEOREM IdentityPreserved == Spec => IdentityKept
<1>1. TypeOK /\ IDInv /\ [Next]_vars => [KeepsIdentity]_entry
  BY IdentityStep
<1> QED
  BY <1>1, InitInv, TypeStep, InvStep, PTL DEF Spec, IdentityKept
=============================================================================
