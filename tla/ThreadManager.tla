--------------------------- MODULE ThreadManager ---------------------------
(***************************************************************************)
(* The thread manager core (axi_thread_manager_v1_00_a, user_logic.vhd).    *)
(*                                                                         *)
(* One bus transaction at a time: the core leaves IDLE_STATE for a         *)
(* transaction, ends it in END_TRANSACTION_WAIT, and is idle again when the *)
(* bus master has taken the answer.  A command that needs nothing from the  *)
(* scheduler is one step; the others stop in the state that examines the    *)
(* scheduler's answer.  What the scheduler says (data, nid, valid) is a      *)
(* parameter of the step that reads it.                                    *)
(*                                                                         *)
(* The BRAM holds two things: the thread table (entry) and, in the first   *)
(* byte of each word, the stack of thread IDs (stack, next_ID).  The cells *)
(* next_ID .. NumIDs-1 of the stack are the IDs that may be handed out.     *)
(*                                                                         *)
(* The scheduler is the environment here: it may answer anything.  The      *)
(* exception cause and address registers are left out: an exception is what *)
(* the bus master sees of it, a word of zeroes.                             *)
(***************************************************************************)
EXTENDS Naturals, FiniteSets

CONSTANT NumIDs          \* 256 in the core

ASSUME NumIDsAssumption == NumIDs \in Nat \ {0}

IDs == 0 .. NumIDs - 1

VARIABLES
    entry,               \* the thread table: bits 16 to 27 of each word
    stack,               \* bits 0 to 7 of each word
    next_ID,             \* 9 bits: NumIDs when no ID is left
    current_cpu_thread,  \* the thread on the CPU; bad is the ninth bit
    state,               \* the state of the core between two of its steps
    addr,                \* the thread ID on the bus, while ADD_THREAD needs it
    tm2sch,              \* the request lines to the scheduler
    bus_data_out         \* the word a finished transaction puts on the bus

table == <<entry, stack, next_ID>>
vars == <<table, current_cpu_thread, state, addr, tm2sch, bus_data_out>>

-----------------------------------------------------------------------------
(* Bits 26 and 27 of an entry: "00" unused, "11" running, "10" exited.      *)
Status == {"unused", "running", "exited"}

Entry == [status : Status, pid : IDs, detached : {0, 1}, joined : {0, 1}]

UnusedEntry == [status |-> "unused", pid |-> 0, detached |-> 0, joined |-> 0]

Codes == {"OK", "NO_ID", "CLEAR_ERROR_NOT_USED", "THREAD_ALREADY_TERMINATED",
          "JOIN_ERROR_CHILD_DETACHED", "JOIN_ERROR_CHILD_JOINED",
          "JOIN_ERROR_CHILD_NOT_USED", "JOIN_ERROR_NOT_CHILD",
          "ERROR_IN_STATUS", "THREAD_ALREADY_QUEUED", "ERROR_FROM_SCHEDULER"}

Opcodes == {"NOOP", "ENQUEUE", "DEQUEUE", "IS_QUEUED", "IS_EMPTY"}

(* The bytes a scheduler answer can hold: bit 7 (1) or bit 0 (128) is set.  *)
SchedData == {0, 1, 128}

States == {"IDLE_STATE", "END_TRANSACTION_WAIT", "IS_QUEUED_DONE", 
           "NEXT_THREAD_WAIT4_SCHEDULER", "NEXT_THREAD_CHECK_DEQUEUE", "AT_CHECK_ISQUEUE",
           "AT_CHECK_ENQUEUE", "YIELD_CHECK_QUEUE_EMPTY",
           "YIELD_CHECK_ENQUEUE", "YIELD_CHECK_DEQUEUE", "EXIT_CHECK_ENQUEUE"}

NoRequest == [op |-> "NOOP", data |-> 0]

Zeroes == [code |-> "OK", id |-> 0]

(* The state after C_SOFT_RESET with the thread manager's bit set.          *)
Init ==
    /\ entry = [t \in IDs |-> UnusedEntry]
    /\ stack = [i \in IDs |-> i]
    /\ next_ID = 0
    /\ current_cpu_thread = [id |-> 0, bad |-> 1]
    /\ state = "IDLE_STATE"
    /\ addr = 0
    /\ tm2sch = NoRequest
    /\ bus_data_out = Zeroes

-----------------------------------------------------------------------------
(* Mutant of EndTransaction: the word is put on the bus one bit too far left. *)
EndTransaction_shifted(code, id) ==
    /\ bus_data_out' = [code |-> code, id |-> 2 * id]
    /\ state' = "END_TRANSACTION_WAIT"
    /\ addr' = 0

(* END_TRANSACTION: put a word on the bus and acknowledge.  With an error   *)
(* code the rest of the word echoes the entry or the current thread; here   *)
(* id is 0, as only _yield_thread, when it is repeated, would look at it.   *)
EndTransaction(code, id) ==
    /\ bus_data_out' = [code |-> code, id |-> id]
    /\ state' = "END_TRANSACTION_WAIT"
    /\ addr' = 0

(* RAISE_EXCEPTION acknowledges without driving bus_data_out: the bus reads *)
(* a word of zeroes, which is thread 0 and no error.                       *)
RaiseException ==
    /\ bus_data_out' = Zeroes
    /\ state' = "END_TRANSACTION_WAIT"
    /\ addr' = 0

(* The bus master has taken the word.                                       *)
EndTransactionWait ==
    /\ state = "END_TRANSACTION_WAIT"
    /\ state' = "IDLE_STATE"
    /\ bus_data_out' = Zeroes
    /\ UNCHANGED <<table, current_cpu_thread, addr, tm2sch>>

(* Raise a request and wait for the scheduler in state s.                   *)
AskScheduler(op, t, s) ==
    /\ tm2sch' = [op |-> op, data |-> t]
    /\ addr' = IF s = "AT_CHECK_ISQUEUE" THEN t ELSE 0
    /\ state' = s
    /\ UNCHANGED bus_data_out

(* A transaction of the bus begins.                                         *)
Begin == state = "IDLE_STATE"

(* The scheduler has completed the request of state s.                      *)
Answered(s) ==
    /\ state = s
    /\ tm2sch.op = "NOOP"
    /\ UNCHANGED table

(* CREATE_THREAD_D and CREATE_THREAD_J.                                     *)
NoMoreIDs == next_ID = NumIDs

NewEntry(detached) ==
    [status   |-> "running",
     pid      |-> IF detached = 1 THEN 0 ELSE current_cpu_thread.id,
     detached |-> detached,
     joined   |-> 0]

CreateThread(detached) ==
    /\ Begin
    /\ IF NoMoreIDs
       THEN /\ EndTransaction("NO_ID", 0)
            /\ UNCHANGED table
       ELSE /\ entry' = [entry EXCEPT ![stack[next_ID]] = NewEntry(detached)]
            /\ next_ID' = next_ID + 1
            /\ EndTransaction("OK", stack[next_ID])
            /\ UNCHANGED stack
    /\ UNCHANGED <<current_cpu_thread, tm2sch>>

(* CLEAR_THREAD: only an exited thread gives its ID back.                   *)
DeallocateID(t) ==
    IF next_ID # 0
    THEN /\ next_ID' = next_ID - 1
         /\ stack' = [stack EXCEPT ![next_ID - 1] = t]
    ELSE UNCHANGED <<next_ID, stack>>

(* Mutants of ClearThread: the status of the thread is not looked at; the    *)
(* ID is not given back.                                                    *)
ClearThread_unchecked(t) ==
    /\ Begin
    /\ entry' = [entry EXCEPT ![t] = UnusedEntry]
    /\ DeallocateID(t)
    /\ EndTransaction("OK", 0)
    /\ UNCHANGED <<current_cpu_thread, tm2sch>>

ClearThread_leaking(t) ==
    /\ Begin
    /\ IF entry[t].status = "exited"
       THEN entry' = [entry EXCEPT ![t] = UnusedEntry] /\ EndTransaction("OK", 0)
       ELSE UNCHANGED entry /\ EndTransaction("CLEAR_ERROR_NOT_USED", 0)
    /\ UNCHANGED <<stack, next_ID, current_cpu_thread, tm2sch>>

ClearThread(t) ==
    /\ Begin
    /\ IF entry[t].status = "exited"
       THEN /\ entry' = [entry EXCEPT ![t] = UnusedEntry]
            /\ DeallocateID(t)
            /\ EndTransaction("OK", 0)
       ELSE /\ EndTransaction("CLEAR_ERROR_NOT_USED", 0)
            /\ UNCHANGED table
    /\ UNCHANGED <<current_cpu_thread, tm2sch>>

(* JOIN_THREAD.                                                             *)
ChildOfCurrent(t) ==
    /\ entry[t].pid = current_cpu_thread.id
    /\ current_cpu_thread.bad = 0

Joinable(t) ==
    /\ ChildOfCurrent(t)
    /\ entry[t].detached = 0
    /\ entry[t].joined = 0
    /\ entry[t].status # "unused"

JoinError(t) ==
    CASE entry[t].detached = 1        -> "JOIN_ERROR_CHILD_DETACHED"
      [] /\ entry[t].detached = 0
         /\ entry[t].joined = 1       -> "JOIN_ERROR_CHILD_JOINED"
      [] /\ entry[t].detached = 0
         /\ entry[t].joined = 0
         /\ entry[t].status = "unused" -> "JOIN_ERROR_CHILD_NOT_USED"
      [] OTHER                        -> "JOIN_ERROR_NOT_CHILD"

JoinCode(t) ==
    IF Joinable(t)
    THEN IF entry[t].status = "exited" THEN "THREAD_ALREADY_TERMINATED"
                                       ELSE "OK"
    ELSE JoinError(t)

JoinThread(t) ==
    /\ Begin
    /\ EndTransaction(JoinCode(t), 0)
    /\ entry' = IF JoinCode(t) = "OK"
                THEN [entry EXCEPT ![t].joined = 1]
                ELSE entry
    /\ UNCHANGED <<stack, next_ID, current_cpu_thread, tm2sch>>

(* IS_DETACHED is a read of the table.                                      *)
IsDetached(t) == entry[t].detached = 1 /\ entry[t].status # "unused"

(* IS_QUEUED passes the question on to the scheduler.                       *)
IsQueued(t) ==
    /\ Begin
    /\ AskScheduler("IS_QUEUED", t, "IS_QUEUED_DONE")
    /\ UNCHANGED <<table, current_cpu_thread>>

IsQueuedDone(data) ==
    /\ Answered("IS_QUEUED_DONE")
    /\ EndTransaction("OK", data)
    /\ UNCHANGED <<current_cpu_thread, tm2sch>>

(* Mutant of NextThreadAvailable: the current thread is not changed before   *)
(* the dequeue.                                                             *)
NextThreadAvailable_late(nid) ==
    /\ IF entry[nid].status = "running"
       THEN AskScheduler("DEQUEUE", 0, "NEXT_THREAD_CHECK_DEQUEUE")
       ELSE RaiseException /\ UNCHANGED tm2sch
    /\ UNCHANGED <<current_cpu_thread, table>>

(* NEXT_THREAD: take the scheduler's decision if the table agrees with it.  *)
NextThreadAvailable(nid) ==
    /\ IF entry[nid].status = "running"
       THEN /\ current_cpu_thread' = [id |-> nid, bad |-> 0]
            /\ AskScheduler("DEQUEUE", 0, "NEXT_THREAD_CHECK_DEQUEUE")
       ELSE /\ RaiseException
            /\ UNCHANGED <<current_cpu_thread, tm2sch>>
    /\ UNCHANGED table

NextThread(valid, nid) ==
    /\ Begin
    /\ IF valid
       THEN NextThreadAvailable(nid)
       ELSE /\ state' = "NEXT_THREAD_WAIT4_SCHEDULER"
            /\ UNCHANGED <<table, current_cpu_thread, addr, tm2sch,
                           bus_data_out>>

NextThreadWait4Scheduler(valid, nid) ==
    /\ state = "NEXT_THREAD_WAIT4_SCHEDULER"
    /\ valid
    /\ NextThreadAvailable(nid)

(* Both NEXT_THREAD and YIELD return the thread that is now current.        *)
CheckDequeue(s, data) ==
    /\ Answered(s)
    /\ IF data = 1
       THEN EndTransaction("ERROR_FROM_SCHEDULER", 0)
       ELSE EndTransaction("OK", current_cpu_thread.id)
    /\ UNCHANGED <<current_cpu_thread, tm2sch>>

NextThreadCheckDequeue(data) == CheckDequeue("NEXT_THREAD_CHECK_DEQUEUE", data)

(* ADD_THREAD: a running thread that the scheduler does not hold yet.       *)
AddThread(t) ==
    /\ Begin
    /\ IF entry[t].status = "running"
       THEN AskScheduler("IS_QUEUED", t, "AT_CHECK_ISQUEUE")
       ELSE /\ EndTransaction("ERROR_IN_STATUS", 0)
            /\ UNCHANGED tm2sch
    /\ UNCHANGED <<table, current_cpu_thread>>

AtCheckIsQueue(data) ==
    /\ Answered("AT_CHECK_ISQUEUE")
    /\ IF data # 1
       THEN AskScheduler("ENQUEUE", addr, "AT_CHECK_ENQUEUE")
       ELSE /\ EndTransaction("THREAD_ALREADY_QUEUED", 0)
            /\ UNCHANGED tm2sch
    /\ UNCHANGED current_cpu_thread

CheckEnqueue(s, data) ==
    /\ Answered(s)
    /\ IF data = 1
       THEN EndTransaction("ERROR_FROM_SCHEDULER", 0)
       ELSE EndTransaction("OK", 0)
    /\ UNCHANGED <<current_cpu_thread, tm2sch>>

(* Mutant of AtCheckEnqueue: an answer that is not zero is asked for again. *)
AtCheckEnqueue_retry(data) ==
    /\ Answered("AT_CHECK_ENQUEUE")
    /\ IF data # 0
       THEN AskScheduler("ENQUEUE", addr, "AT_CHECK_ENQUEUE")
       ELSE EndTransaction("OK", 0) /\ UNCHANGED tm2sch
    /\ UNCHANGED current_cpu_thread

AtCheckEnqueue(data) == CheckEnqueue("AT_CHECK_ENQUEUE", data)

(* YIELD_THREAD: put the current thread back and take the next one.         *)
YieldThread ==
    /\ Begin
    /\ IF entry[current_cpu_thread.id].status = "running"
       THEN AskScheduler("IS_EMPTY", 0, "YIELD_CHECK_QUEUE_EMPTY")
       ELSE /\ EndTransaction("ERROR_IN_STATUS", 0)
            /\ UNCHANGED tm2sch
    /\ UNCHANGED <<table, current_cpu_thread>>

YieldCheckQueueEmpty(data) ==
    /\ Answered("YIELD_CHECK_QUEUE_EMPTY")
    /\ IF data = 1
       THEN /\ EndTransaction("OK", current_cpu_thread.id)
            /\ UNCHANGED tm2sch
       ELSE AskScheduler("ENQUEUE", current_cpu_thread.id, "YIELD_CHECK_ENQUEUE")
    /\ UNCHANGED current_cpu_thread

(* The next thread is taken without a look at its entry.                    *)
YieldCheckEnqueue(data, nid) ==
    /\ Answered("YIELD_CHECK_ENQUEUE")
    /\ IF data # 1
       THEN /\ current_cpu_thread' = [id |-> nid, bad |-> 0]
            /\ AskScheduler("DEQUEUE", 0, "YIELD_CHECK_DEQUEUE")
       ELSE /\ EndTransaction("ERROR_FROM_SCHEDULER", 0)
            /\ UNCHANGED <<current_cpu_thread, tm2sch>>

YieldCheckDequeue(data) == CheckDequeue("YIELD_CHECK_DEQUEUE", data)

(* EXIT_THREAD: the entry becomes exited whatever it was; a joined thread   *)
(* wakes its parent.                                                       *)
WakesParent(t) == entry[t].detached = 0 /\ entry[t].joined = 1

(* Mutant of ExitThread: the entry is rewritten, the joined bit with it.     *)
ExitThread_forgetful(t) ==
    /\ Begin
    /\ entry' = [entry EXCEPT ![t].status = "exited", ![t].joined = 0]
    /\ EndTransaction("OK", 0)
    /\ UNCHANGED <<stack, next_ID, current_cpu_thread, tm2sch>>

ExitThread(t) ==
    /\ Begin
    /\ entry' = [entry EXCEPT ![t].status = "exited"]
    /\ IF WakesParent(t)
       THEN IF entry'[entry[t].pid].status = "running"
            THEN AskScheduler("ENQUEUE", entry[t].pid, "EXIT_CHECK_ENQUEUE")
            ELSE /\ EndTransaction("ERROR_IN_STATUS", 0)
                 /\ UNCHANGED tm2sch
       ELSE /\ EndTransaction("OK", 0)
            /\ UNCHANGED tm2sch
    /\ UNCHANGED <<stack, next_ID, current_cpu_thread>>

ExitCheckEnqueue(data) == CheckEnqueue("EXIT_CHECK_ENQUEUE", data)

(* A command the decoder does not know, detach and queue length included.   *)
UndefinedAddress ==
    /\ Begin
    /\ RaiseException
    /\ UNCHANGED <<table, current_cpu_thread, tm2sch>>

-----------------------------------------------------------------------------
(* The scheduler lowers its busy line: the request has been served.         *)
SchedulerAnswers ==
    /\ tm2sch.op # "NOOP"
    /\ tm2sch' = NoRequest
    /\ UNCHANGED <<table, current_cpu_thread, state, addr, bus_data_out>>

(* A thread exits only itself: _syscall_exit exits the thread on the CPU,   *)
(* and the nanokernel the hardware thread it runs.                         *)
Exits(t) == entry[t].status = "running" /\ ExitThread(t)

Next ==
    \/ \E d \in {0, 1} : CreateThread(d)
    \/ \E t \in IDs : ClearThread(t)
    \/ \E t \in IDs : JoinThread(t)
    \/ \E t \in IDs : Exits(t)
    \/ \E t \in IDs : AddThread(t)
    \/ \E t \in IDs : IsQueued(t)
    \/ \E valid \in BOOLEAN, nid \in IDs :
          \/ NextThread(valid, nid)
          \/ NextThreadWait4Scheduler(valid, nid)
    \/ YieldThread
    \/ UndefinedAddress
    \/ EndTransactionWait
    \/ SchedulerAnswers
    \/ \E data \in SchedData :
          \/ IsQueuedDone(data)
          \/ NextThreadCheckDequeue(data)
          \/ AtCheckIsQueue(data)
          \/ AtCheckEnqueue(data)
          \/ YieldCheckQueueEmpty(data)
          \/ \E nid \in IDs : YieldCheckEnqueue(data, nid)
          \/ YieldCheckDequeue(data)
          \/ ExitCheckEnqueue(data)

Spec == Init /\ [][Next]_vars

-----------------------------------------------------------------------------
(* Every register and table field keeps the range its width gives it;       *)
(* next_ID, one bit wider than an ID, stops at NumIDs.                      *)
TypeOK ==
    /\ entry \in [IDs -> Entry]
    /\ stack \in [IDs -> IDs]
    /\ next_ID \in 0 .. NumIDs
    /\ current_cpu_thread \in [id : IDs, bad : {0, 1}]
    /\ state \in States
    /\ addr \in IDs
    /\ tm2sch \in [op : Opcodes, data : IDs]
    /\ bus_data_out \in [code : Codes, id : IDs \cup SchedData]

UsedIDs == {t \in IDs : entry[t].status # "unused"}

FreeCells == {i \in IDs : i >= next_ID}

(* CREATE hands out stack[next_ID]: no ID that may be handed out, now or    *)
(* later, belongs to a thread that is still in the table, and none is on    *)
(* the stack twice.                                                        *)
FreeIDsUnused ==
    /\ \A i \in FreeCells : stack[i] \notin UsedIDs
    /\ \A i, j \in FreeCells : stack[i] = stack[j] => i = j

(* CLEAR gives every ID back: an ID that no thread uses can be handed out   *)
(* again, whatever order threads were created, exited and cleared in.      *)
NoIDLost ==
    /\ \A t \in IDs \ UsedIDs : \E i \in FreeCells : stack[i] = t
    /\ Cardinality(UsedIDs) = next_ID

(* Until its entry is cleared no command gives the entry of a thread to     *)
(* another one: parent and detached bit stay, an exited thread does not run *)
(* again, and a join is not forgotten.                                     *)
KeepsIdentity ==
    \A t \in UsedIDs :
       \/ entry'[t] \in {entry[t], UnusedEntry}
       \/ /\ entry'[t].pid = entry[t].pid
          /\ entry'[t].detached = entry[t].detached
          /\ entry[t].joined = 1 => entry'[t].joined = 1
          /\ entry[t].status = "exited" => entry'[t].status = "exited"

(* Every step of the core keeps the identity of the threads in the table.   *)
IdentityKept == [][KeepsIdentity]_entry
=============================================================================
