----------------------------- MODULE Scheduler -----------------------------
(***************************************************************************)
(* The scheduler core (axi_scheduler_v1_00_a, user_logic.vhd): a ready      *)
(* queue kept as one doubly linked list per priority, in three BRAMs, and   *)
(* the decision which thread runs next.                                    *)
(*                                                                         *)
(* The master state machine serves one request at a time and takes no new  *)
(* one before it is back in idle, so each request is one step.  The one     *)
(* exception is the start of a hardware thread: the thread manager is told  *)
(* it is done before the write to the hardware thread is on the bus.        *)
(***************************************************************************)
EXTENDS Naturals, FiniteSetsExt, LinkedList

CONSTANTS NumIDs,        \* 256 in the core
          NumPriorities, \* 128; the lower the number, the better
          DefaultPri,    \* 64, the priority of every entry after reset
          HWParams,      \* parameters above the software range: the base
                         \* addresses of the hardware thread interfaces
          SW,            \* stands for every parameter in the software range
          IdleThread     \* the thread init.c creates to be the idle thread

ASSUME SchedulerAssumption ==
    /\ NumIDs \in Nat \ {0}
    /\ NumPriorities \in Nat \ {0}
    /\ DefaultPri \in 0 .. NumPriorities - 1
    /\ SW \notin HWParams
    /\ IdleThread \in 0 .. NumIDs - 1
    /\ HWParams \cap (0 .. NumPriorities - 1) = {}

Threads == 0 .. NumIDs - 1
Priorities == 0 .. NumPriorities - 1

VARIABLES
    thread,              \* THREAD_DATA: queue bit, priority, next and prev
    level,               \* PRIORITY_DATA: head and tail of each list
    param,               \* PARAM_DATA: SW, or where to start the thread
    encoder_input,       \* the priorities whose list is not empty
    encoder_output,      \* what the priority encoder last found
    next_thread_id, Next_Thread_Valid,
    idle_thread_id, idle_thread_valid,
    hw_start,            \* the hardware thread the master FSM is starting
    current              \* TM2SCH_current_cpu_tid, driven by the thread manager

queue == <<thread, level, param, encoder_input, encoder_output>>
decision == <<next_thread_id, Next_Thread_Valid>>
idle == <<idle_thread_id, idle_thread_valid>>
vars == <<queue, decision, idle, hw_start, current>>

(* Bits 0 to 24 of a scheduling parameter are zero: it is a priority.       *)
Software(v) == v \in Priorities

-----------------------------------------------------------------------------
(* The state after Soft_Reset.  reset_BRAM leaves parameter 0 everywhere.   *)
Init ==
    /\ thread = [t \in Threads |-> [queued |-> FALSE, priority |-> DefaultPri,
                                    next |-> 0, prev |-> 0]]
    /\ level = [p \in Priorities |-> [head |-> 0, tail |-> 0]]
    /\ param = [t \in Threads |-> SW]
    /\ encoder_input = {}
    /\ encoder_output = 0
    /\ next_thread_id = 0
    /\ Next_Thread_Valid = FALSE
    /\ idle_thread_id = 0
    /\ idle_thread_valid = FALSE
    /\ hw_start = {}
    /\ current = 0

-----------------------------------------------------------------------------
(* The priority encoder: the lowest set bit; nothing changes if none is.    *)
Encode ==
    encoder_output' = IF encoder_input' = {} THEN encoder_output
                      ELSE Min(encoder_input')

(* ENQUEUE and SET_SCHED_PARAM look the highest priority thread up and raise *)
(* the preemption line if it beats the running one.                        *)
Preempts == encoder_output' < thread'[current].priority

BestHead == level'[encoder_output'].head

FSMIdle == hw_start = {}

-----------------------------------------------------------------------------
(* Mutant of ENQ_software: the thread becomes the head of the list.          *)
ENQ_software_LIFO(t) ==
    LET p == thread[t].priority
        e == level[p]
    IN  /\ IF p \in encoder_input
           THEN /\ thread' = [thread EXCEPT
                                 ![e.head].prev = t,
                                 ![t] = [thread[t] EXCEPT !.queued = TRUE,
                                                          !.next = e.head]]
                /\ level' = [level EXCEPT ![p].head = t]
           ELSE /\ thread' = [thread EXCEPT ![t].queued = TRUE]
                /\ level' = [level EXCEPT ![p] = [head |-> t, tail |-> t]]
        /\ encoder_input' = encoder_input \cup {p}
        /\ Encode
        /\ next_thread_id' = BestHead
        /\ Next_Thread_Valid' = TRUE
        /\ UNCHANGED <<param, hw_start>>

(* ENQUEUE of a software thread: append it to the list of its priority.     *)
ENQ_software(t) ==
    LET p == thread[t].priority
        e == level[p]
    IN  /\ IF p \in encoder_input
           THEN /\ thread' = [thread EXCEPT
                                 ![e.tail].next = t,
                                 ![t] = [thread[t] EXCEPT !.queued = TRUE,
                                                          !.prev = e.tail]]
                /\ level' = [level EXCEPT ![p].tail = t]
           ELSE /\ thread' = [thread EXCEPT ![t].queued = TRUE]
                /\ level' = [level EXCEPT ![p] = [head |-> t, tail |-> t]]
        /\ encoder_input' = encoder_input \cup {p}
        /\ Encode
        /\ next_thread_id' = BestHead
        /\ Next_Thread_Valid' = TRUE
        /\ UNCHANGED <<param, hw_start>>

(* ENQUEUE of a hardware thread: answer, then write the start command.      *)
ENQ_hardware(t) ==
    /\ hw_start' = {param[t]}
    /\ UNCHANGED <<queue, decision>>

ENQ(t) ==
    /\ FSMIdle
    /\ IF param[t] = SW THEN ENQ_software(t) ELSE ENQ_hardware(t)
    /\ UNCHANGED <<idle, current>>

(* The master transaction has written HW_THREAD_START.                      *)
ENQ_start_hw_thread_finished ==
    /\ hw_start # {}
    /\ hw_start' = {}
    /\ UNCHANGED <<queue, decision, idle, current>>

(* DEQUEUE takes the head off the list of thread t, whichever thread that   *)
(* is, and clears the queue bit of t.  In the core t is the current thread. *)
DEQ(t) ==
    LET p == thread[t].priority
        e == level[p]
    IN  /\ FSMIdle
        /\ IF e.head = e.tail
           THEN /\ encoder_input' = encoder_input \ {p}
                /\ UNCHANGED level
           ELSE /\ level' = [level EXCEPT ![p].head = thread[e.head].next]
                /\ UNCHANGED encoder_input
        /\ thread' = [thread EXCEPT ![t].queued = FALSE]
        /\ Encode
        /\ IF encoder_input' = {}
           THEN /\ Next_Thread_Valid' = idle_thread_valid
                /\ next_thread_id' = IF idle_thread_valid THEN idle_thread_id
                                     ELSE next_thread_id
           ELSE /\ Next_Thread_Valid' = TRUE
                /\ next_thread_id' = BestHead
        /\ UNCHANGED <<param, idle, hw_start>>

(* The answers to the thread manager: bit 0 of the byte is 128, bit 7 is 1.  *)
ENQ_answer(t) == IF param[t] = SW THEN 128 ELSE 0

DEQ_answer == 0

IS_QUEUED_answer(t) == IF thread[t].queued THEN 1 ELSE 0

IS_EMPTY_answer == IF encoder_input = {} THEN 1 ELSE 0

-----------------------------------------------------------------------------
(* SET_SCHED_PARAM of a queued thread: unlink it from the list of its old   *)
(* priority.  In the middle of the list only its predecessor is mended.     *)
Unlinked(t) ==
    LET p == thread[t].priority
        e == level[p]
        Same == [thread |-> thread, level |-> level,
                 encoder_input |-> encoder_input]
    IN  CASE e.head = e.tail ->
                [Same EXCEPT !.encoder_input = encoder_input \ {p}]
          [] e.head # e.tail /\ t = e.head ->
                [Same EXCEPT !.level[p].head = thread[t].next]
          [] e.head # e.tail /\ t # e.head /\ t = e.tail ->
                [Same EXCEPT !.level[p].tail = thread[t].prev]
          [] OTHER ->
                [Same EXCEPT !.thread[thread[t].prev].next = thread[t].next]

(* Then append it to the list of priority p, whose PRIORITY_DATA entry e    *)
(* was read before the thread was unlinked.                                *)
MoveTo(t, p) ==
    LET u == Unlinked(t)
        e == level[p]
        moved == [thread[t] EXCEPT !.priority = p]
    IN  /\ IF p \in u.encoder_input
           THEN /\ thread' = [u.thread EXCEPT
                                 ![e.tail].next = t,
                                 ![t] = [moved EXCEPT !.prev = e.tail]]
                /\ level' = [u.level EXCEPT ![p] = [e EXCEPT !.tail = t]]
           ELSE /\ thread' = [u.thread EXCEPT ![t] = moved]
                /\ level' = [u.level EXCEPT ![p] = [head |-> t, tail |-> t]]
        /\ encoder_input' = u.encoder_input \cup {p}
        /\ Encode

(* Mutant of SetPriority: a queued thread is not moved to its new list.      *)
SetPriority_unmoved(t, p) ==
    /\ thread' = [thread EXCEPT ![t].priority = p]
    /\ UNCHANGED <<level, encoder_input, encoder_output>>

SetPriority(t, p) ==
    IF thread[t].queued
    THEN MoveTo(t, p)
    ELSE /\ thread' = [thread EXCEPT ![t].priority = p]
         /\ UNCHANGED <<level, encoder_input, encoder_output>>

(* Mutant of ChooseNext: the scheduling decision is not made again.          *)
ChooseNext_stale == UNCHANGED decision

(* Next_Thread_Valid is saved at the start and restored at the end.         *)
ChooseNext ==
    /\ next_thread_id' = IF encoder_input' = {} /\ idle_thread_valid
                         THEN idle_thread_id ELSE BestHead
    /\ UNCHANGED Next_Thread_Valid

(* allowed: the thread is used, and is the current thread or its child.     *)
(* The parameter is stored in any case.                                     *)
SET_SCHED_PARAM(t, v, allowed) ==
    /\ FSMIdle
    /\ param' = [param EXCEPT ![t] = IF Software(v) THEN SW ELSE v]
    /\ IF Software(v) /\ allowed
       THEN SetPriority(t, v) /\ ChooseNext
       ELSE UNCHANGED <<thread, level, encoder_input, encoder_output, decision>>
    /\ UNCHANGED <<idle, hw_start, current>>

(* CHECK_SCHED_PARAM, a read: a queued thread must be a software thread.    *)
CHECK_SCHED_PARAM(t) == thread[t].queued => param[t] = SW

(* SET_IDLE_THREAD.                                                         *)
MayBeIdle(t, used) == ~ thread[t].queued /\ used /\ param[t] = SW

SET_IDLE_THREAD(t, used) ==
    /\ FSMIdle
    /\ MayBeIdle(t, used)
    /\ idle_thread_id' = t
    /\ idle_thread_valid' = TRUE
    /\ Next_Thread_Valid' = TRUE
    /\ next_thread_id' = IF Next_Thread_Valid THEN next_thread_id ELSE t
    /\ UNCHANGED <<queue, hw_start, current>>

-----------------------------------------------------------------------------
(* How the thread manager and the CPU use the core.  ADD_THREAD enqueues    *)
(* after IS_QUEUED said no; YIELD and EXIT enqueue a thread that is not     *)
(* queued.  NEXT_THREAD and YIELD make the chosen thread current before     *)
(* they ask for DEQUEUE.                                                   *)
Enqueue(t) == ~ thread[t].queued /\ ENQ(t)

Dispatch ==
    /\ Next_Thread_Valid
    /\ current' = next_thread_id
    /\ DEQ(next_thread_id)

(* Only the thread on the CPU sets parameters: one that is not queued.  It   *)
(* gives no interface to two threads, and none to the idle thread, which     *)
(* init.c creates as a software thread.                                     *)
SetParam(t, v, allowed) ==
    /\ ~ thread[current].queued
    /\ v \in HWParams => t # IdleThread /\ \A u \in Threads \ {t} : param[u] # v
    /\ t = current => allowed
    /\ SET_SCHED_PARAM(t, v, allowed)

(* init.c sets the idle thread, once.                                       *)
SetIdle == ~ idle_thread_valid /\ SET_IDLE_THREAD(IdleThread, TRUE)

Other ==
    \/ \E t \in Threads : Enqueue(t)
    \/ SetIdle
    \/ Dispatch
    \/ ENQ_start_hw_thread_finished

(* A queued thread is moved only from an end of its list, to another list.  *)
AtAnEnd(t) ==
    LET e == level[thread[t].priority] IN t = e.head \/ t = e.tail

SafeToMove(t, v) ==
    thread[t].queued => Software(v) /\ AtAnEnd(t) /\ v # thread[t].priority

Next ==
    \/ Other
    \/ \E t \in Threads, v \in Priorities \cup HWParams, a \in BOOLEAN :
          SafeToMove(t, v) /\ SetParam(t, v, a)

Spec == Init /\ [][Next]_vars

(* Every call of hthread_setschedparam, whatever the state of the thread.   *)
NextAny ==
    \/ Other
    \/ \E t \in Threads, v \in Priorities \cup HWParams, a \in BOOLEAN :
          SetParam(t, v, a)

SpecAny == Init /\ [][NextAny]_vars

-----------------------------------------------------------------------------
(* Every register and BRAM field of the core keeps its range; at most one   *)
(* hardware thread is being started.                                       *)
TypeOK ==
    /\ thread \in [Threads -> [queued : BOOLEAN, priority : Priorities,
                              next : Threads, prev : Threads]]
    /\ level \in [Priorities -> [head : Threads, tail : Threads]]
    /\ param \in [Threads -> {SW} \cup HWParams]
    /\ encoder_input \subseteq Priorities
    /\ encoder_output \in Priorities
    /\ next_thread_id \in Threads /\ Next_Thread_Valid \in BOOLEAN
    /\ idle_thread_id \in Threads /\ idle_thread_valid \in BOOLEAN
    /\ hw_start \in {{}} \cup {{b} : b \in HWParams}
    /\ current \in Threads

(* The threads whose queue bit, which IS_QUEUED reads, is set.               *)
ReadyAt(p) == {t \in Threads : thread[t].queued /\ thread[t].priority = p}

NextLink == [t \in Threads |-> thread[t].next]

(* The list of priority p: its bit in the encoder says whether it is empty,  *)
(* and the links lead from its head to its tail and back.                   *)
ListExact(p) ==
    IF p \in encoder_input
    THEN /\ \E n \in 1 .. NumIDs : Chain(Threads, ReadyAt(p), n, level[p].head,
                                        level[p].tail, NextLink)
         /\ \A t \in ReadyAt(p) \ {level[p].tail} :
               thread[thread[t].next].prev = t
    ELSE ReadyAt(p) = {}

(* The queue bits agree with the lists, which ENQUEUE, DEQUEUE and           *)
(* SET_SCHED_PARAM mend: a thread is in the list of its own priority, once,  *)
(* if its bit is set, and in no list if it is not.                          *)
QueueBitsExact == \A p \in Priorities : ListExact(p)

(* Whenever a thread is ready the decision register holds a valid one: the   *)
(* first of the best priority, as the encoder and PRIORITY_DATA have it.     *)
NextIsBest ==
    encoder_input # {} =>
        /\ Next_Thread_Valid
        /\ encoder_output \in encoder_input
        /\ \A p \in encoder_input : encoder_output <= p
        /\ next_thread_id = level[encoder_output].head

(* The comment above the DEQUEUE and SET_SCHED_PARAM code takes head = tail *)
(* to mean that a list has one element: no other queued thread may then     *)
(* have the priority of the list.                                          *)
OneElementLevels ==
    \A p \in encoder_input : level[p].head = level[p].tail =>
        {t \in Threads : thread[t].queued /\ thread[t].priority = p}
           \subseteq {level[p].head}
=============================================================================
