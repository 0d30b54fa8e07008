------------------------------- MODULE Kernel -------------------------------
(***************************************************************************)
(* One MicroBlaze running the system call layer on top of the thread       *)
(* manager and the scheduler, with hardware threads and the cores that     *)
(* wake waiting threads on the same bus.                                   *)
(*                                                                         *)
(* Two interconnects carry one transfer at a time each, and have no          *)
(* priorities.  Every access to the cores goes over core_bus_slave: a        *)
(* transaction with the thread manager holds it from its first step to the  *)
(* last (owner).  The masters of the cores first need core_bus_master: a     *)
(* synchronisation core, which adds the thread it wakes, keeps it until the *)
(* transaction is over (granted), and the scheduler needs it alone to write *)
(* the start command of a hardware thread.                                  *)
(*                                                                         *)
(* A system call runs with interrupts disabled: cpu says at which of its    *)
(* bus transactions it is.  The contexts are kept as the point where each   *)
(* thread resumes.                                                         *)
(***************************************************************************)
EXTENDS Naturals, FiniteSets

CONSTANTS NumIDs, NumPriorities, DefaultPri, HWParams, SW, IdleThread,
          None,          \* no bus master, or no thread
          Attrs          \* what programs create: <<detached, parameter>>

ASSUME KernelAssumption ==
    Attrs \subseteq {0, 1} \X ((0 .. NumPriorities - 1) \cup HWParams)

VARIABLES
    entry, stack, next_ID, current_cpu_thread, state, addr, tm2sch,
    bus_data_out,                                     \* the thread manager
    thread, level, param, encoder_input, encoder_output, next_thread_id,
    Next_Thread_Valid, idle_thread_id, idle_thread_valid,
    hw_start,                                         \* the scheduler
    Sch2Tm_Data,   \* the scheduler's last answer to the thread manager
    owner,         \* the master whose transaction the thread manager serves
    granted,       \* the thread being woken by the core that has core_bus_master
    cpu,           \* the step of the system call or handler the CPU is at
    on,            \* the thread whose context is loaded on the CPU
    context,       \* where each software thread resumes
    abandoned,     \* threads _syscall_create returned an error for
    waiting,       \* threads linked as waiters in a synchronisation core
    irq,           \* the preemption bit of the interrupt controller
    hw             \* the hardware thread behind each interface

TM == INSTANCE ThreadManager
Sch == INSTANCE Scheduler WITH current <- current_cpu_thread.id

tm == <<entry, stack, next_ID, current_cpu_thread, state, addr, tm2sch,
        bus_data_out>>
sch == <<thread, level, param, encoder_input, encoder_output, next_thread_id,
         Next_Thread_Valid, idle_thread_id, idle_thread_valid, hw_start>>
soft == <<on, context, abandoned>>
lines == <<Sch2Tm_Data, irq>>
bus == <<owner, granted>>
vars == <<tm, sch, lines, bus, cpu, soft, waiting, hw>>

IDs == TM!IDs
Priorities == Sch!Priorities
Main == 0
current == current_cpu_thread.id

-----------------------------------------------------------------------------
(* Where the CPU is: at names the step, th and v its thread and scheduling  *)
(* parameter, k what follows once the scheduler has run.                    *)
User == [at |-> "user", th |-> 0, v |-> SW, det |-> 0, k |-> "user"]

At(s, th, k) == [User EXCEPT !.at = s, !.th = th, !.k = k]

NoContext == [at |-> "none", th |-> 0]

(* hthread_init: the main thread is current, the idle thread is next.       *)
Init ==
    /\ entry = [t \in IDs |-> IF t \in {Main, IdleThread}
                              THEN [TM!UnusedEntry EXCEPT !.status = "running",
                                                          !.detached = 1]
                              ELSE TM!UnusedEntry]
    /\ stack = [i \in IDs |-> i]
    /\ next_ID = 2
    /\ current_cpu_thread = [id |-> Main, bad |-> 0]
    /\ state = "IDLE_STATE"
    /\ addr = 0
    /\ tm2sch = TM!NoRequest
    /\ bus_data_out = TM!Zeroes
    /\ thread = [t \in IDs |->
                   [queued |-> FALSE, next |-> 0, prev |-> 0,
                    priority |-> IF t = IdleThread THEN NumPriorities - 1
                                 ELSE DefaultPri]]
    /\ level = [p \in Priorities |-> [head |-> Main, tail |-> Main]]
    /\ param = [t \in IDs |-> SW]
    /\ encoder_input = {}
    /\ encoder_output = DefaultPri
    /\ next_thread_id = IdleThread
    /\ Next_Thread_Valid = TRUE
    /\ idle_thread_id = IdleThread
    /\ idle_thread_valid = TRUE
    /\ hw_start = {}
    /\ Sch2Tm_Data = 0
    /\ owner = None
    /\ granted = None
    /\ cpu = User
    /\ on = Main
    /\ context = [t \in IDs |-> IF t = IdleThread THEN [at |-> "user", th |-> 0]
                                ELSE NoContext]
    /\ abandoned = {}
    /\ waiting = {}
    /\ irq = FALSE
    /\ hw = [h \in HWParams |-> [at |-> "wait", tid |-> 0, go |-> FALSE]]

-----------------------------------------------------------------------------
(* The scheduler's FSM serves the request of the thread manager.  An        *)
(* enqueued software thread may raise the preemption line.                  *)
ServeEnqueue ==
    /\ tm2sch.op = "ENQUEUE"
    /\ TM!SchedulerAnswers
    /\ Sch!ENQ(tm2sch.data)
    /\ Sch2Tm_Data' = Sch!ENQ_answer(tm2sch.data)
    /\ irq' = (irq \/ (param[tm2sch.data] = SW /\ Sch!Preempts))
    /\ UNCHANGED <<bus, cpu, soft, waiting, hw>>

ServeDequeue ==
    /\ tm2sch.op = "DEQUEUE"
    /\ TM!SchedulerAnswers
    /\ Sch!DEQ(current)
    /\ Sch2Tm_Data' = Sch!DEQ_answer
    /\ UNCHANGED <<irq, bus, cpu, soft, waiting, hw>>

ServeQuestion ==
    /\ tm2sch.op \in {"IS_QUEUED", "IS_EMPTY"}
    /\ Sch!FSMIdle
    /\ TM!SchedulerAnswers
    /\ Sch2Tm_Data' = IF tm2sch.op = "IS_QUEUED"
                      THEN Sch!IS_QUEUED_answer(tm2sch.data)
                      ELSE Sch!IS_EMPTY_answer
    /\ UNCHANGED <<sch, irq, bus, cpu, soft, waiting, hw>>

(* The thread manager goes on with the scheduler's answer.                  *)
Continue ==
    /\ \/ TM!AtCheckIsQueue(Sch2Tm_Data)
       \/ TM!AtCheckEnqueue(Sch2Tm_Data)
       \/ TM!ExitCheckEnqueue(Sch2Tm_Data)
       \/ TM!NextThreadCheckDequeue(Sch2Tm_Data)
       \/ TM!YieldCheckQueueEmpty(Sch2Tm_Data)
       \/ TM!YieldCheckEnqueue(Sch2Tm_Data, next_thread_id)
       \/ TM!YieldCheckDequeue(Sch2Tm_Data)
    /\ Sch2Tm_Data' = 0
    /\ UNCHANGED <<sch, irq, bus, cpu, soft, waiting, hw>>

(* core_bus_master is free for the scheduler's own write.                   *)
StartWrite ==
    /\ granted = None
    /\ UNCHANGED tm
    /\ Sch!ENQ_start_hw_thread_finished
    /\ hw' = [h \in HWParams |-> IF h \in hw_start
                                 THEN [hw[h] EXCEPT !.go = TRUE] ELSE hw[h]]
    /\ UNCHANGED <<lines, bus, cpu, soft, waiting>>

Cores == ServeEnqueue \/ ServeDequeue \/ ServeQuestion \/ Continue \/ StartWrite

-----------------------------------------------------------------------------
(* The CPU starts a transaction with the thread manager, and takes its word. *)
Calls(c) ==
    /\ owner' = "cpu"
    /\ cpu' = c
    /\ UNCHANGED <<sch, lines, granted, soft, waiting, hw>>

Takes(s) ==
    /\ owner = "cpu"
    /\ cpu.at = s
    /\ TM!EndTransactionWait
    /\ owner' = None
    /\ UNCHANGED <<sch, Sch2Tm_Data, granted, waiting>>

InUser == cpu.at = "user"

(* The thread on the CPU may enter a system call, with which interrupts are *)
(* disabled; the idle thread only ever calls hthread_sched.                 *)
MayCall == InUser /\ on # IdleThread

(* _switch_context and _restore_context: curr is saved to resume at k, or    *)
(* abandoned, and next continues where it stopped.                         *)
Resume(c) == At(c.at, c.th, "user")

Switch(curr, next, saved) ==
    /\ context' = [context EXCEPT ![curr] = saved, ![next] = NoContext]
    /\ on' = next
    /\ cpu' = Resume(context[next])
    /\ UNCHANGED abandoned

Saved == [at |-> cpu.k, th |-> cpu.th]

(* No switch: the system call goes on; _syscall_exit would return.          *)
Stay ==
    /\ cpu' = IF cpu.k = "exited" THEN User ELSE Resume(Saved)
    /\ UNCHANGED soft

(* _syscall_create.  The program gives a hardware interface to one running  *)
(* thread at a time.                                                       *)
InterfaceFree(h) ==
    \A t \in IDs : param[t] = h => entry[t].status # "running"

CreateThread(det, v) ==
    /\ MayCall
    /\ v \in HWParams => InterfaceFree(v)
    /\ TM!CreateThread(det)
    /\ Calls([User EXCEPT !.at = "created", !.v = v])

(* _setup_thread.                                                           *)
SetupThread(t, v) ==
    IF v \in HWParams
    THEN /\ hw' = [hw EXCEPT ![v].tid = t, ![v].go = FALSE]
         /\ UNCHANGED context
    ELSE /\ context' = [context EXCEPT ![t] = [at |-> "user", th |-> 0]]
         /\ UNCHANGED hw

(* The stack size of a software thread may be refused (~ ok): the call      *)
(* returns and leaves the new thread in the table.                         *)
Created(ok) ==
    LET t == bus_data_out.id
    IN  /\ Takes("created")
        /\ CASE bus_data_out.code # "OK" ->
                  cpu' = User /\ UNCHANGED <<context, abandoned, hw>>
             [] bus_data_out.code = "OK" /\ (ok \/ cpu.v \in HWParams) ->
                  /\ SetupThread(t, cpu.v)
                  /\ cpu' = [cpu EXCEPT !.at = "setparam", !.th = t]
                  /\ UNCHANGED abandoned
             [] OTHER ->
                  /\ cpu' = User
                  /\ abandoned' = abandoned \cup {t}
                  /\ UNCHANGED <<context, hw>>
        /\ UNCHANGED <<irq, on>>

(* Mutant of Allowed: a thread may change its own parameter only.           *)
Allowed_self(t) == entry[t].status # "unused" /\ t = current

(* SET_SCHED_PARAM reads the entry of the thread in the thread manager.     *)
Allowed(t) == /\ entry[t].status # "unused"
              /\ t = current \/ entry[t].pid = current

SetSchedParam ==
    /\ cpu.at = "setparam"
    /\ owner = None
    /\ UNCHANGED tm
    /\ Sch!SET_SCHED_PARAM(cpu.th, cpu.v, Allowed(cpu.th))
    /\ irq' = (irq \/ (Sch!Software(cpu.v) /\ Allowed(cpu.th) /\ Sch!Preempts))
    /\ cpu' = [cpu EXCEPT !.at = "checkparam"]
    /\ UNCHANGED <<Sch2Tm_Data, bus, soft, waiting, hw>>

AddThread ==
    /\ cpu.at = "checkparam"
    /\ IF Sch!CHECK_SCHED_PARAM(cpu.th)
       THEN /\ TM!AddThread(cpu.th)
            /\ Calls([cpu EXCEPT !.at = "added"])
       ELSE /\ owner = None
            /\ cpu' = User
            /\ abandoned' = abandoned \cup {cpu.th}
            /\ UNCHANGED <<tm, sch, lines, bus, on, context, waiting, hw>>

(* After an error _destroy_thread and then _clear_thread clear the thread:  *)
(* the second CLEAR does nothing the first has not done.                    *)
Added ==
    /\ Takes("added")
    /\ cpu' = IF bus_data_out.code = "OK" THEN User
              ELSE At("clear", cpu.th, "user")
    /\ UNCHANGED <<irq, soft, hw>>

ClearThread ==
    /\ cpu.at = "clear"
    /\ TM!ClearThread(cpu.th)
    /\ Calls([cpu EXCEPT !.at = "cleared"])

Cleared ==
    /\ Takes("cleared")
    /\ cpu' = IF cpu.k = "user" THEN User ELSE At("sched", 0, cpu.k)
    /\ UNCHANGED <<irq, soft, hw>>

(* _syscall_join.                                                           *)
JoinThread(t) ==
    /\ MayCall
    /\ TM!JoinThread(t)
    /\ Calls(At("joined", t, "user"))

(* Mutant of Joined: the scheduler is not run.                              *)
Joined_unblocked ==
    /\ Takes("joined")
    /\ cpu' = IF bus_data_out.code \in {"OK", "THREAD_ALREADY_TERMINATED"}
              THEN At("reap", cpu.th, "user") ELSE User
    /\ UNCHANGED <<irq, soft, hw>>

Joined ==
    /\ Takes("joined")
    /\ cpu' = CASE bus_data_out.code = "OK" -> At("sched", cpu.th, "reap")
                [] bus_data_out.code = "THREAD_ALREADY_TERMINATED" ->
                     At("reap", cpu.th, "user")
                [] OTHER -> User
    /\ UNCHANGED <<irq, soft, hw>>

(* The joined thread has exited: it is destroyed unless it is detached.     *)
Reap ==
    /\ cpu.at = "reap"
    /\ IF TM!IsDetached(cpu.th)
       THEN /\ owner = None
            /\ cpu' = User
            /\ UNCHANGED <<tm, sch, lines, bus, soft, waiting, hw>>
       ELSE /\ TM!ClearThread(cpu.th)
            /\ Calls(At("cleared", cpu.th, "user"))

(* _run_sched, which _syscall_sched, the idle thread's only call, runs too. *)
NextThread ==
    /\ cpu.at = "sched" \/ (InUser /\ on = IdleThread)
    /\ TM!NextThread(Next_Thread_Valid, next_thread_id)
    /\ Calls([cpu EXCEPT !.at = "next"])

RunSched ==
    LET next == bus_data_out.id
    IN  /\ Takes("next")
        /\ IF current # next \/ on = next
           THEN Stay
           ELSE Switch(on, next, IF cpu.k = "exited" THEN NoContext ELSE Saved)
        /\ UNCHANGED <<irq, hw>>

(* _syscall_yield, and the yield of the interrupt handler.                  *)
YieldThread(k) ==
    /\ \/ k = "user" /\ MayCall
       \/ k = "ack" /\ InUser /\ irq
       \/ k = "exit" /\ cpu.at = "yield"
    /\ TM!YieldThread
    /\ Calls(At("yielded", 0, k))

Yielded ==
    LET next == bus_data_out.id
    IN  /\ Takes("yielded")
        /\ CASE cpu.k = "ack" -> /\ cpu' = At("ack", next, "user")
                                 /\ UNCHANGED soft
             [] cpu.k # "ack" /\ on = next -> Stay
             [] OTHER -> Switch(on, next, Saved)
        /\ UNCHANGED <<irq, hw>>

(* Mutant of Acknowledge: the handler returns to the thread it stopped.     *)
Acknowledge_unswitched ==
    /\ cpu.at = "ack"
    /\ irq' = FALSE
    /\ cpu' = User
    /\ UNCHANGED <<tm, sch, Sch2Tm_Data, bus, soft, waiting, hw>>

(* The handler acknowledges the interrupt after it has yielded.             *)
Acknowledge ==
    /\ cpu.at = "ack"
    /\ irq' = FALSE
    /\ IF on = cpu.th
       THEN cpu' = User /\ UNCHANGED soft
       ELSE Switch(on, cpu.th, [at |-> "user", th |-> 0])
    /\ UNCHANGED <<tm, sch, Sch2Tm_Data, bus, waiting, hw>>

(* _syscall_exit.  A thread whose EXIT fails yields and tries again.        *)
ExitThread ==
    /\ cpu.at = "exit" \/ MayCall
    /\ TM!ExitThread(current)
    /\ Calls([At("exiting", current, "exited") EXCEPT
                 !.det = IF TM!IsDetached(current) THEN 1 ELSE 0])

(* Mutant of Exited: a detached thread is not destroyed.                    *)
Exited_kept ==
    /\ Takes("exiting")
    /\ cpu' = At("sched", 0, "exited")
    /\ UNCHANGED <<irq, soft, hw>>

Exited ==
    /\ Takes("exiting")
    /\ cpu' = CASE bus_data_out.code # "OK" -> At("yield", 0, "user")
                [] bus_data_out.code = "OK" /\ cpu.det = 1 ->
                     At("clear", cpu.th, "exited")
                [] OTHER -> At("sched", 0, "exited")
    /\ UNCHANGED <<irq, soft, hw>>

(* A mutex that is taken or a condition that has not been signalled: the    *)
(* core links the thread, then the scheduler is run.                        *)
Wait ==
    /\ MayCall
    /\ owner = None
    /\ waiting' = waiting \cup {on}
    /\ cpu' = At("sched", 0, "user")
    /\ UNCHANGED <<tm, sch, lines, bus, soft, hw>>

-----------------------------------------------------------------------------
(* A synchronisation core is granted core_bus_master for a waiting thread.   *)
Grant(t) ==
    /\ granted = None
    /\ t \in waiting
    /\ granted' = t
    /\ UNCHANGED <<tm, sch, lines, owner, cpu, soft, waiting, hw>>

(* Mutant of Wake: the thread stays linked as a waiter.                     *)
Wake_linked(t) ==
    /\ granted = t
    /\ TM!AddThread(t)
    /\ owner' = "core"
    /\ UNCHANGED <<sch, lines, granted, cpu, soft, waiting, hw>>

(* It hands the thread to the thread manager.                               *)
Wake(t) ==
    /\ granted = t
    /\ TM!AddThread(t)
    /\ owner' = "core"
    /\ waiting' = waiting \ {t}
    /\ UNCHANGED <<sch, lines, granted, cpu, soft, hw>>

Woken ==
    /\ owner = "core"
    /\ TM!EndTransactionWait
    /\ owner' = None /\ granted' = None
    /\ UNCHANGED <<sch, lines, cpu, soft, waiting, hw>>

(* Mutant of Go: the command stays in the register.                         *)
Go_latched(h) ==
    /\ hw[h].at = "wait"
    /\ hw[h].go
    /\ hw' = [hw EXCEPT ![h].at = "run"]
    /\ UNCHANGED <<tm, sch, lines, bus, cpu, soft, waiting>>

(* The nanokernel: wait_for_go_command, at the start and in a mutex lock,   *)
(* takes the command out of the register.                                  *)
Go(h) ==
    /\ hw[h].at = "wait"
    /\ hw[h].go
    /\ hw' = [hw EXCEPT ![h].at = "run", ![h].go = FALSE]
    /\ UNCHANGED <<tm, sch, lines, bus, cpu, soft, waiting>>

HWWait(h) ==
    /\ hw[h].at = "run"
    /\ owner = None
    /\ waiting' = waiting \cup {hw[h].tid}
    /\ hw' = [hw EXCEPT ![h].at = "wait"]
    /\ UNCHANGED <<tm, sch, lines, bus, cpu, soft>>

HWExit(h) ==
    /\ hw[h].at = "run"
    /\ TM!ExitThread(hw[h].tid)
    /\ owner' = h
    /\ hw' = [hw EXCEPT ![h].at = "exit"]
    /\ UNCHANGED <<sch, lines, granted, cpu, soft, waiting>>

HWExited(h) ==
    /\ owner = h
    /\ TM!EndTransactionWait
    /\ owner' = None
    /\ hw' = [hw EXCEPT ![h].at = "wait"]
    /\ UNCHANGED <<sch, lines, granted, cpu, soft, waiting>>

-----------------------------------------------------------------------------
(* The steps that put a transfer on the bus, and those that do not.         *)
Transfers ==
    \/ \E a \in Attrs : CreateThread(a[1], a[2])
    \/ \E t \in IDs : JoinThread(t)
    \/ \E k \in {"user", "ack", "exit"} : YieldThread(k)
    \/ SetSchedParam \/ AddThread \/ ClearThread \/ Reap \/ NextThread
    \/ ExitThread \/ Wait
    \/ \E t \in IDs : Grant(t) \/ Wake(t)
    \/ \E h \in HWParams : HWWait(h) \/ HWExit(h)

Answers ==
    \/ \E ok \in BOOLEAN : Created(ok)
    \/ Added \/ Cleared \/ Joined \/ RunSched \/ Yielded \/ Exited
    \/ Acknowledge \/ Woken
    \/ \E h \in HWParams : Go(h) \/ HWExited(h)

Next == Cores \/ Answers \/ Transfers

Spec == Init /\ [][Next]_vars

(* The state machines of the cores are clocked, and a master whose transfer *)
(* has been acknowledged goes on.                                           *)
Progress == WF_vars(Cores \/ Answers)

(* An interconnect without priorities serves its masters in turn: the core  *)
(* that waits for core_bus_slave gets it.                                    *)
Arbitration == SF_vars(\E t \in IDs : Wake(t))

-----------------------------------------------------------------------------
(* Outside the kernel the CPU runs the thread the thread manager calls      *)
(* current, and that thread is a software thread that has not exited.       *)
RunsCurrent ==
    InUser => /\ on = current
              /\ entry[on].status = "running"
              /\ param[on] = SW
              /\ on \notin waiting

(* A thread the scheduler may dispatch can be resumed: it has not exited,   *)
(* waits for nobody and has a context, on the CPU or saved.                 *)
QueuedCanRun ==
    \A t \in IDs : thread[t].queued =>
        /\ entry[t].status = "running"
        /\ param[t] = SW
        /\ t \notin waiting
        /\ t = on \/ context[t] # NoContext

(* YIELD and EXIT enqueue without asking IS_QUEUED, and DEQUEUE takes the   *)
(* head off the list of the current thread: the scheduler is only asked to  *)
(* enqueue a thread that is not queued, and to dequeue the thread it chose. *)
RequestsFit ==
    /\ tm2sch.op = "ENQUEUE" => ~ thread[tm2sch.data].queued
    /\ tm2sch.op = "DEQUEUE" =>
          \/ /\ current = level[encoder_output].head
             /\ thread[current].priority = encoder_output
             /\ thread[current].queued
          \/ encoder_input = {} /\ current = IdleThread

(* Threads that are being created, or on their way into the ready queue.    *)
BeingReadied ==
    {t \in IDs : \/ cpu.at = "created" /\ bus_data_out = [code |-> "OK", id |-> t]
                 \/ cpu.at \in {"setparam", "checkparam"} /\ cpu.th = t
                 \/ state = "AT_CHECK_ISQUEUE" /\ addr = t
                 \/ tm2sch.op = "ENQUEUE" /\ tm2sch.data = t}

Joining == {t \in IDs : \E c \in IDs : /\ entry[c].status = "running"
                                       /\ entry[c].joined = 1
                                       /\ entry[c].pid = t}

(* No thread is forgotten: a software thread that has not exited is on the  *)
(* CPU or dispatched, in the ready queue or on its way there, waiting in a  *)
(* synchronisation core, or waiting for a thread it has joined.             *)
NoThreadLost ==
    \A t \in IDs \ (abandoned \cup {on, current, IdleThread}) :
        (entry[t].status = "running" /\ param[t] = SW) =>
            thread[t].queued \/ t \in waiting \cup BeingReadied \cup Joining

(* "At this point the thread we are joining is guaranteed to have exited":  *)
(* whenever a join goes on to destroy the thread, on whichever path.        *)
JoinedHasExited ==
    /\ cpu.at = "reap" => entry[cpu.th].status = "exited"
    /\ \A t \in IDs : (context[t].at = "reap" /\ thread[t].queued) =>
                         entry[context[t].th].status = "exited"

(* The start command is a flag in a register: it finds the hardware thread  *)
(* waiting for it and is not written twice, and a hardware thread that has  *)
(* been added runs, is being started, or waits in a synchronisation core.   *)
NoStartLost ==
    \A h \in HWParams :
        /\ ~ (h \in hw_start /\ hw[h].go)
        /\ (h \in hw_start \/ hw[h].go) => hw[h].at = "wait"
        /\ \A t \in IDs \ abandoned :
              (entry[t].status = "running" /\ param[t] = h) =>
                 \/ hw[h].at = "run" \/ hw[h].go \/ h \in hw_start
                 \/ t \in waiting \cup BeingReadied

(* A synchronisation core has core_bus_master while the scheduler waits for *)
(* it, and will itself wait for the scheduler.                              *)
Overtaken == granted # None /\ hw_start # {}

(* A transaction with the thread manager ends, unless the scheduler's write *)
(* has been overtaken: the scheduler serves every request, and NEXT_THREAD   *)
(* always finds a thread.                                                   *)
BusFreed == (owner # None) ~> (owner = None \/ Overtaken)

(* The scheduler has told the thread manager it is done "freeing [the bus]  *)
(* so that we can make a master transaction": the write is made.            *)
StartWritten == (hw_start # {}) ~> (hw_start = {})

(* "The thread is created with attributes taken from the attr argument": a  *)
(* software thread has its priority before it is added to the ready queue,  *)
(* although the scheduler takes it only from the parent of the thread.  A   *)
(* detached thread has parent 0, so the main thread has to create it.       *)
PriorityApplied ==
    (/\ cpu.at = "checkparam" /\ cpu.v \in Priorities
     /\ entry[cpu.th].detached = 0 \/ current = Main) =>
        thread[cpu.th].priority = cpu.v

(* "If the currently running thread is in the detached state then the       *)
(* resources used by the thread will be deallocated immediately": once its  *)
(* exit is over no detached software thread is in the table.  The           *)
(* nanokernel never clears a hardware thread.                               *)
DetachedFreed ==
    InUser => \A t \in IDs : (entry[t].detached = 1 /\ param[t] = SW) =>
                                entry[t].status # "exited"

(* "A preemption from the scheduler, indicating there should be a context   *)
(* switch": while a thread that is better than the running one is queued,   *)
(* the interrupt is pending.                                               *)
PreemptionPending ==
    (InUser /\ on # IdleThread) =>
              \/ irq
              \/ \A t \in IDs : thread[t].queued =>
                     thread[t].priority >= thread[on].priority
=============================================================================
