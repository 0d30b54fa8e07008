---------------------------- MODULE SynchManager ----------------------------
(***************************************************************************)
(* The synchronization manager core (axi_sync_manager_v1_00_a): the mutexes *)
(* and, for each, a FIFO of the threads that wait for it, linked through     *)
(* one next field per thread.  UNLOCK hands a mutex with waiters over to the *)
(* first of them; the master half of the core then has to add the new owner *)
(* to the ready queue with a bus read of its own, and keeps the owners it   *)
(* has not woken yet in a second list (send_first .. send_last).            *)
(*                                                                         *)
(* The slave serves one command at a time, so each command is one step.     *)
(* The master runs beside it: its bus read takes as long as the bus likes,  *)
(* and the fetch from its list two cycles (GETWAIT and GETDONE, here "GET") *)
(* in which it does not listen to the slave.                                *)
(*                                                                         *)
(* blocked and held are the callers' view: the mutex a thread was told to   *)
(* block on, and how often it has locked and not unlocked each mutex.       *)
(***************************************************************************)
EXTENDS Naturals, LinkedList

CONSTANTS NumThreads,    \* 256 in the core
          Mutexes,
          CountSize,     \* 2^8: the lock count has eight bits
          NoMutex, NoThread,
          UsedKinds      \* the kinds hthread_mutex_init is called with

ASSUME SynchAssumption ==
    /\ NumThreads \in Nat \ {0}
    /\ CountSize \in Nat /\ CountSize > 2
    /\ NoMutex \notin Mutexes /\ NoThread \notin Nat
    /\ UsedKinds \subseteq {"SYNCH_FAST", "SYNCH_RECURS", "SYNCH_ERROR"}

Threads == 0 .. NumThreads - 1

VARIABLES
    mutex,               \* the mutex store
    tnext,               \* the thread store
    snext,               \* the send store
    queue_cs, send_first, send_last, send_count,
    send_cs, send_cur,
    blocked, held

core == <<mutex, tnext>>
master == <<snext, queue_cs, send_first, send_last, send_count, send_cs,
            send_cur>>
callers == <<blocked, held>>
vars == <<core, master, callers>>

Kinds == {"SYNCH_FAST", "SYNCH_RECURS", "SYNCH_ERROR"}

Init ==
    /\ mutex = [m \in Mutexes |-> [owner |-> 0, next |-> 0, last |-> 0,
                                   count |-> 0, kind |-> "SYNCH_FAST"]]
    /\ tnext = [t \in Threads |-> 0]
    /\ snext = [t \in Threads |-> 0]
    /\ queue_cs = "IDLE"
    /\ send_first = 0 /\ send_last = 0 /\ send_count = 0
    /\ send_cs = "IDLE" /\ send_cur = 0
    /\ blocked = [t \in Threads |-> NoMutex]
    /\ held = [t \in Threads |-> [m \in Mutexes |-> 0]]

-----------------------------------------------------------------------------
(* What a command does to the entry of a mutex.                             *)
Free(m) == mutex[m].count = 0

(* Mutant of Recursive: the caller is not compared with the owner.           *)
Recursive_anyone(m, t) == mutex[m].kind = "SYNCH_RECURS"

Recursive(m, t) == mutex[m].kind = "SYNCH_RECURS" /\ mutex[m].owner = t

Taken(m, t) ==
    [mutex EXCEPT ![m] = [owner |-> t, next |-> t, last |-> t, count |-> 1,
                          kind |-> mutex[m].kind]]

Nested(m) == [mutex EXCEPT ![m].count = (@ + 1) % CountSize]

(* Acquire returned SUCCESS: t holds m once more.                           *)
Granted(m, t) ==
    /\ held' = [held EXCEPT ![t][m] = @ + 1]
    /\ UNCHANGED blocked

(* Mutant of WaitFor: the second waiter replaces the first.                  *)
WaitFor_first(m, t) ==
    /\ tnext' = [tnext EXCEPT ![t] = t]
    /\ mutex' = [mutex EXCEPT ![m].next = t, ![m].last = t]
    /\ blocked' = [blocked EXCEPT ![t] = m]
    /\ UNCHANGED held

(* The caller of LOCK is told to block and queues behind the last waiter.   *)
WaitFor(m, t) ==
    /\ IF mutex[m].next = mutex[m].owner
       THEN /\ tnext' = [tnext EXCEPT ![t] = t]
            /\ mutex' = [mutex EXCEPT ![m].next = t, ![m].last = t]
       ELSE /\ tnext' = [tnext EXCEPT ![mutex[m].last] = t, ![t] = t]
            /\ mutex' = [mutex EXCEPT ![m].last = t]
    /\ blocked' = [blocked EXCEPT ![t] = m]
    /\ UNCHANGED held

LOCK(m, t) ==
    /\ CASE Free(m) ->
              mutex' = Taken(m, t) /\ Granted(m, t) /\ UNCHANGED tnext
         [] ~ Free(m) /\ mutex[m].kind = "SYNCH_ERROR"
                      /\ mutex[m].owner = t ->
              UNCHANGED <<core, callers>>
         [] ~ Free(m) /\ Recursive(m, t) ->
              mutex' = Nested(m) /\ Granted(m, t) /\ UNCHANGED tnext
         [] OTHER -> WaitFor(m, t)
    /\ UNCHANGED master

TRYLOCK(m, t) ==
    /\ CASE Free(m) -> mutex' = Taken(m, t) /\ Granted(m, t)
         [] ~ Free(m) /\ Recursive(m, t) -> mutex' = Nested(m) /\ Granted(m, t)
         [] OTHER -> UNCHANGED <<mutex, callers>>
    /\ UNCHANGED <<tnext, master>>

(* Mutant of Send: the new owner is not linked behind the last one.          *)
Send_unlinked(t) ==
    /\ IF send_cs = "IDLE"
       THEN send_cs' = "SENDING" /\ send_cur' = t /\ UNCHANGED <<send_first, send_count>>
       ELSE /\ send_first' = IF send_count = 0 THEN t ELSE send_first
            /\ send_count' = (send_count + 1) % NumThreads
            /\ UNCHANGED <<send_cs, send_cur>>
    /\ send_last' = t
    /\ UNCHANGED <<snext, queue_cs>>

(* The hand-over pulse (send_ena, send_id) reaches queue_controller.  With  *)
(* the sender idle its list is empty: the thread is queued, fetched and      *)
(* taken off the list again before another command, five cycles long, can   *)
(* complete.  With the sender busy it is appended.  Outside IDLE             *)
(* queue_controller does not look at the pulse.                             *)
Send(t) ==
    IF queue_cs # "IDLE" THEN UNCHANGED master
    ELSE /\ IF send_cs = "IDLE"
            THEN /\ send_cs' = "SENDING"
                 /\ send_cur' = t
                 /\ send_first' = snext[t]
                 /\ UNCHANGED <<snext, send_count>>
            ELSE /\ IF send_count = 0
                    THEN send_first' = t /\ UNCHANGED snext
                    ELSE /\ snext' = [snext EXCEPT ![send_last] = t]
                         /\ UNCHANGED send_first
                 /\ send_count' = (send_count + 1) % NumThreads
                 /\ UNCHANGED <<send_cs, send_cur>>
         /\ send_last' = t
         /\ UNCHANGED queue_cs

(* Nobody waits: the mutex is free.  Somebody does: the first waiter owns   *)
(* it.  The core does not look at who the caller is.                        *)
HandsOver(m) ==
    /\ mutex[m].count = 1
    /\ mutex[m].last # mutex[m].owner

UNLOCK(m) ==
    /\ CASE mutex[m].kind = "SYNCH_RECURS" /\ mutex[m].count \notin {0, 1} ->
              mutex' = [mutex EXCEPT ![m].count = @ - 1] /\ UNCHANGED master
         [] mutex[m].count = 1 /\ ~ HandsOver(m) ->
              /\ mutex' = [mutex EXCEPT ![m].owner = 0, ![m].next = 0,
                                        ![m].last = 0, ![m].count = 0]
              /\ UNCHANGED master
         [] HandsOver(m) ->
              LET first == mutex[m].next
              IN  /\ mutex' = [mutex EXCEPT ![m].owner = first,
                                            ![m].next = tnext[first],
                                            ![m].count = 1]
                  /\ Send(first)
         [] OTHER -> UNCHANGED <<mutex, master>>
    /\ UNCHANGED tnext

(* A write to KIND, which hthread_mutex_init does.                          *)
KIND(m, k) ==
    /\ mutex' = [mutex EXCEPT ![m].kind = k]
    /\ UNCHANGED <<tnext, master, callers>>

-----------------------------------------------------------------------------
(* Mutant of SendDone: the list is not looked at again.                      *)
SendDone_once ==
    /\ send_cs = "SENDING" /\ queue_cs = "IDLE"
    /\ blocked' = [blocked EXCEPT ![send_cur] = NoMutex]
    /\ held' = IF blocked[send_cur] = NoMutex THEN held
               ELSE [held EXCEPT ![send_cur][blocked[send_cur]] = @ + 1]
    /\ send_cs' = "IDLE"
    /\ UNCHANGED <<core, snext, queue_cs, send_first, send_last, send_count,
                   send_cur>>

(* The read of ADD_THREAD completes: the thread is ready again and its lock *)
(* call returns.  If the list is not empty its first thread is fetched.     *)
SendDone ==
    /\ send_cs = "SENDING" /\ queue_cs = "IDLE"
    /\ blocked' = [blocked EXCEPT ![send_cur] = NoMutex]
    /\ held' = IF blocked[send_cur] = NoMutex THEN held
               ELSE [held EXCEPT ![send_cur][blocked[send_cur]] = @ + 1]
    /\ IF send_count = 0
       THEN send_cs' = "IDLE" /\ UNCHANGED <<queue_cs, send_cur>>
       ELSE /\ queue_cs' = "GET"
            /\ send_cur' = send_first
            /\ UNCHANGED send_cs
    /\ UNCHANGED <<core, snext, send_first, send_last, send_count>>

(* GETDONE: take the thread that was fetched off the list.                  *)
QueueGetDone ==
    /\ queue_cs = "GET"
    /\ send_first' = snext[send_first]
    /\ send_count' = (send_count + NumThreads - 1) % NumThreads
    /\ queue_cs' = "IDLE"
    /\ UNCHANGED <<core, callers, snext, send_last, send_cs, send_cur>>

-----------------------------------------------------------------------------
(* The callers: _syscall_mutex_lock, _syscall_mutex_trylock and             *)
(* _syscall_mutex_unlock of a thread that is not blocked.  A fast mutex is   *)
(* not locked twice, a recursive one fewer times than the counter can hold.  *)
Nests(m, t) == Recursive(m, t) => mutex[m].count < CountSize - 1

Lock(m, t) ==
    /\ blocked[t] = NoMutex
    /\ ~ (held[t][m] > 0 /\ mutex[m].kind = "SYNCH_FAST")
    /\ Nests(m, t)
    /\ LOCK(m, t)

Trylock(m, t) == blocked[t] = NoMutex /\ Nests(m, t) /\ TRYLOCK(m, t)

Unlock(m, t) ==
    /\ blocked[t] = NoMutex
    /\ UNLOCK(m)
    /\ held' = [held EXCEPT ![t][m] = IF @ > 0 THEN @ - 1 ELSE 0]
    /\ UNCHANGED blocked

(* The owner unlocks, and no fetch is under way when its command completes: *)
(* so it is on a bus that carries one transfer at a time, where the fetch   *)
(* that follows the master's own read is over before another command,       *)
(* which starts after that read, gets as far as the pulse.                  *)
OwnerUnlocks(m, t) == held[t][m] > 0 /\ queue_cs = "IDLE" /\ Unlock(m, t)

(* A mutex is initialized while nobody uses it.                             *)
InitMutex(m, k) == Free(m) /\ KIND(m, k)

MasterNext == SendDone \/ QueueGetDone

Next ==
    \/ \E m \in Mutexes, t \in Threads :
          Lock(m, t) \/ Trylock(m, t) \/ OwnerUnlocks(m, t)
    \/ \E m \in Mutexes, k \in UsedKinds : InitMutex(m, k)
    \/ MasterNext

Spec == Init /\ [][Next]_vars /\ WF_vars(MasterNext)

-----------------------------------------------------------------------------
(* Every field of the stores and of the master keeps its range.             *)
TypeOK ==
    /\ mutex \in [Mutexes -> [owner : Threads, next : Threads, last : Threads,
                              count : 0 .. CountSize - 1, kind : Kinds]]
    /\ tnext \in [Threads -> Threads] /\ snext \in [Threads -> Threads]
    /\ queue_cs \in {"IDLE", "GET"}
    /\ send_first \in Threads /\ send_last \in Threads
    /\ send_count \in 0 .. NumThreads - 1
    /\ send_cs \in {"IDLE", "SENDING"} /\ send_cur \in Threads
    /\ blocked \in [Threads -> Mutexes \cup {NoMutex}]
    /\ held \in [Threads -> [Mutexes -> Nat]]

(* A thread whose lock call returned, and that has not unlocked since, is   *)
(* the owner the core has on record, with the right count: the core gives   *)
(* the mutex to nobody else in the meantime.                                *)
HoldersOwn ==
    \A m \in Mutexes, t \in Threads : held[t][m] > 0 =>
        mutex[m].owner = t /\ mutex[m].count = held[t][m]

(* Threads asleep in a lock call: those that wait for their mutex, and those *)
(* UNLOCK has made its owner, which have to be woken.                       *)
Waiters(m) == {t \in Threads : blocked[t] = m /\ mutex[m].owner # t}

SleepingOwners ==
    {t \in Threads : \E m \in Mutexes : blocked[t] = m /\ mutex[m].owner = t}

(* LOCK and UNLOCK keep exactly the waiters of a mutex in its list.  Nobody  *)
(* waits for a free mutex.                                                  *)
WaitersLinked(m) ==
    IF Free(m) THEN \A t \in Threads : blocked[t] # m
    ELSE \E n \in 0 .. NumThreads :
            /\ Chain(Threads, Waiters(m), n, mutex[m].next, mutex[m].last, tnext)
            /\ IF n = 0 THEN mutex[m].next = mutex[m].owner
                             /\ mutex[m].last = mutex[m].owner
               ELSE tnext[mutex[m].last] = mutex[m].last

(* The master keeps exactly the owners to be woken in its list, but for the *)
(* one it has taken off and is sending.                                     *)
Sending == send_cs = "SENDING" /\ queue_cs = "IDLE"

OwnersLinked ==
    /\ Chain(Threads, SleepingOwners \ (IF Sending THEN {send_cur} ELSE {}),
             send_count, send_first, send_last, snext)
    /\ send_cs = "IDLE" => send_count = 0 /\ queue_cs = "IDLE"
    /\ send_cs = "SENDING" => send_cur \in SleepingOwners
    /\ queue_cs = "GET" => send_count > 0 /\ send_cur = send_first

(* No thread asleep in a lock call is forgotten or woken twice: it is in the *)
(* list of its mutex, once, until it owns it, and then in the send list or  *)
(* on the bus, once, until it is woken.  Both lists link threads by number,  *)
(* through one link per thread.                                             *)
WakeupsExact == OwnersLinked /\ \A m \in Mutexes : WaitersLinked(m)

(* The owner that UNLOCK chose among the sleeping threads is woken up and   *)
(* returns from its lock call.                                             *)
GrantedWakesUp ==
    \A m \in Mutexes, t \in Threads :
        (blocked[t] = m /\ mutex[m].owner = t) ~> blocked[t] = NoMutex

-----------------------------------------------------------------------------
(* What the mutexes are to the threads.                                     *)
Owner(m) == IF Free(m) THEN NoThread ELSE mutex[m].owner
Waiting(m) == ListOf(NumThreads, Waiters(m), mutex[m].next, mutex[m].last, tnext)
Asleep == {t \in Threads : blocked[t] # NoMutex}

M == INSTANCE Mutex WITH
        owner   <- [m \in Mutexes |-> Owner(m)],
        depth   <- [m \in Mutexes |-> mutex[m].count],
        waiting <- [m \in Mutexes |-> Waiting(m)],
        asleep  <- Asleep

(* The linked lists of LOCK and UNLOCK behave as FIFO mutexes.              *)
ImplementsMutex == M!Spec
=============================================================================
