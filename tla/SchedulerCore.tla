--------------------------- MODULE SchedulerCore ---------------------------
(* The two halves of the scheduler core: ready queue and malloc lock.  They  *)
(* share no register, and the state machine serves a request of either one  *)
(* at a time, so each is explored with the other as reset leaves it.        *)
EXTENDS Scheduler

CONSTANTS CountSize, NoThread

ASSUME CoreAssumption == NoThread \notin Nat

VARIABLES locking,       \* the half that is explored
          malloc_mutex, malloc_mutex_holder, lock_count, inside

Lock == INSTANCE MallocLock

lockVars == <<malloc_mutex, malloc_mutex_holder, lock_count, inside>>

CoreInit == Init /\ Lock!Init /\ locking \in BOOLEAN

CoreNext ==
    \/ ~ locking /\ Next /\ UNCHANGED <<locking, lockVars>>
    \/ locking /\ Lock!Next /\ UNCHANGED <<locking, vars>>

CoreSpec == CoreInit /\ [][CoreNext]_<<vars, locking, lockVars>>

(* The registers of the malloc lock tell who is in malloc and how deep: the  *)
(* holder, as often as the count says, and nobody else.                     *)
HolderInside == Lock!HolderInside

-----------------------------------------------------------------------------
(* The list of priority p, from its head to its tail.                       *)
Queue(p) == ListOf(NumIDs, ReadyAt(p), level[p].head, level[p].tail, NextLink)

RQ == INSTANCE ReadyQueue WITH
         ready    <- [p \in Priorities |-> Queue(p)],
         priority <- [t \in Threads |-> thread[t].priority],
         idle     <- IF idle_thread_valid THEN idle_thread_id ELSE NoThread,
         next     <- IF Next_Thread_Valid THEN next_thread_id ELSE NoThread

(* The linked lists, the encoder and the decision registers of the core     *)
(* behave as FIFOs under ENQUEUE, DEQUEUE and SET_SCHED_PARAM.              *)
ImplementsReadyQueue == RQ!Spec
=============================================================================
