----------------------------- MODULE MallocLock -----------------------------
(***************************************************************************)
(* The lock libc takes around malloc and free.  It is three registers of    *)
(* the scheduler core, which answers the request to acquire or release it   *)
(* with a bus read; the core's state machine serves one request at a time,  *)
(* so each is one step.  __malloc_lock repeats the read until the core says  *)
(* the thread holds the lock, and may do so again while it does.            *)
(*                                                                         *)
(* inside is the callers' view: how many __malloc_lock calls of a thread    *)
(* have returned that it has not undone.                                   *)
(***************************************************************************)
EXTENDS Naturals

CONSTANTS NumIDs,        \* 256 in the core
          CountSize      \* 2^4: the lock count has four bits

LockAssumption == NumIDs \in Nat \ {0} /\ CountSize \in Nat /\ CountSize > 2

Threads == 0 .. NumIDs - 1

(* What a free lock has for its holder is the number of the last thread.    *)
NoHolder == NumIDs - 1

VARIABLES malloc_mutex, malloc_mutex_holder, lock_count, inside

lock == <<malloc_mutex, malloc_mutex_holder, lock_count>>
vars == <<lock, inside>>

Init ==
    /\ malloc_mutex = 0
    /\ malloc_mutex_holder = NoHolder
    /\ lock_count = 0
    /\ inside = [t \in Threads |-> 0]

Counted == lock_count' = (lock_count + 1) % CountSize

(* Mutant of ACQUIRE: only the holder is compared, which a free lock has     *)
(* too.                                                                    *)
ACQUIRE_holder(t) ==
    IF malloc_mutex_holder \in {t, NoHolder}
    THEN Counted /\ malloc_mutex_holder' = t /\ malloc_mutex' = 1
    ELSE UNCHANGED lock

ACQUIRE(t) ==
    \/ /\ malloc_mutex = 0
       /\ malloc_mutex' = 1
       /\ malloc_mutex_holder' = t
       /\ Counted
    \/ /\ malloc_mutex = 1 /\ malloc_mutex_holder = t
       /\ Counted
       /\ UNCHANGED <<malloc_mutex, malloc_mutex_holder>>
    \/ /\ malloc_mutex = 1 /\ malloc_mutex_holder # t
       /\ UNCHANGED lock

(* The holder counts down.  The lock is free if the count is zero then,     *)
(* whoever asked.                                                          *)
RELEASE(t) ==
    /\ lock_count' = IF malloc_mutex_holder = t
                     THEN (lock_count + CountSize - 1) % CountSize
                     ELSE lock_count
    /\ IF lock_count' = 0
       THEN malloc_mutex' = 0 /\ malloc_mutex_holder' = NoHolder
       ELSE UNCHANGED <<malloc_mutex, malloc_mutex_holder>>

(* The core says 1 if the thread is the holder after the request.  libc     *)
(* nests less deeply than the count can tell apart.                        *)
__malloc_lock(t) ==
    /\ inside[t] < CountSize - 1
    /\ ACQUIRE(t)
    /\ inside' = IF malloc_mutex_holder' = t THEN [inside EXCEPT ![t] = @ + 1]
                 ELSE inside

__malloc_unlock(t) ==
    /\ inside[t] > 0
    /\ RELEASE(t)
    /\ inside' = [inside EXCEPT ![t] = @ - 1]

Next == \E t \in Threads : __malloc_lock(t) \/ __malloc_unlock(t)

Spec == Init /\ [][Next]_vars

-----------------------------------------------------------------------------
(* The registers tell who is in malloc and how deep: while the lock is       *)
(* taken that is the holder, as often as the count says, and nobody else;    *)
(* while it is free it is nobody.  So no two threads are in malloc at once,  *)
(* and the last __malloc_unlock frees the lock.                             *)
HolderInside ==
    /\ malloc_mutex = 1 <=> lock_count > 0
    /\ \A t \in Threads :
          inside[t] = IF malloc_mutex = 1 /\ t = malloc_mutex_holder
                      THEN lock_count ELSE 0
=============================================================================
