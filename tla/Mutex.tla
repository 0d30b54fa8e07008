------------------------------- MODULE Mutex -------------------------------
(***************************************************************************)
(* What the synchronization manager promises: each mutex has at most one    *)
(* owner, who may hold it several times, and a FIFO of sleeping threads;     *)
(* the owner's last release hands the mutex to the thread that has waited    *)
(* longest, which then wakes up.                                            *)
(***************************************************************************)
EXTENDS Naturals, Sequences

CONSTANTS Threads, Mutexes, NoThread

VARIABLES owner, depth, waiting, asleep

vars == <<owner, depth, waiting, asleep>>

Init ==
    /\ owner = [m \in Mutexes |-> NoThread]
    /\ depth = [m \in Mutexes |-> 0]
    /\ waiting = [m \in Mutexes |-> <<>>]
    /\ asleep = {}

Take(m, t) ==
    /\ owner[m] = NoThread /\ t \notin asleep
    /\ owner' = [owner EXCEPT ![m] = t]
    /\ depth' = [depth EXCEPT ![m] = 1]
    /\ UNCHANGED <<waiting, asleep>>

TakeAgain(m, t) ==
    /\ owner[m] = t /\ t \notin asleep
    /\ depth' = [depth EXCEPT ![m] = @ + 1]
    /\ UNCHANGED <<owner, waiting, asleep>>

Sleep(m, t) ==
    /\ owner[m] \notin {NoThread, t} /\ t \notin asleep
    /\ asleep' = asleep \cup {t}
    /\ waiting' = [waiting EXCEPT ![m] = Append(@, t)]
    /\ UNCHANGED <<owner, depth>>

Release(m, t) ==
    /\ owner[m] = t /\ t \notin asleep
    /\ UNCHANGED asleep
    /\ IF depth[m] > 1
       THEN depth' = [depth EXCEPT ![m] = @ - 1] /\ UNCHANGED <<owner, waiting>>
       ELSE IF waiting[m] = <<>>
       THEN /\ owner' = [owner EXCEPT ![m] = NoThread]
            /\ depth' = [depth EXCEPT ![m] = 0]
            /\ UNCHANGED waiting
       ELSE /\ owner' = [owner EXCEPT ![m] = Head(waiting[m])]
            /\ waiting' = [waiting EXCEPT ![m] = Tail(@)]
            /\ UNCHANGED depth

WakeUp(t) ==
    /\ t \in asleep /\ \E m \in Mutexes : owner[m] = t
    /\ asleep' = asleep \ {t}
    /\ \A m \in Mutexes : \A i \in 1 .. Len(waiting[m]) : waiting[m][i] # t
    /\ UNCHANGED <<owner, depth, waiting>>

Next ==
    \/ \E m \in Mutexes, t \in Threads :
          Take(m, t) \/ TakeAgain(m, t) \/ Sleep(m, t) \/ Release(m, t)
    \/ \E t \in Threads : WakeUp(t)

Spec == Init /\ [][Next]_vars
=============================================================================
