----------------------------- MODULE Condition -----------------------------
(***************************************************************************)
(* What the condition variable core promises: a FIFO of waiters for each     *)
(* variable.  A signal wakes the first of them, if there is one, a           *)
(* broadcast all of them, and nobody else is ever woken.                     *)
(***************************************************************************)
EXTENDS Naturals, Sequences

CONSTANTS Threads, Cvars

VARIABLES waiting,       \* the waiters of each variable
          waking         \* threads signalled that do not run yet, in order

vars == <<waiting, waking>>

Range(s) == {s[i] : i \in 1 .. Len(s)}

Init ==
    /\ waiting = [c \in Cvars |-> <<>>]
    /\ waking = <<>>

Asleep == Range(waking) \cup UNION {Range(waiting[c]) : c \in Cvars}

Wait(c, t) ==
    /\ t \notin Asleep
    /\ waiting' = [waiting EXCEPT ![c] = Append(@, t)]
    /\ UNCHANGED waking

Signal(c) ==
    /\ waiting[c] # <<>>
    /\ waiting' = [waiting EXCEPT ![c] = Tail(@)]
    /\ waking' = Append(waking, Head(waiting[c]))

Broadcast(c) ==
    /\ waiting' = [waiting EXCEPT ![c] = <<>>]
    /\ waking' = waking \o waiting[c]

WakeUp ==
    /\ waking # <<>>
    /\ waking' = Tail(waking)
    /\ UNCHANGED waiting

Next ==
    \/ \E c \in Cvars : Signal(c) \/ Broadcast(c) \/ \E t \in Threads : Wait(c, t)
    \/ WakeUp

Spec == Init /\ [][Next]_vars
=============================================================================
