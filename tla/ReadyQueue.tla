----------------------------- MODULE ReadyQueue -----------------------------
(***************************************************************************)
(* What the scheduler promises: one FIFO of ready threads per priority.     *)
(* The thread that runs next is the one that has waited longest at the best *)
(* priority, or the idle thread if no thread is ready.                     *)
(***************************************************************************)
EXTENDS Naturals, Sequences

CONSTANTS Threads, Priorities, DefaultPri, NoThread

VARIABLES ready,         \* the FIFO of each priority
          priority,
          current,       \* the thread on the CPU
          idle,          \* the idle thread, or NoThread
          next           \* the thread chosen to run next, or NoThread

vars == <<ready, priority, current, idle, next>>

In(t, q) == \E i \in 1 .. Len(q) : q[i] = t

Ready(t) == \E p \in Priorities : In(t, ready[p])

(* The sequence q without t, which is in it once if at all.                  *)
Without(q, t) ==
    IF In(t, q)
    THEN LET i == CHOOSE i \in 1 .. Len(q) : q[i] = t
         IN  [j \in 1 .. Len(q) - 1 |-> IF j < i THEN q[j] ELSE q[j + 1]]
    ELSE q

Best(q) == CHOOSE p \in Priorities :
              q[p] # <<>> /\ \A r \in Priorities : q[r] # <<>> => p <= r

Choice(q, i) == IF \A p \in Priorities : q[p] = <<>> THEN i
                ELSE Head(q[Best(q)])

Init ==
    /\ ready = [p \in Priorities |-> <<>>]
    /\ priority = [t \in Threads |-> DefaultPri]
    /\ current = 0
    /\ idle = NoThread
    /\ next = NoThread

Enqueue(t) ==
    /\ UNCHANGED <<priority, current, idle>>
    /\ ~ Ready(t)
    /\ ready' = [ready EXCEPT ![priority[t]] = Append(@, t)]
    /\ next' = Choice(ready', idle)

Dispatch ==
    /\ UNCHANGED <<priority, idle>>
    /\ next # NoThread
    /\ current' = next
    /\ ready' = [p \in Priorities |-> Without(ready[p], next)]
    /\ next' = Choice(ready', idle)

SetPriority(t, v) ==
    LET left == [ready EXCEPT ![priority[t]] = Without(@, t)]
    IN  /\ priority' = [priority EXCEPT ![t] = v]
        /\ UNCHANGED <<current, idle>>
        /\ Ready(t) => v # priority[t]
        /\ ready' = IF Ready(t) THEN [left EXCEPT ![v] = Append(@, t)]
                    ELSE ready
        /\ next' = Choice(ready', idle)

SetIdle(t) ==
    /\ idle = NoThread
    /\ idle' = t
    /\ UNCHANGED <<ready, priority, current>>
    /\ ~ Ready(t)
    /\ next' = Choice(ready, t)

Next ==
    \/ \E t \in Threads, v \in Priorities : SetPriority(t, v)
    \/ \E t \in Threads : Enqueue(t) \/ SetIdle(t)
    \/ Dispatch

Spec == Init /\ [][Next]_vars
=============================================================================
