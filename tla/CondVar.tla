------------------------------ MODULE CondVar ------------------------------
(***************************************************************************)
(* The condition variable core (axi_cond_vars_v1_00_a).  One table holds     *)
(* for each condition variable the number of its waiters, the first          *)
(* (ownerEntry) and the last (lastReqEntry), and for each thread a link to   *)
(* the thread that waits behind it.  Threads to be woken go through a        *)
(* channel to the master half of the core, which adds them to the ready      *)
(* queue one bus read at a time.                                            *)
(*                                                                         *)
(* A command is one step, but DEQUEUE_ALL, which writes the channel once     *)
(* per waiter while the master reads it, is a step per waiter.  No other     *)
(* command starts before it is done.                                        *)
(*                                                                         *)
(* waits is the callers' view: the condition variable a thread has queued   *)
(* for and not yet been woken from.                                         *)
(***************************************************************************)
EXTENDS Naturals, Sequences, LinkedList

CONSTANTS NumThreads,    \* 256 in the core
          Cvars,
          ChanDepth,     \* C_FSL_DEPTH, 256
          NoCvar

ASSUME CondVarAssumption ==
    /\ NumThreads \in Nat \ {0}
    /\ ChanDepth \in Nat \ {0}
    /\ NoCvar \notin Cvars

Threads == 0 .. NumThreads - 1

VARIABLES
    cvar,                \* length, owner and lastReq of each variable
    link,
    todo,                \* DEQUEUE_ALL: waiters still to send (arg_tid)
    entry,               \* and the first of them
    chan,                \* msg_chan
    sending,             \* the thread the master is on the bus with, if any
    waits

table == <<cvar, link>>
loop == <<todo, entry>>
master == <<chan, sending>>
vars == <<table, loop, master, waits>>

Init ==
    /\ cvar = [c \in Cvars |-> [length |-> 0, owner |-> 0, lastReq |-> 0]]
    /\ link = [t \in Threads |-> 0]
    /\ todo = 0 /\ entry = 0
    /\ chan = <<>> /\ sending = <<>>
    /\ waits = [t \in Threads |-> NoCvar]

-----------------------------------------------------------------------------
Idle == todo = 0

(* The FSL's full flag.                                                     *)
Full == Len(chan) = ChanDepth

(* Mutants of ENQUEUE: the last waiter is not linked to the new one; the new *)
(* one is put in front of the first.                                        *)
ENQUEUE_unlinked(c, t) ==
    /\ Idle
    /\ LET n == (cvar[c].length + 1) % NumThreads
       IN  cvar' = [cvar EXCEPT ![c].length = n, ![c].lastReq = t,
                                ![c].owner = IF n = 1 THEN t ELSE @]
    /\ waits' = [waits EXCEPT ![t] = c]
    /\ UNCHANGED <<link, loop, master>>

ENQUEUE_LIFO(c, t) ==
    /\ Idle
    /\ cvar' = [cvar EXCEPT ![c].length = (@ + 1) % NumThreads, ![c].owner = t]
    /\ link' = [link EXCEPT ![t] = cvar[c].owner]
    /\ waits' = [waits EXCEPT ![t] = c]
    /\ UNCHANGED <<loop, master>>

(* ENQUEUE: the length is a thread ID wide and counts the new waiter first. *)
ENQUEUE(c, t) ==
    /\ Idle
    /\ LET n == (cvar[c].length + 1) % NumThreads
       IN  IF n = 1
           THEN /\ cvar' = [cvar EXCEPT ![c] = [length |-> n, owner |-> t,
                                                lastReq |-> t]]
                /\ UNCHANGED link
           ELSE /\ cvar' = [cvar EXCEPT ![c].length = n, ![c].lastReq = t]
                /\ link' = [link EXCEPT ![cvar[c].lastReq] = t]
    /\ waits' = [waits EXCEPT ![t] = c]
    /\ UNCHANGED <<loop, master>>

(* Mutant of DEQUEUE: the length is not written back.                        *)
DEQUEUE_uncounted(c) ==
    /\ Idle /\ ~ Full
    /\ cvar[c].length # 0
    /\ chan' = Append(chan, cvar[c].owner)
    /\ cvar' = [cvar EXCEPT ![c].owner = link[@]]
    /\ UNCHANGED <<link, loop, sending, waits>>

(* DEQUEUE: nothing to do without a waiter; a full channel is waited for.   *)
DEQUEUE(c) ==
    /\ Idle
    /\ IF cvar[c].length = 0
       THEN UNCHANGED <<cvar, chan>>
       ELSE /\ ~ Full
            /\ chan' = Append(chan, cvar[c].owner)
            /\ cvar' = [cvar EXCEPT ![c].length = @ - 1,
                           ![c].owner = IF cvar[c].length = 1 THEN @ ELSE link[@]]
    /\ UNCHANGED <<link, loop, sending, waits>>

(* DEQUEUE_ALL with one waiter is DEQUEUE; with more, the variable is        *)
(* emptied first and the waiters are sent one by one.                        *)
DEQUEUE_ALL(c) ==
    IF cvar[c].length \in {0, 1} THEN DEQUEUE(c)
    ELSE /\ Idle
         /\ todo' = cvar[c].length
         /\ entry' = cvar[c].owner
         /\ cvar' = [cvar EXCEPT ![c].length = 0]
         /\ UNCHANGED <<link, master, waits>>

deqall_remove_loop ==
    /\ todo > 0 /\ ~ Full
    /\ chan' = Append(chan, entry)
    /\ entry' = link[entry]
    /\ todo' = todo - 1
    /\ UNCHANGED <<table, sending, waits>>

(* Mutant of CMD_RUN: the channel is emptied.                                *)
CMD_RUN_all ==
    /\ chan # <<>> /\ sending = <<>>
    /\ sending' = <<Head(chan)>>
    /\ chan' = <<>>
    /\ UNCHANGED <<table, loop, waits>>

(* The master puts the head of the channel on the bus and pops it when the   *)
(* read is acknowledged.                                                    *)
CMD_RUN ==
    /\ chan # <<>> /\ sending = <<>>
    /\ sending' = <<Head(chan)>>
    /\ chan' = Tail(chan)
    /\ UNCHANGED <<table, loop, waits>>

(* The read completes, whatever the thread manager answered: the thread is   *)
(* ready again.                                                             *)
CMD_DONE ==
    /\ sending # <<>>
    /\ sending' = <<>>
    /\ waits' = [waits EXCEPT ![Head(sending)] = NoCvar]
    /\ UNCHANGED <<table, loop, chan>>

-----------------------------------------------------------------------------
(* The callers.  The idle thread never waits, so neither does the last       *)
(* thread that runs; some thread is always there to signal or broadcast.    *)
Wait(c, t) ==
    /\ waits[t] = NoCvar
    /\ \E u \in Threads \ {t} : waits[u] = NoCvar
    /\ ENQUEUE(c, t)

Wakes == deqall_remove_loop \/ CMD_RUN \/ CMD_DONE

Next ==
    \/ \E c \in Cvars : DEQUEUE(c) \/ DEQUEUE_ALL(c)
    \/ \E c \in Cvars, t \in Threads : Wait(c, t)
    \/ Wakes

Spec == Init /\ [][Next]_vars /\ WF_vars(Wakes)

-----------------------------------------------------------------------------
(* Every field keeps its range: the length never wraps, and the channel     *)
(* never overruns its depth.                                                *)
TypeOK ==
    /\ cvar \in [Cvars -> [length : 0 .. NumThreads - 1, owner : Threads,
                           lastReq : Threads]]
    /\ link \in [Threads -> Threads]
    /\ todo \in 0 .. NumThreads - 1 /\ entry \in Threads
    /\ chan \in Seq(Threads) /\ Len(chan) <= ChanDepth
    /\ sending \in {<<>>} \cup {<<t>> : t \in Threads}
    /\ waits \in [Threads -> Cvars \cup {NoCvar}]

(* The threads the master has still to wake.                                *)
Signalled ==
    {chan[i] : i \in 1 .. Len(chan)} \cup {sending[i] : i \in 1 .. Len(sending)}

SignalledOnce ==
    /\ \A t \in Signalled : waits[t] # NoCvar
    /\ \A i, j \in 1 .. Len(chan) : chan[i] = chan[j] => i = j
    /\ \A i \in 1 .. Len(chan), j \in 1 .. Len(sending) : chan[i] # sending[j]

(* The threads queued for c, if a broadcast has still to send those of L.   *)
Queued(c, L) == {t \in Threads : waits[t] = c} \ (L \cup Signalled)

Linked(L) ==
    /\ \E l \in Threads : Chain(Threads, L, todo, entry, l, link)
    /\ \A c \in Cvars : Chain(Threads, Queued(c, L), cvar[c].length,
                              cvar[c].owner, cvar[c].lastReq, link)

(* A thread that waits is in the list of its variable, in the rest of a      *)
(* broadcast or on its way to be woken, in one place and once; one that runs *)
(* is in none.  ENQUEUE, DEQUEUE and DEQUEUE_ALL all use the one link that   *)
(* a thread has.                                                            *)
WaitersExact ==
    /\ SignalledOnce
    /\ \E L \in SUBSET {t \in Threads : waits[t] # NoCvar} :
          L \cap Signalled = {} /\ Linked(L)

(* A thread that was signalled, and so is in the channel, runs again.        *)
SignalledRuns ==
    \A t \in Threads :
        (\E i \in 1 .. Len(chan) : chan[i] = t) ~> waits[t] = NoCvar

(* The channel is as deep as there are threads.  A command that had to wait  *)
(* for it would hold the bus that the master needs to empty it, so no        *)
(* history of signals and broadcasts may fill it.                           *)
ChannelNeverFull == ChanDepth >= NumThreads => ~ Full

-----------------------------------------------------------------------------
(* What the core promises: the waiters of each variable in their order, and  *)
(* those that are being woken, the rest of a broadcast last.                 *)
Waiting(c) == Walk(Threads, cvar[c].length, cvar[c].owner, link)
Waking == sending \o chan \o Walk(Threads, todo, entry, link)

C == INSTANCE Condition WITH
        waiting <- [c \in Cvars |-> Waiting(c)],
        waking  <- Waking

(* The links and lengths of ENQUEUE, DEQUEUE and DEQUEUE_ALL behave as        *)
(* FIFOs, also while a broadcast is half done.                              *)
ImplementsCondition == C!Spec
=============================================================================
