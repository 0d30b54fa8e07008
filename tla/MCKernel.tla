------------------------------ MODULE MCKernel ------------------------------
(* The kernel with the main thread, the idle thread and up to two more.     *)
EXTENDS Kernel

CONSTANTS HW, MaxCreates

VARIABLES
    kinds,               \* the kinds of thread the program creates
    creates              \* how many threads it has created

program == <<kinds, creates>>

(* Threads of every kind: detached or not, better than the main thread or   *)
(* as good, or behind a hardware interface.                                 *)
AllKinds == {0, 1} \X {0, 1, HW}

(* Joinable threads, better than the main thread or in hardware; and others. *)
BetterOrHW == {0} \X {0, HW}

Others == {<<1, 0>>, <<0, 1>>, <<1, HW>>}

(* A program with threads of the first kinds has two of them together, one  *)
(* with the others creates them one after the other with the same ID.       *)
Fits ==
    /\ creates < MaxCreates
    /\ <<entry'[stack[next_ID]].detached, cpu'.v>> \in kinds
    /\ next_ID = 2 \/ kinds = BetterOrHW

Creates == cpu.at = "user" /\ cpu'.at = "created"

BoundedInit ==
    /\ Init
    /\ kinds \in {BetterOrHW, Others}
    /\ creates = 0

(* A CREATE that finds no ID left is not counted.                           *)
BoundedNext ==
    /\ Next
    /\ Creates => TM!NoMoreIDs \/ Fits
    /\ creates' = IF Creates /\ ~ TM!NoMoreIDs THEN creates + 1 ELSE creates
    /\ UNCHANGED kinds

BoundedSpec == BoundedInit /\ [][BoundedNext]_<<vars, program>> /\ Progress

FairSpec == BoundedSpec /\ Arbitration

-----------------------------------------------------------------------------
(* States that differ only in what is written before it is read again are   *)
(* explored once: the IDs in the used part of the stack, the ends of empty  *)
(* lists and the links of threads that are in no list.                      *)
Linked == {t \in IDs : thread[t].queued}

LiveQueue ==
    <<[t \in IDs |-> <<thread[t].queued, thread[t].priority>>],
      {<<t, thread[t].next>> : t \in {u \in Linked : u # level[thread[u].priority].tail}},
      {<<t, thread[t].prev>> : t \in {u \in Linked : u # level[thread[u].priority].head}},
      {<<p, level[p]>> : p \in encoder_input}>>

LiveState ==
    <<entry, {<<i, stack[i]>> : i \in next_ID .. NumIDs - 1}, next_ID,
      current_cpu_thread, state, addr, tm2sch, bus_data_out,
      LiveQueue, param, next_thread_id, Next_Thread_Valid, idle_thread_id,
      idle_thread_valid, hw_start,
      lines, bus, cpu, soft, waiting, hw, program>>
=============================================================================
