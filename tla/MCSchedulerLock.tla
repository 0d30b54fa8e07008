-------------------------- MODULE MCSchedulerLock --------------------------
(* Both halves of the scheduler core, and the FIFOs the ready queue promises. *)
EXTENDS MCScheduler, SchedulerCore

(* States that differ only in what is written before it is read again are   *)
(* explored once: the ends of empty lists, the links of threads that are in *)
(* no list, the output of an encoder without input, and a decision that is  *)
(* not valid.                                                               *)
Links == {<<t, thread[t].next>> :
             t \in {u \in Threads : /\ thread[u].queued
                                    /\ u # level[thread[u].priority].tail}}

BackLinks == {<<t, thread[t].prev>> :
                 t \in {u \in Threads : /\ thread[u].queued
                                        /\ u # level[thread[u].priority].head}}

LiveState ==
    <<[t \in Threads |-> <<thread[t].queued, thread[t].priority>>], Links, BackLinks,
      {<<p, level[p]>> : p \in encoder_input}, param,
      Next_Thread_Valid, IF Next_Thread_Valid THEN next_thread_id ELSE NoThread,
      idle, hw_start, current, locking, lockVars>>
=============================================================================
