---------------------------- MODULE MCScheduler ----------------------------
(* The ready queue alone, for every call of hthread_setschedparam.          *)
EXTENDS Scheduler

CONSTANT HW
=============================================================================
