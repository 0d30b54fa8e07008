-------------------------- MODULE MCThreadManager --------------------------
(* The thread manager with a handful of IDs and an arbitrary scheduler.     *)
EXTENDS ThreadManager

(* The cells of the stack below next_ID are written before they are read    *)
(* again: states that differ in them only are explored once.                *)
LiveState ==
    <<entry, {<<i, stack[i]>> : i \in FreeCells}, next_ID, current_cpu_thread,
      state, addr, tm2sch, bus_data_out>>
=============================================================================
