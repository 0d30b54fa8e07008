---------------------------- MODULE TransferRing ----------------------------
(***************************************************************************)
(* What a DMA channel promises: every descriptor put into the list is         *)
(* transferred once, in order, and taken out after it was transferred.  Only  *)
(* a reset of the device forgets which of them were, and has them transferred *)
(* again.                                                                     *)
(***************************************************************************)
EXTENDS Naturals

CONSTANT Total

VARIABLES waiting,       \* descriptors in the list not yet transferred
          done,          \* and transferred
          resetting      \* whether the device is being reset

vars == <<waiting, done, resetting>>

Init == waiting \in {0, Total} /\ done = 0 /\ resetting = FALSE

Put ==
    /\ ~ resetting
    /\ waiting + done < Total
    /\ waiting' = waiting + 1
    /\ UNCHANGED <<done, resetting>>

(* The hardware may still finish a descriptor while it is being stopped.     *)
Transfer ==
    /\ waiting > 0
    /\ waiting' = waiting - 1
    /\ done' = done + 1
    /\ UNCHANGED resetting

Get ==
    /\ ~ resetting
    /\ done > 0
    /\ done' = done - 1
    /\ UNCHANGED <<waiting, resetting>>

Reset ==
    /\ ~ resetting
    /\ resetting' = TRUE
    /\ UNCHANGED <<waiting, done>>

Forget ==
    /\ resetting
    /\ waiting' = waiting + done
    /\ done' = 0
    /\ resetting' = FALSE

Next == Put \/ Transfer \/ Get \/ Reset \/ Forget

Spec == Init /\ [][Next]_vars
=============================================================================
