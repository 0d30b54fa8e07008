------------------------------- MODULE MCEmac -------------------------------
(* The Ethernet driver in the configurations of netif.c.                     *)
EXTENDS Emac

Setup(side, bds, n, paced, copies) ==
    [side |-> side, bds |-> bds, resets |-> n, paced |-> paced, copies |-> copies]

AllSetups == {Setup("send", 1, 1, TRUE, FALSE), Setup("send", 1, 1, FALSE, FALSE),
              Setup("send", 2, 0, TRUE, FALSE), Setup("send", 1, 0, TRUE, TRUE),
              Setup("recv", 1, 1, TRUE, FALSE)}

(* Frames to send are copied; the stack is late to take received frames.     *)
CopySetup == {Setup("send", 1, 0, TRUE, TRUE)}
LateSetup == {Setup("recv", 1, 0, FALSE, FALSE)}

(* States that differ only in variables of the handler that it has done with, *)
(* and sets again before it reads them, are explored once.                   *)
Locals ==
    CASE pc \in {"out", "stop", "begin"}       -> <<>>
      [] pc \in {"count", "restart", "ack"}    -> <<IntrStatus>>
      [] OTHER                                 -> <<IntrStatus, PacketsLeft, NumBds, BdPtr>>

LiveState == <<channel, env, cpu, pc, Locals, backlog>>
=============================================================================
