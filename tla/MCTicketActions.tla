---------------------------- MODULE MCTicketActions ----------------------------
(* One run that proposes a ticket, two executors that race for its execution.  *)
EXTENDS TicketActions, TLC

CONSTANTS r1, x1, x2, w1, here

MCLaneOf == [r \in Run |-> here]
ExecutorSymmetry == Permutations(Executor)
ControlUnset == executionControl' = "unset"
===============================================================================
