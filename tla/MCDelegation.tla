---------------------------- MODULE MCDelegation ----------------------------
(* A conversation of a parent that may spawn one of two children, two workers  *)
(* of which one may have lost its claim.                                       *)
EXTENDS Delegation

CONSTANTS p1, c1, c2, w1, w2, here

MCLaneOf == [r \in Run |-> here]

(* If execution or delivery is paused, it is before the first message, and for *)
(* good.  The                                                                  *)
(* children are alike.  The parent is routed to a tool, the children are       *)
(* answered by the model and may propose an action; the lease of a child only  *)
(* runs out when its worker is gone.                                           *)
Bound ==
    /\ executionControl' # executionControl \/ deliveryControl' # deliveryControl =>
          /\ "paused" \in {executionControl', deliveryControl'}
          /\ "unset" \in {executionControl', deliveryControl'}
          /\ \A r \in Run : state[r] = "absent"
    /\ state'[c2] # "absent" => state[c1] # "absent"
    /\ route'[p1] # "no_tool" /\ ~action'[p1]
    /\ \A c \in Child : /\ route'[c] # "tool"
                        /\ state'[c] = "running" /\ leaseValid[c] /\ ~leaseValid'[c] =>
                              \A w \in Worker : worker[w].run # c
===============================================================================
