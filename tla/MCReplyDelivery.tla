---------------------------- MODULE MCReplyDelivery ----------------------------
(* Two runs of one conversation, one agent worker that tries each phase once,  *)
(* two senders that race for the deliveries.                                   *)
EXTENDS ReplyDelivery

CONSTANTS r1, r2, s1, s2, w1, here

MCLaneOf == [r \in Run |-> here]

(* The runtime controls only keep claims from firing: the one of the agent     *)
(* workers is left alone, the one of the senders is set to paused while the    *)
(* first delivery waits for its first attempt ("enabled" lets the same claims  *)
(* pass as no control).  The runs are alike, so r1 comes first, and only r1 may *)
(* propose an action.  Lost leases of the agent worker are the subject of       *)
(* MCAgentRuns and do not happen here.                                         *)
Bound ==
    /\ executionControl' = "unset"
    /\ deliveryControl' # deliveryControl =>
          /\ deliveryControl' = "paused"
          /\ \E r \in Run : delivery[r] = "pending" /\ dTries[r] = 0 /\ sequence[r] = 1
    /\ state'[r2] # "absent" => state[r1] # "absent"
    /\ ~action'[r2]
    /\ \A r \in Run : state'[r] = "running" /\ leaseValid[r] => leaseValid'[r]
===============================================================================
