---------------------------- MODULE MCToolApprovals ----------------------------
(* Two conversations with one run each, one that calls a tool with a side      *)
(* effect and one that reads, so that a claim of either may expire the         *)
(* approval of the other.                                                      *)
EXTENDS ToolApprovals, TLC

CONSTANTS r1, r2, w1, w2, here, there

MCLaneOf == [r \in Run |-> IF r = r1 THEN here ELSE there]
MCRiskOf == [r \in Run |-> IF r = r1 THEN "effect" ELSE "safe_read"]
WorkerSymmetry == Permutations(Worker)

(* Bounds.  Routing and planning are tried once, and a run is not claimed any  *)
(* more when its tool has been dealt with: a worker still inside the call goes *)
(* on all the same.  The call with a side effect is tried three times, the read*)
(* twice.                                                                      *)
ToolPhase ==
    /\ executionControl' = "unset"
    /\ \A r \in Run :
          /\ phase'[r] \in {"route", "plan"} => attempts'[r] <= IF phase'[r] = "route" THEN 1 ELSE 2
          /\ attempts'[r] # attempts[r] => phase[r] \in {"route", "plan", "execute"}
    /\ attempts'[r2] <= 4
===============================================================================
