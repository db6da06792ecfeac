------------------------------ MODULE MCAgentRuns ------------------------------
(* Two runs of one conversation and one of another, two workers.               *)
EXTENDS AgentRuns, TLC

CONSTANTS r1, r2, r3, w1, w2, here, there

MCLaneOf == [r \in Run |-> IF r = r3 THEN there ELSE here]

(* The control only keeps Claim from firing, so a behaviour that sets it visits*)
(* no run, lane or lease state that one without it does not visit: it is left  *)
(* alone here and set in MCDelegation.                                         *)
ControlUnset == executionControl' = "unset"

(* r1 and r2 are in the same lane and the workers are alike.                   *)
AlikeSymmetry == Permutations({r1, r2}) \cup Permutations({w1, w2})
===============================================================================
