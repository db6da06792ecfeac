--------------------------- MODULE MCMessageIngestion --------------------------
(* Two messages of one conversation, two publishers and two agent consumers.   *)
EXTENDS MessageIngestion, TLC

CONSTANTS r1, r2, w1, p1, p2, c1, c2, here

MCLaneOf == [r \in Run |-> here]
MCSource == <<r1, r2>>

(* Of the Agent Runs only what moves a lane under an enqueue is kept: r1 is    *)
(* claimed once, and fails.  Only the second message is ever refused, and its  *)
(* event dismissed.  The ingress commits its offset, or restarts, at once:     *)
(* nothing else depends on when it does.  Idle publishers are alike, and so    *)
(* are consumers without a session: the first of them takes what there is.     *)
(* Two faults at most: the second befalls a consumer, of a group that has an   *)
(* offset, and only where nothing is refused or dismissed.                     *)
Bound ==
    /\ UNCHANGED <<phase, backoff, executionControl>>
    /\ state'[r2] \in {"absent", "queued"}
    /\ state'[r1] \in {"absent", "queued", "running", "failed"}
    /\ \A r \in Run : leaseValid[r] # leaseValid'[r] => state[r] # state'[r]
    /\ \A w \in Worker : worker'[w] # worker[w] => state' # state
    /\ 1 \notin refused' /\ r1 \notin dismissed'
    /\ reading.stored => ~reading'.stored
    /\ publisher[p1] = IdlePublisher /\ publisher[p2] = IdlePublisher =>
          publisher'[p2] = IdlePublisher
    /\ consumer[c1].at = 0 /\ consumer[c2].at = 0 => consumer'[c2].at = 0
    /\ faults > 0 => UNCHANGED <<refused, dismissed>>
    /\ faults' = 2 => groupOffset # NoOffset /\ refused' = {} /\ dismissed' = {}
    /\ faults' = 2 /\ faults = 1 => UNCHANGED <<outboxVars, publisher, reading>>
===============================================================================
