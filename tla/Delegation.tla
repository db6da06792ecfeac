----------------------------- MODULE Delegation -----------------------------
(***************************************************************************)
(* Delegation between Agents: a run whose tool is agent.delegate spawns a  *)
(* child run for another Agent (internal/delegation/store.go, Spawn).  The *)
(* child is a run like any other, behind its parent in the lane of the same*)
(* conversation; the row of agent.delegations follows it, in the           *)
(* transactions that claim it (agent/store.go), fail it, or settle its     *)
(* delivery (delivery/store.go).  The parent does not wait for the child.  *)
(*                                                                         *)
(* The runs are those of AgentRuns.  A parent's tool call is one, so that  *)
(* the idempotency key "tool:<run>:<call>" is the parent itself.           *)
(***************************************************************************)
EXTENDS AgentRuns

CONSTANT Child  \* the runs that exist only if another run spawns them

ASSUME ChildType == Child \subseteq Run

VARIABLES
    delegation,      \* child: the state of its row in agent.delegations
    parent,          \* child: parent_run_id
    missed,          \* the runs that wait for an approval that has expired
    deliveryControl  \* the tenant's runtime control agent_delivery, "unset" without a row

delegationVars == <<delegation, parent>>
blockVars == <<missed, deliveryControl>>
vars == <<runVars, delegationVars, blockVars>>

Open == {"queued", "running"}
DelegationStates == {"none", "completed", "failed", "unknown"} \cup Open

DelegationTypeOK ==
    /\ TypeOK
    /\ delegation \in [Child -> DelegationStates]
    /\ parent \in [Child -> (Run \ Child) \cup {NoRun}]
    /\ missed \subseteq Run
    /\ deliveryControl \in {"unset", "enabled", "paused"}

DelegationInit ==
    /\ Init
    /\ delegation = [c \in Child |-> "none"]
    /\ parent = [c \in Child |-> NoRun]
    /\ missed = {}
    /\ deliveryControl = "unset"

-------------------------------------------------------------------------------

(* readExisting.  Fault: the replay of a call is not recognised.               *)
NoLookup(p) == TRUE
FirstSpawn(p) == \A c \in Child : parent[c] # p

(* Spawn's own statements on the lane and the run.  Fault: the lane's next     *)
(* number is read without being taken.                                         *)
SpawnPeeks(c) ==
    /\ sequence' = [sequence EXCEPT ![c] = nextEnqueue[LaneOf[c]]]
    /\ UNCHANGED nextEnqueue
SpawnSequence(c) ==
    /\ sequence' = [sequence EXCEPT ![c] = nextEnqueue[LaneOf[c]]]
    /\ nextEnqueue' = [nextEnqueue EXCEPT ![LaneOf[c]] = @ + 1]

(* Spawn, called by the tool runtime for the run a worker holds.  The parent   *)
(* is passive and running; whose lease it is running under is not compared.    *)
Spawn(w, c) ==
    LET p == worker[w].run IN
    /\ p \in Run \ Child
    /\ worker[w].phase = "execute"
    /\ FirstSpawn(p)
    /\ state[p] = "running"
    /\ state[c] = "absent" /\ LaneOf[c] = LaneOf[p]
    /\ state' = [state EXCEPT ![c] = "queued"]
    /\ SpawnSequence(c)
    /\ delegation' = [delegation EXCEPT ![c] = "queued"]
    /\ parent' = [parent EXCEPT ![c] = p]
    /\ UNCHANGED <<nextDispatch, progressVars, intent, attempts, leaseVars, backoff,
                   executionControl, worker, blockVars>>

(* UPDATE agent.delegations ... WHERE child_run_id = $2 AND state IN (...): no *)
(* row for a run that is not a child.                                          *)
Mark(r, from, to) ==
    /\ delegation' = [c \in Child |-> IF c = r /\ delegation[c] \in from THEN to ELSE delegation[c]]
    /\ UNCHANGED <<parent, blockVars>>

(* Claim with markDelegationRunning.                                           *)
ClaimChild(w, r, expired) == Claim(w, r, expired) /\ Mark(r, {"queued"}, "running")

(* Fail, and FailOrRetry when no attempt is left, with failDelegationForRun.   *)
FailChild(w) == FailRun(w) /\ Mark(worker[w].run, Open, "failed")

(* MarkSent, finishFailure and failExhausted of the delivery worker, in whose  *)
(* transactions the run, the lane and the delegation move together.            *)
SettledAs(st) ==
    CASE st = "failed" -> "failed"
      [] st = "delivery_unknown" -> "unknown"
      [] OTHER -> "completed"
SettleChild(r) == SettleDelivery(r) /\ Mark(r, Open, SettledAs(state'[r]))

(* WaitForToolApproval tests that the approval is requested in an EXISTS that  *)
(* locks nothing.  A claim, of this or of another conversation, may expire the *)
(* approval before the suspension commits; it finds the run still running and  *)
(* leaves it alone (ToolApprovals has the steps).  No decision and no other    *)
(* expiry then looks at the run again.                                         *)
WaitForDecision(w) ==
    /\ WaitForToolApproval(w)
    /\ missed' \in {missed, missed \cup {worker[w].run}}
    /\ UNCHANGED <<delegationVars, deliveryControl>>

(* The steps that the delegation does not see.                                 *)
UnseenStep(w) ==
    \/ \E choice \in Route : SaveRoute(w, choice)
    \/ SaveToolPlan(w) \/ SaveToolResult(w)
    \/ \E proposes \in BOOLEAN : SaveCandidate(w, proposes)
    \/ RetryLater(w) \/ Abandon(w)
    \/ EnsureIntent(w) \/ PrepareDelivery(w)

DelegatingStep(w) ==
    \/ \E c \in Child : Spawn(w, c)
    \/ FailChild(w)
    \/ WaitForDecision(w)
    \/ UnseenStep(w) /\ UNCHANGED <<delegationVars, blockVars>>

ClaimTurn(r) ==
    \E w \in Worker, expired \in SUBSET (Expirable \ missed) : ClaimChild(w, r, expired)

ClockStep(r) == (ExpireLease(r) \/ BackoffElapses(r)) /\ UNCHANGED <<delegationVars, blockVars>>

(* A member decides on an approval that has not expired.                       *)
Decided == \E r \in Run \ missed : ResumeFromToolApproval(r)

(* runtimecontrol.Set for the delivery.  A paused delivery is not claimed any  *)
(* more; one that was claimed before may still end.                            *)
SetDeliveryControl(setting) ==
    /\ deliveryControl = "unset"
    /\ deliveryControl' = setting
    /\ UNCHANGED <<runVars, delegationVars, missed>>

DelegationNext ==
    \/ \E r \in Run : ClaimTurn(r) \/ ClockStep(r) \/ SettleChild(r)
    \/ \E w \in Worker : DelegatingStep(w)
    \/ /\ \/ \E r \in Run \ Child : Enqueue(r)
          \/ Decided \/ ActionStep
          \/ \E setting \in {"enabled", "paused"} : SetExecutionControl(setting)
       /\ UNCHANGED <<delegationVars, blockVars>>
    \/ \E setting \in {"enabled", "paused"} : SetDeliveryControl(setting)

DelegationSpec == DelegationInit /\ [][DelegationNext]_vars

(* The workers are loops and their processes are restarted; a lease and a      *)
(* backoff end by the clock; a delivery that is not paused ends because its own*)
(* attempts are bounded (DeliveryEnds of ReplyDelivery).  Claiming takes the   *)
(* oldest available_at first, so a run that is claimable again and again is    *)
(* claimed: strong fairness.  Members need not decide an approval, nor an      *)
(* administrator set a control.                                                *)
DeliveryGoesOn(r) == deliveryControl # "paused" /\ SettleChild(r)
DelegationFairness ==
    /\ \A w \in Worker : WF_vars(DelegatingStep(w))
    /\ \A r \in Run : /\ SF_vars(ClaimTurn(r))
                      /\ WF_vars(ClockStep(r))
                      /\ WF_vars(DeliveryGoesOn(r))

FairDelegationSpec == DelegationSpec /\ DelegationFairness

-------------------------------------------------------------------------------
(* Properties                                                                 *)

(* What the member sees of a delegation is what became of its run.  Two things *)
(* are not passed on: an action that fails or is still waited for after the    *)
(* reply counts as completed, and a run that the action executor fails before  *)
(* its reply is settled leaves the delegation running.                         *)
FailedByAction(c) == state[c] = "failed" /\ intent[c]
RowFollowsChild(c) ==
    /\ delegation[c] = "none" <=> state[c] = "absent"
    /\ delegation[c] = "queued" => state[c] = "queued" /\ attempts[c] = 0
    /\ delegation[c] = "running" =>
          attempts[c] > 0 /\ IsHead(c) /\ (state[c] = "failed" => intent[c])
    /\ delegation[c] = "completed" =>
          state[c] = "succeeded" \/ AwaitingAction(c) \/ FailedByAction(c)
    /\ delegation[c] = "failed" => state[c] = "failed"
    /\ delegation[c] = "unknown" => state[c] = "delivery_unknown" \/ FailedByAction(c)

(* A tool call spawns one child, whoever invokes it again, and the child's turn*)
(* comes when its parent has left the lane: no two Agents answer the same      *)
(* conversation at once, and an answer never precedes the one it stems from.   *)
OneChildAfterItsParent(c) ==
    parent[c] # NoRun =>
        /\ \A d \in Child : parent[d] = parent[c] => d = c
        /\ sequence[parent[c]] < sequence[c]
        /\ attempts[c] > 0 =>
              sequence[parent[c]] < nextDispatch[LaneOf[c]] /\ state[parent[c]] \in Settled

(* Both, for every child (delegation/store.go Spawn and the statements that    *)
(* carry the row along).                                                       *)
DelegationInv ==
    DelegationTypeOK /\ \A c \in Child : RowFollowsChild(c) /\ OneChildAfterItsParent(c)

(* A spawned run is an accepted run: Spawn, which has its own statements for   *)
(* the lane and the run, does what enqueueTx does, and the delegation rows     *)
(* never stand in the way of the runs or move them.                            *)
DelegationRefinesRuns == Spec

(* What stops a conversation for good: its head is a run that no transaction   *)
(* will ever move.                                                             *)
(* - its phase has no attempt left and it is not settled: its worker died on   *)
(*   the last one, or it waited for a tool approval on the last one, or the    *)
(*   model phase may retry more often than Claim accepts;                      *)
(* - the action executor failed it before its reply was delivered;             *)
(* - it waits for an approval that expired while it was being suspended;       *)
(* - its reply waits for a delivery that is paused, which nobody can lift      *)
(*   (RuntimeControl).                                                         *)
OutOfAttempts(r) ==
    /\ tries[r] >= MaxAttempts
    /\ \/ state[r] \in {"queued", "reply_pending"} \/ AwaitingTool(r)
       \/ state[r] = "running" /\ \A w \in Worker : ~(worker[w].run = r /\ HoldsToken(w))
Undeliverable(r) == state[r] = "delivery_pending" /\ deliveryControl = "paused"
Stranded(r) ==
    IsHead(r) /\ (OutOfAttempts(r) \/ state[r] = "failed" \/ r \in missed \/ Undeliverable(r))

(* The head of a lane leaves it, settled, unless it ends up in one of the ways *)
(* above or execution itself is paused.                                        *)
HeadLeavesUnlessStranded ==
    [](executionControl # "paused") =>
        \A r \in Run : IsHead(r) ~> (~IsHead(r) \/ Stranded(r))

(* A delegation ends, although its child waits behind its parent in the lane   *)
(* and behind whatever came before: only a stranded run of the lane stops it.  *)
DelegationEnds ==
    [](executionControl # "paused") =>
        \A c \in Child :
            delegation[c] \in Open ~>
                (delegation[c] \notin Open \/ \E r \in Run : Stranded(r) /\ LaneOf[r] = LaneOf[c])

(* A conversation moves on, with its child runs and what is shown of them.     *)
ConversationMovesOn == HeadLeavesUnlessStranded /\ DelegationEnds
===============================================================================
