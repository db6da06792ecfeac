---------------------------- MODULE ToolApprovals ----------------------------
(***************************************************************************)
(* Governed tool calls: agent.tool_calls and agent.tool_approvals          *)
(* (internal/toolruntime/store.go, service.go) under the workers and runs  *)
(* of AgentRuns.  A run that selected a tool has one call, "selected-      *)
(* operation".  The worker executes it as a series of transactions around  *)
(* the call of the tool itself, none of which looks at the run's lease: a  *)
(* worker that has lost the run goes on until it tries to save.            *)
(***************************************************************************)
EXTENDS AgentRuns

CONSTANT RiskOf   \* "safe_read", "read" (retry not declared safe) or "effect"

ASSUME RiskType == RiskOf \in [Run -> {"safe_read", "read", "effect"}]

VARIABLES
    call,       \* run: state of its tool call, "none" before the row exists
    approval,   \* run: state of the call's approval, "none" without one
    op,         \* worker: where it is in executing the call
    invoked     \* run: how many times the tool has been invoked

toolVars == <<call, approval, op, invoked>>
allToolVars == <<runVars, toolVars>>

CallStates == {"none", "prepared", "waiting_approval", "executing", "succeeded",
               "failed", "denied", "unknown"}
Ops == {"none", "prepared", "invoking", "returned", "raised", "succeeded", "denied",
        "waiting", "suspending", "error"}

ToolTypeOK ==
    /\ TypeOK
    /\ call \in [Run -> CallStates]
    /\ approval \in [Run -> {"none", "requested", "approved", "rejected", "expired"}]
    /\ op \in [Worker -> Ops]
    /\ invoked \in [Run -> Nat]

ToolInit ==
    /\ Init
    /\ call = [r \in Run |-> "none"]
    /\ approval = [r \in Run |-> "none"]
    /\ op = [w \in Worker |-> "none"]
    /\ invoked = [r \in Run |-> 0]

Go(w, next) == op' = [op EXCEPT ![w] = next]

-------------------------------------------------------------------------------
(* Service.Execute                                                            *)

(* What Execute does with the state Prepare found or made.                     *)
After(st) == CASE st = "prepared" -> "prepared"
               [] st = "succeeded" -> "succeeded"
               [] st = "denied" -> "denied"
               [] st = "waiting_approval" -> "waiting"
               [] OTHER -> "error"

(* The state Prepare inserts.                                                  *)
FirstState(r, granted) ==
    IF ~granted THEN "denied"
    ELSE IF RiskOf[r] = "effect" THEN "waiting_approval" ELSE "prepared"

(* The call is made ready once more.  Fault: so is one that seems to have died *)
(* in the tool.                                                                *)
RetriesAlsoStuck(r, granted) ==
    call[r] \in {"failed", "executing"} /\ RiskOf[r] = "safe_read" /\ granted
Retries(r, granted) == call[r] = "failed" /\ RiskOf[r] = "safe_read" /\ granted

(* Policy.Decide and Store.Prepare.  The member's grants are read on each      *)
(* execution, so any of them may be refused; the risk is the pinned tool's.    *)
PrepareCall(w, granted) ==
    LET r == worker[w].run IN
    /\ r # NoRun
    /\ worker[w].phase = "execute" /\ op[w] = "none"
    /\ call' = [call EXCEPT ![r] = IF @ = "none" THEN FirstState(r, granted)
                                   ELSE IF Retries(r, granted) THEN "prepared" ELSE @]
    /\ approval' = [approval EXCEPT ![r] =
                      IF call'[r] = "waiting_approval" /\ call[r] = "none" THEN "requested" ELSE @]
    /\ Go(w, IF granted THEN After(call'[r]) ELSE "denied")
    /\ UNCHANGED <<runVars, invoked>>

(* Start is a compare-and-set.  Fault: a call that has been started already may*)
(* be started.                                                                 *)
StartsAgain(st) == st \in {"prepared", "executing"}
Starts(st) == st = "prepared"

StartCall(w) ==
    LET r == worker[w].run IN
    /\ op[w] = "prepared"
    /\ IF Starts(call[r])
       THEN call' = [call EXCEPT ![r] = "executing"] /\ Go(w, "invoking")
       ELSE UNCHANGED call /\ Go(w, "error")
    /\ UNCHANGED <<runVars, approval, invoked>>

(* The tool runs; its answer may be an error or a timeout after it has run.    *)
InvokeTool(w) ==
    /\ op[w] = "invoking"
    /\ \/ Go(w, "returned") /\ invoked' = [invoked EXCEPT ![worker[w].run] = @ + 1]
       \/ Go(w, "raised") /\ \E n \in {0, 1} :
                                invoked' = [invoked EXCEPT ![worker[w].run] = @ + n]
    /\ UNCHANGED <<runVars, call, approval>>

EndCall(w, st, next) ==
    LET r == worker[w].run IN
    /\ IF call[r] = "executing"
       THEN call' = [call EXCEPT ![r] = st] /\ Go(w, next)
       ELSE UNCHANGED call /\ Go(w, "error")
    /\ UNCHANGED <<runVars, approval, invoked>>

SucceedCall(w) == op[w] = "returned" /\ EndCall(w, "succeeded", "succeeded")

FailedAs(r) == IF RiskOf[r] = "effect" THEN "unknown" ELSE "failed"

FailCall(w) == op[w] = "raised" /\ EndCall(w, FailedAs(worker[w].run), "error")

(* One of the reads and transactions of Execute fails, and Execute with it: the*)
(* call stays as it is.                                                        *)
ExecuteFails(w) ==
    /\ worker[w].run # NoRun /\ worker[w].phase = "execute"
    /\ op[w] \in {"none", "prepared", "returned", "raised"}
    /\ Go(w, "error")
    /\ UNCHANGED <<runVars, call, approval, invoked>>

-------------------------------------------------------------------------------
(* What the worker does with the outcome                                      *)

SaveResult(w) ==
    /\ op[w] = "succeeded"
    /\ SaveToolResult(w)
    /\ Go(w, "none")
    /\ UNCHANGED <<call, approval, invoked>>

SaveRefusal(w) ==
    /\ op[w] = "denied"
    /\ SaveCandidate(w, FALSE)
    /\ Go(w, "none")
    /\ UNCHANGED <<call, approval, invoked>>

RetryCall(w) ==
    /\ op[w] = "error"
    /\ FailOrRetry(w)
    /\ Go(w, "none")
    /\ UNCHANGED <<call, approval, invoked>>

(* WaitForToolApproval is one UPDATE of the run's row under READ COMMITTED: the*)
(* approval and the call, rows of other tables, are read when the statement    *)
(* begins and neither locked nor read again when it commits.                   *)
CheckApproval(w) ==
    LET r == worker[w].run IN
    /\ op[w] = "waiting"
    /\ HoldsToken(w)
    /\ approval[r] = "requested" /\ call[r] = "waiting_approval"
    /\ Go(w, "suspending")
    /\ UNCHANGED <<runVars, call, approval, invoked>>

Suspend(w) ==
    /\ op[w] = "suspending"
    /\ WaitForToolApproval(w)
    /\ Go(w, "none")
    /\ UNCHANGED <<call, approval, invoked>>

AbandonCall(w) ==
    /\ worker[w].phase = "execute"
    /\ Abandon(w)
    /\ Go(w, "none")
    /\ UNCHANGED <<call, approval, invoked>>

CallStep(w) ==
    \/ \E granted \in BOOLEAN : PrepareCall(w, granted)
    \/ StartCall(w) \/ InvokeTool(w) \/ SucceedCall(w) \/ FailCall(w)
    \/ ExecuteFails(w)
    \/ SaveResult(w) \/ SaveRefusal(w) \/ RetryCall(w)
    \/ CheckApproval(w) \/ Suspend(w) \/ AbandonCall(w)

-------------------------------------------------------------------------------
(* Decisions                                                                  *)

(* Approve and Reject of the requesting member before the approval expires:    *)
(* serializable, and rolled back unless the run waits for this approval.       *)
(* (fault: the run is resumed whatever it does).                               *)
DecideAnyway(r, decision, st) ==
    /\ approval[r] = "requested" /\ call[r] = "waiting_approval"
    /\ approval' = [approval EXCEPT ![r] = decision]
    /\ call' = [call EXCEPT ![r] = st]
    /\ Become(r, "queued")
    /\ UNCHANGED <<laneVars, backoff, op, invoked>>
Decide(r, decision, st) ==
    /\ approval[r] = "requested" /\ call[r] = "waiting_approval"
    /\ approval' = [approval EXCEPT ![r] = decision]
    /\ call' = [call EXCEPT ![r] = st]
    /\ ResumeFromToolApproval(r)
    /\ UNCHANGED <<op, invoked>>

Approve(r) == Decide(r, "approved", "prepared")
Reject(r) == Decide(r, "rejected", "denied")

(* The expiry that a claim begins with: every approval whose time is over, the *)
(* calls still waiting for it, and the runs still waiting for those calls.     *)
(* Fault: the state of the approval is not looked at.                          *)
AnyApproval(x) == approval[x] # "none"
MayExpire(x) == approval[x] = "requested"

ClaimAndExpire(w, r, over) ==
    /\ approval' = [x \in Run |-> IF x \in over THEN "expired" ELSE approval[x]]
    /\ call' = [x \in Run |-> IF x \in over /\ call[x] = "waiting_approval"
                              THEN "denied" ELSE call[x]]
    /\ Claim(w, r, {x \in over : call[x] = "waiting_approval" /\ state[x] = "waiting_approval"})
    /\ UNCHANGED <<op, invoked>>

-------------------------------------------------------------------------------

(* The Agent Runs, with the execute phase left to CallStep.                    *)
ToolRunStep ==
    \/ \E r \in Run : Enqueue(r) \/ ExpireLease(r) \/ BackoffElapses(r)
    \/ \E setting \in {"enabled", "paused"} : SetExecutionControl(setting)
    \/ \E w \in Worker : worker[w].phase # "execute" /\ WorkerStep(w)
    \/ \E w \in Worker : worker[w].phase = "execute" /\ op[w] = "none" /\ FailRun(w)
    \/ DeliveryStep \/ ActionStep

ToolNext ==
    \/ ToolRunStep /\ UNCHANGED toolVars
    \/ \E w \in Worker : CallStep(w)
    \/ \E r \in Run : Approve(r) \/ Reject(r)
    \/ \E w \in Worker, r \in Run : \E over \in SUBSET {x \in Run : MayExpire(x)} :
          ClaimAndExpire(w, r, over)

ToolSpec == ToolInit /\ [][ToolNext]_allToolVars

-------------------------------------------------------------------------------
(* Properties                                                                 *)

(* The tool calls use the runs only as AgentRuns lets them.                    *)
ToolsRefineRuns == Spec

(* docs/sdd/akashic-openim-integration.md: a tool with a side effect runs only *)
(* after its approval, and at most once, whatever crashes, lost leases and     *)
(* stale workers there are.                                                    *)
EffectApprovedOnce ==
    \A r \in Run : RiskOf[r] = "effect" =>
        invoked[r] <= 1 /\ (invoked[r] > 0 => approval[r] = "approved")

(* An answer is built on a result only if the call succeeded, and a succeeded  *)
(* call has been invoked.                                                      *)
ResultIsReal ==
    \A r \in Run : /\ call[r] = "succeeded" => invoked[r] >= 1
                   /\ route[r] = "tool" /\ phase[r] = "model" => call[r] = "succeeded"

(* Two workers are never inside the tool for the same call, though both may    *)
(* hold a claim of its run.                                                    *)
OneInvocationAtATime ==
    \A v, w \in Worker : v # w /\ worker[v].run = worker[w].run =>
        ~(op[v] \in {"invoking", "returned", "raised"} /\ op[w] \in {"invoking", "returned", "raised"})

(* The ledger of calls tells what happened in the tools (toolruntime/store.go  *)
(* Prepare, Start, Succeed, Fail).                                             *)
ToolInv == ToolTypeOK /\ ResultIsReal /\ OneInvocationAtATime

(* A decision on an approval is final, and so is the outcome of a call except  *)
(* for the retry of a safe read.                                               *)
DecisionsFinal ==
    [][\A r \in Run :
          /\ approval[r] \in {"approved", "rejected", "expired"} => approval'[r] = approval[r]
          /\ call[r] \in {"succeeded", "denied", "unknown"} => call'[r] = call[r]
          /\ call[r] = "failed" /\ RiskOf[r] # "safe_read" => call'[r] = "failed"]_allToolVars
===============================================================================
