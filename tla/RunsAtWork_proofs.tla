-------------------------- MODULE RunsAtWork_proofs ---------------------------
(***************************************************************************)
(* What runs do beside answering: tool calls that wait for a member,       *)
(* tickets that an executor opens, runs that are delegated.  In each of    *)
(* the three a step is one of AgentRuns (ToolStepOfRuns, ActionStepOfRuns, *)
(* DelegationStepOfRuns), so that AgentRuns_proofs holds of all of them.   *)
(***************************************************************************)
EXTENDS ToolApprovals, TicketActions, Delegation, AgentRuns_proofs

-------------------------------------------------------------------------------
(***************************************************************************)
(* Proofs about ToolApprovals, for every number of runs and workers and    *)
(* every assignment of risks to tools.  The steps of a tool call are steps *)
(* of AgentRuns (ToolStepOfRuns), so the invariants of the runs hold.  The *)
(* ledger of calls and the place of each worker in Execute are then        *)
(* related: whoever is inside a tool has the call "executing", alone.      *)
(***************************************************************************)

(* The tool calls implement the runs                                          *)

LEMMA ToolStepOfRuns ==
    ASSUME [ToolNext]_allToolVars
    PROVE  [Next]_runVars
<1>1. CASE ToolRunStep
  <2>1. CASE \E w \in Worker : worker[w].phase = "execute" /\ op[w] = "none" /\ FailRun(w)
    BY <2>1 DEF Next, WorkerStep, AnswerStep
  <2> QED BY <1>1, <2>1 DEF ToolRunStep, Next, LaneStep
<1>2. ASSUME NEW w \in Worker, CallStep(w) PROVE [Next]_runVars
  <2>1. ASSUME NEW granted \in BOOLEAN, PrepareCall(w, granted) PROVE UNCHANGED runVars
    BY <2>1 DEF PrepareCall
  <2>2. CASE StartCall(w) \/ InvokeTool(w) \/ SucceedCall(w) \/ FailCall(w) \/ ExecuteFails(w)
            \/ CheckApproval(w)
    BY <2>2 DEF StartCall, InvokeTool, SucceedCall, FailCall, EndCall, ExecuteFails, CheckApproval
  <2>3. CASE SaveResult(w) \/ SaveRefusal(w) \/ RetryCall(w) \/ Suspend(w) \/ AbandonCall(w)
    BY <2>3 DEF SaveResult, SaveRefusal, RetryCall, Suspend, AbandonCall, Next, WorkerStep,
                AnswerStep
  <2> QED BY <1>2, <2>1, <2>2, <2>3 DEF CallStep
<1>3. ASSUME NEW r \in Run, Approve(r) \/ Reject(r) PROVE Next
  BY <1>3 DEF Approve, Reject, Decide, Next, ToolStep
<1>4. ASSUME NEW w \in Worker, NEW r \in Run, NEW over \in SUBSET Run, ClaimAndExpire(w, r, over)
      PROVE  Next
  <2> DEFINE expired == {x \in over : call[x] = "waiting_approval" /\ state[x] = "waiting_approval"}
  <2>1. Claim(w, r, expired) /\ expired \in SUBSET Expirable
    BY <1>4 DEF ClaimAndExpire, Claim, Expirable
  <2> QED BY <2>1 DEF Next, LaneStep, ClaimRun
<1> QED BY <1>1, <1>2, <1>3, <1>4 DEF ToolNext, MayExpire, allToolVars

(* A tool call uses the runs only as AgentRuns lets it, although none of its   *)
(* own transactions looks at the lease: so all that is proved of the runs      *)
(* holds with governed tools too.                                              *)
THEOREM ToolsImplementRuns == ToolSpec => ToolsRefineRuns
<1>1. ToolInit => Init
  BY DEF ToolInit
<1>2. [ToolNext]_allToolVars => [Next]_runVars
  BY ToolStepOfRuns
<1>3. ToolSpec => Init /\ [][Next]_runVars
  BY <1>1, <1>2, PTL DEF ToolSpec
<1> QED BY <1>3 DEF ToolsRefineRuns, Spec

(* So a run that is suspended for a decision holds its conversation and is       *)
(* taken up again where it was, whoever decides, expires or executes meanwhile. *)
THEOREM ToolsKeepRuns == ToolSpec => []RunsInv /\ StaleWorkerInert /\ NothingTakenBack /\ ServesInOrder
BY ToolsImplementRuns, RunsCorrect, StaleWorkerHarmless, NothingTakenBackCorrect, ServesInOrderCorrect, PTL
   DEF ToolsRefineRuns

-------------------------------------------------------------------------------
(* The inductive invariant                                                    *)

(* The ledger of one call: what each of its states says of the approval, the   *)
(* invocations and the run.                                                    *)
CallFits(r) ==
    /\ call[r] = "none" => approval[r] = "none" /\ invoked[r] = 0
    /\ approval[r] = "requested" => call[r] = "waiting_approval"
    /\ call[r] = "succeeded" => invoked[r] >= 1
    /\ route[r] = "tool" /\ phase[r] = "model" => call[r] = "succeeded"
    /\ RiskOf[r] = "effect" =>
          /\ call[r] # "failed"
          /\ invoked[r] <= 1
          /\ invoked[r] > 0 => call[r] \in {"executing", "succeeded", "unknown"}
          /\ call[r] \in {"prepared", "executing", "succeeded", "unknown"} => approval[r] = "approved"

Ledger == \A r \in Run : CallFits(r)

Inside(w) == op[w] \in {"invoking", "returned", "raised"}

OpFits(w) ==
    LET r == worker[w].run IN
    /\ r # NoRun /\ worker[w].phase = "execute"
    /\ Inside(w) => call[r] = "executing"
    /\ op[w] = "invoking" /\ RiskOf[r] = "effect" => invoked[r] = 0
    /\ op[w] = "returned" => invoked[r] >= 1
    /\ op[w] = "succeeded" => call[r] = "succeeded"

Places == \A w \in Worker : op[w] # "none" => OpFits(w)

ToolIInv == RunsInv /\ ToolTypeOK /\ Ledger /\ Places /\ OneInvocationAtATime

-------------------------------------------------------------------------------
(* Steps by kind                                                              *)

(* A worker is where it was, or it is not executing a call any more.           *)
SamePlaces == op' = op /\ \A v \in Worker : worker'[v] = worker[v] \/ op[v] = "none"

(* No answer is begun on a tool's result.                                      *)
NoNewModel ==
    \A r \in Run : route'[r] = "tool" /\ phase'[r] = "model" => route[r] = "tool" /\ phase[r] = "model"

(* The runs move and no call does.                                             *)
Outside == SamePlaces /\ NoNewModel /\ UNCHANGED <<call, approval, invoked>>

(* A worker stops executing its call; if it begins an answer on the result,    *)
(* the call has succeeded.                                                     *)
Stops(w) ==
    /\ op' = [op EXCEPT ![w] = "none"]
    /\ \A v \in Worker \ {w} : worker'[v] = worker[v]
    /\ UNCHANGED <<call, approval, invoked>>
    /\ \/ NoNewModel
       \/ /\ op[w] = "succeeded"
          /\ \A r \in Run \ {worker[w].run} : route'[r] = route[r] /\ phase'[r] = phase[r]

LEMMA OthersKeepTheirRun ==
    ASSUME ToolTypeOK, NEW w \in Worker, WorkerStep(w)
    PROVE  \A v \in Worker \ {w} : worker'[v] = worker[v]
BY DEF WorkerStep, AnswerStep, FailOrRetry, SaveRoute, SaveToolPlan, SaveToolResult, SaveCandidate,
       Proceed, RetryLater, FailRun, Abandon, WaitForToolApproval, EnsureIntent, PrepareDelivery,
       Release, ToolTypeOK, TypeOK

LEMMA NoModelWithoutResult ==
    ASSUME ToolTypeOK, NEW w \in Worker, WorkerStep(w), ~SaveToolResult(w)
    PROVE  NoNewModel
<1> USE DEF NoNewModel, ToolTypeOK, TypeOK, Proceed
<1>1. CASE \E choice \in Route : SaveRoute(w, choice)
  BY <1>1 DEF SaveRoute
<1>2. CASE SaveToolPlan(w)
  BY <1>2 DEF SaveToolPlan
<1>3. CASE \E proposes \in BOOLEAN : SaveCandidate(w, proposes)
  BY <1>3 DEF SaveCandidate
<1>4. CASE \/ RetryLater(w) \/ FailRun(w) \/ Abandon(w) \/ WaitForToolApproval(w)
          \/ EnsureIntent(w) \/ PrepareDelivery(w)
  BY <1>4 DEF RetryLater, FailRun, Abandon, WaitForToolApproval, EnsureIntent, PrepareDelivery,
              progressVars
<1> QED BY <1>1, <1>2, <1>3, <1>4 DEF WorkerStep, AnswerStep, FailOrRetry

LEMMA RunStepOutside ==
    ASSUME ToolTypeOK, Places, ToolRunStep, UNCHANGED toolVars
    PROVE  Outside
<1> USE DEF Outside, SamePlaces, toolVars
<1>1. CASE \/ \E r \in Run : Enqueue(r) \/ ExpireLease(r) \/ BackoffElapses(r)
          \/ \E setting \in {"enabled", "paused"} : SetExecutionControl(setting)
          \/ DeliveryStep \/ ActionStep
  <2>1. UNCHANGED <<worker, phase, route>>
    BY <1>1 DEF Enqueue, ExpireLease, BackoffElapses, SetExecutionControl, DeliveryStep, ActionStep,
                SettleDelivery, CompleteAction, FailAction, Become, progressVars
  <2> QED BY <2>1 DEF NoNewModel
<1>2. ASSUME NEW w \in Worker, worker[w].phase # "execute", WorkerStep(w) PROVE Outside
  <2>1. op[w] = "none"
    BY <1>2 DEF Places, OpFits
  <2>2. ~SaveToolResult(w)
    BY <1>2 DEF SaveToolResult
  <2> QED BY <1>2, <2>1, <2>2, OthersKeepTheirRun, NoModelWithoutResult
<1>3. ASSUME NEW w \in Worker, op[w] = "none", FailRun(w) PROVE Outside
  <2>1. WorkerStep(w)
    BY <1>3 DEF WorkerStep, AnswerStep
  <2>2. UNCHANGED <<phase, route>>
    BY <1>3 DEF FailRun, progressVars
  <2> QED BY <1>3, <2>1, <2>2, OthersKeepTheirRun DEF NoNewModel
<1> QED BY <1>1, <1>2, <1>3 DEF ToolRunStep

LEMMA SavingStops ==
    ASSUME ToolTypeOK, NEW w \in Worker,
           SaveResult(w) \/ SaveRefusal(w) \/ RetryCall(w) \/ Suspend(w) \/ AbandonCall(w)
    PROVE  Stops(w)
<1>1. op' = [op EXCEPT ![w] = "none"] /\ UNCHANGED <<call, approval, invoked>>
  BY DEF SaveResult, SaveRefusal, RetryCall, Suspend, AbandonCall, Go
<1>2. WorkerStep(w)
  BY DEF SaveResult, SaveRefusal, RetryCall, Suspend, AbandonCall, WorkerStep, AnswerStep
<1>3. CASE SaveResult(w)
  <2>1. op[w] = "succeeded"
    BY <1>3 DEF SaveResult
  <2>2. \A r \in Run \ {worker[w].run} : route'[r] = route[r] /\ phase'[r] = phase[r]
    BY <1>3 DEF SaveResult, SaveToolResult, Proceed, ToolTypeOK, TypeOK
  <2> QED BY <1>1, <1>2, <2>1, <2>2, OthersKeepTheirRun DEF Stops
<1>4. CASE SaveRefusal(w) \/ RetryCall(w) \/ Suspend(w) \/ AbandonCall(w)
  <2>1. NoNewModel
    <3>1. CASE SaveRefusal(w)
      BY <3>1 DEF SaveRefusal, SaveCandidate, Proceed, ToolTypeOK, TypeOK, NoNewModel
    <3>2. CASE RetryCall(w) \/ Suspend(w) \/ AbandonCall(w)
      BY <3>2 DEF RetryCall, Suspend, AbandonCall, FailOrRetry, RetryLater, FailRun,
                  WaitForToolApproval, Abandon, progressVars, NoNewModel
    <3> QED BY <1>4, <3>1, <3>2
  <2> QED BY <1>1, <1>2, <2>1, OthersKeepTheirRun DEF Stops
<1> QED BY <1>3, <1>4

-------------------------------------------------------------------------------
(* Each kind of step keeps the invariant                                      *)

(* What the lemmas below keep; the runs follow by ToolStepOfRuns.                  *)
Calls == ToolTypeOK /\ Ledger /\ Places /\ OneInvocationAtATime

LEMMA CallsOfOutside ==
    ASSUME Calls, TypeOK', Outside
    PROVE  Calls'
<1>1. ToolTypeOK'
  BY DEF Calls, ToolTypeOK, Outside, SamePlaces
<1>2. Ledger'
  BY DEF Calls, Ledger, CallFits, Outside, NoNewModel
<1>3. Places'
  BY DEF Calls, Places, OpFits, Inside, Outside, SamePlaces
<1>4. OneInvocationAtATime'
  BY DEF Calls, OneInvocationAtATime, Outside, SamePlaces
<1> QED BY <1>1, <1>2, <1>3, <1>4 DEF Calls

LEMMA CallsOfStop ==
    ASSUME Calls, TypeOK', NEW w \in Worker, Stops(w)
    PROVE  Calls'
<1>1. op'[w] = "none" /\ \A v \in Worker \ {w} : op'[v] = op[v] /\ worker'[v] = worker[v]
  BY DEF Stops, Calls, ToolTypeOK
<1>2. ToolTypeOK'
  BY DEF Calls, ToolTypeOK, Stops, Ops
<1>3. Ledger'
  <2>1. CASE NoNewModel
    BY <2>1 DEF Calls, Ledger, CallFits, Stops, NoNewModel
  <2>2. CASE /\ op[w] = "succeeded"
             /\ \A r \in Run \ {worker[w].run} : route'[r] = route[r] /\ phase'[r] = phase[r]
    <3>1. call[worker[w].run] = "succeeded"
      BY <2>2 DEF Calls, Places, OpFits
    <3> QED BY <2>2, <3>1 DEF Calls, Ledger, CallFits, Stops
  <2> QED BY <2>1, <2>2 DEF Stops
<1>4. Places'
  BY <1>1 DEF Calls, Places, OpFits, Inside, Stops
<1>5. OneInvocationAtATime'
  BY <1>1 DEF Calls, OneInvocationAtATime
<1> QED BY <1>2, <1>3, <1>4, <1>5 DEF Calls

(* The steps of Execute do not move the runs.                                  *)
LEMMA CallsOfExecute ==
    ASSUME Calls, NEW w \in Worker, UNCHANGED runVars,
           \/ \E granted \in BOOLEAN : PrepareCall(w, granted)
           \/ StartCall(w) \/ InvokeTool(w) \/ SucceedCall(w) \/ FailCall(w)
           \/ ExecuteFails(w) \/ CheckApproval(w)
    PROVE  Calls'
<1> DEFINE r == worker[w].run
<1>0. /\ ToolTypeOK /\ TypeOK /\ TypeOK' /\ Ledger /\ Places /\ OneInvocationAtATime
      /\ UNCHANGED <<worker, route, phase>>
  BY DEF Calls, ToolTypeOK, runVars, TypeOK
<1>1. r # NoRun => r \in Run /\ CallFits(r)
  BY <1>0, WorkerTypes DEF Ledger
<1>2. op[w] # "none" => OpFits(w)
  BY <1>0 DEF Places
<1> USE RiskType DEF ToolTypeOK, Go, CallStates, Ops
(* the other workers and the other calls are not concerned *)
<1>3. ASSUME r \in Run, CallFits(r)', op'[w] # "none" => OpFits(w)',
             \A x \in Run \ {r} : /\ call'[x] = call[x] /\ approval'[x] = approval[x]
                                  /\ invoked'[x] = invoked[x],
             \A v \in Worker \ {w} : op'[v] = op[v],
             \A v \in Worker \ {w} : op[v] # "none" /\ worker[v].run = r => OpFits(v)',
             Inside(w)' => \A v \in Worker \ {w} : worker[v].run = r => ~Inside(v),
             ToolTypeOK'
      PROVE  Calls'
  <2>1. Ledger'
    BY <1>0, <1>3 DEF Ledger, CallFits
  <2>2. Places'
    BY <1>0, <1>3, WorkerTypes DEF Places, OpFits, Inside
  <2>3. OneInvocationAtATime'
    BY <1>0, <1>3 DEF OneInvocationAtATime, Inside
  <2> QED BY <1>3, <2>1, <2>2, <2>3 DEF Calls
<1>4. ASSUME NEW granted \in BOOLEAN, PrepareCall(w, granted) PROVE Calls'
  <2> DEFINE st == IF call[r] = "none" THEN FirstState(r, granted)
                   ELSE IF Retries(r, granted) THEN "prepared" ELSE call[r]
  <2>1. /\ r \in Run /\ CallFits(r) /\ r # NoRun /\ worker[w].phase = "execute"
        /\ call' = [call EXCEPT ![r] = st] /\ invoked' = invoked
        /\ call[r] \in CallStates
    <3>1. r \in Run /\ CallFits(r) /\ r # NoRun /\ worker[w].phase = "execute"
      BY <1>1, <1>4 DEF PrepareCall
    <3>2. call' = [call EXCEPT ![r] = st] /\ invoked' = invoked
      BY <1>0, <1>4, <3>1 DEF PrepareCall
    <3> QED BY <1>0, <3>1, <3>2
  <2>2. st \in CallStates
    BY <2>1 DEF FirstState
  <2>3. call'[r] = st /\ \A x \in Run \ {r} : call'[x] = call[x]
    BY <1>0, <2>1
  <2>6. /\ st = "succeeded" => call[r] = "succeeded"
        /\ call[r] = "executing" => st = "executing"
        /\ call[r] = "succeeded" => st = "succeeded"
        /\ st # call[r] =>
             \/ call[r] = "none" /\ st \in {"denied", "waiting_approval"}
             \/ call[r] = "none" /\ st = "prepared" /\ RiskOf[r] # "effect"
             \/ call[r] = "failed" /\ st = "prepared" /\ RiskOf[r] = "safe_read"
    BY <2>1 DEF FirstState, Retries
  <2> HIDE DEF st
  <2>4. /\ approval' = [approval EXCEPT ![r] =
              IF st = "waiting_approval" /\ call[r] = "none" THEN "requested" ELSE @]
        /\ op' = [op EXCEPT ![w] = IF granted THEN After(st) ELSE "denied"]
    <3>1. approval' = [approval EXCEPT ![worker[w].run] =
               IF call'[worker[w].run] = "waiting_approval" /\ call[worker[w].run] = "none"
               THEN "requested" ELSE @]
      BY <1>4 DEF PrepareCall
    <3>2. op' = [op EXCEPT ![w] = IF granted THEN After(call'[worker[w].run]) ELSE "denied"]
      BY <1>4 DEF PrepareCall
    <3> QED BY <2>3, <3>1, <3>2
  <2>5. /\ op'[w] = (IF granted THEN After(st) ELSE "denied")
        /\ op'[w] \in {"prepared", "succeeded", "denied", "waiting", "error"}
        /\ op'[w] = "succeeded" => st = "succeeded"
    <3>1. op'[w] = (IF granted THEN After(st) ELSE "denied")
      BY <1>0, <2>4
    <3> QED BY <3>1 DEF After
  <2>7. /\ approval'[r] \in {approval[r], "requested"}
        /\ approval'[r] # approval[r] => call[r] = "none" /\ st = "waiting_approval"
        /\ \A x \in Run \ {r} : approval'[x] = approval[x]
    BY <2>1, <2>4
  <2>8. CallFits(r)'
    BY <1>0, <2>1, <2>3, <2>6, <2>7 DEF CallFits
  <2>9. OpFits(w)'
    BY <1>0, <2>1, <2>3, <2>5 DEF OpFits, Inside
  <2>10. \A v \in Worker \ {w} : op'[v] = op[v]
    BY <2>4
  <2>11. ASSUME NEW v \in Worker \ {w}, op[v] # "none", worker[v].run = r PROVE OpFits(v)'
    <3>1. OpFits(v)
      BY <1>0, <2>11 DEF Places
    <3> QED BY <1>0, <2>1, <2>3, <2>6, <2>10, <2>11, <3>1 DEF OpFits, Inside
  <2>12. ~Inside(w)'
    BY <2>5 DEF Inside
  <2>13. ToolTypeOK'
    BY <1>0, <2>1, <2>2, <2>4, <2>5
  <2> QED BY <1>3, <2>1, <2>3, <2>7, <2>8, <2>9, <2>10, <2>11, <2>12, <2>13
<1>5. CASE StartCall(w)
  <2>1. r \in Run /\ CallFits(r) /\ OpFits(w) /\ op[w] = "prepared"
    BY <1>1, <1>2, <1>5 DEF StartCall, OpFits
  <2>2. CASE call[r] = "prepared"
    <3>1. /\ call' = [call EXCEPT ![r] = "executing"] /\ op' = [op EXCEPT ![w] = "invoking"]
          /\ UNCHANGED <<approval, invoked>>
      BY <1>5, <2>2 DEF StartCall, Starts
    <3>2. \A v \in Worker : worker[v].run = r => ~Inside(v)
      BY <1>0, <2>2 DEF Places, OpFits, Inside
    <3>3. CallFits(r)'
      BY <1>0, <2>1, <2>2, <3>1 DEF CallFits
    <3>4. invoked[r] = 0 \/ RiskOf[r] # "effect"
      BY <1>0, <2>1, <2>2 DEF CallFits
    <3>5. OpFits(w)'
      BY <1>0, <2>1, <2>2, <3>1, <3>4 DEF OpFits, Inside
    <3>6. ASSUME NEW v \in Worker \ {w}, op[v] # "none", worker[v].run = r PROVE OpFits(v)'
      <4>1. OpFits(v) /\ ~Inside(v)
        BY <1>0, <3>2, <3>6 DEF Places
      <4> QED BY <1>0, <2>1, <2>2, <3>1, <3>6, <4>1 DEF OpFits, Inside
    <3> QED BY <1>0, <1>3, <2>1, <3>1, <3>2, <3>3, <3>5, <3>6
  <2>3. CASE call[r] # "prepared"
    <3>1. op' = [op EXCEPT ![w] = "error"] /\ UNCHANGED <<call, approval, invoked>>
      BY <1>5, <2>3 DEF StartCall, Starts
    <3>2. CallFits(r)' /\ OpFits(w)' /\ ~Inside(w)'
      BY <1>0, <2>1, <3>1 DEF CallFits, OpFits, Inside
    <3>3. ASSUME NEW v \in Worker \ {w}, op[v] # "none", worker[v].run = r PROVE OpFits(v)'
      BY <1>0, <3>1, <3>3 DEF Places, OpFits, Inside
    <3> QED BY <1>0, <1>3, <2>1, <3>1, <3>2, <3>3
  <2> QED BY <2>2, <2>3
<1>6. CASE InvokeTool(w)
  <2>1. /\ r \in Run /\ CallFits(r) /\ OpFits(w) /\ op[w] = "invoking" /\ invoked[r] \in Nat
        /\ call[r] = "executing"
    BY <1>0, <1>1, <1>2, <1>6 DEF InvokeTool, OpFits, Inside
  <2>2. PICK n \in {0, 1} : invoked' = [invoked EXCEPT ![r] = @ + n]
                           /\ op' = [op EXCEPT ![w] = IF n = 1 THEN op'[w] ELSE "raised"]
                           /\ op'[w] \in {"returned", "raised"}
                           /\ UNCHANGED <<call, approval>>
    <3>1. CASE Go(w, "returned") /\ invoked' = [invoked EXCEPT ![r] = @ + 1]
      BY <1>0, <1>6, <3>1 DEF InvokeTool
    <3>2. CASE Go(w, "raised") /\ \E n \in {0, 1} : invoked' = [invoked EXCEPT ![r] = @ + n]
      BY <1>0, <1>6, <3>2 DEF InvokeTool
    <3> QED BY <1>6, <3>1, <3>2 DEF InvokeTool
  <2>3. invoked'[r] = invoked[r] + n /\ \A x \in Run \ {r} : invoked'[x] = invoked[x]
    BY <1>0, <2>1, <2>2
  <2>4. CallFits(r)'
    BY <1>0, <2>1, <2>2, <2>3 DEF CallFits, OpFits
  <2>5. OpFits(w)'
    BY <1>0, <2>1, <2>2, <2>3 DEF OpFits, Inside
  <2>6. \A v \in Worker \ {w} : worker[v].run = r => ~Inside(v)
    BY <1>0, <2>1 DEF OneInvocationAtATime, Inside
  <2>7. \A v \in Worker \ {w} : op'[v] = op[v]
    BY <1>0, <2>2
  <2>8. ASSUME NEW v \in Worker \ {w}, op[v] # "none", worker[v].run = r PROVE OpFits(v)'
    <3>1. OpFits(v) /\ ~Inside(v)
      BY <1>0, <2>6, <2>8 DEF Places
    <3> QED BY <1>0, <2>2, <2>7, <2>8, <3>1 DEF OpFits, Inside
  <2>9. ToolTypeOK'
    <3>1. invoked' \in [Run -> Nat]
      BY <1>0, <2>1, <2>2
    <3> QED BY <1>0, <2>2, <3>1
  <2> QED BY <1>3, <2>1, <2>2, <2>3, <2>4, <2>5, <2>6, <2>7, <2>8, <2>9
<1>7. ASSUME NEW st \in {"succeeded", "unknown", "failed"}, NEW next \in {"succeeded", "error"},
             EndCall(w, st, next), Inside(w), r \in Run,
             next = "succeeded" => st = "succeeded",
             st = "succeeded" => op[w] = "returned",
             st = "failed" => RiskOf[r] # "effect"
      PROVE  Calls'
  <2>1. /\ CallFits(r) /\ OpFits(w) /\ call[r] = "executing"
        /\ call' = [call EXCEPT ![r] = st] /\ op' = [op EXCEPT ![w] = next]
        /\ UNCHANGED <<approval, invoked>>
    BY <1>0, <1>1, <1>2, <1>7 DEF EndCall, OpFits, Inside, Ledger
  <2>2. invoked[r] >= 1 \/ st # "succeeded"
    BY <1>7, <2>1 DEF OpFits
  <2>3. CallFits(r)'
    BY <1>0, <1>7, <2>1, <2>2 DEF CallFits
  <2>4. OpFits(w)' /\ ~Inside(w)'
    BY <1>0, <1>7, <2>1 DEF OpFits, Inside
  <2>5. \A v \in Worker \ {w} : worker[v].run = r => ~Inside(v)
    BY <1>0, <1>7, <2>1 DEF OneInvocationAtATime, Inside
  <2>6. ASSUME NEW v \in Worker \ {w}, op[v] # "none", worker[v].run = r PROVE OpFits(v)'
    <3>1. OpFits(v) /\ ~Inside(v)
      BY <1>0, <2>5, <2>6 DEF Places
    <3> QED BY <1>0, <2>1, <2>6, <3>1 DEF OpFits, Inside
  <2>7. ToolTypeOK'
    BY <1>0, <1>7, <2>1
  <2>8. \A v \in Worker \ {w} : op'[v] = op[v]
    BY <1>0, <2>1
  <2> QED BY <1>0, <1>3, <1>7, <2>1, <2>3, <2>4, <2>5, <2>6, <2>7, <2>8
<1>8. CASE SucceedCall(w)
  BY <1>1, <1>2, <1>7, <1>8 DEF SucceedCall, Inside, OpFits
<1>9. CASE FailCall(w)
  <2>1. FailedAs(r) \in {"unknown", "failed"} /\ (FailedAs(r) = "failed" => RiskOf[r] # "effect")
    BY DEF FailedAs
  <2> QED BY <1>1, <1>2, <1>7, <1>9, <2>1 DEF FailCall, Inside, OpFits
<1>10. ASSUME NEW next \in {"error", "suspending"}, op' = [op EXCEPT ![w] = next],
              UNCHANGED <<call, approval, invoked>>, r \in Run, worker[w].phase = "execute"
       PROVE  Calls'
  <2>1. CallFits(r)' /\ OpFits(w)' /\ ~Inside(w)'
    BY <1>0, <1>1, <1>10, NoRunType DEF CallFits, OpFits, Inside
  <2>2. ASSUME NEW v \in Worker \ {w}, op[v] # "none", worker[v].run = r PROVE OpFits(v)'
    BY <1>0, <1>10, <2>2 DEF Places, OpFits, Inside
  <2> QED BY <1>0, <1>3, <1>10, <2>1, <2>2
<1>11. CASE ExecuteFails(w)
  BY <1>1, <1>10, <1>11 DEF ExecuteFails
<1>12. CASE CheckApproval(w)
  BY <1>1, <1>2, <1>10, <1>12 DEF CheckApproval, OpFits
<1> QED BY <1>4, <1>5, <1>6, <1>8, <1>9, <1>11, <1>12

LEMMA CallsOfDecide ==
    ASSUME Calls, TypeOK', NEW r \in Run, Approve(r) \/ Reject(r)
    PROVE  Calls'
<1>0. ToolTypeOK /\ Ledger /\ Places /\ OneInvocationAtATime
  BY DEF Calls
<1>1. PICK decision \in {"approved", "rejected"}, st \in {"prepared", "denied"} :
        /\ st = "prepared" => decision = "approved"
        /\ Decide(r, decision, st)
  BY DEF Approve, Reject
<1>2. /\ approval[r] = "requested" /\ call[r] = "waiting_approval"
      /\ approval' = [approval EXCEPT ![r] = decision] /\ call' = [call EXCEPT ![r] = st]
      /\ UNCHANGED <<worker, route, phase, op, invoked>>
  BY <1>1 DEF Decide, ResumeFromToolApproval, Become, progressVars
<1>3. /\ call'[r] = st /\ approval'[r] = decision
      /\ \A x \in Run \ {r} : call'[x] = call[x] /\ approval'[x] = approval[x]
  BY <1>0, <1>2 DEF ToolTypeOK
<1>4. ToolTypeOK'
  BY <1>0, <1>2 DEF ToolTypeOK, CallStates
<1>5. Ledger'
  BY <1>0, <1>1, <1>2, <1>3 DEF Ledger, CallFits
<1>6. Places'
  <2>1. ASSUME NEW v \in Worker, op'[v] # "none" PROVE OpFits(v)'
    <3>1. OpFits(v)
      BY <1>0, <1>2, <2>1 DEF Places
    <3>2. worker[v].run \in Run
      BY <1>0, <3>1, WorkerTypes DEF OpFits, ToolTypeOK
    <3> QED BY <1>2, <1>3, <3>1, <3>2 DEF OpFits, Inside
  <2> QED BY <2>1 DEF Places
<1>7. OneInvocationAtATime'
  BY <1>0, <1>2 DEF OneInvocationAtATime
<1> QED BY <1>4, <1>5, <1>6, <1>7 DEF Calls

LEMMA CallsOfClaim ==
    ASSUME Calls, TypeOK', NEW w \in Worker, NEW r \in Run,
           NEW over \in SUBSET {x \in Run : MayExpire(x)}, ClaimAndExpire(w, r, over)
    PROVE  Calls'
<1>0. ToolTypeOK /\ Ledger /\ Places /\ OneInvocationAtATime
  BY DEF Calls
<1>1. /\ approval' = [x \in Run |-> IF x \in over THEN "expired" ELSE approval[x]]
      /\ call' = [x \in Run |-> IF x \in over /\ call[x] = "waiting_approval"
                                THEN "denied" ELSE call[x]]
      /\ worker[w].run = NoRun
      /\ UNCHANGED <<route, phase, op, invoked>>
      /\ \A v \in Worker \ {w} : worker'[v] = worker[v]
  BY <1>0 DEF ClaimAndExpire, Claim, ToolTypeOK, TypeOK
<1>2. \A x \in over : approval[x] = "requested"
  BY DEF MayExpire
<1>3. \A x \in Run : \/ call'[x] = call[x] /\ approval'[x] = approval[x] /\ x \notin over
                     \/ /\ call[x] = "waiting_approval" /\ call'[x] = "denied"
                        /\ approval[x] = "requested" /\ approval'[x] = "expired"
  BY <1>0, <1>1, <1>2 DEF Ledger, CallFits
<1>4. op[w] = "none"
  BY <1>0, <1>1 DEF Places, OpFits
<1>5. ToolTypeOK'
  BY <1>0, <1>1 DEF ToolTypeOK, CallStates
<1>6. Ledger'
  <2> SUFFICES ASSUME NEW x \in Run PROVE CallFits(x)'
    BY DEF Ledger
  <2>1. CallFits(x)
    BY <1>0 DEF Ledger
  <2> QED BY <1>1, <1>3, <2>1 DEF CallFits
<1>7. Places'
  <2>1. ASSUME NEW v \in Worker, op'[v] # "none" PROVE OpFits(v)'
    <3>1. OpFits(v) /\ worker'[v] = worker[v]
      BY <1>0, <1>1, <1>4, <2>1 DEF Places
    <3>2. worker[v].run \in Run
      BY <1>0, <3>1, WorkerTypes DEF OpFits, ToolTypeOK
    <3> QED BY <1>1, <1>3, <3>1, <3>2 DEF OpFits, Inside
  <2> QED BY <2>1 DEF Places
<1>8. OneInvocationAtATime'
  BY <1>0, <1>1, <1>4 DEF OneInvocationAtATime
<1> QED BY <1>5, <1>6, <1>7, <1>8 DEF Calls

-------------------------------------------------------------------------------
(* The theorems                                                               *)

LEMMA InitToolIInv == ToolInit => ToolIInv
<1> SUFFICES ASSUME ToolInit PROVE ToolIInv
  OBVIOUS
<1>1. RunsInv /\ TypeOK
  BY InitRuns DEF ToolInit, RunsInv
<1>2. ToolTypeOK
  BY <1>1 DEF ToolInit, ToolTypeOK, CallStates, Ops
<1>3. Ledger
  BY DEF ToolInit, Init, Ledger, CallFits
<1>4. Places /\ OneInvocationAtATime
  BY DEF ToolInit, Places, OneInvocationAtATime
<1> QED BY <1>1, <1>2, <1>3, <1>4 DEF ToolIInv

LEMMA ToolIInvStep == ToolIInv /\ [ToolNext]_allToolVars => ToolIInv'
<1> SUFFICES ASSUME ToolIInv, [ToolNext]_allToolVars PROVE ToolIInv'
  OBVIOUS
<1>1. RunsInv' /\ TypeOK' /\ Calls
  BY ToolStepOfRuns, RunsStep DEF ToolIInv, RunsInv, Calls
<1>2. Calls'
  <2>1. CASE ToolRunStep /\ UNCHANGED toolVars
    BY <1>1, <2>1, RunStepOutside, CallsOfOutside DEF Calls
  <2>2. ASSUME NEW w \in Worker, CallStep(w) PROVE Calls'
    <3>1. CASE \/ SaveResult(w) \/ SaveRefusal(w) \/ RetryCall(w) \/ Suspend(w) \/ AbandonCall(w)
      BY <1>1, <3>1, SavingStops, CallsOfStop DEF Calls
    <3>2. CASE \/ \E granted \in BOOLEAN : PrepareCall(w, granted)
              \/ StartCall(w) \/ InvokeTool(w) \/ SucceedCall(w) \/ FailCall(w)
              \/ ExecuteFails(w) \/ CheckApproval(w)
      <4>1. UNCHANGED runVars
        BY <3>2 DEF PrepareCall, StartCall, InvokeTool, SucceedCall, FailCall, EndCall,
                    ExecuteFails, CheckApproval
      <4> QED BY <1>1, <3>2, <4>1, CallsOfExecute
    <3> QED BY <2>2, <3>1, <3>2 DEF CallStep
  <2>3. ASSUME NEW r \in Run, Approve(r) \/ Reject(r) PROVE Calls'
    BY <1>1, <2>3, CallsOfDecide
  <2>4. ASSUME NEW w \in Worker, NEW r \in Run,
               NEW over \in SUBSET {x \in Run : MayExpire(x)}, ClaimAndExpire(w, r, over)
        PROVE  Calls'
    BY <1>1, <2>4, CallsOfClaim
  <2>5. CASE UNCHANGED allToolVars
    BY <1>1, <2>5 DEF Calls, ToolTypeOK, Ledger, CallFits, Places, OpFits, Inside,
                      OneInvocationAtATime, allToolVars, toolVars, runVars
  <2> QED BY <2>1, <2>2, <2>3, <2>4, <2>5 DEF ToolNext
<1> QED BY <1>1, <1>2 DEF ToolIInv, Calls

(* For any number of runs and workers and any risks: an answer rests on a call *)
(* that succeeded, a succeeded call was invoked, and no two workers are in the *)
(* tool for one call, though no transaction of a call looks at the lease.      *)
THEOREM ToolCorrect == ToolSpec => []ToolInv
<1>1. ToolIInv => ToolInv
  BY DEF ToolIInv, ToolInv, ResultIsReal, Ledger, CallFits
<1> QED BY <1>1, InitToolIInv, ToolIInvStep, PTL DEF ToolSpec

(* A tool with a side effect runs at most once and only approved, whatever     *)
(* workers lose their lease in it and however often its run is claimed.        *)
THEOREM EffectApprovedOnceCorrect == ToolSpec => []EffectApprovedOnce
<1>1. ToolIInv => EffectApprovedOnce
  <2> SUFFICES ASSUME ToolIInv, NEW r \in Run, RiskOf[r] = "effect"
               PROVE  invoked[r] <= 1 /\ (invoked[r] > 0 => approval[r] = "approved")
    BY DEF EffectApprovedOnce
  <2> QED BY DEF ToolIInv, Ledger, CallFits
<1> QED BY <1>1, InitToolIInv, ToolIInvStep, PTL DEF ToolSpec

DecisionFinal(r) ==
    /\ approval[r] \in {"approved", "rejected", "expired"} => approval'[r] = approval[r]
    /\ call[r] \in {"succeeded", "denied", "unknown"} => call'[r] = call[r]
    /\ call[r] = "failed" /\ RiskOf[r] # "safe_read" => call'[r] = "failed"

LEMMA DecisionFinalInStep ==
    ASSUME ToolIInv, [ToolNext]_allToolVars, NEW r \in Run
    PROVE  DecisionFinal(r)
<1> USE DEF DecisionFinal
<1>0. ToolTypeOK
  BY DEF ToolIInv
<1>1. CASE UNCHANGED <<call, approval>>
  BY <1>1
<1>2. ASSUME NEW w \in Worker, NEW granted \in BOOLEAN, PrepareCall(w, granted)
      PROVE  DecisionFinal(r)
  <2>1. \/ call'[r] = call[r]
        \/ call[r] = "none"
        \/ call[r] = "failed" /\ RiskOf[r] = "safe_read"
    BY <1>0, <1>2 DEF PrepareCall, Retries, ToolTypeOK
  <2>2. approval'[r] = approval[r] \/ call[r] = "none"
    BY <1>0, <1>2 DEF PrepareCall, ToolTypeOK
  <2>3. call[r] = "none" => approval[r] = "none"
    BY DEF ToolIInv, Ledger, CallFits
  <2> QED BY <2>1, <2>2, <2>3
<1>3. ASSUME NEW w \in Worker, StartCall(w) PROVE DecisionFinal(r)
  BY <1>0, <1>3 DEF StartCall, Starts, ToolTypeOK
<1>4. ASSUME NEW w \in Worker, SucceedCall(w) \/ FailCall(w) PROVE DecisionFinal(r)
  BY <1>0, <1>4 DEF SucceedCall, FailCall, EndCall, ToolTypeOK
<1>5. ASSUME NEW x \in Run, Approve(x) \/ Reject(x) PROVE DecisionFinal(r)
  BY <1>0, <1>5 DEF Approve, Reject, Decide, ToolTypeOK
<1>6. ASSUME NEW w \in Worker, NEW x \in Run,
             NEW over \in SUBSET {y \in Run : MayExpire(y)}, ClaimAndExpire(w, x, over)
      PROVE  DecisionFinal(r)
  BY <1>0, <1>6 DEF ClaimAndExpire, MayExpire, ToolTypeOK
<1>7. ASSUME NEW w \in Worker,
             \/ InvokeTool(w) \/ ExecuteFails(w) \/ SaveResult(w) \/ SaveRefusal(w)
             \/ RetryCall(w) \/ CheckApproval(w) \/ Suspend(w) \/ AbandonCall(w)
      PROVE  DecisionFinal(r)
  BY <1>1, <1>7 DEF InvokeTool, ExecuteFails, SaveResult, SaveRefusal, RetryCall, CheckApproval,
                    Suspend, AbandonCall
<1> QED BY <1>1, <1>2, <1>3, <1>4, <1>5, <1>6, <1>7 DEF ToolNext, CallStep, allToolVars, toolVars

(* Once an approval is decided or expired it stays so, and a call that ended   *)
(* is only ever taken up again when it is a failed safe read.                  *)
THEOREM DecisionsFinalCorrect == ToolSpec => DecisionsFinal
<1>1. ToolIInv /\ [ToolNext]_allToolVars => [\A r \in Run : DecisionFinal(r)]_allToolVars
  BY DecisionFinalInStep
<1>2. ToolSpec => [][\A r \in Run : DecisionFinal(r)]_allToolVars
  BY <1>1, InitToolIInv, ToolIInvStep, PTL DEF ToolSpec
<1> QED BY <1>2 DEF DecisionsFinal, DecisionFinal

-------------------------------------------------------------------------------
(***************************************************************************)
(* Proofs about TicketActions, for every number of runs, executors and     *)
(* attempts.  What an execution's row says of its intent and of the ticket *)
(* (RowFits), and what an executor that has been handed one may rely on    *)
(* although it is fenced only when it writes the row (ExecutorFits), are   *)
(* inductive together; with them every step is one of AgentRuns.           *)
(***************************************************************************)

(* The inductive invariant                                                    *)

RowFits(r) ==
    /\ intent[r] <=> intentState[r] # "none"
    /\ execution[r] = "none" <=> intentState[r] \in {"none", "pending_approval", "expired"}
    /\ execution[r] = "succeeded" <=> intentState[r] = "succeeded"
    /\ execution[r] = "failed" <=> intentState[r] = "failed"
    /\ eToken[r] = IF execution[r] = "running" THEN eTries[r] ELSE 0
    /\ execution[r] = "running" => eTries[r] > 0
    /\ tickets[r] <= 1
    /\ tickets[r] > 0 => execution[r] # "none"
    /\ execution[r] = "succeeded" => tickets[r] = 1
    /\ state[r] = "succeeded" /\ action[r] => execution[r] = "succeeded"

Rows == \A r \in Run : RowFits(r)

(* The row behind the executor's back may have been given to another, or ended.*)
ExecutorFits(x) ==
    LET r == executor[x].run IN
    /\ executor[x].token \in 1 .. eTries[r]
    /\ execution[r] # "none"
    /\ executor[x].step = "found" => tickets[r] = 1

Executors == \A x \in Executor : executor[x].run # NoRun => ExecutorFits(x)

ActionIInv == RunsInv /\ ActionTypeOK /\ Rows /\ Executors

LEMMA ExecutorTypes ==
    ASSUME ActionTypeOK, NEW x \in Executor, executor[x].run # NoRun
    PROVE  executor[x].run \in Run /\ executor[x].token \in Nat /\ executor[x].step \in Steps
BY DEF ActionTypeOK, Executions

LEMMA IdleIsExecution == IdleExecutor \in Executions /\ IdleExecutor.run = NoRun
BY DEF IdleExecutor, Executions, Steps

(* An executor that may write the row has its latest claim.                    *)
LEMMA HolderIsLatest ==
    ASSUME ActionTypeOK, Rows, Executors, NEW x \in Executor, executor[x].run # NoRun,
           HoldsExecution(x)
    PROVE  /\ executor[x].run \in Run /\ RowFits(executor[x].run)
           /\ execution[executor[x].run] = "running"
           /\ executor[x].token = eTries[executor[x].run]
<1>1. executor[x].run \in Run /\ ExecutorFits(x)
  BY ExecutorTypes DEF Executors
<1>2. RowFits(executor[x].run)
  BY <1>1 DEF Rows
<1> QED BY <1>1, <1>2 DEF RowFits, ExecutorFits, HoldsExecution

-------------------------------------------------------------------------------
(* The executor implements the runs                                           *)

LEMMA ActionStepOfRuns ==
    ASSUME RunsInv, ActionTypeOK, Rows, Executors, [ActionNext]_allActionVars
    PROVE  [Next]_runVars
<1>1. CASE ActionRunStep
  BY <1>1 DEF ActionRunStep, Next, WorkerStep
<1>2. ASSUME NEW w \in Worker, CreateIntent(w) PROVE Next
  BY <1>2 DEF CreateIntent, Next, WorkerStep
<1>3. ASSUME NEW x \in Executor, Complete(x) PROVE [Next]_runVars
  <2> DEFINE r == executor[x].run
  <2>1. r \in Run /\ RowFits(r) /\ execution[r] = "running"
    BY <1>3, HolderIsLatest DEF Complete, At
  <2>2. intent[r]
    BY <2>1 DEF RowFits
  <2>3. CASE state[r] = "waiting_approval"
    <3>1. AwaitingAction(r)
      BY <2>1, <2>2, <2>3 DEF RunsInv, ColumnsAgree, RowAgrees, AwaitingTool, AwaitingAction
    <3>2. CompleteAction(r)
      BY <1>3, <2>2, <2>3, <3>1 DEF Complete, Succeeds, CompleteAction, Become
    <3> QED BY <2>1, <3>2 DEF Next, ActionStep
  <2>4. CASE state[r] # "waiting_approval"
    <3>1. state' = state
      BY <1>3, <2>1, <2>4 DEF Complete, Succeeds, ActionTypeOK, TypeOK
    <3> QED BY <1>3, <3>1 DEF Complete, runVars, laneVars, progressVars, leaseVars
  <2> QED BY <2>3, <2>4
<1>4. ASSUME NEW x \in Executor, FailExecution(x) PROVE [Next]_runVars
  <2> DEFINE r == executor[x].run
  <2>1. r \in Run /\ RowFits(r) /\ execution[r] = "running"
    BY <1>4, HolderIsLatest DEF FailExecution, At
  <2>2. intent[r] /\ action[r] /\ state[r] # "succeeded"
    BY <2>1 DEF RowFits, RunsInv, ColumnsAgree, RowAgrees
  <2>3. CASE executor[x].token >= MaxExecutionAttempts
    <3>1. FailAction(r)
      BY <1>4, <2>2, <2>3 DEF FailExecution, FailAction, Become
    <3> QED BY <2>1, <3>1 DEF Next, ActionStep
  <2>4. CASE ~(executor[x].token >= MaxExecutionAttempts)
    BY <1>4, <2>4 DEF FailExecution, runVars, laneVars, progressVars, leaseVars
  <2> QED BY <2>3, <2>4
<1>5. ASSUME NEW x \in Executor,
             \/ InsertTicket(x) \/ Reconcile(x) \/ ReadBackFails(x) \/ Requeue(x)
             \/ MarkUnknown(x) \/ AbandonExecution(x)
      PROVE  UNCHANGED runVars
  BY <1>5 DEF InsertTicket, Reconcile, ReadBackFails, Requeue, MarkUnknown, AbandonExecution
<1>6. ASSUME NEW r \in Run,
             \/ ApproveIntent(r) \/ ApproveTooLate(r) \/ TakeExecution(r)
             \/ ExpireExecution(r) \/ ExecutionBackoffElapses(r)
      PROVE  UNCHANGED runVars
  BY <1>6 DEF ApproveIntent, ApproveTooLate, TakeExecution, SweepLapsed, ClaimExecution,
              ExpireExecution, ExecutionBackoffElapses
<1> QED BY <1>1, <1>2, <1>3, <1>4, <1>5, <1>6 DEF ActionNext, ExecutorStep, allActionVars

-------------------------------------------------------------------------------
(* Every step keeps the rows and the executors                                *)

RowUnchanged(r) ==
    /\ intent'[r] = intent[r] /\ intentState'[r] = intentState[r]
    /\ execution'[r] = execution[r] /\ eTries'[r] = eTries[r] /\ eToken'[r] = eToken[r]
    /\ tickets'[r] = tickets[r]
    /\ state'[r] = "succeeded" /\ action'[r] => state[r] = "succeeded" /\ action[r]

(* A step on the row of r, and on no other.                                    *)
LEMMA StepOnRow ==
    ASSUME ActionTypeOK, Rows, Executors, NEW r \in Run, RowFits(r)',
           \A y \in Run \ {r} : RowUnchanged(y),
           eTries'[r] \in Nat, eTries'[r] >= eTries[r],
           execution[r] # "none" => execution'[r] # "none",
           tickets[r] = 1 => tickets'[r] = 1,
           \A x \in Executor : executor'[x].run # NoRun =>
                                  executor'[x] = executor[x] \/ ExecutorFits(x)'
    PROVE  Rows' /\ Executors'
<1>1. Rows'
  BY DEF Rows, RowFits, RowUnchanged
<1>2. Executors'
  <2> SUFFICES ASSUME NEW x \in Executor, executor'[x].run # NoRun, executor'[x] = executor[x]
               PROVE  ExecutorFits(x)'
    BY DEF Executors
  <2>1. ExecutorFits(x) /\ executor[x].run \in Run /\ executor[x].token \in Nat
    BY ExecutorTypes DEF Executors
  <2>2. eTries[r] \in Nat /\ eTries[executor[x].run] \in Nat
    BY <2>1 DEF ActionTypeOK
  <2> QED BY <2>1, <2>2 DEF ExecutorFits, RowUnchanged
<1> QED BY <1>1, <1>2

(* A run succeeds outside the executor only without a proposed action.         *)
LEMMA OutsideIsQuiet ==
    ASSUME RunsInv, ActionRunStep, NEW r \in Run
    PROVE  /\ intent' = intent
           /\ state'[r] = "succeeded" /\ action'[r] => state[r] = "succeeded" /\ action[r]
<1> USE DEF RunsInv, TypeOK
<1>1. CASE LaneStep
  <2>1. ASSUME NEW y \in Run, ClaimRun(y)
        PROVE  intent' = intent /\ action' = action /\ (state'[r] = "succeeded" => state[r] = "succeeded")
    BY <2>1 DEF ClaimRun, Claim
  <2>2. ASSUME NEW y \in Run, Enqueue(y)
        PROVE  intent' = intent /\ action' = action /\ (state'[r] = "succeeded" => state[r] = "succeeded")
    BY <2>2 DEF Enqueue, progressVars
  <2>3. ASSUME \/ \E y \in Run : ExpireLease(y) \/ BackoffElapses(y)
               \/ \E setting \in {"enabled", "paused"} : SetExecutionControl(setting)
        PROVE  UNCHANGED <<intent, action, state>>
    BY <2>3 DEF ExpireLease, BackoffElapses, SetExecutionControl, progressVars
  <2> QED BY <1>1, <2>1, <2>2, <2>3 DEF LaneStep
<1>2. CASE ToolStep \/ DeliveryStep
  BY <1>2 DEF ToolStep, DeliveryStep, ResumeFromToolApproval, SettleDelivery, Become, progressVars
<1>3. ASSUME NEW w \in Worker, WaitForToolApproval(w) \/ PrepareDelivery(w)
      PROVE  intent' = intent /\ action' = action /\ (state'[r] = "succeeded" => state[r] = "succeeded")
  BY <1>3 DEF WaitForToolApproval, PrepareDelivery, progressVars
<1>4. ASSUME NEW w \in Worker, AnswerStep(w)
      PROVE  /\ intent' = intent
             /\ state'[r] = "succeeded" => state[r] = "succeeded" /\ action'[r] = action[r]
  <2>1. CASE FailOrRetry(w) \/ FailRun(w) \/ Abandon(w)
    BY <2>1 DEF FailOrRetry, RetryLater, FailRun, Abandon, progressVars
  <2>2. CASE SaveToolPlan(w) \/ SaveToolResult(w) \/ \E choice \in Route : SaveRoute(w, choice)
    BY <2>2 DEF SaveToolPlan, SaveToolResult, SaveRoute, Proceed
  <2>3. CASE \E proposes \in BOOLEAN : SaveCandidate(w, proposes)
    BY <2>3 DEF SaveCandidate, Proceed
  <2> QED BY <1>4, <2>1, <2>2, <2>3 DEF AnswerStep
<1> QED BY <1>1, <1>2, <1>3, <1>4 DEF ActionRunStep

(* What the lemmas below keep.                                                 *)
Both == ActionTypeOK' /\ Rows' /\ Executors'

LEMMA OutsideKeeps ==
    ASSUME ActionIInv, TypeOK', ActionRunStep \/ UNCHANGED runVars, UNCHANGED actionVars
    PROVE  Both
<1> USE DEF actionVars, rowVars
<1>1. ActionTypeOK'
  BY DEF ActionIInv, ActionTypeOK
<1>2. \A r \in Run : RowUnchanged(r)
  BY OutsideIsQuiet DEF ActionIInv, RowUnchanged, runVars
<1>3. Rows'
  BY <1>2 DEF ActionIInv, Rows, RowFits, RowUnchanged
<1>4. Executors'
  BY DEF ActionIInv, Executors, ExecutorFits
<1> QED BY <1>1, <1>3, <1>4 DEF Both

LEMMA IntentKeeps ==
    ASSUME ActionIInv, TypeOK', NEW w \in Worker, CreateIntent(w)
    PROVE  Both
<1> USE DEF ActionIInv
<1> PICK r \in Run : r = worker[w].run
  BY WorkerTypes DEF CreateIntent, EnsureIntent, ActionTypeOK
<1>1. RowFits(r) /\ ~intent[r]
  BY DEF CreateIntent, EnsureIntent, Rows
<1>2. /\ intent' = [intent EXCEPT ![r] = TRUE]
      /\ intentState' = [intentState EXCEPT ![r] = "pending_approval"]
      /\ UNCHANGED <<state, action, execution, eTries, eToken, eLeaseValid, eBackoff, executor, tickets>>
  BY DEF CreateIntent, EnsureIntent, progressVars
<1>3. ActionTypeOK'
  BY <1>2 DEF ActionTypeOK
<1>4. RowFits(r)' /\ \A y \in Run \ {r} : RowUnchanged(y)
  BY <1>1, <1>2 DEF RowFits, RowUnchanged, ActionTypeOK, TypeOK
<1> QED BY <1>1, <1>2, <1>3, <1>4, StepOnRow DEF Both, ActionTypeOK

LEMMA RowStepKeeps ==
    ASSUME ActionIInv, NEW r \in Run,
           \/ ApproveIntent(r) \/ ApproveTooLate(r) \/ SweepLapsed(r)
           \/ ExpireExecution(r) \/ ExecutionBackoffElapses(r)
    PROVE  Both
<1> USE DEF ActionIInv
<1>1. RowFits(r) /\ 0 \in 0 .. MaxExecutionAttempts
  BY ExecutionAttemptsType DEF Rows
<1>2. UNCHANGED <<runVars, eTries, executor, tickets>>
  BY DEF ApproveIntent, ApproveTooLate, SweepLapsed, ExpireExecution, ExecutionBackoffElapses
<1>3. TypeOK' /\ UNCHANGED <<intent, state, action>>
  BY <1>2, TypeStep DEF runVars, ActionTypeOK
<1>4. ActionTypeOK'
  <2>1. CASE ApproveIntent(r)
    BY <1>2, <1>3, <2>1 DEF ApproveIntent, leaseRowVars, ActionTypeOK
  <2>2. CASE ApproveTooLate(r)
    BY <1>2, <1>3, <2>2 DEF ApproveTooLate, leaseRowVars, ActionTypeOK
  <2>3. CASE SweepLapsed(r)
    BY <1>1, <1>2, <1>3, <2>3 DEF SweepLapsed, ReleaseRow, ActionTypeOK
  <2>4. CASE ExpireExecution(r) \/ ExecutionBackoffElapses(r)
    BY <1>2, <1>3, <2>4 DEF ExpireExecution, ExecutionBackoffElapses, leaseRowVars, ActionTypeOK
  <2> QED BY <2>1, <2>2, <2>3, <2>4
<1>5. RowFits(r)' /\ \A y \in Run \ {r} : RowUnchanged(y)
  BY <1>1, <1>2, <1>3 DEF ApproveIntent, ApproveTooLate, SweepLapsed, ExpireExecution,
       ExecutionBackoffElapses, ReleaseRow, leaseRowVars, RowFits, RowUnchanged, ActionTypeOK
<1>6. execution[r] # "none" => execution'[r] # "none"
  BY <1>1 DEF ApproveIntent, ApproveTooLate, SweepLapsed, ExpireExecution,
       ExecutionBackoffElapses, ReleaseRow, RowFits, ActionTypeOK
<1> QED BY <1>2, <1>4, <1>5, <1>6, StepOnRow DEF Both, ActionTypeOK

LEMMA ClaimKeeps ==
    ASSUME ActionIInv, NEW r \in Run, NEW x \in Executor, ClaimExecution(x, r)
    PROVE  Both
<1> USE DEF ActionIInv
<1>1. RowFits(r) /\ execution[r] \in {"queued", "unknown"} /\ eTries[r] \in Nat
  BY DEF Rows, ClaimExecution, OpenExecution, ActionTypeOK
<1>2. eTries[r] + 1 \in 1 .. MaxExecutionAttempts
  BY <1>1, ExecutionAttemptsType DEF ClaimExecution, TriesLeft
<1>3. [run |-> r, token |-> eTries[r] + 1, step |-> FirstStep(r)] \in Executions
  BY <1>1 DEF Executions, Steps, FirstStep
<1>4. TypeOK' /\ UNCHANGED <<intent, state, action>>
  BY DEF ClaimExecution, runVars, ActionTypeOK, TypeOK
<1>5. ActionTypeOK'
  BY <1>2, <1>3, <1>4 DEF ClaimExecution, ActionTypeOK
<1>6. RowFits(r)' /\ \A y \in Run \ {r} : RowUnchanged(y)
  BY <1>1, <1>2, <1>4 DEF ClaimExecution, RowFits, RowUnchanged, ActionTypeOK
<1>7. /\ executor'[x] = [run |-> r, token |-> eTries[r] + 1, step |-> FirstStep(r)]
      /\ eTries'[r] = eTries[r] + 1 /\ execution'[r] = "running" /\ tickets' = tickets
      /\ \A y \in Executor \ {x} : executor'[y] = executor[y]
  BY DEF ClaimExecution, ActionTypeOK
<1>8. ExecutorFits(x)'
  BY <1>1, <1>7 DEF ExecutorFits, FirstStep
<1> QED BY <1>1, <1>5, <1>6, <1>7, <1>8, StepOnRow DEF Both

(* The executor only moves from step to step, and may write the ticket.        *)
LEMMA StepKeeps ==
    ASSUME ActionIInv, NEW x \in Executor, InsertTicket(x) \/ Reconcile(x) \/ ReadBackFails(x)
    PROVE  Both
<1> USE DEF ActionIInv
<1> PICK r \in Run : r = executor[x].run
  BY ExecutorTypes DEF InsertTicket, Reconcile, ReadBackFails, At
<1>1. /\ r # NoRun /\ RowFits(r) /\ ExecutorFits(x) /\ tickets[r] \in Nat
      /\ executor[x] \in Executions
  BY ExecutorTypes DEF InsertTicket, Reconcile, ReadBackFails, At, Rows, Executors, ActionTypeOK
<1>2. PICK step \in Steps, n \in {tickets[r], 1} :
        /\ executor' = [executor EXCEPT ![x].step = step]
        /\ tickets' = [tickets EXCEPT ![r] = n]
        /\ tickets[r] = 1 => n = 1
        /\ step = "found" => n = 1
  <2>1. CASE InsertTicket(x)
    <3>1. tickets[r] \in {0, 1}
      BY <1>1 DEF RowFits
    <3>2. WithTicket(r) = [tickets EXCEPT ![r] = 1]
      BY <3>1 DEF WithTicket
    <3>3. tickets = [tickets EXCEPT ![r] = tickets[r]]
      BY <1>1 DEF ActionTypeOK
    <3> QED BY <2>1, <3>2, <3>3 DEF InsertTicket, GoTo, Steps
  <2>2. CASE Reconcile(x) \/ ReadBackFails(x)
    <3>1. tickets' = [tickets EXCEPT ![r] = tickets[r]]
      BY <2>2 DEF Reconcile, ReadBackFails, ActionTypeOK
    <3>2. LookedUp(r) \in Steps /\ (LookedUp(r) = "found" => tickets[r] = 1)
      BY <1>1 DEF LookedUp, Steps, RowFits
    <3> QED BY <2>2, <3>1, <3>2 DEF Reconcile, ReadBackFails, GoTo, Steps
  <2> QED BY <2>1, <2>2
<1>3. /\ executor' = [executor EXCEPT ![x] = [executor[x] EXCEPT !.step = step]]
      /\ [executor[x] EXCEPT !.step = step] \in Executions
  BY <1>1, <1>2 DEF Executions
<1>4. /\ UNCHANGED <<runVars, rowVars>> /\ TypeOK' /\ UNCHANGED <<intent, state, action>>
      /\ UNCHANGED <<intentState, execution, eTries, eToken, eLeaseValid, eBackoff>>
  BY DEF InsertTicket, Reconcile, ReadBackFails, runVars, rowVars, ActionTypeOK, TypeOK
<1>5. ActionTypeOK'
  BY <1>1, <1>2, <1>3, <1>4 DEF ActionTypeOK
<1>6. RowFits(r)' /\ \A y \in Run \ {r} : RowUnchanged(y)
  BY <1>1, <1>2, <1>4 DEF RowFits, RowUnchanged, ActionTypeOK, ExecutorFits
<1>7. /\ executor'[x].run = r /\ executor'[x].token = executor[x].token
      /\ executor'[x].step = step
      /\ \A y \in Executor \ {x} : executor'[y] = executor[y]
  BY <1>1, <1>3 DEF Executions, ActionTypeOK
<1>8. ExecutorFits(x)'
  BY <1>1, <1>2, <1>4, <1>7 DEF ExecutorFits, ActionTypeOK
<1> QED BY <1>1, <1>2, <1>4, <1>5, <1>6, <1>7, <1>8, StepOnRow DEF Both, ActionTypeOK

LEMMA EndKeeps ==
    ASSUME ActionIInv, TypeOK', NEW x \in Executor,
           Requeue(x) \/ MarkUnknown(x) \/ Complete(x) \/ FailExecution(x) \/ AbandonExecution(x)
    PROVE  Both
<1> USE DEF ActionIInv
<1> PICK r \in Run : r = executor[x].run
  BY ExecutorTypes DEF Requeue, MarkUnknown, Complete, FailExecution, AbandonExecution, At
<1>0. /\ RowFits(r) /\ ExecutorFits(x) /\ IdleExecutor \in Executions
      /\ r # NoRun /\ 0 \in 0 .. MaxExecutionAttempts /\ eTries[r] \in Nat
  BY ExecutorTypes, IdleIsExecution, ExecutionAttemptsType
     DEF Requeue, MarkUnknown, Complete, FailExecution, AbandonExecution, At, Rows, Executors,
         ActionTypeOK
<1>1. HoldsExecution(x) => execution[r] = "running"
  BY <1>0, HolderIsLatest
<1>2. executor' = [executor EXCEPT ![x] = IdleExecutor] /\ UNCHANGED <<eTries, tickets, intent, action>>
  BY DEF Requeue, MarkUnknown, Complete, FailExecution, AbandonExecution, BecomeIdle, runVars,
         rowVars, progressVars
<1>3. /\ executor'[x].run = NoRun
      /\ \A y \in Executor \ {x} : executor'[y] = executor[y]
  BY <1>2, IdleIsExecution DEF ActionTypeOK
<1>4. ASSUME UNCHANGED <<intentState, execution, eToken, state>>, ActionTypeOK'
      PROVE  Both
  <2>1. RowFits(r)' /\ \A y \in Run \ {r} : RowUnchanged(y)
    BY <1>0, <1>2, <1>4 DEF RowFits, RowUnchanged
  <2> QED BY <1>0, <1>2, <1>3, <1>4, <2>1, StepOnRow DEF Both
<1>5. CASE AbandonExecution(x)
  <2>1. ActionTypeOK'
    BY <1>0, <1>2, <1>5 DEF AbandonExecution, rowVars, ActionTypeOK
  <2> QED BY <1>4, <1>5, <2>1 DEF AbandonExecution, rowVars, runVars
<1>6. CASE (Requeue(x) \/ MarkUnknown(x)) /\ ~HoldsExecution(x)
  <2>1. ActionTypeOK'
    BY <1>0, <1>2, <1>6 DEF Requeue, MarkUnknown, leaseRowVars, ActionTypeOK
  <2> QED BY <1>4, <1>6, <2>1 DEF Requeue, MarkUnknown, leaseRowVars, runVars
<1>7. ASSUME NEW st \in {"queued", "unknown", "succeeded", "failed"}, HoldsExecution(x),
             ReleaseRow(r, st), ActionTypeOK',
             \/ st \in {"queued", "unknown"} /\ UNCHANGED <<intentState, state>>
             \/ /\ st \in {"succeeded", "failed"}
                /\ intentState' = [intentState EXCEPT ![r] = st]
                /\ \/ state' = [state EXCEPT ![r] = st]
                   \/ st = "succeeded" /\ state' = state
                /\ st = "succeeded" => tickets[r] = 1
      PROVE  Both
  <2>1. /\ execution'[r] = st /\ eToken'[r] = 0
        /\ \A y \in Run \ {r} : execution'[y] = execution[y] /\ eToken'[y] = eToken[y]
    BY <1>0, <1>7 DEF ReleaseRow, ActionTypeOK
  <2>2. RowFits(r)'
    BY <1>0, <1>1, <1>2, <1>7, <2>1 DEF RowFits, ActionTypeOK, TypeOK
  <2>3. \A y \in Run \ {r} : RowUnchanged(y)
    BY <1>0, <1>2, <1>7, <2>1 DEF RowUnchanged, ActionTypeOK, TypeOK
  <2> QED BY <1>0, <1>2, <1>3, <1>7, <2>1, <2>2, <2>3, StepOnRow DEF Both
<1>8. CASE Requeue(x) /\ HoldsExecution(x)
  <2>1. ActionTypeOK'
    BY <1>0, <1>2, <1>8 DEF Requeue, ReleaseRow, ActionTypeOK
  <2> QED BY <1>7, <1>8, <2>1 DEF Requeue, runVars
<1>9. CASE MarkUnknown(x) /\ HoldsExecution(x)
  <2>1. ActionTypeOK'
    BY <1>0, <1>2, <1>9 DEF MarkUnknown, ReleaseRow, ActionTypeOK
  <2> QED BY <1>7, <1>9, <2>1 DEF MarkUnknown, runVars
<1>10. CASE Complete(x)
  <2>1. ActionTypeOK'
    BY <1>0, <1>2, <1>10 DEF Complete, ReleaseRow, ActionTypeOK
  <2>2. tickets[r] = 1
    BY <1>0, <1>10 DEF Complete, At, ExecutorFits
  <2>3. state' = [state EXCEPT ![r] = "succeeded"] \/ state' = state
    BY <1>0, <1>10 DEF Complete, Succeeds, ActionTypeOK, TypeOK
  <2> QED BY <1>7, <1>10, <2>1, <2>2, <2>3 DEF Complete
<1>11. CASE FailExecution(x)
  <2> DEFINE terminal == executor[x].token >= MaxExecutionAttempts
  <2>1. ActionTypeOK'
    BY <1>0, <1>2, <1>11 DEF FailExecution, ReleaseRow, ActionTypeOK
  <2>2. CASE terminal
    BY <1>7, <1>11, <2>1, <2>2 DEF FailExecution
  <2>3. CASE ~terminal
    BY <1>7, <1>11, <2>1, <2>3 DEF FailExecution
  <2> QED BY <2>2, <2>3
<1> QED BY <1>5, <1>6, <1>8, <1>9, <1>10, <1>11

LEMMA InitActionIInv == ActionInit => ActionIInv
<1> SUFFICES ASSUME ActionInit PROVE ActionIInv
  OBVIOUS
<1>1. RunsInv /\ TypeOK
  BY InitRuns DEF ActionInit, RunsInv
<1>2. ActionTypeOK
  BY <1>1, IdleIsExecution, ExecutionAttemptsType DEF ActionInit, ActionTypeOK
<1>3. Rows
  BY DEF ActionInit, Init, Rows, RowFits
<1>4. Executors
  BY IdleIsExecution DEF ActionInit, Executors
<1> QED BY <1>1, <1>2, <1>3, <1>4 DEF ActionIInv

LEMMA ActionIInvStep == ActionIInv /\ [ActionNext]_allActionVars => ActionIInv'
<1> SUFFICES ASSUME ActionIInv, [ActionNext]_allActionVars PROVE ActionIInv'
  OBVIOUS
<1>1. RunsInv' /\ TypeOK'
  BY ActionStepOfRuns, RunsStep DEF ActionIInv, RunsInv
<1>2. Both
  BY <1>1, OutsideKeeps, IntentKeeps, RowStepKeeps, ClaimKeeps, StepKeeps, EndKeeps
     DEF ActionNext, TakeExecution, ExecutorStep, allActionVars
<1> QED BY <1>1, <1>2 DEF ActionIInv, Both

-------------------------------------------------------------------------------
(* The theorems                                                               *)

(* The executor writes a run only where AgentRuns lets it: its verification    *)
(* and its failure land on the run that proposed the ticket, or on none.       *)
THEOREM ActionsImplementRuns == ActionSpec => ActionsRefineRuns
<1>1. ActionInit => Init /\ ActionIInv
  BY InitActionIInv DEF ActionInit
<1>2. ActionIInv /\ [ActionNext]_allActionVars => [Next]_runVars
  BY ActionStepOfRuns DEF ActionIInv
<1>3. ActionSpec => Init /\ [][Next]_runVars
  BY <1>1, <1>2, ActionIInvStep, PTL DEF ActionSpec
<1> QED BY <1>3 DEF ActionsRefineRuns, Spec

(* So executors, which end a run outside its lane's turn, bring no run back and *)
(* let no conversation skip a turn.                                             *)
THEOREM ActionsKeepRuns == ActionSpec => []RunsInv /\ StaleWorkerInert /\ NothingTakenBack /\ ServesInOrder
BY ActionsImplementRuns, RunsCorrect, StaleWorkerHarmless, NothingTakenBackCorrect, ServesInOrderCorrect, PTL
   DEF ActionsRefineRuns

(* For any number of attempts and executors there is at most one ticket, only  *)
(* for an approved intent, and success is never reported without it.           *)
THEOREM ActionCorrect == ActionSpec => []ActionInv
<1>1. ActionIInv => ActionInv
  <2> SUFFICES ASSUME ActionIInv PROVE ActionInv
    OBVIOUS
  <2>1. OneApprovedTicket
    <3> SUFFICES ASSUME NEW r \in Run
                 PROVE  /\ tickets[r] <= 1
                        /\ tickets[r] > 0 => intentState[r] \in {"approved", "succeeded", "failed"}
      BY DEF OneApprovedTicket
    <3>1. RowFits(r) /\ intentState[r] \in {"none", "pending_approval", "approved", "succeeded",
                                           "failed", "expired"}
      BY DEF ActionIInv, Rows, ActionTypeOK
    <3> QED BY <3>1 DEF RowFits
  <2>2. SuccessHasTicket
    BY DEF ActionIInv, Rows, RowFits, SuccessHasTicket
  <2> QED BY <2>1, <2>2 DEF ActionInv, ActionIInv
<1> QED BY <1>1, InitActionIInv, ActionIInvStep, PTL DEF ActionSpec

FencedEnd(r) ==
    /\ execution[r] \in {"succeeded", "failed"} => execution'[r] = execution[r]
    /\ execution[r] = "running" /\ execution'[r] \in {"succeeded", "failed", "queued"} =>
          \E x \in Executor : /\ executor[x].run = r
                              /\ executor[x].token = eTries[r]
                              /\ executor'[x] = IdleExecutor

Reconciles(r) ==
    execution[r] = "unknown" /\ execution'[r] # "unknown" =>
        \E x \in Executor : executor'[x] = [run |-> r, token |-> eTries'[r], step |-> "reconcile"]

LEMMA FencedInStep ==
    ASSUME ActionIInv, [ActionNext]_allActionVars, NEW r \in Run
    PROVE  FencedEnd(r) /\ Reconciles(r)
<1> USE DEF ActionIInv
<1>1. ASSUME execution'[r] = execution[r] PROVE FencedEnd(r) /\ Reconciles(r)
  BY <1>1 DEF FencedEnd, Reconciles
<1>2. ASSUME NEW y \in Run, ApproveIntent(y) \/ SweepLapsed(y) PROVE FencedEnd(r) /\ Reconciles(r)
  <2>1. CASE y # r
    BY <1>1, <1>2, <2>1 DEF ApproveIntent, SweepLapsed, ReleaseRow, ActionTypeOK
  <2>2. CASE y = r
    <3>1. \/ execution[r] = "none"
          \/ execution[r] = "running" /\ execution'[r] = "unknown"
      BY <1>2, <2>2 DEF ApproveIntent, SweepLapsed, ReleaseRow, ActionTypeOK, Rows, RowFits
    <3> QED BY <3>1 DEF FencedEnd, Reconciles
  <2> QED BY <2>1, <2>2
<1>3. ASSUME NEW y \in Run, NEW x \in Executor, ClaimExecution(x, y)
      PROVE  FencedEnd(r) /\ Reconciles(r)
  <2>1. CASE y # r
    BY <1>1, <1>3, <2>1 DEF ClaimExecution, ActionTypeOK
  <2>2. CASE y = r
    <3>1. /\ execution[r] \in {"queued", "unknown"} /\ eTries'[r] = eTries[r] + 1
          /\ executor'[x] = [run |-> r, token |-> eTries[r] + 1, step |-> FirstStep(r)]
      BY <1>3, <2>2 DEF ClaimExecution, OpenExecution, ActionTypeOK
    <3> QED BY <3>1 DEF FencedEnd, Reconciles, FirstStep
  <2> QED BY <2>1, <2>2
<1>4. ASSUME NEW x \in Executor,
             Requeue(x) \/ MarkUnknown(x) \/ Complete(x) \/ FailExecution(x) \/ AbandonExecution(x)
      PROVE  FencedEnd(r) /\ Reconciles(r)
  <2>1. CASE executor[x].run # r \/ execution' = execution
    BY <1>1, <1>4, <2>1 DEF Requeue, MarkUnknown, Complete, FailExecution, AbandonExecution,
                            ReleaseRow, rowVars, ActionTypeOK
  <2>2. CASE executor[x].run = r /\ execution' # execution
    <3>1. HoldsExecution(x) /\ executor[x].run # NoRun
      BY <1>4, <2>2 DEF Requeue, MarkUnknown, Complete, FailExecution, AbandonExecution,
                        rowVars, At
    <3>2. execution[r] = "running" /\ executor[x].token = eTries[r]
      BY <2>2, <3>1, HolderIsLatest
    <3>3. executor'[x] = IdleExecutor
      BY <1>4 DEF Requeue, MarkUnknown, Complete, FailExecution, AbandonExecution, BecomeIdle,
                  ActionTypeOK
    <3> QED BY <2>2, <3>2, <3>3 DEF FencedEnd, Reconciles
  <2> QED BY <2>1, <2>2
<1>5. ASSUME NEW w \in Worker, CreateIntent(w) PROVE FencedEnd(r) /\ Reconciles(r)
  BY <1>1, <1>5 DEF CreateIntent
<1>6. CASE UNCHANGED actionVars
  BY <1>1, <1>6 DEF actionVars, rowVars
<1>7. ASSUME NEW y \in Run, ApproveTooLate(y) \/ ExpireExecution(y) \/ ExecutionBackoffElapses(y)
      PROVE  FencedEnd(r) /\ Reconciles(r)
  BY <1>1, <1>7 DEF ApproveTooLate, ExpireExecution, ExecutionBackoffElapses
<1>8. ASSUME NEW x \in Executor, InsertTicket(x) \/ Reconcile(x) \/ ReadBackFails(x)
      PROVE  FencedEnd(r) /\ Reconciles(r)
  BY <1>1, <1>8 DEF InsertTicket, Reconcile, ReadBackFails, rowVars
<1>9. ASSUME NEW x \in Executor, ExecutorStep(x) PROVE FencedEnd(r) /\ Reconciles(r)
  BY <1>4, <1>8, <1>9 DEF ExecutorStep
<1>10. ASSUME NEW y \in Run,
              \/ ApproveIntent(y) \/ ApproveTooLate(y) \/ TakeExecution(y)
              \/ ExpireExecution(y) \/ ExecutionBackoffElapses(y)
       PROVE  FencedEnd(r) /\ Reconciles(r)
  BY <1>2, <1>3, <1>7, <1>10 DEF TakeExecution
<1> QED BY <1>5, <1>6, <1>9, <1>10 DEF ActionNext, allActionVars

(* An execution is ended only by its latest claim and for good, and leaves an  *)
(* unknown outcome only into a claim that looks the ticket up.                 *)
THEOREM ExecutorsFencedCorrect == ActionSpec => ExecutorsFenced
<1>1. ActionIInv /\ [ActionNext]_allActionVars =>
          [\A r \in Run : FencedEnd(r)]_allActionVars /\ [\A r \in Run : Reconciles(r)]_allActionVars
  BY FencedInStep
<1>2. ActionSpec => [][\A r \in Run : FencedEnd(r)]_allActionVars /\ [][\A r \in Run : Reconciles(r)]_allActionVars
  BY <1>1, InitActionIInv, ActionIInvStep, PTL DEF ActionSpec
<1> QED BY <1>2 DEF ExecutorsFenced, StaleExecutorInert, ReconcileBeforeRetry, FencedEnd, Reconciles

-------------------------------------------------------------------------------
(***************************************************************************)
(* Proofs about Delegation, for any number of parents and children.  Spawn *)
(* does to the lane and the run what Enqueue does, so the invariants of    *)
(* the runs hold of children too; that a child's turn comes after its      *)
(* parent's then follows from their places in the lane, and the row of the *)
(* delegation follows the child by a case for each way a run may move.     *)
(***************************************************************************)

(* Delegating implements the runs                                             *)

LEMMA SpawnEnqueues ==
    ASSUME NEW w \in Worker, NEW c \in Child, Spawn(w, c)
    PROVE  Enqueue(c)
BY DEF Spawn, SpawnSequence, Enqueue, AllocateSequence

LEMMA DelegationStepOfRuns ==
    ASSUME [DelegationNext]_vars
    PROVE  [Next]_runVars
<1>1. ASSUME NEW r \in Run, ClaimTurn(r) \/ ClockStep(r) \/ SettleChild(r) PROVE Next
  BY <1>1 DEF ClaimTurn, ClaimChild, ClaimRun, ClockStep, SettleChild, Next, LaneStep, DeliveryStep
<1>2. ASSUME NEW w \in Worker, DelegatingStep(w) PROVE Next
  <2>1. ASSUME NEW c \in Child, Spawn(w, c) PROVE Next
    BY <2>1, SpawnEnqueues, ChildType DEF Next, LaneStep
  <2>2. CASE FailChild(w) \/ WaitForDecision(w) \/ UnseenStep(w)
    BY <2>2 DEF FailChild, WaitForDecision, UnseenStep, Next, WorkerStep, AnswerStep, FailOrRetry
  <2> QED BY <1>2, <2>1, <2>2 DEF DelegatingStep
<1>3. CASE Decided
  BY <1>3 DEF Decided, Next, ToolStep
<1>4. ASSUME NEW setting, SetDeliveryControl(setting) PROVE UNCHANGED runVars
  BY <1>4 DEF SetDeliveryControl
<1> QED BY <1>1, <1>2, <1>3, <1>4 DEF DelegationNext, Next, LaneStep, vars

(* Children are accepted, claimed and settled only as AgentRuns lets any run,  *)
(* and no delegation row stands in the way of a run.                           *)
THEOREM DelegationImplementsRuns == DelegationSpec => DelegationRefinesRuns
<1>1. DelegationInit => Init
  BY DEF DelegationInit
<1>2. DelegationSpec => Init /\ [][Next]_runVars
  BY <1>1, DelegationStepOfRuns, PTL DEF DelegationSpec
<1> QED BY <1>2 DEF DelegationRefinesRuns, Spec

(* So children that workers put into their own lane are turns of it like the   *)
(* messages of members: begun and ended in the order in which they were added.  *)
THEOREM DelegationKeepsRuns == DelegationSpec => []RunsInv /\ StaleWorkerInert /\ NothingTakenBack /\ ServesInOrder
BY DelegationImplementsRuns, RunsCorrect, StaleWorkerHarmless, NothingTakenBackCorrect, ServesInOrderCorrect, PTL
   DEF DelegationRefinesRuns

-------------------------------------------------------------------------------
(* Parents and children in their lane                                         *)

Family(c) ==
    LET p == parent[c] IN
    /\ p # NoRun <=> delegation[c] # "none"
    /\ p # NoRun =>
          /\ \A d \in Child : parent[d] = p => d = c
          /\ LaneOf[p] = LaneOf[c]
          /\ state[p] # "absent" /\ state[c] # "absent"
          /\ sequence[p] < sequence[c]

DelegationIInv ==
    /\ RunsInv /\ BegunOnce /\ DelegationTypeOK
    /\ \A c \in Child : RowFollowsChild(c) /\ Family(c)

LEMMA HeadUnique ==
    ASSUME RunsInv, NEW a \in Run, NEW b \in Run, IsHead(a), IsHead(b), LaneOf[a] = LaneOf[b]
    PROVE  a = b
<1>1. LaneOf[a] \in Lane /\ a \in InLane(LaneOf[a]) /\ b \in InLane(LaneOf[a])
  BY LaneOfType DEF IsHead, InLane
<1> QED BY <1>1 DEF IsHead, RunsInv, GaplessSequence

LEMMA HeadStays ==
    ASSUME RunsInv, BegunOnce, [Next]_runVars, NEW r \in Run, IsHead(r),
           nextDispatch'[LaneOf[r]] = nextDispatch[LaneOf[r]]
    PROVE  IsHead(r)'
BY PresentStays DEF IsHead

LEMMA FamilyKept ==
    ASSUME DelegationIInv, [Next]_runVars, UNCHANGED parent, NEW c \in Child,
           delegation'[c] = "none" <=> delegation[c] = "none"
    PROVE  Family(c)'
<1>1. Family(c) /\ RunsInv /\ BegunOnce /\ c \in Run
  BY ChildType DEF DelegationIInv
<1>2. CASE parent[c] = NoRun
  BY <1>1, <1>2 DEF Family
<1>3. CASE parent[c] # NoRun
  <2>1. parent[c] \in Run
    BY <1>3 DEF DelegationIInv, DelegationTypeOK
  <2>2. /\ state'[c] # "absent" /\ sequence'[c] = sequence[c]
        /\ state'[parent[c]] # "absent" /\ sequence'[parent[c]] = sequence[parent[c]]
    BY <1>1, <1>3, <2>1, PresentStays DEF Family
  <2> QED BY <1>1, <1>3, <2>2 DEF Family
<1> QED BY <1>2, <1>3

LEMMA FamilyOfSpawn ==
    ASSUME DelegationIInv, [Next]_runVars, NEW w \in Worker, NEW d \in Child, Spawn(w, d),
           NEW c \in Child
    PROVE  Family(c)'
<1> USE DEF DelegationIInv, DelegationTypeOK
<1> PICK p \in Run \ Child : p = worker[w].run
  BY DEF Spawn
<1>1. /\ parent' = [parent EXCEPT ![d] = p] /\ delegation' = [delegation EXCEPT ![d] = "queued"]
      /\ \A x \in Child : parent[x] # p
      /\ state[p] = "running" /\ state[d] = "absent" /\ LaneOf[d] = LaneOf[p]
      /\ state' = [state EXCEPT ![d] = "queued"]
      /\ sequence' = [sequence EXCEPT ![d] = nextEnqueue[LaneOf[d]]]
  BY DEF Spawn, SpawnSequence, FirstSpawn
<1>2. Family(c) /\ c \in Run /\ d \in Run /\ p # NoRun /\ p # d
  BY ChildType, NoRunType
<1>3. CASE c = d
  <2>1. sequence[p] < nextEnqueue[LaneOf[d]]
    <3>1. p \in InLane(LaneOf[d]) /\ LaneOf[d] \in Lane
      BY <1>1, <1>2, LaneOfType DEF InLane
    <3>2. sequence[p] \in 1 .. nextEnqueue[LaneOf[d]] - 1 /\ nextEnqueue[LaneOf[d]] \in Nat
      BY <3>1 DEF RunsInv, GaplessSequence, TypeOK
    <3> QED BY <3>2
  <2>2. /\ parent'[c] = p /\ delegation'[c] = "queued"
        /\ \A x \in Child \ {c} : parent'[x] = parent[x]
    BY <1>1, <1>3
  <2>3. /\ state'[c] = "queued" /\ state'[p] = "running"
        /\ sequence'[c] = nextEnqueue[LaneOf[d]] /\ sequence'[p] = sequence[p]
    BY <1>1, <1>2, <1>3 DEF RunsInv, TypeOK
  <2> QED BY <1>1, <1>2, <1>3, <2>1, <2>2, <2>3 DEF Family
<1>4. CASE c # d
  <2>1. parent'[c] = parent[c] /\ delegation'[c] = delegation[c] /\ parent'[d] = p
    BY <1>1, <1>4
  <2>2. \A x \in Child \ {d} : parent'[x] = parent[x]
    BY <1>1
  <2>3. CASE parent[c] # NoRun
    <3>1. parent[c] \in Run /\ state[parent[c]] # "absent" /\ state[c] # "absent"
      BY <1>2, <2>3 DEF Family
    <3>2. /\ state'[c] # "absent" /\ sequence'[c] = sequence[c]
          /\ state'[parent[c]] # "absent" /\ sequence'[parent[c]] = sequence[parent[c]]
      BY <1>2, <3>1, PresentStays
    <3> QED BY <1>1, <1>2, <2>1, <2>2, <2>3, <3>2 DEF Family
  <2>4. CASE parent[c] = NoRun
    BY <1>2, <2>1, <2>4 DEF Family
  <2> QED BY <2>3, <2>4
<1> QED BY <1>3, <1>4

-------------------------------------------------------------------------------
(* The row follows the child                                                  *)

(* A child that is being worked on has its delegation running.                 *)
LEMMA WorkedIsRunning ==
    ASSUME DelegationTypeOK, NEW c \in Child, RowFollowsChild(c),
           \/ state[c] \in {"running", "reply_pending", "delivery_pending"}
           \/ AwaitingTool(c)
           \/ state[c] = "queued" /\ delegation[c] # "queued"
    PROVE  delegation[c] = "running"
<1>1. delegation[c] \in DelegationStates
  BY DEF DelegationTypeOK
<1> QED BY <1>1 DEF RowFollowsChild, DelegationStates, Open, AwaitingTool, AwaitingAction, FailedByAction

Unmoved(c) ==
    /\ state'[c] = state[c] /\ attempts'[c] = attempts[c]
    /\ intent[c] => intent'[c]
    /\ AwaitingAction(c) => phase'[c] = phase[c]

Worked(c) ==
    /\ delegation[c] = "running"
    /\ state'[c] \notin {"absent", "failed"} /\ attempts'[c] > 0

EndedByAction(c) ==
    /\ attempts'[c] = attempts[c]
    /\ \/ AwaitingAction(c) /\ state'[c] = "succeeded"
       \/ intent[c] /\ intent'[c] /\ state'[c] = "failed"

LEMMA RowKept ==
    ASSUME DelegationIInv, [Next]_runVars, NEW c \in Child, delegation'[c] = delegation[c],
           Unmoved(c) \/ Worked(c) \/ EndedByAction(c),
           nextDispatch'[LaneOf[c]] = nextDispatch[LaneOf[c]] \/ ~IsHead(c)
    PROVE  RowFollowsChild(c)'
<1>1. /\ RunsInv /\ BegunOnce /\ DelegationTypeOK /\ RowFollowsChild(c) /\ c \in Run
      /\ delegation[c] \in DelegationStates
  BY ChildType DEF DelegationIInv, DelegationTypeOK
<1>2. IsHead(c) => IsHead(c)'
  BY <1>1, HeadStays
<1>3. CASE Unmoved(c)
  BY <1>1, <1>2, <1>3 DEF RowFollowsChild, Unmoved, AwaitingAction, FailedByAction
<1>4. CASE Worked(c)
  BY <1>1, <1>2, <1>4 DEF RowFollowsChild, Worked
<1>5. CASE EndedByAction(c)
  <2>1. CASE AwaitingAction(c) /\ state'[c] = "succeeded"
    BY <1>1, <1>2, <1>5, <2>1 DEF RowFollowsChild, EndedByAction, AwaitingAction, FailedByAction
  <2>2. CASE intent[c] /\ intent'[c] /\ state'[c] = "failed"
    <3>1. phase[c] = "finalize"
      BY <1>1, <2>2 DEF RunsInv, ColumnsAgree, RowAgrees
    <3>2. attempts[c] > 0 /\ attempts[c] \in Nat /\ state[c] # "absent"
      BY <1>1, <3>1 DEF BegunOnce, RunsInv, ColumnsAgree, RowAgrees, TypeOK
    <3> QED BY <1>1, <1>2, <1>5, <2>2, <3>2 DEF RowFollowsChild, EndedByAction, FailedByAction
  <2> QED BY <1>5, <2>1, <2>2 DEF EndedByAction
<1> QED BY <1>3, <1>4, <1>5

LEMMA RowOfUnseen ==
    ASSUME DelegationIInv, NEW w \in Worker, UnseenStep(w) \/ WaitForDecision(w), NEW c \in Child,
           delegation'[c] = delegation[c]
    PROVE  /\ Unmoved(c) \/ Worked(c)
           /\ UNCHANGED nextDispatch
<1>1. /\ RunsInv /\ TypeOK /\ DelegationTypeOK /\ RowFollowsChild(c) /\ c \in Run
      /\ attempts[c] \in Nat
  BY ChildType DEF DelegationIInv, RunsInv, TypeOK
<1>2. state[c] = "running" => delegation[c] = "running" /\ attempts[c] > 0
  BY <1>1, WorkedIsRunning DEF RowFollowsChild
<1> USE <1>1, <1>2 DEF HoldsLease, HoldsToken, TypeOK, Unmoved, Worked, AwaitingAction
<1>3. CASE \E choice \in Route : SaveRoute(w, choice)
  BY <1>3 DEF SaveRoute, Proceed
<1>4. CASE SaveToolPlan(w) \/ SaveToolResult(w)
  BY <1>4 DEF SaveToolPlan, SaveToolResult, Proceed
<1>5. CASE \E proposes \in BOOLEAN : SaveCandidate(w, proposes)
  BY <1>5 DEF SaveCandidate, Proceed
<1>6. CASE RetryLater(w)
  BY <1>6 DEF RetryLater, laneVars, progressVars
<1>7. CASE WaitForDecision(w) \/ PrepareDelivery(w)
  BY <1>7 DEF WaitForDecision, WaitForToolApproval, PrepareDelivery, laneVars, progressVars
<1>8. CASE Abandon(w) \/ EnsureIntent(w)
  BY <1>8 DEF Abandon, EnsureIntent, laneVars, progressVars
<1> QED BY <1>3, <1>4, <1>5, <1>6, <1>7, <1>8 DEF UnseenStep

LEMMA RowOfOthers ==
    ASSUME DelegationIInv, NEW c \in Child, delegation'[c] = delegation[c],
           \/ \E r \in Run : ExpireLease(r) \/ BackoffElapses(r)
           \/ \E r \in Run \ Child : Enqueue(r)
           \/ \E setting \in {"enabled", "paused"} : SetExecutionControl(setting)
           \/ Decided \/ ActionStep
    PROVE  /\ Unmoved(c) \/ Worked(c) \/ EndedByAction(c)
           /\ UNCHANGED nextDispatch
<1>1. /\ RunsInv /\ TypeOK /\ DelegationTypeOK /\ RowFollowsChild(c) /\ c \in Run
      /\ attempts[c] \in Nat
  BY ChildType DEF DelegationIInv, RunsInv, TypeOK
<1> USE <1>1 DEF TypeOK, laneVars, progressVars
<1>2. CASE \/ \E r \in Run : ExpireLease(r) \/ BackoffElapses(r)
          \/ \E setting \in {"enabled", "paused"} : SetExecutionControl(setting)
  BY <1>2 DEF ExpireLease, BackoffElapses, SetExecutionControl, Unmoved
<1>3. ASSUME NEW r \in Run \ Child, Enqueue(r) PROVE Unmoved(c) /\ UNCHANGED nextDispatch
  BY <1>3 DEF Enqueue, Unmoved
<1>4. ASSUME NEW r \in Run, ResumeFromToolApproval(r)
      PROVE  (Unmoved(c) \/ Worked(c)) /\ UNCHANGED nextDispatch
  <2>1. CASE r = c
    <3>1. delegation[c] = "running" /\ attempts[c] > 0
      BY <1>4, <2>1, WorkedIsRunning DEF ResumeFromToolApproval, RowFollowsChild
    <3> QED BY <1>4, <2>1, <3>1 DEF ResumeFromToolApproval, Become, Worked
  <2>2. CASE r # c
    BY <1>4, <2>2 DEF ResumeFromToolApproval, Become, Unmoved
  <2> QED BY <2>1, <2>2
<1>5. ASSUME NEW r \in Run, CompleteAction(r) \/ FailAction(r)
      PROVE  (Unmoved(c) \/ EndedByAction(c)) /\ UNCHANGED nextDispatch
  BY <1>5 DEF CompleteAction, FailAction, Become, Unmoved, EndedByAction
<1> QED BY <1>2, <1>3, <1>4, <1>5 DEF Decided, ActionStep

LEMMA RowOfSpawn ==
    ASSUME DelegationIInv, [Next]_runVars, NEW w \in Worker, NEW d \in Child, Spawn(w, d),
           NEW c \in Child
    PROVE  RowFollowsChild(c)'
<1>1. /\ RunsInv /\ TypeOK /\ DelegationTypeOK /\ RowFollowsChild(c) /\ c \in Run /\ d \in Run
      /\ attempts[c] \in Nat /\ ColumnsAgree
  BY ChildType DEF DelegationIInv, RunsInv, TypeOK
<1>2. CASE c = d
  <2>1. state[c] = "absent" /\ state'[c] = "queued" /\ delegation'[c] = "queued" /\ attempts'[c] = attempts[c]
    BY <1>1, <1>2 DEF Spawn, DelegationTypeOK, TypeOK
  <2>2. attempts[c] = 0
    BY <1>1, <2>1 DEF ColumnsAgree, RowAgrees
  <2> QED BY <2>1, <2>2 DEF RowFollowsChild
<1>3. CASE c # d
  <2>1. delegation'[c] = delegation[c] /\ Unmoved(c) /\ UNCHANGED nextDispatch
    BY <1>1, <1>3 DEF Spawn, Unmoved, DelegationTypeOK, TypeOK, progressVars
  <2> QED BY <2>1, RowKept
<1> QED BY <1>2, <1>3

LEMMA RowOfClaim ==
    ASSUME DelegationIInv, [Next]_runVars, NEW w \in Worker, NEW r \in Run,
           NEW expired \in SUBSET (Expirable \ missed), ClaimChild(w, r, expired), NEW c \in Child
    PROVE  RowFollowsChild(c)'
<1>1. /\ RunsInv /\ BegunOnce /\ TypeOK /\ DelegationTypeOK /\ RowFollowsChild(c) /\ c \in Run
      /\ attempts[c] \in Nat
  BY ChildType DEF DelegationIInv, RunsInv, TypeOK
<1>2. /\ UNCHANGED <<nextDispatch, intent, phase>>
      /\ state'[c] = IF c = r THEN "running" ELSE IF c \in expired THEN "queued" ELSE state[c]
      /\ attempts'[c] = IF c = r THEN attempts[c] + 1 ELSE attempts[c]
      /\ delegation'[c] = IF c = r /\ delegation[c] = "queued" THEN "running" ELSE delegation[c]
      /\ c \in expired => AwaitingTool(c)
  BY <1>1 DEF ClaimChild, Claim, Mark, laneVars, TypeOK, Expirable
<1>3. CASE c = r
  <2>1. IsHead(c) /\ (state[c] \in {"queued", "reply_pending", "running"} \/ AwaitingTool(c))
    BY <1>2, <1>3 DEF ClaimChild, Claim, Claimable
  <2>2. delegation'[c] = "running"
    BY <1>1, <1>2, <1>3, <2>1, WorkedIsRunning
  <2>3. IsHead(c)'
    BY <1>1, <1>2, <2>1, HeadStays
  <2> QED BY <1>1, <1>2, <1>3, <2>2, <2>3 DEF RowFollowsChild
<1>4. CASE c # r /\ c \in expired
  <2>1. delegation[c] = "running" /\ attempts[c] > 0
    BY <1>1, <1>2, <1>4, WorkedIsRunning DEF RowFollowsChild
  <2> QED BY <1>2, <1>4, <2>1, RowKept DEF Worked
<1>5. CASE c # r /\ c \notin expired
  BY <1>2, <1>5, RowKept DEF Unmoved
<1> QED BY <1>3, <1>4, <1>5

(* The row of a run that leaves the lane is settled with it; another child is  *)
(* not at the head.                                                            *)
LEMMA RowOfLeaving ==
    ASSUME DelegationIInv, [Next]_runVars, NEW r \in Run, NEW st, IsHead(r), AdvanceLane(r),
           state[r] \in {"running", "delivery_pending"},
           state' = [state EXCEPT ![r] = st], UNCHANGED <<attempts, phase, intent>>,
           Mark(r, Open, SettledAs(st)),
           \/ st \in {"failed", "delivery_unknown"}
           \/ st = "succeeded"
           \/ st = "waiting_approval" /\ phase[r] = "finalize",
           NEW c \in Child
    PROVE  RowFollowsChild(c)'
<1>1. /\ RunsInv /\ TypeOK /\ DelegationTypeOK /\ RowFollowsChild(c) /\ c \in Run
      /\ attempts[c] \in Nat
  BY ChildType DEF DelegationIInv, RunsInv, TypeOK
<1>2. CASE c = r
  <2>1. delegation[c] = "running"
    BY <1>1, <1>2, WorkedIsRunning
  <2>2. delegation'[c] = SettledAs(st) /\ state'[c] = st
    BY <1>1, <1>2, <2>1 DEF Mark, Open, TypeOK
  <2> QED BY <1>2, <2>2 DEF RowFollowsChild, SettledAs, AwaitingAction
<1>3. CASE c # r
  <2>1. delegation'[c] = delegation[c] /\ Unmoved(c)
    BY <1>1, <1>3 DEF Mark, Unmoved, TypeOK
  <2>2. nextDispatch'[LaneOf[c]] = nextDispatch[LaneOf[c]] \/ ~IsHead(c)
    <3>1. CASE LaneOf[c] = LaneOf[r]
      BY <1>1, <1>3, <3>1, HeadUnique
    <3>2. CASE LaneOf[c] # LaneOf[r]
      BY <1>1, <3>2, LaneOfType DEF AdvanceLane, TypeOK
    <3> QED BY <3>1, <3>2
  <2> QED BY <2>1, <2>2, RowKept
<1> QED BY <1>2, <1>3

-------------------------------------------------------------------------------
(* The theorem                                                                *)

LEMMA InitDelegationIInv == DelegationInit => DelegationIInv
<1> SUFFICES ASSUME DelegationInit PROVE DelegationIInv
  OBVIOUS
<1>1. RunsInv /\ TypeOK
  BY InitRuns DEF DelegationInit, RunsInv
<1>2. BegunOnce /\ DelegationTypeOK
  BY <1>1 DEF DelegationInit, Init, BegunOnce, DelegationTypeOK, DelegationStates
<1>3. \A c \in Child : RowFollowsChild(c) /\ Family(c)
  BY ChildType DEF DelegationInit, Init, RowFollowsChild, Family
<1> QED BY <1>1, <1>2, <1>3 DEF DelegationIInv

LEMMA DelegationTypeStep ==
    ASSUME DelegationIInv, TypeOK', [DelegationNext]_vars
    PROVE  DelegationTypeOK'
<1> USE DEF DelegationIInv, DelegationTypeOK
<1>1. ASSUME NEW r \in Run, NEW from, NEW to \in DelegationStates, Mark(r, from, to)
      PROVE  DelegationTypeOK'
  BY <1>1 DEF Mark, blockVars
<1>2. ASSUME NEW r \in Run, ClaimTurn(r) \/ SettleChild(r) PROVE DelegationTypeOK'
  BY <1>1, <1>2 DEF ClaimTurn, ClaimChild, SettleChild, SettledAs, DelegationStates, Open
<1>3. ASSUME NEW w \in Worker, FailChild(w) PROVE DelegationTypeOK'
  <2>1. worker[w].run \in Run
    BY <1>3, WorkerTypes DEF FailChild, FailRun, HoldsToken
  <2> QED BY <1>1, <1>3, <2>1 DEF FailChild, DelegationStates
<1>4. ASSUME NEW w \in Worker, NEW c \in Child, Spawn(w, c) PROVE DelegationTypeOK'
  BY <1>4 DEF Spawn, DelegationStates, Open, blockVars
<1>5. CASE UNCHANGED <<delegationVars, blockVars>>
  BY <1>5 DEF delegationVars, blockVars
<1>6. ASSUME NEW w \in Worker, WaitForDecision(w) PROVE DelegationTypeOK'
  <2>1. worker[w].run \in Run
    BY <1>6, WorkerTypes DEF WaitForDecision, WaitForToolApproval, HoldsToken
  <2> QED BY <1>6, <2>1 DEF WaitForDecision, delegationVars
<1>7. ASSUME NEW setting \in {"enabled", "paused"}, SetDeliveryControl(setting) PROVE DelegationTypeOK'
  BY <1>7 DEF SetDeliveryControl, delegationVars
<1> QED BY <1>2, <1>3, <1>4, <1>5, <1>6, <1>7 DEF DelegationNext, DelegatingStep, ClockStep, vars

LEMMA DelegationIInvStep == DelegationIInv /\ [DelegationNext]_vars => DelegationIInv'
<1> SUFFICES ASSUME DelegationIInv, [DelegationNext]_vars PROVE DelegationIInv'
  OBVIOUS
<1>1. [Next]_runVars /\ RunsInv /\ BegunOnce /\ TypeOK /\ ColumnsAgree
  BY DelegationStepOfRuns DEF DelegationIInv, RunsInv
<1>2. RunsInv' /\ BegunOnce' /\ TypeOK'
  BY <1>1, RunsStep, BegunStep DEF RunsInv
<1>3. DelegationTypeOK'
  BY <1>2, DelegationTypeStep
<1>4. ASSUME NEW c \in Child PROVE RowFollowsChild(c)'
  <2>1. ASSUME NEW r \in Run, ClaimTurn(r) PROVE RowFollowsChild(c)'
    BY <1>1, <2>1, RowOfClaim DEF ClaimTurn
  <2>2. ASSUME NEW r \in Run, SettleChild(r) PROVE RowFollowsChild(c)'
    <3>1. IsHead(r) /\ phase[r] = "finalize"
      BY <1>1, <2>2, BusyIsHead DEF SettleChild, SettleDelivery, RunsInv, ColumnsAgree, RowAgrees
    <3>2. PICK st \in {"waiting_approval", "succeeded", "failed", "delivery_unknown"} : Become(r, st)
      BY <2>2 DEF SettleChild, SettleDelivery
    <3>3. state'[r] = st
      BY <1>1, <3>2 DEF Become, TypeOK
    <3> QED BY <1>1, <2>2, <3>1, <3>2, <3>3, RowOfLeaving
            DEF SettleChild, SettleDelivery, Become, progressVars
  <2>3. ASSUME NEW w \in Worker, FailChild(w) PROVE RowFollowsChild(c)'
    <3> PICK r \in Run : r = worker[w].run
      BY <1>1, <2>3, WorkerTypes DEF FailChild, FailRun, HoldsToken
    <3>1. state[r] = "running" /\ IsHead(r)
      BY <1>1, <2>3, BusyIsHead DEF FailChild, FailRun, HoldsToken, RunsInv
    <3>2. Mark(r, Open, SettledAs("failed"))
      BY <2>3 DEF FailChild, SettledAs
    <3> QED BY <1>1, <2>3, <3>1, <3>2, RowOfLeaving DEF FailChild, FailRun, progressVars
  <2>4. ASSUME NEW w \in Worker, NEW d \in Child, Spawn(w, d) PROVE RowFollowsChild(c)'
    BY <1>1, <2>4, RowOfSpawn
  <2>5. ASSUME NEW w \in Worker, UnseenStep(w) \/ WaitForDecision(w), UNCHANGED delegationVars
        PROVE  RowFollowsChild(c)'
    BY <1>1, <2>5, RowOfUnseen, RowKept DEF delegationVars
  <2>6. ASSUME \/ \E r \in Run : ExpireLease(r) \/ BackoffElapses(r)
               \/ \E r \in Run \ Child : Enqueue(r)
               \/ \E setting \in {"enabled", "paused"} : SetExecutionControl(setting)
               \/ Decided \/ ActionStep,
               UNCHANGED delegationVars
        PROVE  RowFollowsChild(c)'
    BY <1>1, <2>6, RowOfOthers, RowKept DEF delegationVars
  <2>7. ASSUME UNCHANGED <<runVars, delegationVars>> PROVE RowFollowsChild(c)'
    BY <2>7 DEF delegationVars, runVars, DelegationIInv, RowFollowsChild, IsHead,
                AwaitingAction, FailedByAction
  <2> QED BY <2>1, <2>2, <2>3, <2>4, <2>5, <2>6, <2>7
          DEF DelegationNext, DelegatingStep, ClockStep, WaitForDecision, SetDeliveryControl, vars
<1>5. ASSUME NEW c \in Child PROVE Family(c)'
  <2>1. ASSUME NEW w \in Worker, NEW d \in Child, Spawn(w, d) PROVE Family(c)'
    BY <1>1, <2>1, FamilyOfSpawn
  <2>2. ASSUME ~\E w \in Worker, d \in Child : Spawn(w, d) PROVE Family(c)'
    <3>1. UNCHANGED parent
      BY <2>2 DEF DelegationNext, DelegatingStep, ClockStep, ClaimTurn, ClaimChild, SettleChild,
                  FailChild, WaitForDecision, SetDeliveryControl, Mark, delegationVars, vars
    <3>2. c \in Run /\ (state[c] # "absent" => state'[c] # "absent")
      BY <1>1, PresentStays, ChildType
    <3>3. delegation[c] # "none" => delegation'[c] # "none"
      BY <1>4, <3>2 DEF DelegationIInv, RowFollowsChild
    <3>4. delegation[c] = "none" => delegation'[c] = "none"
      BY <2>2 DEF DelegationNext, DelegatingStep, ClockStep, ClaimTurn, ClaimChild, SettleChild,
                  FailChild, WaitForDecision, SetDeliveryControl, Mark, Open, delegationVars,
                  vars
    <3> QED BY <1>1, <3>1, <3>3, <3>4, FamilyKept
  <2> QED BY <2>1, <2>2
<1> QED BY <1>2, <1>3, <1>4, <1>5 DEF DelegationIInv

(* For any number of runs: what is shown of a delegation is what became of its *)
(* child, a call spawns one child, and the child's turn comes only when its    *)
(* parent has left the conversation's lane, settled.                           *)
THEOREM DelegationCorrect == DelegationSpec => []DelegationInv
<1>1. DelegationIInv => DelegationInv
  <2> SUFFICES ASSUME DelegationIInv, NEW c \in Child, parent[c] # NoRun
               PROVE  OneChildAfterItsParent(c)
    BY DEF DelegationInv, DelegationIInv, OneChildAfterItsParent
  <2> PICK p \in Run : p = parent[c]
    BY DEF DelegationIInv, DelegationTypeOK
  <2>1. /\ Family(c) /\ c \in Run /\ RunsInv /\ LaneOf[c] = LaneOf[p]
        /\ sequence[p] < sequence[c] /\ state[p] # "absent" /\ state[c] # "absent"
        /\ sequence[p] \in Nat /\ sequence[c] \in Nat /\ nextDispatch[LaneOf[c]] \in Nat
        /\ attempts[c] \in Nat
    BY ChildType, LaneOfType DEF DelegationIInv, Family, RunsInv, TypeOK
  <2>2. ASSUME attempts[c] > 0
        PROVE  sequence[p] < nextDispatch[LaneOf[c]] /\ state[p] \in Settled
    <3>1. sequence[c] <= nextDispatch[LaneOf[c]]
      BY <2>1, <2>2 DEF RunsInv, OneTurnAtATime
    <3>2. sequence[p] < nextDispatch[LaneOf[p]]
      BY <2>1, <3>1
    <3> QED BY <2>1, <3>2 DEF RunsInv, OneTurnAtATime
  <2> QED BY <2>1, <2>2 DEF OneChildAfterItsParent, Family
<1> QED BY <1>1, InitDelegationIInv, DelegationIInvStep, PTL DEF DelegationSpec
===============================================================================
