---------------------------- MODULE TicketActions ----------------------------
(***************************************************************************)
(* Approved actions: action.intents, action.approvals, action.executions   *)
(* and collaboration.tickets (internal/action/store.go, executor.go) under *)
(* the Agent Runs that proposed them.  The agent worker materializes the   *)
(* intent before the reply that asks for approval is delivered; the member *)
(* may approve from then on (the workspace shows the intent at once), so   *)
(* the executor and the delivery of the reply run side by side.            *)
(***************************************************************************)
EXTENDS AgentRuns

CONSTANTS
    Executor,             \* action-executor processes
    MaxExecutionAttempts  \* PLATFORM_ACTION_MAX_ATTEMPTS

ASSUME ExecutionAttemptsType == MaxExecutionAttempts \in Nat \ {0}

VARIABLES
    intentState,   \* run: state of its intent, "none" before EnsureIntent
    execution,     \* run: state of the intent's execution, "none" before the approval
    eTries,        \* run: attempts of the execution
    eToken,        \* run: lease_token, 0 for NULL
    eLeaseValid,   \* run: lease_until >= now()
    eBackoff,      \* run: available_at > now()
    executor,      \* executor: the Execution it was handed, and where it is with it
    tickets        \* run: tickets that carry the intent's idempotency key

leaseRowVars == <<eToken, eLeaseValid>>
rowVars == <<intentState, execution, eTries, eToken, eLeaseValid, eBackoff>>
actionVars == <<rowVars, executor, tickets>>
allActionVars == <<runVars, actionVars>>

Steps == {"execute", "reconcile", "found", "absent", "ambiguous", "failing"}
Executions == [run : Run \cup {NoRun}, token : Nat, step : Steps]
IdleExecutor == [run |-> NoRun, token |-> 0, step |-> "execute"]

ActionTypeOK ==
    /\ TypeOK
    /\ intentState \in [Run -> {"none", "pending_approval", "approved", "succeeded",
                                "failed", "expired"}]
    /\ execution \in [Run -> {"none", "queued", "running", "unknown", "succeeded", "failed"}]
    /\ eTries \in [Run -> 0 .. MaxExecutionAttempts]
    /\ eToken \in [Run -> 0 .. MaxExecutionAttempts]
    /\ eLeaseValid \in [Run -> BOOLEAN]
    /\ eBackoff \in [Run -> BOOLEAN]
    /\ executor \in [Executor -> Executions]
    /\ tickets \in [Run -> Nat]

ActionInit ==
    /\ Init
    /\ intentState = [r \in Run |-> "none"]
    /\ execution = [r \in Run |-> "none"]
    /\ eTries = [r \in Run |-> 0]
    /\ eToken = [r \in Run |-> 0]
    /\ eLeaseValid = [r \in Run |-> FALSE]
    /\ eBackoff = [r \in Run |-> FALSE]
    /\ executor = [x \in Executor |-> IdleExecutor]
    /\ tickets = [r \in Run |-> 0]

-------------------------------------------------------------------------------
(* The intent and its approval                                                *)

CreateIntent(w) ==
    /\ EnsureIntent(w)
    /\ intentState' = [intentState EXCEPT ![worker[w].run] = "pending_approval"]
    /\ UNCHANGED <<execution, eTries, eToken, eLeaseValid, eBackoff, executor, tickets>>

(* Approve, by the requesting member with the right digest.  An approval of a  *)
(* decided intent returns the execution there is and changes nothing.          *)
ApproveIntent(r) ==
    /\ intentState[r] = "pending_approval"
    /\ intentState' = [intentState EXCEPT ![r] = "approved"]
    /\ execution' = [execution EXCEPT ![r] = "queued"]
    /\ UNCHANGED <<runVars, eTries, leaseRowVars, eBackoff, executor, tickets>>

(* The same call after expires_at.                                             *)
ApproveTooLate(r) ==
    /\ intentState[r] = "pending_approval"
    /\ intentState' = [intentState EXCEPT ![r] = "expired"]
    /\ UNCHANGED <<runVars, execution, eTries, leaseRowVars, eBackoff, executor, tickets>>

-------------------------------------------------------------------------------
(* The executor                                                               *)

At(x, step) == executor[x].run # NoRun /\ executor[x].step = step
GoTo(x, step) == executor' = [executor EXCEPT ![x].step = step]
BecomeIdle(x) == executor' = [executor EXCEPT ![x] = IdleExecutor]

HoldsExecution(x) == eToken[executor[x].run] = executor[x].token

ReleaseRow(r, st) ==
    /\ execution' = [execution EXCEPT ![r] = st]
    /\ eToken' = [eToken EXCEPT ![r] = 0]
    /\ eLeaseValid' = [eLeaseValid EXCEPT ![r] = FALSE]

(* The statement runOnce begins with.                                          *)
SweepLapsed(r) ==
    /\ \E x \in Executor : executor[x].run = NoRun
    /\ execution[r] = "running" /\ ~eLeaseValid[r]
    /\ ReleaseRow(r, "unknown")
    /\ UNCHANGED <<runVars, intentState, eTries, eBackoff, executor, tickets>>

TriesLeft(r) == eTries[r] < MaxExecutionAttempts

(* Fault: what is unknown stays unknown.                                       *)
OnlyQueued(r) == execution[r] = "queued"
OpenExecution(r) == execution[r] \in {"queued", "unknown"}

(* Fault: an unknown outcome is tried again like a queued one.                 *)
AlwaysExecute(r) == "execute"
FirstStep(r) == IF execution[r] = "unknown" THEN "reconcile" ELSE "execute"

ClaimExecution(x, r) ==
    /\ executor[x].run = NoRun
    /\ OpenExecution(r)
    /\ ~eBackoff[r]
    /\ TriesLeft(r)
    /\ execution' = [execution EXCEPT ![r] = "running"]
    /\ eTries' = [eTries EXCEPT ![r] = @ + 1]
    /\ eToken' = [eToken EXCEPT ![r] = eTries[r] + 1]
    /\ eLeaseValid' = [eLeaseValid EXCEPT ![r] = TRUE]
    /\ executor' = [executor EXCEPT ![x] =
                      [run |-> r, token |-> eTries[r] + 1, step |-> FirstStep(r)]]
    /\ UNCHANGED <<runVars, intentState, eBackoff, tickets>>

(* The ticket's own transaction: INSERT ... ON CONFLICT (idempotency_key) DO   *)
(* NOTHING, then commit.  It is not fenced by the execution's lease.  It fails *)
(* cleanly, commits, or its commit is answered by an error.                    *)
WithTicket(r) == [tickets EXCEPT ![r] = IF @ = 0 THEN 1 ELSE @]

InsertTicket(x) ==
    LET r == executor[x].run IN
    /\ At(x, "execute")
    /\ \/ GoTo(x, "failing") /\ UNCHANGED tickets
       \/ GoTo(x, "found") /\ tickets' = WithTicket(r)
       \/ GoTo(x, "ambiguous") /\ tickets' \in {tickets, WithTicket(r)}
    /\ UNCHANGED <<runVars, rowVars>>

(* The read of the ticket table, and the read-back of a ticket found.          *)
(* Fault: the execution is taken for done because it has run.                  *)
Believed(r) == "found"
LookedUp(r) == IF tickets[r] > 0 THEN "found" ELSE "absent"

Reconcile(x) ==
    /\ At(x, "reconcile")
    /\ \/ GoTo(x, LookedUp(executor[x].run))
       \/ GoTo(x, "ambiguous")
    /\ UNCHANGED <<runVars, rowVars, tickets>>

(* The read-back fails.  What it compares is what the insert wrote, and nothing*)
(* else writes tickets: the branch for a mismatch is never taken.              *)
ReadBackFails(x) ==
    /\ At(x, "found")
    /\ GoTo(x, "ambiguous")
    /\ UNCHANGED <<runVars, rowVars, tickets>>

(* Reconciled absent: safe retry.  Without the token it changes no row.        *)
Requeue(x) ==
    LET r == executor[x].run IN
    /\ At(x, "absent")
    /\ IF HoldsExecution(x)
       THEN ReleaseRow(r, "queued") /\ eBackoff' = [eBackoff EXCEPT ![r] = FALSE]
       ELSE UNCHANGED <<execution, leaseRowVars, eBackoff>>
    /\ BecomeIdle(x)
    /\ UNCHANGED <<runVars, intentState, eTries, tickets>>

MarkUnknown(x) ==
    LET r == executor[x].run IN
    /\ At(x, "ambiguous")
    /\ IF HoldsExecution(x)
       THEN ReleaseRow(r, "unknown") /\ eBackoff' = [eBackoff EXCEPT ![r] = FALSE]
       ELSE UNCHANGED <<execution, leaseRowVars, eBackoff>>
    /\ BecomeIdle(x)
    /\ UNCHANGED <<runVars, intentState, eTries, tickets>>

(* verifyAndComplete: execution, intent and run in one transaction.  The run   *)
(* becomes succeeded only if it already waits for the action; otherwise its    *)
(* row is not touched, and that is no error.  Fault: any run becomes succeeded.*)
AnySucceeds(r) == "succeeded"
Succeeds(r) == IF state[r] = "waiting_approval" THEN "succeeded" ELSE state[r]

Complete(x) ==
    LET r == executor[x].run IN
    /\ At(x, "found") /\ HoldsExecution(x)
    /\ ReleaseRow(r, "succeeded")
    /\ intentState' = [intentState EXCEPT ![r] = "succeeded"]
    /\ state' = [state EXCEPT ![r] = Succeeds(r)]
    /\ BecomeIdle(x)
    /\ UNCHANGED <<laneVars, sequence, progressVars, intent, attempts, leaseVars, backoff,
                   executionControl, worker, eTries, eBackoff, tickets>>

(* fail: requeue after a second, or on the last attempt fail the execution, the*)
(* intent and the run, in one transaction; the constraint that ties "running"  *)
(* to a lease rolls it back while a worker has the run.                        *)
FailExecution(x) ==
    LET r == executor[x].run
        terminal == executor[x].token >= MaxExecutionAttempts
    IN
    /\ At(x, "failing") /\ HoldsExecution(x)
    /\ ReleaseRow(r, IF terminal THEN "failed" ELSE "queued")
    /\ eBackoff' = [eBackoff EXCEPT ![r] = TRUE]
    /\ IF terminal
       THEN /\ state[r] # "running"
            /\ intentState' = [intentState EXCEPT ![r] = "failed"]
            /\ state' = [state EXCEPT ![r] = "failed"]
       ELSE UNCHANGED <<intentState, state>>
    /\ BecomeIdle(x)
    /\ UNCHANGED <<laneVars, sequence, progressVars, intent, attempts, leaseVars, backoff,
                   executionControl, worker, eTries, tickets>>

(* The process dies, or a transaction above is refused and runOnce returns its *)
(* error.                                                                      *)
AbandonExecution(x) ==
    /\ executor[x].run # NoRun
    /\ BecomeIdle(x)
    /\ UNCHANGED <<runVars, rowVars, tickets>>

ExpireExecution(r) ==
    /\ eLeaseValid[r]
    /\ eLeaseValid' = [eLeaseValid EXCEPT ![r] = FALSE]
    /\ UNCHANGED <<runVars, intentState, execution, eTries, eToken, eBackoff, executor, tickets>>

ExecutionBackoffElapses(r) ==
    /\ eBackoff[r]
    /\ eBackoff' = [eBackoff EXCEPT ![r] = FALSE]
    /\ UNCHANGED <<runVars, intentState, execution, eTries, leaseRowVars, executor, tickets>>

ExecutorStep(x) ==
    \/ InsertTicket(x) \/ Reconcile(x) \/ ReadBackFails(x) \/ Requeue(x) \/ MarkUnknown(x)
    \/ Complete(x) \/ FailExecution(x) \/ AbandonExecution(x)

TakeExecution(r) == SweepLapsed(r) \/ \E x \in Executor : ClaimExecution(x, r)

-------------------------------------------------------------------------------

(* The Agent Runs with everything but intents and actions.                     *)
ActionRunStep ==
    \/ LaneStep \/ ToolStep \/ DeliveryStep
    \/ \E w \in Worker : AnswerStep(w) \/ WaitForToolApproval(w) \/ PrepareDelivery(w)

ActionNext ==
    \/ ActionRunStep /\ UNCHANGED actionVars
    \/ \E w \in Worker : CreateIntent(w)
    \/ \E r \in Run : \/ ApproveIntent(r) \/ ApproveTooLate(r) \/ TakeExecution(r)
                      \/ ExpireExecution(r) \/ ExecutionBackoffElapses(r)
    \/ \E x \in Executor : ExecutorStep(x)

ActionSpec == ActionInit /\ [][ActionNext]_allActionVars

ActionFairness ==
    /\ \A x \in Executor : WF_allActionVars(ExecutorStep(x))
    /\ \A r \in Run : /\ SF_allActionVars(TakeExecution(r))
                      /\ WF_allActionVars(ExpireExecution(r))
                      /\ WF_allActionVars(ExecutionBackoffElapses(r))

FairActionSpec == ActionSpec /\ ActionFairness

-------------------------------------------------------------------------------
(* Properties                                                                 *)

(* The executor uses the runs only as AgentRuns lets it.                       *)
ActionsRefineRuns == Spec

(* docs/sdd/action-executor.md, Invariants and Acceptance: no ticket before the*)
(* approval, and one ticket however often the execution is retried, reconciled *)
(* or finished by a stale executor.                                            *)
OneApprovedTicket ==
    \A r \in Run : /\ tickets[r] <= 1
                   /\ tickets[r] > 0 => intentState[r] \in {"approved", "succeeded", "failed"}

(* Success is never reported without the ticket: neither by the execution, nor *)
(* by the intent, nor by the run that proposed it.                             *)
SuccessHasTicket ==
    \A r \in Run :
        /\ execution[r] = "succeeded" <=> intentState[r] = "succeeded"
        /\ intentState[r] = "succeeded" => tickets[r] = 1
        /\ state[r] = "succeeded" /\ action[r] => intentState[r] = "succeeded"

(* Ticket, execution, intent and run agree (action/executor.go                 *)
(* verifyAndComplete and fail).                                                *)
ActionInv == ActionTypeOK /\ OneApprovedTicket /\ SuccessHasTicket

(* Only the latest claim ends an execution, and an end is final.               *)
StaleExecutorInert ==
    [][\A r \in Run :
          /\ execution[r] \in {"succeeded", "failed"} => execution'[r] = execution[r]
          /\ execution[r] = "running" /\ execution'[r] \in {"succeeded", "failed", "queued"} =>
                \E x \in Executor : /\ executor[x].run = r
                                    /\ executor[x].token = eTries[r]
                                    /\ executor'[x] = IdleExecutor]_allActionVars

(* An ambiguous outcome is looked up before the ticket is inserted again: an   *)
(* execution leaves "unknown" only into a claim that reconciles.               *)
ReconcileBeforeRetry ==
    [][\A r \in Run : execution[r] = "unknown" /\ execution'[r] # "unknown" =>
          \E x \in Executor : executor'[x] = [run |-> r, token |-> eTries'[r],
                                              step |-> "reconcile"]]_allActionVars

(* Two executors on one ticket do no harm: neither the one that has lost its   *)
(* claim nor the one that follows on an ambiguous outcome.                     *)
ExecutorsFenced == StaleExecutorInert /\ ReconcileBeforeRetry

(* An approved action ends, succeeded or failed, unless its attempts are used  *)
(* up while it is queued or unknown: then nothing claims it any more.          *)
UsedUp(r) == execution[r] \in {"queued", "unknown"} /\ eTries[r] >= MaxExecutionAttempts

ActionEndsUnlessUsedUp ==
    \A r \in Run : intentState[r] = "approved" ~> (execution[r] \in {"succeeded", "failed"} \/ UsedUp(r))
===============================================================================
