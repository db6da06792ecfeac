------------------------------ MODULE AgentRuns ------------------------------
(***************************************************************************)
(* The durable Agent Run machine of platform-api: the rows of agent.runs   *)
(* and agent.conversation_lanes (internal/agent/store.go, route_store.go,  *)
(* tool_plan_store.go) and the workers that claim a run, advance it by one *)
(* phase and release it (internal/agent/worker.go).                        *)
(*                                                                         *)
(* Every action is one committed transaction, or one step of the outside   *)
(* world (time, a crash, the components that own the run while it waits).  *)
(* The row's phase is what the NULL-ness of its columns says:              *)
(*   route     route_status IS NULL                                        *)
(*   plan      a tool is selected, tool_arguments IS NULL                  *)
(*   execute   tool_arguments set, tool_result IS NULL                     *)
(*   model     everything the answer needs is there, candidate_text IS NULL*)
(*   finalize  candidate_text set                                          *)
(* and tries[r] is the attempt counter of that phase; the counters of the  *)
(* phases a run has left are never read again.                             *)
(***************************************************************************)
EXTENDS Naturals, FiniteSets

CONSTANTS
    Run,              \* one per accepted source event
    Lane,             \* (tenant, channel, conversation)
    LaneOf,           \* the lane of each run
    Worker,           \* agent worker processes
    MaxAttempts,      \* PLATFORM_AGENT_MAX_ATTEMPTS
    MaxModelAttempts, \* max_model_attempts of the pinned Agent version
    Route,            \* the outcomes the router may give
    NoRun             \* what an idle worker works on

Routes == {"clarify", "no_tool", "knowledge", "ticket", "tool"}

ASSUME LaneOfType == LaneOf \in [Run -> Lane]
ASSUME NoRunType == NoRun \notin Run
ASSUME RouteType == Route \subseteq Routes
ASSUME AttemptsType ==
    /\ MaxAttempts \in Nat \ {0}
    /\ MaxModelAttempts \in Nat \ {0}

VARIABLES
    nextEnqueue,     \* lane: next_enqueue_sequence
    nextDispatch,    \* lane: next_dispatch_sequence
    state,           \* run: state, "absent" before the row exists
    sequence,        \* run: conversation_sequence
    phase,           \* run: the phase its columns are in
    route,           \* run: route_status and the kind of the selected operation
    action,          \* run: action_type IS NOT NULL
    intent,          \* run: an action.intents row exists for it
    tries,           \* run: the attempt counter of its phase
    attempts,        \* run: attempts, all claims ever; also numbers the tokens
    leaseToken,      \* run: lease_token, 0 for NULL
    leaseValid,      \* run: lease_until >= now()
    backoff,         \* run: available_at > now()
    executionControl, \* the tenant's runtime control agent_execution, "unset" without a row
    worker           \* worker: the Run it was handed by Claim

laneVars == <<nextEnqueue, nextDispatch>>
leaseVars == <<leaseToken, leaseValid>>
progressVars == <<phase, route, action, tries>>
runVars == <<nextEnqueue, nextDispatch, state, sequence, phase, route, action, intent,
             tries, attempts, leaseToken, leaseValid, backoff, executionControl, worker>>

States == {"absent", "queued", "running", "reply_pending", "delivery_pending",
           "delivery_unknown", "waiting_approval", "succeeded", "failed"}
Phases == {"route", "plan", "execute", "model", "finalize"}
Settled == {"succeeded", "failed", "delivery_unknown", "waiting_approval"}

Claims == [run : Run \cup {NoRun}, token : Nat, phase : Phases, tries : Nat]
Idle == [run |-> NoRun, token |-> 0, phase |-> "route", tries |-> 0]

TypeOK ==
    /\ nextEnqueue \in [Lane -> Nat \ {0}]
    /\ nextDispatch \in [Lane -> Nat \ {0}]
    /\ state \in [Run -> States]
    /\ sequence \in [Run -> Nat]
    /\ phase \in [Run -> Phases]
    /\ route \in [Run -> Routes \cup {"none"}]
    /\ action \in [Run -> BOOLEAN]
    /\ intent \in [Run -> BOOLEAN]
    /\ tries \in [Run -> Nat]
    /\ attempts \in [Run -> Nat]
    /\ leaseToken \in [Run -> Nat]
    /\ leaseValid \in [Run -> BOOLEAN]
    /\ backoff \in [Run -> BOOLEAN]
    /\ executionControl \in {"unset", "enabled", "paused"}
    /\ worker \in [Worker -> Claims]

(* A lane counts from one (the DEFAULTs of migration 0010).                    *)
FirstSequence == 1

Init ==
    /\ nextEnqueue = [l \in Lane |-> FirstSequence]
    /\ nextDispatch = [l \in Lane |-> FirstSequence]
    /\ state = [r \in Run |-> "absent"]
    /\ sequence = [r \in Run |-> 0]
    /\ phase = [r \in Run |-> "route"]
    /\ route = [r \in Run |-> "none"]
    /\ action = [r \in Run |-> FALSE]
    /\ intent = [r \in Run |-> FALSE]
    /\ tries = [r \in Run |-> 0]
    /\ attempts = [r \in Run |-> 0]
    /\ leaseToken = [r \in Run |-> 0]
    /\ leaseValid = [r \in Run |-> FALSE]
    /\ backoff = [r \in Run |-> FALSE]
    /\ executionControl = "unset"
    /\ worker = [w \in Worker |-> Idle]

-------------------------------------------------------------------------------
(* Reading the tables.  An operator whose comment begins with "Fault:" is a     *)
(* plausible mistake in the code the operator below it models; no specification*)
(* uses it, it is there to show that the properties would notice.              *)

(* Fault: the lane's dispatch position is not part of the claim.               *)
AnyIsHead(r) == state[r] # "absent"
IsHead(r) == state[r] # "absent" /\ sequence[r] = nextDispatch[LaneOf[r]]

AwaitingTool(r) == state[r] = "waiting_approval" /\ phase[r] = "execute"
AwaitingAction(r) == state[r] = "waiting_approval" /\ phase[r] = "finalize"

(* WHERE state = 'running' AND lease_token = $2, and the lease_until test that *)
(* only the saving statements add to it.                                       *)
(* Fault: the statements test the state of the run alone.                      *)
RunIsRunning(w) == worker[w].run # NoRun /\ state[worker[w].run] = "running"
HoldsToken(w) ==
    /\ worker[w].run # NoRun
    /\ state[worker[w].run] = "running"
    /\ leaseToken[worker[w].run] = worker[w].token

(* Fault: any unexpired lease will do.                                         *)
SomeoneHoldsLease(w) == RunIsRunning(w) /\ leaseValid[worker[w].run]
HoldsLease(w) == HoldsToken(w) /\ leaseValid[worker[w].run]

(* The random lease_token of a claim is the number of the claim.  Fault: the   *)
(* token of the run's last lease is used again.                                *)
LastToken(r) == IF attempts[r] = 0 THEN 1 ELSE attempts[r]
FreshToken(r) == attempts[r] + 1

-------------------------------------------------------------------------------
(* Statements shared by the transactions                                      *)

Release(w) ==
    /\ leaseToken' = [leaseToken EXCEPT ![worker[w].run] = 0]
    /\ leaseValid' = [leaseValid EXCEPT ![worker[w].run] = FALSE]
    /\ worker' = [worker EXCEPT ![w] = Idle]

(* advanceConversationLane: the transaction rolls back unless the run owns the *)
(* dispatch position.  Fault: the lane is forgotten.                           *)
ForgetLane(r) == UNCHANGED laneVars
AdvanceLane(r) ==
    /\ sequence[r] = nextDispatch[LaneOf[r]]
    /\ nextDispatch' = [nextDispatch EXCEPT ![LaneOf[r]] = @ + 1]
    /\ UNCHANGED nextEnqueue

(* A save ends one phase, starts the next with a fresh counter and makes the   *)
(* run available at once.                                                      *)
Proceed(w, st, ph) ==
    LET r == worker[w].run IN
    /\ state' = [state EXCEPT ![r] = st]
    /\ phase' = [phase EXCEPT ![r] = ph]
    /\ tries' = [tries EXCEPT ![r] = 0]
    /\ backoff' = [backoff EXCEPT ![r] = FALSE]
    /\ Release(w)
    /\ UNCHANGED <<nextEnqueue, nextDispatch, sequence, intent, attempts, executionControl>>

-------------------------------------------------------------------------------
(* Transactions                                                               *)

(* The lane's UPDATE ... RETURNING.                                            *)
AllocateSequence(r) ==
    /\ sequence' = [sequence EXCEPT ![r] = nextEnqueue[LaneOf[r]]]
    /\ nextEnqueue' = [nextEnqueue EXCEPT ![LaneOf[r]] = @ + 1]

(* enqueueTx, for an event that has no run yet and whose trigger resolves: a   *)
(* repeated or a rejected event changes neither table.                         *)
Enqueue(r) ==
    /\ state[r] = "absent"
    /\ state' = [state EXCEPT ![r] = "queued"]
    /\ AllocateSequence(r)
    /\ UNCHANGED <<nextDispatch, progressVars, intent, attempts, leaseVars, backoff,
                   executionControl, worker>>

Claimable(r, expired) ==
    /\ IsHead(r)
    /\ ~backoff[r]
    /\ tries[r] < MaxAttempts
    /\ \/ state[r] \in {"queued", "reply_pending"} \/ r \in expired
       \/ state[r] = "running" /\ ~leaseValid[r]

(* Claim: one transaction first expires the tool approvals whose time is over, *)
(* which puts their runs back in the queue, and then claims one run.  When it  *)
(* finds none to claim it rolls back, the expiries with it.                    *)
Claim(w, r, expired) ==
    /\ worker[w].run = NoRun
    /\ executionControl # "paused"
    /\ \A x \in expired : AwaitingTool(x)
    /\ Claimable(r, expired)
    /\ state' = [x \in Run |-> IF x = r THEN "running"
                               ELSE IF x \in expired THEN "queued" ELSE state[x]]
    /\ backoff' = [x \in Run |-> IF x \in expired THEN FALSE ELSE backoff[x]]
    /\ attempts' = [attempts EXCEPT ![r] = @ + 1]
    /\ tries' = [tries EXCEPT ![r] = @ + 1]
    /\ leaseToken' = [leaseToken EXCEPT ![r] = FreshToken(r)]
    /\ leaseValid' = [leaseValid EXCEPT ![r] = TRUE]
    /\ worker' = [worker EXCEPT ![w] =
                    [run |-> r, token |-> FreshToken(r), phase |-> phase[r],
                     tries |-> tries[r] + 1]]
    /\ UNCHANGED <<laneVars, sequence, phase, route, action, intent, executionControl>>

SaveRoute(w, choice) ==
    /\ HoldsLease(w)
    /\ worker[w].phase = "route"
    /\ route' = [route EXCEPT ![worker[w].run] = choice]
    /\ Proceed(w, "queued", IF choice = "tool" THEN "plan" ELSE "model")
    /\ UNCHANGED action

SaveToolPlan(w) ==
    /\ HoldsLease(w)
    /\ worker[w].phase = "plan"
    /\ Proceed(w, "queued", "execute")
    /\ UNCHANGED <<route, action>>

SaveToolResult(w) ==
    /\ HoldsLease(w)
    /\ worker[w].phase = "execute"
    /\ Proceed(w, "queued", "model")
    /\ UNCHANGED <<route, action>>

(* The answer of the model phase, with or without a proposed action, or the    *)
(* refusal of a tool call that policy or a member denied.                      *)
SaveCandidate(w, proposes) ==
    LET r == worker[w].run IN
    /\ HoldsLease(w)
    /\ \/ worker[w].phase = "model" /\ (route[r] = "clarify" => ~proposes)
       \/ worker[w].phase = "execute" /\ ~proposes
    /\ action' = [action EXCEPT ![r] = proposes]
    /\ Proceed(w, "reply_pending", "finalize")
    /\ UNCHANGED route

(* The token is compared, the lease's time is not.                             *)
WaitForToolApproval(w) ==
    /\ HoldsToken(w)
    /\ worker[w].phase = "execute"
    /\ state' = [state EXCEPT ![worker[w].run] = "waiting_approval"]
    /\ Release(w)
    /\ UNCHANGED <<laneVars, sequence, progressVars, intent, attempts, backoff,
                   executionControl>>

(* Fail: the run fails and its lane moves on, in one transaction.              *)
FailRun(w) ==
    LET r == worker[w].run IN
    /\ HoldsToken(w)
    /\ state' = [state EXCEPT ![r] = "failed"]
    /\ AdvanceLane(r)
    /\ Release(w)
    /\ UNCHANGED <<sequence, progressVars, intent, attempts, backoff, executionControl>>

(* FailOrRetry: the attempt of the snapshot is compared with the limit of the  *)
(* phase, which is the Agent version's in the model phase and the worker's in  *)
(* the others.  A clarification has nothing that could fail.                   *)
RetryLimit(w) == IF worker[w].phase = "model" THEN MaxModelAttempts ELSE MaxAttempts
MayFail(w) == ~(worker[w].phase = "model" /\ route[worker[w].run] = "clarify")

RetryLater(w) ==
    LET r == worker[w].run IN
    /\ HoldsToken(w) /\ MayFail(w)
    /\ worker[w].tries < RetryLimit(w)
    /\ state' = [state EXCEPT ![r] = IF phase[r] = "finalize" THEN "reply_pending" ELSE "queued"]
    /\ backoff' = [backoff EXCEPT ![r] = TRUE]
    /\ Release(w)
    /\ UNCHANGED <<laneVars, sequence, progressVars, intent, attempts, executionControl>>

FailOrRetry(w) ==
    \/ RetryLater(w)
    \/ /\ MayFail(w)
       /\ worker[w].tries >= RetryLimit(w)
       /\ FailRun(w)

(* EnsureIntent: a transaction of its own, not fenced by the run's lease.      *)
EnsureIntent(w) ==
    LET r == worker[w].run IN
    /\ r # NoRun
    /\ worker[w].phase = "finalize"
    /\ action[r] /\ ~intent[r]
    /\ intent' = [intent EXCEPT ![r] = TRUE]
    /\ UNCHANGED <<laneVars, state, sequence, progressVars, attempts, leaseVars, backoff,
                   executionControl, worker>>

(* delivery.Prepare: the delivery row appears and the run leaves the worker.   *)
PrepareDelivery(w) ==
    LET r == worker[w].run IN
    /\ HoldsLease(w)
    /\ worker[w].phase = "finalize"
    /\ action[r] => intent[r]
    /\ state' = [state EXCEPT ![r] = "delivery_pending"]
    /\ backoff' = [backoff EXCEPT ![r] = FALSE]
    /\ Release(w)
    /\ UNCHANGED <<laneVars, sequence, progressVars, intent, attempts, executionControl>>

-------------------------------------------------------------------------------
(* The process and time                                                       *)

(* The process dies, or a statement above is refused because the lease is gone:*)
(* runOnce returns the error, Run returns it too and the process restarts.     *)
Abandon(w) ==
    /\ worker[w].run # NoRun
    /\ worker' = [worker EXCEPT ![w] = Idle]
    /\ UNCHANGED <<laneVars, state, sequence, progressVars, intent, attempts, leaseVars,
                   backoff, executionControl>>

ExpireLease(r) ==
    /\ leaseValid[r]
    /\ leaseValid' = [leaseValid EXCEPT ![r] = FALSE]
    /\ UNCHANGED <<laneVars, state, sequence, progressVars, intent, attempts, leaseToken,
                   backoff, executionControl, worker>>

BackoffElapses(r) ==
    /\ backoff[r]
    /\ backoff' = [backoff EXCEPT ![r] = FALSE]
    /\ UNCHANGED <<laneVars, state, sequence, progressVars, intent, attempts, leaseVars,
                   executionControl, worker>>

(* runtimecontrol.Set succeeds once: RuntimeControl shows why.                 *)
SetExecutionControl(setting) ==
    /\ executionControl = "unset"
    /\ executionControl' = setting
    /\ UNCHANGED <<laneVars, state, sequence, progressVars, intent, attempts, leaseVars,
                   backoff, worker>>

-------------------------------------------------------------------------------
(* What the other components do to a run while it is theirs.  ReplyDelivery,   *)
(* ToolApprovals and TicketActions model these components and implement these  *)
(* actions.                                                                    *)

Become(r, st) ==
    /\ state' = [state EXCEPT ![r] = st]
    /\ UNCHANGED <<sequence, progressVars, intent, attempts, leaseVars, executionControl,
                   worker>>

(* The delivery ends: sent, given up, or of unknown outcome.                   *)
SettleDelivery(r) ==
    /\ state[r] = "delivery_pending"
    /\ \/ Become(r, IF action[r] THEN "waiting_approval" ELSE "succeeded")
       \/ Become(r, "failed")
       \/ Become(r, "delivery_unknown")
    /\ AdvanceLane(r)
    /\ UNCHANGED backoff

(* A member approves or rejects the pending tool call.                         *)
ResumeFromToolApproval(r) ==
    /\ AwaitingTool(r)
    /\ Become(r, "queued")
    /\ backoff' = [backoff EXCEPT ![r] = FALSE]
    /\ UNCHANGED laneVars

(* The action executor verified the ticket.                                    *)
CompleteAction(r) ==
    /\ intent[r] /\ AwaitingAction(r)
    /\ Become(r, "succeeded")
    /\ UNCHANGED <<laneVars, backoff>>

(* The action executor gave up.  Its statement does not look at the run's      *)
(* state; a table constraint refuses it while the run has a lease.             *)
FailAction(r) ==
    /\ intent[r]
    /\ state[r] \notin {"running", "succeeded"}
    /\ Become(r, "failed")
    /\ UNCHANGED <<laneVars, backoff>>

-------------------------------------------------------------------------------

Expirable == {x \in Run : AwaitingTool(x)}
ClaimRun(r) == \E w \in Worker, expired \in SUBSET Expirable : Claim(w, r, expired)

(* The lanes, the clock and the runtime control.                               *)
LaneStep ==
    \/ \E r \in Run : Enqueue(r) \/ ClaimRun(r) \/ ExpireLease(r) \/ BackoffElapses(r)
    \/ \E setting \in {"enabled", "paused"} : SetExecutionControl(setting)

(* The steps of a worker up to the answer; the steps by which it hands a run   *)
(* to another component are apart, for that component's module to join.        *)
AnswerStep(w) ==
    \/ \E choice \in Route : SaveRoute(w, choice)
    \/ SaveToolPlan(w)
    \/ SaveToolResult(w)
    \/ \E proposes \in BOOLEAN : SaveCandidate(w, proposes)
    \/ FailOrRetry(w)
    \/ FailRun(w)
    \/ Abandon(w)

WorkerStep(w) ==
    AnswerStep(w) \/ WaitForToolApproval(w) \/ EnsureIntent(w) \/ PrepareDelivery(w)

ToolStep == \E r \in Run : ResumeFromToolApproval(r)
DeliveryStep == \E r \in Run : SettleDelivery(r)
ActionStep == \E r \in Run : CompleteAction(r) \/ FailAction(r)

Next ==
    \/ LaneStep
    \/ \E w \in Worker : WorkerStep(w)
    \/ ToolStep \/ DeliveryStep \/ ActionStep

Spec == Init /\ [][Next]_runVars

-------------------------------------------------------------------------------
(* Safety                                                                     *)

InLane(l) == {r \in Run : LaneOf[r] = l /\ state[r] # "absent"}

(* The sequence numbers of a conversation are handed out without a gap and     *)
(* without a repetition (allocateSequence in enqueueTx): a gap would stop the  *)
(* lane for ever, because dispatching waits for each number in turn.           *)
GaplessSequence ==
    \A l \in Lane :
        /\ nextDispatch[l] <= nextEnqueue[l]
        /\ \A r \in InLane(l) : sequence[r] \in 1 .. nextEnqueue[l] - 1
        /\ \A n \in 1 .. nextEnqueue[l] - 1 : \E r \in InLane(l) : sequence[r] = n
        /\ \A r1, r2 \in InLane(l) : sequence[r1] = sequence[r2] => r1 = r2

(* A conversation works on one run at a time, the oldest: a run behind the     *)
(* dispatch position has not been touched and one before it has been settled,  *)
(* whatever claims, expiries, retries and deliveries came in between.          *)
OneTurnAtATime ==
    \A r \in Run : state[r] # "absent" =>
        /\ sequence[r] > nextDispatch[LaneOf[r]] =>
              state[r] = "queued" /\ attempts[r] = 0 /\ phase[r] = "route"
        /\ sequence[r] < nextDispatch[LaneOf[r]] =>
              state[r] \in Settled /\ ~AwaitingTool(r)

(* A lease exists exactly while the run is running (the table constraint of    *)
(* migration 0003), and it is the one of the latest claim.                     *)
LeaseOfLatestClaim ==
    \A r \in Run :
        /\ leaseToken[r] = IF state[r] = "running" THEN attempts[r] ELSE 0
        /\ leaseValid[r] => state[r] = "running"
        /\ state[r] = "running" => attempts[r] > 0

(* What a worker read when it claimed the run is still what the row says, as   *)
(* long as its token is: FailOrRetry compares the attempt of its snapshot, the *)
(* worker chooses its step by the phase of its snapshot.                       *)
SnapshotCurrent ==
    \A w \in Worker : worker[w].run # NoRun =>
        /\ worker[w].token \in 1 .. attempts[worker[w].run]
        /\ HoldsToken(w) => /\ worker[w].phase = phase[worker[w].run]
                            /\ worker[w].tries = tries[worker[w].run]
        /\ \A v \in Worker : v # w /\ worker[v].run = worker[w].run =>
              worker[v].token # worker[w].token

(* The columns of a row agree with its state (the CHECK constraints of the     *)
(* agent.runs migrations express part of it): a row that nobody has claimed has*)
(* nothing written, an action is only proposed by a finished answer and an     *)
(* intent only made for a proposed action, and a run whose reply is on its way *)
(* or settled has its answer.                                                  *)
RowAgrees(r) ==
    /\ state[r] = "absent" => phase[r] = "route" /\ attempts[r] = 0
    /\ phase[r] # "route" => route[r] # "none"
    /\ action[r] => phase[r] = "finalize"
    /\ intent[r] => action[r]
    /\ state[r] \in {"reply_pending", "delivery_pending", "delivery_unknown", "succeeded"} =>
          phase[r] = "finalize"
    /\ state[r] = "waiting_approval" => AwaitingTool(r) \/ (AwaitingAction(r) /\ action[r])

ColumnsAgree == \A r \in Run : RowAgrees(r)

(* What the tables promise together: whatever workers are behind, there is one *)
(* turn at a time in each conversation, numbered without a gap, with the lease *)
(* of its latest claim and with columns that belong together.                  *)
RunsInv ==
    /\ TypeOK
    /\ GaplessSequence
    /\ OneTurnAtATime
    /\ LeaseOfLatestClaim
    /\ SnapshotCurrent
    /\ ColumnsAgree

(* docs/sdd/agent-runtime.md, Invariants: a stale worker cannot complete a run.*)
(* Whoever takes a run out of "running" is the last to have claimed it, and    *)
(* acts on the phase the row is in.                                            *)
StaleWorkerInert ==
    [][\A r \in Run : state[r] = "running" /\ (state'[r] # "running" \/ phase'[r] # phase[r]) =>
          \E w \in Worker : /\ worker[w].run = r
                            /\ worker[w].token = attempts[r]
                            /\ worker[w].phase = phase[r]
                            /\ worker'[w] = Idle]_runVars

(* A phase's result is written once: the row goes through its phases in order, *)
(* whoever retries or reclaims it, although SaveRoute and SaveCandidate do not *)
(* test that their columns are still empty.                                    *)
Rank == [p \in Phases |-> CASE p = "route" -> 1 [] p = "plan" -> 2 [] p = "execute" -> 3
                            [] p = "model" -> 4 [] p = "finalize" -> 5]
ResultsWrittenOnce ==
    [][\A r \in Run : /\ Rank[phase'[r]] >= Rank[phase[r]]
                      /\ phase'[r] = phase[r] => route'[r] = route[r] /\ action'[r] = action[r]
                      /\ phase'[r] # phase[r] => route[r] # "none" \/ phase[r] = "route"]_runVars

(* Once the lane has passed a run, nothing works on it again, and a failure or *)
(* a success is final.                                                         *)
SettledStaysSettled ==
    [][\A r \in Run : state[r] # "absent" /\ sequence[r] < nextDispatch[LaneOf[r]] =>
          /\ state[r] \in {"succeeded", "failed"} => state'[r] = state[r]
          /\ state'[r] # state[r] => state'[r] \in {"succeeded", "failed"}
          /\ attempts'[r] = attempts[r]]_runVars

(* What has been written is not taken back: neither a result of a phase nor the*)
(* end of a run.                                                               *)
NothingTakenBack == ResultsWrittenOnce /\ SettledStaysSettled

-------------------------------------------------------------------------------
(* Refinement: the lane serves its turns one at a time, in order               *)

TurnAt(l, n) == CHOOSE r \in Run : r \in InLane(l) /\ sequence[r] = n

BacklogOf(l) == [i \in 1 .. nextEnqueue[l] - nextDispatch[l] |-> TurnAt(l, nextDispatch[l] + i - 1)]
ServingIn(l) == \E r \in InLane(l) : IsHead(r) /\ attempts[r] > 0
Passed(r) == state[r] # "absent" /\ sequence[r] < nextDispatch[LaneOf[r]]

Backlog == [l \in Lane |-> BacklogOf(l)]
Serving == [l \in Lane |-> ServingIn(l)]
Served == {r \in Run : Passed(r)}

Queue == INSTANCE ConversationQueue WITH
    Turn <- Run, backlog <- Backlog, serving <- Serving, served <- Served

(* Work on a conversation begins and ends in the order its messages came in,   *)
(* and no run is served twice.                                                 *)
ServesInOrder == Queue!Spec

===============================================================================
