# openIM intelligent collaboration: specifications, model checking and proofs

The program is a messaging product with agents in it. Its core is one Go service,
`src/platform/services/platform-api` (below, `B/` stands for its `internal/` directory), which
takes messages from OpenIM and Telegram, turns those addressed to an agent into *runs*, advances
the runs by worker processes, calls tools and executes approved actions on their behalf, and
delivers the replies. Around this core it follows paper feeds for its members, keeps a memory of
facts, talks to remote agents and supervises tool servers. Nearly all coordination goes through
PostgreSQL: rows with a state, a lease and an attempt counter, claimed with
`FOR UPDATE SKIP LOCKED`. That is what these modules are about.

## 1. Inventory

| Component | State | Operations | What is hard |
|---|---|---|---|
| **Message ingestion** (`B/ingress`, `B/agent/consumer.go`) | inbox rows, outbox rows with lease and attempts, Kafka offsets | Ingest, ClaimOutbox, MarkPublished, ReleaseOutbox, consumers | a publisher that dies or loses its lease between publish and mark; a failed publish that later ones overtake; a consumer displaced by a rebalance |
| **Agent Runs** (`B/agent`) | `agent.runs`, `agent.conversation_lanes` | Enqueue, Claim, SaveRoute, SaveToolPlan, SaveToolResult, SaveCandidate, WaitForToolApproval, Fail, FailOrRetry, expireToolApprovals | stale workers, the order of a conversation, attempts at their limit, the head of a lane |
| **Reply delivery** (`B/delivery`) | `agent.deliveries` | Prepare, Claim, failExhausted, MarkSent, MarkRetry, MarkPermanent, MarkUncertain | a channel call outside any transaction; lost answers; row, run and lane change together |
| **Tool calls and approvals** (`B/toolruntime`) | `agent.tool_calls`, `agent.tool_approvals` | Prepare, Start, Succeed, Fail, Approve, Reject, expiry | a series of transactions that no lease fences; decisions that race suspension and expiry |
| **Actions** (`B/action`) | intents, approvals, executions, tickets | EnsureIntent, Approve, claim, execute, reconcile, complete, fail | ambiguous commits, retries, the executor and the delivery side by side |
| **Delegation** (`B/delegation`) | `agent.delegations`, child runs in the parent's lane | Spawn, and every statement that carries the row along with the child | the child waits behind its parent; a spawn that is repeated or comes from a stale worker |
| **Proactive runtime** (`B/proactive`, `B/agent/proactive.go`) | subscriptions, source events, preferences | poll, claim, rank, suppress, defer, enqueue, reconcile, acknowledge | budgets and quiet hours decided on old counts, runs created in a transaction before the one that reports them |
| **Memory** (`B/memory`) | event streams with two cursors, facts, extraction jobs, group proposals, exposures | append, project, rebuild, extract, review, delete, erase, retrieve, feedback, group-memory-admin | projection against deletion, erasure and rebuild; a leased extraction that appends twice; a review cut in two |
| **Telegram** (`B/telegram`) | bot offset, link challenges, bindings | poll, link, bind, IngestBound, SaveOffset | a crash between any two transactions of an update; two pollers while one is replaced |
| **Remote agents** (`B/remotea2a`) | registered agents with a revision, remote jobs | Register, Verify, SetEnabled, Delegate | a request that the transport sends again, a job whose remote outcome is unknown, a verification that fetches between two statements |
| **MCP servers** (`B/mcp`) | registration and health rows, instances, the client's one pipe | Register, SetEnabled, reconcile, start, refresh, remove, call | late answers, a write that blocks with the client's mutex held, drift of what is served from what was checked, restarts without end |
| **Runtime controls** (`B/runtimecontrol`) | one row per tenant and component, with a revision | Set, read | lost updates; a statement that inserts or updates |
| Identity and devices (`B/identity`) | identity links, roles, enrolled devices | link, enrol, check | - (section 7) |
| Capabilities, skills, catalog (`B/capability`, `B/admincontrol`, `B/agentcontrol`) | versioned configuration | publish, bind | runs pin a version |
| HTTP, retrieval, observation, migrations | none of their own | request handling, search, replay | - |
| Intelligence worker (`src/platform/services/intelligence-worker`) | none | model, routing and planning calls | its answers are an outcome, an error or nothing in time |
| Web client (`src/platform/apps/web`) | controllers of the views | load, mutate | - |

How they interact: Kafka consumer → `Enqueue` → a lane's next number → `Claim` by an agent worker →
route, plan, execute, model → `SaveCandidate` → `EnsureIntent` and `delivery.Prepare` → a delivery
worker → channel → `MarkSent` settles run and lane. A tool with a side effect suspends the run
(`waiting_approval`) until a member decides or some worker's claim expires the approval. A tool may
also be an MCP server, a remote agent, or `agent.delegate`, which puts a child run into the same
lane. A proposed action is approved after the answer; the action executor ends the run. Telegram
updates enter the same inbox and outbox as OpenIM messages, and the proactive runtime enqueues runs
of its own. Delivered runs are extracted into memory, and later runs are answered from it. The
control rows keep claims of one kind from being made.

## 2. Modules

`ConversationQueue` is the abstract promise: a conversation's turns are begun and finished one at a
time, in the order accepted. `AgentRuns` implements it (`ServesInOrder`). `AgentRuns` contains the
steps of the other components as the coarsest actions that they may take on a run: `SettleDelivery`,
`ResumeFromToolApproval`, `CompleteAction`, `FailAction`, `EnsureIntent`, and `Enqueue`. Each of
`MessageIngestion`, `ReplyDelivery`, `ToolApprovals`, `TicketActions` and `Delegation` EXTENDS
`AgentRuns`, replaces the actions that are its own by the real protocol (its rows, leases, crashes
and external calls), keeps the others, and is shown to implement `AgentRuns!Spec`, the specification
it extends (the properties `IngestRefinesRuns`, `DeliveryRefinesRuns`, `ToolsRefineRuns`,
`ActionsRefineRuns` and `DelegationRefinesRuns`). So what is proved of AgentRuns carries over, and
no two protocols need be multiplied with each other in one state space. In the same way
`MemoryExtraction` EXTENDS `MemoryLog`: all that is written to memory is a step of its log.

| Module | Models | State and actions |
|---|---|---|
| `AgentRuns` | `B/agent/store.go`, `route_store.go`, `tool_plan_store.go`, `worker.go`, `delivery.Prepare`, `action.EnsureIntent` | A run's row by its columns: `state`, `sequence`, `phase` (which of the result columns are NULL), `route`, `action`, `intent`, `tries` (the counter of the phase), `attempts`, `leaseToken`, `leaseValid`, `backoff`. `nextEnqueue` and `nextDispatch` are the lane's columns. `worker[w]` is the `Run` value that `Claim` returned: a snapshot. One action per transaction. `Abandon` is a crash or a refused statement, `ExpireLease` and `BackoffElapses` are the clock |
| `MessageIngestion` | `B/ingress`, `B/agent/consumer.go`, `Enqueue` and `enqueueTx` of `B/agent/store.go` | the ingress session and its offset, the inbox, the outbox rows with lease and attempts, each publisher's batch, the platform topic, the agent group's offset and owner, and each agent consumer's session. `enqueueTx` is two actions: `BeginEnqueue` takes the REPEATABLE READ snapshot, `CommitEnqueue` writes, or fails when the lane or the run has changed since. A displaced consumer goes on until it notices; Kafka drops its offset |
| `ReplyDelivery` | `B/delivery` | the delivery row, what each sender was handed and what the channel answered, and what the channel has posted. `Send` is the external call: accepted, rejected for a while or for good, or no answer (posted or not) |
| `ToolApprovals` | `B/toolruntime` | the call, the approval, and where each worker is between the transactions of `Service.Execute`; `CheckApproval` and `Suspend` are the two reads of one `UPDATE ... WHERE EXISTS` under READ COMMITTED |
| `TicketActions` | `B/action` | intent, execution with its lease, the executor's position, and how many tickets carry the key |
| `Delegation` | `B/delegation`, and the statements on `agent.delegations` in `B/agent/store.go` and `B/delivery/store.go` | a row per child and its parent. `Spawn` is a step of a worker inside the parent's tool call; `ClaimChild`, `FailChild` and `SettleChild` are the runs' steps with the row carried along. Because the liveness of conversations is stated here, also what may stop them: `deliveryControl`, and `missed`, the runs that were suspended for an approval that a claim expired meanwhile (`WaitForDecision`) |
| `TelegramChannel` | `B/telegram` | the updates of the Bot, what the Bot API still gives out, the saved offset, each poller's batch, challenges, bindings, the inbox. An update is taken through `ProcessNext`, `IngestBound` and `SaveOffset`, one transaction each |
| `ProactiveDispatch` | `B/proactive`, `B/agent/proactive.go` | the subscription with its lease and baseline, a row per paper, each process's collector and dispatcher, the member's preference, the hour of the day. A dispatch looks at the time once (`Decide`), decides on the count it claimed with, and creates the run (`EnqueueProactive`) before it reports it (`MarkEnqueued`). Histories: the events whose run was made today, the dispatches that were cut, the runs made in quiet hours |
| `MemoryLog` | `B/memory/store.go` | the events of each stream, the projection's cursor, the facts, and a rebuild as the transaction it is: replayed aside, committed at once |
| `MemoryExtraction` | `B/memory/extraction_store.go`, `extraction_worker.go`, `group_review.go`, retrieval and exposure in `store.go`, `loadMemory` of `B/agent/worker.go` | extraction jobs with lease and two phases, each worker's list of what is left to append, proposals and reviewers, deletions that look a fact up before they append, operators who append to a group's stream (`GroupMemoryAdmin`), and runs that are given facts, record exposures and are answered. A delivered run that waits for its action may fail with it (`ActionFails`) and is not extracted then |
| `RemoteAgents` | `B/remotea2a` | a registration's row and the card its URL serves, the page and the request of each console session, a job's row with the stage of the `Delegate` that made it, and the wire to the agent, on which `net/http` may send a request again (`Replay`) |
| `McpServers` | `B/mcp` | the registration, the health row, the supervisor's pass with the row it read, the instance, and the client: who holds its mutex, whether the server reads (`AskServer` and `AskForTools` may block in the write), what is in its pipe, what was last listed |
| `RuntimeControl` | `B/runtimecontrol/store.go` | the row's revision, what each administrator read, what `Set` answered |
| `ConversationQueue` | the abstract specification | backlog, serving, served |
| `..._proofs` | - | the theorems of section 5: one module each for `AgentRuns`, `MemoryLog` with `MemoryExtraction`, `RemoteAgents`, `McpServers`, `TelegramChannel` and `ProactiveDispatch`; `RunsAndMessages_proofs` for `MessageIngestion` and `ReplyDelivery`, the two ends of a run; `RunsAtWork_proofs` for what happens in between (`ToolApprovals`, `TicketActions`, `Delegation`) |
| `MC...` | - | instances: which runs share a conversation, symmetry, bounds |

Data that no property tells apart is left out: texts, models, evidence, audit rows, and the
tenant (one tenant; lanes carry it in their key). A digest is compared, not computed. Times are
booleans where only their passing matters: a lease is valid or not, a backoff has elapsed or not,
and the clock may change either at any moment; the proactive runtime, whose quiet hours and budgets
are about the hour, has a clock. A lease token, random in the code, is the number of the claim or
the name of the claimant, so that no two that are alive are equal, as the code assumes.

Some operators are introduced by a comment with the word "Fault:". They are plausible mistakes (a
dropped guard, an attempt too many, a lane forgotten) in the definition that follows them. No
specification uses them; substituted for that definition they show that the properties notice.

## 3. Runs

Each module has one invariant named after it (`RunsInv`, `DeliveryInv`, ...): the conjunction of its
type invariant with named parts, each commented where it is defined. Properties that have a name of
their own in a run are the ones a reader should look at first.

| Run | Question | Instance and why it is enough |
|---|---|---|
| `agent_runs` | Are the table invariants, the order of a conversation and the refinement safe under stale workers, crashes, expiries and retries? | two runs of one lane, two workers, two attempts per phase, all five phases (route to a tool): a stale worker and its successor on the same run, and a second run behind it. `MaxModelAttempts` = 1 < `MaxAttempts`. Symmetry in runs and workers. The control only keeps `Claim` from firing and is left alone |
| `message_ingestion` | Does a message become one run or a recorded rejection, whatever is repeated, displaced or lost on the way? Do the numbers of a conversation follow the topic? | two messages of one conversation, two publishers with batches of two, two agent consumers, and the lane moving under an enqueue; two faults (a crash, a lost answer, a lease that lapses under its holder, a rebalance), the second one a consumer's; groups with and without an offset |
| `reply_delivery` | Does delivery repeat, lose, reorder or contradict? Does it end? | two runs of one lane, two senders, two attempts: a lost lease with a late sender, a lost answer, the last attempt, and a pause of the delivery |
| `tool_approvals` | Is an effect executed once, after its approval, whatever the workers do? | two lanes, a tool with an effect (three tries) and a safe read (two), two workers; a claim of one run expires the approval of the other |
| `ticket_actions` | One ticket, after approval, reconciled before it is tried again? | one run, two executors, three attempts: the first ambiguous, the second reconciling, one left |
| `delegation` | One child per call, behind its parent, and a row that tells what became of it? Does the conversation move on? | a parent, two possible children, two workers, two attempts per phase (three of the model, more than the workers allow), execution or delivery paused before the first message or not, an approval that may expire during the suspension |
| `proactive` | Baseline and news apart, the budget kept but for stale counts and cut dispatches, nobody woken by a dispatcher that could know, events told of by their runs, none left open? | an old paper and two new ones, a window of two, two processes, two attempts, days of three ticks with quiet hours across midnight, a budget of one, a preference under which nothing is sent; two faults or interventions. Deadlock is checked: days never end |
| `memory` | Is what is shown what was last said? Is anything forgotten, unreviewed or unaccounted for? | a member's two runs with a fact in common, or a group's run with two reviewers; two workers, two attempts, a deletion, an erasure, a rebuild, an operator's own entry in the group's memory, a run whose action fails after its reply, a run answered from both streams; two faults. Deadlock is not checked: all may be done |
| `remote_agents` | Is what is switched on verified, does nobody undo what he has not seen, is a message received once for each time it is sent? | one registration with revisions up to four, a card that changes, two sessions, one tool call invoked any number of times, one kept-alive connection on which a request may be lost. It never stops: cards go on changing |
| `telegram` | Is no update passed over, is each attributed to its member, once and in order? | two accounts and two members, a private chat and a group, two updates, two challenges, two pollers of which the second replaces the first, one fault |
| `mcp` | Do answers go to their requests, is what can be called what was checked, do calls end, is a flapping server given up? | two callers and the supervisor on one client, two commands and two catalogs, two restarts, one late answer at a time, one change and one fault, which may be a server that stops reading and later reads on or dies. With one caller, two changes and two faults it was explored too |
| `control_stuck` | a statement that the code does not keep | section 6 |

The action constraints of the MC modules are bounds of the instance (which run comes first, when a
control may be set, how often a phase is tried); each is explained where it is defined. Bounds of
the specifications themselves are CONSTANTS marked `bound:` (`MaxFaults`, `MaxRevision`, `IdleConns`,
`MaxUpdates`, `MaxChallenges`, `MaxLate`, `MaxChanges`); the other counters are bounded by the
attempts the code allows. Where deadlock is not checked the system may stop: all runs settled, all
jobs done.

## 4. Liveness and fairness

Fairness is stated only for what the program does by itself: loops whose processes are restarted,
leases and backoffs that end by the clock, HTTP clients with a timeout. Never for members, for
administrators (with one exception below) or for an external answer.

| Specification | Assumed fair | Why | Shown |
|---|---|---|---|
| `FairDelegationSpec` | steps of the workers, the clock, settlement of a delivery unless delivery is paused (weak); the claim of a run (strong) | workers are loops; `Claim` takes the one that has been available longest, so a run that is claimable again and again is claimed; `DeliveryEnds` is the reason for settlement, and has the same exception | `ConversationMovesOn`: the head of a conversation leaves it and a delegation ends, unless a run of the lane is stranded in one of the ways `Stranded` lists (section 6), or execution is paused |
| `FairDeliverySpec` | steps of the senders, the clock (weak); the claim of a delivery (strong) | the same loop and the same order | `DeliveryEnds`: each delivery is sent, failed or uncertain, if delivery is not paused |
| `FairActionSpec` | steps of the executors, the clock (weak); the claim or sweep of an execution (strong) | the same | `ActionEndsUnlessUsedUp` |
| `FairIngestSpec` | ingress, publishers, consumers, the clock, and the group giving an ownerless partition away (weak) | loops; Kafka rebalances; failures end (`MaxFaults`) | `EveryMessageHandled`, for groups that have an offset (section 6) |
| `ProactiveDispatch!FairSpec` | the dispatchers together, leases, settlement of runs, the clock, the end of a pause (weak) | `EveryEventEnds` speaks of days and of budgets, so days must pass, and a pause must end, which is the exception | `EveryEventEnds`: time and again no event is open, unless its attempts were used up by deferrals. That a run settles is the lane's business: in a conversation that is stranded it does not |
| `MemoryExtraction!FairSpec` | extraction work, projection, leases, an open rebuild (weak) | loops; a transaction that was begun ends | `MemorySettles`: time and again every delivered run is at the end of its extraction, or was failed by its action before a poll found it (section 6), and every stream is projected |
| `RemoteAgents!Spec` | the return of a request and `finishJob` (weak) | the client's timeout | `JobEndsWithItsCaller` |
| `TelegramChannel!Spec` | steps of each poller (weak) | a process that ends is started again | `EveryUpdateHandled` |
| `McpServers!Spec` | steps of the supervisor and of each call (strong) | the ticker wakes the one, a timer ends the other, and Go's mutex starves nobody. The server owes no answer. A write to it has no deadline, so the property is stated for servers that time and again read or are dead (`ReadsOrDies`) | `ServerSettles`: if so, calls end, a disabled server's process ends, a flapping server is given up |

Liveness is only model-checked: it needs fairness and ENABLED, about which the provers used here
cannot reason.

## 5. Proofs

Every safety property that a passing run checks is a theorem: the invariants, the action properties
and the refinements. Each holds for any sets of runs, lanes, workers, senders, executors,
children, sessions, streams, keys, consumers, pollers, callers and processes and for any limits. The
assumptions are the named ASSUMEs of the modules. Most say what type a constant has, that a null
is not a value, or that a limit is positive (`LaneOfType`, `NoRunType`, `RouteType`,
`AttemptsType`). The others:

* `ConsumerType`: somebody consumes the platform topic; an owner of the partition is an element of
  the set.
* `CallerType`, `ProcessType`: the tool calls of one client and the instances of the proactive
  runtime are finite sets. Instances of a client are numbered by them, dispatchers are counted.
* `BudgetsType`: a daily budget is at most 50, which `UpdatePreferences` enforces
  (`B/proactive/store.go:668`). Without some limit the budget that `BudgetKept` speaks of, the
  greatest a member may set, would not exist.
* `StreamsType`, `JobsType`, `KeysType`, `ChatType`: what streams, jobs, keys and chats are.

**`AgentRuns_proofs`** proves `RunsInv`, the action properties `StaleWorkerInert` and
`NothingTakenBack`, and the refinement `ServesInOrder`. The argument is a chain, each link an
inductive invariant relative to those before it:

1. `TypeOK`.
2. `LeaseOfLatestClaim`: a run has a lease exactly while it is running, and its token is the number
   of its latest claim. Needed because the saving statements test the token.
3. `SnapshotCurrent`: tokens in workers' hands are distinct and not from the future, so whoever holds
   the row's token is the only one, and its snapshot is what the row says. This is why the code
   may decide on the attempt number and the phase it read at the claim.
4. `ColumnsAgree`: which columns are written, by state. Needed to know that a run that is suspended
   behind the dispatch position waits for its action and not for a tool (an expiry would otherwise
   put a settled run back in the queue).
5. `GaplessSequence`: the numbers of a lane are 1 .. n, each once. Needed for "the" head.
6. `OneTurnAtATime`: runs behind the head are untouched, those before it settled. From 4 and 5:
   only the head is claimed, and only the head's settlement moves the position.

The action properties follow from the invariants at the start of the step. For the refinement each
step is classed by what it does to the lane: it adds a turn at the end of the backlog, begins the
first, finishes the first, or is a stutter.

**`RunsAndMessages_proofs`, `RunsAtWork_proofs`** prove for each of the five detailed protocols that one of
its steps is a step of `AgentRuns` or leaves the runs alone (`IngestStepOfRuns`, `DeliveryStepOfRuns`,
`ToolStepOfRuns`, `ActionStepOfRuns`, `DelegationStepOfRuns`). From it come the refinements and,
with the theorems of `AgentRuns_proofs`, what each protocol inherits (`IngestKeepsRuns` and its
like): `RunsInv`, `StaleWorkerInert`, `NothingTakenBack` and `ServesInOrder`. On top of that:

* `MessageIngestion`: `IngestInv`, that is `NothingSkipped`, `NumberedByTopic` and the rest, for topics of
  any length and any number of displaced consumers. The inductive invariant `IngestIInv` says where
  everybody stands: the ingress session and the saved offset have only records behind them that are
  stored, refused or were missed (`ReadingKept`); what a publisher holds an answer for is on the topic
  (`AckedIsPublished`); and every consumer, also one that was displaced and does not know it, stands
  behind records that are dealt with, or that a session without an offset started behind
  (`GroupKept`). So an offset that is committed late cannot pass over a message. That numbers follow
  the topic needs in addition that a run stems from a record whose predecessors were dealt with
  (`InTurn`).
  The step of `enqueueTx` refines `Enqueue` although the snapshot was taken earlier: a
  commit that succeeds has found the lane as the snapshot shows it.
* `ReplyDelivery`: `DeliveryInv`, `NoBlindRepeat`, `OutcomeFinal`. The invariant adds that senders
  of a row have distinct numbers of its claims, the latest as long as its lease never ran out, and that
  a reply whose lease never ran out is posted at most once, by a sender that knows that it may be.
* `ToolApprovals`: `ToolInv`, `EffectApprovedOnce`, `DecisionsFinal`. The invariant relates the ledger
  to the place of each worker: who is inside a tool has the call `executing`, alone, although no
  transaction of the call looks at the run's lease.
* `TicketActions`: `ActionInv`, `ExecutorsFenced`. Here `ActionStepOfRuns` needs the invariant: a completion
  lands on a run that waits for its action only because of what the execution's row says.
* `Delegation`: `DelegationInv`. `Spawn` is an `Enqueue`; that a child's turn comes after its parent
  follows from the places of both in one lane and `OneTurnAtATime`.

**`RemoteAgents_proofs`**: `RemoteInv`, `ReceivedOncePerSend`, `ChangesWhatWasSeen`. The invariant adds
that a page with the revision of the row shows the row (revisions only grow), and that the requests
of a call, on the wire or received, are no more than one and the times the transport sent it again,
and none before its row.

**`MemoryExtraction_proofs`** begins with the log: `LogInv` and `NeverBack` for logs of any length. That
facts are the last words of the log is inductive once it is said of the rows of an open rebuild
too. That nothing goes back needs to know from which event a row came, and that a rebuild which has
passed that event has caught up with the row. Every step of the workers, reviewers, members and
operators is a step of the log (`MemoryIsLog`), so the two results hold of the whole. `MemoryInv`
and `NothingForgotten` follow from an invariant that says how far each worker, reviewer, deletion
and reader has got: a worker's facts are in the log or still ahead of it, and so on. What is said of a
group's stream is that each event with a proposal's key stems from an approved proposal; the other
events of it have keys of operators, whom nobody reviews.

**`McpServers_proofs`**: `McpInv` and `ServesWhatWasChecked`, for any number of calls, catalogs and
late answers. A call takes an answer only after it compared the number, so `AnswersAreOwn` is
inductive as it stands. For the rest, a new instance has a name that nothing still refers to
(`FreshName`), and the place of the supervisor in its pass says what it has in hand: `LifeOK`
relates it to the process and the map of instances, `ChecksOK` to what it has found out about the
server so far (the row it read, the command it started, the catalog it compared). What it records at
the end of a pass is the sum of these, and has to hold until the next pass begins, whoever changes
the row.

**`TelegramChannel_proofs`**: `ChannelInv` and `InOrderUnlessRefused`. `PositionsOK` says of each
poller, also of one that is being replaced, that what is before its place is handled; so is what is
before the saved offset, since it was some poller's place. `AcceptedInTurn`: so is what lies before
an accepted message, hence what is accepted later comes later, or was refused before. `LinkedOK`
relates challenges to bindings; since a binding is never changed (`Grows`), whoever resolved an
account earlier in its transaction has the member that is recorded.

**`ProactiveDispatch_proofs`**: `ProactiveInv` and `BudgetKept`, three arguments side by side.
`PollingOK`: until the baseline is complete every collector that holds the lease believes so, and
nobody else can save. `RowOK` and `DispatcherOK`: a run without a row that tells of it is one whose
dispatcher still holds the event, or whose dispatch was cut. `BudgetOK`: the events whose runs were
made today and that a claim will count, and those that dispatchers which counted less than the budget
may still add (`Eager`), are together within the budget and one for each dispatcher beyond the first; a
dispatcher that counted earlier has not seen what was sent since, and this is what it can cost. The
runs that a claim does not count are those of failed runs and of dispatches that were cut between
their two transactions; the latter are what `BudgetKept` adds. The quiet hours are arithmetic on a
clock that runs evenly, for a day of any length: a deferral ends outside of them
(`DeferralsEndQuiet`), and a run is made in them only if its dispatcher's decision was overtaken by
the clock or by the member (`NotWoken`).

Only model-checked: all liveness (`DeliveryEnds`, `ActionEndsUnlessUsedUp`, `ConversationMovesOn`,
`EveryMessageHandled`, `EveryEventEnds`, `MemorySettles`, `JobEndsWithItsCaller`, `EveryUpdateHandled`,
`ServerSettles`). `RuntimeControl` has no theorem: its one property is refuted.

## 6. Where documentation and code disagree, and what is not promised

A run shows one disagreement, because nothing a careful caller does avoids it:

* `control_stuck`: `Set` proposes no row unless the expected revision is zero, so `ON CONFLICT DO
  UPDATE` never updates (`B/runtimecontrol/store.go:66`): a control can be set once, and a pause never
  lifted, though the administrator's command offers to resume a component.

Others met while modelling. The properties say exactly what holds beside them (`Stranded`, `UsedUp`,
`missed`, `unread`, `AwaitingAction`, `NeverEnqueued`, `replayed`, `cut`, `ReadsOrDies`):

* `docs/sdd/agent-runtime.md:63`: dependency failures are retried up to the attempt count and
  exhaustion records `failed`. `Claim` wants an attempt left also of a running row whose lease has
  lapsed (`B/agent/store.go:287`), and nothing else looks at such rows: a worker that dies on the last
  attempt of a phase leaves the run `running` for ever and the conversation behind it stopped.
  Likewise a run whose version allows more model attempts than the workers' limit, and a run that
  the action executor fails before its reply was delivered.
* A run may be suspended for an approval that is no longer pending, when an expiry commits between the
  statement's read of the approval and its commit (`B/agent/store.go:469`). Nothing resumes the run, and
  its conversation stops (`missed`).
* A pause of the delivery is as final as any (`control_stuck`): the conversations whose head has a reply
  stop there.
* `docs/sdd/akashic-openim-integration.md:202`: remote agents are called with "explicit `unknown`
  outcomes without automatic retry". `Delegate` posts once, but the request has an `Idempotency-Key`
  header, a body that can be rewound and a transport with kept-alive connections
  (`B/remotea2a/client.go:192`, 98-103): to `net/http` it is replayable, and a request that a reused
  connection loses before a response is sent again, with the same message ID. `ReceivedOncePerSend`
  counts these.
* A delivered run whose reply asked for an approval is extracted if a poll finds it `succeeded` or
  `waiting_approval` (`B/memory/extraction_store.go:34`). If its action fails first, the executor sets it
  `failed` (`B/action/executor.go:186`) and it is never extracted: the exception of `MemorySettles`.
* `docs/sdd/action-executor.md:68`: an unknown execution with an existing ticket reconciles to
  succeeded. One that becomes unknown on its last attempt is not claimed again
  (`B/action/executor.go:66`).
* The member may approve while the reply is still being delivered; the action completes first, which
  changes no run (`B/action/executor.go:148`), and the delivery then leaves the run waiting for the
  action that is done.
* `docs/sdd/agent-runtime.md:33`: a source offset is committed only after a run or rejection is
  durable. The group starts at `OffsetNewest` as long as it has committed nothing, on every session
  (`B/agent/config.go:146`): a first record whose `Enqueue` fails, or whose consumer is displaced, is
  behind the start of the next session, whose first commit covers it. The ingress group alike.

What the code does not promise, by component:

* Ingestion: that a conversation's messages are published in the order they were sent. The rows of a
  batch come back in no particular order, a failed publish does not stop the batch, and two
  publishers hold rows of one conversation. `NumberedByTopic` is what holds.
* Delegation: the row stays `running` if the action executor fails the child before its reply is
  settled, and says `completed` though the child's action fails later. `Spawn` does not look at the
  lease of the worker that calls it.
* Proactive: deferrals use up dispatch attempts, and an event without one left is stranded. Events of a
  disabled subscription are still dispatched. A dispatch that is cut between its two transactions has
  made a run that the count of the day does not see (`B/proactive/worker.go:176`), so one process and
  one crash exceed a budget, as do dispatchers that counted at the same time. Quiet hours are resolved
  by `time.Date` in the member's zone (`B/proactive/worker.go:216`): on the day on which daylight saving
  begins, an end like 02:30 in America/New_York does not exist and becomes 01:30, so that a deferral
  may end in quiet hours; it is then deferred once more, at the price of an attempt. The clock of the
  model runs evenly. An acknowledgement of an old paper, like a
  reconciliation, counts against today's budget, because it touches the row. A poll's window can
  miss papers.
* Memory: an extraction that is late overwrites newer facts, or revives one that was deleted in
  between, for it is a later event. A rejection that races an approval leaves the fact in the group's
  memory. What an operator writes with `group-memory-admin`, upserts and deletes, nobody reviews
  (`src/platform/services/platform-api/cmd/group-memory-admin/main.go:60`), as
  `docs/sdd/akashic-openim-integration.md:136` intends. An exposure records the content that the fact has then, not the one the run was given. An
  ordinal taken by a cut attempt makes the next one fail. A delete that is repeated after its
  projection is told that there is no such fact. `RebuildStream` has no caller among the commands.
* Remote agents: `finishJob` runs in the context of the tool, so that a timeout or a shutdown leaves
  the job `queued`; a `submitted` task is never polled; a refused verification that is stale is
  audited though it changed no row.
* Telegram: the update of a link challenge, if it is delivered again, is recorded as refused though it
  linked the account; while two pollers run, a message that one refused may be accepted by the other,
  after later ones.
* MCP: a request is written before its timer is set, with the client's mutex held
  (`B/mcp/client.go:173`). A live server that does not read its input blocks the write of a request
  larger than the pipe for good, and with it the calls behind it, the supervisor's pass over all its
  servers, and the `Close` that would end the process. A late answer makes each following request mismatch until the session is replaced. Restarts
  are never reset, and being disabled counts as one, so that five removals leave a server stopped
  until the runtime restarts. A tool can be called before the server is recorded healthy, and a
  runtime that stops leaves it recorded so.

## 7. Not modelled

* Malformed records of the topics (refused like unmapped ones), the memory exposures of a ranking
  (no later step reads them), the creation of a member's first subscription.
* The change of a member's time zone and of a subscription's categories and poll interval, and the
  days on which daylight saving begins or ends.
* Capabilities, skills, catalog and administration: each publication is one serializable transaction
  of one administrator, and a run pins the version it was enqueued with.
* Identity, roles and devices: checks in front of each request that read their own rows in one
  transaction. The links that a Telegram challenge makes are in `TelegramChannel`.
* HTTP decoding and wiring, retrieval and observation (they only read), migrations (applied once;
  their constraints are used where a module relies on them), the intelligence worker's prompts, the
  web client, and the vendored OpenIM sources: none keeps a state of the protocols above.

## 8. Plan

1. Composition of `TelegramChannel` with `MessageIngestion` (the inbox as the source of the outbox), and
   of `RemoteAgents` with `ToolApprovals` (the invocation of a tool as `Delegate`).
2. Action properties of the parts that so far have invariants only: that an ended source event stays
   ended, that an offset of Telegram never goes back, that a refused record is not accepted later.
   Each first as a property of its run.
