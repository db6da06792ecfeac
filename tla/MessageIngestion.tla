--------------------------- MODULE MessageIngestion ---------------------------
(***************************************************************************)
(* The way of a message from the OpenIM topic to its Agent Run: the        *)
(* ingress consumer (internal/ingress/consumer.go, store.go), the outbox   *)
(* with its leased publishers (publisher.go), the platform topic, and the  *)
(* agent consumers that enqueue runs (internal/agent/consumer.go,          *)
(* store.go).  It takes the place of the action Enqueue of AgentRuns, and  *)
(* takes the transaction behind it apart: it reads a snapshot first and    *)
(* writes later, while displaced consumers and lane movements go on.       *)
(*                                                                         *)
(* Both topics are one partition, which is what one conversation sees.     *)
(* External: Kafka keeps what it has acknowledged, may keep what it has    *)
(* not, and takes offsets from the current owner of a partition only.      *)
(***************************************************************************)
EXTENDS AgentRuns, Sequences

CONSTANTS
    Source,      \* the OpenIM topic: the event each of its records normalizes to
    Publisher,   \* outbox publishers
    Consumer,    \* agent consumers of one group
    Batch,       \* PLATFORM_OUTBOX_BATCH
    MaxFaults,   \* bound: how often something fails
    NoOffset     \* the offset of a group that has not committed any

ASSUME SourceType == Source \in Seq(Run)
ASSUME BatchType == Batch \in Nat \ {0} /\ MaxFaults \in Nat
ASSUME NoOffsetType == NoOffset \notin Nat
ASSUME ConsumerType == Consumer # {}

VARIABLES
    reading,      \* ingress session: the record it is at, and whether that is stored
    sourceOffset, \* records of Source that the ingress group has committed, or NoOffset
    unread,       \* history: the records of Source that such a session started behind
    refused,      \* records of Source with an ingress_rejections row
    inbox,        \* ingress_messages, oldest first
    outbox,       \* event: state of its outbox row, "none" without one
    oAttempts,    \* event: attempts of the row, also the number of its lease token
    oToken,       \* event: lease_token, 0 for NULL
    oLeaseValid,  \* event: lease_until >= now()
    oBackoff,     \* event: available_at > now()
    publisher,    \* publisher: what is left of its batch, and the answer of the broker
    topic,        \* the platform topic
    groupOffset,  \* records of topic that the agent group has committed, or NoOffset
    owner,        \* the consumer whose offsets Kafka takes
    consumer,     \* consumer: the record its session is at, and its transaction there
    dismissed,    \* events rejected (event_rejections) or found not to concern an agent
    missed,       \* history: the records that a session without an offset started behind
    faults        \* how often something has failed

inVars == <<reading, sourceOffset, unread, refused, inbox>>
outboxVars == <<outbox, oAttempts, oToken, oLeaseValid, oBackoff>>
groupVars == <<groupOffset, owner, consumer, dismissed, missed>>
ingestVars == <<inVars, outboxVars, publisher, topic, groupVars, faults>>
allIngestVars == <<runVars, ingestVars>>

Stored == {inbox[i] : i \in DOMAIN inbox}
Published == {topic[i] : i \in DOMAIN topic}

IdlePublisher == [tokens |-> [r \in Run |-> 0], at |-> NoRun, acked |-> FALSE]
NoSession == [at |-> 0, step |-> "next", seen |-> FALSE, lane |-> 0]

IngestTypeOK ==
    /\ TypeOK
    /\ reading \in [at : 1 .. Len(Source) + 1, stored : BOOLEAN]
    /\ sourceOffset \in 0 .. Len(Source) \cup {NoOffset}
    /\ unread \subseteq DOMAIN Source
    /\ refused \subseteq DOMAIN Source
    /\ inbox \in Seq(Run) /\ Len(inbox) <= Len(Source)
    /\ outbox \in [Run -> {"none", "pending", "publishing", "published"}]
    /\ oAttempts \in [Run -> Nat] /\ oToken \in [Run -> Nat]
    /\ oLeaseValid \in [Run -> BOOLEAN] /\ oBackoff \in [Run -> BOOLEAN]
    /\ publisher \in [Publisher -> [tokens : [Run -> Nat], at : Run \cup {NoRun}, acked : BOOLEAN]]
    /\ topic \in Seq(Run)
    /\ groupOffset \in 0 .. Len(topic) \cup {NoOffset}
    /\ owner \in Consumer
    /\ consumer \in [Consumer -> [at : 0 .. Len(topic) + 1, step : {"next", "begun", "done"},
                                  seen : BOOLEAN, lane : Nat]]
    /\ dismissed \subseteq Published
    /\ missed \subseteq DOMAIN topic
    /\ faults \in 0 .. MaxFaults

(* Both groups of consumers begin with a session at the end of an empty topic, *)
(* and are new or have been there before.                                      *)
IngestInit ==
    /\ Init
    /\ reading = [at |-> 1, stored |-> FALSE]
    /\ sourceOffset \in {0, NoOffset}
    /\ unread = {}
    /\ refused = {}
    /\ inbox = <<>>
    /\ outbox = [r \in Run |-> "none"]
    /\ oAttempts = [r \in Run |-> 0]
    /\ oToken = [r \in Run |-> 0]
    /\ oLeaseValid = [r \in Run |-> FALSE]
    /\ oBackoff = [r \in Run |-> FALSE]
    /\ publisher = [p \in Publisher |-> IdlePublisher]
    /\ topic = <<>>
    /\ groupOffset \in {0, NoOffset}
    /\ owner = CHOOSE c \in Consumer : TRUE
    /\ consumer = [c \in Consumer |-> IF c = owner THEN [NoSession EXCEPT !.at = 1] ELSE NoSession]
    /\ dismissed = {}
    /\ missed = {}
    /\ faults = 0

Fault == faults < MaxFaults /\ faults' = faults + 1

-------------------------------------------------------------------------------
(* Ingress                                                                    *)

(* Ingest: the message and its outbox row, or a rejection when its sender is   *)
(* not mapped.  A message that is there already changes nothing.  A displaced  *)
(* session can only add such repetitions, so one session is enough here.       *)
Ingest ==
    LET r == Source[reading.at] IN
    /\ reading.at <= Len(Source) /\ ~reading.stored
    /\ reading' = [reading EXCEPT !.stored = TRUE]
    /\ \/ r \notin Stored
          /\ inbox' = Append(inbox, r)
          /\ outbox' = [outbox EXCEPT ![r] = "pending"]
          /\ UNCHANGED refused
       \/ r \in Stored /\ UNCHANGED <<inbox, outbox, refused>>
       \/ refused' = refused \cup {reading.at} /\ UNCHANGED <<inbox, outbox>>
    /\ UNCHANGED <<runVars, sourceOffset, unread, oAttempts, oToken, oLeaseValid, oBackoff, publisher,
                   topic, groupVars, faults>>

CommitSource ==
    /\ reading.stored
    /\ sourceOffset' = reading.at
    /\ reading' = [at |-> reading.at + 1, stored |-> FALSE]
    /\ UNCHANGED <<runVars, unread, refused, inbox, outboxVars, publisher, topic, groupVars, faults>>

(* The process dies, its group is rebalanced, or Ingest fails before the       *)
(* offset is taken.  Without an offset the next session starts at the end of   *)
(* what has arrived (Offsets.Initial = OffsetNewest), with one at this record. *)
RestartReading ==
    /\ reading.at <= Len(Source)
    /\ Fault
    /\ IF sourceOffset = NoOffset
       THEN \E next \in reading.at + 1 .. Len(Source) + 1 :
                reading' = [at |-> next, stored |-> FALSE] /\ unread' = 1 .. next - 1
       ELSE /\ reading.stored
            /\ reading' = [at |-> sourceOffset + 1, stored |-> FALSE]
            /\ UNCHANGED unread
    /\ UNCHANGED <<runVars, sourceOffset, refused, inbox, outboxVars, publisher, topic, groupVars>>

-------------------------------------------------------------------------------
(* The outbox                                                                 *)

(* Fault: a row whose publisher has died is not taken again.                   *)
OnlyPending(r) == outbox[r] = "pending"
Due(r) == outbox[r] = "pending" \/ (outbox[r] = "publishing" /\ ~oLeaseValid[r])

(* The oldest rows that are due, as many as a batch holds.  UPDATE ...         *)
(* RETURNING promises no order of the rows it returns.                         *)
DueRows == SelectSeq(inbox, LAMBDA r : Due(r) /\ ~oBackoff[r])
Oldest == {DueRows[i] : i \in {i \in DOMAIN DueRows : i <= Batch}}

ClaimOutbox(p) ==
    /\ publisher[p] = IdlePublisher
    /\ Oldest # {}
    /\ outbox' = [r \in Run |-> IF r \in Oldest THEN "publishing" ELSE outbox[r]]
    /\ oAttempts' = [r \in Run |-> IF r \in Oldest THEN oAttempts[r] + 1 ELSE oAttempts[r]]
    /\ oToken' = [r \in Run |-> IF r \in Oldest THEN oAttempts[r] + 1 ELSE oToken[r]]
    /\ oLeaseValid' = [r \in Run |-> r \in Oldest \/ oLeaseValid[r]]
    /\ publisher' = [publisher EXCEPT ![p].tokens =
                       [r \in Run |-> IF r \in Oldest THEN oAttempts[r] + 1 ELSE 0]]
    /\ UNCHANGED <<runVars, inVars, oBackoff, topic, groupVars, faults>>

InBatch(p, r) == publisher[p].tokens[r] > 0

Publish(p, r) ==
    /\ InBatch(p, r) /\ publisher[p].at = NoRun
    /\ \/ /\ publisher' = [publisher EXCEPT ![p].at = r, ![p].acked = TRUE]
          /\ topic' = Append(topic, r)
          /\ UNCHANGED faults
       \/ /\ Fault
          /\ publisher' = [publisher EXCEPT ![p].at = r, ![p].acked = FALSE]
          /\ topic' \in {topic, Append(topic, r)}
    /\ UNCHANGED <<runVars, inVars, outboxVars, groupVars>>

(* The row leaves the batch and its lease ends; a statement that finds the     *)
(* lease gone ends the publisher.                                              *)
HoldsRow(p, r) == outbox[r] = "publishing" /\ oToken[r] = publisher[p].tokens[r]

LeaveBatch(p, r, st, held) ==
    IF held
    THEN /\ outbox' = [outbox EXCEPT ![r] = st]
         /\ oToken' = [oToken EXCEPT ![r] = 0]
         /\ oLeaseValid' = [oLeaseValid EXCEPT ![r] = FALSE]
         /\ publisher' = [publisher EXCEPT ![p] =
                            [IdlePublisher EXCEPT !.tokens = [publisher[p].tokens EXCEPT ![r] = 0]]]
    ELSE /\ publisher' = [publisher EXCEPT ![p] = IdlePublisher]
         /\ UNCHANGED <<outbox, oToken, oLeaseValid>>

MarkPublished(p) ==
    LET r == publisher[p].at IN
    /\ r # NoRun /\ publisher[p].acked
    /\ LeaveBatch(p, r, "published", HoldsRow(p, r) /\ oLeaseValid[r])
    /\ UNCHANGED <<runVars, inVars, oAttempts, oBackoff, topic, groupVars, faults>>

(* The token is compared, the lease's time is not; the batch goes on.          *)
ReleaseOutbox(p) ==
    LET r == publisher[p].at IN
    /\ r # NoRun /\ ~publisher[p].acked
    /\ LeaveBatch(p, r, "pending", HoldsRow(p, r))
    /\ oBackoff' = [oBackoff EXCEPT ![r] = HoldsRow(p, r) \/ @]
    /\ UNCHANGED <<runVars, inVars, oAttempts, topic, groupVars, faults>>

PublisherDies(p) ==
    /\ publisher[p] # IdlePublisher
    /\ Fault
    /\ publisher' = [publisher EXCEPT ![p] = IdlePublisher]
    /\ UNCHANGED <<runVars, inVars, outboxVars, topic, groupVars>>

(* The time of a lease runs out under a publisher (a fault) or behind a dead   *)
(* one.                                                                        *)
ExpireOutbox(r) ==
    /\ oLeaseValid[r]
    /\ \/ Fault
       \/ /\ \A p \in Publisher : publisher[p].tokens[r] # oToken[r]
          /\ UNCHANGED faults
    /\ oLeaseValid' = [oLeaseValid EXCEPT ![r] = FALSE]
    /\ UNCHANGED <<runVars, inVars, outbox, oAttempts, oToken, oBackoff, publisher, topic, groupVars>>

OutboxBackoffElapses(r) ==
    /\ oBackoff[r]
    /\ oBackoff' = [oBackoff EXCEPT ![r] = FALSE]
    /\ UNCHANGED <<runVars, inVars, outbox, oAttempts, oToken, oLeaseValid, publisher, topic,
                   groupVars, faults>>

-------------------------------------------------------------------------------
(* The agent consumers                                                        *)

Step(c, step) == consumer[c].at # 0 /\ consumer[c].step = step
Record(c) == topic[consumer[c].at]
GoOn(c, next) == consumer' = [consumer EXCEPT ![c] = next]
LaneVersion(r) == nextEnqueue[LaneOf[r]] + nextDispatch[LaneOf[r]]

(* A session starts behind the committed offset, and without one at the end of *)
(* the topic (Offsets.Initial = OffsetNewest).                                 *)
Resume == IF groupOffset = NoOffset THEN Len(topic) + 1 ELSE groupOffset + 1

(* The group gives the partition to a consumer: because its owner is gone, or  *)
(* in a rebalance (counted as a fault), which the displaced owner may notice   *)
(* late.                                                                       *)
Assign(c) ==
    /\ consumer[c].at = 0
    /\ IF consumer[owner].at = 0 THEN UNCHANGED faults ELSE Fault
    /\ owner' = c
    /\ GoOn(c, [NoSession EXCEPT !.at = Resume])
    /\ missed' = IF groupOffset = NoOffset THEN DOMAIN topic ELSE missed
    /\ UNCHANGED <<runVars, inVars, outboxVars, publisher, topic, groupOffset, dismissed>>

(* The first statement of enqueueTx fixes the snapshot of its transaction.     *)
BeginEnqueue(c) ==
    /\ Step(c, "next") /\ consumer[c].at <= Len(topic)
    /\ GoOn(c, [consumer[c] EXCEPT !.step = "begun", !.seen = state[Record(c)] # "absent",
                                   !.lane = LaneVersion(Record(c))])
    /\ UNCHANGED <<runVars, inVars, outboxVars, publisher, topic, groupOffset, owner, dismissed,
                   missed, faults>>

(* REPEATABLE READ: the UPDATE of a lane that another transaction has changed  *)
(* since the snapshot fails, and so does the INSERT that meets a run it cannot *)
(* see.  Fault: READ COMMITTED.                                                *)
ReadCommitted(c) == FALSE
Conflicts(c) == LaneVersion(Record(c)) # consumer[c].lane \/ state[Record(c)] # "absent"

(* ensureLane, allocateSequence and the INSERT ... ON CONFLICT (source_event_id)*)
(* of a run.                                                                   *)
InsertRun(r) ==
    /\ nextEnqueue' = [nextEnqueue EXCEPT ![LaneOf[r]] = @ + 1]
    /\ IF state[r] = "absent"
       THEN /\ state' = [state EXCEPT ![r] = "queued"]
            /\ sequence' = [sequence EXCEPT ![r] = nextEnqueue[LaneOf[r]]]
       ELSE UNCHANGED <<state, sequence>>
    /\ UNCHANGED <<nextDispatch, progressVars, intent, attempts, leaseVars, backoff,
                   executionControl, worker>>

(* Fault: the record is taken for done.                                        *)
PassOver(c) == [consumer[c] EXCEPT !.step = "done"]
AfterConflict(c) == NoSession

FindRun(c) ==
    /\ Step(c, "begun") /\ consumer[c].seen
    /\ GoOn(c, [consumer[c] EXCEPT !.step = "done"])
    /\ UNCHANGED <<runVars, inVars, outboxVars, publisher, topic, groupOffset, owner, dismissed,
                   missed, faults>>

CommitEnqueue(c) ==
    /\ Step(c, "begun") /\ ~consumer[c].seen
    /\ IF Conflicts(c)
       THEN GoOn(c, AfterConflict(c)) /\ UNCHANGED runVars
       ELSE GoOn(c, [consumer[c] EXCEPT !.step = "done"]) /\ InsertRun(Record(c))
    /\ UNCHANGED <<inVars, outboxVars, publisher, topic, groupOffset, owner, dismissed, missed, faults>>

(* The event does not concern an agent, is malformed, or is rejected by the    *)
(* catalog or because its member is not active.                                *)
Dismiss(c) ==
    /\ Step(c, "begun") /\ ~consumer[c].seen
    /\ dismissed' = dismissed \cup {Record(c)}
    /\ GoOn(c, [consumer[c] EXCEPT !.step = "done"])
    /\ UNCHANGED <<runVars, inVars, outboxVars, publisher, topic, groupOffset, owner, missed, faults>>

(* Kafka drops the offset of a consumer that is not the owner any more.        *)
Handled(c) == consumer[c].at

MarkAndCommit(c) ==
    /\ Step(c, "done")
    /\ groupOffset' = IF owner = c THEN Handled(c) ELSE groupOffset
    /\ GoOn(c, [NoSession EXCEPT !.at = consumer[c].at + 1])
    /\ UNCHANGED <<runVars, inVars, outboxVars, publisher, topic, owner, dismissed, missed, faults>>

(* The process dies, Enqueue returns an error (committed or not), or the       *)
(* session notices that it has been displaced.                                 *)
EndSession(c) ==
    /\ consumer[c].at # 0
    /\ IF owner = c THEN Fault ELSE UNCHANGED faults
    /\ GoOn(c, NoSession)
    /\ UNCHANGED <<runVars, inVars, outboxVars, publisher, topic, groupOffset, owner, dismissed, missed>>

-------------------------------------------------------------------------------

ReadStep == Ingest \/ CommitSource
PublisherStep(p) == ClaimOutbox(p) \/ (\E r \in Run : Publish(p, r)) \/ MarkPublished(p) \/ ReleaseOutbox(p)
ConsumerStep(c) ==
    BeginEnqueue(c) \/ FindRun(c) \/ CommitEnqueue(c) \/ Dismiss(c) \/ MarkAndCommit(c)

(* The Agent Runs with everything but Enqueue.                                 *)
IngestRunStep ==
    \/ \E r \in Run : ClaimRun(r) \/ ExpireLease(r) \/ BackoffElapses(r)
    \/ \E setting \in {"enabled", "paused"} : SetExecutionControl(setting)
    \/ \E w \in Worker : WorkerStep(w)
    \/ ToolStep \/ DeliveryStep \/ ActionStep

IngestNext ==
    \/ IngestRunStep /\ UNCHANGED ingestVars
    \/ ReadStep \/ RestartReading
    \/ \E p \in Publisher : PublisherStep(p) \/ PublisherDies(p)
    \/ \E r \in Run : ExpireOutbox(r) \/ OutboxBackoffElapses(r)
    \/ \E c \in Consumer : Assign(c) \/ ConsumerStep(c) \/ EndSession(c)

IngestSpec == IngestInit /\ [][IngestNext]_allIngestVars

(* The loops run, leases end, backoffs elapse and the group finds an owner;    *)
(* nothing fails for ever (MaxFaults).                                         *)
IngestFairness ==
    /\ WF_allIngestVars(ReadStep)
    /\ \A p \in Publisher : WF_allIngestVars(PublisherStep(p))
    /\ \A r \in Run : WF_allIngestVars(ExpireOutbox(r)) /\ WF_allIngestVars(OutboxBackoffElapses(r))
    /\ \A c \in Consumer : WF_allIngestVars(ConsumerStep(c))
    /\ WF_allIngestVars(consumer[owner].at = 0 /\ \E c \in Consumer : Assign(c))

FairIngestSpec == IngestSpec /\ IngestFairness

-------------------------------------------------------------------------------
(* Properties                                                                 *)

(* Every committed enqueueTx is an Enqueue of AgentRuns: one run per event and *)
(* no number of the lane lost, whichever consumers race.                       *)
IngestRefinesRuns == Spec

Dealt(r) == state[r] # "absent" \/ r \in dismissed

(* docs/sdd/openim-adapter.md and agent-runtime.md, Invariants: an offset is   *)
(* committed only after the message or its rejection is stored, and after the  *)
(* run or the event's rejection is durable; and the outbox calls published only*)
(* what the topic has.  Records that a session of a group without an offset    *)
(* started behind are excepted: those are passed over without either.          *)
NothingSkipped ==
    /\ sourceOffset # NoOffset =>
          \A i \in 1 .. sourceOffset : Source[i] \in Stored \/ i \in refused \cup unread
    /\ \A r \in Run : /\ outbox[r] = "published" => r \in Published
                      /\ state[r] # "absent" => r \in Published
    /\ groupOffset # NoOffset =>
          \A i \in 1 .. groupOffset : Dealt(topic[i]) \/ i \in missed

(* The numbers of a conversation follow the platform topic, whatever restarts, *)
(* rebalances and repeated records there are: a later number means a later     *)
(* first record, unless an earlier one was dismissed or missed.                *)
NumberedByTopic ==
    \A a, b \in Run :
        LaneOf[a] = LaneOf[b] /\ sequence[a] # 0 /\ sequence[a] < sequence[b] =>
            \A j \in DOMAIN topic : topic[j] = b =>
                (\E i \in 1 .. j - 1 : topic[i] = a) \/ b \in dismissed \/ j \in missed

(* What is behind an offset is dealt with, in order (ingress/store.go,         *)
(* agent/consumer.go and enqueueTx).                                           *)
IngestInv == IngestTypeOK /\ NothingSkipped /\ NumberedByTopic

(* A message that is read from the source gets its run or a rejection, whoever *)
(* dies on the way, where the groups have committed an offset before.          *)
EveryMessageHandled ==
    sourceOffset # NoOffset /\ groupOffset # NoOffset =>
        \A i \in DOMAIN Source : <>(i \in refused \/ Dealt(Source[i]))
===============================================================================
