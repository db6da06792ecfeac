------------------------ MODULE RunsAndMessages_proofs ------------------------
(***************************************************************************)
(* The two ends of a run: the message that it comes from and the reply     *)
(* that it is.  In both modules a step is one of AgentRuns, so that        *)
(* AgentRuns_proofs holds of them.                                         *)
(***************************************************************************)
EXTENDS MessageIngestion, ReplyDelivery, AgentRuns_proofs, FiniteSetTheorems, SequenceTheorems

-------------------------------------------------------------------------------
(***************************************************************************)
(* Proofs about MessageIngestion, for every topic, every number of         *)
(* publishers, consumers and faults.  A record is followed from the source *)
(* to its run: what the ingress has passed is stored, refused or was never *)
(* read; what a publisher has had acknowledged is in the topic; and every  *)
(* session of a consumer, displaced or not, stands behind records that are *)
(* dealt with, by a run, a dismissal or a session that began behind them   *)
(* (IngestIInv). So a run is only accepted when the records before its own *)
(* are dealt with, which is why the numbers of a conversation follow the   *)
(* topic.                                                                  *)
(***************************************************************************)

(* The inductive invariant of the ingestion                                   *)

Unnumbered == \A r \in Run : state[r] = "absent" <=> sequence[r] = 0

StoredOnce ==
    /\ \A i \in DOMAIN inbox : \E k \in DOMAIN Source : Source[k] = inbox[i]
    /\ \A i, j \in DOMAIN inbox : inbox[i] = inbox[j] => i = j

(* The session of the ingress is at the record behind the committed offset, or *)
(* behind the records it never read; and what it has passed is stored.         *)
ReadingKept ==
    /\ reading.stored => /\ reading.at <= Len(Source)
                         /\ Source[reading.at] \in Stored \/ reading.at \in refused
    /\ IF sourceOffset = NoOffset
       THEN 1 .. reading.at - 1 \subseteq unread
       ELSE /\ reading.at = sourceOffset + 1
            /\ \A i \in 1 .. sourceOffset : Source[i] \in Stored \/ i \in refused \cup unread

AckedIsPublished ==
    /\ \A r \in Run : outbox[r] = "published" => r \in Published
    /\ \A p \in Publisher : publisher[p].acked => publisher[p].at \in Published

(* The first n records of the platform topic need no consumer any more.        *)
Behind(n) == \A i \in 1 .. n : Dealt(topic[i]) \/ i \in missed

(* Every session, displaced or not, is behind records that are dealt with.     *)
SessionKept(c) ==
    /\ consumer[c].at # 0 => Behind(consumer[c].at - 1)
    /\ consumer[c].step # "next" => consumer[c].at \in DOMAIN topic
    /\ consumer[c].step = "done" => Dealt(Record(c))
    /\ consumer[c].step = "begun" /\ consumer[c].seen => state[Record(c)] # "absent"

(* A run stems from a record whose predecessors were dealt with before it.     *)
InTurn(r) == \E i \in DOMAIN topic : topic[i] = r /\ Behind(i - 1)

GroupKept ==
    /\ \A c \in Consumer : SessionKept(c)
    /\ groupOffset # NoOffset => Behind(groupOffset)
    /\ \A r \in Run : state[r] # "absent" => InTurn(r)

IngestIInv ==
    /\ RunsInv /\ BegunOnce /\ IngestTypeOK /\ Unnumbered
    /\ StoredOnce /\ ReadingKept /\ AckedIsPublished /\ GroupKept
    /\ NumberedByTopic

LEMMA InitIngestIInv == IngestInit => IngestIInv
<1> SUFFICES ASSUME IngestInit PROVE IngestIInv
  OBVIOUS
<1>1. RunsInv /\ TypeOK
  BY InitRuns DEF IngestInit, RunsInv
<1>2. BegunOnce /\ Unnumbered /\ NumberedByTopic
  BY DEF IngestInit, Init, BegunOnce, Unnumbered, NumberedByTopic
<1>3. IngestTypeOK
  <2>1. owner \in Consumer
    BY ConsumerType DEF IngestInit
  <2>2. Len(Source) \in Nat /\ inbox \in Seq(Run) /\ Len(inbox) = 0 /\ topic \in Seq(Run) /\ Len(topic) = 0
    BY SourceType DEF IngestInit
  <2>3. publisher \in [Publisher -> [tokens : [Run -> Nat], at : Run \cup {NoRun}, acked : BOOLEAN]]
    BY DEF IngestInit, IdlePublisher
  <2>4. consumer \in [Consumer -> [at : 0 .. Len(topic) + 1, step : {"next", "begun", "done"},
                                  seen : BOOLEAN, lane : Nat]]
    <3> DEFINE Sessions == [at : 0 .. 1, step : {"next", "begun", "done"}, seen : BOOLEAN, lane : Nat]
    <3>0. NoSession \in Sessions
      BY DEF NoSession
    <3>1. NoSession \in Sessions /\ [NoSession EXCEPT !.at = 1] \in Sessions
      BY <3>0
    <3>2. ASSUME NEW c \in Consumer
          PROVE  consumer[c] \in [at : 0 .. Len(topic) + 1, step : {"next", "begun", "done"},
                                  seen : BOOLEAN, lane : Nat]
      BY <2>2, <3>1 DEF IngestInit
    <3> QED BY <3>2 DEF IngestInit
  <2> QED BY <1>1, <2>1, <2>2, <2>3, <2>4, BatchType DEF IngestInit, IngestTypeOK
<1>4. StoredOnce /\ ReadingKept
  BY NoOffsetType DEF IngestInit, StoredOnce, ReadingKept
<1>5. AckedIsPublished /\ GroupKept
  BY DEF IngestInit, Init, AckedIsPublished, IdlePublisher, GroupKept, SessionKept, NoSession, Behind
<1> QED BY <1>1, <1>2, <1>3, <1>4, <1>5 DEF IngestIInv

-------------------------------------------------------------------------------
(* What the steps do to the runs                                              *)

LEMMA RunStepKeepsNumbers == IngestRunStep => [Next]_runVars /\ UNCHANGED sequence
<1>1. IngestRunStep => [Next]_runVars
  BY DEF IngestRunStep, Next, LaneStep
<1>2. ASSUME NEW w \in Worker, WorkerStep(w) PROVE UNCHANGED sequence
  BY <1>2 DEF WorkerStep, AnswerStep, FailOrRetry, SaveRoute, SaveToolPlan, SaveToolResult,
          SaveCandidate, Proceed, RetryLater, FailRun, Abandon, WaitForToolApproval,
          EnsureIntent, PrepareDelivery
<1>3. IngestRunStep => UNCHANGED sequence
  BY <1>2 DEF IngestRunStep, ClaimRun, Claim, ExpireLease, BackoffElapses, SetExecutionControl,
          ToolStep, DeliveryStep, ActionStep, ResumeFromToolApproval, SettleDelivery,
          CompleteAction, FailAction, Become
<1> QED BY <1>1, <1>3

(* The transaction that commits without a conflict inserts a run that is not   *)
(* there: it is Enqueue.                                                       *)
LEMMA CommitEnqueues ==
    ASSUME IngestIInv, NEW c \in Consumer, CommitEnqueue(c)
    PROVE  \/ UNCHANGED runVars
           \/ Record(c) \in Run /\ Enqueue(Record(c)) /\ ~Conflicts(c)
<1>1. consumer[c].at \in DOMAIN topic /\ topic \in Seq(Run)
  BY DEF IngestIInv, GroupKept, SessionKept, CommitEnqueue, Step, IngestTypeOK
<1>2. Record(c) \in Run
  BY <1>1 DEF Record
<1> QED BY <1>2 DEF CommitEnqueue, Conflicts, InsertRun, Enqueue, AllocateSequence

(* A step of the ingestion accepts the record of one consumer, or moves runs   *)
(* that are there, or leaves the runs alone.                                   *)
Accepts(c) == CommitEnqueue(c) /\ Record(c) \in Run /\ Enqueue(Record(c))

LEMMA RunsInIngest ==
    ASSUME IngestIInv, [IngestNext]_allIngestVars
    PROVE  \/ IngestRunStep /\ UNCHANGED ingestVars
           \/ \E c \in Consumer : Accepts(c)
           \/ UNCHANGED runVars
<1>1. ASSUME NEW c \in Consumer, Assign(c) \/ ConsumerStep(c) \/ EndSession(c)
      PROVE  Accepts(c) \/ UNCHANGED runVars
  BY <1>1, CommitEnqueues DEF Assign, ConsumerStep, EndSession, BeginEnqueue, FindRun, Dismiss,
                              MarkAndCommit, Accepts
<1>2. ASSUME NEW p \in Publisher, PublisherStep(p) \/ PublisherDies(p)
      PROVE  UNCHANGED runVars
  BY <1>2 DEF PublisherStep, PublisherDies, ClaimOutbox, Publish, MarkPublished, ReleaseOutbox
<1>3. CASE \/ ReadStep \/ RestartReading
           \/ \E r \in Run : ExpireOutbox(r) \/ OutboxBackoffElapses(r)
           \/ UNCHANGED allIngestVars
  BY <1>3 DEF ReadStep, RestartReading, Ingest, CommitSource, ExpireOutbox, OutboxBackoffElapses,
              allIngestVars
<1> QED BY <1>1, <1>2, <1>3 DEF IngestNext

LEMMA IngestStepOfRuns ==
    ASSUME IngestIInv, [IngestNext]_allIngestVars
    PROVE  [Next]_runVars
BY RunsInIngest, RunStepKeepsNumbers DEF Accepts, Next, LaneStep

(* A run that is there stays, with its number; the rows that are not there yet *)
(* have none.                                                                  *)
LEMMA RowsInIngest ==
    ASSUME IngestIInv, [IngestNext]_allIngestVars
    PROVE  /\ RunsInv' /\ BegunOnce' /\ Unnumbered'
           /\ \A r \in Run : state[r] # "absent" => state'[r] # "absent" /\ sequence'[r] = sequence[r]
           /\ \A r \in Run : state[r] = "absent" /\ state'[r] # "absent" =>
                 \E c \in Consumer : Accepts(c) /\ r = Record(c)
<1>1. RunsInv /\ BegunOnce /\ Unnumbered /\ TypeOK /\ [Next]_runVars
  BY IngestStepOfRuns DEF IngestIInv, RunsInv
<1>2. RunsInv' /\ BegunOnce' /\ TypeOK' /\ GaplessSequence'
  BY <1>1, RunsStep, BegunStep DEF RunsInv
<1>3. \A r \in Run : state[r] # "absent" => state'[r] # "absent" /\ sequence'[r] = sequence[r]
  BY <1>1, PresentStays
<1>4. ASSUME NEW r \in Run, state'[r] # "absent" PROVE sequence'[r] # 0
  <2>1. r \in InLane(LaneOf[r])' /\ LaneOf[r] \in Lane
    BY <1>4, LaneOfType DEF InLane
  <2>2. nextEnqueue'[LaneOf[r]] \in Nat
    BY <1>2, <2>1 DEF TypeOK
  <2> QED BY <1>2, <2>1, <2>2 DEF GaplessSequence
<1>5. ASSUME NEW r \in Run, state[r] = "absent"
      PROVE  \/ state'[r] = "absent" /\ sequence'[r] = 0
             \/ \E c \in Consumer : Accepts(c) /\ r = Record(c)
  <2>1. sequence[r] = 0
    BY <1>1, <1>5 DEF Unnumbered
  <2>2. CASE IngestRunStep
    BY <1>4, <2>1, <2>2, RunStepKeepsNumbers
  <2>3. ASSUME NEW c \in Consumer, Accepts(c), r # Record(c)
        PROVE  state'[r] = "absent" /\ sequence'[r] = 0
    BY <1>1, <1>5, <2>1, <2>3 DEF Accepts, Enqueue, AllocateSequence, TypeOK
  <2>4. CASE UNCHANGED runVars
    BY <1>5, <2>1, <2>4 DEF runVars
  <2> QED BY <2>2, <2>3, <2>4, RunsInIngest
<1>6. ASSUME NEW c \in Consumer, Accepts(c) PROVE state'[Record(c)] # "absent"
  BY <1>1, <1>6 DEF Accepts, Enqueue, TypeOK
<1>7. Unnumbered'
  BY <1>3, <1>4, <1>5, <1>6 DEF Unnumbered
<1> QED BY <1>2, <1>3, <1>5, <1>7

-------------------------------------------------------------------------------
(* Reading the source                                                         *)

(* A sequence without repetitions of what the source has is no longer than it. *)
LEMMA NoLongerThanSource ==
    ASSUME NEW s \in Seq(Run),
           \A i \in DOMAIN s : \E k \in DOMAIN Source : Source[k] = s[i],
           \A i, j \in DOMAIN s : s[i] = s[j] => i = j
    PROVE  Len(s) <= Len(Source)
<1> DEFINE place == [i \in 1 .. Len(s) |-> CHOOSE k \in 1 .. Len(Source) : Source[k] = s[i]]
<1>1. /\ Len(s) \in Nat /\ DOMAIN s = 1 .. Len(s)
      /\ Len(Source) \in Nat /\ DOMAIN Source = 1 .. Len(Source)
  BY SourceType
<1>2. \A i \in 1 .. Len(s) : place[i] \in 1 .. Len(Source) /\ Source[place[i]] = s[i]
  <2>1. \A i \in 1 .. Len(s) : \E k \in 1 .. Len(Source) : Source[k] = s[i]
    BY <1>1
  <2> QED BY <2>1
<1> HIDE DEF place
<1>3. place \in Injection(1 .. Len(s), 1 .. Len(Source))
  <2>1. place \in [1 .. Len(s) -> 1 .. Len(Source)]
    BY <1>2 DEF place
  <2>2. ASSUME NEW i \in 1 .. Len(s), NEW j \in 1 .. Len(s), place[i] = place[j] PROVE i = j
    BY <1>1, <1>2, <2>2
  <2>3. DOMAIN place = 1 .. Len(s)
    BY <2>1
  <2>4. IsInjective(place)
    BY <2>2, <2>3 DEF IsInjective
  <2> QED BY <2>1, <2>4 DEF Injection
<1>4. /\ IsFiniteSet(1 .. Len(Source)) /\ Cardinality(1 .. Len(Source)) = Len(Source)
      /\ Cardinality(1 .. Len(s)) = Len(s)
  <2>1. \A n \in Nat : IsFiniteSet(1 .. n) /\ Cardinality(1 .. n) = n
    <3> TAKE n \in Nat
    <3>1. IsFiniteSet(1 .. n) /\ Cardinality(1 .. n) = IF 1 > n THEN 0 ELSE n - 1 + 1
      BY FS_Interval
    <3> QED BY <3>1
  <2> QED BY <1>1, <2>1
<1>5. Cardinality(1 .. Len(s)) <= Cardinality(1 .. Len(Source))
  BY <1>3, <1>4, FS_Injection
<1> QED BY <1>4, <1>5

LEMMA StoredGrows ==
    ASSUME IngestTypeOK, NEW r \in Run, inbox' = Append(inbox, r)
    PROVE  Stored' = Stored \cup {r}
<1>1. /\ DOMAIN inbox = 1 .. Len(inbox) /\ Len(inbox) \in Nat /\ DOMAIN inbox' = 1 .. Len(inbox) + 1
      /\ \A i \in 1 .. Len(inbox) : inbox'[i] = inbox[i]
      /\ inbox'[Len(inbox) + 1] = r
  BY DEF IngestTypeOK
<1>2. Stored' = {inbox'[i] : i \in 1 .. Len(inbox) + 1} /\ Stored = {inbox[i] : i \in 1 .. Len(inbox)}
  BY <1>1 DEF Stored
<1>3. 1 .. Len(inbox) + 1 = (1 .. Len(inbox)) \cup {Len(inbox) + 1}
  BY <1>1
<1> QED BY <1>1, <1>2, <1>3

(* The steps of the ingress, its session and the inbox.                        *)
LEMMA ReadingStep ==
    ASSUME IngestIInv, [IngestNext]_allIngestVars
    PROVE  /\ StoredOnce' /\ ReadingKept'
           /\ reading' \in [at : 1 .. Len(Source) + 1, stored : BOOLEAN]
           /\ sourceOffset' \in 0 .. Len(Source) \cup {NoOffset}
           /\ unread' \subseteq DOMAIN Source /\ refused' \subseteq DOMAIN Source
           /\ inbox' \in Seq(Run)
<1> DEFINE Types ==
        /\ reading \in [at : 1 .. Len(Source) + 1, stored : BOOLEAN]
        /\ sourceOffset \in 0 .. Len(Source) \cup {NoOffset}
        /\ unread \subseteq DOMAIN Source /\ refused \subseteq DOMAIN Source
        /\ inbox \in Seq(Run)
<1>0. /\ StoredOnce /\ ReadingKept /\ IngestTypeOK /\ Types
      /\ Len(Source) \in Nat /\ DOMAIN Source = 1 .. Len(Source) /\ Source \in Seq(Run)
  BY SourceType DEF IngestIInv, IngestTypeOK
<1>1. CASE UNCHANGED inVars
  BY <1>0, <1>1 DEF inVars, StoredOnce, ReadingKept, Stored
<1>2. CASE Ingest
  <2> DEFINE r == Source[reading.at]
  <2>1. /\ reading.at \in DOMAIN Source /\ r \in Run /\ UNCHANGED <<sourceOffset, unread>>
        /\ reading' = [reading EXCEPT !.stored = TRUE]
    BY <1>0, <1>2 DEF Ingest
  <2>2. /\ reading'.at = reading.at /\ reading'.stored
        /\ reading' \in [at : 1 .. Len(Source) + 1, stored : BOOLEAN] /\ reading.at <= Len(Source)
    <3>1. reading \in [at : 1 .. Len(Source) + 1, stored : BOOLEAN]
      BY <1>0
    <3>2. reading' \in [at : 1 .. Len(Source) + 1, stored : BOOLEAN]
      BY <2>1, <3>1
    <3>3. reading'.at = reading.at /\ reading'.stored
      BY <2>1, <3>1
    <3> QED BY <1>0, <2>1, <3>1, <3>2, <3>3
  <2>3. CASE r \notin Stored /\ inbox' = Append(inbox, r) /\ UNCHANGED refused
    <3>1. Stored' = Stored \cup {r}
      BY <1>0, <2>1, <2>3, StoredGrows
    <3>2. /\ inbox' \in Seq(Run) /\ Len(inbox') = Len(inbox) + 1 /\ Len(inbox) \in Nat
          /\ \A i \in 1 .. Len(inbox) : inbox'[i] = inbox[i]
          /\ inbox'[Len(inbox) + 1] = r
          /\ DOMAIN inbox = 1 .. Len(inbox) /\ DOMAIN inbox' = 1 .. Len(inbox) + 1
      BY <1>0, <2>1, <2>3
    <3>3. \A i \in DOMAIN inbox' : \E k \in DOMAIN Source : Source[k] = inbox'[i]
      BY <1>0, <2>1, <3>2 DEF StoredOnce
    <3>4. \A i, j \in DOMAIN inbox' : inbox'[i] = inbox'[j] => i = j
      <4>1. \A i \in 1 .. Len(inbox) : inbox[i] # r
        BY <2>3, <3>2 DEF Stored
      <4>2. \A i \in DOMAIN inbox' : i \in 1 .. Len(inbox) \/ i = Len(inbox) + 1
        BY <3>2
      <4> QED BY <1>0, <3>2, <4>1, <4>2 DEF StoredOnce
    <3>5. ReadingKept'
      BY <1>0, <2>1, <2>2, <2>3, <3>1 DEF ReadingKept
    <3> QED BY <1>0, <2>1, <2>2, <2>3, <3>2, <3>3, <3>4, <3>5 DEF StoredOnce
  <2>4. CASE UNCHANGED inbox /\ (r \in Stored \/ reading.at \in refused') /\ refused \subseteq refused'
             /\ refused' \subseteq refused \cup {reading.at}
    <3>1. Stored' = Stored
      BY <2>4 DEF Stored
    <3>2. ReadingKept'
      BY <1>0, <2>1, <2>2, <2>4, <3>1 DEF ReadingKept
    <3> QED BY <1>0, <2>1, <2>2, <2>4, <3>2 DEF StoredOnce
  <2> QED BY <1>2, <2>3, <2>4 DEF Ingest
<1>3. CASE CommitSource
  <2>1. /\ reading.stored /\ sourceOffset' = reading.at /\ reading.at <= Len(Source)
        /\ reading' = [at |-> reading.at + 1, stored |-> FALSE]
        /\ UNCHANGED <<unread, refused, inbox>> /\ Stored' = Stored
    BY <1>0, <1>3 DEF CommitSource, ReadingKept, Stored
  <2>2. reading.at \in 1 .. Len(Source)
    BY <1>0, <2>1
  <2>3. \A i \in 1 .. reading.at : Source[i] \in Stored \/ i \in refused \cup unread
    <3>1. CASE sourceOffset = NoOffset
      BY <1>0, <2>1, <2>2, <3>1 DEF ReadingKept
    <3>2. CASE sourceOffset # NoOffset
      BY <1>0, <2>1, <2>2, <3>2 DEF ReadingKept
    <3> QED BY <3>1, <3>2
  <2>4. sourceOffset' # NoOffset
    BY <2>1, <2>2, NoOffsetType
  <2>5. StoredOnce'
    BY <1>0, <2>1 DEF StoredOnce
  <2> QED BY <1>0, <2>1, <2>2, <2>3, <2>4, <2>5 DEF ReadingKept
<1>4. CASE RestartReading
  <2>1. UNCHANGED <<sourceOffset, refused, inbox>> /\ Stored' = Stored /\ StoredOnce'
    BY <1>0, <1>4 DEF RestartReading, StoredOnce, Stored
  <2>2. CASE sourceOffset = NoOffset
    <3> PICK next \in reading.at + 1 .. Len(Source) + 1 :
                reading' = [at |-> next, stored |-> FALSE] /\ unread' = 1 .. next - 1
      BY <1>4, <2>2 DEF RestartReading
    <3> QED BY <1>0, <2>1, <2>2 DEF ReadingKept
  <2>3. CASE sourceOffset # NoOffset
    <3>1. reading' = [at |-> sourceOffset + 1, stored |-> FALSE] /\ UNCHANGED unread
      BY <1>4, <2>3 DEF RestartReading
    <3> QED BY <1>0, <2>1, <2>3, <3>1 DEF ReadingKept
  <2> QED BY <2>2, <2>3
<1>5. ASSUME ~Ingest, ~CommitSource, ~RestartReading PROVE UNCHANGED inVars
  BY <1>5 DEF IngestNext, ReadStep, PublisherStep, PublisherDies, ClaimOutbox, Publish,
       MarkPublished, ReleaseOutbox, ExpireOutbox, OutboxBackoffElapses, Assign, ConsumerStep,
       EndSession, BeginEnqueue, FindRun, CommitEnqueue, Dismiss, MarkAndCommit, ingestVars, allIngestVars
<1> QED BY <1>1, <1>2, <1>3, <1>4, <1>5

-------------------------------------------------------------------------------
(* Publishing                                                                 *)

(* What the topic has stays where it is.                                       *)
LEMMA TopicGrows ==
    ASSUME IngestIInv, [IngestNext]_allIngestVars
    PROVE  /\ topic \in Seq(Run) /\ topic' \in Seq(Run)
           /\ Len(topic) \in Nat /\ Len(topic') \in Nat /\ Len(topic) <= Len(topic')
           /\ DOMAIN topic = 1 .. Len(topic) /\ DOMAIN topic' = 1 .. Len(topic')
           /\ \A i \in 1 .. Len(topic) : topic'[i] = topic[i]
           /\ \A i \in 1 .. Len(topic') : i \in 1 .. Len(topic) \/ i = Len(topic) + 1
           /\ Published \subseteq Published'
           /\ groupVars' = groupVars \/ topic' = topic
           /\ UNCHANGED runVars \/ topic' = topic
<1>1. \/ topic' = topic
      \/ \E r \in Run : topic' = Append(topic, r) /\ UNCHANGED <<runVars, groupVars>>
  BY DEF IngestNext, ReadStep, RestartReading, Ingest, CommitSource, PublisherStep, PublisherDies,
       ClaimOutbox, Publish, MarkPublished, ReleaseOutbox, ExpireOutbox, OutboxBackoffElapses,
       Assign, ConsumerStep, EndSession, BeginEnqueue, FindRun, CommitEnqueue, Dismiss,
       MarkAndCommit, ingestVars, allIngestVars
<1>2. topic \in Seq(Run) /\ DOMAIN topic = 1 .. Len(topic) /\ Len(topic) \in Nat
  BY DEF IngestIInv, IngestTypeOK
<1>3. CASE topic' = topic
  BY <1>2, <1>3 DEF Published
<1>4. ASSUME NEW r \in Run, topic' = Append(topic, r), UNCHANGED <<runVars, groupVars>>
      PROVE  /\ topic' \in Seq(Run) /\ Len(topic') = Len(topic) + 1
             /\ DOMAIN topic' = 1 .. Len(topic) + 1
             /\ \A i \in 1 .. Len(topic) : topic'[i] = topic[i]
  BY <1>2, <1>4
<1>5. ASSUME \A i \in 1 .. Len(topic) : topic'[i] = topic[i], DOMAIN topic' = 1 .. Len(topic) + 1
      PROVE  Published \subseteq Published'
  <2>1. \A i \in DOMAIN topic : i \in DOMAIN topic' /\ topic'[i] = topic[i]
    BY <1>2, <1>5
  <2> QED BY <2>1 DEF Published
<1> QED BY <1>1, <1>2, <1>3, <1>4, <1>5

(* The record that Publish appends is in the topic then.                       *)
LEMMA AppendPublishes ==
    ASSUME IngestTypeOK, NEW r \in Run, topic' = Append(topic, r)
    PROVE  r \in Published'
<1>1. Len(topic) \in Nat /\ DOMAIN topic' = 1 .. Len(topic) + 1 /\ topic'[Len(topic) + 1] = r
  BY DEF IngestTypeOK
<1>2. Len(topic) + 1 \in DOMAIN topic'
  BY <1>1
<1> QED BY <1>1, <1>2 DEF Published

OutboxRows ==
    /\ outbox \in [Run -> {"none", "pending", "publishing", "published"}]
    /\ oAttempts \in [Run -> Nat] /\ oToken \in [Run -> Nat]
    /\ oLeaseValid \in [Run -> BOOLEAN] /\ oBackoff \in [Run -> BOOLEAN]

Publishers ==
    publisher \in [Publisher -> [tokens : [Run -> Nat], at : Run \cup {NoRun}, acked : BOOLEAN]]

LEMMA LeavingBatch ==
    ASSUME OutboxRows, Publishers, AckedIsPublished, UNCHANGED topic,
           NEW p \in Publisher, NEW r \in Run, NEW held \in BOOLEAN,
           NEW st \in {"pending", "published"}, LeaveBatch(p, r, st, held),
           st = "published" => r \in Published
    PROVE  /\ outbox' \in [Run -> {"none", "pending", "publishing", "published"}]
           /\ oToken' \in [Run -> Nat] /\ oLeaseValid' \in [Run -> BOOLEAN]
           /\ Publishers' /\ AckedIsPublished'
<1>1. IdlePublisher \in [tokens : [Run -> Nat], at : Run \cup {NoRun}, acked : BOOLEAN]
      /\ ~IdlePublisher.acked
  BY DEF IdlePublisher
<1> DEFINE left == [IdlePublisher EXCEPT !.tokens = [publisher[p].tokens EXCEPT ![r] = 0]]
<1>2. left \in [tokens : [Run -> Nat], at : Run \cup {NoRun}, acked : BOOLEAN] /\ ~left.acked
  <2>1. [publisher[p].tokens EXCEPT ![r] = 0] \in [Run -> Nat]
    BY DEF Publishers
  <2> QED BY <1>1, <2>1
<1> HIDE DEF left
<1>3. \E next \in {left, IdlePublisher} : publisher' = [publisher EXCEPT ![p] = next]
  BY DEF LeaveBatch, left
<1>4. Publishers' /\ \A q \in Publisher : publisher'[q] = publisher[q] \/ ~publisher'[q].acked
  BY <1>1, <1>2, <1>3 DEF Publishers
<1>5. \A x \in Run : outbox'[x] = outbox[x] \/ (x = r /\ outbox'[x] = st)
  BY DEF LeaveBatch, OutboxRows
<1>6. Published' = Published
  BY DEF Published
<1>7. AckedIsPublished'
  BY <1>4, <1>5, <1>6 DEF AckedIsPublished
<1>8. /\ outbox' \in [Run -> {"none", "pending", "publishing", "published"}]
      /\ oToken' \in [Run -> Nat] /\ oLeaseValid' \in [Run -> BOOLEAN]
  <2>1. CASE held
    <3>1. /\ outbox' = [outbox EXCEPT ![r] = st] /\ oToken' = [oToken EXCEPT ![r] = 0]
          /\ oLeaseValid' = [oLeaseValid EXCEPT ![r] = FALSE]
      BY <2>1 DEF LeaveBatch
    <3>2. st \in {"none", "pending", "publishing", "published"}
      OBVIOUS
    <3> QED BY <3>1, <3>2 DEF OutboxRows
  <2>2. CASE ~held
    BY <2>2 DEF LeaveBatch, OutboxRows
  <2> QED BY <2>1, <2>2
<1> QED BY <1>4, <1>7, <1>8

LEMMA PublishingStep ==
    ASSUME IngestIInv, [IngestNext]_allIngestVars
    PROVE  OutboxRows' /\ Publishers' /\ AckedIsPublished'
<1>0. /\ IngestTypeOK /\ OutboxRows /\ Publishers /\ AckedIsPublished /\ Published \subseteq Published'
      /\ NoRun \notin Run
  BY TopicGrows, NoRunType DEF IngestIInv, IngestTypeOK, OutboxRows, Publishers
<1>1. ASSUME NEW p \in Publisher, ClaimOutbox(p)
      PROVE  OutboxRows' /\ Publishers' /\ AckedIsPublished'
  <2>1. OutboxRows'
    BY <1>0, <1>1 DEF ClaimOutbox, OutboxRows
  <2>2. \A r \in Run : outbox'[r] = outbox[r] \/ outbox'[r] = "publishing"
    BY <1>0, <1>1 DEF ClaimOutbox
  <2>3. [r \in Run |-> IF r \in Oldest THEN oAttempts[r] + 1 ELSE 0] \in [Run -> Nat]
    BY <1>0 DEF OutboxRows
  <2>4. Publishers' /\ \A q \in Publisher : publisher'[q].acked = publisher[q].acked
                                         /\ publisher'[q].at = publisher[q].at
    BY <1>0, <1>1, <2>3 DEF ClaimOutbox, Publishers
  <2> QED BY <1>0, <2>1, <2>2, <2>4 DEF AckedIsPublished
<1>2. ASSUME NEW p \in Publisher, NEW r \in Run, Publish(p, r)
      PROVE  OutboxRows' /\ Publishers' /\ AckedIsPublished'
  <2>1. UNCHANGED outboxVars
    BY <1>2 DEF Publish
  <2>2. PICK acked \in BOOLEAN :
            /\ publisher' = [publisher EXCEPT ![p].at = r, ![p].acked = acked]
            /\ acked => topic' = Append(topic, r)
    BY <1>2 DEF Publish
  <2>3. Publishers' /\ publisher'[p].at = r /\ publisher'[p].acked = acked
                   /\ \A q \in Publisher \ {p} : publisher'[q] = publisher[q]
    BY <1>0, <2>2 DEF Publishers
  <2>4. acked => r \in Published'
    BY <1>0, <2>2, AppendPublishes
  <2> QED BY <1>0, <2>1, <2>3, <2>4 DEF OutboxRows, outboxVars, AckedIsPublished
<1>3. ASSUME NEW p \in Publisher, MarkPublished(p) \/ ReleaseOutbox(p)
      PROVE  OutboxRows' /\ Publishers' /\ AckedIsPublished'
  <2>1. publisher[p].at \in Run /\ UNCHANGED topic
    BY <1>0, <1>3 DEF Publishers, MarkPublished, ReleaseOutbox
  <2> PICK r \in Run : r = publisher[p].at
    BY <2>1
  <2>2. /\ oAttempts' \in [Run -> Nat] /\ oBackoff' \in [Run -> BOOLEAN]
    <3>1. HoldsRow(p, r) \in BOOLEAN
      BY DEF HoldsRow
    <3> QED BY <1>0, <1>3, <3>1 DEF OutboxRows, MarkPublished, ReleaseOutbox
  <2>3. CASE MarkPublished(p)
    <3>1. r \in Published
      BY <1>0, <2>3 DEF MarkPublished, AckedIsPublished
    <3>2. (HoldsRow(p, r) /\ oLeaseValid[r]) \in BOOLEAN
      BY DEF HoldsRow
    <3> QED BY <1>0, <2>1, <2>2, <2>3, <3>1, <3>2, LeavingBatch DEF MarkPublished, OutboxRows
  <2>4. CASE ReleaseOutbox(p)
    <3>1. HoldsRow(p, r) \in BOOLEAN
      BY DEF HoldsRow
    <3> QED BY <1>0, <2>1, <2>2, <2>4, <3>1, LeavingBatch DEF ReleaseOutbox, OutboxRows
  <2> QED BY <1>3, <2>3, <2>4
<1>4. ASSUME NEW p \in Publisher, PublisherDies(p)
      PROVE  OutboxRows' /\ Publishers' /\ AckedIsPublished'
  <2>1. IdlePublisher \in [tokens : [Run -> Nat], at : Run \cup {NoRun}, acked : BOOLEAN]
        /\ ~IdlePublisher.acked
    BY DEF IdlePublisher
  <2> QED BY <1>0, <1>4, <2>1 DEF PublisherDies, OutboxRows, outboxVars, Publishers, AckedIsPublished
<1>5. CASE \E r \in Run : ExpireOutbox(r) \/ OutboxBackoffElapses(r)
  BY <1>0, <1>5 DEF ExpireOutbox, OutboxBackoffElapses, OutboxRows, Publishers, AckedIsPublished
<1>6. CASE Ingest
  <2>1. /\ \A r \in Run : outbox'[r] \in {outbox[r], "pending"}
        /\ outbox' \in [Run -> {"none", "pending", "publishing", "published"}]
    BY <1>0, <1>6 DEF Ingest, OutboxRows
  <2> QED BY <1>0, <1>6, <2>1 DEF Ingest, OutboxRows, Publishers, AckedIsPublished
<1>7. CASE UNCHANGED <<outboxVars, publisher>>
  BY <1>0, <1>7 DEF outboxVars, OutboxRows, Publishers, AckedIsPublished
<1>8. CASE \/ IngestRunStep /\ UNCHANGED ingestVars
           \/ CommitSource \/ RestartReading
           \/ \E c \in Consumer : Assign(c) \/ ConsumerStep(c) \/ EndSession(c)
           \/ UNCHANGED allIngestVars
  BY <1>7, <1>8 DEF CommitSource, RestartReading, Assign, ConsumerStep, EndSession, BeginEnqueue,
       FindRun, CommitEnqueue, Dismiss, MarkAndCommit, ingestVars, allIngestVars
<1> QED BY <1>1, <1>2, <1>3, <1>4, <1>5, <1>6, <1>8 DEF IngestNext, ReadStep, PublisherStep

-------------------------------------------------------------------------------
(* The sessions of the consumers                                              *)

Sessions(n) == [at : 0 .. n + 1, step : {"next", "begun", "done"}, seen : BOOLEAN, lane : Nat]

LEMMA SessionMoves ==
    ASSUME IngestIInv, [IngestNext]_allIngestVars, NEW c \in Consumer
    PROVE  consumer'[c] = consumer[c] \/ Assign(c) \/ ConsumerStep(c) \/ EndSession(c)
<1>0. consumer \in [Consumer -> Sessions(Len(topic))]
  BY DEF IngestIInv, IngestTypeOK, Sessions
<1>1. ASSUME NEW d \in Consumer, Assign(d) \/ ConsumerStep(d) \/ EndSession(d), d # c
      PROVE  consumer'[c] = consumer[c]
  BY <1>0, <1>1 DEF Assign, ConsumerStep, EndSession, BeginEnqueue, FindRun, CommitEnqueue,
                    Dismiss, MarkAndCommit, GoOn
<1>2. CASE UNCHANGED consumer
  BY <1>2
<1>3. CASE \/ IngestRunStep /\ UNCHANGED ingestVars
           \/ ReadStep \/ RestartReading
           \/ \E p \in Publisher : PublisherStep(p) \/ PublisherDies(p)
           \/ \E r \in Run : ExpireOutbox(r) \/ OutboxBackoffElapses(r)
           \/ UNCHANGED allIngestVars
  BY <1>2, <1>3 DEF ReadStep, RestartReading, Ingest, CommitSource, PublisherStep, PublisherDies,
       ClaimOutbox, Publish, MarkPublished, ReleaseOutbox, ExpireOutbox, OutboxBackoffElapses,
       groupVars, ingestVars, allIngestVars
<1> QED BY <1>1, <1>3 DEF IngestNext

(* What has been rejected, and what was missed, remains so.                    *)
LEMMA HistoryGrows ==
    ASSUME IngestIInv, [IngestNext]_allIngestVars
    PROVE  /\ dismissed \subseteq dismissed' /\ dismissed' \subseteq Published'
           /\ missed \subseteq missed' /\ missed' \subseteq DOMAIN topic'
<1>0. /\ dismissed \subseteq Published /\ missed \subseteq DOMAIN topic /\ Published \subseteq Published'
      /\ DOMAIN topic \subseteq DOMAIN topic'
  <2>1. DOMAIN topic \subseteq DOMAIN topic'
    BY TopicGrows
  <2> QED BY <2>1, TopicGrows DEF IngestIInv, IngestTypeOK
<1>1. ASSUME NEW c \in Consumer, Dismiss(c)
      PROVE  dismissed' = dismissed \cup {Record(c)} /\ Record(c) \in Published /\ UNCHANGED missed
  BY <1>1 DEF Dismiss, Step, IngestIInv, GroupKept, SessionKept, Record, Published
<1>2. ASSUME NEW c \in Consumer, Assign(c)
      PROVE  UNCHANGED dismissed /\ missed' \in {missed, DOMAIN topic}
  BY <1>2 DEF Assign
<1>3. CASE UNCHANGED <<dismissed, missed>>
  BY <1>0, <1>3
<1>4. ASSUME ~\E c \in Consumer : Dismiss(c) \/ Assign(c)
      PROVE  UNCHANGED <<dismissed, missed>>
  BY <1>4 DEF IngestNext, ReadStep, RestartReading, Ingest, CommitSource, PublisherStep,
       PublisherDies, ClaimOutbox, Publish, MarkPublished, ReleaseOutbox, ExpireOutbox,
       OutboxBackoffElapses, ConsumerStep, EndSession, BeginEnqueue, FindRun, CommitEnqueue,
       MarkAndCommit, groupVars, ingestVars, allIngestVars
<1> QED BY <1>0, <1>1, <1>2, <1>3, <1>4

LEMMA DealtStays ==
    ASSUME IngestIInv, [IngestNext]_allIngestVars, NEW r \in Run, Dealt(r)
    PROVE  Dealt(r)'
BY RowsInIngest, HistoryGrows DEF Dealt

LEMMA BehindStays ==
    ASSUME IngestIInv, [IngestNext]_allIngestVars, NEW n \in 0 .. Len(topic), Behind(n)
    PROVE  Behind(n)'
<1> SUFFICES ASSUME NEW i \in 1 .. n PROVE Dealt(topic[i])' \/ i \in missed'
  BY DEF Behind
<1>1. i \in 1 .. Len(topic) /\ topic'[i] = topic[i] /\ topic[i] \in Run
  BY TopicGrows
<1>2. CASE i \in missed
  BY <1>2, HistoryGrows
<1>3. CASE Dealt(topic[i])
  BY <1>1, <1>3, DealtStays DEF Dealt
<1> QED BY <1>2, <1>3 DEF Behind

(* A session that does not move keeps what is behind it; so does every move.   *)
LEMMA SessionStep ==
    ASSUME IngestIInv, [IngestNext]_allIngestVars, NEW c \in Consumer
    PROVE  SessionKept(c)' /\ consumer'[c] \in Sessions(Len(topic'))
<1>0. /\ consumer \in [Consumer -> Sessions(Len(topic))] /\ SessionKept(c)
      /\ groupOffset \in 0 .. Len(topic) \cup {NoOffset}
      /\ groupOffset # NoOffset => Behind(groupOffset)
      /\ missed \subseteq DOMAIN topic
      /\ Len(topic) \in Nat /\ Len(topic') \in Nat /\ Len(topic) <= Len(topic')
      /\ DOMAIN topic = 1 .. Len(topic) /\ DOMAIN topic' = 1 .. Len(topic')
      /\ topic \in Seq(Run)
  BY TopicGrows DEF IngestIInv, IngestTypeOK, GroupKept, Sessions
<1>1. NoSession \in Sessions(Len(topic)) /\ NoSession.at = 0 /\ NoSession.step = "next"
  BY <1>0 DEF NoSession, Sessions
<1> HIDE DEF NoSession
<1>2. ASSUME NEW n \in 0 .. Len(topic) + 1,
             consumer'[c] = [NoSession EXCEPT !.at = n], n # 0 => Behind(n - 1)'
      PROVE  SessionKept(c)' /\ consumer'[c] \in Sessions(Len(topic'))
  <2>1. consumer'[c] \in Sessions(Len(topic')) /\ consumer'[c].at = n /\ consumer'[c].step = "next"
    <3>1. [NoSession EXCEPT !.at = n] \in Sessions(Len(topic))
      BY <1>0, <1>1 DEF Sessions
    <3>2. [NoSession EXCEPT !.at = n].at = n /\ [NoSession EXCEPT !.at = n].step = "next"
      BY <1>1 DEF Sessions
    <3>3. Sessions(Len(topic)) \subseteq Sessions(Len(topic'))
      BY <1>0 DEF Sessions
    <3> QED BY <1>2, <3>1, <3>2, <3>3
  <2> QED BY <1>2, <2>1 DEF SessionKept
<1>3. CASE consumer'[c] = consumer[c]
  <2>1. consumer[c].at # 0 => Behind(consumer[c].at - 1)'
    <3> PICK n \in 0 .. Len(topic) + 1 : n = consumer[c].at
      BY <1>0 DEF Sessions
    <3>1. n # 0 => n - 1 \in 0 .. Len(topic) /\ Behind(n - 1)
      BY <1>0 DEF SessionKept
    <3> QED BY <1>3, <3>1, BehindStays
  <2>2. consumer[c].at \in DOMAIN topic =>
            consumer[c].at \in DOMAIN topic' /\ Record(c)' = Record(c) /\ Record(c) \in Run
    BY <1>0, <1>3, TopicGrows DEF Record
  <2>3. consumer[c].step = "done" => Dealt(Record(c))'
    BY <1>0, <1>3, <2>2, DealtStays DEF SessionKept, Dealt
  <2>4. consumer[c].step = "begun" /\ consumer[c].seen => state'[Record(c)'] # "absent"
    BY <1>0, <2>2, RowsInIngest DEF SessionKept
  <2>5. consumer'[c] \in Sessions(Len(topic'))
    BY <1>0, <1>3 DEF Sessions
  <2> QED BY <1>0, <1>3, <2>1, <2>2, <2>3, <2>4, <2>5 DEF SessionKept
<1>4. CASE Assign(c)
  <2> PICK n \in 1 .. Len(topic) + 1 : n = Resume
    BY <1>0 DEF Resume
  <2>1. UNCHANGED topic /\ consumer'[c] = [NoSession EXCEPT !.at = n]
    BY <1>0, <1>4 DEF Assign, GoOn
  <2>2. Behind(n - 1)'
    <3>1. CASE groupOffset = NoOffset
      <4>1. n = Len(topic) + 1 /\ missed' = 1 .. Len(topic)
        BY <1>0, <1>4, <3>1 DEF Assign, Resume
      <4> QED BY <1>0, <4>1 DEF Behind
    <3>2. CASE groupOffset # NoOffset
      <4>1. n - 1 = groupOffset /\ n - 1 \in 0 .. Len(topic)
        BY <1>0, <3>2 DEF Resume
      <4> QED BY <1>0, <3>2, <4>1, BehindStays
    <3> QED BY <3>1, <3>2
  <2> QED BY <1>2, <2>1, <2>2
<1>5. CASE EndSession(c) \/ (CommitEnqueue(c) /\ Conflicts(c))
  <2>1. UNCHANGED topic /\ consumer'[c] = NoSession
    BY <1>0, <1>5 DEF EndSession, CommitEnqueue, GoOn, AfterConflict
  <2> QED BY <1>0, <1>1, <2>1 DEF SessionKept
<1>6. CASE MarkAndCommit(c)
  <2>1. consumer[c].at \in 1 .. Len(topic) /\ consumer[c].step = "done"
    BY <1>0, <1>6 DEF MarkAndCommit, Step, SessionKept
  <2> PICK n \in 1 .. Len(topic) : n = consumer[c].at
    BY <2>1
  <2>2. UNCHANGED topic /\ consumer'[c] = [NoSession EXCEPT !.at = n + 1]
    BY <1>0, <1>6 DEF MarkAndCommit, GoOn
  <2>3. Behind(n - 1) /\ Dealt(topic[n])
    BY <1>0, <2>1 DEF SessionKept, Record
  <2>4. Behind(n)
    BY <1>0, <2>3 DEF Behind
  <2>5. Behind(n)' /\ n + 1 \in 0 .. Len(topic) + 1 /\ n = (n + 1) - 1
    BY <1>0, <2>4, BehindStays
  <2> QED BY <1>2, <2>2, <2>5
<1>7. CASE BeginEnqueue(c)
  <2>1. /\ UNCHANGED <<topic, state>> /\ consumer[c].at \in DOMAIN topic /\ Record(c) \in Run
        /\ Behind(consumer[c].at - 1)
    BY <1>0, <1>7 DEF BeginEnqueue, Step, Sessions, SessionKept, Record, runVars
  <2>2. LaneVersion(Record(c)) \in Nat
    BY <2>1, LaneOfType DEF IngestIInv, RunsInv, TypeOK, LaneVersion
  <2>3. /\ consumer'[c] \in Sessions(Len(topic)) /\ consumer'[c].at = consumer[c].at
        /\ consumer'[c].step = "begun" /\ (consumer'[c].seen <=> state[Record(c)] # "absent")
    BY <1>0, <1>7, <2>2 DEF BeginEnqueue, GoOn, Sessions
  <2>4. Behind(consumer[c].at - 1)' /\ Record(c)' = Record(c)
    <3> PICK n \in 1 .. Len(topic) : n = consumer[c].at
      BY <1>0, <2>1
    <3>1. n - 1 \in 0 .. Len(topic) /\ Behind(n - 1)'
      BY <1>0, <2>1, BehindStays
    <3> QED BY <2>1, <2>3, <3>1 DEF Record
  <2> QED BY <2>1, <2>3, <2>4 DEF SessionKept
<1>8. CASE FindRun(c) \/ (CommitEnqueue(c) /\ ~Conflicts(c)) \/ Dismiss(c)
  <2>1. /\ UNCHANGED topic /\ consumer[c].at \in DOMAIN topic /\ Record(c) \in Run
        /\ consumer'[c] = [consumer[c] EXCEPT !.step = "done"] /\ consumer[c].step = "begun"
        /\ Behind(consumer[c].at - 1)
    BY <1>0, <1>8 DEF FindRun, CommitEnqueue, Dismiss, Step, GoOn, SessionKept, Record
  <2>2. /\ consumer'[c] \in Sessions(Len(topic)) /\ consumer'[c].at = consumer[c].at
        /\ consumer'[c].step = "done"
    BY <1>0, <2>1 DEF Sessions
  <2>3. Behind(consumer[c].at - 1)' /\ Record(c)' = Record(c)
    <3> PICK n \in 1 .. Len(topic) : n = consumer[c].at
      BY <1>0, <2>1
    <3>1. n - 1 \in 0 .. Len(topic) /\ Behind(n - 1)'
      BY <1>0, <2>1, BehindStays
    <3> QED BY <2>1, <2>2, <3>1 DEF Record
  <2>4. Dealt(Record(c))'
    <3>1. CASE FindRun(c)
      BY <1>0, <2>1, <2>3, <3>1, DealtStays DEF FindRun, SessionKept, Dealt
    <3>2. CASE CommitEnqueue(c) /\ ~Conflicts(c)
      <4>1. state'[Record(c)] # "absent"
        BY <2>1, <3>2 DEF CommitEnqueue, Conflicts, InsertRun, IngestIInv, RunsInv, TypeOK
      <4> QED BY <2>3, <4>1 DEF Dealt
    <3>3. CASE Dismiss(c)
      BY <2>3, <3>3 DEF Dismiss, Dealt
    <3> QED BY <1>8, <3>1, <3>2, <3>3
  <2> QED BY <2>1, <2>2, <2>3, <2>4 DEF SessionKept
<1> QED BY <1>3, <1>4, <1>5, <1>6, <1>7, <1>8, SessionMoves DEF ConsumerStep

(* The committed offset, and the records that the runs stem from.              *)
LEMMA GroupStep ==
    ASSUME IngestIInv, [IngestNext]_allIngestVars
    PROVE  /\ GroupKept'
           /\ groupOffset' \in 0 .. Len(topic') \cup {NoOffset}
           /\ owner' \in Consumer
<1>0. /\ groupOffset \in 0 .. Len(topic) \cup {NoOffset} /\ owner \in Consumer
      /\ groupOffset # NoOffset => Behind(groupOffset)
      /\ Len(topic) \in Nat /\ Len(topic') \in Nat /\ Len(topic) <= Len(topic')
      /\ DOMAIN topic = 1 .. Len(topic) /\ DOMAIN topic' = 1 .. Len(topic')
      /\ topic \in Seq(Run) /\ TypeOK
  BY TopicGrows DEF IngestIInv, IngestTypeOK, GroupKept
<1>1. ASSUME NEW c \in Consumer, MarkAndCommit(c)
      PROVE  /\ (groupOffset # NoOffset => Behind(groupOffset))'
             /\ groupOffset' \in 0 .. Len(topic') \cup {NoOffset}
             /\ owner' \in Consumer
  <2>1. /\ consumer[c].at \in 1 .. Len(topic) /\ UNCHANGED <<topic, owner>>
        /\ SessionKept(c) /\ consumer[c].step = "done"
    BY <1>0, <1>1 DEF MarkAndCommit, Step, SessionKept, IngestIInv, GroupKept
  <2> PICK n \in 1 .. Len(topic) : n = consumer[c].at
    BY <2>1
  <2>2. Behind(n - 1) /\ Dealt(topic[n])
    BY <1>0, <2>1 DEF SessionKept, Record
  <2>3. Behind(n)
    BY <1>0, <2>2 DEF Behind
  <2>4. Behind(n)' /\ n \in 0 .. Len(topic)
    BY <1>0, <2>3, BehindStays
  <2>5. \A m \in 0 .. Len(topic) : Behind(m) => Behind(m)'
    BY BehindStays
  <2>6. groupOffset' \in {n, groupOffset}
    BY <1>1 DEF MarkAndCommit, Handled
  <2>7. CASE groupOffset' = n
    BY <1>0, <2>1, <2>4, <2>7
  <2>8. CASE groupOffset' = groupOffset
    BY <1>0, <2>1, <2>5, <2>8
  <2> QED BY <2>6, <2>7, <2>8
<1>2. ASSUME ~\E c \in Consumer : MarkAndCommit(c)
      PROVE  UNCHANGED groupOffset /\ owner' \in Consumer
  BY <1>0, <1>2 DEF IngestNext, ReadStep, RestartReading, Ingest, CommitSource, PublisherStep,
       PublisherDies, ClaimOutbox, Publish, MarkPublished, ReleaseOutbox, ExpireOutbox, Assign,
       OutboxBackoffElapses, ConsumerStep, EndSession, BeginEnqueue, FindRun, CommitEnqueue,
       Dismiss, groupVars, ingestVars, allIngestVars
<1>3. ASSUME NEW r \in Run, state'[r] # "absent" PROVE InTurn(r)'
  <2>1. CASE state[r] # "absent"
    <3> PICK i \in 1 .. Len(topic) : topic[i] = r /\ Behind(i - 1)
      BY <1>0, <2>1 DEF IngestIInv, GroupKept, InTurn
    <3>1. i - 1 \in 0 .. Len(topic) /\ i \in 1 .. Len(topic')
      BY <1>0
    <3>2. Behind(i - 1)' /\ topic'[i] = r
      BY <3>1, BehindStays, TopicGrows
    <3> QED BY <1>0, <3>1, <3>2 DEF InTurn
  <2>2. CASE state[r] = "absent"
    <3> PICK c \in Consumer : Accepts(c) /\ r = Record(c)
      BY <1>3, <2>2, RowsInIngest
    <3>1. /\ consumer[c].at \in 1 .. Len(topic) /\ UNCHANGED topic /\ SessionKept(c)
          /\ topic[consumer[c].at] = r
      BY <1>0 DEF Accepts, CommitEnqueue, Step, SessionKept, IngestIInv, GroupKept, Record
    <3> PICK n \in 1 .. Len(topic) : n = consumer[c].at
      BY <3>1
    <3>2. n - 1 \in 0 .. Len(topic) /\ Behind(n - 1)
      BY <1>0, <3>1 DEF SessionKept
    <3>3. Behind(n - 1)'
      BY <3>2, BehindStays
    <3> QED BY <1>0, <3>1, <3>3 DEF InTurn
  <2> QED BY <2>1, <2>2
<1>4. /\ (groupOffset # NoOffset => Behind(groupOffset))'
      /\ groupOffset' \in 0 .. Len(topic') \cup {NoOffset}
      /\ owner' \in Consumer
  <2>1. \A m \in 0 .. Len(topic) : Behind(m) => Behind(m)'
    BY BehindStays
  <2>2. CASE UNCHANGED groupOffset /\ owner' \in Consumer
    BY <1>0, <2>1, <2>2
  <2> QED BY <1>1, <1>2, <2>2
<1> QED BY <1>3, <1>4, SessionStep DEF GroupKept

-------------------------------------------------------------------------------
(* The numbers                                                                *)

(* A run that is accepted gets the largest number of its lane.                 *)
LEMMA NewestIsLast ==
    ASSUME RunsInv, NEW a \in Run, Enqueue(a), NEW b \in Run, state[b] # "absent",
           LaneOf[a] = LaneOf[b]
    PROVE  sequence'[b] = sequence[b] /\ sequence[b] < sequence'[a]
<1>1. /\ LaneOf[a] \in Lane /\ b \in InLane(LaneOf[a]) /\ a # b
      /\ sequence \in [Run -> Nat] /\ nextEnqueue[LaneOf[a]] \in Nat
  BY LaneOfType DEF InLane, Enqueue, RunsInv, TypeOK
<1>2. sequence[b] \in 1 .. nextEnqueue[LaneOf[a]] - 1
  BY <1>1 DEF RunsInv, GaplessSequence
<1> QED BY <1>1, <1>2 DEF Enqueue, AllocateSequence

LEMMA NumbersStep ==
    ASSUME IngestIInv, [IngestNext]_allIngestVars
    PROVE  NumberedByTopic'
<1> SUFFICES ASSUME NEW a \in Run, NEW b \in Run, LaneOf[a] = LaneOf[b],
                    sequence'[a] # 0, sequence'[a] < sequence'[b],
                    NEW j \in DOMAIN topic', topic'[j] = b
             PROVE  (\E i \in 1 .. j - 1 : topic'[i] = a) \/ b \in dismissed' \/ j \in missed'
  BY DEF NumberedByTopic
<1>0. /\ RunsInv /\ Unnumbered /\ NumberedByTopic /\ Unnumbered' /\ TypeOK' /\ TypeOK
      /\ Len(topic) \in Nat /\ Len(topic') \in Nat /\ Len(topic) <= Len(topic')
      /\ DOMAIN topic = 1 .. Len(topic) /\ DOMAIN topic' = 1 .. Len(topic')
  BY RowsInIngest, TopicGrows DEF IngestIInv, RunsInv
<1>1. /\ state'[a] # "absent" /\ state'[b] # "absent" /\ a # b
      /\ sequence'[a] \in Nat /\ sequence'[b] \in Nat
  <2>1. sequence'[a] \in Nat /\ sequence'[b] \in Nat
    BY <1>0 DEF TypeOK
  <2>2. sequence'[b] # 0 /\ a # b
    BY <2>1
  <2> QED BY <1>0, <2>1, <2>2 DEF Unnumbered
(* the earlier run was there before: a new one has the last number             *)
<1>2. state[a] # "absent"
  <2> SUFFICES ASSUME state[a] = "absent" PROVE FALSE
    OBVIOUS
  <2> PICK c \in Consumer : Accepts(c) /\ a = Record(c)
    BY <1>1, RowsInIngest
  <2>1. Enqueue(a)
    BY DEF Accepts
  <2>2. state[b] # "absent"
    BY <1>0, <1>1, <2>1 DEF Enqueue, TypeOK
  <2>3. sequence'[b] < sequence'[a]
    BY <1>0, <2>1, <2>2, NewestIsLast
  <2> QED BY <1>1, <2>3
<1>3. sequence'[a] = sequence[a] /\ sequence[a] # 0
  BY <1>0, <1>2, RowsInIngest DEF Unnumbered
<1> PICK k \in 1 .. Len(topic) : topic[k] = a /\ Behind(k - 1)
  BY <1>0, <1>2 DEF IngestIInv, GroupKept, InTurn
<1>4. topic'[k] = a
  BY TopicGrows
(* a record published now is behind those of the runs there are                *)
<1>5. CASE j \notin 1 .. Len(topic)
  <2>1. j = Len(topic) + 1
    BY <1>0, <1>5, TopicGrows
  <2>2. k \in 1 .. j - 1
    BY <1>0, <2>1
  <2> QED BY <1>4, <2>2
<1>6. CASE j \in 1 .. Len(topic)
  <2>1. topic[j] = b /\ b \in Run
    BY <1>6, TopicGrows
  <2>2. CASE state[b] # "absent"
    <3>1. sequence[a] < sequence[b]
      BY <1>3, <2>2, RowsInIngest
    <3>2. (\E i \in 1 .. j - 1 : topic[i] = a) \/ b \in dismissed \/ j \in missed
      BY <1>0, <1>3, <1>6, <2>1, <3>1 DEF NumberedByTopic
    <3>3. ASSUME NEW i \in 1 .. j - 1, topic[i] = a PROVE topic'[i] = a
      BY <1>0, <1>6, <3>3, TopicGrows
    <3> QED BY <3>2, <3>3, HistoryGrows
  <2>3. CASE state[b] = "absent"
    <3>1. CASE k < j
      <4>1. k \in 1 .. j - 1
        BY <1>6, <3>1
      <4> QED BY <1>4, <4>1
    <3>2. CASE k = j
      BY <1>1, <2>1, <3>2
    <3>3. CASE k > j
      <4>1. j \in 1 .. k - 1
        BY <1>6, <3>3
      <4>2. Dealt(b) \/ j \in missed
        BY <2>1, <4>1 DEF Behind
      <4> QED BY <2>3, <4>2, HistoryGrows DEF Dealt
    <3> QED BY <1>6, <3>1, <3>2, <3>3
  <2> QED BY <2>2, <2>3
<1> QED BY <1>5, <1>6

-------------------------------------------------------------------------------
(* The theorems                                                               *)

LEMMA IngestIInvStep == IngestIInv /\ [IngestNext]_allIngestVars => IngestIInv'
<1> SUFFICES ASSUME IngestIInv, [IngestNext]_allIngestVars PROVE IngestIInv'
  OBVIOUS
<1>1. RunsInv' /\ BegunOnce' /\ Unnumbered' /\ TypeOK'
  BY RowsInIngest DEF RunsInv
<1>2. Len(inbox') <= Len(Source)
  BY ReadingStep, NoLongerThanSource DEF StoredOnce
<1>3. consumer' \in [Consumer -> Sessions(Len(topic'))]
  <2>1. consumer \in [Consumer -> Sessions(Len(topic))]
    BY DEF IngestIInv, IngestTypeOK, Sessions
  <2>2. consumer' = [c \in Consumer |-> consumer'[c]]
    <3>1. CASE UNCHANGED consumer
      BY <2>1, <3>1
    <3>2. ASSUME NEW c \in Consumer, NEW next, GoOn(c, next)
          PROVE  consumer' = [d \in Consumer |-> consumer'[d]]
      BY <2>1, <3>2 DEF GoOn
    <3>3. ASSUME NEW c \in Consumer, Assign(c) \/ ConsumerStep(c) \/ EndSession(c)
          PROVE  consumer' = [d \in Consumer |-> consumer'[d]]
      BY <3>2, <3>3 DEF Assign, ConsumerStep, EndSession, BeginEnqueue, FindRun, CommitEnqueue,
                        Dismiss, MarkAndCommit
    <3> QED BY <3>1, <3>3
         DEF IngestNext, ReadStep, RestartReading, Ingest, CommitSource, PublisherStep,
             PublisherDies, ClaimOutbox, Publish, MarkPublished, ReleaseOutbox, ExpireOutbox,
             OutboxBackoffElapses, groupVars, ingestVars, allIngestVars
  <2> QED BY <2>2, SessionStep
<1>4. faults' \in 0 .. MaxFaults
  <2>1. faults \in 0 .. MaxFaults /\ MaxFaults \in Nat
    BY BatchType DEF IngestIInv, IngestTypeOK
  <2>2. CASE UNCHANGED faults
    BY <2>1, <2>2
  <2>3. CASE Fault
    BY <2>1, <2>3 DEF Fault
  <2> QED BY <2>2, <2>3
         DEF IngestNext, ReadStep, RestartReading, Ingest, CommitSource, PublisherStep,
       PublisherDies, ClaimOutbox, Publish, MarkPublished, ReleaseOutbox, ExpireOutbox, Assign,
       OutboxBackoffElapses, ConsumerStep, EndSession, BeginEnqueue, FindRun, CommitEnqueue,
       Dismiss, MarkAndCommit, groupVars, ingestVars, allIngestVars
<1>5. topic' \in Seq(Run)
  BY TopicGrows
<1>6. IngestTypeOK'
  BY <1>1, <1>2, <1>3, <1>4, <1>5, ReadingStep, PublishingStep, GroupStep, HistoryGrows
     DEF IngestTypeOK, OutboxRows, Publishers, Sessions
<1> QED BY <1>1, <1>6, ReadingStep, PublishingStep, GroupStep, NumbersStep DEF IngestIInv

(* For every topic, any number of publishers, consumers, repetitions and       *)
(* failures: what is behind an offset is stored, dealt with or rejected, what  *)
(* the outbox calls published is on the topic, and the numbers of a            *)
(* conversation follow the topic.                                              *)
THEOREM IngestCorrect == IngestSpec => []IngestInv
<1>1. IngestIInv => IngestInv
  <2> SUFFICES ASSUME IngestIInv PROVE NothingSkipped
    BY DEF IngestIInv, IngestInv
  <2>1. sourceOffset # NoOffset =>
          \A i \in 1 .. sourceOffset : Source[i] \in Stored \/ i \in refused \cup unread
    BY DEF IngestIInv, ReadingKept
  <2>2. \A r \in Run : state[r] # "absent" => r \in Published
    BY DEF IngestIInv, GroupKept, InTurn, Published
  <2> QED BY <2>1, <2>2 DEF IngestIInv, AckedIsPublished, GroupKept, Behind, NothingSkipped
<1> QED BY <1>1, InitIngestIInv, IngestIInvStep, PTL DEF IngestSpec

(* Whatever two transactions of enqueueTx read and write between each other,   *)
(* what they do to the runs is what one Enqueue after the other would.         *)
THEOREM IngestImplementsRuns == IngestSpec => IngestRefinesRuns
<1>1. IngestInit => Init
  BY DEF IngestInit
<1>2. IngestIInv /\ [IngestNext]_allIngestVars => [Next]_runVars
  BY IngestStepOfRuns
<1>3. IngestSpec => Init /\ [][Next]_runVars
  BY <1>1, <1>2, InitIngestIInv, IngestIInvStep, PTL DEF IngestSpec
<1> QED BY <1>3 DEF IngestRefinesRuns, Spec

(* So with the real consumers in front of them the conversations are still      *)
(* served in order, under valid leases and with nothing taken back, however     *)
(* often a message is consumed and whoever is displaced while enqueueing it.    *)
THEOREM IngestKeepsRuns == IngestSpec => []RunsInv /\ StaleWorkerInert /\ NothingTakenBack /\ ServesInOrder
BY IngestImplementsRuns, RunsCorrect, StaleWorkerHarmless, NothingTakenBackCorrect, ServesInOrderCorrect, PTL
   DEF IngestRefinesRuns

-------------------------------------------------------------------------------
(***************************************************************************)
(* Proofs about ReplyDelivery, for every number of runs, senders and       *)
(* attempts.  In a state that satisfies the invariants of the runs every   *)
(* step of the deliveries is a step of AgentRuns (DeliveryStepOfRuns), so  *)
(* these invariants carry over; the rows, the senders and the channel      *)
(* follow.                                                                 *)
(***************************************************************************)

(* Types                                                                      *)

LEMMA InitDeliveryTypeOK == DeliveryInit => DeliveryTypeOK
<1> SUFFICES ASSUME DeliveryInit PROVE DeliveryTypeOK
  OBVIOUS
<1>1. IdleSender \in Records
  BY DEF IdleSender, Records, Answers
<1>2. 0 \in 0 .. MaxDeliveryAttempts
  BY DeliveryAttemptsType
<1> QED BY <1>1, <1>2, InitTypeOK DEF DeliveryInit, DeliveryTypeOK

(* A sender that works on a delivery has one of Run.                           *)
LEMMA SenderTypes ==
    ASSUME DeliveryTypeOK, NEW s \in Sender, sender[s].run # NoRun
    PROVE  /\ sender[s].run \in Run
           /\ sender[s].token \in Nat
           /\ sender[s].answer \in Answers
BY DEF DeliveryTypeOK, Records

(* What a step on the runs alone leaves alone.                                 *)
LEMMA TypeOfDeliveryRow ==
    ASSUME DeliveryTypeOK, TypeOK', NEW r \in Run,
           \/ \E s \in Sender : ClaimDelivery(s, r)
           \/ FailExhausted(r) \/ ExpireDelivery(r) \/ DeliveryBackoffElapses(r)
    PROVE  DeliveryTypeOK'
<1>1. CASE \E s \in Sender : ClaimDelivery(s, r)
  <2> PICK s \in Sender : ClaimDelivery(s, r)
    BY <1>1
  <2>1. dTries[r] + 1 \in 0 .. MaxDeliveryAttempts
    BY DeliveryAttemptsType DEF ClaimDelivery, TriesLeft, DeliveryTypeOK
  <2>2. [run |-> r, token |-> dTries[r] + 1, answer |-> "none"] \in Records
    BY <2>1 DEF Records, Answers
  <2> QED BY <2>1, <2>2 DEF ClaimDelivery, DeliveryTypeOK
<1>2. CASE FailExhausted(r)
  <2>1. 0 \in 0 .. MaxDeliveryAttempts
    BY DeliveryAttemptsType
  <2> QED BY <1>2, <2>1 DEF FailExhausted, EndLease, DeliveryTypeOK
<1>3. CASE ExpireDelivery(r) \/ DeliveryBackoffElapses(r)
  BY <1>3 DEF ExpireDelivery, DeliveryBackoffElapses, DeliveryTypeOK
<1> QED BY <1>1, <1>2, <1>3

LEMMA TypeOfFinish ==
    ASSUME DeliveryTypeOK, TypeOK', NEW s \in Sender, NEW row \in {"sent", "failed", "uncertain"},
           NEW st, Finish(s, row, st)
    PROVE  DeliveryTypeOK'
<1>1. sender[s].run \in Run /\ IdleSender \in Records /\ 0 \in 0 .. MaxDeliveryAttempts
  BY SenderTypes, DeliveryAttemptsType DEF Finish, HoldsDelivery, IdleSender, Records, Answers
<1> QED BY <1>1 DEF Finish, EndLease, DeliveryTypeOK

LEMMA TypeOfSend ==
    ASSUME DeliveryTypeOK, TypeOK', NEW s \in Sender, Send(s)
    PROVE  DeliveryTypeOK'
<1> PICK answer \in Answers \ {"none"} :
      /\ sender' = [sender EXCEPT ![s].answer = answer]
      /\ posted' \in CASE answer = "accepted" -> {Append(posted, sender[s].run)}
                       [] answer = "uncertain" -> {posted, Append(posted, sender[s].run)}
                       [] OTHER -> {posted}
  BY DEF Send
<1>1. sender[s].run \in Run
  BY SenderTypes DEF Send
<1>2. posted' \in {posted, Append(posted, sender[s].run)}
  BY DEF Answers
<1>3. posted' \in Seq(Run)
  <2>1. posted \in Seq(Run)
    BY DEF DeliveryTypeOK
  <2> QED BY <1>1, <1>2, <2>1, AppendProperties
<1>4. sender' \in [Sender -> Records]
  <2>1. [sender[s] EXCEPT !.answer = answer] \in Records
    BY DEF DeliveryTypeOK, Records
  <2>2. sender' = [sender EXCEPT ![s] = [sender[s] EXCEPT !.answer = answer]]
    OBVIOUS
  <2> QED BY <2>1, <2>2 DEF DeliveryTypeOK
<1> QED BY <1>3, <1>4 DEF Send, rowVars, DeliveryTypeOK

LEMMA TypeOfSenderStep ==
    ASSUME DeliveryTypeOK, TypeOK', NEW s \in Sender, SenderStep(s)
    PROVE  DeliveryTypeOK'
<1>0. IdleSender \in Records
  BY DEF IdleSender, Records, Answers
<1>1. CASE MarkSent(s) \/ MarkPermanent(s) \/ MarkUncertain(s)
  BY <1>1, TypeOfFinish DEF MarkSent, MarkPermanent, MarkUncertain
<1>2. CASE MarkRetry(s)
  <2>1. CASE sender[s].token >= MaxDeliveryAttempts
    BY <1>2, <2>1, TypeOfFinish DEF MarkRetry
  <2>2. CASE ~(sender[s].token >= MaxDeliveryAttempts)
    <3>1. sender[s].run \in Run /\ 0 \in 0 .. MaxDeliveryAttempts
      BY <1>2, <2>2, SenderTypes, DeliveryAttemptsType DEF MarkRetry, HoldsDelivery
    <3> QED BY <1>0, <1>2, <2>2, <3>1 DEF MarkRetry, EndLease, DeliveryTypeOK
  <2> QED BY <2>1, <2>2
<1>3. CASE AbandonSend(s)
  BY <1>0, <1>3 DEF AbandonSend, rowVars, DeliveryTypeOK
<1> QED BY <1>1, <1>2, <1>3, TypeOfSend DEF SenderStep

LEMMA TypeOfDeliveryNext ==
    ASSUME DeliveryTypeOK, TypeOK', [DeliveryNext]_allDeliveryVars
    PROVE  DeliveryTypeOK'
<1>1. CASE UNCHANGED deliveryVars
  BY <1>1 DEF deliveryVars, DeliveryTypeOK
<1>2. ASSUME NEW w \in Worker, PrepareReply(w) PROVE DeliveryTypeOK'
  BY <1>2 DEF PrepareReply, DeliveryTypeOK
<1>3. ASSUME NEW setting \in {"enabled", "paused"}, SetDeliveryControl(setting)
      PROVE  DeliveryTypeOK'
  BY <1>3 DEF SetDeliveryControl, rowVars, DeliveryTypeOK
<1> QED BY <1>1, <1>2, <1>3, TypeOfDeliveryRow, TypeOfSenderStep
        DEF DeliveryNext, TakeDelivery, allDeliveryVars

-------------------------------------------------------------------------------
(* The deliveries implement the runs                                          *)

LEMMA FinishSettles ==
    ASSUME DeliveryTypeOK, NEW s \in Sender, NEW row, NEW st, Finish(s, row, st),
           st \in {"failed", "delivery_unknown",
                   IF action[sender[s].run] THEN "waiting_approval" ELSE "succeeded"}
    PROVE  Next
<1>1. sender[s].run \in Run
  BY SenderTypes DEF Finish, HoldsDelivery
<1>2. SettleDelivery(sender[s].run)
  BY DEF Finish, SettleRun, SettleDelivery, Become
<1> QED BY <1>1, <1>2 DEF Next, DeliveryStep

(* A run that waits for its delivery is the head of its lane: the statement of *)
(* failExhausted that moves the lane conditionally moves it.                   *)
LEMMA ExhaustedSettles ==
    ASSUME RunsInv, NEW r \in Run, FailExhausted(r)
    PROVE  [Next]_runVars
<1>1. CASE state[r] = "delivery_pending"
  <2>1. sequence[r] = nextDispatch[LaneOf[r]]
    BY <1>1, BusyIsHead DEF RunsInv, IsHead
  <2>2. AdvanceLane(r)
    BY <1>1, <2>1, LaneOfType DEF FailExhausted, FailWaitingRun, AdvanceLane, RunsInv, TypeOK
  <2>3. SettleDelivery(r)
    BY <1>1, <2>2 DEF FailExhausted, FailWaitingRun, SettleDelivery, Become
  <2> QED BY <2>3 DEF Next, DeliveryStep
<1>2. CASE state[r] # "delivery_pending"
  BY <1>2 DEF FailExhausted, FailWaitingRun, runVars, progressVars, leaseVars
<1> QED BY <1>1, <1>2

LEMMA DeliveryStepOfRuns ==
    ASSUME RunsInv, DeliveryTypeOK, [DeliveryNext]_allDeliveryVars
    PROVE  [Next]_runVars
<1>1. CASE DeliveryRunStep
  BY <1>1 DEF DeliveryRunStep, Next, WorkerStep
<1>2. ASSUME NEW w \in Worker, PrepareReply(w) PROVE Next
  BY <1>2 DEF PrepareReply, Next, WorkerStep
<1>3. ASSUME NEW s \in Sender, SenderStep(s) PROVE [Next]_runVars
  <2>1. CASE MarkSent(s)
    BY <2>1, FinishSettles DEF MarkSent
  <2>2. CASE MarkPermanent(s)
    BY <2>2, FinishSettles DEF MarkPermanent
  <2>3. CASE MarkUncertain(s)
    BY <2>3, FinishSettles DEF MarkUncertain
  <2>4. CASE MarkRetry(s)
    BY <2>4, FinishSettles DEF MarkRetry
  <2>5. CASE Send(s) \/ AbandonSend(s)
    BY <2>5 DEF Send, AbandonSend
  <2> QED BY <1>3, <2>1, <2>2, <2>3, <2>4, <2>5 DEF SenderStep
<1>4. ASSUME NEW r \in Run, NEW s \in Sender, ClaimDelivery(s, r) PROVE UNCHANGED runVars
  BY <1>4 DEF ClaimDelivery
<1>5. ASSUME NEW r \in Run, ExpireDelivery(r) \/ DeliveryBackoffElapses(r)
      PROVE  UNCHANGED runVars
  BY <1>5 DEF ExpireDelivery, DeliveryBackoffElapses
<1>6. ASSUME NEW setting \in {"enabled", "paused"}, SetDeliveryControl(setting)
      PROVE  UNCHANGED runVars
  BY <1>6 DEF SetDeliveryControl
<1> QED BY <1>1, <1>2, <1>3, <1>4, <1>5, <1>6, ExhaustedSettles
        DEF DeliveryNext, TakeDelivery, allDeliveryVars

(* The two together are inductive.                                             *)
LEMMA DeliveryRunsStep ==
    RunsInv /\ DeliveryTypeOK /\ [DeliveryNext]_allDeliveryVars => RunsInv' /\ DeliveryTypeOK'
<1> SUFFICES ASSUME RunsInv, DeliveryTypeOK, [DeliveryNext]_allDeliveryVars
             PROVE  RunsInv' /\ DeliveryTypeOK'
  OBVIOUS
<1>1. RunsInv'
  BY DeliveryStepOfRuns, RunsStep
<1>2. TypeOK'
  BY <1>1 DEF RunsInv
<1> QED BY <1>1, <1>2, TypeOfDeliveryNext

LEMMA InitDeliveryRuns == DeliveryInit => RunsInv /\ DeliveryTypeOK
BY InitRuns, InitDeliveryTypeOK DEF DeliveryInit

(* Each transaction of the delivery worker settles one run that waits for its  *)
(* delivery, with its lane, or is none of the runs' business: whatever senders *)
(* crash, race or come late, the runs keep what AgentRuns says of them.        *)
THEOREM DeliveryImplementsRuns == DeliverySpec => DeliveryRefinesRuns
<1>1. DeliveryInit => Init
  BY DEF DeliveryInit
<1>2. RunsInv /\ DeliveryTypeOK /\ [DeliveryNext]_allDeliveryVars => [Next]_runVars
  BY DeliveryStepOfRuns
<1>3. DeliverySpec => Init /\ [][Next]_runVars
  BY <1>1, <1>2, InitDeliveryRuns, DeliveryRunsStep, PTL DEF DeliverySpec
<1> QED BY <1>3 DEF DeliveryRefinesRuns, Spec

(* So with the real senders behind them the conversations are still served in   *)
(* order: no late or repeated settlement of a delivery lets the lane skip or    *)
(* repeat a turn.                                                               *)
THEOREM DeliveryKeepsRuns == DeliverySpec => []RunsInv /\ StaleWorkerInert /\ NothingTakenBack /\ ServesInOrder
BY DeliveryImplementsRuns, RunsCorrect, StaleWorkerHarmless, NothingTakenBackCorrect, ServesInOrderCorrect, PTL
   DEF DeliveryRefinesRuns

-------------------------------------------------------------------------------
(* Rows and runs                                                              *)

(* RowMatchesRun, of one run, and what makes it inductive: a reply is prepared *)
(* for a finished answer only, and a lease belongs to a row that is being sent.*)
RowFits(r) ==
    /\ state[r] = "delivery_pending" => delivery[r] \in {"pending", "sending"}
    /\ state[r] = "delivery_unknown" => delivery[r] = "uncertain"
    /\ state[r] = "succeeded" \/ AwaitingAction(r) => delivery[r] = "sent"
    /\ delivery[r] # "none" => state[r] \in Settled \cup {"delivery_pending"}
    /\ delivery[r] # "none" => phase[r] = "finalize"

RowLeased(r) ==
    /\ dToken[r] = IF delivery[r] = "sending" THEN dTries[r] ELSE 0
    /\ dLeaseValid[r] => delivery[r] = "sending"
    /\ delivery[r] = "sending" => dTries[r] > 0
    /\ delivery[r] = "sending" /\ ~dLeaseValid[r] => r \in lapsed

Rows == \A r \in Run : RowFits(r) /\ RowLeased(r)

(* What the steps that leave the deliveries alone may do to a run.             *)
Early(r) == state[r] \in {"absent", "queued", "running", "reply_pending"} \/ AwaitingTool(r)

RunMoves(r) ==
    \/ state'[r] = state[r] /\ phase'[r] = phase[r]
    \/ Early(r) /\ (Early(r)' \/ state'[r] = "failed")
    \/ /\ phase'[r] = phase[r]
       /\ \/ AwaitingAction(r) /\ state'[r] = "succeeded"
          \/ state[r] \notin {"running", "succeeded"} /\ state'[r] = "failed"

LEMMA RunMovesInStep ==
    ASSUME RunsInv, DeliveryRunStep, NEW r \in Run
    PROVE  RunMoves(r)
<1> USE DEF RunMoves, Early, AwaitingTool
<1>0. TypeOK /\ SnapshotCurrent
  BY DEF RunsInv
<1>1. CASE LaneStep
  <2>1. ASSUME NEW x \in Run, Enqueue(x) PROVE RunMoves(r)
    BY <1>0, <2>1 DEF Enqueue, progressVars, TypeOK
  <2>2. ASSUME NEW x \in Run, ClaimRun(x) PROVE RunMoves(r)
    <3> PICK w \in Worker, expired \in SUBSET Expirable : Claim(w, x, expired)
      BY <2>2 DEF ClaimRun
    <3>1. phase'[r] = phase[r]
      BY DEF Claim
    <3>2. CASE r = x
      BY <1>0, <3>2 DEF Claim, Claimable, TypeOK
    <3>3. CASE r # x
      BY <1>0, <3>1, <3>3 DEF Claim, TypeOK
    <3> QED BY <3>2, <3>3
  <2>3. ASSUME NEW x \in Run, ExpireLease(x) \/ BackoffElapses(x) PROVE RunMoves(r)
    BY <2>3 DEF ExpireLease, BackoffElapses, progressVars
  <2>4. ASSUME NEW setting \in {"enabled", "paused"}, SetExecutionControl(setting)
        PROVE  RunMoves(r)
    BY <2>4 DEF SetExecutionControl, progressVars
  <2> QED BY <1>1, <2>1, <2>2, <2>3, <2>4 DEF LaneStep
<1>2. CASE ToolStep \/ ActionStep
  BY <1>0, <1>2 DEF ToolStep, ActionStep, ResumeFromToolApproval, CompleteAction, FailAction,
                    Become, progressVars, TypeOK
<1>3. ASSUME NEW w \in Worker, AnswerStep(w) \/ WaitForToolApproval(w) \/ EnsureIntent(w)
      PROVE  RunMoves(r)
  <2> USE <1>0 DEF TypeOK, HoldsLease
  <2>0. HoldsToken(w) => state[worker[w].run] = "running" /\ worker[w].phase = phase[worker[w].run]
    BY DEF HoldsToken, SnapshotCurrent
  <2>1. CASE \E choice \in Route : SaveRoute(w, choice)
    BY <2>0, <2>1 DEF SaveRoute, Proceed
  <2>2. CASE SaveToolPlan(w) \/ SaveToolResult(w)
    BY <2>0, <2>2 DEF SaveToolPlan, SaveToolResult, Proceed
  <2>3. CASE \E proposes \in BOOLEAN : SaveCandidate(w, proposes)
    BY <2>0, <2>3 DEF SaveCandidate, Proceed
  <2>4. CASE RetryLater(w)
    BY <2>0, <2>4 DEF RetryLater, progressVars
  <2>5. CASE FailRun(w)
    BY <2>0, <2>5 DEF FailRun, progressVars
  <2>6. CASE WaitForToolApproval(w)
    BY <2>0, <2>6 DEF WaitForToolApproval, progressVars
  <2>7. CASE Abandon(w) \/ EnsureIntent(w)
    BY <2>7 DEF Abandon, EnsureIntent, progressVars
  <2> QED BY <1>3, <2>1, <2>2, <2>3, <2>4, <2>5, <2>6, <2>7 DEF AnswerStep, FailOrRetry
<1> QED BY <1>1, <1>2, <1>3 DEF DeliveryRunStep

LEMMA RowsOfRunStep ==
    ASSUME RunsInv, Rows, DeliveryRunStep, UNCHANGED deliveryVars
    PROVE  Rows'
<1> SUFFICES ASSUME NEW r \in Run PROVE RowFits(r)' /\ RowLeased(r)'
  BY DEF Rows
<1>1. RowFits(r) /\ RowLeased(r) /\ RunMoves(r)
  BY RunMovesInStep DEF Rows
<1>2. RowLeased(r)'
  BY <1>1 DEF RowLeased, deliveryVars
<1>3. RowFits(r)'
  BY <1>1 DEF RowFits, RunMoves, Early, AwaitingTool, AwaitingAction, Settled, deliveryVars
<1> QED BY <1>2, <1>3

LEMMA RowsOfFinish ==
    ASSUME RunsInv, DeliveryTypeOK, Rows, NEW s \in Sender, NEW row, NEW st, Finish(s, row, st),
           \/ row = "sent" /\ st = (IF action[sender[s].run] THEN "waiting_approval" ELSE "succeeded")
           \/ row = "failed" /\ st = "failed"
           \/ row = "uncertain" /\ st = "delivery_unknown"
    PROVE  Rows'
<1> DEFINE x == sender[s].run
<1>0. x \in Run /\ TypeOK
  BY SenderTypes DEF Finish, HoldsDelivery, RunsInv
<1>1. /\ delivery[x] = "sending" /\ phase[x] = "finalize"
      /\ state' = [state EXCEPT ![x] = st] /\ UNCHANGED <<phase, dTries, lapsed>>
      /\ delivery' = [delivery EXCEPT ![x] = row]
      /\ dToken' = [dToken EXCEPT ![x] = 0]
      /\ dLeaseValid' = [dLeaseValid EXCEPT ![x] = FALSE]
  BY <1>0 DEF Finish, HoldsDelivery, SettleRun, EndLease, progressVars, Rows, RowFits
<1> SUFFICES ASSUME NEW r \in Run PROVE RowFits(r)' /\ RowLeased(r)'
  BY DEF Rows
<1>2. RowFits(r) /\ RowLeased(r)
  BY DEF Rows
<1>3. RowLeased(r)'
  BY <1>0, <1>1, <1>2 DEF RowLeased, DeliveryTypeOK
<1>4. RowFits(r)'
  BY <1>0, <1>1, <1>2 DEF RowFits, AwaitingAction, Settled, DeliveryTypeOK, TypeOK
<1> QED BY <1>3, <1>4

LEMMA RowsStep ==
    RunsInv /\ DeliveryTypeOK /\ Rows /\ [DeliveryNext]_allDeliveryVars => Rows'
<1> SUFFICES ASSUME RunsInv, DeliveryTypeOK, Rows, [DeliveryNext]_allDeliveryVars PROVE Rows'
  OBVIOUS
<1>0. TypeOK
  BY DEF RunsInv
<1> USE DEF AwaitingAction
<1>1. CASE UNCHANGED allDeliveryVars
  BY <1>1 DEF allDeliveryVars, runVars, deliveryVars, Rows, RowFits, RowLeased
<1>2. ASSUME NEW w \in Worker, PrepareReply(w) PROVE Rows'
  <2> DEFINE x == worker[w].run
  <2>1. /\ x \in Run /\ phase[x] = "finalize" /\ delivery[x] = "none"
        /\ state' = [state EXCEPT ![x] = "delivery_pending"] /\ UNCHANGED phase
        /\ delivery' = [delivery EXCEPT ![x] = "pending"]
        /\ UNCHANGED <<dTries, dToken, dLeaseValid, lapsed>>
    BY <1>0, <1>2, WorkerTypes
       DEF PrepareReply, PrepareDelivery, HoldsLease, HoldsToken, progressVars, RunsInv,
           SnapshotCurrent
  <2> HIDE DEF x
  <2>2. ASSUME NEW r \in Run PROVE RowFits(r)' /\ RowLeased(r)'
    <3>1. RowFits(r) /\ RowLeased(r)
      BY DEF Rows
    <3>2. RowFits(r)'
      BY <1>0, <2>1, <3>1 DEF RowFits, Settled, DeliveryTypeOK, TypeOK
    <3>3. RowLeased(r)'
      BY <1>0, <2>1, <3>1 DEF RowLeased, DeliveryTypeOK
    <3> QED BY <3>2, <3>3
  <2> QED BY <2>2 DEF Rows
<1>3. ASSUME NEW x \in Run, FailExhausted(x) PROVE Rows'
  <2>1. /\ delivery[x] = "sending" /\ UNCHANGED <<phase, dTries, lapsed>>
        /\ delivery' = [delivery EXCEPT ![x] = "failed"]
        /\ dToken' = [dToken EXCEPT ![x] = 0]
        /\ dLeaseValid' = [dLeaseValid EXCEPT ![x] = FALSE]
        /\ \/ state' = state /\ state[x] # "delivery_pending"
           \/ state' = [state EXCEPT ![x] = "failed"]
    BY <1>3 DEF FailExhausted, FailWaitingRun, EndLease, progressVars
  <2>2. ASSUME NEW r \in Run PROVE RowFits(r)' /\ RowLeased(r)'
    <3>1. RowFits(r) /\ RowLeased(r)
      BY DEF Rows
    <3>2. RowFits(r)'
      BY <1>0, <2>1, <3>1 DEF RowFits, Settled, DeliveryTypeOK, TypeOK
    <3>3. RowLeased(r)'
      BY <1>0, <2>1, <3>1 DEF RowLeased, DeliveryTypeOK
    <3> QED BY <3>2, <3>3
  <2> QED BY <2>2 DEF Rows
<1>4. ASSUME NEW s \in Sender, NEW x \in Run, ClaimDelivery(s, x) PROVE Rows'
  <2>1. /\ delivery[x] \in {"pending", "sending"}
        /\ UNCHANGED <<state, phase, lapsed>>
        /\ delivery' = [delivery EXCEPT ![x] = "sending"]
        /\ dTries' = [dTries EXCEPT ![x] = @ + 1]
        /\ dToken' = [dToken EXCEPT ![x] = dTries[x] + 1]
        /\ dLeaseValid' = [dLeaseValid EXCEPT ![x] = TRUE]
    BY <1>4 DEF ClaimDelivery, Sendable, runVars
  <2>2. ASSUME NEW r \in Run PROVE RowFits(r)' /\ RowLeased(r)'
    <3>1. RowFits(r) /\ RowLeased(r) /\ dTries[r] \in Nat
      BY DEF Rows, DeliveryTypeOK
    <3>2. RowFits(r)'
      BY <1>0, <2>1, <3>1 DEF RowFits, Settled, DeliveryTypeOK, TypeOK
    <3>3. RowLeased(r)'
      BY <1>0, <2>1, <3>1 DEF RowLeased, DeliveryTypeOK
    <3> QED BY <3>2, <3>3
  <2> QED BY <2>2 DEF Rows
<1>5. ASSUME NEW x \in Run, ExpireDelivery(x) PROVE Rows'
  BY <1>5 DEF ExpireDelivery, runVars, Rows, RowFits, RowLeased, DeliveryTypeOK
<1>6. ASSUME NEW x \in Run, DeliveryBackoffElapses(x) PROVE Rows'
  BY <1>6 DEF DeliveryBackoffElapses, runVars, Rows, RowFits, RowLeased
<1>7. ASSUME NEW setting \in {"enabled", "paused"}, SetDeliveryControl(setting) PROVE Rows'
  BY <1>7 DEF SetDeliveryControl, runVars, rowVars, Rows, RowFits, RowLeased
<1>8. ASSUME NEW s \in Sender, SenderStep(s) PROVE Rows'
  <2>1. CASE Send(s) \/ AbandonSend(s)
    BY <2>1 DEF Send, AbandonSend, runVars, rowVars, Rows, RowFits, RowLeased
  <2>2. CASE MarkSent(s)
    BY <2>2, RowsOfFinish DEF MarkSent
  <2>3. CASE MarkPermanent(s)
    BY <2>3, RowsOfFinish DEF MarkPermanent
  <2>4. CASE MarkUncertain(s)
    BY <2>4, RowsOfFinish DEF MarkUncertain
  <2>5. CASE MarkRetry(s)
    <3>1. CASE sender[s].token >= MaxDeliveryAttempts
      BY <2>5, <3>1, RowsOfFinish DEF MarkRetry
    <3>2. CASE ~(sender[s].token >= MaxDeliveryAttempts)
      <4> DEFINE x == sender[s].run
      <4>1. /\ x \in Run /\ delivery[x] = "sending"
            /\ UNCHANGED <<state, phase, dTries, lapsed>>
            /\ delivery' = [delivery EXCEPT ![x] = "pending"]
            /\ dToken' = [dToken EXCEPT ![x] = 0]
            /\ dLeaseValid' = [dLeaseValid EXCEPT ![x] = FALSE]
        BY <2>5, <3>2, SenderTypes DEF MarkRetry, HoldsDelivery, EndLease, runVars
      <4> HIDE DEF x
      <4>2. ASSUME NEW r \in Run PROVE RowFits(r)' /\ RowLeased(r)'
        <5>1. RowFits(r) /\ RowLeased(r)
          BY DEF Rows
        <5>2. RowFits(r)'
          BY <1>0, <4>1, <5>1 DEF RowFits, Settled, DeliveryTypeOK, TypeOK
        <5>3. RowLeased(r)'
          BY <1>0, <4>1, <5>1 DEF RowLeased, DeliveryTypeOK
        <5> QED BY <5>2, <5>3
      <4> QED BY <4>2 DEF Rows
    <3> QED BY <3>1, <3>2
  <2> QED BY <1>8, <2>1, <2>2, <2>3, <2>4, <2>5 DEF SenderStep
<1> QED BY <1>1, <1>2, <1>3, <1>4, <1>5, <1>6, <1>7, <1>8, RowsOfRunStep
        DEF DeliveryNext, TakeDelivery

-------------------------------------------------------------------------------
(* Senders and the channel                                                    *)

(* A sender has the number of a claim of its row, which no other sender has,   *)
(* and as long as the lease of the row never ran out it is the latest.         *)
SenderFits(s) ==
    /\ sender[s].token \in 1 .. dTries[sender[s].run]
    /\ delivery[sender[s].run] # "none"
    /\ \A z \in Sender : z # s /\ sender[z].run = sender[s].run => sender[z].token # sender[s].token
    /\ sender[s].run \notin lapsed => HoldsDelivery(s)
    /\ sender[s].answer = "accepted" => PostedFor(sender[s].run)

Senders == \A s \in Sender : sender[s].run # NoRun => SenderFits(s)

(* A reply whose lease never ran out is posted at most once, and once it is    *)
(* posted the one sender that has it knows that it may be.                     *)
Once(r) ==
    /\ \A i, j \in DOMAIN posted : posted[i] = r /\ posted[j] = r => i = j
    /\ PostedFor(r) => /\ delivery[r] # "pending"
                       /\ \A s \in Sender : sender[s].run = r =>
                             sender[s].answer \in {"accepted", "uncertain"}

Unrepeated == \A r \in Run \ lapsed : Once(r)

Channel == SentWasPosted /\ RepliesInOrder

DeliveryIInv == RunsInv /\ DeliveryTypeOK /\ Rows /\ Senders /\ Channel /\ Unrepeated

(* The steps by kind, as the rows, the senders and the channel see them.       *)
Unseen == UNCHANGED <<delivery, dTries, dToken, sender, posted, lapsed>>

Appears(r) ==
    /\ delivery[r] = "none"
    /\ delivery' = [delivery EXCEPT ![r] = "pending"]
    /\ UNCHANGED <<dTries, dToken, sender, posted, lapsed>>

Lapses(r) == lapsed' = lapsed \cup {r} /\ UNCHANGED <<delivery, dTries, dToken, sender, posted>>

GivesUp(r) ==
    /\ delivery[r] = "sending" /\ r \in lapsed
    /\ delivery' = [delivery EXCEPT ![r] = "failed"]
    /\ dToken' = [dToken EXCEPT ![r] = 0]
    /\ UNCHANGED <<dTries, sender, posted, lapsed>>

Drops(s) ==
    /\ sender' = [sender EXCEPT ![s] = IdleSender]
    /\ UNCHANGED <<delivery, dTries, dToken, posted, lapsed>>

(* The row that sender s holds goes to the state row, and s is done.           *)
WritesOutcome(s, row) ==
    /\ HoldsDelivery(s)
    /\ \/ row = "sent" /\ sender[s].answer = "accepted" /\ state[sender[s].run] = "delivery_pending"
       \/ row \in {"failed", "uncertain"}
       \/ row = "pending" /\ sender[s].answer = "retryable"
    /\ delivery' = [delivery EXCEPT ![sender[s].run] = row]
    /\ dToken' = [dToken EXCEPT ![sender[s].run] = 0]
    /\ sender' = [sender EXCEPT ![s] = IdleSender]
    /\ UNCHANGED <<dTries, posted, lapsed>>

LEMMA DeliveryStepKinds ==
    ASSUME DeliveryTypeOK, Rows, [DeliveryNext]_allDeliveryVars
    PROVE  \/ Unseen
           \/ \E w \in Worker : PrepareReply(w) /\ worker[w].run \in Run /\ Appears(worker[w].run)
           \/ \E r \in Run : GivesUp(r) \/ Lapses(r)
           \/ \E r \in Run, s \in Sender : ClaimDelivery(s, r)
           \/ \E s \in Sender : Send(s) \/ Drops(s)
           \/ \E s \in Sender, row \in {"sent", "failed", "uncertain", "pending"} : WritesOutcome(s, row)
<1>1. CASE UNCHANGED deliveryVars
  BY <1>1 DEF deliveryVars, Unseen
<1>2. ASSUME NEW w \in Worker, PrepareReply(w)
      PROVE  worker[w].run \in Run /\ Appears(worker[w].run)
  BY <1>2, WorkerTypes DEF PrepareReply, PrepareDelivery, HoldsLease, HoldsToken, Appears,
                           DeliveryTypeOK
<1>3. ASSUME NEW r \in Run, FailExhausted(r) PROVE GivesUp(r)
  BY <1>3 DEF FailExhausted, EndLease, GivesUp, Rows, RowLeased
<1>4. ASSUME NEW r \in Run, ExpireDelivery(r) PROVE Lapses(r)
  BY <1>4 DEF ExpireDelivery, Lapses
<1>5. ASSUME NEW r \in Run, DeliveryBackoffElapses(r) PROVE Unseen
  BY <1>5 DEF DeliveryBackoffElapses, Unseen
<1>6. ASSUME NEW setting \in {"enabled", "paused"}, SetDeliveryControl(setting) PROVE Unseen
  BY <1>6 DEF SetDeliveryControl, rowVars, Unseen
<1>7. ASSUME NEW s \in Sender, AbandonSend(s) PROVE Drops(s)
  BY <1>7 DEF AbandonSend, rowVars, Drops
<1>8. ASSUME NEW s \in Sender, MarkSent(s) \/ MarkPermanent(s) \/ MarkUncertain(s) \/ MarkRetry(s)
      PROVE  \E row \in {"sent", "failed", "uncertain", "pending"} : WritesOutcome(s, row)
  <2>1. CASE MarkSent(s)
    BY <2>1 DEF MarkSent, Accepted, Finish, SettleRun, EndLease, WritesOutcome
  <2>2. CASE MarkPermanent(s)
    BY <2>2 DEF MarkPermanent, Finish, EndLease, WritesOutcome
  <2>3. CASE MarkUncertain(s)
    BY <2>3 DEF MarkUncertain, Finish, EndLease, WritesOutcome
  <2>4. CASE MarkRetry(s)
    BY <2>4 DEF MarkRetry, Retryable, Finish, EndLease, WritesOutcome
  <2> QED BY <1>8, <2>1, <2>2, <2>3, <2>4
<1> QED BY <1>1, <1>2, <1>3, <1>4, <1>5, <1>6, <1>7, <1>8
        DEF DeliveryNext, TakeDelivery, SenderStep, allDeliveryVars

LEMMA SendersStep ==
    ASSUME DeliveryTypeOK, DeliveryTypeOK', Rows, Senders, [DeliveryNext]_allDeliveryVars
    PROVE  Senders'
<1> USE DEF Senders, SenderFits, HoldsDelivery, PostedFor
<1>0. NoRun \notin Run /\ IdleSender.run = NoRun
  BY NoRunType DEF IdleSender
<1>1. CASE Unseen
  BY <1>1 DEF Unseen
<1>2. ASSUME NEW r \in Run, Appears(r) PROVE Senders'
  BY <1>2, SenderTypes DEF Appears, DeliveryTypeOK
<1>3. ASSUME NEW r \in Run, GivesUp(r) PROVE Senders'
  BY <1>3, SenderTypes DEF GivesUp, DeliveryTypeOK
<1>4. ASSUME NEW r \in Run, Lapses(r) PROVE Senders'
  BY <1>4 DEF Lapses
<1>5. ASSUME NEW s \in Sender, Drops(s) PROVE Senders'
  BY <1>0, <1>5 DEF Drops, DeliveryTypeOK
<1>6. ASSUME NEW s \in Sender, NEW row \in {"sent", "failed", "uncertain", "pending"},
             WritesOutcome(s, row)
      PROVE  Senders'
  <2> DEFINE x == sender[s].run
  <2>1. /\ x \in Run /\ delivery[x] = "sending" /\ dToken[x] = sender[s].token
        /\ delivery' = [delivery EXCEPT ![x] = row]
        /\ dToken' = [dToken EXCEPT ![x] = 0]
        /\ sender' = [sender EXCEPT ![s] = IdleSender]
        /\ UNCHANGED <<dTries, posted, lapsed>>
    BY <1>6, SenderTypes DEF WritesOutcome
  <2>2. ASSUME NEW z \in Sender, sender'[z].run # NoRun PROVE SenderFits(z)'
    <3>1. z # s /\ sender'[z] = sender[z] /\ SenderFits(z) /\ sender[z].run \in Run
      BY <1>0, <2>1, <2>2, SenderTypes DEF DeliveryTypeOK
    <3>2. \A y \in Sender : sender'[y] = sender[y] \/ sender'[y].run = NoRun
      BY <1>0, <2>1 DEF DeliveryTypeOK
    <3>3. CASE sender[z].run = x
      <4>1. sender[z].token # sender[s].token
        BY <2>1, <3>1, <3>3, SenderTypes
      <4>2. x \in lapsed
        BY <2>1, <3>1, <3>3, <4>1
      <4>3. delivery'[x] # "none"
        BY <2>1 DEF DeliveryTypeOK
      <4> QED BY <2>1, <2>2, <3>1, <3>2, <3>3, <4>2, <4>3
    <3>4. CASE sender[z].run # x
      BY <2>1, <2>2, <3>1, <3>2, <3>4 DEF DeliveryTypeOK
    <3> QED BY <3>3, <3>4
  <2> QED BY <2>2
<1>7. ASSUME NEW r \in Run, NEW s \in Sender, ClaimDelivery(s, r) PROVE Senders'
  <2>1. /\ delivery[r] = "pending" \/ (delivery[r] = "sending" /\ ~dLeaseValid[r])
        /\ delivery' = [delivery EXCEPT ![r] = "sending"]
        /\ dTries' = [dTries EXCEPT ![r] = @ + 1]
        /\ dToken' = [dToken EXCEPT ![r] = dTries[r] + 1]
        /\ sender' = [sender EXCEPT ![s] = [run |-> r, token |-> dTries[r] + 1, answer |-> "none"]]
        /\ UNCHANGED <<posted, lapsed>>
        /\ dTries[r] \in Nat
    BY <1>7 DEF ClaimDelivery, Sendable, DeliveryTypeOK
  <2>2. ASSUME NEW z \in Sender, sender'[z].run # NoRun PROVE SenderFits(z)'
    <3>1. CASE z = s
      <4>1. sender'[s].run = r /\ sender'[s].token = dTries[r] + 1 /\ sender'[s].answer = "none"
        BY <2>1 DEF DeliveryTypeOK
      <4>2. dTries'[r] = dTries[r] + 1 /\ dToken'[r] = dTries[r] + 1 /\ delivery'[r] = "sending"
        BY <2>1 DEF DeliveryTypeOK
      <4>3. \A y \in Sender : y # s /\ sender'[y].run = r => sender'[y].token # dTries[r] + 1
        BY <1>0, <2>1 DEF DeliveryTypeOK
      <4> QED BY <1>0, <2>1, <3>1, <4>1, <4>2, <4>3
    <3>2. CASE z # s
      <4>1. sender'[z] = sender[z] /\ SenderFits(z) /\ sender[z].run \in Run
        BY <2>1, <2>2, <3>2, SenderTypes DEF DeliveryTypeOK
      <4>2. CASE sender[z].run = r
        <5>1. r \in lapsed
          <6>1. ~(delivery[r] = "sending" /\ ~dLeaseValid[r] /\ r \notin lapsed)
            BY DEF Rows, RowLeased
          <6>2. r \notin lapsed => delivery[r] = "sending"
            BY <4>1, <4>2
          <6> QED BY <2>1, <6>1, <6>2
        <5>2. \A y \in Sender : y # z /\ sender'[y].run = r => sender'[y].token # sender[z].token
          BY <1>0, <2>1, <4>1, <4>2 DEF DeliveryTypeOK
        <5> QED BY <2>1, <4>1, <4>2, <5>1, <5>2 DEF DeliveryTypeOK
      <4>3. CASE sender[z].run # r
        <5>1. \A y \in Sender : y # z /\ sender'[y].run = sender[z].run =>
                 sender'[y].token # sender[z].token
          BY <2>1, <4>1, <4>3 DEF DeliveryTypeOK
        <5> QED BY <2>1, <4>1, <4>3, <5>1 DEF DeliveryTypeOK
      <4> QED BY <4>2, <4>3
    <3> QED BY <3>1, <3>2
  <2> QED BY <2>2
<1>8. ASSUME NEW s \in Sender, Send(s) PROVE Senders'
  <2> DEFINE x == sender[s].run
  <2>1. x \in Run /\ posted \in Seq(Run) /\ sender \in [Sender -> Records]
    BY <1>8, SenderTypes DEF Send, DeliveryTypeOK
  <2> PICK answer \in Answers \ {"none"} :
        /\ sender' = [sender EXCEPT ![s].answer = answer]
        /\ posted' \in CASE answer = "accepted" -> {Append(posted, x)}
                         [] answer = "uncertain" -> {posted, Append(posted, x)}
                         [] OTHER -> {posted}
    BY <1>8 DEF Send
  <2>2. UNCHANGED <<delivery, dTries, dToken, lapsed>>
    BY <1>8 DEF Send, rowVars
  <2>3. \A z \in Sender : /\ sender'[z].run = sender[z].run /\ sender'[z].token = sender[z].token
                          /\ z # s => sender'[z] = sender[z]
    BY <2>1 DEF Records
  <2>4. sender'[s].answer = answer
    BY <2>1 DEF Records
  <2>5. \A r \in Run : PostedFor(r) => PostedFor(r)'
    BY <2>1, AppendProperties DEF Answers
  <2>6. answer = "accepted" => \E i \in DOMAIN posted' : posted'[i] = x
    BY <2>1, AppendProperties
  <2>7. ASSUME NEW z \in Sender, sender'[z].run # NoRun PROVE SenderFits(z)'
    <3>1. sender[z].run \in Run /\ SenderFits(z)
      BY <2>3, <2>7, SenderTypes
    <3>2. sender'[z].answer = "accepted" =>
             \E i \in DOMAIN posted' : posted'[i] = sender'[z].run
      <4>1. CASE z = s
        BY <2>3, <2>4, <2>6, <4>1
      <4>2. CASE z # s
        BY <2>3, <2>5, <3>1, <4>2
      <4> QED BY <4>1, <4>2
    <3> QED BY <2>2, <2>3, <3>1, <3>2
  <2> QED BY <2>7
<1> QED BY <1>1, <1>2, <1>3, <1>4, <1>5, <1>6, <1>7, <1>8, DeliveryStepKinds

(* What one call to the channel does to the replies it has posted.             *)
LEMMA SendPosts ==
    ASSUME DeliveryTypeOK, NEW s \in Sender, Send(s)
    PROVE  /\ sender[s].run \in Run /\ sender[s].answer = "none"
           /\ UNCHANGED <<runVars, delivery, lapsed>>
           /\ \A z \in Sender : sender'[z].run = sender[z].run
           /\ \A z \in Sender \ {s} : sender'[z] = sender[z]
           /\ \/ posted' = posted
              \/ /\ posted' = Append(posted, sender[s].run)
                 /\ sender'[s].answer \in {"accepted", "uncertain"}
<1> PICK answer \in Answers \ {"none"} :
      /\ sender' = [sender EXCEPT ![s].answer = answer]
      /\ posted' \in CASE answer = "accepted" -> {Append(posted, sender[s].run)}
                       [] answer = "uncertain" -> {posted, Append(posted, sender[s].run)}
                       [] OTHER -> {posted}
  BY DEF Send
<1>1. /\ \A z \in Sender : sender'[z].run = sender[z].run
      /\ \A z \in Sender \ {s} : sender'[z] = sender[z]
      /\ sender'[s].answer = answer
  BY DEF DeliveryTypeOK, Records
<1>2. \/ posted' = posted
      \/ posted' = Append(posted, sender[s].run) /\ answer \in {"accepted", "uncertain"}
  BY DEF Answers
<1> QED BY <1>1, <1>2, SenderTypes DEF Send, rowVars

LEMMA ChannelStep ==
    ASSUME RunsInv, DeliveryTypeOK, Rows, Senders, Channel, [Next]_runVars, [DeliveryNext]_allDeliveryVars
    PROVE  Channel'
<1> USE DEF SentWasPosted, PostedFor
(* a run with a delivery keeps its number                                      *)
<1>0. \A r \in Run : delivery[r] # "none" => sequence'[r] = sequence[r]
  <2>1. \A r \in Run : delivery[r] # "none" => state[r] # "absent"
    BY DEF Rows, RowFits, Settled
  <2>2. ASSUME NEW r \in Run, Enqueue(r) PROVE \A x \in Run \ {r} : sequence'[x] = sequence[x]
    BY <2>2 DEF Enqueue, AllocateSequence, RunsInv, TypeOK
  <2>3. (\A r \in Run : ~Enqueue(r)) => UNCHANGED sequence
    BY OthersPassAtMostOne DEF RunsInv, PassesAtMostOne
  <2> QED BY <2>1, <2>2, <2>3 DEF Enqueue
<1>1. SentWasPosted /\ RepliesInOrder
  BY DEF Channel
<1>2. posted \in Seq(Run) /\ \A j \in DOMAIN posted : posted[j] \in Run /\ delivery[posted[j]] # "none"
  BY <1>1 DEF DeliveryTypeOK
(* neither a row becomes "sent" nor a reply is posted                          *)
<1>3. ASSUME UNCHANGED posted,
             \A r \in Run : /\ delivery'[r] = "sent" => delivery[r] = "sent"
                            /\ delivery[r] # "none" => delivery'[r] # "none"
      PROVE  Channel'
  <2>1. SentWasPosted'
    BY <1>1, <1>3
  <2>2. RepliesInOrder'
    BY <1>0, <1>1, <1>2, <1>3 DEF RepliesInOrder
  <2> QED BY <2>1, <2>2 DEF Channel
<1>4. CASE Unseen
  BY <1>3, <1>4 DEF Unseen
<1>5. ASSUME NEW r \in Run, Appears(r) \/ GivesUp(r) \/ Lapses(r) PROVE Channel'
  BY <1>3, <1>5 DEF Appears, GivesUp, Lapses, DeliveryTypeOK
<1>6. ASSUME NEW r \in Run, NEW s \in Sender, ClaimDelivery(s, r) PROVE Channel'
  BY <1>3, <1>6 DEF ClaimDelivery, DeliveryTypeOK
<1>7. ASSUME NEW s \in Sender, Drops(s) PROVE Channel'
  BY <1>3, <1>7 DEF Drops
<1>8. ASSUME NEW s \in Sender, NEW row \in {"sent", "failed", "uncertain", "pending"},
             WritesOutcome(s, row)
      PROVE  Channel'
  <2> DEFINE x == sender[s].run
  <2>1. /\ x \in Run /\ delivery[x] = "sending" /\ UNCHANGED <<posted, lapsed>>
        /\ delivery' = [delivery EXCEPT ![x] = row]
    BY <1>8, SenderTypes DEF WritesOutcome, HoldsDelivery
  <2>2. CASE row # "sent"
    BY <1>3, <2>1, <2>2 DEF DeliveryTypeOK
  <2>3. CASE row = "sent"
    <3>1. /\ sender[s].answer = "accepted" /\ state[x] = "delivery_pending" /\ x # NoRun
      BY <1>8, <2>1, <2>3, NoRunType DEF WritesOutcome
    <3>2. PostedFor(x)
      BY <3>1 DEF Senders, SenderFits
    (* no later reply of the conversation has been posted: its run is not even prepared *)
    <3>3. ASSUME NEW late \in Run, LaneOf[late] = LaneOf[x], delivery[late] # "none"
          PROVE  ~(sequence[x] < sequence[late])
      <4>1. IsHead(x)
        BY <2>1, <3>1, BusyIsHead DEF RunsInv
      <4>2. state[late] # "absent" /\ phase[late] = "finalize"
        BY <3>3 DEF Rows, RowFits, Settled
      <4>3. ~(sequence[late] > nextDispatch[LaneOf[late]])
        BY <4>2 DEF RunsInv, OneTurnAtATime
      <4>4. sequence[late] \in Nat /\ nextDispatch[LaneOf[late]] \in Nat
        BY LaneOfType DEF RunsInv, TypeOK
      <4> QED BY <3>3, <4>1, <4>3, <4>4 DEF IsHead
    <3>4. SentWasPosted'
      BY <1>1, <2>1, <3>2 DEF DeliveryTypeOK
    <3>5. RepliesInOrder'
      <4> SUFFICES ASSUME NEW early \in Run, NEW late \in Run,
                          LaneOf[early] = LaneOf[late], delivery'[early] = "sent",
                          NEW j \in DOMAIN posted, posted[j] = late, sequence'[early] < sequence'[late]
                   PROVE  \E i \in 1 .. j - 1 : posted[i] = early
        BY <2>1 DEF RepliesInOrder
      <4>1. delivery[late] # "none" /\ delivery[early] # "none"
        BY <1>2, <2>1 DEF DeliveryTypeOK
      <4>2. sequence[early] < sequence[late]
        BY <1>0, <4>1
      <4>3. early # x
        BY <3>3, <4>1, <4>2
      <4>4. delivery[early] = "sent"
        BY <2>1, <4>3 DEF DeliveryTypeOK
      <4> QED BY <1>1, <4>2, <4>4 DEF RepliesInOrder
    <3> QED BY <3>4, <3>5 DEF Channel
  <2> QED BY <2>2, <2>3
<1>9. ASSUME NEW s \in Sender, Send(s) PROVE Channel'
  <2> DEFINE x == sender[s].run
  <2>1. /\ x \in Run /\ UNCHANGED <<runVars, delivery>> /\ delivery[x] # "none"
        /\ posted' = posted \/ posted' = Append(posted, x)
    <3>1. delivery[x] # "none"
      BY <1>9, NoRunType, SendPosts DEF Senders, SenderFits
    <3> QED BY <1>9, <3>1, SendPosts
  <2>2. CASE posted' = posted
    BY <1>3, <2>1, <2>2
  <2>3. CASE posted' = Append(posted, x)
    <3> DEFINE n == Len(posted)
    <3>1. /\ n \in Nat /\ DOMAIN posted = 1 .. n /\ DOMAIN posted' = 1 .. n + 1
          /\ \A i \in 1 .. n : posted'[i] = posted[i]
          /\ posted'[n + 1] = x
      BY <1>2, <2>1, <2>3, AppendProperties
    <3> HIDE DEF n, x
    <3>2. SentWasPosted'
      BY <1>1, <2>1, <3>1
    <3>3. RepliesInOrder'
      <4> SUFFICES ASSUME NEW early \in Run, NEW late \in Run,
                          LaneOf[early] = LaneOf[late], delivery[early] = "sent",
                          NEW j \in 1 .. n + 1, posted'[j] = late, sequence[early] < sequence[late]
                   PROVE  \E i \in 1 .. j - 1 : posted'[i] = early
        BY <2>1, <3>1 DEF RepliesInOrder, runVars
      <4>1. CASE j \in 1 .. n
        <5>1. posted[j] = late
          BY <3>1, <4>1
        <5>2. PICK i \in 1 .. j - 1 : posted[i] = early
          BY <1>1, <3>1, <4>1, <5>1 DEF RepliesInOrder
        <5> QED BY <3>1, <4>1, <5>2
      <4>2. CASE j = n + 1
        <5>1. PICK i \in 1 .. n : posted[i] = early
          BY <1>1, <3>1
        <5> QED BY <3>1, <4>2, <5>1
      <4> QED BY <3>1, <4>1, <4>2
    <3> QED BY <3>2, <3>3 DEF Channel
  <2> QED BY <2>1, <2>2, <2>3
<1> QED BY <1>4, <1>5, <1>6, <1>7, <1>8, <1>9, DeliveryStepKinds

LEMMA UnrepeatedStep ==
    ASSUME DeliveryTypeOK, Rows, Senders, SentWasPosted, Unrepeated, [DeliveryNext]_allDeliveryVars
    PROVE  Unrepeated'
<1> USE DEF PostedFor
<1>0. IdleSender.run = NoRun /\ NoRun \notin Run
  BY NoRunType DEF IdleSender
<1>1. CASE Unseen
  BY <1>1 DEF Unseen, Unrepeated, Once
<1>2. ASSUME NEW r \in Run, Appears(r) PROVE Unrepeated'
  <2>1. ~PostedFor(r)
    BY <1>2 DEF Appears, SentWasPosted
  <2> QED BY <1>2, <2>1 DEF Appears, Unrepeated, Once, DeliveryTypeOK
<1>3. ASSUME NEW r \in Run, GivesUp(r) \/ Lapses(r) PROVE Unrepeated'
  BY <1>3 DEF GivesUp, Lapses, Unrepeated, Once, DeliveryTypeOK
<1>4. ASSUME NEW s \in Sender, Drops(s) PROVE Unrepeated'
  BY <1>0, <1>4 DEF Drops, Unrepeated, Once, DeliveryTypeOK
<1>5. ASSUME NEW r \in Run, NEW s \in Sender, ClaimDelivery(s, r) PROVE Unrepeated'
  <2>1. /\ delivery' = [delivery EXCEPT ![r] = "sending"]
        /\ sender' = [sender EXCEPT ![s] = [run |-> r, token |-> dTries[r] + 1, answer |-> "none"]]
        /\ UNCHANGED <<posted, lapsed>>
        /\ delivery[r] = "pending" \/ r \in lapsed
    BY <1>5 DEF ClaimDelivery, Sendable, Rows, RowLeased
  <2>2. r \notin lapsed => ~PostedFor(r)
    BY <2>1 DEF Unrepeated, Once
  <2>3. ASSUME NEW x \in Run \ lapsed PROVE Once(x)'
    <3>1. Once(x)
      BY DEF Unrepeated
    <3>2. CASE x = r
      BY <2>1, <2>2, <2>3, <3>1, <3>2 DEF Once
    <3>3. CASE x # r
      BY <2>1, <3>1, <3>3 DEF Once, DeliveryTypeOK
    <3> QED BY <3>2, <3>3
  <2> QED BY <2>1, <2>3 DEF Unrepeated
<1>6. ASSUME NEW s \in Sender, NEW row \in {"sent", "failed", "uncertain", "pending"},
             WritesOutcome(s, row)
      PROVE  Unrepeated'
  <2> DEFINE x == sender[s].run
  <2>1. /\ x \in Run /\ UNCHANGED <<posted, lapsed>>
        /\ delivery' = [delivery EXCEPT ![x] = row]
        /\ sender' = [sender EXCEPT ![s] = IdleSender]
        /\ row = "pending" => sender[s].answer = "retryable"
    BY <1>6, SenderTypes DEF WritesOutcome, HoldsDelivery
  <2>2. row = "pending" /\ x \notin lapsed => ~PostedFor(x)
    BY <2>1 DEF Unrepeated, Once
  <2>3. ASSUME NEW y \in Run \ lapsed PROVE Once(y)'
    <3>1. Once(y)
      BY DEF Unrepeated
    <3>2. \A z \in Sender : sender'[z].run = y => sender'[z] = sender[z]
      BY <1>0, <2>1 DEF DeliveryTypeOK
    <3>3. PostedFor(y) => delivery'[y] # "pending"
      <4>1. CASE y = x
        BY <2>1, <2>2, <2>3, <4>1 DEF DeliveryTypeOK
      <4>2. CASE y # x
        BY <2>1, <3>1, <4>2 DEF Once, DeliveryTypeOK
      <4> QED BY <4>1, <4>2
    <3> QED BY <2>1, <3>1, <3>2, <3>3 DEF Once
  <2> QED BY <2>1, <2>3 DEF Unrepeated
<1>7. ASSUME NEW s \in Sender, Send(s) PROVE Unrepeated'
  <2> DEFINE x == sender[s].run
  <2>1. /\ x \in Run /\ sender[s].answer = "none" /\ UNCHANGED <<delivery, lapsed>>
        /\ \A z \in Sender : sender'[z].run = sender[z].run
        /\ \A z \in Sender \ {s} : sender'[z] = sender[z]
        /\ \/ posted' = posted
           \/ posted' = Append(posted, x) /\ sender'[s].answer \in {"accepted", "uncertain"}
    BY <1>7, SendPosts
  (* until its lease lapses the sender is the only one that has the delivery *)
  <2>2. x \notin lapsed =>
          /\ delivery[x] = "sending" /\ ~PostedFor(x)
          /\ \A z \in Sender \ {s} : sender[z].run # x
    <3>1. x \notin lapsed => HoldsDelivery(s)
      BY <1>0, <2>1 DEF Senders, SenderFits
    <3>2. x \notin lapsed => ~PostedFor(x)
      BY <2>1 DEF Unrepeated, Once
    <3>3. ASSUME x \notin lapsed, NEW z \in Sender \ {s}, sender[z].run = x PROVE FALSE
      <4>1. HoldsDelivery(z) /\ sender[z].token # sender[s].token
        BY <1>0, <2>1, <3>3 DEF Senders, SenderFits
      <4> QED BY <3>1, <3>3, <4>1 DEF HoldsDelivery
    <3> QED BY <3>1, <3>2, <3>3 DEF HoldsDelivery
  <2>3. ASSUME NEW y \in Run \ lapsed PROVE Once(y)'
    <3>1. Once(y)
      BY DEF Unrepeated
    <3>2. CASE posted' = posted
      <4>1. y = x => ~PostedFor(y)
        BY <2>2, <2>3
      <4> QED BY <2>1, <3>1, <3>2, <4>1 DEF Once
    <3>3. CASE posted' = Append(posted, x) /\ sender'[s].answer \in {"accepted", "uncertain"}
      <4> DEFINE n == Len(posted)
      <4>1. /\ n \in Nat /\ DOMAIN posted = 1 .. n /\ DOMAIN posted' = 1 .. n + 1
            /\ \A i \in 1 .. n : posted'[i] = posted[i]
            /\ posted'[n + 1] = x
        BY <2>1, <3>3, AppendProperties DEF DeliveryTypeOK
      <4> HIDE DEF n
      <4>2. CASE y = x
        BY <2>1, <2>2, <2>3, <3>1, <3>3, <4>1, <4>2 DEF Once
      <4>3. CASE y # x
        BY <2>1, <3>1, <4>1, <4>3 DEF Once
      <4> QED BY <4>2, <4>3
    <3> QED BY <2>1, <3>2, <3>3
  <2> QED BY <2>1, <2>3 DEF Unrepeated
<1> QED BY <1>1, <1>2, <1>3, <1>4, <1>5, <1>6, <1>7, DeliveryStepKinds

-------------------------------------------------------------------------------
(* The theorems                                                               *)

LEMMA InitDeliveryIInv == DeliveryInit => DeliveryIInv
<1> SUFFICES ASSUME DeliveryInit PROVE DeliveryIInv
  OBVIOUS
<1>1. RunsInv /\ DeliveryTypeOK
  BY InitDeliveryRuns
<1>2. posted = <<>> /\ \A r \in Run : delivery[r] = "none" /\ state[r] = "absent"
  BY DEF DeliveryInit, Init
<1>3. Rows
  BY <1>2 DEF DeliveryInit, Init, Rows, RowFits, RowLeased, AwaitingAction
<1>4. Senders
  BY DEF DeliveryInit, IdleSender, Senders
<1>5. Channel /\ Unrepeated
  BY <1>2 DEF Channel, SentWasPosted, RepliesInOrder, PostedFor, Unrepeated, Once
<1> QED BY <1>1, <1>3, <1>4, <1>5 DEF DeliveryIInv

LEMMA DeliveryIInvStep == DeliveryIInv /\ [DeliveryNext]_allDeliveryVars => DeliveryIInv'
<1> SUFFICES ASSUME DeliveryIInv, [DeliveryNext]_allDeliveryVars PROVE DeliveryIInv'
  OBVIOUS
<1>1. RunsInv /\ DeliveryTypeOK /\ Rows /\ Senders /\ Channel /\ SentWasPosted /\ Unrepeated
  BY DEF DeliveryIInv, Channel
<1>2. RunsInv' /\ DeliveryTypeOK' /\ [Next]_runVars
  BY <1>1, DeliveryRunsStep, DeliveryStepOfRuns
<1> QED BY <1>1, <1>2, RowsStep, SendersStep, ChannelStep, UnrepeatedStep DEF DeliveryIInv

(* For any number of runs, senders and attempts: a delivery, its run and its   *)
(* lane agree, what counts as sent was posted, and the replies of a            *)
(* conversation that count as sent appear in its order.                        *)
THEOREM DeliveryCorrect == DeliverySpec => []DeliveryInv
<1>1. DeliveryIInv => DeliveryInv
  BY DEF DeliveryIInv, DeliveryInv, Channel, Rows, RowFits, RowMatchesRun
<1> QED BY <1>1, InitDeliveryIInv, DeliveryIInvStep, PTL DEF DeliverySpec

(* A reply is posted a second time only after the lease of its delivery has run*)
(* out: a retry after a rejection and an uncertain answer repeat nothing.      *)
THEOREM NoBlindRepeatCorrect == DeliverySpec => []NoBlindRepeat
<1>1. DeliveryIInv => NoBlindRepeat
  <2> SUFFICES ASSUME DeliveryIInv, NEW i \in DOMAIN posted, NEW j \in DOMAIN posted,
                      i # j, posted[i] = posted[j], posted[i] \notin lapsed
               PROVE  FALSE
    BY DEF NoBlindRepeat
  <2>1. posted[i] \in Run \ lapsed
    BY DEF DeliveryIInv, DeliveryTypeOK
  <2> QED BY <2>1 DEF DeliveryIInv, Unrepeated, Once
<1> QED BY <1>1, InitDeliveryIInv, DeliveryIInvStep, PTL DEF DeliverySpec

RowFinal(r) ==
    delivery[r] \in {"sent", "failed", "uncertain"} =>
        delivery'[r] = delivery[r] /\ dTries'[r] = dTries[r]

LEMMA RowFinalInStep ==
    ASSUME DeliveryTypeOK, Rows, [DeliveryNext]_allDeliveryVars, NEW r \in Run
    PROVE  RowFinal(r)
<1> USE DEF RowFinal
<1>1. CASE Unseen
  BY <1>1 DEF Unseen
<1>2. ASSUME NEW x \in Run, Appears(x) \/ GivesUp(x) \/ Lapses(x) PROVE RowFinal(r)
  BY <1>2 DEF Appears, GivesUp, Lapses, DeliveryTypeOK
<1>3. ASSUME NEW x \in Run, NEW s \in Sender, ClaimDelivery(s, x) PROVE RowFinal(r)
  BY <1>3 DEF ClaimDelivery, Sendable, DeliveryTypeOK
<1>4. ASSUME NEW s \in Sender, Drops(s) \/ Send(s) PROVE RowFinal(r)
  BY <1>4 DEF Drops, Send, rowVars
<1>5. ASSUME NEW s \in Sender, NEW row \in {"sent", "failed", "uncertain", "pending"},
             WritesOutcome(s, row)
      PROVE  RowFinal(r)
  BY <1>5, SenderTypes DEF WritesOutcome, HoldsDelivery, DeliveryTypeOK
<1> QED BY <1>1, <1>2, <1>3, <1>4, <1>5, DeliveryStepKinds

(* A recorded outcome stays, whatever a late sender still tries to record, and *)
(* the delivery is never attempted again.                                      *)
THEOREM OutcomeFinalCorrect == DeliverySpec => OutcomeFinal
<1>1. DeliveryIInv /\ [DeliveryNext]_allDeliveryVars => [\A r \in Run : RowFinal(r)]_allDeliveryVars
  BY RowFinalInStep DEF DeliveryIInv
<1>2. DeliverySpec => [][\A r \in Run : RowFinal(r)]_allDeliveryVars
  BY <1>1, InitDeliveryIInv, DeliveryIInvStep, PTL DEF DeliverySpec
<1> QED BY <1>2 DEF OutcomeFinal, RowFinal
===============================================================================
