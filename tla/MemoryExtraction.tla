--------------------------- MODULE MemoryExtraction ---------------------------
(***************************************************************************)
(* What is written to memory and what is read from it: the extraction of   *)
(* facts from delivered runs (extraction_store.go, extraction_worker.go),  *)
(* proposals for a group and their review (group_review.go), deletions by  *)
(* a member, what an operator writes into a group's memory by hand, which  *)
(* nobody reviews (group-memory-admin), and the facts that runs are given  *)
(* and exposures record (store.go, and loadMemory of agent/worker.go), all *)
(* over the event log of MemoryLog.                                        *)
(*                                                                         *)
(* Backoff delays are left out: a job that waits may be taken at any time, *)
(* and the order of claims is any.                                         *)
(***************************************************************************)
EXTENDS MemoryLog, Integers, FiniteSets

CONSTANTS
    Job,           \* runs that are delivered, each with at most one extraction
    InGroup,       \* jobs of runs in the group
    WithAction,    \* jobs of runs whose reply asks for an action to be approved
    ExtractedOf,   \* job: what the model may find, sequences of distinct keys
    Worker,        \* extraction workers
    Reviewer,      \* members reviewing proposals
    Deletion,      \* requests of the member to delete a fact
    Command,       \* idempotency keys an operator makes up for commands
    Run,           \* runs that are answered from memory
    ReadsOf,       \* run: the streams it reads
    MaxAttempts,   \* of a job, for each phase, and of a run
    Nobody, NoJob, \* not a worker, not a job
    MaxFaults      \* bound: crashes, failed calls and leases lost by slow workers

Personal == "personal"
Group == "group"

ASSUME StreamsType == Stream = {Personal, Group}
ASSUME JobsType ==
    InGroup \subseteq Job /\ WithAction \subseteq Job /\ ExtractedOf \in [Job -> SUBSET Seq(FactKey)]
ASSUME RunsType == ReadsOf \in [Run -> {{Personal}, {Personal, Group}}]
ASSUME BoundsType == MaxAttempts \in Nat \ {0} /\ MaxFaults \in Nat
ASSUME NamesType == Nobody \notin Worker /\ NoJob \notin Job

VARIABLES
    delivered,  \* runs with a delivered reply
    actionFailed, \* delivered runs that have failed since, with their action
    job,        \* memory.extraction_jobs
    worker,     \* worker: the job as claimed, and the facts it has yet to append
    proposal,   \* job, key: state of the proposal for the group
    reviewer,   \* reviewer: the proposal as read, and the decision
    approvers,  \* history: proposals some reviewer decided to approve
    deletion,   \* request: the fact key it found, and whether it was answered
    exposed,    \* run: ordinal of each fact exposed to it
    feedback,   \* exposures with feedback
    reader,     \* run: the attempt in progress, and the facts it was given
    faults

workVars == <<delivered, actionFailed, job, worker>>
reviewVars == <<proposal, reviewer, approvers>>
readVars == <<exposed, feedback, reader>>
vars == <<logVars, workVars, reviewVars, deletion, readVars, faults>>

NewJob == [state |-> "pending", model |-> 0, projection |-> 0, holder |-> Nobody,
           leaseValid |-> FALSE, facts |-> <<>>]
Idle == [job |-> NoJob, phase |-> "none", left |-> <<>>, proposed |-> FALSE]
Away == [job |-> NoJob, factKey |-> NoFactKey, decision |-> "none", appended |-> FALSE]
Fact == Stream \X FactKey
NotRunning == [step |-> "waiting", attempts |-> 0, given |-> <<>>]

Leased == {"extracting", "projecting"}
Ended == {"succeeded", "failed"}

JobKey(j, k) == <<"extraction", j, k>>
ProposalKey(j, k) == <<"proposal", j, k>>
DeletionKey(d) == <<"deletion", d>>
OperatorKey(o) == <<"operator", o>>
AllKeys == {JobKey(j, k) : j \in Job, k \in FactKey} \cup {ProposalKey(j, k) : j \in Job, k \in FactKey}
           \cup {DeletionKey(d) : d \in Deletion} \cup {OperatorKey(o) : o \in Command}
ASSUME KeysType == EventKey = AllKeys

WorkTypeOK ==
    /\ delivered \subseteq Job /\ actionFailed \subseteq delivered
    /\ job \in [Job -> [state : {"none", "pending", "projection_pending"} \cup Leased \cup Ended,
                        model : 0 .. MaxAttempts, projection : 0 .. MaxAttempts,
                        holder : Worker \cup {Nobody}, leaseValid : BOOLEAN, facts : Seq(FactKey)]]
    /\ worker \in [Worker -> [job : Job \cup {NoJob}, phase : {"none"} \cup Leased, left : Seq(FactKey),
                              proposed : BOOLEAN]]
    /\ proposal \in [Job -> [FactKey -> {"none", "pending", "approved", "rejected"}]]
    /\ reviewer \in [Reviewer -> [job : Job \cup {NoJob}, factKey : FactKey \cup {NoFactKey},
                                  decision : {"none", "approved", "rejected"}, appended : BOOLEAN]]
    /\ approvers \subseteq Job \X FactKey
    /\ deletion \in [Deletion -> [factKey : FactKey \cup {NoFactKey}, reading : BOOLEAN, answered : BOOLEAN]]
    /\ exposed \in [Run -> [Fact -> Nat \cup {-1}]]
    /\ feedback \subseteq Run \X Fact
    /\ reader \in [Run -> [step : {"waiting", "given", "recorded", "answered", "failed"},
                           attempts : 0 .. MaxAttempts, given : Seq(Fact)]]
    /\ faults \in 0 .. MaxFaults

Init ==
    /\ LogInit
    /\ delivered = {} /\ actionFailed = {}
    /\ job = [j \in Job |-> [NewJob EXCEPT !.state = "none"]]
    /\ worker = [w \in Worker |-> Idle]
    /\ proposal = [j \in Job |-> [k \in FactKey |-> "none"]]
    /\ reviewer = [v \in Reviewer |-> Away]
    /\ approvers = {}
    /\ deletion = [d \in Deletion |-> [factKey |-> NoFactKey, reading |-> FALSE, answered |-> FALSE]]
    /\ exposed = [r \in Run |-> [f \in Fact |-> -1]]
    /\ feedback = {}
    /\ reader = [r \in Run |-> NotRunning]
    /\ faults = 0

Fault == faults < MaxFaults /\ faults' = faults + 1

-------------------------------------------------------------------------------
(* Extraction jobs                                                            *)

Deliver(j) ==
    /\ j \notin delivered
    /\ delivered' = delivered \cup {j}
    /\ UNCHANGED <<logVars, actionFailed, job, worker, reviewVars, deletion, readVars, faults>>

(* A run that is delivered and waits for its action is failed by the executor  *)
(* that has used up its attempts; a success changes nothing here.              *)
ActionFails(j) ==
    /\ j \in WithAction \cap (delivered \ actionFailed)
    /\ actionFailed' = actionFailed \cup {j}
    /\ UNCHANGED <<logVars, delivered, job, worker, reviewVars, deletion, readVars, faults>>

(* The run has to be succeeded, or waiting for its action, at the poll.        *)
EnqueueDelivered(j) ==
    /\ j \in delivered \ actionFailed /\ job[j].state = "none"
    /\ job' = [job EXCEPT ![j] = NewJob]
    /\ UNCHANGED <<logVars, delivered, actionFailed, worker, reviewVars, deletion, readVars, faults>>

Free(row) == [row EXCEPT !.holder = Nobody, !.leaseValid = FALSE]
(* Fault: the sweep forgets the second phase.                                   *)
FailExhaustedModels(rows) == [j \in Job |->
    IF rows[j].state = "extracting" /\ ~rows[j].leaseValid /\ rows[j].model >= MaxAttempts
    THEN [Free(rows[j]) EXCEPT !.state = "failed"]
    ELSE rows[j]]
FailExhausted(rows) == [j \in Job |->
    IF /\ ~rows[j].leaseValid
       /\ \/ rows[j].state = "extracting" /\ rows[j].model >= MaxAttempts
          \/ rows[j].state = "projecting" /\ rows[j].projection >= MaxAttempts
    THEN [Free(rows[j]) EXCEPT !.state = "failed"]
    ELSE rows[j]]

ToExtract(row) == /\ row.model < MaxAttempts
                  /\ row.state = "pending" \/ (row.state = "extracting" /\ ~row.leaseValid)
ToProject(row) == /\ row.projection < MaxAttempts
                  /\ row.state = "projection_pending" \/ (row.state = "projecting" /\ ~row.leaseValid)
Candidates(rows) == {j \in Job : ToExtract(rows[j]) \/ ToProject(rows[j])}
Claimed(row, w) ==
    IF ToProject(row)
    THEN [row EXCEPT !.state = "projecting", !.projection = @ + 1, !.holder = w, !.leaseValid = TRUE]
    ELSE [row EXCEPT !.state = "extracting", !.model = @ + 1, !.holder = w, !.leaseValid = TRUE]

Claim(w) ==
    /\ worker[w] = Idle
    /\ LET swept == FailExhausted(job) IN
       \/ \E j \in Candidates(swept) :
             /\ job' = [swept EXCEPT ![j] = Claimed(@, w)]
             /\ worker' = [worker EXCEPT ![w] = [job |-> j, phase |-> job'[j].state, left |-> job'[j].facts,
                                                 proposed |-> FALSE]]
       \/ /\ Candidates(swept) = {} /\ swept # job
          /\ job' = swept /\ UNCHANGED worker
    /\ UNCHANGED <<logVars, delivered, actionFailed, reviewVars, deletion, readVars, faults>>

HoldsJob(w) == job[worker[w].job].state = worker[w].phase /\ job[worker[w].job].holder = w

(* The rows after Retry; what happens without the lease is nothing.            *)
Retried(w) ==
    LET row == job[worker[w].job]
        last == IF worker[w].phase = "projecting" THEN row.projection >= MaxAttempts
                ELSE row.model >= MaxAttempts
        next == IF last THEN "failed"
                ELSE IF worker[w].phase = "projecting" THEN "projection_pending" ELSE "pending"
    IN IF HoldsJob(w) THEN [job EXCEPT ![worker[w].job] = [Free(@) EXCEPT !.state = next]] ELSE job

Quit(w) == worker' = [worker EXCEPT ![w] = Idle]

(* A result that can not be saved, the lease being lost, is dropped.           *)
SaveResult(w) ==
    /\ worker[w].phase = "extracting"
    /\ \E found \in ExtractedOf[worker[w].job] :
          job' = IF HoldsJob(w)
                 THEN [job EXCEPT ![worker[w].job] =
                           [Free(@) EXCEPT !.state = "projection_pending", !.facts = found]]
                 ELSE job
    /\ Quit(w)
    /\ UNCHANGED <<logVars, delivered, actionFailed, reviewVars, deletion, readVars, faults>>

(* One transaction for each fact, without a look at the lease.                 *)
AppendFact(w) ==
    /\ worker[w].phase = "projecting" /\ worker[w].job \notin InGroup /\ worker[w].left # <<>>
    /\ AppendEvent(Personal, Upsert(Head(worker[w].left), JobKey(worker[w].job, Head(worker[w].left))))
    /\ worker' = [worker EXCEPT ![w].left = Tail(@)]
    /\ UNCHANGED <<delivered, actionFailed, job, reviewVars, deletion, readVars, faults>>

(* All proposals of the job in one transaction; those there already stay.      *)
SaveGroupProposals(w) ==
    /\ worker[w].phase = "projecting" /\ worker[w].job \in InGroup /\ ~worker[w].proposed
    /\ LET found == {worker[w].left[i] : i \in 1 .. Len(worker[w].left)} IN
       proposal' = [proposal EXCEPT ![worker[w].job] = [k \in FactKey |->
                        IF k \in found /\ @[k] = "none" THEN "pending" ELSE @[k]]]
    /\ worker' = [worker EXCEPT ![w].left = <<>>, ![w].proposed = TRUE]
    /\ UNCHANGED <<logVars, delivered, actionFailed, job, reviewer, approvers, deletion, readVars, faults>>

(* Fault: the job is completed while facts are left.                           *)
SomeDone(w) == worker[w].left = <<>> \/ worker[w].left # job[worker[w].job].facts
AllDone(w) == worker[w].left = <<>> /\ (worker[w].job \in InGroup => worker[w].proposed)
Complete(w) ==
    /\ worker[w].phase = "projecting" /\ AllDone(w)
    /\ job' = IF HoldsJob(w) THEN [job EXCEPT ![worker[w].job] = [Free(@) EXCEPT !.state = "succeeded"]]
              ELSE job
    /\ Quit(w)
    /\ UNCHANGED <<logVars, delivered, actionFailed, reviewVars, deletion, readVars, faults>>

(* The model, an append, the proposals or the completion fails.                *)
WorkFails(w) ==
    /\ Fault /\ worker[w] # Idle
    /\ job' = Retried(w)
    /\ Quit(w)
    /\ UNCHANGED <<logVars, delivered, actionFailed, reviewVars, deletion, readVars>>

(* The worker's process ends at any point, and starts again.                   *)
WorkerDies(w) ==
    /\ Fault /\ worker[w] # Idle
    /\ Quit(w)
    /\ UNCHANGED <<logVars, delivered, actionFailed, job, reviewVars, deletion, readVars>>

(* A lease runs out on a worker that is gone, or, as a fault, on a slow one.   *)
ExpireLease(j) ==
    /\ job[j].leaseValid
    /\ job' = [job EXCEPT ![j].leaseValid = FALSE]
    /\ IF worker[job[j].holder].job = j THEN Fault ELSE UNCHANGED faults
    /\ UNCHANGED <<logVars, delivered, actionFailed, worker, reviewVars, deletion, readVars>>

-------------------------------------------------------------------------------
(* Review of proposals for the group                                          *)

ReadProposal(v) ==
    /\ reviewer[v] = Away
    /\ \E j \in InGroup, k \in FactKey, decision \in {"approved", "rejected"} :
          /\ proposal[j][k] = "pending"
          /\ reviewer' = [reviewer EXCEPT ![v] = [job |-> j, factKey |-> k, decision |-> decision,
                                                  appended |-> FALSE]]
          /\ approvers' = IF decision = "approved" THEN approvers \cup {<<j, k>>} ELSE approvers
    /\ UNCHANGED <<logVars, workVars, proposal, deletion, readVars, faults>>

(* The event of an approved proposal, in a transaction of its own.             *)
AppendApproved(v) ==
    /\ reviewer[v].decision = "approved" /\ ~reviewer[v].appended
    /\ AppendEvent(Group, Upsert(reviewer[v].factKey, ProposalKey(reviewer[v].job, reviewer[v].factKey)))
    /\ reviewer' = [reviewer EXCEPT ![v].appended = TRUE]
    /\ UNCHANGED <<workVars, proposal, approvers, deletion, readVars, faults>>

(* An approval is written after its event.                                     *)
ReadyToFinish(v) ==
    reviewer[v].decision = "rejected" \/ (reviewer[v].decision = "approved" /\ reviewer[v].appended)
(* The decision counts if the proposal is still pending.                       *)
FinishReview(v) ==
    /\ ReadyToFinish(v)
    /\ proposal' = [proposal EXCEPT ![reviewer[v].job][reviewer[v].factKey] =
                        IF @ = "pending" THEN reviewer[v].decision ELSE @]
    /\ reviewer' = [reviewer EXCEPT ![v] = Away]
    /\ UNCHANGED <<logVars, workVars, approvers, deletion, readVars, faults>>

(* The request is cut short; its transactions so far stay.                     *)
ReviewDies(v) ==
    /\ Fault /\ reviewer[v] # Away
    /\ reviewer' = [reviewer EXCEPT ![v] = Away]
    /\ UNCHANGED <<logVars, workVars, proposal, approvers, deletion, readVars>>

-------------------------------------------------------------------------------
(* Deletion and erasure                                                       *)

(* The row of the fact is read first, outside the transaction of the event; a  *)
(* request may be sent again, for the same fact.                               *)
LookUpFact(d) ==
    /\ ~deletion[d].reading
    /\ \E k \in FactKey :
          /\ facts[Personal][k].state = "active" /\ deletion[d].factKey \in {k, NoFactKey}
          /\ deletion' = [deletion EXCEPT ![d].factKey = k, ![d].reading = TRUE]
    /\ UNCHANGED <<logVars, workVars, reviewVars, readVars, faults>>

AppendDelete(d) ==
    /\ deletion[d].reading
    /\ AppendEvent(Personal, Delete(deletion[d].factKey, DeletionKey(d)))
    /\ deletion' = [deletion EXCEPT ![d].reading = FALSE, ![d].answered = TRUE]
    /\ UNCHANGED <<workVars, reviewVars, readVars, faults>>

(* group-memory-admin: an operator writes to the group's stream, under a key of *)
(* his own and without a review.  A key that is used again, even for another   *)
(* command, appends nothing.                                                   *)
OperatorCommands(key) ==
    {Upsert(k, key) : k \in FactKey} \cup {Delete(k, key) : k \in FactKey} \cup {Erase(key)}
GroupMemoryAdmin(o) ==
    /\ \E e \in OperatorCommands(OperatorKey(o)) : AppendEvent(Group, e)
    /\ UNCHANGED <<workVars, reviewVars, deletion, readVars, faults>>

-------------------------------------------------------------------------------
(* Runs that are answered from memory                                         *)

Active(s) == {<<s, k>> : k \in {key \in FactKey : facts[s][key].state = "active"}}
Orders(set) == {q \in [1 .. Cardinality(set) -> set] : \A i, j \in DOMAIN q : q[i] = q[j] => i = j}
(* Any of the active facts match, in any order of score and time; the limits   *)
(* are above the number of facts.                                              *)
Matches(s) == UNION {Orders(set) : set \in SUBSET Active(s)}
SearchPersonal == Matches(Personal)
SearchGroup == Matches(Group)

loadMemory(r) ==
    /\ reader[r].step = "waiting" /\ reader[r].attempts < MaxAttempts
    /\ \E personal \in SearchPersonal, group \in IF Group \in ReadsOf[r] THEN SearchGroup ELSE {<<>>} :
          reader' = [reader EXCEPT ![r] = [step |-> "given", attempts |-> @.attempts + 1,
                                           given |-> personal \o group]]
    /\ UNCHANGED <<logVars, workVars, reviewVars, deletion, exposed, feedback, faults>>

(* The attempt is over: another one, or none is left.                          *)
Again(r, attempts) == [reader EXCEPT ![r] = [step |-> IF attempts < MaxAttempts THEN "waiting" ELSE "failed",
                                             attempts |-> attempts, given |-> <<>>]]

(* Who may read the group's memory can not be found out, or the member is not  *)
(* in the group any more.                                                      *)
MembershipUnclear(r) ==
    /\ Fault /\ Group \in ReadsOf[r]
    /\ reader[r].step = "waiting" /\ reader[r].attempts < MaxAttempts
    /\ reader' = Again(r, reader[r].attempts + 1)
    /\ UNCHANGED <<logVars, workVars, reviewVars, deletion, exposed, feedback>>

IsActive(f) == facts[f[1]][f[2]].state = "active"
IsExposed(r, f) == exposed[r][f] >= 0
(* Fact i of those given is exposed already, or is active and finds its        *)
(* ordinal, unique in the run, free.                                           *)
Recordable(r, i) == \/ IsExposed(r, reader[r].given[i])
                    \/ IsActive(reader[r].given[i]) /\ \A f \in Fact : exposed[r][f] # i
(* All or none: a fact that can not be recorded fails the attempt.             *)
RecordExposures(r) ==
    /\ reader[r].step = "given"
    /\ LET given == reader[r].given
           new == {i \in DOMAIN given : ~IsExposed(r, given[i]) /\ IsActive(given[i])}
       IN IF \A i \in DOMAIN given : Recordable(r, i)
          THEN /\ exposed' = [exposed EXCEPT ![r] = [f \in Fact |->
                                IF \E i \in new : given[i] = f THEN CHOOSE i \in new : given[i] = f ELSE @[f]]]
               /\ reader' = [reader EXCEPT ![r].step = "recorded"]
          ELSE /\ reader' = Again(r, reader[r].attempts)
               /\ UNCHANGED exposed
    /\ UNCHANGED <<logVars, workVars, reviewVars, deletion, feedback, faults>>

SaveCandidate(r) ==
    /\ reader[r].step = "recorded"
    /\ reader' = [reader EXCEPT ![r].step = "answered"]
    /\ UNCHANGED <<logVars, workVars, reviewVars, deletion, exposed, feedback, faults>>

(* The model fails, or the runtime stops and the run is claimed again.         *)
AttemptFails(r) ==
    /\ Fault /\ reader[r].step \in {"given", "recorded"}
    /\ reader' = Again(r, reader[r].attempts)
    /\ UNCHANGED <<logVars, workVars, reviewVars, deletion, exposed, feedback>>

(* Once for an exposure, by the member the run was for.                        *)
RecordFeedback(r, f) ==
    /\ IsExposed(r, f) /\ <<r, f>> \notin feedback
    /\ feedback' = feedback \cup {<<r, f>>}
    /\ UNCHANGED <<logVars, workVars, reviewVars, deletion, exposed, reader, faults>>

-------------------------------------------------------------------------------
OutsideLog == UNCHANGED <<workVars, reviewVars, deletion, readVars, faults>>
Project == (\E s \in Stream : ProjectNext(s)) /\ OutsideLog
Replay(s) == (RebuildReplay(s) \/ RebuildCommit(s)) /\ OutsideLog
RebuildStream ==
    \/ (\E s \in Stream : RebuildBegin(s)) /\ OutsideLog
    \/ \E s \in Stream : Replay(s)
    \/ /\ Fault /\ \E s \in Stream : RebuildRollback(s)
       /\ UNCHANGED <<workVars, reviewVars, deletion, readVars>>
WorkerStep(w) == SaveResult(w) \/ AppendFact(w) \/ SaveGroupProposals(w) \/ Complete(w)
Work == (\E j \in Job : EnqueueDelivered(j)) \/ (\E w \in Worker : Claim(w) \/ WorkerStep(w))

Next ==
    \/ \E j \in Job : Deliver(j) \/ ActionFails(j) \/ EnqueueDelivered(j) \/ ExpireLease(j)
    \/ \E w \in Worker : Claim(w) \/ WorkerStep(w) \/ WorkFails(w) \/ WorkerDies(w)
    \/ \E v \in Reviewer : ReadProposal(v) \/ AppendApproved(v) \/ FinishReview(v) \/ ReviewDies(v)
    \/ \E d \in Deletion : LookUpFact(d) \/ AppendDelete(d)
    \/ \E o \in Command : GroupMemoryAdmin(o)
    \/ \E r \in Run :
          \/ loadMemory(r) \/ RecordExposures(r) \/ SaveCandidate(r)
          \/ AttemptFails(r) \/ MembershipUnclear(r)
    \/ \E r \in Run, f \in Fact : RecordFeedback(r, f)
    \/ Project
    \/ RebuildStream

Spec == Init /\ [][Next]_vars

(* The loops of the extraction worker and the projector never stop for good,   *)
(* and leases run out.                                                         *)
FairSpec ==
    /\ Spec
    /\ WF_vars(Work) /\ WF_vars(Project)
    /\ WF_vars(\E j \in Job : ExpireLease(j))
    /\ \A s \in Stream : WF_vars(Replay(s))

-------------------------------------------------------------------------------
(* Properties                                                                 *)

FactsOf(j) == {job[j].facts[i] : i \in 1 .. Len(job[j].facts)}
(* A job is done only when everything the model found in its run is recorded:  *)
(* every fact of the member's in the log, every fact for the group proposed,   *)
(* however many workers took turns at it and whatever they lost.               *)
NothingForgotten == \A j \in Job : job[j].state = "succeeded" => \A k \in FactsOf(j) :
    IF j \in InGroup THEN proposal[j][k] # "none" ELSE Recorded(JobKey(j, k))

(* What was proposed for a group is in its memory only by a reviewer's         *)
(* approval: an approved proposal has its event, and the event of a proposal   *)
(* has a reviewer who approved, even where a rejection that came in between    *)
(* won.  Whatever else is in the group's stream an operator wrote there by     *)
(* hand, and nobody reviews that (akashic-openim-integration.md:136).          *)
GroupFactsReviewed ==
    /\ \A j \in InGroup, k \in FactKey :
          /\ proposal[j][k] = "approved" => Recorded(ProposalKey(j, k))
          /\ Recorded(ProposalKey(j, k)) => <<j, k>> \in approvers
    /\ \A i \in 1 .. Len(events[Group]) :
          \/ \E j \in InGroup, k \in FactKey : events[Group][i].key = ProposalKey(j, k)
          \/ \E o \in Command : events[Group][i].key = OperatorKey(o)

(* A run that is answered has an exposure for every fact its last attempt was  *)
(* given, no two of them under one ordinal, though facts are deleted and       *)
(* attempts are cut short in between.                                          *)
AnswerAccounted == \A r \in Run :
    /\ reader[r].step = "answered" =>
          \A i \in DOMAIN reader[r].given : IsExposed(r, reader[r].given[i])
    /\ \A f, g \in Fact : f # g /\ IsExposed(r, f) => exposed[r][f] # exposed[r][g]

(* The log and what is shown of it agree, at all times (LogInv), a proposal    *)
(* got into a group's memory only when approved, and what an answer used is on *)
(* record.                                                                     *)
MemoryInv == LogInv /\ WorkTypeOK /\ GroupFactsReviewed /\ AnswerAccounted

(* A delivered run comes to the end of its extraction and every stream to the  *)
(* end of its projection, through faults, lost leases and rebuilds.  The       *)
(* exception is a run whose action failed before the extraction worker came to *)
(* it: nothing is ever extracted from that run.                                *)
NeverEnqueued(j) == j \in actionFailed /\ job[j].state = "none"
MemorySettles == []<>(/\ \A j \in delivered : job[j].state \in Ended \/ NeverEnqueued(j)
                      /\ \A s \in Stream : projected[s] = Len(events[s]))
===============================================================================
