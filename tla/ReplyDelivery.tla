---------------------------- MODULE ReplyDelivery ----------------------------
(***************************************************************************)
(* Delivery of replies: the rows of agent.deliveries and the delivery      *)
(* worker (internal/delivery/store.go, worker.go) together with the Agent  *)
(* Runs they belong to.  A sender claims a delivery, calls the channel     *)
(* (OpenIM or Telegram, senders.go) outside any transaction, and records   *)
(* the outcome; between the call and the record it may die or lose its     *)
(* lease.  The channel itself is external: it either posts the reply or    *)
(* not, and its answer may be lost.                                        *)
(***************************************************************************)
EXTENDS AgentRuns, Sequences

CONSTANTS
    Sender,              \* delivery worker processes
    MaxDeliveryAttempts  \* PLATFORM_DELIVERY_MAX_ATTEMPTS

ASSUME DeliveryAttemptsType == MaxDeliveryAttempts \in Nat \ {0}

VARIABLES
    delivery,      \* run: state of its delivery row, "none" before Prepare
    dTries,        \* run: attempts of the row
    dToken,        \* run: lease_token, 0 for NULL
    dLeaseValid,   \* run: lease_until >= now()
    dBackoff,      \* run: available_at > now()
    sender,        \* sender: the Record it was handed, and what the channel answered
    posted,        \* the replies the channel has posted, in its order
    deliveryControl, \* the tenant's runtime control agent_delivery, "unset" without a row
    lapsed         \* history: the deliveries whose lease ran out at least once

rowVars == <<delivery, dTries, dToken, dLeaseValid, dBackoff>>
deliveryVars == <<delivery, dTries, dToken, dLeaseValid, dBackoff, sender, posted,
                  deliveryControl, lapsed>>
allDeliveryVars == <<runVars, deliveryVars>>

Answers == {"none", "accepted", "retryable", "permanent", "uncertain"}
Records == [run : Run \cup {NoRun}, token : Nat, answer : Answers]
IdleSender == [run |-> NoRun, token |-> 0, answer |-> "none"]

DeliveryTypeOK ==
    /\ TypeOK
    /\ delivery \in [Run -> {"none", "pending", "sending", "sent", "failed", "uncertain"}]
    /\ dTries \in [Run -> 0 .. MaxDeliveryAttempts]
    /\ dToken \in [Run -> 0 .. MaxDeliveryAttempts]
    /\ dLeaseValid \in [Run -> BOOLEAN]
    /\ dBackoff \in [Run -> BOOLEAN]
    /\ sender \in [Sender -> Records]
    /\ posted \in Seq(Run)
    /\ deliveryControl \in {"unset", "enabled", "paused"}
    /\ lapsed \subseteq Run

DeliveryInit ==
    /\ Init
    /\ delivery = [r \in Run |-> "none"]
    /\ dTries = [r \in Run |-> 0]
    /\ dToken = [r \in Run |-> 0]
    /\ dLeaseValid = [r \in Run |-> FALSE]
    /\ dBackoff = [r \in Run |-> FALSE]
    /\ sender = [s \in Sender |-> IdleSender]
    /\ posted = <<>>
    /\ deliveryControl = "unset"
    /\ lapsed = {}

-------------------------------------------------------------------------------

(* Prepare: the row is inserted and the run leaves its worker, or neither.     *)
PrepareReply(w) ==
    LET r == worker[w].run IN
    /\ PrepareDelivery(w)
    /\ delivery[r] = "none"
    /\ delivery' = [delivery EXCEPT ![r] = "pending"]
    /\ UNCHANGED <<dTries, dToken, dLeaseValid, dBackoff, sender, posted, deliveryControl, lapsed>>

EndLease(r) ==
    /\ dToken' = [dToken EXCEPT ![r] = 0]
    /\ dLeaseValid' = [dLeaseValid EXCEPT ![r] = FALSE]

(* Fault: the run of an exhausted delivery is left as it is.                   *)
LeaveRun(r) == UNCHANGED <<state, nextDispatch>>
FailWaitingRun(r) ==
    IF state[r] = "delivery_pending"
    THEN /\ state' = [state EXCEPT ![r] = "failed"]
         /\ nextDispatch' = [nextDispatch EXCEPT ![LaneOf[r]] =
                               IF @ = sequence[r] THEN @ + 1 ELSE @]
    ELSE UNCHANGED <<state, nextDispatch>>

(* Fault: one attempt too many is waited for.                                  *)
BeyondExhausted(r) == dTries[r] > MaxDeliveryAttempts
Exhausted(r) == dTries[r] >= MaxDeliveryAttempts

(* failExhausted, a transaction of its own before every claim.  Its rows belong*)
(* to different lanes and are treated one at a time here.  A run that is no    *)
(* longer waiting for its delivery keeps its state, and its lane its position. *)
FailExhausted(r) ==
    /\ \E s \in Sender : sender[s].run = NoRun
    /\ delivery[r] = "sending" /\ ~dLeaseValid[r] /\ Exhausted(r)
    /\ delivery' = [delivery EXCEPT ![r] = "failed"]
    /\ EndLease(r)
    /\ FailWaitingRun(r)
    /\ UNCHANGED <<nextEnqueue, sequence, progressVars, intent, attempts, leaseVars, backoff,
                   executionControl, worker, dTries, dBackoff, sender, posted, deliveryControl, lapsed>>

TriesLeft(r) == dTries[r] < MaxDeliveryAttempts

(* Fault: a delivery of uncertain outcome is tried again.                      *)
OpenOrUncertain(r) == delivery[r] \in {"pending", "uncertain"}
Sendable(r) == delivery[r] = "pending" \/ (delivery[r] = "sending" /\ ~dLeaseValid[r])

ClaimDelivery(s, r) ==
    /\ sender[s].run = NoRun
    /\ deliveryControl # "paused"
    /\ TriesLeft(r)
    /\ ~dBackoff[r]
    /\ Sendable(r)
    /\ delivery' = [delivery EXCEPT ![r] = "sending"]
    /\ dTries' = [dTries EXCEPT ![r] = @ + 1]
    /\ dToken' = [dToken EXCEPT ![r] = dTries[r] + 1]
    /\ dLeaseValid' = [dLeaseValid EXCEPT ![r] = TRUE]
    /\ sender' = [sender EXCEPT ![s] = [run |-> r, token |-> dTries[r] + 1, answer |-> "none"]]
    /\ UNCHANGED <<runVars, dBackoff, posted, deliveryControl, lapsed>>

(* The call to the channel.  A rejection (an API error) posts nothing; when no *)
(* answer is read, the reply may be posted or not.                             *)
Send(s) ==
    /\ sender[s].run # NoRun
    /\ sender[s].answer = "none"
    /\ \E answer \in Answers \ {"none"} :
          /\ sender' = [sender EXCEPT ![s].answer = answer]
          /\ posted' \in CASE answer = "accepted" -> {Append(posted, sender[s].run)}
                           [] answer = "uncertain" -> {posted, Append(posted, sender[s].run)}
                           [] OTHER -> {posted}
    /\ UNCHANGED <<runVars, rowVars, deliveryControl, lapsed>>

(* WHERE state = 'sending' AND lease_token = $2: the time is not compared.     *)
HoldsDelivery(s) ==
    /\ sender[s].run # NoRun
    /\ delivery[sender[s].run] = "sending"
    /\ dToken[sender[s].run] = sender[s].token

(* Fault: the lane is not advanced with the run.                               *)
SettleRunOnly(r, st) ==
    /\ state[r] = "delivery_pending"
    /\ state' = [state EXCEPT ![r] = st]
    /\ UNCHANGED laneVars
SettleRun(r, st) ==
    /\ state[r] = "delivery_pending"
    /\ state' = [state EXCEPT ![r] = st]
    /\ AdvanceLane(r)

(* MarkSent and finishFailure: the row, the run and the lane in one            *)
(* transaction, which fails unless the run is delivery_pending and at the      *)
(* dispatch position.                                                          *)
Finish(s, row, st) ==
    LET r == sender[s].run IN
    /\ HoldsDelivery(s)
    /\ SettleRun(r, st)
    /\ delivery' = [delivery EXCEPT ![r] = row]
    /\ EndLease(r)
    /\ sender' = [sender EXCEPT ![s] = IdleSender]
    /\ UNCHANGED <<sequence, progressVars, intent, attempts, leaseVars, backoff,
                   executionControl, worker, dTries, dBackoff, posted, deliveryControl, lapsed>>

(* Classify.  Fault: an unknown outcome counts as worth a retry.               *)
Accepted(answer) == answer = "accepted"

RejectedOrLost(answer) == answer \in {"retryable", "uncertain"}
Retryable(answer) == answer = "retryable"

MarkSent(s) ==
    /\ Accepted(sender[s].answer)
    /\ Finish(s, "sent", IF action[sender[s].run] THEN "waiting_approval" ELSE "succeeded")

MarkRetry(s) ==
    LET r == sender[s].run IN
    /\ Retryable(sender[s].answer)
    /\ IF sender[s].token >= MaxDeliveryAttempts
       THEN Finish(s, "failed", "failed")
       ELSE /\ HoldsDelivery(s)
            /\ delivery' = [delivery EXCEPT ![r] = "pending"]
            /\ dBackoff' = [dBackoff EXCEPT ![r] = TRUE]
            /\ EndLease(r)
            /\ sender' = [sender EXCEPT ![s] = IdleSender]
            /\ UNCHANGED <<runVars, dTries, posted, deliveryControl, lapsed>>

MarkPermanent(s) ==
    /\ sender[s].answer = "permanent"
    /\ Finish(s, "failed", "failed")

MarkUncertain(s) ==
    /\ sender[s].answer = "uncertain"
    /\ Finish(s, "uncertain", "delivery_unknown")

(* The process dies or is stopped, or one of the statements above is refused   *)
(* and runOnce returns its error.                                              *)
AbandonSend(s) ==
    /\ sender[s].run # NoRun
    /\ sender' = [sender EXCEPT ![s] = IdleSender]
    /\ UNCHANGED <<runVars, rowVars, posted, deliveryControl, lapsed>>

ExpireDelivery(r) ==
    /\ dLeaseValid[r]
    /\ dLeaseValid' = [dLeaseValid EXCEPT ![r] = FALSE]
    /\ lapsed' = lapsed \cup {r}
    /\ UNCHANGED <<runVars, delivery, dTries, dToken, dBackoff, sender, posted, deliveryControl>>

DeliveryBackoffElapses(r) ==
    /\ dBackoff[r]
    /\ dBackoff' = [dBackoff EXCEPT ![r] = FALSE]
    /\ UNCHANGED <<runVars, delivery, dTries, dToken, dLeaseValid, sender, posted, deliveryControl, lapsed>>

SetDeliveryControl(setting) ==
    /\ deliveryControl = "unset"
    /\ deliveryControl' = setting
    /\ UNCHANGED <<runVars, rowVars, sender, posted, lapsed>>

SenderStep(s) == Send(s) \/ MarkSent(s) \/ MarkRetry(s) \/ MarkPermanent(s)
                   \/ MarkUncertain(s) \/ AbandonSend(s)
TakeDelivery(r) == FailExhausted(r) \/ \E s \in Sender : ClaimDelivery(s, r)

(* The Agent Runs with everything but their deliveries.                        *)
DeliveryRunStep ==
    \/ LaneStep \/ ToolStep \/ ActionStep
    \/ \E w \in Worker : AnswerStep(w) \/ WaitForToolApproval(w) \/ EnsureIntent(w)

DeliveryNext ==
    \/ DeliveryRunStep /\ UNCHANGED deliveryVars
    \/ \E w \in Worker : PrepareReply(w)
    \/ \E r \in Run : TakeDelivery(r) \/ ExpireDelivery(r) \/ DeliveryBackoffElapses(r)
    \/ \E s \in Sender : SenderStep(s)
    \/ \E setting \in {"enabled", "paused"} : SetDeliveryControl(setting)

DeliverySpec == DeliveryInit /\ [][DeliveryNext]_allDeliveryVars

-------------------------------------------------------------------------------
(* Properties                                                                 *)

(* The deliveries and their runs are an implementation of the Agent Runs: each *)
(* transaction of the delivery worker is one settlement of a run that was      *)
(* delivery_pending, or none of the runs' business.                            *)
DeliveryRefinesRuns == Spec

(* The row and the run agree: a run is delivery_pending only while its delivery*)
(* is open, an answer that counts as given was sent, and a reply that was sent *)
(* or may have been sent is never recorded under a run that is still queued.   *)
RowMatchesRun ==
    \A r \in Run :
        /\ state[r] = "delivery_pending" => delivery[r] \in {"pending", "sending"}
        /\ state[r] = "delivery_unknown" => delivery[r] = "uncertain"
        /\ state[r] = "succeeded" \/ AwaitingAction(r) => delivery[r] = "sent"
        /\ delivery[r] # "none" => state[r] \in Settled \cup {"delivery_pending"}

PostedFor(r) == \E i \in DOMAIN posted : posted[i] = r

(* Sent means posted: the channel has the reply of every delivery recorded as  *)
(* sent, and nothing is posted for a run whose reply was never prepared.       *)
SentWasPosted ==
    \A r \in Run : /\ delivery[r] = "sent" => PostedFor(r)
                   /\ PostedFor(r) => delivery[r] # "none"

(* A reply is posted twice only if the lease of its delivery ran out in between*)
(* (docs/sdd/agent-runtime.md, Failure handling): neither a retry after a      *)
(* rejection nor an uncertain answer repeats a reply that was posted.          *)
NoBlindRepeat ==
    \A i, j \in DOMAIN posted : i # j /\ posted[i] = posted[j] => posted[i] \in lapsed

(* The replies that count as sent appear in the order of the conversation: the *)
(* first copy of the earlier one precedes every copy of the later one.         *)
RepliesInOrder ==
    \A early, late \in Run :
        LaneOf[early] = LaneOf[late] /\ delivery[early] = "sent" =>
            \A j \in DOMAIN posted : posted[j] = late /\ sequence[early] < sequence[late] =>
                \E i \in 1 .. j - 1 : posted[i] = early

(* Rows, runs and channel tell one story (delivery/store.go MarkSent,          *)
(* finishFailure and failExhausted, each in its transaction).                  *)
DeliveryInv == DeliveryTypeOK /\ RowMatchesRun /\ SentWasPosted /\ RepliesInOrder

(* A delivery whose outcome is recorded is never attempted again.              *)
OutcomeFinal ==
    [][\A r \in Run : delivery[r] \in {"sent", "failed", "uncertain"} =>
          delivery'[r] = delivery[r] /\ dTries'[r] = dTries[r]]_allDeliveryVars

(* Every prepared delivery comes to an end, whatever its senders' crashes: the *)
(* bounded attempts and failExhausted see to it.                              *)
DeliveryFairness ==
    /\ \A s \in Sender : WF_allDeliveryVars(SenderStep(s))
    /\ \A r \in Run : /\ SF_allDeliveryVars(TakeDelivery(r))
                      /\ WF_allDeliveryVars(ExpireDelivery(r))
                      /\ WF_allDeliveryVars(DeliveryBackoffElapses(r))

FairDeliverySpec == DeliverySpec /\ DeliveryFairness

DeliveryEnds ==
    [](deliveryControl # "paused") =>
        \A r \in Run : delivery[r] # "none" ~> delivery[r] \in {"sent", "failed", "uncertain"}
===============================================================================
