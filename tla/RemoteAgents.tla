---------------------------- MODULE RemoteAgents ----------------------------
(***************************************************************************)
(* Remote A2A agents: the registrations an administrator makes, verifies   *)
(* and switches on or off (agent.remote_agents), and the jobs a tool call  *)
(* of a run hands to one of them (agent.remote_a2a_jobs), as written by    *)
(* internal/remotea2a/store.go and client.go.                              *)
(*                                                                         *)
(* An administrator acts on the page it was shown, so that a revision it   *)
(* passes on may be old; a verification fetches the card between two       *)
(* statements; a job is sent outside of any transaction.  The invocation   *)
(* of a tool is an input here: Delegate may be called again for the same   *)
(* key at any time, by the same worker or another one.                     *)
(*                                                                         *)
(* The client sends a message once.  Below it the transport of net/http may *)
(* send a request again by itself: one with an Idempotency-Key and a body   *)
(* it can rewind counts as replayable, and is repeated on another           *)
(* connection when a kept-alive one breaks before anything came back.       *)
(***************************************************************************)
EXTENDS Naturals

CONSTANTS
    Agent,        \* registered slugs
    Admin,        \* console sessions of administrators
    Call,         \* tool calls: (parent run, idempotency key)
    NoAgent,      \* what a job without a row, or an idle session, is about
    MaxRevision,  \* bound: lifecycle_revision
    IdleConns     \* bound: kept-alive connections a request may be lost on

ASSUME NoAgentType == NoAgent \notin Agent
ASSUME MaxRevisionType == MaxRevision \in Nat \ {0}
ASSUME IdleConnsType == IdleConns \in Nat

VARIABLES
    card,     \* agent: what its card URL serves, seen through ResolveCard
    remote,   \* agent: its row
    allowed,  \* session: its member is an active platform_admin
    admin,    \* session: the page it shows and the request it makes from it
    running,  \* call: the run that makes it is running
    job,      \* call: its row, and the stage of the Delegate that created it
    wire,     \* call: requests that are on their way to the agent
    replayed, \* call: how often the transport has sent its request again
    received  \* call: how often its message reached the agent

vars == <<card, remote, allowed, admin, running, job, wire, replayed, received>>
adminVars == <<card, remote, allowed, admin>>
jobVars == <<running, job, wire, replayed, received>>

Cards == {"pinned", "changed", "down"}
Lifecycle == {"absent", "registered", "verified", "degraded", "disabled"}
Rows == [state : Lifecycle, enabled : BOOLEAN, observed : {"none", "pinned"}, revision : Nat]
NoRow == [state |-> "absent", enabled |-> FALSE, observed |-> "none", revision |-> 0]

Sessions == [step : {"idle", "page", "fetch", "fetched", "refused"},
             agent : Agent \cup {NoAgent}, seen : Rows]
Away == [step |-> "idle", agent |-> NoAgent, seen |-> NoRow]

Answers == {"submitted", "completed", "failed", "rejected"}
JobStates == {"absent", "queued", "unknown"} \cup Answers
Stages == {"none", "send", "sent", "error", "gone"} \cup Answers
Jobs == [state : JobStates, agent : Agent \cup {NoAgent}, stage : Stages]
NoJob == [state |-> "absent", agent |-> NoAgent, stage |-> "none"]

TypeOK ==
    /\ card \in [Agent -> Cards]
    /\ remote \in [Agent -> Rows]
    /\ allowed \in [Admin -> BOOLEAN]
    /\ admin \in [Admin -> Sessions]
    /\ running \in [Call -> BOOLEAN]
    /\ job \in [Call -> Jobs]
    /\ wire \in [Call -> Nat]
    /\ replayed \in [Call -> 0 .. IdleConns]
    /\ received \in [Call -> Nat]

Init ==
    /\ card \in [Agent -> Cards]
    /\ remote = [a \in Agent |-> NoRow]
    /\ allowed = [m \in Admin |-> TRUE]
    /\ admin = [m \in Admin |-> Away]
    /\ running = [c \in Call |-> TRUE]
    /\ job = [c \in Call |-> NoJob]
    /\ wire = [c \in Call |-> 0]
    /\ replayed = [c \in Call |-> 0]
    /\ received = [c \in Call |-> 0]

-------------------------------------------------------------------------------
(* Administration                                                             *)

(* An operator whose comment begins with "Fault:" is a plausible mistake in the *)
(* code the operator below it models; no specification uses it, it is there to  *)
(* show that the properties would notice.                                       *)

(* A card counts only when its digest is the one the administrator pinned.     *)
Resolves(a) == card[a] = "pinned"

Leave(m) == admin' = [admin EXCEPT ![m] = Away]

Register(m, a) ==
    /\ admin[m] = Away
    /\ allowed[m]
    /\ remote[a].state = "absent"
    /\ remote' = [remote EXCEPT ![a] = [NoRow EXCEPT !.state = "registered", !.revision = 1]]
    /\ UNCHANGED <<card, allowed, admin, jobVars>>

(* List: the rows with their revisions, as the console shows them.             *)
List(m, a) ==
    /\ admin[m] = Away
    /\ remote[a].state # "absent"
    /\ admin' = [admin EXCEPT ![m] = [step |-> "page", agent |-> a, seen |-> remote[a]]]
    /\ UNCHANGED <<card, remote, allowed, jobVars>>

(* WHERE lifecycle_revision = $3.                                              *)
SameRevision(m) ==
    /\ remote[admin[m].agent].revision = admin[m].seen.revision
    /\ remote[admin[m].agent].revision < MaxRevision

(* The new revision of a row.  Fault: switching leaves it as it is.            *)
KeepRevision(a) == remote[a].revision
NextRevision(a) == remote[a].revision + 1

(* SetEnabled in one transaction.                                              *)
MaySwitch(a, on) == on => remote[a].state = "verified" /\ remote[a].observed = "pinned"
SetEnabled(m, on) ==
    LET a == admin[m].agent IN
    /\ admin[m].step = "page"
    /\ allowed[m] /\ SameRevision(m) /\ MaySwitch(a, on)
    /\ remote' = [remote EXCEPT ![a] =
                    [@ EXCEPT !.enabled = on, !.revision = NextRevision(a),
                              !.state = IF on THEN "verified" ELSE "disabled"]]
    /\ Leave(m)
    /\ UNCHANGED <<card, allowed, jobVars>>

(* Verify reads the row and compares its revision, fetches the card outside of *)
(* any transaction, and writes what it found if the revision is still the same.*)
VerifyBegin(m) ==
    /\ admin[m].step = "page"
    /\ SameRevision(m)
    /\ admin' = [admin EXCEPT ![m].step = "fetch"]
    /\ UNCHANGED <<card, remote, allowed, jobVars>>

ResolveCard(m) ==
    /\ admin[m].step = "fetch"
    /\ admin' = [admin EXCEPT ![m].step =
                    IF Resolves(admin[m].agent) THEN "fetched" ELSE "refused"]
    /\ UNCHANGED <<card, remote, allowed, jobVars>>

VerifyFinish(m) ==
    LET a == admin[m].agent IN
    /\ admin[m].step = "fetched"
    /\ allowed[m] /\ SameRevision(m)
    /\ remote' = [remote EXCEPT ![a] = [state |-> "verified", enabled |-> FALSE,
                                        observed |-> "pinned", revision |-> @.revision + 1]]
    /\ Leave(m)
    /\ UNCHANGED <<card, allowed, jobVars>>

(* The refusal, whose UPDATE does not look at the number of rows it changed.   *)
(* The observed digest of an earlier verification stays.                       *)
Degraded(a) ==
    [remote[a] EXCEPT !.state = "degraded", !.enabled = FALSE, !.revision = @ + 1]
VerifyRefuse(m) ==
    LET a == admin[m].agent IN
    /\ admin[m].step = "refused"
    /\ allowed[m] /\ SameRevision(m)
    /\ remote' = [remote EXCEPT ![a] = Degraded(a)]
    /\ Leave(m)
    /\ UNCHANGED <<card, allowed, jobVars>>

(* A request ends in an error, without effect: the row has moved on, the role  *)
(* is gone, the connection breaks; or the page is closed.                      *)
RequestEnds(m) ==
    /\ admin[m] # Away
    /\ Leave(m)
    /\ UNCHANGED <<card, remote, allowed, jobVars>>

-------------------------------------------------------------------------------
(* Delegation                                                                 *)

(* WHERE remote.enabled AND lifecycle_state = 'verified' AND the digests agree.*)
Available(a) ==
    /\ remote[a].enabled
    /\ remote[a].state = "verified"
    /\ remote[a].observed = "pinned"

(* The transaction: for a key that has its job it only reads.  Fault: the job  *)
(* of an earlier invocation is not looked for.                                 *)
Unfinished(c) == job[c].state \in {"absent", "unknown", "queued"}
NotYetThere(c) == job[c].state = "absent"
Delegate(c, a) ==
    /\ NotYetThere(c)
    /\ running[c]
    /\ Available(a)
    /\ job' = [job EXCEPT ![c] = [state |-> "queued", agent |-> a, stage |-> "send"]]
    /\ UNCHANGED <<adminVars, running, wire, replayed, received>>

(* SendMessage: the request leaves, and the agent gets it, perhaps long after   *)
(* the client has given up.  What comes back is an answer with a state the     *)
(* client knows, or an error: a refused URL, a timeout, a status, a malformed  *)
(* or an unsupported answer.                                                   *)
Post(c) ==
    /\ job[c].stage = "send"
    /\ job' = [job EXCEPT ![c].stage = "sent"]
    /\ wire' = [wire EXCEPT ![c] = @ + 1]
    /\ UNCHANGED <<adminVars, running, replayed, received>>

(* The request was written to a connection kept alive from an earlier one, and *)
(* that connection broke before an answer came: the transport sends the same   *)
(* request again, whether or not the agent got the first.  A connection that   *)
(* was opened for the request ends this: its failure is the client's error.    *)
Replay(c) ==
    /\ job[c].stage = "sent"
    /\ replayed[c] < IdleConns
    /\ replayed' = [replayed EXCEPT ![c] = @ + 1]
    /\ wire' = [wire EXCEPT ![c] = @ + 1]
    /\ UNCHANGED <<adminVars, running, job, received>>

Receive(c) ==
    /\ wire[c] > 0
    /\ wire' = [wire EXCEPT ![c] = @ - 1]
    /\ received' = [received EXCEPT ![c] = @ + 1]
    /\ UNCHANGED <<adminVars, running, job, replayed>>

SendReturns(c, result) ==
    /\ job[c].stage \in {"send", "sent"}
    /\ result \in Answers => job[c].stage = "sent" /\ received[c] > 0
    /\ job' = [job EXCEPT ![c].stage = result]
    /\ UNCHANGED <<adminVars, running, wire, replayed, received>>

(* finishJob, for an answer and for an error.  Fault: an error leaves early.   *)
AnsweredOnly(c) == job[c].stage \in Answers
Returned(c) == job[c].stage \in Answers \cup {"error"}
(* Fault: an error is recorded as a failure of the remote agent.               *)
FailedOnError(c) == IF job[c].stage = "error" THEN "failed" ELSE job[c].stage
Outcome(c) == IF job[c].stage = "error" THEN "unknown" ELSE job[c].stage
FinishJob(c) ==
    /\ Returned(c)
    /\ job[c].state = "queued"
    /\ job' = [job EXCEPT ![c] = [@ EXCEPT !.state = Outcome(c), !.stage = "none"]]
    /\ UNCHANGED <<adminVars, running, wire, replayed, received>>

(* The invocation ends without finishJob: its process dies, or its context has *)
(* ended (the timeout of the tool, a shutdown) and the statement is refused.   *)
CallerGone(c) ==
    /\ job[c].stage \notin {"none", "gone"}
    /\ job' = [job EXCEPT ![c].stage = "gone"]
    /\ UNCHANGED <<adminVars, running, wire, replayed, received>>

-------------------------------------------------------------------------------
(* The rest of the world                                                      *)

ServeCard(a, c) ==
    /\ card[a] # c
    /\ card' = [card EXCEPT ![a] = c]
    /\ UNCHANGED <<remote, allowed, admin, jobVars>>

RevokeRole(m) ==
    /\ allowed[m]
    /\ allowed' = [allowed EXCEPT ![m] = FALSE]
    /\ UNCHANGED <<card, remote, admin, jobVars>>

RunMoves(c) ==
    /\ running' = [running EXCEPT ![c] = ~@]
    /\ UNCHANGED <<adminVars, job, wire, replayed, received>>

Sending(c) == (\E r \in Answers \cup {"error"} : SendReturns(c, r)) \/ FinishJob(c)

Next ==
    \/ \E m \in Admin, a \in Agent : Register(m, a) \/ List(m, a)
    \/ \E m \in Admin, on \in BOOLEAN : SetEnabled(m, on)
    \/ \E m \in Admin :
          \/ VerifyBegin(m) \/ ResolveCard(m) \/ VerifyFinish(m) \/ VerifyRefuse(m)
          \/ RequestEnds(m) \/ RevokeRole(m)
    \/ \E a \in Agent, c \in Cards : ServeCard(a, c)
    \/ \E c \in Call, a \in Agent : Delegate(c, a)
    \/ \E c \in Call : Post(c) \/ Replay(c) \/ Receive(c) \/ Sending(c) \/ CallerGone(c) \/ RunMoves(c)

(* A live invocation ends: the HTTP client has a timeout, and finishJob follows.*)
Fairness == \A c \in Call : WF_vars(Sending(c))

Spec == Init /\ [][Next]_vars /\ Fairness

-------------------------------------------------------------------------------
(* Properties                                                                 *)

(* A registration that is switched on was verified against the pinned digest,  *)
(* whatever verifications and switches of other sessions came in between.      *)
EnabledIsPinned ==
    \A a \in Agent :
        remote[a].enabled => remote[a].state = "verified" /\ remote[a].observed = "pinned"

(* A job that shows an answer of the agent is one the agent was asked for: an  *)
(* exchange that may not have taken place shows as queued or unknown.          *)
AnswersAreReal ==
    \A c \in Call :
        job[c].state \in Answers \/ job[c].stage \in Answers => received[c] > 0

RemoteInv == TypeOK /\ EnabledIsPinned /\ AnswersAreReal

(* However often a tool call is invoked, and whatever became of an earlier     *)
(* attempt, the client sends its message once: the agent gets it once, and     *)
(* once more for each time the transport repeated the request below the        *)
(* client.  No second invocation and no uncertain job adds to that; that       *)
(* nothing is retried (akashic-openim-integration.md:202) holds of the client, *)
(* not of the wire.                                                            *)
ReceivedOncePerSend == \A c \in Call : received[c] <= 1 + replayed[c]

(* Nobody undoes what he has not seen: a row changes only by the request of an *)
(* administrator whose page shows the row as it is.  A switch made while a     *)
(* verification fetches the card is therefore never lost.                      *)
ChangesWhatWasSeen ==
    [][\A a \in Agent :
        remote[a].state # "absent" /\ remote'[a] # remote[a] =>
            \E m \in Admin : admin[m].agent = a /\ admin[m].seen = remote[a]]_vars

(* A job leaves the queue unless the invocation that made it is gone: an error *)
(* of the exchange is written down too.                                        *)
JobEndsWithItsCaller ==
    \A c \in Call :
        job[c].state = "queued" ~> (job[c].state # "queued" \/ job[c].stage = "gone")
===============================================================================
