-------------------------- MODULE RemoteAgents_proofs --------------------------
(***************************************************************************)
(* Proofs about RemoteAgents, for any set of agents, sessions and calls    *)
(* and any bound on the revisions.  TLC checks the same properties on the  *)
(* instance of RemoteAgents.cfg.                                           *)
(*                                                                         *)
(* The inductive invariant adds to RemoteInv why nothing is lost on the    *)
(* administrator's side, a page that carries the revision of the row shows *)
(* the row, and why nothing is sent twice on the side of the jobs, there   *)
(* is one request per call and one per replay of the transport, on its way *)
(* or received.                                                            *)
(***************************************************************************)
EXTENDS RemoteAgents, TLAPS

(* A page shows a state the row was in: the revisions of a row only grow, and  *)
(* each is that of one state of it.                                            *)
PageIsPast == \A m \in Admin : admin[m].step # "idle" =>
    /\ admin[m].agent \in Agent
    /\ remote[admin[m].agent].state # "absent"
    /\ admin[m].seen.revision <= remote[admin[m].agent].revision
    /\ admin[m].seen.revision = remote[admin[m].agent].revision
          => admin[m].seen = remote[admin[m].agent]

(* One request per call and one per replay, and none before the job is written *)
(* down.                                                                       *)
OneRequest == \A c \in Call :
    /\ job[c].state = "absent" => job[c].stage = "none"
    /\ job[c].state = "absent" \/ job[c].stage = "send" =>
           wire[c] = 0 /\ received[c] = 0 /\ replayed[c] = 0
    /\ wire[c] + received[c] <= 1 + replayed[c]

IInv == RemoteInv /\ PageIsPast /\ OneRequest

LEMMA InitIInv == Init => IInv
BY NoAgentType, IdleConnsType DEF Init, IInv, RemoteInv, TypeOK, EnabledIsPinned, AnswersAreReal, PageIsPast,
      OneRequest, NoRow, Rows, Lifecycle, Away, Sessions, NoJob, Jobs, JobStates, Stages, Answers

-------------------------------------------------------------------------------
(* The administrator's side                                                   *)

(* A row that a request has written, and what the request saw of it.           *)
Writes(m, a, row) ==
    /\ admin[m].step # "idle" /\ admin[m].agent = a /\ SameRevision(m)
    /\ row \in Rows /\ row.state # "absent" /\ row.revision = remote[a].revision + 1
    /\ row.enabled => row.state = "verified" /\ row.observed = "pinned"
    /\ remote' = [remote EXCEPT ![a] = row]
    /\ Leave(m)

LEMMA SetEnabledWrites ==
    ASSUME IInv, NEW m \in Admin, NEW on \in BOOLEAN, SetEnabled(m, on)
    PROVE  \E a \in Agent, row \in Rows : Writes(m, a, row)
<1> DEFINE a == admin[m].agent
           row == [remote[a] EXCEPT !.enabled = on, !.revision = NextRevision(a),
                                    !.state = IF on THEN "verified" ELSE "disabled"]
<1>1. a \in Agent
  BY DEF SetEnabled, IInv, PageIsPast
<1>2. remote[a] \in Rows
  BY <1>1 DEF IInv, RemoteInv, TypeOK
<1>3. row \in Rows /\ row.state # "absent" /\ row.revision = remote[a].revision + 1
  <2> DEFINE state == IF on THEN "verified" ELSE "disabled"
  <2>1. state \in Lifecycle /\ state # "absent"
    BY DEF Lifecycle
  <2>2. NextRevision(a) = remote[a].revision + 1 /\ NextRevision(a) \in Nat
    BY <1>2 DEF Rows, NextRevision
  <2> HIDE DEF state
  <2>3. row = [remote[a] EXCEPT !.enabled = on, !.revision = NextRevision(a), !.state = state]
    BY DEF state
  <2> HIDE DEF row
  <2> QED
    BY <1>2, <2>1, <2>2, <2>3 DEF Rows
<1>4. row.enabled => row.state = "verified" /\ row.observed = "pinned"
  BY <1>2 DEF SetEnabled, MaySwitch, Rows
<1>5. remote' = [remote EXCEPT ![a] = row]
  BY DEF SetEnabled
<1>6. Writes(m, a, row)
  BY <1>3, <1>4, <1>5 DEF SetEnabled, Writes
<1> QED
  BY <1>1, <1>3, <1>6

LEMMA VerifyWrites ==
    ASSUME IInv, NEW m \in Admin, VerifyFinish(m) \/ VerifyRefuse(m)
    PROVE  \E a \in Agent, row \in Rows : Writes(m, a, row)
<1> DEFINE a == admin[m].agent
<1>1. a \in Agent /\ remote[a].state # "absent"
  BY DEF VerifyFinish, VerifyRefuse, IInv, PageIsPast
<1>2. remote[a] \in Rows
  BY <1>1 DEF IInv, RemoteInv, TypeOK
<1>3. CASE VerifyFinish(m)
  <2> DEFINE row == [state |-> "verified", enabled |-> FALSE, observed |-> "pinned",
                     revision |-> remote[a].revision + 1]
  <2>1. row \in Rows
    BY <1>2 DEF Rows, Lifecycle
  <2>2. remote' = [remote EXCEPT ![a] = row]
    BY <1>3 DEF VerifyFinish
  <2>3. Writes(m, a, row)
    BY <1>3, <2>1, <2>2 DEF VerifyFinish, Writes
  <2> QED
    BY <1>1, <2>1, <2>3
<1>4. CASE VerifyRefuse(m)
  <2>1. /\ Degraded(a) \in Rows /\ Degraded(a).state # "absent" /\ ~Degraded(a).enabled
        /\ Degraded(a).revision = remote[a].revision + 1
    <3>1. remote[a].revision + 1 \in Nat
      BY <1>2 DEF Rows
    <3> QED
      BY <1>2, <3>1 DEF Degraded, Rows, Lifecycle
  <2>2. Writes(m, a, Degraded(a))
    BY <1>4, <2>1 DEF VerifyRefuse, Writes
  <2> QED
    BY <1>1, <2>1, <2>2
<1> QED
  BY <1>3, <1>4

(* What a step does to the rows and the pages.                                 *)
Registers(m, a) ==
    /\ remote[a].state = "absent" /\ UNCHANGED admin
    /\ remote' = [remote EXCEPT ![a] = [NoRow EXCEPT !.state = "registered", !.revision = 1]]
Reads(m) == UNCHANGED remote /\ \E a \in Agent :
    /\ remote[a].state # "absent"
    /\ admin' = [admin EXCEPT ![m] = [step |-> "page", agent |-> a, seen |-> remote[a]]]
Moves(m) == UNCHANGED remote /\ admin[m].step # "idle" /\ \E step \in {"fetch", "fetched", "refused"} :
    admin' = [admin EXCEPT ![m].step = step]

LEMMA AdminSteps ==
    ASSUME IInv, [Next]_vars
    PROVE  \/ UNCHANGED <<remote, admin>>
           \/ \E m \in Admin, a \in Agent : Registers(m, a)
           \/ \E m \in Admin, a \in Agent, row \in Rows : Writes(m, a, row)
           \/ \E m \in Admin : Reads(m) \/ Moves(m) \/ (UNCHANGED remote /\ Leave(m))
<1>1. ASSUME NEW m \in Admin, NEW a \in Agent, Register(m, a) PROVE Registers(m, a)
  BY <1>1 DEF Register, Registers
<1>2. ASSUME NEW m \in Admin, NEW a \in Agent, List(m, a) PROVE Reads(m)
  BY <1>2 DEF List, Reads
<1>3. ASSUME NEW m \in Admin, VerifyBegin(m) \/ ResolveCard(m) PROVE Moves(m)
  BY <1>3 DEF VerifyBegin, ResolveCard, Moves
<1>4. ASSUME NEW m \in Admin, RequestEnds(m) PROVE UNCHANGED remote /\ Leave(m)
  BY <1>4 DEF RequestEnds
<1>5. ASSUME NEW m \in Admin, RevokeRole(m) PROVE UNCHANGED <<remote, admin>>
  BY <1>5 DEF RevokeRole
<1>6. ASSUME NEW a \in Agent, NEW c \in Cards, ServeCard(a, c) PROVE UNCHANGED <<remote, admin>>
  BY <1>6 DEF ServeCard
<1>7. ASSUME NEW c \in Call, \/ \E a \in Agent : Delegate(c, a)
                             \/ Post(c) \/ Replay(c) \/ Receive(c) \/ Sending(c) \/ CallerGone(c) \/ RunMoves(c)
      PROVE  UNCHANGED <<remote, admin>>
  BY <1>7 DEF Delegate, Post, Replay, Receive, Sending, SendReturns, FinishJob, CallerGone, RunMoves, adminVars
<1>8. CASE UNCHANGED vars
  BY <1>8 DEF vars
<1>9. CASE Next
  <2>1. ASSUME NEW m \in Admin, NEW a \in Agent, Register(m, a) \/ List(m, a)
        PROVE  Registers(m, a) \/ Reads(m)
    BY <1>1, <1>2, <2>1
  <2>2. ASSUME NEW m \in Admin, NEW on \in BOOLEAN, SetEnabled(m, on)
        PROVE  \E a \in Agent, row \in Rows : Writes(m, a, row)
    BY <2>2, SetEnabledWrites
  <2>3. ASSUME NEW m \in Admin,
               \/ VerifyBegin(m) \/ ResolveCard(m) \/ VerifyFinish(m) \/ VerifyRefuse(m)
               \/ RequestEnds(m) \/ RevokeRole(m)
        PROVE  \/ UNCHANGED <<remote, admin>>
               \/ \E a \in Agent, row \in Rows : Writes(m, a, row)
               \/ Moves(m) \/ (UNCHANGED remote /\ Leave(m))
    <3>1. CASE VerifyBegin(m) \/ ResolveCard(m)
      BY <1>3, <3>1
    <3>2. CASE VerifyFinish(m) \/ VerifyRefuse(m)
      <4>1. \E a \in Agent, row \in Rows : Writes(m, a, row)
        BY <3>2, VerifyWrites
      <4> QED
        BY <4>1
    <3>3. CASE RequestEnds(m)
      BY <1>4, <3>3
    <3>4. CASE RevokeRole(m)
      BY <1>5, <3>4
    <3> QED
      BY <2>3, <3>1, <3>2, <3>3, <3>4
  <2>4. CASE \E a \in Agent, c \in Cards : ServeCard(a, c)
    BY <1>6, <2>4
  <2>5. CASE \E c \in Call : \/ \E a \in Agent : Delegate(c, a)
                            \/ Post(c) \/ Replay(c) \/ Receive(c) \/ Sending(c) \/ CallerGone(c) \/ RunMoves(c)
    BY <1>7, <2>5
  <2> QED
    BY <1>9, <2>1, <2>2, <2>3, <2>4, <2>5 DEF Next
<1> QED
  BY <1>8, <1>9

LEMMA AdminKept ==
    ASSUME IInv, [Next]_vars
    PROVE  /\ remote' \in [Agent -> Rows] /\ admin' \in [Admin -> Sessions]
           /\ EnabledIsPinned' /\ PageIsPast'
<1> USE DEF IInv, RemoteInv, TypeOK, EnabledIsPinned, PageIsPast
<1>1. CASE UNCHANGED <<remote, admin>>
  BY <1>1
<1>2. ASSUME NEW m \in Admin, NEW a \in Agent, Registers(m, a)
      PROVE  /\ remote' \in [Agent -> Rows] /\ admin' \in [Admin -> Sessions]
             /\ EnabledIsPinned' /\ PageIsPast'
  BY <1>2 DEF Registers, NoRow, Rows, Lifecycle
<1>3. ASSUME NEW m \in Admin, NEW a \in Agent, NEW row \in Rows, Writes(m, a, row)
      PROVE  /\ remote' \in [Agent -> Rows] /\ admin' \in [Admin -> Sessions]
             /\ EnabledIsPinned' /\ PageIsPast'
  <2>1. remote' = [remote EXCEPT ![a] = row] /\ row.revision = remote[a].revision + 1
    BY <1>3 DEF Writes
  <2>2. remote' \in [Agent -> Rows]
    BY <2>1
  <2>3. Away \in Sessions
    BY DEF Away, Sessions, NoRow, Rows, Lifecycle
  <2>4. admin' = [admin EXCEPT ![m] = Away]
    BY <1>3 DEF Writes, Leave
  <2>5. admin' \in [Admin -> Sessions]
    BY <2>3, <2>4
  <2>6. EnabledIsPinned'
    BY <1>3, <2>1 DEF Writes
  <2>7. ASSUME NEW n \in Admin, admin'[n].step # "idle"
        PROVE  /\ admin'[n].agent \in Agent
               /\ remote'[admin'[n].agent].state # "absent"
               /\ admin'[n].seen.revision <= remote'[admin'[n].agent].revision
               /\ admin'[n].seen.revision = remote'[admin'[n].agent].revision
                     => admin'[n].seen = remote'[admin'[n].agent]
    <3>1. n # m /\ admin'[n] = admin[n]
      BY <2>4, <2>7 DEF Away
    <3>2. admin[n].seen \in Rows /\ remote[admin[n].agent] \in Rows
      BY <2>7, <3>1 DEF Sessions
    <3>3. admin[n].seen.revision \in Nat /\ remote[admin[n].agent].revision \in Nat
      BY <3>2 DEF Rows
    <3>4. CASE admin[n].agent = a
      BY <1>3, <2>1, <2>7, <3>1, <3>3, <3>4 DEF Writes
    <3>5. CASE admin[n].agent # a
      BY <2>1, <2>7, <3>1, <3>5
    <3> QED
      BY <3>4, <3>5
  <2> QED
    BY <2>2, <2>5, <2>6, <2>7
<1>4. ASSUME NEW m \in Admin, Reads(m)
      PROVE  admin' \in [Admin -> Sessions] /\ EnabledIsPinned' /\ PageIsPast'
  BY <1>4 DEF Reads, Sessions, Rows
<1>5. ASSUME NEW m \in Admin, Moves(m)
      PROVE  admin' \in [Admin -> Sessions] /\ EnabledIsPinned' /\ PageIsPast'
  BY <1>5 DEF Moves, Sessions
<1>6. ASSUME NEW m \in Admin, UNCHANGED remote, Leave(m)
      PROVE  admin' \in [Admin -> Sessions] /\ EnabledIsPinned' /\ PageIsPast'
  BY <1>6 DEF Leave, Away, Sessions, NoRow, Rows, Lifecycle
<1> QED
  BY <1>1, <1>2, <1>3, <1>4, <1>5, <1>6, AdminSteps DEF Reads, Moves

-------------------------------------------------------------------------------
(* The jobs                                                                   *)

JobsOK ==
    /\ job \in [Call -> Jobs] /\ wire \in [Call -> Nat] /\ received \in [Call -> Nat]
    /\ replayed \in [Call -> 0 .. IdleConns]

LEMMA JobsKept ==
    ASSUME IInv, [Next]_vars
    PROVE  JobsOK' /\ AnswersAreReal' /\ OneRequest'
<1> USE DEF IInv, RemoteInv, TypeOK, JobsOK, AnswersAreReal, OneRequest
<1>1. CASE UNCHANGED <<job, wire, replayed, received>>
  BY <1>1
<1>2. ASSUME NEW c \in Call, NEW a \in Agent, Delegate(c, a)
      PROVE  JobsOK' /\ AnswersAreReal' /\ OneRequest'
  BY <1>2 DEF Delegate, NotYetThere, Jobs, JobStates, Stages, Answers
<1>3. ASSUME NEW c \in Call, Post(c) PROVE JobsOK' /\ AnswersAreReal' /\ OneRequest'
  <2>1. /\ job[c].state \notin Answers \cup {"absent"}
        /\ wire[c] = 0 /\ received[c] = 0 /\ replayed[c] = 0
    BY <1>3 DEF Post, Answers
  <2>2. wire' = [wire EXCEPT ![c] = 1] /\ received' = received /\ replayed' = replayed
    BY <1>3, <2>1 DEF Post
  <2>3. job' = [job EXCEPT ![c].stage = "sent"]
    BY <1>3 DEF Post
  <2>4. JobsOK'
    BY <2>2, <2>3 DEF Jobs, Stages
  <2>5. \A d \in Call : d # c => job'[d] = job[d] /\ wire'[d] = wire[d]
    BY <2>2, <2>3
  <2>6. job'[c].state = job[c].state /\ job'[c].stage = "sent" /\ wire'[c] = 1
    BY <2>2, <2>3 DEF Jobs
  <2>7. AnswersAreReal'
    BY <2>1, <2>2, <2>5, <2>6 DEF Answers
  <2>8. OneRequest'
    BY <2>1, <2>2, <2>5, <2>6
  <2> QED
    BY <2>4, <2>7, <2>8
<1>4. ASSUME NEW c \in Call, Receive(c) PROVE JobsOK' /\ AnswersAreReal' /\ OneRequest'
  BY <1>4 DEF Receive, Jobs, JobStates, Stages, Answers
<1>5. ASSUME NEW c \in Call, NEW result \in Answers \cup {"error"}, SendReturns(c, result)
      PROVE  JobsOK' /\ AnswersAreReal' /\ OneRequest'
  BY <1>5 DEF SendReturns, Jobs, JobStates, Stages, Answers
<1>6. ASSUME NEW c \in Call, FinishJob(c) PROVE JobsOK' /\ AnswersAreReal' /\ OneRequest'
  BY <1>6 DEF FinishJob, Returned, Outcome, Jobs, JobStates, Stages, Answers
<1>7. ASSUME NEW c \in Call, CallerGone(c) PROVE JobsOK' /\ AnswersAreReal' /\ OneRequest'
  BY <1>7 DEF CallerGone, Jobs, JobStates, Stages, Answers
<1>8. ASSUME NEW c \in Call, Replay(c) PROVE JobsOK' /\ AnswersAreReal' /\ OneRequest'
  <2>1. /\ wire' = [wire EXCEPT ![c] = @ + 1] /\ replayed' = [replayed EXCEPT ![c] = @ + 1]
        /\ UNCHANGED <<job, received>>
    BY <1>8 DEF Replay
  <2>2. replayed[c] + 1 \in 0 .. IdleConns /\ job[c].stage = "sent" /\ job[c].state # "absent"
    BY <1>8, IdleConnsType DEF Replay
  <2>3. JobsOK'
    BY <2>1, <2>2
  <2> QED
    BY <2>1, <2>2, <2>3
<1>9. ASSUME Next
      PROVE  \/ UNCHANGED <<job, wire, replayed, received>>
             \/ \E c \in Call :
                   \/ \E a \in Agent : Delegate(c, a)
                   \/ \E result \in Answers \cup {"error"} : SendReturns(c, result)
                   \/ Post(c) \/ Replay(c) \/ Receive(c) \/ FinishJob(c) \/ CallerGone(c)
  BY <1>9 DEF Next, Register, List, SetEnabled, VerifyBegin, ResolveCard, VerifyFinish, VerifyRefuse,
        RequestEnds, RevokeRole, ServeCard, RunMoves, Sending, jobVars
<1> QED
  BY <1>1, <1>2, <1>3, <1>4, <1>5, <1>6, <1>7, <1>8, <1>9 DEF vars

(* Who may act, what a card serves and whether a run runs: no step leaves the  *)
(* range of these.                                                             *)
LEMMA InputsKept ==
    ASSUME IInv, [Next]_vars
    PROVE  card' \in [Agent -> Cards] /\ allowed' \in [Admin -> BOOLEAN] /\ running' \in [Call -> BOOLEAN]
<1> USE DEF IInv, RemoteInv, TypeOK
<1>1. ASSUME Next
      PROVE  \/ UNCHANGED <<card, allowed, running>>
             \/ \E a \in Agent, c \in Cards : ServeCard(a, c)
             \/ \E m \in Admin : RevokeRole(m)
             \/ \E c \in Call : RunMoves(c)
  BY <1>1 DEF Next, Register, List, SetEnabled, VerifyBegin, ResolveCard, VerifyFinish, VerifyRefuse,
        RequestEnds, Delegate, Post, Replay, Receive, Sending, SendReturns, FinishJob, CallerGone, adminVars, jobVars
<1> QED
  BY <1>1 DEF vars, ServeCard, RevokeRole, RunMoves, adminVars, jobVars

LEMMA NextIInv == IInv /\ [Next]_vars => IInv'
BY AdminKept, JobsKept, InputsKept DEF IInv, RemoteInv, TypeOK, JobsOK

-------------------------------------------------------------------------------

LEMMA SpecIInv == Spec => []IInv
BY InitIInv, NextIInv, PTL DEF Spec

(* A registration that is switched on was verified against the pinned digest,  *)
(* and a job that shows an answer was received by its agent, whatever sessions *)
(* and invocations do at the same time.                                        *)
THEOREM RemoteCorrect == Spec => []RemoteInv
<1>1. IInv => RemoteInv
  BY DEF IInv
<1> QED
  BY <1>1, SpecIInv, PTL

(* However often a call is invoked, its agent gets the message once, and once  *)
(* more for each time the transport itself repeated the request.               *)
THEOREM ReceivedOnceCorrect == Spec => []ReceivedOncePerSend
<1>1. IInv => ReceivedOncePerSend
  BY IdleConnsType DEF IInv, RemoteInv, TypeOK, OneRequest, ReceivedOncePerSend
<1> QED
  BY <1>1, SpecIInv, PTL

(* A row is only written by a session whose page shows it as it is.            *)
THEOREM ChangesWhatWasSeenCorrect == Spec => ChangesWhatWasSeen
<1> DEFINE Seen == \A a \in Agent :
             remote[a].state # "absent" /\ remote'[a] # remote[a] =>
                 \E m \in Admin : admin[m].agent = a /\ admin[m].seen = remote[a]
<1>1. ASSUME IInv, [Next]_vars PROVE [Seen]_vars
  <2>1. ASSUME NEW m \in Admin, NEW b \in Agent, NEW row \in Rows, Writes(m, b, row)
        PROVE  Seen
    <3>1. admin[m].agent = b /\ admin[m].seen = remote[b]
      BY <1>1, <2>1 DEF Writes, SameRevision, IInv, PageIsPast
    <3>2. \A a \in Agent : a # b => remote'[a] = remote[a]
      BY <1>1, <2>1 DEF Writes, IInv, RemoteInv, TypeOK
    <3> QED
      BY <3>1, <3>2
  <2>2. ASSUME NEW m \in Admin, NEW b \in Agent, Registers(m, b) PROVE Seen
    BY <1>1, <2>2 DEF Registers, IInv, RemoteInv, TypeOK
  <2>3. UNCHANGED remote => Seen
    OBVIOUS
  <2> QED
    BY <1>1, <2>1, <2>2, <2>3, AdminSteps DEF Reads, Moves
<1> QED
  BY <1>1, SpecIInv, PTL DEF Spec, ChangesWhatWasSeen
===============================================================================
