--------------------------- MODULE AgentRuns_proofs ---------------------------
(***************************************************************************)
(* Proofs about AgentRuns, for every set of runs, lanes and workers and all*)
(* limits on attempts.                                                     *)
(*                                                                         *)
(* The safety properties hold together: none of them is inductive without  *)
(* the types, and each uses those before it in                             *)
(*     TypeOK, LeaseOfLatestClaim, SnapshotCurrent, ColumnsAgree,          *)
(*     GaplessSequence, OneTurnAtATime.                                    *)
(* A lemma for each shows that a step preserves it; the theorems follow.   *)
(***************************************************************************)
EXTENDS AgentRuns, Sequences, TLAPS

-------------------------------------------------------------------------------
(* Types                                                                      *)

LEMMA InitTypeOK == Init => TypeOK
BY DEF Init, TypeOK, FirstSequence, States, Phases, Claims, Idle

(* A worker that works on a run has one of Run.                                *)
LEMMA WorkerTypes ==
    ASSUME TypeOK, NEW w \in Worker, worker[w].run # NoRun
    PROVE  /\ worker[w].run \in Run
           /\ worker[w].token \in Nat
           /\ worker[w].phase \in Phases
           /\ worker[w].tries \in Nat
           /\ LaneOf[worker[w].run] \in Lane
BY LaneOfType DEF TypeOK, Claims

(* Enqueue, the clock and the control.                                         *)
LEMMA TypeOfLaneStep ==
    ASSUME TypeOK, LaneStep
    PROVE  TypeOK'
<1>1. CASE \E r \in Run : Enqueue(r)
  <2> PICK r \in Run : Enqueue(r)
    BY <1>1
  <2> USE DEF Enqueue
  <2>0. LaneOf[r] \in Lane /\ nextEnqueue[LaneOf[r]] \in Nat \ {0}
    BY LaneOfType DEF TypeOK
  <2>1. sequence' \in [Run -> Nat] /\ nextEnqueue' \in [Lane -> Nat \ {0}]
    <3>1. sequence' \in [Run -> Nat]
      BY <2>0 DEF TypeOK, AllocateSequence
    <3>2. nextEnqueue[LaneOf[r]] + 1 \in Nat \ {0}
      BY <2>0
    <3>3. nextEnqueue' \in [Lane -> Nat \ {0}]
      BY <3>2 DEF TypeOK, AllocateSequence
    <3> QED BY <3>1, <3>3
  <2>2. state' \in [Run -> States]
    BY DEF TypeOK, States
  <2>3. UNCHANGED <<nextDispatch, phase, route, action, tries, intent, attempts, leaseToken,
                    leaseValid, backoff, executionControl, worker>>
    BY DEF progressVars, leaseVars
  <2> HIDE DEF Enqueue
  <2> QED BY <2>1, <2>2, <2>3 DEF TypeOK
<1>2. CASE \E r \in Run : ClaimRun(r)
  <2> PICK r \in Run, w \in Worker, expired \in SUBSET Expirable : Claim(w, r, expired)
    BY <1>2 DEF ClaimRun
  <2> USE DEF Claim, laneVars, FreshToken
  <2>1. worker' \in [Worker -> Claims]
    <3>1. [run |-> r, token |-> FreshToken(r), phase |-> phase[r], tries |-> tries[r] + 1] \in Claims
      BY DEF TypeOK, Claims
    <3> QED BY <3>1 DEF TypeOK
  <2>2. state' \in [Run -> States]
    BY DEF TypeOK, States
  <2>3. attempts' \in [Run -> Nat] /\ tries' \in [Run -> Nat] /\ leaseToken' \in [Run -> Nat]
    BY DEF TypeOK
  <2>4. leaseValid' \in [Run -> BOOLEAN]
    BY DEF TypeOK
  <2>5. backoff' \in [Run -> BOOLEAN]
    BY DEF TypeOK
  <2> QED BY <2>1, <2>2, <2>3, <2>4, <2>5 DEF TypeOK
<1>3. CASE \E r \in Run : ExpireLease(r)
  BY <1>3 DEF TypeOK, ExpireLease, laneVars, progressVars
<1>4. CASE \E r \in Run : BackoffElapses(r)
  BY <1>4 DEF TypeOK, BackoffElapses, laneVars, progressVars, leaseVars
<1>5. CASE \E setting \in {"enabled", "paused"} : SetExecutionControl(setting)
  BY <1>5 DEF TypeOK, SetExecutionControl, laneVars, progressVars, leaseVars
<1> QED BY <1>1, <1>2, <1>3, <1>4, <1>5 DEF LaneStep

(* The statements that the worker's transactions share.                        *)
LEMMA TypeOfRelease ==
    ASSUME TypeOK, NEW w \in Worker, worker[w].run # NoRun, Release(w)
    PROVE  /\ leaseToken' \in [Run -> Nat]
           /\ leaseValid' \in [Run -> BOOLEAN]
           /\ worker' \in [Worker -> Claims]
<1>1. Idle \in Claims
  BY DEF Idle, Claims, Phases
<1> QED BY <1>1, WorkerTypes DEF TypeOK, Release

LEMMA TypeOfAdvance ==
    ASSUME TypeOK, NEW r \in Run, AdvanceLane(r)
    PROVE  nextDispatch' \in [Lane -> Nat \ {0}] /\ nextEnqueue' \in [Lane -> Nat \ {0}]
BY LaneOfType DEF TypeOK, AdvanceLane

LEMMA TypeOfProceed ==
    ASSUME TypeOK, NEW w \in Worker, worker[w].run # NoRun,
           NEW st \in States, NEW ph \in Phases, Proceed(w, st, ph),
           route' \in [Run -> Routes \cup {"none"}], action' \in [Run -> BOOLEAN]
    PROVE  TypeOK'
BY WorkerTypes, TypeOfRelease DEF TypeOK, Proceed

LEMMA TypeOfWorkerStep ==
    ASSUME TypeOK, NEW w \in Worker, WorkerStep(w)
    PROVE  TypeOK'
<1>1. CASE \E choice \in Route : SaveRoute(w, choice)
  BY <1>1, TypeOfProceed, WorkerTypes, RouteType
     DEF SaveRoute, HoldsLease, HoldsToken, States, Phases, TypeOK
<1>2. CASE SaveToolPlan(w)
  BY <1>2, TypeOfProceed, WorkerTypes
     DEF SaveToolPlan, HoldsLease, HoldsToken, States, Phases, TypeOK
<1>3. CASE SaveToolResult(w)
  BY <1>3, TypeOfProceed, WorkerTypes
     DEF SaveToolResult, HoldsLease, HoldsToken, States, Phases, TypeOK
<1>4. CASE \E proposes \in BOOLEAN : SaveCandidate(w, proposes)
  BY <1>4, TypeOfProceed, WorkerTypes
     DEF SaveCandidate, HoldsLease, HoldsToken, States, Phases, TypeOK
<1>5. CASE RetryLater(w)
  BY <1>5, TypeOfRelease, WorkerTypes
     DEF RetryLater, HoldsToken, laneVars, progressVars, States, TypeOK
<1>6. CASE FailRun(w)
  BY <1>6, TypeOfRelease, TypeOfAdvance, WorkerTypes
     DEF FailRun, HoldsToken, progressVars, States, TypeOK
<1>7. CASE Abandon(w)
  <2>1. Idle \in Claims
    BY DEF Idle, Claims, Phases
  <2> QED BY <1>7, <2>1 DEF Abandon, laneVars, progressVars, leaseVars, TypeOK
<1>8. CASE WaitForToolApproval(w)
  BY <1>8, TypeOfRelease, WorkerTypes
     DEF WaitForToolApproval, HoldsToken, laneVars, progressVars, States, TypeOK
<1>9. CASE EnsureIntent(w)
  BY <1>9, WorkerTypes DEF EnsureIntent, laneVars, progressVars, leaseVars, TypeOK
<1>10. CASE PrepareDelivery(w)
  BY <1>10, TypeOfRelease, WorkerTypes
     DEF PrepareDelivery, HoldsLease, HoldsToken, laneVars, progressVars, States, TypeOK
<1> QED BY <1>1, <1>2, <1>3, <1>4, <1>5, <1>6, <1>7, <1>8, <1>9, <1>10
           DEF WorkerStep, AnswerStep, FailOrRetry

LEMMA TypeOfOthersStep ==
    ASSUME TypeOK, ToolStep \/ DeliveryStep \/ ActionStep
    PROVE  TypeOK'
<1> USE DEF Become, progressVars, leaseVars, States, TypeOK
<1>1. CASE \E r \in Run : ResumeFromToolApproval(r)
  BY <1>1 DEF ResumeFromToolApproval, laneVars
<1>2. CASE \E r \in Run : SettleDelivery(r)
  BY <1>2, TypeOfAdvance DEF SettleDelivery
<1>3. CASE \E r \in Run : CompleteAction(r)
  BY <1>3 DEF CompleteAction, laneVars
<1>4. CASE \E r \in Run : FailAction(r)
  BY <1>4 DEF FailAction, laneVars
<1> QED BY <1>1, <1>2, <1>3, <1>4 DEF ToolStep, DeliveryStep, ActionStep

LEMMA TypeStep == TypeOK /\ [Next]_runVars => TypeOK'
<1> SUFFICES ASSUME TypeOK, [Next]_runVars PROVE TypeOK'
  OBVIOUS
<1>1. CASE UNCHANGED runVars
  BY <1>1 DEF runVars, TypeOK
<1>2. CASE Next
  BY <1>2, TypeOfLaneStep, TypeOfWorkerStep, TypeOfOthersStep DEF Next
<1> QED BY <1>1, <1>2

(* Every reachable state has the types that the tables declare, whatever the   *)
(* workers, the clock and the other components do.                             *)
THEOREM TypeCorrect == Spec => []TypeOK
BY InitTypeOK, TypeStep, PTL DEF Spec

-------------------------------------------------------------------------------
(* Leases                                                                     *)

LEMMA InitLease == Init => LeaseOfLatestClaim
BY DEF Init, LeaseOfLatestClaim

(* A run that leaves "running" by a transaction that releases it.              *)
LEMMA LeaseOfRelease ==
    ASSUME TypeOK, LeaseOfLatestClaim, NEW w \in Worker, worker[w].run # NoRun, Release(w),
           NEW st \in States \ {"running"},
           state' = [state EXCEPT ![worker[w].run] = st], UNCHANGED attempts
    PROVE  LeaseOfLatestClaim'
BY WorkerTypes DEF TypeOK, Release, LeaseOfLatestClaim

LEMMA LeaseOfWorkerStep ==
    ASSUME TypeOK, LeaseOfLatestClaim, NEW w \in Worker, WorkerStep(w)
    PROVE  LeaseOfLatestClaim'
<1>1. CASE \E choice \in Route : SaveRoute(w, choice)
  BY <1>1, LeaseOfRelease DEF SaveRoute, HoldsLease, HoldsToken, Proceed, States
<1>2. CASE SaveToolPlan(w)
  BY <1>2, LeaseOfRelease DEF SaveToolPlan, HoldsLease, HoldsToken, Proceed, States
<1>3. CASE SaveToolResult(w)
  BY <1>3, LeaseOfRelease DEF SaveToolResult, HoldsLease, HoldsToken, Proceed, States
<1>4. CASE \E proposes \in BOOLEAN : SaveCandidate(w, proposes)
  BY <1>4, LeaseOfRelease DEF SaveCandidate, HoldsLease, HoldsToken, Proceed, States
<1>5. CASE RetryLater(w)
  <2> DEFINE st == IF phase[worker[w].run] = "finalize" THEN "reply_pending" ELSE "queued"
  <2>1. st \in States \ {"running"}
    BY DEF States
  <2>2. /\ worker[w].run # NoRun /\ Release(w) /\ UNCHANGED attempts
        /\ state' = [state EXCEPT ![worker[w].run] = st]
    BY <1>5 DEF RetryLater, HoldsToken
  <2> HIDE DEF st
  <2> QED BY <2>1, <2>2, LeaseOfRelease
<1>6. CASE FailRun(w)
  BY <1>6, LeaseOfRelease DEF FailRun, HoldsToken, States
<1>7. CASE Abandon(w)
  BY <1>7 DEF Abandon, leaseVars, LeaseOfLatestClaim
<1>8. CASE WaitForToolApproval(w)
  BY <1>8, LeaseOfRelease DEF WaitForToolApproval, HoldsToken, States
<1>9. CASE EnsureIntent(w)
  BY <1>9 DEF EnsureIntent, leaseVars, LeaseOfLatestClaim
<1>10. CASE PrepareDelivery(w)
  BY <1>10, LeaseOfRelease DEF PrepareDelivery, HoldsLease, HoldsToken, States
<1> QED BY <1>1, <1>2, <1>3, <1>4, <1>5, <1>6, <1>7, <1>8, <1>9, <1>10
           DEF WorkerStep, AnswerStep, FailOrRetry

(* A step of another component moves a run that is not running.                *)
LEMMA LeaseOfBecome ==
    ASSUME TypeOK, LeaseOfLatestClaim, NEW r \in Run, state[r] # "running",
           NEW st \in States \ {"running"}, Become(r, st)
    PROVE  LeaseOfLatestClaim'
BY DEF TypeOK, Become, leaseVars, LeaseOfLatestClaim

LEMMA LeaseOfOthersStep ==
    ASSUME TypeOK, LeaseOfLatestClaim, ToolStep \/ DeliveryStep \/ ActionStep
    PROVE  LeaseOfLatestClaim'
<1>1. CASE \E r \in Run : ResumeFromToolApproval(r)
  BY <1>1, LeaseOfBecome DEF ResumeFromToolApproval, AwaitingTool, States
<1>2. CASE \E r \in Run : SettleDelivery(r)
  BY <1>2, LeaseOfBecome DEF SettleDelivery, States
<1>3. CASE \E r \in Run : CompleteAction(r)
  BY <1>3, LeaseOfBecome DEF CompleteAction, AwaitingAction, States
<1>4. CASE \E r \in Run : FailAction(r)
  BY <1>4, LeaseOfBecome DEF FailAction, States
<1> QED BY <1>1, <1>2, <1>3, <1>4 DEF ToolStep, DeliveryStep, ActionStep

LEMMA LeaseOfClaim ==
    ASSUME TypeOK, LeaseOfLatestClaim, NEW r \in Run, ClaimRun(r)
    PROVE  LeaseOfLatestClaim'
<1> PICK w \in Worker, expired \in SUBSET Expirable : Claim(w, r, expired)
  BY DEF ClaimRun
<1> SUFFICES ASSUME NEW x \in Run
             PROVE  /\ leaseToken'[x] = IF state'[x] = "running" THEN attempts'[x] ELSE 0
                    /\ leaseValid'[x] => state'[x] = "running"
                    /\ state'[x] = "running" => attempts'[x] > 0
  BY DEF LeaseOfLatestClaim
<1>1. CASE x = r
  BY <1>1 DEF Claim, FreshToken, TypeOK
<1>2. CASE x # r
  <2>1. UNCHANGED <<leaseToken[x], leaseValid[x], attempts[x]>>
    BY <1>2 DEF Claim, TypeOK
  <2>2. CASE x \in expired
    BY <1>2, <2>1, <2>2 DEF Claim, AwaitingTool, TypeOK, LeaseOfLatestClaim
  <2>3. CASE x \notin expired
    BY <1>2, <2>1, <2>3 DEF Claim, TypeOK, LeaseOfLatestClaim
  <2> QED BY <2>2, <2>3
<1> QED BY <1>1, <1>2

LEMMA LeaseStep == TypeOK /\ LeaseOfLatestClaim /\ [Next]_runVars => LeaseOfLatestClaim'
<1> SUFFICES ASSUME TypeOK, LeaseOfLatestClaim, [Next]_runVars PROVE LeaseOfLatestClaim'
  OBVIOUS
<1>1. CASE UNCHANGED runVars
  BY <1>1 DEF runVars, LeaseOfLatestClaim
<1>2. CASE \E r \in Run : Enqueue(r)
  BY <1>2 DEF Enqueue, leaseVars, TypeOK, LeaseOfLatestClaim
<1>3. CASE \E r \in Run : ExpireLease(r)
  BY <1>3 DEF ExpireLease, TypeOK, LeaseOfLatestClaim
<1>4. CASE \E r \in Run : BackoffElapses(r)
  BY <1>4 DEF BackoffElapses, leaseVars, LeaseOfLatestClaim
<1>5. CASE \E setting \in {"enabled", "paused"} : SetExecutionControl(setting)
  BY <1>5 DEF SetExecutionControl, leaseVars, LeaseOfLatestClaim
<1> QED BY <1>1, <1>2, <1>3, <1>4, <1>5, LeaseOfClaim, LeaseOfWorkerStep, LeaseOfOthersStep
        DEF Next, LaneStep

(* For every number of runs, workers and attempts: a run has a lease exactly   *)
(* while it is running, and it is the one of the latest claim of the run.      *)
THEOREM LeaseCorrect == Spec => []LeaseOfLatestClaim
BY InitTypeOK, TypeStep, InitLease, LeaseStep, PTL DEF Spec

-------------------------------------------------------------------------------
(* Snapshots                                                                  *)

LEMMA InitSnapshot == Init => SnapshotCurrent
BY DEF Init, SnapshotCurrent, Idle

(* A step that hands no run to a worker keeps the snapshots current if every   *)
(* worker that still holds its token afterwards finds the same row.            *)
LEMMA SnapshotKept ==
    ASSUME SnapshotCurrent, NoRunType, UNCHANGED attempts,
           \A v \in Worker : worker'[v] = worker[v] \/ worker'[v] = Idle,
           \A v \in Worker : worker'[v] = worker[v] /\ HoldsToken(v)' =>
               /\ HoldsToken(v)
               /\ phase'[worker[v].run] = phase[worker[v].run]
               /\ tries'[worker[v].run] = tries[worker[v].run]
    PROVE  SnapshotCurrent'
<1> SUFFICES ASSUME NEW v \in Worker, worker'[v].run # NoRun
             PROVE  /\ worker'[v].token \in 1 .. attempts'[worker'[v].run]
                    /\ HoldsToken(v)' => /\ worker'[v].phase = phase'[worker'[v].run]
                                         /\ worker'[v].tries = tries'[worker'[v].run]
                    /\ \A u \in Worker : u # v /\ worker'[u].run = worker'[v].run =>
                          worker'[u].token # worker'[v].token
  BY DEF SnapshotCurrent
<1>1. worker'[v] = worker[v]
  BY DEF Idle
<1>2. worker'[v].token \in 1 .. attempts'[worker'[v].run]
  BY <1>1 DEF SnapshotCurrent
<1>3. HoldsToken(v)' => /\ worker'[v].phase = phase'[worker'[v].run]
                        /\ worker'[v].tries = tries'[worker'[v].run]
  BY <1>1 DEF SnapshotCurrent
<1>4. ASSUME NEW u \in Worker, u # v, worker'[u].run = worker'[v].run
      PROVE  worker'[u].token # worker'[v].token
  <2>1. worker'[u] = worker[u]
    BY <1>4 DEF Idle
  <2> QED BY <1>1, <1>4, <2>1 DEF SnapshotCurrent
<1> QED BY <1>2, <1>3, <1>4

(* After the release of a run no worker holds its token.                       *)
LEMMA SnapshotOfRelease ==
    ASSUME TypeOK, SnapshotCurrent, NEW w \in Worker, worker[w].run # NoRun, Release(w),
           UNCHANGED attempts,
           \A x \in Run \ {worker[w].run} :
               state'[x] = state[x] /\ phase'[x] = phase[x] /\ tries'[x] = tries[x]
    PROVE  SnapshotCurrent'
<1>1. \A v \in Worker : worker'[v] = worker[v] \/ worker'[v] = Idle
  BY DEF TypeOK, Release
<1>2. ASSUME NEW v \in Worker, worker'[v] = worker[v], HoldsToken(v)'
      PROVE  /\ HoldsToken(v)
             /\ phase'[worker[v].run] = phase[worker[v].run]
             /\ tries'[worker[v].run] = tries[worker[v].run]
  <2>1. worker[v].run \in Run /\ worker[v].run # NoRun /\ worker[v].token \in Nat
    BY <1>2, WorkerTypes DEF HoldsToken
  <2>2. worker[v].run # worker[w].run
    <3>1. SUFFICES ASSUME worker[v].run = worker[w].run PROVE FALSE
      OBVIOUS
    <3>2. leaseToken'[worker[v].run] = 0
      BY <2>1, <3>1 DEF Release, TypeOK
    <3>3. worker[v].token > 0
      BY <2>1, TypeOK DEF SnapshotCurrent, TypeOK
    <3> QED BY <1>2, <3>2, <3>3 DEF HoldsToken
  <2>3. leaseToken'[worker[v].run] = leaseToken[worker[v].run]
    BY <2>1, <2>2 DEF Release, TypeOK
  <2> QED BY <1>2, <2>1, <2>2, <2>3 DEF HoldsToken
<1> QED BY <1>1, <1>2, SnapshotKept, NoRunType

LEMMA SnapshotOfWorkerStep ==
    ASSUME TypeOK, SnapshotCurrent, NEW w \in Worker, WorkerStep(w)
    PROVE  SnapshotCurrent'
<1>1. CASE \E choice \in Route : SaveRoute(w, choice)
  BY <1>1, SnapshotOfRelease, WorkerTypes DEF SaveRoute, HoldsLease, HoldsToken, Proceed, TypeOK
<1>2. CASE SaveToolPlan(w)
  BY <1>2, SnapshotOfRelease, WorkerTypes DEF SaveToolPlan, HoldsLease, HoldsToken, Proceed, TypeOK
<1>3. CASE SaveToolResult(w)
  BY <1>3, SnapshotOfRelease, WorkerTypes
     DEF SaveToolResult, HoldsLease, HoldsToken, Proceed, TypeOK
<1>4. CASE \E proposes \in BOOLEAN : SaveCandidate(w, proposes)
  BY <1>4, SnapshotOfRelease, WorkerTypes
     DEF SaveCandidate, HoldsLease, HoldsToken, Proceed, TypeOK
<1>5. CASE RetryLater(w)
  BY <1>5, SnapshotOfRelease, WorkerTypes DEF RetryLater, HoldsToken, progressVars, TypeOK
<1>6. CASE FailRun(w)
  BY <1>6, SnapshotOfRelease, WorkerTypes DEF FailRun, HoldsToken, progressVars, TypeOK
<1>7. CASE Abandon(w)
  <2>1. \A v \in Worker : worker'[v] = worker[v] \/ worker'[v] = Idle
    BY <1>7 DEF Abandon, TypeOK
  <2>2. UNCHANGED <<attempts, state, phase, tries, leaseToken>>
    BY <1>7 DEF Abandon, progressVars, leaseVars
  <2> QED BY <2>1, <2>2, SnapshotKept, NoRunType DEF HoldsToken
<1>8. CASE WaitForToolApproval(w)
  BY <1>8, SnapshotOfRelease, WorkerTypes DEF WaitForToolApproval, HoldsToken, progressVars, TypeOK
<1>9. CASE EnsureIntent(w)
  <2>1. UNCHANGED <<worker, attempts, state, phase, tries, leaseToken>>
    BY <1>9 DEF EnsureIntent, progressVars, leaseVars
  <2> QED BY <2>1, SnapshotKept, NoRunType DEF HoldsToken
<1>10. CASE PrepareDelivery(w)
  BY <1>10, SnapshotOfRelease, WorkerTypes
     DEF PrepareDelivery, HoldsLease, HoldsToken, progressVars, TypeOK
<1> QED BY <1>1, <1>2, <1>3, <1>4, <1>5, <1>6, <1>7, <1>8, <1>9, <1>10
           DEF WorkerStep, AnswerStep, FailOrRetry

LEMMA SnapshotOfBecome ==
    ASSUME TypeOK, SnapshotCurrent, NEW r \in Run, NEW st \in States \ {"running"}, Become(r, st)
    PROVE  SnapshotCurrent'
<1>1. UNCHANGED <<worker, attempts, phase, tries, leaseToken>>
  BY DEF Become, progressVars, leaseVars
<1>2. ASSUME NEW v \in Worker, HoldsToken(v)' PROVE HoldsToken(v)
  BY <1>1, <1>2, WorkerTypes DEF HoldsToken, Become, TypeOK
<1> QED BY <1>1, <1>2, SnapshotKept, NoRunType

LEMMA SnapshotOfOthersStep ==
    ASSUME TypeOK, SnapshotCurrent, ToolStep \/ DeliveryStep \/ ActionStep
    PROVE  SnapshotCurrent'
<1>1. CASE \E r \in Run : ResumeFromToolApproval(r)
  BY <1>1, SnapshotOfBecome DEF ResumeFromToolApproval, States
<1>2. CASE \E r \in Run : SettleDelivery(r)
  BY <1>2, SnapshotOfBecome DEF SettleDelivery, States
<1>3. CASE \E r \in Run : CompleteAction(r)
  BY <1>3, SnapshotOfBecome DEF CompleteAction, States
<1>4. CASE \E r \in Run : FailAction(r)
  BY <1>4, SnapshotOfBecome DEF FailAction, States
<1> QED BY <1>1, <1>2, <1>3, <1>4 DEF ToolStep, DeliveryStep, ActionStep

(* The claimed run gets a token above every token handed out for it before.    *)
LEMMA SnapshotOfClaim ==
    ASSUME TypeOK, SnapshotCurrent, NEW r \in Run, ClaimRun(r)
    PROVE  SnapshotCurrent'
<1> PICK w \in Worker, expired \in SUBSET Expirable : Claim(w, r, expired)
  BY DEF ClaimRun
<1>1. /\ worker'[w] = [run |-> r, token |-> attempts[r] + 1, phase |-> phase[r],
                       tries |-> tries[r] + 1]
      /\ attempts'[r] = attempts[r] + 1 /\ tries'[r] = tries[r] + 1 /\ phase' = phase
      /\ leaseToken'[r] = attempts[r] + 1
      /\ attempts[r] \in Nat
  BY DEF Claim, FreshToken, TypeOK
<1>2. /\ \A v \in Worker \ {w} : worker'[v] = worker[v]
      /\ \A x \in Run \ {r} : /\ attempts'[x] = attempts[x] /\ tries'[x] = tries[x]
                              /\ leaseToken'[x] = leaseToken[x]
                              /\ state'[x] = "running" => state[x] = "running"
  BY DEF Claim, TypeOK
<1> SUFFICES ASSUME NEW v \in Worker, worker'[v].run # NoRun
             PROVE  /\ worker'[v].token \in 1 .. attempts'[worker'[v].run]
                    /\ HoldsToken(v)' => /\ worker'[v].phase = phase'[worker'[v].run]
                                         /\ worker'[v].tries = tries'[worker'[v].run]
                    /\ \A u \in Worker : u # v /\ worker'[u].run = worker'[v].run =>
                          worker'[u].token # worker'[v].token
  BY DEF SnapshotCurrent
(* a worker that worked on r before has a token below the new one              *)
<1>3. \A u \in Worker : worker[u].run = r => worker[u].token \in 1 .. attempts[r]
  BY NoRunType DEF SnapshotCurrent
<1>4. CASE v = w
  <2>1. \A u \in Worker : u # v /\ worker'[u].run = worker'[v].run =>
          worker'[u].token # worker'[v].token
    BY <1>1, <1>2, <1>3, <1>4
  <2> QED BY <1>1, <1>4, <2>1
<1>5. CASE v # w
  <2>0. worker'[v] = worker[v] /\ worker[v].run \in Run /\ worker[v].token \in Nat
    BY <1>2, <1>5, WorkerTypes
  <2>1. CASE worker[v].run = r
    <3>1. worker[v].token \in 1 .. attempts[r]
      BY <1>3, <2>1
    <3>2. ~HoldsToken(v)'
      BY <1>1, <2>0, <2>1, <3>1 DEF HoldsToken
    <3>3. \A u \in Worker : u # v /\ worker'[u].run = worker'[v].run =>
            worker'[u].token # worker'[v].token
      BY <1>1, <1>2, <2>0, <2>1, <3>1, NoRunType DEF SnapshotCurrent
    <3> QED BY <1>1, <2>0, <2>1, <3>1, <3>2, <3>3
  <2>2. CASE worker[v].run # r
    <3>1. worker[v].token \in 1 .. attempts'[worker[v].run]
      BY <1>2, <2>0, <2>2 DEF SnapshotCurrent
    <3>2. HoldsToken(v)' => HoldsToken(v)
      BY <1>2, <2>0, <2>2 DEF HoldsToken
    <3>3. HoldsToken(v)' => /\ worker'[v].phase = phase'[worker'[v].run]
                            /\ worker'[v].tries = tries'[worker'[v].run]
      BY <1>1, <1>2, <2>0, <2>2, <3>2 DEF SnapshotCurrent
    <3>4. \A u \in Worker : u # v /\ worker'[u].run = worker'[v].run =>
            worker'[u].token # worker'[v].token
      BY <1>1, <1>2, <2>0, <2>2 DEF SnapshotCurrent
    <3> QED BY <2>0, <3>1, <3>3, <3>4
  <2> QED BY <2>1, <2>2
<1> QED BY <1>4, <1>5

LEMMA SnapshotStep == TypeOK /\ SnapshotCurrent /\ [Next]_runVars => SnapshotCurrent'
<1> SUFFICES ASSUME TypeOK, SnapshotCurrent, [Next]_runVars PROVE SnapshotCurrent'
  OBVIOUS
<1>1. CASE UNCHANGED runVars
  BY <1>1, SnapshotKept, NoRunType DEF runVars, HoldsToken
<1>2. ASSUME NEW r \in Run, Enqueue(r) PROVE SnapshotCurrent'
  <2>1. UNCHANGED <<worker, attempts, phase, tries, leaseToken>>
    BY <1>2 DEF Enqueue, progressVars, leaseVars
  <2>2. ASSUME NEW v \in Worker, HoldsToken(v)' PROVE HoldsToken(v)
    BY <1>2, <2>1, <2>2, WorkerTypes DEF HoldsToken, Enqueue, TypeOK
  <2> QED BY <2>1, <2>2, SnapshotKept, NoRunType
<1>3. CASE \E r \in Run : ExpireLease(r)
  BY <1>3, SnapshotKept, NoRunType DEF ExpireLease, progressVars, HoldsToken
<1>4. CASE \E r \in Run : BackoffElapses(r)
  BY <1>4, SnapshotKept, NoRunType DEF BackoffElapses, progressVars, leaseVars, HoldsToken
<1>5. CASE \E setting \in {"enabled", "paused"} : SetExecutionControl(setting)
  BY <1>5, SnapshotKept, NoRunType DEF SetExecutionControl, progressVars, leaseVars, HoldsToken
<1> QED BY <1>1, <1>2, <1>3, <1>4, <1>5, SnapshotOfClaim, SnapshotOfWorkerStep,
           SnapshotOfOthersStep DEF Next, LaneStep

(* What a worker has read of a run stays what the row says for as long as the  *)
(* worker's token does, and no two workers have the same token of a run.       *)
THEOREM SnapshotCorrect == Spec => []SnapshotCurrent
BY InitTypeOK, TypeStep, InitSnapshot, SnapshotStep, PTL DEF Spec

-------------------------------------------------------------------------------
(* Stale workers                                                              *)

Taken(r) == state[r] = "running" /\ (state'[r] # "running" \/ phase'[r] # phase[r])
TakenBy(w, r) == /\ worker[w].run = r
                 /\ worker[w].token = attempts[r]
                 /\ worker[w].phase = phase[r]
                 /\ worker'[w] = Idle

(* A worker that holds the token is the one of the latest claim.               *)
LEMMA TokenIsLatest ==
    ASSUME TypeOK, LeaseOfLatestClaim, SnapshotCurrent, NEW w \in Worker, HoldsToken(w),
           Release(w), NEW r \in Run, worker[w].run = r
    PROVE  TakenBy(w, r)
BY WorkerTypes DEF TypeOK, LeaseOfLatestClaim, SnapshotCurrent, HoldsToken, Release, TakenBy

LEMMA StaleInStep ==
    ASSUME TypeOK, LeaseOfLatestClaim, SnapshotCurrent, [Next]_runVars, NEW r \in Run, Taken(r)
    PROVE  \E w \in Worker : TakenBy(w, r)
<1>1. CASE UNCHANGED runVars
  BY <1>1 DEF runVars, Taken
<1>2. CASE LaneStep
  <2>1. ASSUME NEW x \in Run, Enqueue(x) PROVE FALSE
    BY <2>1 DEF Enqueue, progressVars, Taken, TypeOK
  <2>2. ASSUME NEW x \in Run, ClaimRun(x) PROVE FALSE
    <3> PICK w \in Worker, expired \in SUBSET Expirable : Claim(w, x, expired)
      BY <2>2 DEF ClaimRun
    <3> QED BY DEF Claim, AwaitingTool, Taken, TypeOK
  <2>3. ASSUME NEW x \in Run, ExpireLease(x) \/ BackoffElapses(x) PROVE FALSE
    BY <2>3 DEF ExpireLease, BackoffElapses, progressVars, Taken
  <2>4. ASSUME NEW setting \in {"enabled", "paused"}, SetExecutionControl(setting) PROVE FALSE
    BY <2>4 DEF SetExecutionControl, progressVars, Taken
  <2> QED BY <1>2, <2>1, <2>2, <2>3, <2>4 DEF LaneStep
<1>3. ASSUME NEW w \in Worker, WorkerStep(w) PROVE TakenBy(w, r)
  <2>1. CASE \E choice \in Route : SaveRoute(w, choice)
    <3>1. HoldsToken(w) /\ Release(w) /\ worker[w].run = r
      BY <2>1 DEF SaveRoute, HoldsLease, HoldsToken, Proceed, Taken, TypeOK
    <3> QED BY <3>1, TokenIsLatest
  <2>2. CASE SaveToolPlan(w)
    <3>1. HoldsToken(w) /\ Release(w) /\ worker[w].run = r
      BY <2>2 DEF SaveToolPlan, HoldsLease, HoldsToken, Proceed, Taken, TypeOK
    <3> QED BY <3>1, TokenIsLatest
  <2>3. CASE SaveToolResult(w)
    <3>1. HoldsToken(w) /\ Release(w) /\ worker[w].run = r
      BY <2>3 DEF SaveToolResult, HoldsLease, HoldsToken, Proceed, Taken, TypeOK
    <3> QED BY <3>1, TokenIsLatest
  <2>4. CASE \E proposes \in BOOLEAN : SaveCandidate(w, proposes)
    <3>1. HoldsToken(w) /\ Release(w) /\ worker[w].run = r
      BY <2>4 DEF SaveCandidate, HoldsLease, HoldsToken, Proceed, Taken, TypeOK
    <3> QED BY <3>1, TokenIsLatest
  <2>5. CASE RetryLater(w) \/ FailRun(w) \/ WaitForToolApproval(w) \/ PrepareDelivery(w)
    <3>1. HoldsToken(w) /\ Release(w)
      BY <2>5 DEF RetryLater, FailRun, WaitForToolApproval, PrepareDelivery, HoldsLease
    <3>2. worker[w].run = r
      BY <2>5 DEF RetryLater, FailRun, WaitForToolApproval, PrepareDelivery, progressVars, Taken,
                  TypeOK
    <3> QED BY <3>1, <3>2, TokenIsLatest
  <2>6. CASE Abandon(w) \/ EnsureIntent(w)
    BY <2>6 DEF Abandon, EnsureIntent, progressVars, Taken
  <2> QED BY <1>3, <2>1, <2>2, <2>3, <2>4, <2>5, <2>6 DEF WorkerStep, AnswerStep, FailOrRetry
<1>4. CASE ToolStep \/ DeliveryStep \/ ActionStep
  <2>1. ASSUME NEW x \in Run, state[x] # "running", NEW st \in States, Become(x, st) PROVE FALSE
    BY <2>1 DEF Become, progressVars, Taken, TypeOK
  <2>2. PICK x \in Run : \/ ResumeFromToolApproval(x) \/ SettleDelivery(x)
                         \/ CompleteAction(x) \/ FailAction(x)
    BY <1>4 DEF ToolStep, DeliveryStep, ActionStep
  <2>3. state[x] # "running"
    BY <2>2 DEF ResumeFromToolApproval, SettleDelivery, CompleteAction, FailAction,
                AwaitingTool, AwaitingAction
  <2>4. \E st \in States : Become(x, st)
    BY <2>2 DEF ResumeFromToolApproval, SettleDelivery, CompleteAction, FailAction, States
  <2> QED BY <2>1, <2>3, <2>4
<1> QED BY <1>1, <1>2, <1>3, <1>4 DEF Next

(* A worker that has lost its claim takes no run out of "running" and changes  *)
(* no phase, whatever it still tries to save: whoever does is the last to have *)
(* claimed the run and acts on the phase the row is in.                        *)
THEOREM StaleWorkerHarmless == Spec => StaleWorkerInert
<1>1. TypeOK /\ LeaseOfLatestClaim /\ SnapshotCurrent /\ [Next]_runVars =>
        [\A r \in Run : Taken(r) => \E w \in Worker : TakenBy(w, r)]_runVars
  BY StaleInStep
<1>2. Spec => [][\A r \in Run : Taken(r) => \E w \in Worker : TakenBy(w, r)]_runVars
  BY <1>1, TypeCorrect, LeaseCorrect, SnapshotCorrect, PTL DEF Spec
<1> QED BY <1>2 DEF StaleWorkerInert, Taken, TakenBy

-------------------------------------------------------------------------------
(* Columns                                                                    *)

LEMMA InitColumns == Init => ColumnsAgree
BY DEF Init, ColumnsAgree, RowAgrees

(* Only the row of the worker's run changes, and the worker knows its phase.   *)
LEMMA ColumnsOfWorkerStep ==
    ASSUME TypeOK, SnapshotCurrent, ColumnsAgree, NEW w \in Worker, WorkerStep(w)
    PROVE  ColumnsAgree'
<1> USE DEF RowAgrees, AwaitingTool, AwaitingAction
<1> SUFFICES ASSUME NEW x \in Run PROVE RowAgrees(x)'
  BY DEF ColumnsAgree
<1>0. RowAgrees(x)
  BY DEF ColumnsAgree
<1>1. HoldsToken(w) => worker[w].phase = phase[worker[w].run]
  BY DEF SnapshotCurrent, HoldsToken
<1>2. CASE \E choice \in Route : SaveRoute(w, choice)
  <2>1. "none" \notin Route
    BY RouteType DEF Routes
  <2> QED BY <1>0, <1>1, <1>2, <2>1 DEF SaveRoute, HoldsLease, Proceed, TypeOK
<1>3. CASE SaveToolPlan(w)
  BY <1>0, <1>1, <1>3 DEF SaveToolPlan, HoldsLease, Proceed, TypeOK
<1>4. CASE SaveToolResult(w)
  BY <1>0, <1>1, <1>4 DEF SaveToolResult, HoldsLease, Proceed, TypeOK
<1>5. ASSUME NEW proposes \in BOOLEAN, SaveCandidate(w, proposes) PROVE RowAgrees(x)'
  <2>1. CASE x = worker[w].run
    <3>1. /\ state'[x] = "reply_pending" /\ phase'[x] = "finalize"
          /\ UNCHANGED <<route, intent>>
      BY <1>5, <2>1 DEF SaveCandidate, Proceed, TypeOK
    <3>2. phase[x] # "finalize" /\ phase[x] # "route"
      BY <1>1, <1>5, <2>1 DEF SaveCandidate, HoldsLease
    <3> QED BY <1>0, <3>1, <3>2
  <2>2. CASE x # worker[w].run
    BY <1>0, <1>5, <2>2 DEF SaveCandidate, Proceed, TypeOK
  <2> QED BY <2>1, <2>2
<1>6. CASE RetryLater(w)
  BY <1>0, <1>6 DEF RetryLater, HoldsToken, progressVars, TypeOK
<1>7. CASE FailRun(w)
  BY <1>0, <1>7 DEF FailRun, HoldsToken, progressVars, TypeOK
<1>8. CASE Abandon(w)
  BY <1>0, <1>8 DEF Abandon, progressVars
<1>9. CASE WaitForToolApproval(w)
  BY <1>0, <1>1, <1>9 DEF WaitForToolApproval, progressVars, TypeOK
<1>10. CASE EnsureIntent(w)
  BY <1>0, <1>10 DEF EnsureIntent, progressVars, TypeOK
<1>11. CASE PrepareDelivery(w)
  BY <1>0, <1>1, <1>11 DEF PrepareDelivery, HoldsLease, progressVars, TypeOK
<1> QED BY <1>2, <1>3, <1>4, <1>5, <1>6, <1>7, <1>8, <1>9, <1>10, <1>11
           DEF WorkerStep, AnswerStep, FailOrRetry

LEMMA ColumnsOfOthersStep ==
    ASSUME TypeOK, ColumnsAgree, ToolStep \/ DeliveryStep \/ ActionStep
    PROVE  ColumnsAgree'
<1> USE DEF RowAgrees, AwaitingTool, AwaitingAction, Become, progressVars, TypeOK
<1> SUFFICES ASSUME NEW x \in Run PROVE RowAgrees(x)'
  BY DEF ColumnsAgree
<1>0. RowAgrees(x)
  BY DEF ColumnsAgree
<1>1. CASE \E r \in Run : ResumeFromToolApproval(r)
  BY <1>0, <1>1 DEF ResumeFromToolApproval
<1>2. CASE \E r \in Run : SettleDelivery(r)
  BY <1>0, <1>2 DEF SettleDelivery
<1>3. CASE \E r \in Run : CompleteAction(r)
  BY <1>0, <1>3 DEF CompleteAction
<1>4. CASE \E r \in Run : FailAction(r)
  BY <1>0, <1>4 DEF FailAction
<1> QED BY <1>1, <1>2, <1>3, <1>4 DEF ToolStep, DeliveryStep, ActionStep

LEMMA ColumnsOfLaneStep ==
    ASSUME TypeOK, ColumnsAgree, LaneStep
    PROVE  ColumnsAgree'
<1> USE DEF RowAgrees, AwaitingTool, AwaitingAction, progressVars
<1> SUFFICES ASSUME NEW x \in Run PROVE RowAgrees(x)'
  BY DEF ColumnsAgree
<1>0. RowAgrees(x)
  BY DEF ColumnsAgree
<1>1. CASE \E r \in Run : Enqueue(r)
  BY <1>0, <1>1 DEF Enqueue, TypeOK
<1>2. ASSUME NEW r \in Run, ClaimRun(r) PROVE RowAgrees(x)'
  <2> PICK w \in Worker, expired \in SUBSET Expirable : Claim(w, r, expired)
    BY <1>2 DEF ClaimRun
  <2>1. UNCHANGED <<phase, route, action, intent>>
    BY DEF Claim
  <2>2. state'[x] # state[x] => state'[x] \in {"running", "queued"}
    BY DEF Claim, TypeOK
  <2>3. state'[x] = "absent" => state[x] = "absent" /\ x # r /\ attempts'[x] = attempts[x]
    BY <2>2 DEF Claim, TypeOK
  <2> QED BY <1>0, <2>1, <2>2, <2>3
<1>3. CASE \E r \in Run : ExpireLease(r) \/ BackoffElapses(r)
  BY <1>0, <1>3 DEF ExpireLease, BackoffElapses
<1>4. CASE \E setting \in {"enabled", "paused"} : SetExecutionControl(setting)
  BY <1>0, <1>4 DEF SetExecutionControl
<1> QED BY <1>1, <1>2, <1>3, <1>4 DEF LaneStep

LEMMA ColumnsStep ==
    TypeOK /\ SnapshotCurrent /\ ColumnsAgree /\ [Next]_runVars => ColumnsAgree'
<1> SUFFICES ASSUME TypeOK, SnapshotCurrent, ColumnsAgree, [Next]_runVars PROVE ColumnsAgree'
  OBVIOUS
<1>1. CASE UNCHANGED runVars
  BY <1>1 DEF runVars, ColumnsAgree, RowAgrees, AwaitingTool, AwaitingAction
<1> QED BY <1>1, ColumnsOfLaneStep, ColumnsOfWorkerStep, ColumnsOfOthersStep DEF Next

(* The columns of every row agree with its state.                              *)
THEOREM ColumnsCorrect == Spec => []ColumnsAgree
BY InitTypeOK, TypeStep, InitSnapshot, SnapshotStep, InitColumns, ColumnsStep, PTL DEF Spec

-------------------------------------------------------------------------------
(* Sequence numbers                                                           *)

LEMMA InitGapless == Init => GaplessSequence
BY DEF Init, GaplessSequence, InLane, FirstSequence

(* A step that accepts no run leaves the numbers alone and may take a lane past*)
(* one run that is in it.                                                      *)
PassesAtMostOne ==
    /\ UNCHANGED <<sequence, nextEnqueue>>
    /\ \A x \in Run : state'[x] = "absent" <=> state[x] = "absent"
    /\ \/ UNCHANGED nextDispatch
       \/ \E r \in Run : state[r] # "absent" /\ AdvanceLane(r)

LEMMA GaplessKept ==
    ASSUME TypeOK, GaplessSequence, PassesAtMostOne
    PROVE  GaplessSequence'
<1>1. ASSUME NEW l \in Lane PROVE InLane(l)' = InLane(l)
  BY DEF PassesAtMostOne, InLane
<1>2. ASSUME NEW l \in Lane PROVE nextDispatch'[l] <= nextEnqueue[l]
  <2>1. CASE UNCHANGED nextDispatch
    BY <2>1 DEF GaplessSequence
  <2>2. ASSUME NEW r \in Run, state[r] # "absent", AdvanceLane(r)
        PROVE  nextDispatch'[l] <= nextEnqueue[l]
    <3>1. CASE LaneOf[r] = l
      <4>1. r \in InLane(l)
        BY <2>2, <3>1 DEF InLane
      <4>2. sequence[r] \in 1 .. nextEnqueue[l] - 1
        BY <4>1 DEF GaplessSequence
      <4>3. nextDispatch'[l] = sequence[r] + 1
        BY <2>2, <3>1 DEF AdvanceLane, TypeOK
      <4> QED BY <4>2, <4>3 DEF TypeOK
    <3>2. CASE LaneOf[r] # l
      BY <2>2, <3>2, LaneOfType DEF AdvanceLane, GaplessSequence, TypeOK
    <3> QED BY <3>1, <3>2
  <2> QED BY <2>1, <2>2 DEF PassesAtMostOne
<1> QED BY <1>1, <1>2 DEF PassesAtMostOne, GaplessSequence

LEMMA GaplessOfEnqueue ==
    ASSUME TypeOK, GaplessSequence, NEW r \in Run, Enqueue(r)
    PROVE  GaplessSequence'
<1> DEFINE k == LaneOf[r]
<1>1. /\ k \in Lane /\ nextEnqueue[k] \in Nat \ {0}
      /\ nextEnqueue' = [nextEnqueue EXCEPT ![k] = @ + 1]
      /\ sequence' = [sequence EXCEPT ![r] = nextEnqueue[k]]
      /\ nextDispatch' = nextDispatch
      /\ state[r] = "absent" /\ state' = [state EXCEPT ![r] = "queued"]
  BY LaneOfType DEF Enqueue, AllocateSequence, TypeOK
<1> SUFFICES ASSUME NEW l \in Lane
             PROVE  /\ nextDispatch'[l] <= nextEnqueue'[l]
                    /\ \A x \in InLane(l)' : sequence'[x] \in 1 .. nextEnqueue'[l] - 1
                    /\ \A n \in 1 .. nextEnqueue'[l] - 1 :
                          \E x \in InLane(l)' : sequence'[x] = n
                    /\ \A x, y \in InLane(l)' : sequence'[x] = sequence'[y] => x = y
  BY DEF GaplessSequence
<1>2. /\ nextDispatch[l] <= nextEnqueue[l]
      /\ \A x \in InLane(l) : sequence[x] \in 1 .. nextEnqueue[l] - 1
      /\ \A n \in 1 .. nextEnqueue[l] - 1 : \E x \in InLane(l) : sequence[x] = n
      /\ \A x, y \in InLane(l) : sequence[x] = sequence[y] => x = y
  BY DEF GaplessSequence
<1>3. r \notin InLane(l) /\ \A x \in InLane(l) : x \in Run /\ sequence'[x] = sequence[x]
  BY <1>1 DEF InLane, TypeOK
<1>4. CASE l = k
  <2>1. InLane(l)' = InLane(l) \cup {r}
    BY <1>1, <1>4 DEF InLane, TypeOK
  <2>2. nextEnqueue'[l] = nextEnqueue[l] + 1 /\ sequence'[r] = nextEnqueue[l]
    BY <1>1, <1>4 DEF TypeOK
  <2>3. nextDispatch'[l] <= nextEnqueue'[l]
    BY <1>1, <1>2, <2>2 DEF TypeOK
  <2>4. \A x \in InLane(l)' : sequence'[x] \in 1 .. nextEnqueue'[l] - 1
    BY <1>1, <1>2, <1>3, <1>4, <2>1, <2>2
  <2>5. ASSUME NEW n \in 1 .. nextEnqueue'[l] - 1 PROVE \E x \in InLane(l)' : sequence'[x] = n
    <3>1. CASE n = nextEnqueue[l]
      BY <2>1, <2>2, <3>1
    <3>2. CASE n # nextEnqueue[l]
      <4>1. n \in 1 .. nextEnqueue[l] - 1
        BY <1>1, <1>4, <2>2, <2>5, <3>2
      <4>2. PICK x \in InLane(l) : sequence[x] = n
        BY <1>2, <4>1
      <4> QED BY <1>3, <2>1, <4>2
    <3> QED BY <3>1, <3>2
  <2>6. ASSUME NEW x \in InLane(l)', NEW y \in InLane(l)', sequence'[x] = sequence'[y]
        PROVE  x = y
    <3>1. \A z \in InLane(l) : sequence[z] # nextEnqueue[l]
      BY <1>1, <1>2, <1>4
    <3> QED BY <1>2, <1>3, <2>1, <2>2, <2>6, <3>1
  <2> QED BY <2>3, <2>4, <2>5, <2>6
<1>5. CASE l # k
  <2>1. InLane(l)' = InLane(l)
    BY <1>1, <1>5 DEF InLane, TypeOK
  <2>2. nextEnqueue'[l] = nextEnqueue[l]
    BY <1>1, <1>5 DEF TypeOK
  <2> QED BY <1>1, <1>2, <1>3, <2>1, <2>2
<1> QED BY <1>4, <1>5

(* Every step but Enqueue.                                                     *)
LEMMA OthersPassAtMostOne ==
    ASSUME TypeOK, ColumnsAgree, [Next]_runVars, \A r \in Run : ~Enqueue(r)
    PROVE  PassesAtMostOne
<1> USE DEF PassesAtMostOne, laneVars
<1>1. CASE UNCHANGED runVars
  BY <1>1 DEF runVars
<1>2. CASE LaneStep
  <2>1. ASSUME NEW r \in Run, ClaimRun(r) PROVE PassesAtMostOne
    <3> PICK w \in Worker, expired \in SUBSET Expirable : Claim(w, r, expired)
      BY <2>1 DEF ClaimRun
    <3>1. \A x \in Run : state'[x] = "absent" <=> state[x] = "absent"
      BY DEF Claim, Claimable, IsHead, AwaitingTool, TypeOK
    <3> QED BY <3>1 DEF Claim
  <2>2. ASSUME NEW r \in Run, ExpireLease(r) \/ BackoffElapses(r) PROVE PassesAtMostOne
    BY <2>2 DEF ExpireLease, BackoffElapses
  <2>3. ASSUME NEW setting \in {"enabled", "paused"}, SetExecutionControl(setting)
        PROVE  PassesAtMostOne
    BY <2>3 DEF SetExecutionControl
  <2> QED BY <1>2, <2>1, <2>2, <2>3 DEF LaneStep
<1>3. ASSUME NEW w \in Worker, WorkerStep(w) PROVE PassesAtMostOne
  <2> USE DEF HoldsLease, HoldsToken, TypeOK
  <2>1. CASE \E choice \in Route : SaveRoute(w, choice)
    BY <2>1 DEF SaveRoute, Proceed
  <2>2. CASE SaveToolPlan(w) \/ SaveToolResult(w)
    BY <2>2 DEF SaveToolPlan, SaveToolResult, Proceed
  <2>3. CASE \E proposes \in BOOLEAN : SaveCandidate(w, proposes)
    BY <2>3 DEF SaveCandidate, Proceed
  <2>4. CASE RetryLater(w) \/ WaitForToolApproval(w) \/ PrepareDelivery(w)
    BY <2>4 DEF RetryLater, WaitForToolApproval, PrepareDelivery
  <2>5. CASE FailRun(w)
    BY <2>5, WorkerTypes DEF FailRun, AdvanceLane
  <2>6. CASE Abandon(w) \/ EnsureIntent(w)
    BY <2>6 DEF Abandon, EnsureIntent
  <2> QED BY <1>3, <2>1, <2>2, <2>3, <2>4, <2>5, <2>6 DEF WorkerStep, AnswerStep, FailOrRetry
<1>4. CASE ToolStep \/ DeliveryStep \/ ActionStep
  <2> USE DEF Become, TypeOK
  <2>1. CASE \E r \in Run : ResumeFromToolApproval(r)
    BY <2>1 DEF ResumeFromToolApproval, AwaitingTool
  <2>2. CASE \E r \in Run : SettleDelivery(r)
    BY <2>2 DEF SettleDelivery, AdvanceLane
  <2>3. CASE \E r \in Run : CompleteAction(r)
    BY <2>3 DEF CompleteAction, AwaitingAction
  <2>4. ASSUME NEW r \in Run, FailAction(r) PROVE PassesAtMostOne
    BY <2>4 DEF FailAction, ColumnsAgree, RowAgrees
  <2> QED BY <1>4, <2>1, <2>2, <2>3, <2>4 DEF ToolStep, DeliveryStep, ActionStep
<1> QED BY <1>1, <1>2, <1>3, <1>4 DEF Next

LEMMA GaplessStep ==
    TypeOK /\ ColumnsAgree /\ GaplessSequence /\ [Next]_runVars => GaplessSequence'
BY OthersPassAtMostOne, GaplessKept, GaplessOfEnqueue

(* The numbers of a conversation stay without gap and repetition, and the lane *)
(* never dispatches beyond what it has accepted, for any number of runs.       *)
THEOREM GaplessCorrect == Spec => []GaplessSequence
BY InitTypeOK, TypeStep, InitSnapshot, SnapshotStep, InitColumns, ColumnsStep,
   InitGapless, GaplessStep, PTL DEF Spec

-------------------------------------------------------------------------------
(* Turns                                                                      *)

LEMMA InitTurns == Init => OneTurnAtATime
BY DEF Init, OneTurnAtATime

LEMMA BusyIsHead ==
    ASSUME TypeOK, OneTurnAtATime, NEW r \in Run,
           state[r] \in {"running", "delivery_pending"} \/ AwaitingTool(r)
    PROVE  IsHead(r)
<1>1. state[r] # "absent" /\ state[r] # "queued" /\ (state[r] \notin Settled \/ AwaitingTool(r))
  BY DEF AwaitingTool, Settled
<1>2. sequence[r] \in Nat /\ nextDispatch[LaneOf[r]] \in Nat
  BY LaneOfType DEF TypeOK
<1> QED BY <1>1, <1>2 DEF OneTurnAtATime, IsHead

(* A step that touches heads only, and passes one of them only if it settles   *)
(* it, keeps the turns.                                                        *)
Untouched(x) == state'[x] = state[x] /\ phase'[x] = phase[x] /\ attempts'[x] = attempts[x]

LEMMA TurnsKept ==
    ASSUME TypeOK, GaplessSequence, OneTurnAtATime, UNCHANGED sequence,
           \A x \in Run : IsHead(x) \/ Untouched(x),
           \/ UNCHANGED nextDispatch
           \/ \E r \in Run : /\ IsHead(r) /\ AdvanceLane(r)
                            /\ state'[r] \in Settled /\ ~AwaitingTool(r)'
    PROVE  OneTurnAtATime'
<1> SUFFICES ASSUME NEW x \in Run, state'[x] # "absent"
             PROVE  /\ sequence[x] > nextDispatch'[LaneOf[x]] =>
                          state'[x] = "queued" /\ attempts'[x] = 0 /\ phase'[x] = "route"
                    /\ sequence[x] < nextDispatch'[LaneOf[x]] =>
                          state'[x] \in Settled /\ ~AwaitingTool(x)'
  BY DEF OneTurnAtATime
<1>1. /\ LaneOf[x] \in Lane /\ sequence[x] \in Nat /\ nextDispatch[LaneOf[x]] \in Nat
  BY LaneOfType DEF TypeOK
<1>2. CASE UNCHANGED nextDispatch
  <2>1. CASE IsHead(x)
    BY <1>1, <1>2, <2>1 DEF IsHead
  <2>2. CASE ~IsHead(x)
    BY <1>1, <1>2, <2>2 DEF Untouched, OneTurnAtATime, AwaitingTool
  <2> QED BY <2>1, <2>2
<1>3. ASSUME NEW r \in Run, IsHead(r), AdvanceLane(r), state'[r] \in Settled, ~AwaitingTool(r)'
      PROVE  /\ sequence[x] > nextDispatch'[LaneOf[x]] =>
                   state'[x] = "queued" /\ attempts'[x] = 0 /\ phase'[x] = "route"
             /\ sequence[x] < nextDispatch'[LaneOf[x]] =>
                   state'[x] \in Settled /\ ~AwaitingTool(x)'
  <2>1. CASE LaneOf[x] # LaneOf[r]
    <3>1. nextDispatch'[LaneOf[x]] = nextDispatch[LaneOf[x]]
      BY <1>1, <1>3, <2>1 DEF AdvanceLane, TypeOK
    <3>2. CASE IsHead(x)
      BY <1>1, <3>1, <3>2 DEF IsHead
    <3>3. CASE ~IsHead(x)
      BY <1>1, <3>1, <3>3 DEF Untouched, OneTurnAtATime, AwaitingTool
    <3> QED BY <3>2, <3>3
  <2>2. CASE LaneOf[x] = LaneOf[r]
    <3>1. nextDispatch'[LaneOf[x]] = sequence[r] + 1 /\ nextDispatch[LaneOf[x]] = sequence[r]
      BY <1>1, <1>3, <2>2 DEF AdvanceLane, TypeOK
    <3>2. CASE x = r
      BY <1>1, <1>3, <3>1, <3>2
    <3>3. CASE x # r
      <4>1. sequence[x] # sequence[r] \/ state[x] = "absent"
        BY <1>1, <1>3, <2>2, <3>3 DEF GaplessSequence, InLane, IsHead
      <4>2. ~IsHead(x)
        BY <1>3, <2>2, <3>1, <4>1 DEF IsHead
      <4> QED BY <1>1, <3>1, <4>1, <4>2 DEF Untouched, OneTurnAtATime, AwaitingTool
    <3> QED BY <3>2, <3>3
  <2> QED BY <2>1, <2>2
<1> QED BY <1>2, <1>3

LEMMA TurnsOfWorkerStep ==
    ASSUME TypeOK, GaplessSequence, OneTurnAtATime, NEW w \in Worker, WorkerStep(w)
    PROVE  OneTurnAtATime'
<1>1. HoldsToken(w) => worker[w].run \in Run /\ IsHead(worker[w].run)
  BY WorkerTypes, BusyIsHead DEF HoldsToken
<1>2. ASSUME HoldsToken(w), UNCHANGED <<sequence, nextDispatch>>,
             \A x \in Run : x # worker[w].run => Untouched(x)
      PROVE  OneTurnAtATime'
  BY <1>1, <1>2, TurnsKept
<1>3. ASSUME UNCHANGED <<sequence, nextDispatch>>, \A x \in Run : Untouched(x)
      PROVE  OneTurnAtATime'
  BY <1>3, TurnsKept
<1> USE DEF HoldsLease, Untouched, progressVars, laneVars
<1>4. CASE \E choice \in Route : SaveRoute(w, choice)
  BY <1>2, <1>4 DEF SaveRoute, Proceed, TypeOK
<1>5. CASE SaveToolPlan(w) \/ SaveToolResult(w)
  BY <1>2, <1>5 DEF SaveToolPlan, SaveToolResult, Proceed, TypeOK
<1>6. CASE \E proposes \in BOOLEAN : SaveCandidate(w, proposes)
  BY <1>2, <1>6 DEF SaveCandidate, Proceed, TypeOK
<1>7. CASE RetryLater(w) \/ WaitForToolApproval(w) \/ PrepareDelivery(w)
  BY <1>2, <1>7 DEF RetryLater, WaitForToolApproval, PrepareDelivery, TypeOK
<1>8. CASE FailRun(w)
  <2> PICK r \in Run : r = worker[w].run
    BY <1>1, <1>8 DEF FailRun
  <2>1. IsHead(r) /\ AdvanceLane(r) /\ UNCHANGED sequence
    BY <1>1, <1>8 DEF FailRun
  <2>2. state'[r] \in Settled /\ ~AwaitingTool(r)'
    BY <1>8 DEF FailRun, AwaitingTool, Settled, TypeOK
  <2>3. \A x \in Run : IsHead(x) \/ Untouched(x)
    BY <1>8, <2>1 DEF FailRun, TypeOK
  <2> QED BY <2>1, <2>2, <2>3, TurnsKept
<1>9. CASE Abandon(w) \/ EnsureIntent(w)
  BY <1>3, <1>9 DEF Abandon, EnsureIntent
<1> QED BY <1>4, <1>5, <1>6, <1>7, <1>8, <1>9
        DEF WorkerStep, AnswerStep, FailOrRetry

LEMMA TurnsOfEnqueue ==
    ASSUME TypeOK, ColumnsAgree, GaplessSequence, OneTurnAtATime, NEW r \in Run, Enqueue(r)
    PROVE  OneTurnAtATime'
<1>1. /\ LaneOf[r] \in Lane /\ nextDispatch[LaneOf[r]] <= nextEnqueue[LaneOf[r]]
      /\ nextDispatch[LaneOf[r]] \in Nat /\ nextEnqueue[LaneOf[r]] \in Nat
  BY LaneOfType DEF TypeOK, GaplessSequence
<1>2. /\ state'[r] = "queued" /\ attempts'[r] = 0 /\ phase'[r] = "route"
      /\ sequence'[r] = nextEnqueue[LaneOf[r]] /\ nextDispatch' = nextDispatch
  BY DEF Enqueue, AllocateSequence, progressVars, ColumnsAgree, RowAgrees, TypeOK
<1>3. \A x \in Run \ {r} : Untouched(x) /\ sequence'[x] = sequence[x]
  BY DEF Enqueue, AllocateSequence, progressVars, Untouched, TypeOK
<1> SUFFICES ASSUME NEW x \in Run, state'[x] # "absent"
             PROVE  /\ sequence'[x] > nextDispatch'[LaneOf[x]] =>
                          state'[x] = "queued" /\ attempts'[x] = 0 /\ phase'[x] = "route"
                    /\ sequence'[x] < nextDispatch'[LaneOf[x]] =>
                          state'[x] \in Settled /\ ~AwaitingTool(x)'
  BY DEF OneTurnAtATime
<1>4. CASE x = r
  BY <1>1, <1>2, <1>4
<1>5. CASE x # r
  BY <1>2, <1>3, <1>5 DEF Untouched, OneTurnAtATime, AwaitingTool
<1> QED BY <1>4, <1>5

LEMMA TurnsOfClaim ==
    ASSUME TypeOK, GaplessSequence, OneTurnAtATime, NEW r \in Run, ClaimRun(r)
    PROVE  OneTurnAtATime'
<1> PICK w \in Worker, expired \in SUBSET Expirable : Claim(w, r, expired)
  BY DEF ClaimRun
<1>1. \A x \in Run : x = r \/ x \in expired => IsHead(x)
  BY BusyIsHead DEF Claim, Claimable
<1>2. \A x \in Run : x # r /\ x \notin expired => Untouched(x)
  BY DEF Claim, Untouched, TypeOK
<1>3. UNCHANGED <<sequence, nextDispatch>>
  BY DEF Claim, laneVars
<1> QED BY <1>1, <1>2, <1>3, TurnsKept

(* The action executor acts on runs that the lane may have passed: such a run  *)
(* has an intent, so the lane has reached it.                                  *)
LEMMA TurnsOfAction ==
    ASSUME TypeOK, ColumnsAgree, OneTurnAtATime, NEW r \in Run, intent[r],
           NEW st \in {"succeeded", "failed"}, Become(r, st), UNCHANGED laneVars
    PROVE  OneTurnAtATime'
<1>1. /\ UNCHANGED <<sequence, nextDispatch, phase, attempts>>
      /\ state'[r] = st
      /\ \A x \in Run \ {r} : state'[x] = state[x]
  BY DEF Become, laneVars, progressVars, TypeOK
<1>2. state[r] # "absent" /\ phase[r] = "finalize"
  BY DEF ColumnsAgree, RowAgrees
<1>3. ~(sequence[r] > nextDispatch[LaneOf[r]])
  BY <1>2 DEF OneTurnAtATime
<1>4. ASSUME NEW x \in Run, state'[x] # "absent"
      PROVE  /\ sequence'[x] > nextDispatch'[LaneOf[x]] =>
                   state'[x] = "queued" /\ attempts'[x] = 0 /\ phase'[x] = "route"
             /\ sequence'[x] < nextDispatch'[LaneOf[x]] =>
                   state'[x] \in Settled /\ ~AwaitingTool(x)'
  <2>1. CASE x = r
    BY <1>1, <1>3, <2>1 DEF Settled, AwaitingTool
  <2>2. CASE x # r
    BY <1>1, <1>4, <2>2 DEF OneTurnAtATime, AwaitingTool
  <2> QED BY <2>1, <2>2
<1> QED BY <1>4 DEF OneTurnAtATime

LEMMA TurnsOfOthersStep ==
    ASSUME TypeOK, ColumnsAgree, GaplessSequence, OneTurnAtATime,
           ToolStep \/ DeliveryStep \/ ActionStep
    PROVE  OneTurnAtATime'
<1>1. ASSUME NEW r \in Run, ResumeFromToolApproval(r) PROVE OneTurnAtATime'
  <2>1. IsHead(r)
    BY <1>1, BusyIsHead DEF ResumeFromToolApproval
  <2>2. /\ UNCHANGED <<sequence, nextDispatch>>
        /\ \A x \in Run : x = r \/ Untouched(x)
    BY <1>1 DEF ResumeFromToolApproval, Become, laneVars, progressVars, Untouched, TypeOK
  <2> QED BY <2>1, <2>2, TurnsKept
<1>2. ASSUME NEW r \in Run, SettleDelivery(r) PROVE OneTurnAtATime'
  <2>1. IsHead(r)
    BY <1>2, BusyIsHead DEF SettleDelivery
  <2>2. /\ UNCHANGED sequence /\ AdvanceLane(r)
        /\ \A x \in Run : x = r \/ Untouched(x)
    BY <1>2 DEF SettleDelivery, Become, progressVars, Untouched, TypeOK
  <2>3. phase'[r] = "finalize"
    BY <1>2 DEF SettleDelivery, Become, progressVars, ColumnsAgree, RowAgrees
  <2>4. state'[r] \in Settled /\ ~AwaitingTool(r)'
    BY <1>2, <2>3 DEF SettleDelivery, Become, Settled, AwaitingTool, TypeOK
  <2> QED BY <2>1, <2>2, <2>4, TurnsKept
<1>3. ASSUME NEW r \in Run, CompleteAction(r) \/ FailAction(r) PROVE OneTurnAtATime'
  BY <1>3, TurnsOfAction DEF CompleteAction, FailAction
<1> QED BY <1>1, <1>2, <1>3 DEF ToolStep, DeliveryStep, ActionStep

LEMMA TurnsStep ==
    TypeOK /\ ColumnsAgree /\ GaplessSequence /\ OneTurnAtATime /\ [Next]_runVars =>
        OneTurnAtATime'
<1> SUFFICES ASSUME TypeOK, ColumnsAgree, GaplessSequence, OneTurnAtATime, [Next]_runVars
             PROVE  OneTurnAtATime'
  OBVIOUS
<1>1. CASE UNCHANGED runVars
  BY <1>1 DEF runVars, OneTurnAtATime, AwaitingTool
<1>2. ASSUME NEW r \in Run, ExpireLease(r) \/ BackoffElapses(r) PROVE OneTurnAtATime'
  BY <1>2, TurnsKept DEF ExpireLease, BackoffElapses, laneVars, progressVars, Untouched
<1>3. ASSUME NEW setting \in {"enabled", "paused"}, SetExecutionControl(setting)
      PROVE  OneTurnAtATime'
  BY <1>3, TurnsKept DEF SetExecutionControl, laneVars, progressVars, Untouched
<1> QED BY <1>1, <1>2, <1>3, TurnsOfEnqueue, TurnsOfClaim, TurnsOfWorkerStep, TurnsOfOthersStep
        DEF Next, LaneStep

(* A conversation works on one run at a time, the oldest: for any number of    *)
(* conversations, runs and workers, a run behind the dispatch position has not *)
(* been touched and one before it is settled.                                  *)
THEOREM OneTurnCorrect == Spec => []OneTurnAtATime
BY InitTypeOK, TypeStep, InitSnapshot, SnapshotStep, InitColumns, ColumnsStep,
   InitGapless, GaplessStep, InitTurns, TurnsStep, PTL DEF Spec

-------------------------------------------------------------------------------
(* Runs that the lane has passed                                              *)

StaysSettled(r) ==
    /\ state[r] \in {"succeeded", "failed"} => state'[r] = state[r]
    /\ state'[r] # state[r] => state'[r] \in {"succeeded", "failed"}
    /\ attempts'[r] = attempts[r]

LEMMA SettledInStep ==
    ASSUME TypeOK, OneTurnAtATime, [Next]_runVars, NEW r \in Run, Passed(r)
    PROVE  StaysSettled(r)
<1>1. ~IsHead(r) /\ state[r] # "running" /\ state[r] # "delivery_pending" /\ ~AwaitingTool(r)
  BY BusyIsHead, LaneOfType DEF Passed, IsHead, TypeOK
<1>2. CASE UNCHANGED runVars
  BY <1>2 DEF runVars, StaysSettled
<1>3. CASE LaneStep
  <2>1. ASSUME NEW x \in Run, Enqueue(x) PROVE StaysSettled(r)
    BY <2>1 DEF Enqueue, StaysSettled, Passed, TypeOK
  <2>2. ASSUME NEW x \in Run, ClaimRun(x) PROVE StaysSettled(r)
    <3> PICK w \in Worker, expired \in SUBSET Expirable : Claim(w, x, expired)
      BY <2>2 DEF ClaimRun
    <3>1. r # x /\ r \notin expired
      BY <1>1 DEF Claim, Claimable
    <3> QED BY <3>1 DEF Claim, StaysSettled, TypeOK
  <2>3. ASSUME NEW x \in Run, ExpireLease(x) \/ BackoffElapses(x) PROVE StaysSettled(r)
    BY <2>3 DEF ExpireLease, BackoffElapses, StaysSettled
  <2>4. ASSUME NEW setting \in {"enabled", "paused"}, SetExecutionControl(setting)
        PROVE  StaysSettled(r)
    BY <2>4 DEF SetExecutionControl, StaysSettled
  <2> QED BY <1>3, <2>1, <2>2, <2>3, <2>4 DEF LaneStep
<1>4. ASSUME NEW w \in Worker, WorkerStep(w) PROVE StaysSettled(r)
  <2> USE DEF HoldsLease, StaysSettled
  <2>1. HoldsToken(w) => r # worker[w].run
    BY <1>1 DEF HoldsToken
  <2>2. CASE \E choice \in Route : SaveRoute(w, choice)
    BY <2>1, <2>2 DEF SaveRoute, Proceed, TypeOK
  <2>3. CASE SaveToolPlan(w) \/ SaveToolResult(w)
    BY <2>1, <2>3 DEF SaveToolPlan, SaveToolResult, Proceed, TypeOK
  <2>4. CASE \E proposes \in BOOLEAN : SaveCandidate(w, proposes)
    BY <2>1, <2>4 DEF SaveCandidate, Proceed, TypeOK
  <2>5. CASE RetryLater(w) \/ FailRun(w) \/ WaitForToolApproval(w) \/ PrepareDelivery(w)
    BY <2>1, <2>5 DEF RetryLater, FailRun, WaitForToolApproval, PrepareDelivery, TypeOK
  <2>6. CASE Abandon(w) \/ EnsureIntent(w)
    BY <2>6 DEF Abandon, EnsureIntent
  <2> QED BY <1>4, <2>2, <2>3, <2>4, <2>5, <2>6 DEF WorkerStep, AnswerStep, FailOrRetry
<1>5. CASE ToolStep \/ DeliveryStep \/ ActionStep
  <2>1. ASSUME NEW x \in Run, ResumeFromToolApproval(x) \/ SettleDelivery(x) PROVE StaysSettled(r)
    <3>1. x # r
      BY <1>1, <2>1 DEF ResumeFromToolApproval, SettleDelivery
    <3> QED BY <2>1, <3>1 DEF ResumeFromToolApproval, SettleDelivery, Become, StaysSettled, TypeOK
  <2>2. ASSUME NEW x \in Run, CompleteAction(x) \/ FailAction(x) PROVE StaysSettled(r)
    BY <2>2 DEF CompleteAction, FailAction, AwaitingAction, Become, StaysSettled, TypeOK
  <2> QED BY <1>5, <2>1, <2>2 DEF ToolStep, DeliveryStep, ActionStep
<1> QED BY <1>2, <1>3, <1>4, <1>5 DEF Next

(* Once its conversation has passed a run, no step works on it again, and a    *)
(* success or a failure is final.                                              *)
THEOREM SettledForever == Spec => SettledStaysSettled
<1>1. TypeOK /\ OneTurnAtATime /\ [Next]_runVars =>
        [\A r \in Run : Passed(r) => StaysSettled(r)]_runVars
  BY SettledInStep
<1>2. Spec => [][\A r \in Run : Passed(r) => StaysSettled(r)]_runVars
  BY <1>1, TypeCorrect, OneTurnCorrect, PTL DEF Spec
<1> QED BY <1>2 DEF SettledStaysSettled, Passed, StaysSettled

-------------------------------------------------------------------------------
(* Results                                                                    *)

WrittenOnce(r) ==
    /\ Rank[phase'[r]] >= Rank[phase[r]]
    /\ phase'[r] = phase[r] => route'[r] = route[r] /\ action'[r] = action[r]
    /\ phase'[r] # phase[r] => route[r] # "none" \/ phase[r] = "route"

LEMMA RankOrder ==
    /\ \A p \in Phases : Rank[p] \in Nat
    /\ Rank["route"] < Rank["plan"] /\ Rank["plan"] < Rank["execute"]
    /\ Rank["execute"] < Rank["model"] /\ Rank["model"] < Rank["finalize"]
<1>1. /\ Rank["route"] = 1 /\ Rank["plan"] = 2 /\ Rank["execute"] = 3
      /\ Rank["model"] = 4 /\ Rank["finalize"] = 5
  BY DEF Rank, Phases
<1> QED BY <1>1 DEF Phases

(* A step that writes no column of r.                                          *)
LEMMA WrittenByNoone ==
    ASSUME TypeOK, NEW r \in Run,
           phase'[r] = phase[r] /\ route'[r] = route[r] /\ action'[r] = action[r]
    PROVE  WrittenOnce(r)
<1>1. Rank[phase[r]] \in Nat
  BY RankOrder DEF TypeOK
<1> QED BY <1>1 DEF WrittenOnce

LEMMA WrittenInSave ==
    ASSUME TypeOK, SnapshotCurrent, ColumnsAgree, NEW r \in Run, NEW w \in Worker,
           \/ \E choice \in Route : SaveRoute(w, choice)
           \/ SaveToolPlan(w) \/ SaveToolResult(w)
           \/ \E proposes \in BOOLEAN : SaveCandidate(w, proposes)
    PROVE  WrittenOnce(r)
<1>1. HoldsToken(w) => worker[w].phase = phase[worker[w].run]
  BY DEF SnapshotCurrent, HoldsToken
<1>2. CASE r # worker[w].run
  <2>1. phase'[r] = phase[r] /\ route'[r] = route[r] /\ action'[r] = action[r]
    BY <1>2 DEF SaveRoute, SaveToolPlan, SaveToolResult, SaveCandidate, Proceed, TypeOK
  <2> QED BY <2>1, WrittenByNoone
<1>3. CASE r = worker[w].run
  <2> USE <1>1, <1>3, RankOrder DEF WrittenOnce, HoldsLease, Proceed
  <2>0. phase[r] # "route" => route[r] # "none"
    BY DEF ColumnsAgree, RowAgrees
  <2>1. ASSUME NEW choice \in Route, SaveRoute(w, choice) PROVE WrittenOnce(r)
    <3>1. phase[r] = "route" /\ phase'[r] \in {"plan", "model"}
      BY <2>1 DEF SaveRoute, TypeOK
    <3> QED BY <3>1 DEF Phases
  <2>2. CASE SaveToolPlan(w)
    <3>1. phase[r] = "plan" /\ phase'[r] = "execute"
      BY <2>2 DEF SaveToolPlan, TypeOK
    <3> QED BY <2>0, <3>1 DEF Phases
  <2>3. CASE SaveToolResult(w)
    <3>1. phase[r] = "execute" /\ phase'[r] = "model"
      BY <2>3 DEF SaveToolResult, TypeOK
    <3> QED BY <2>0, <3>1 DEF Phases
  <2>4. ASSUME NEW proposes \in BOOLEAN, SaveCandidate(w, proposes) PROVE WrittenOnce(r)
    <3>1. phase[r] \in {"execute", "model"} /\ phase'[r] = "finalize"
      BY <2>4 DEF SaveCandidate, TypeOK
    <3> QED BY <2>0, <3>1 DEF Phases
  <2> QED BY <2>1, <2>2, <2>3, <2>4
<1> QED BY <1>2, <1>3

LEMMA WrittenInStep ==
    ASSUME TypeOK, SnapshotCurrent, ColumnsAgree, [Next]_runVars, NEW r \in Run
    PROVE  WrittenOnce(r)
<1>1. CASE UNCHANGED <<phase, route, action>>
  BY <1>1, WrittenByNoone
<1>2. CASE UNCHANGED runVars
  BY <1>1, <1>2 DEF runVars
<1>3. CASE LaneStep
  BY <1>1, <1>3 DEF LaneStep, Enqueue, ClaimRun, Claim, ExpireLease, BackoffElapses,
                    SetExecutionControl, progressVars
<1>4. ASSUME NEW w \in Worker, WorkerStep(w) PROVE WrittenOnce(r)
  <2>1. CASE \/ RetryLater(w) \/ FailRun(w) \/ Abandon(w) \/ WaitForToolApproval(w)
            \/ EnsureIntent(w) \/ PrepareDelivery(w)
    BY <1>1, <2>1 DEF RetryLater, FailRun, Abandon, WaitForToolApproval, EnsureIntent,
                      PrepareDelivery, progressVars
  <2> QED BY <1>4, <2>1, WrittenInSave DEF WorkerStep, AnswerStep, FailOrRetry
<1>5. CASE ToolStep \/ DeliveryStep \/ ActionStep
  BY <1>1, <1>5 DEF ToolStep, DeliveryStep, ActionStep, ResumeFromToolApproval, SettleDelivery,
                    CompleteAction, FailAction, Become, progressVars
<1> QED BY <1>2, <1>3, <1>4, <1>5 DEF Next

(* No retry, reclaim or stale save writes a phase's result a second time or    *)
(* puts a run back into an earlier phase.                                      *)
THEOREM WrittenOnceForever == Spec => ResultsWrittenOnce
<1>1. TypeOK /\ SnapshotCurrent /\ ColumnsAgree /\ [Next]_runVars =>
        [\A r \in Run : WrittenOnce(r)]_runVars
  BY WrittenInStep
<1>2. Spec => [][\A r \in Run : WrittenOnce(r)]_runVars
  BY <1>1, TypeCorrect, SnapshotCorrect, ColumnsCorrect, PTL DEF Spec
<1> QED BY <1>2 DEF ResultsWrittenOnce, WrittenOnce

(* What has been written is not taken back: both properties together.          *)
THEOREM NothingTakenBackCorrect == Spec => NothingTakenBack
BY SettledForever, WrittenOnceForever DEF NothingTakenBack

-------------------------------------------------------------------------------
(* The invariants together.  The modules that implement AgentRuns use this     *)
(* form: their steps are steps of Next only in states that satisfy RunsInv.    *)

LEMMA InitRuns == Init => RunsInv
BY InitTypeOK, InitLease, InitSnapshot, InitColumns, InitGapless, InitTurns DEF RunsInv

LEMMA RunsStep == RunsInv /\ [Next]_runVars => RunsInv'
BY TypeStep, LeaseStep, SnapshotStep, ColumnsStep, GaplessStep, TurnsStep DEF RunsInv

(* Whatever the workers, the clock and the other components do, each           *)
(* conversation has one turn at a time, numbered without a gap, under the lease*)
(* of its latest claim and with columns that belong together.                  *)
THEOREM RunsCorrect == Spec => []RunsInv
BY InitRuns, RunsStep, PTL DEF Spec

-------------------------------------------------------------------------------
(* Refinement                                                                 *)

LEMMA LaneNumbers ==
    ASSUME RunsInv, NEW l \in Lane
    PROVE  /\ nextDispatch[l] \in Nat \ {0} /\ nextEnqueue[l] \in Nat \ {0}
           /\ nextDispatch[l] <= nextEnqueue[l]
BY DEF RunsInv, TypeOK, GaplessSequence

(* Every number the lane has given out belongs to one run of the lane.         *)
LEMMA TurnFound ==
    ASSUME RunsInv, NEW l \in Lane, NEW n \in 1 .. nextEnqueue[l] - 1
    PROVE  TurnAt(l, n) \in InLane(l) /\ sequence[TurnAt(l, n)] = n
<1>1. \E r \in InLane(l) : sequence[r] = n
  BY DEF RunsInv, GaplessSequence
<1>2. \E r \in Run : r \in InLane(l) /\ sequence[r] = n
  BY <1>1 DEF InLane
<1> QED BY <1>2 DEF TurnAt

LEMMA TurnUnique ==
    ASSUME RunsInv, NEW l \in Lane, NEW r \in InLane(l), NEW x \in InLane(l),
           sequence[r] = sequence[x]
    PROVE  r = x
BY DEF RunsInv, GaplessSequence

LEMMA BacklogHas ==
    ASSUME RunsInv, NEW l \in Lane, NEW i \in 1 .. nextEnqueue[l] - nextDispatch[l]
    PROVE  /\ BacklogOf(l)[i] \in InLane(l)
           /\ sequence[BacklogOf(l)[i]] = nextDispatch[l] + i - 1
<1>1. nextDispatch[l] + i - 1 \in 1 .. nextEnqueue[l] - 1
  BY LaneNumbers
<1> QED BY <1>1, TurnFound DEF BacklogOf

LEMMA BacklogIsSeq ==
    ASSUME RunsInv, NEW l \in Lane
    PROVE  /\ BacklogOf(l) \in Seq(Run)
           /\ Len(BacklogOf(l)) = nextEnqueue[l] - nextDispatch[l]
           /\ DOMAIN BacklogOf(l) = 1 .. nextEnqueue[l] - nextDispatch[l]
<1>1. nextEnqueue[l] - nextDispatch[l] \in Nat
  BY LaneNumbers
<1>2. \A i \in 1 .. nextEnqueue[l] - nextDispatch[l] : TurnAt(l, nextDispatch[l] + i - 1) \in Run
  BY BacklogHas DEF BacklogOf, InLane
<1> QED BY <1>1, <1>2 DEF BacklogOf

(* What a run is taken to have been worked on by: it is claimed before it      *)
(* leaves its first phase.                                                     *)
BegunOnce == \A r \in Run : phase[r] # "route" => attempts[r] > 0

LEMMA BegunStep == RunsInv /\ BegunOnce /\ [Next]_runVars => BegunOnce'
<1> SUFFICES ASSUME RunsInv, BegunOnce, [Next]_runVars, NEW r \in Run, phase'[r] # "route"
             PROVE  attempts'[r] > 0
  BY DEF BegunOnce
<1>0. TypeOK /\ attempts[r] \in Nat
  BY DEF RunsInv, TypeOK
<1>1. phase'[r] = phase[r] \/ Taken(r)
  <2>1. Taken(r) \/ state[r] # "running" \/ phase'[r] = phase[r]
    BY DEF Taken
  <2>2. CASE state[r] # "running"
    <3>1. CASE UNCHANGED phase
      BY <3>1
    <3>2. CASE LaneStep \/ ToolStep \/ DeliveryStep \/ ActionStep
      BY <3>1, <3>2 DEF LaneStep, ToolStep, DeliveryStep, ActionStep, Enqueue, ClaimRun, Claim,
            ExpireLease, BackoffElapses, SetExecutionControl, ResumeFromToolApproval,
            SettleDelivery, CompleteAction, FailAction, Become, progressVars
    <3>3. ASSUME NEW w \in Worker, WorkerStep(w) PROVE phase'[r] = phase[r]
      <4>1. CASE \/ RetryLater(w) \/ FailRun(w) \/ Abandon(w) \/ WaitForToolApproval(w)
                \/ EnsureIntent(w) \/ PrepareDelivery(w)
        BY <4>1 DEF RetryLater, FailRun, Abandon, WaitForToolApproval, EnsureIntent,
                    PrepareDelivery, progressVars
      <4>2. HoldsToken(w) => worker[w].run # r
        BY <2>2 DEF HoldsToken
      <4>3. CASE \/ \E choice \in Route : SaveRoute(w, choice)
                \/ SaveToolPlan(w) \/ SaveToolResult(w)
                \/ \E proposes \in BOOLEAN : SaveCandidate(w, proposes)
        BY <1>0, <4>2, <4>3 DEF SaveRoute, SaveToolPlan, SaveToolResult, SaveCandidate, Proceed,
                                HoldsLease, TypeOK
      <4> QED BY <3>3, <4>1, <4>3 DEF WorkerStep, AnswerStep, FailOrRetry
    <3> QED BY <3>1, <3>2, <3>3 DEF Next, runVars
  <2> QED BY <2>1, <2>2
<1>2. attempts'[r] >= attempts[r]
  <2>1. CASE UNCHANGED attempts
    BY <1>0, <2>1
  <2>2. ASSUME NEW x \in Run, ClaimRun(x) PROVE attempts'[r] >= attempts[r]
    BY <1>0, <2>2 DEF ClaimRun, Claim, TypeOK
  <2>3. ASSUME NEW w \in Worker, WorkerStep(w) PROVE UNCHANGED attempts
    BY <2>3 DEF WorkerStep, AnswerStep, FailOrRetry, SaveRoute, SaveToolPlan, SaveToolResult,
          SaveCandidate, Proceed, RetryLater, FailRun, Abandon, WaitForToolApproval,
          EnsureIntent, PrepareDelivery
  <2>4. CASE LaneStep \/ ToolStep \/ DeliveryStep \/ ActionStep
    BY <2>1, <2>2, <2>4 DEF LaneStep, ToolStep, DeliveryStep, ActionStep, Enqueue,
          ExpireLease, BackoffElapses, SetExecutionControl, ResumeFromToolApproval,
          SettleDelivery, CompleteAction, FailAction, Become
  <2> QED BY <2>1, <2>3, <2>4 DEF Next, runVars
<1>3. attempts[r] > 0
  <2>1. CASE phase'[r] = phase[r]
    BY <2>1 DEF BegunOnce
  <2>2. CASE Taken(r)
    BY <2>2 DEF RunsInv, LeaseOfLatestClaim, Taken
  <2> QED BY <1>1, <2>1, <2>2
<1> QED BY <1>0, <1>2, <1>3, RunsStep DEF RunsInv, TypeOK

(* What a step may do to the lanes: accept a run, claim one, finish the oldest *)
(* one, or nothing.                                                            *)
SameRows == \A x \in Run : state'[x] = "absent" <=> state[x] = "absent"

Leaves(r) ==
    /\ IsHead(r) /\ attempts[r] > 0
    /\ AdvanceLane(r)
    /\ UNCHANGED <<sequence, attempts>> /\ SameRows

Quiet == UNCHANGED <<nextEnqueue, nextDispatch, sequence, attempts>> /\ SameRows

LEMMA StepKinds ==
    ASSUME RunsInv, BegunOnce, [Next]_runVars
    PROVE  \/ \E r \in Run : Enqueue(r) \/ ClaimRun(r) \/ Leaves(r)
           \/ Quiet
<1> USE DEF SameRows
<1>0. TypeOK /\ ColumnsAgree /\ OneTurnAtATime /\ LeaseOfLatestClaim
  BY DEF RunsInv
<1>1. CASE UNCHANGED runVars
  BY <1>1 DEF runVars, Quiet
<1>2. CASE LaneStep
  BY <1>2 DEF LaneStep, ExpireLease, BackoffElapses, SetExecutionControl, laneVars, Quiet
<1>3. ASSUME NEW w \in Worker, WorkerStep(w) PROVE Quiet \/ \E r \in Run : Leaves(r)
  <2> USE <1>0 DEF HoldsLease, HoldsToken, TypeOK, laneVars
  <2>1. CASE \E choice \in Route : SaveRoute(w, choice)
    BY <2>1 DEF SaveRoute, Proceed, Quiet
  <2>2. CASE SaveToolPlan(w) \/ SaveToolResult(w)
    BY <2>2 DEF SaveToolPlan, SaveToolResult, Proceed, Quiet
  <2>3. CASE \E proposes \in BOOLEAN : SaveCandidate(w, proposes)
    BY <2>3 DEF SaveCandidate, Proceed, Quiet
  <2>4. CASE RetryLater(w) \/ WaitForToolApproval(w) \/ PrepareDelivery(w)
    BY <2>4 DEF RetryLater, WaitForToolApproval, PrepareDelivery, Quiet
  <2>5. CASE FailRun(w)
    <3> DEFINE r == worker[w].run
    <3>1. r \in Run /\ state[r] = "running"
      BY <2>5, WorkerTypes DEF FailRun
    <3>2. IsHead(r) /\ attempts[r] > 0
      BY <3>1, BusyIsHead DEF LeaseOfLatestClaim
    <3>3. AdvanceLane(r) /\ UNCHANGED <<sequence, attempts>> /\ SameRows
      BY <2>5, <3>1 DEF FailRun
    <3> QED BY <3>1, <3>2, <3>3 DEF Leaves
  <2>6. CASE Abandon(w) \/ EnsureIntent(w)
    BY <2>6 DEF Abandon, EnsureIntent, Quiet
  <2> QED BY <1>3, <2>1, <2>2, <2>3, <2>4, <2>5, <2>6 DEF WorkerStep, AnswerStep, FailOrRetry
<1>4. CASE ToolStep \/ DeliveryStep \/ ActionStep
  <2> USE <1>0 DEF Become, TypeOK, laneVars
  <2>1. CASE \E r \in Run : ResumeFromToolApproval(r)
    BY <2>1 DEF ResumeFromToolApproval, AwaitingTool, Quiet
  <2>2. ASSUME NEW r \in Run, SettleDelivery(r) PROVE Leaves(r)
    <3>1. IsHead(r)
      BY <2>2, BusyIsHead DEF SettleDelivery
    <3>2. phase[r] = "finalize"
      BY <2>2 DEF SettleDelivery, ColumnsAgree, RowAgrees
    <3> QED BY <2>2, <3>1, <3>2 DEF SettleDelivery, Leaves, BegunOnce
  <2>3. CASE \E r \in Run : CompleteAction(r)
    BY <2>3 DEF CompleteAction, AwaitingAction, Quiet
  <2>4. ASSUME NEW r \in Run, FailAction(r) PROVE Quiet
    BY <2>4 DEF FailAction, ColumnsAgree, RowAgrees, Quiet
  <2> QED BY <1>4, <2>1, <2>2, <2>3, <2>4 DEF ToolStep, DeliveryStep, ActionStep
<1> QED BY <1>1, <1>2, <1>3, <1>4 DEF Next

(* What a step does to a run that is there already.                            *)
LEMMA PresentStays ==
    ASSUME RunsInv, BegunOnce, [Next]_runVars, NEW r \in Run, state[r] # "absent"
    PROVE  state'[r] # "absent" /\ sequence'[r] = sequence[r]
<1>1. ASSUME NEW x \in Run, Enqueue(x) PROVE state'[r] # "absent" /\ sequence'[r] = sequence[r]
  BY <1>1 DEF Enqueue, AllocateSequence, RunsInv, TypeOK
<1>2. ASSUME NEW x \in Run, ClaimRun(x) PROVE state'[r] # "absent" /\ sequence'[r] = sequence[r]
  BY <1>2 DEF ClaimRun, Claim
<1>3. ASSUME NEW x \in Run, Leaves(x) PROVE state'[r] # "absent" /\ sequence'[r] = sequence[r]
  BY <1>3 DEF Leaves, SameRows
<1>4. CASE Quiet
  BY <1>4 DEF Quiet, SameRows
<1> QED BY <1>1, <1>2, <1>3, <1>4, StepKinds

LEMMA InLaneKept ==
    ASSUME SameRows, NEW l \in Lane
    PROVE  InLane(l)' = InLane(l)
BY DEF SameRows, InLane

(* The backlog of a lane lists the runs that hold its open numbers.            *)
Lists(l) ==
    /\ BacklogOf(l) \in Seq(Run)
    /\ Len(BacklogOf(l)) = nextEnqueue[l] - nextDispatch[l]
    /\ \A i \in 1 .. nextEnqueue[l] - nextDispatch[l] :
          BacklogOf(l)[i] \in InLane(l) /\ sequence[BacklogOf(l)[i]] = nextDispatch[l] + i - 1

LEMMA BacklogLists == RunsInv => \A l \in Lane : Lists(l)
BY BacklogHas, BacklogIsSeq DEF Lists

LEMMA BacklogListsNext == RunsInv' => \A l \in Lane : Lists(l)'
<1>1. (RunsInv => \A l \in Lane : Lists(l))'
  BY BacklogLists, PTL
<1> QED BY <1>1

(* The backlog of a lane whose positions stay is the same.                     *)
LEMMA BacklogKept ==
    ASSUME RunsInv, RunsInv', NEW l \in Lane,
           nextEnqueue'[l] = nextEnqueue[l], nextDispatch'[l] = nextDispatch[l],
           \A r \in InLane(l) : r \in InLane(l)' /\ sequence'[r] = sequence[r]
    PROVE  BacklogOf(l)' = BacklogOf(l)
<1>1. Lists(l) /\ Lists(l)'
  BY BacklogLists, BacklogListsNext
<1>2. ASSUME NEW i \in 1 .. nextEnqueue[l] - nextDispatch[l]
      PROVE  BacklogOf(l)'[i] = BacklogOf(l)[i]
  <2>1. BacklogOf(l)'[i] \in InLane(l)' /\ sequence'[BacklogOf(l)'[i]] = nextDispatch[l] + i - 1
    BY <1>1 DEF Lists
  <2>2. BacklogOf(l)[i] \in InLane(l)' /\ sequence'[BacklogOf(l)[i]] = nextDispatch[l] + i - 1
    BY <1>1 DEF Lists
  <2> QED BY <2>1, <2>2 DEF RunsInv, GaplessSequence
<1>3. Len(BacklogOf(l)') = Len(BacklogOf(l))
  BY <1>1 DEF Lists
<1> QED BY <1>1, <1>2, <1>3 DEF Lists

LEMMA ServedIs == ASSUME NEW r \in Run PROVE r \in Served <=> Passed(r)
BY DEF Served

LEMMA InitQueue == Init => Queue!Init
<1> SUFFICES ASSUME Init PROVE Queue!Init
  OBVIOUS
<1>1. ASSUME NEW l \in Lane PROVE BacklogOf(l) = <<>> /\ ServingIn(l) = FALSE
  <2>1. nextEnqueue[l] - nextDispatch[l] = 0
    BY <1>1 DEF Init, FirstSequence
  <2>2. BacklogOf(l) = [i \in 1 .. 0 |-> TurnAt(l, nextDispatch[l] + i - 1)]
    BY <2>1 DEF BacklogOf
  <2>3. BacklogOf(l) = <<>>
    BY <2>2
  <2>4. ServingIn(l) = FALSE
    BY DEF Init, ServingIn, InLane
  <2> QED BY <2>3, <2>4
<1>2. Served = {}
  BY DEF Init, Served, Passed
<1>3. Backlog = [l \in Lane |-> <<>>] /\ Serving = [l \in Lane |-> FALSE]
  BY <1>1 DEF Backlog, Serving
<1> QED BY <1>2, <1>3 DEF Queue!Init

(* Nothing that the queue sees changes.                                        *)
LEMMA QueueOfQuiet ==
    ASSUME RunsInv, RunsInv', Quiet
    PROVE  UNCHANGED <<Backlog, Serving, Served>>
<1>1. ASSUME NEW l \in Lane PROVE BacklogOf(l)' = BacklogOf(l) /\ ServingIn(l)' = ServingIn(l)
  <2>1. InLane(l)' = InLane(l)
    BY <1>1, InLaneKept DEF Quiet
  <2>2. BacklogOf(l)' = BacklogOf(l)
    BY <1>1, <2>1, BacklogKept DEF Quiet
  <2>3. \A r \in InLane(l) : IsHead(r)' = IsHead(r)
    BY DEF Quiet, SameRows, IsHead, InLane
  <2> QED BY <2>1, <2>2, <2>3 DEF ServingIn, Quiet
<1>2. Served' = Served
  BY DEF Served, Passed, Quiet, SameRows
<1> QED BY <1>1, <1>2 DEF Backlog, Serving

LEMMA QueueOfEnqueue ==
    ASSUME RunsInv, RunsInv', NEW r \in Run, Enqueue(r)
    PROVE  Queue!Accept(r)
<1> DEFINE k == LaneOf[r]
<1>0. TypeOK /\ TypeOK' /\ ColumnsAgree
  BY DEF RunsInv
<1>1. /\ k \in Lane /\ state[r] = "absent" /\ state' = [state EXCEPT ![r] = "queued"]
      /\ nextEnqueue' = [nextEnqueue EXCEPT ![k] = @ + 1]
      /\ sequence' = [sequence EXCEPT ![r] = nextEnqueue[k]]
      /\ UNCHANGED <<nextDispatch, attempts>>
  BY <1>0, LaneOfType DEF Enqueue, AllocateSequence, TypeOK
<1>2. \A x \in Run \ {r} : sequence'[x] = sequence[x] /\ state'[x] = state[x]
  BY <1>0, <1>1 DEF TypeOK
<1>3. sequence'[r] = nextEnqueue[k] /\ nextEnqueue'[k] = nextEnqueue[k] + 1
      /\ state'[r] = "queued" /\ attempts[r] = 0
  BY <1>0, <1>1 DEF TypeOK, ColumnsAgree, RowAgrees
<1>4. ASSUME NEW l \in Lane, l # k PROVE BacklogOf(l)' = BacklogOf(l)
  <2>1. \A x \in InLane(l) : x \in InLane(l)' /\ sequence'[x] = sequence[x]
    BY <1>2, <1>4 DEF InLane
  <2>2. nextEnqueue'[l] = nextEnqueue[l]
    BY <1>0, <1>1, <1>4 DEF TypeOK
  <2> QED BY <1>1, <2>1, <2>2, BacklogKept
<1>5. BacklogOf(k)' = Append(BacklogOf(k), r)
  <2> DEFINE n == nextEnqueue[k] - nextDispatch[k]
  <2>1. /\ n \in Nat /\ nextEnqueue'[k] - nextDispatch'[k] = n + 1
        /\ nextDispatch[k] \in Nat /\ nextEnqueue[k] \in Nat
    BY <1>1, <1>3, LaneNumbers
  <2>2. Lists(k) /\ Lists(k)'
    BY <1>1, BacklogLists, BacklogListsNext
  <2>3. /\ BacklogOf(k) \in Seq(Run) /\ Len(BacklogOf(k)) = n
        /\ BacklogOf(k)' \in Seq(Run) /\ Len(BacklogOf(k)') = n + 1
    BY <2>1, <2>2 DEF Lists
  <2>4. ASSUME NEW i \in 1 .. n PROVE BacklogOf(k)'[i] = BacklogOf(k)[i]
    <3>1. /\ BacklogOf(k)'[i] \in InLane(k)'
          /\ sequence'[BacklogOf(k)'[i]] = nextDispatch[k] + i - 1
      BY <1>1, <2>1, <2>2 DEF Lists
    <3>2. /\ BacklogOf(k)[i] \in InLane(k) /\ sequence[BacklogOf(k)[i]] = nextDispatch[k] + i - 1
      BY <2>2 DEF Lists
    <3>3. BacklogOf(k)[i] \in InLane(k)' /\ BacklogOf(k)[i] # r
      BY <1>1, <1>2, <3>2 DEF InLane
    <3>4. sequence'[BacklogOf(k)[i]] = nextDispatch[k] + i - 1
      BY <1>2, <3>2, <3>3 DEF InLane
    <3> QED BY <1>1, <3>1, <3>3, <3>4 DEF RunsInv, GaplessSequence
  <2>5. BacklogOf(k)'[n + 1] = r
    <3>1. /\ BacklogOf(k)'[n + 1] \in InLane(k)'
          /\ sequence'[BacklogOf(k)'[n + 1]] = nextDispatch[k] + (n + 1) - 1
      BY <1>1, <2>1, <2>2 DEF Lists
    <3>2. r \in InLane(k)' /\ sequence'[r] = nextDispatch[k] + (n + 1) - 1
      BY <1>3, <2>1 DEF InLane
    <3> QED BY <1>1, <3>1, <3>2 DEF RunsInv, GaplessSequence
  <2> HIDE DEF n
  <2> QED BY <2>1, <2>3, <2>4, <2>5
<1>6. ASSUME NEW l \in Lane PROVE ServingIn(l)' = ServingIn(l)
  <2>1. \A x \in InLane(l) : x \in InLane(l)' /\ (IsHead(x)' <=> IsHead(x))
    BY <1>1, <1>2 DEF InLane, IsHead
  <2>2. \A x \in InLane(l)' : x = r \/ x \in InLane(l)
    BY <1>2 DEF InLane
  <2> QED BY <1>1, <1>3, <2>1, <2>2 DEF ServingIn
<1>7. Served' = Served
  <2>1. ~Passed(r) /\ ~Passed(r)'
    BY <1>1, <1>3, LaneNumbers DEF Passed
  <2>2. \A x \in Run \ {r} : Passed(x)' <=> Passed(x)
    BY <1>1, <1>2 DEF Passed
  <2> QED BY <2>1, <2>2 DEF Served
<1>8. r \notin Served
  BY <1>1 DEF Served, Passed
<1>9. ~Queue!Waiting(r)
  <2>1. \A i \in DOMAIN BacklogOf(k) : BacklogOf(k)[i] # r
    <3>1. Lists(k)
      BY <1>1, BacklogLists
    <3> QED BY <1>1, <3>1 DEF Lists, InLane
  <2> QED BY <1>1, <2>1 DEF Queue!Waiting, Backlog
<1>10. Backlog' = [Backlog EXCEPT ![k] = Append(@, r)]
  BY <1>1, <1>4, <1>5 DEF Backlog
<1>11. Serving' = Serving
  BY <1>6 DEF Serving
<1> QED BY <1>7, <1>8, <1>9, <1>10, <1>11 DEF Queue!Accept

(* The head of a lane is the first of its backlog, and the only head.          *)
LEMMA HeadIsFirst ==
    ASSUME RunsInv, NEW r \in Run, IsHead(r)
    PROVE  /\ LaneOf[r] \in Lane /\ r \in InLane(LaneOf[r])
           /\ BacklogOf(LaneOf[r]) # <<>> /\ Head(BacklogOf(LaneOf[r])) = r
           /\ \A x \in InLane(LaneOf[r]) : IsHead(x) => x = r
<1> DEFINE k == LaneOf[r]
<1>1. k \in Lane /\ r \in InLane(k)
  BY LaneOfType DEF InLane, IsHead
<1>2. sequence[r] = nextDispatch[k] /\ sequence[r] \in 1 .. nextEnqueue[k] - 1
  BY <1>1 DEF IsHead, RunsInv, GaplessSequence
<1>3. nextEnqueue[k] - nextDispatch[k] >= 1 /\ nextDispatch[k] \in Nat /\ nextEnqueue[k] \in Nat
  BY <1>1, <1>2, LaneNumbers
<1>4. Lists(k)
  BY <1>1, BacklogLists
<1>5. BacklogOf(k) # <<>> /\ BacklogOf(k)[1] = Head(BacklogOf(k))
  BY <1>3, <1>4 DEF Lists
<1>6. BacklogOf(k)[1] \in InLane(k) /\ sequence[BacklogOf(k)[1]] = nextDispatch[k]
  BY <1>3, <1>4 DEF Lists
<1>7. \A x \in InLane(k) : sequence[x] = nextDispatch[k] => x = r
  BY <1>1, <1>2, TurnUnique
<1> QED BY <1>1, <1>5, <1>6, <1>7 DEF IsHead, InLane

LEMMA QueueOfClaim ==
    ASSUME RunsInv, RunsInv', NEW r \in Run, ClaimRun(r)
    PROVE  \/ Queue!Begin(LaneOf[r])
           \/ UNCHANGED <<Backlog, Serving, Served>>
<1> DEFINE k == LaneOf[r]
<1> PICK w \in Worker, expired \in SUBSET Expirable : Claim(w, r, expired)
  BY DEF ClaimRun
<1>0. TypeOK
  BY DEF RunsInv
<1>1. /\ IsHead(r) /\ attempts' = [attempts EXCEPT ![r] = @ + 1]
      /\ UNCHANGED <<nextEnqueue, nextDispatch, sequence>>
  BY DEF Claim, Claimable, laneVars
<1>2. SameRows
  BY <1>0 DEF Claim, Claimable, IsHead, AwaitingTool, SameRows, TypeOK
<1>3. attempts'[r] > 0 /\ attempts[r] \in Nat /\ \A x \in Run \ {r} : attempts'[x] = attempts[x]
  BY <1>0, <1>1 DEF TypeOK
<1>4. ASSUME NEW l \in Lane
      PROVE  /\ BacklogOf(l)' = BacklogOf(l) /\ InLane(l)' = InLane(l)
             /\ \A x \in InLane(l) : IsHead(x)' <=> IsHead(x)
  <2>1. InLane(l)' = InLane(l)
    BY <1>2, InLaneKept
  <2>2. \A x \in InLane(l) : IsHead(x)' <=> IsHead(x)
    BY <1>1, <1>2 DEF SameRows, IsHead, InLane
  <2> QED BY <1>1, <2>1, <2>2, BacklogKept
<1>5. Backlog' = Backlog /\ Served' = Served
  <2>1. Served' = Served
    BY <1>1, <1>2 DEF Served, Passed, SameRows
  <2> QED BY <1>4, <2>1 DEF Backlog
<1>6. k \in Lane /\ r \in InLane(k) /\ Backlog[k] # <<>>
      /\ \A x \in InLane(k) : IsHead(x) => x = r
  BY <1>1, HeadIsFirst DEF Backlog
<1>7. ASSUME NEW l \in Lane, l # k PROVE ServingIn(l)' = ServingIn(l)
  <2>1. r \notin InLane(l) /\ InLane(l) \subseteq Run
    BY <1>7 DEF InLane
  <2> QED BY <1>3, <1>4, <2>1 DEF ServingIn
<1>8. ServingIn(k)' = TRUE
  BY <1>1, <1>3, <1>4, <1>6 DEF ServingIn
<1>9. ServingIn(k) <=> attempts[r] > 0
  BY <1>1, <1>6 DEF ServingIn
<1>10. CASE attempts[r] > 0
  <2>1. ServingIn(k) = TRUE
    BY <1>9, <1>10 DEF ServingIn
  <2> QED BY <1>5, <1>7, <1>8, <2>1 DEF Serving
<1>11. CASE ~(attempts[r] > 0)
  <2>1. Serving' = [Serving EXCEPT ![k] = TRUE] /\ ~Serving[k]
    BY <1>6, <1>7, <1>8, <1>9, <1>11 DEF Serving
  <2> QED BY <1>5, <1>6, <2>1 DEF Queue!Begin
<1> QED BY <1>10, <1>11

LEMMA QueueOfLeave ==
    ASSUME RunsInv, RunsInv', NEW r \in Run, Leaves(r)
    PROVE  Queue!Finish(LaneOf[r])
<1> DEFINE k == LaneOf[r]
<1>0. TypeOK /\ OneTurnAtATime'
  BY DEF RunsInv
<1>1. /\ IsHead(r) /\ attempts[r] > 0 /\ SameRows
      /\ nextDispatch' = [nextDispatch EXCEPT ![k] = @ + 1]
      /\ UNCHANGED <<nextEnqueue, sequence, attempts>>
  BY DEF Leaves, AdvanceLane
<1>2. /\ k \in Lane /\ r \in InLane(k) /\ BacklogOf(k) # <<>> /\ Head(BacklogOf(k)) = r
      /\ \A x \in InLane(k) : IsHead(x) => x = r
  BY <1>1, HeadIsFirst
<1>3. nextDispatch'[k] = nextDispatch[k] + 1 /\ \A l \in Lane \ {k} : nextDispatch'[l] = nextDispatch[l]
  BY <1>0, <1>1, <1>2 DEF TypeOK
<1>4. \A l \in Lane : InLane(l)' = InLane(l)
  BY <1>1, InLaneKept
<1>5. ASSUME NEW l \in Lane, l # k
      PROVE  BacklogOf(l)' = BacklogOf(l) /\ ServingIn(l)' = ServingIn(l)
  <2>1. BacklogOf(l)' = BacklogOf(l)
    BY <1>1, <1>3, <1>4, <1>5, BacklogKept
  <2>2. \A x \in InLane(l) : IsHead(x)' <=> IsHead(x)
    BY <1>1, <1>3, <1>5 DEF SameRows, IsHead, InLane
  <2> QED BY <1>1, <1>4, <2>1, <2>2 DEF ServingIn
<1>6. BacklogOf(k)' = Tail(BacklogOf(k))
  <2> DEFINE n == nextEnqueue[k] - nextDispatch[k]
  <2>1. Lists(k) /\ Lists(k)'
    BY <1>2, BacklogLists, BacklogListsNext
  <2>2. /\ n \in Nat \ {0} /\ nextEnqueue'[k] - nextDispatch'[k] = n - 1
        /\ nextDispatch[k] \in Nat /\ nextEnqueue[k] \in Nat
    <3>1. /\ nextDispatch[k] \in Nat /\ nextEnqueue[k] \in Nat
          /\ nextEnqueue'[k] = nextEnqueue[k] /\ nextDispatch'[k] = nextDispatch[k] + 1
      BY <1>1, <1>2, <1>3, LaneNumbers
    <3>2. nextDispatch'[k] <= nextEnqueue'[k]
      BY <1>2 DEF RunsInv, GaplessSequence
    <3> QED BY <3>1, <3>2
  <2>3. /\ BacklogOf(k) \in Seq(Run) /\ Len(BacklogOf(k)) = n
        /\ BacklogOf(k)' \in Seq(Run) /\ Len(BacklogOf(k)') = n - 1
    BY <2>1, <2>2 DEF Lists
  <2>4. ASSUME NEW i \in 1 .. n - 1 PROVE BacklogOf(k)'[i] = BacklogOf(k)[i + 1]
    <3>1. /\ BacklogOf(k)'[i] \in InLane(k)'
          /\ sequence'[BacklogOf(k)'[i]] = nextDispatch'[k] + i - 1
      BY <2>1, <2>2 DEF Lists
    <3>2. i + 1 \in 1 .. n
      BY <2>2
    <3>3. /\ BacklogOf(k)[i + 1] \in InLane(k)
          /\ sequence[BacklogOf(k)[i + 1]] = nextDispatch[k] + (i + 1) - 1
      BY <2>1, <3>2 DEF Lists
    <3>4. sequence[BacklogOf(k)'[i]] = sequence[BacklogOf(k)[i + 1]]
      BY <1>1, <1>3, <2>2, <3>1, <3>3
    <3> QED BY <1>2, <1>4, <3>1, <3>3, <3>4, TurnUnique
  <2> HIDE DEF n
  <2>5. /\ Tail(BacklogOf(k)) \in Seq(Run) /\ Len(Tail(BacklogOf(k))) = n - 1
        /\ \A i \in 1 .. n - 1 : Tail(BacklogOf(k))[i] = BacklogOf(k)[i + 1]
    BY <1>2, <2>2, <2>3
  <2> QED BY <2>2, <2>3, <2>4, <2>5
<1>7. ServingIn(k) = TRUE
  BY <1>1, <1>2 DEF ServingIn
(* the next turn of the lane has not been touched                              *)
<1>8. ServingIn(k)' = FALSE
  <2>1. ASSUME NEW x \in InLane(k), IsHead(x)' PROVE ~(attempts'[x] > 0)
    <3>1. x \in Run /\ LaneOf[x] = k /\ state[x] # "absent"
      BY DEF InLane
    <3>2. sequence[x] = nextDispatch[k] + 1 /\ nextDispatch[k] \in Nat
      BY <1>1, <1>2, <1>3, <2>1, <3>1, LaneNumbers DEF IsHead
    <3>3. sequence[x] > nextDispatch[LaneOf[x]]
      BY <3>1, <3>2
    <3>4. attempts[x] = 0
      BY <3>1, <3>3 DEF RunsInv, OneTurnAtATime
    <3> QED BY <1>1, <3>4
  <2> QED BY <1>2, <1>4, <2>1 DEF ServingIn
<1>9. Served' = Served \cup {r}
  <2>1. ASSUME NEW x \in Run PROVE Passed(x)' <=> Passed(x) \/ x = r
    <3>1. CASE LaneOf[x] # k
      <4>1. LaneOf[x] \in Lane
        BY LaneOfType
      <4> QED BY <1>1, <1>3, <3>1, <4>1 DEF Passed, SameRows
    <3>2. CASE LaneOf[x] = k
      <4>1. nextDispatch[k] \in Nat /\ sequence[x] \in Nat
        BY <1>0, <1>2 DEF TypeOK
      <4>2. state[x] # "absent" /\ sequence[x] = nextDispatch[k] <=> x = r
        BY <1>1, <1>2, <3>2 DEF IsHead, InLane
      <4> QED BY <1>1, <1>3, <3>2, <4>1, <4>2 DEF Passed, SameRows
    <3> QED BY <3>1, <3>2
  <2> QED BY <2>1 DEF Served
<1>10. Backlog' = [Backlog EXCEPT ![k] = Tail(@)] /\ Serving' = [Serving EXCEPT ![k] = FALSE]
  BY <1>2, <1>5, <1>6, <1>8 DEF Backlog, Serving
<1>11. Serving[k] /\ Head(Backlog[k]) = r
  BY <1>2, <1>7 DEF Backlog, Serving
<1> QED BY <1>9, <1>10, <1>11 DEF Queue!Finish

LEMMA QueueStep ==
    ASSUME RunsInv, RunsInv', BegunOnce, [Next]_runVars
    PROVE  [Queue!Next]_<<Backlog, Serving, Served>>
<1>1. ASSUME NEW r \in Run, Enqueue(r) PROVE Queue!Next
  BY <1>1, QueueOfEnqueue DEF Queue!Next
<1>2. ASSUME NEW r \in Run, ClaimRun(r) PROVE [Queue!Next]_<<Backlog, Serving, Served>>
  <2>1. LaneOf[r] \in Lane
    BY LaneOfType
  <2> QED BY <1>2, <2>1, QueueOfClaim DEF Queue!Next
<1>3. ASSUME NEW r \in Run, Leaves(r) PROVE Queue!Next
  <2>1. LaneOf[r] \in Lane
    BY LaneOfType
  <2> QED BY <1>3, <2>1, QueueOfLeave DEF Queue!Next
<1> QED BY <1>1, <1>2, <1>3, StepKinds, QueueOfQuiet

(* The rows of the lanes and runs implement the queue that the platform        *)
(* promises: in every conversation, whatever number of workers, crashes and    *)
(* retries, work begins and ends in the order in which the messages came in,   *)
(* one turn at a time, and no turn comes back.                                 *)
THEOREM ServesInOrderCorrect == Spec => ServesInOrder
<1>1. Init => BegunOnce
  BY DEF Init, BegunOnce
<1>2. RunsInv /\ RunsInv' /\ BegunOnce /\ [Next]_runVars => [Queue!Next]_Queue!vars
  BY QueueStep DEF Queue!vars
<1>3. Spec => Queue!Init /\ [][Queue!Next]_Queue!vars
  BY <1>1, <1>2, InitRuns, RunsStep, BegunStep, InitQueue, PTL DEF Spec
<1> QED BY <1>3 DEF ServesInOrder, Queue!Spec
===============================================================================
