--------------------------- MODULE McpServers_proofs ---------------------------
(***************************************************************************)
(* Proofs about McpServers, for any number of tool calls, catalogs, late   *)
(* answers and failures.                                                   *)
(*                                                                         *)
(* Where the supervisor is in its pass says what it has in hand: LifeOK    *)
(* ties the process and the map to that place, ChecksOK what it has found  *)
(* out about the server so far.  ServesWhatWasChecked follows at the end of*)
(* the pass, and is itself part of the inductive invariant, because it has *)
(* to hold until the next one begins.                                      *)
(***************************************************************************)
EXTENDS McpServers, FiniteSetTheorems, TLAPS

-------------------------------------------------------------------------------
(* Names of instances                                                         *)

LEMMA OneMore ==
    ASSUME NEW S, IsFiniteSet(S), NEW n \in Nat, Cardinality(S) <= n, NEW x
    PROVE  IsFiniteSet(S \cup {x}) /\ Cardinality(S \cup {x}) <= n + 1
<1>1. Cardinality(S) \in Nat
  BY FS_CardinalityType
<1>2. /\ IsFiniteSet(S \cup {x})
      /\ Cardinality(S \cup {x}) = IF x \in S THEN Cardinality(S) ELSE Cardinality(S) + 1
  BY FS_AddElement
<1> QED BY <1>1, <1>2

(* A name that nobody holds: there is one more than can be held at once.       *)
LEMMA FreshName ==
    /\ FreshInstance \in Instances
    /\ FreshInstance \notin {0, instance, health.of}
<1> DEFINE places == [c \in Caller |-> call[c].on]
           On == {call[c].on : c \in Caller}
           n == Cardinality(Caller)
<1>1. IsFiniteSet(Caller) /\ n \in Nat
  BY CallerType, FS_CardinalityType
<1>2. IsFiniteSet(On) /\ Cardinality(On) <= n
  <2>1. places \in Surjection(Caller, On)
    BY DEF Surjection
  <2> HIDE DEF places, On
  <2>2. IsFiniteSet(On) /\ Cardinality(On) <= Cardinality(Caller)
    BY <1>1, <2>1, FS_Surjection
  <2> QED BY <2>2
<1> HIDE DEF On, n
<1>3. IsFiniteSet(On \cup {0}) /\ Cardinality(On \cup {0}) <= n + 1
  BY <1>1, <1>2, OneMore
<1> DEFINE On1 == On \cup {0}
<1> HIDE DEF On1
<1>4. IsFiniteSet(On1 \cup {instance}) /\ Cardinality(On1 \cup {instance}) <= n + 2
  <2>1. n + 1 \in Nat /\ (n + 1) + 1 = n + 2
    BY <1>1
  <2>2. IsFiniteSet(On1) /\ Cardinality(On1) <= n + 1
    BY <1>3 DEF On1
  <2> QED BY <2>1, <2>2, OneMore
<1> DEFINE On2 == On1 \cup {instance}
<1> HIDE DEF On2
<1>5. IsFiniteSet(On2 \cup {health.of}) /\ Cardinality(On2 \cup {health.of}) <= n + 3
  <2>1. n + 2 \in Nat /\ (n + 2) + 1 = n + 3
    BY <1>1
  <2>2. IsFiniteSet(On2) /\ Cardinality(On2) <= n + 2
    BY <1>4 DEF On2
  <2> QED BY <2>1, <2>2, OneMore
<1>6. NamesHeld = On2 \cup {health.of}
  BY DEF NamesHeld, On, On1, On2
<1>7. IsFiniteSet(Instances) /\ Cardinality(Instances) = n + 4
  <2>1. n + 3 \in Int /\ ~(0 > n + 3)
    BY <1>1
  <2>2. IsFiniteSet(0 .. n + 3) /\ Cardinality(0 .. n + 3) = n + 3 - 0 + 1
    BY <2>1, FS_Interval
  <2> QED BY <1>1, <2>2 DEF Instances, n
<1>8. ~(Instances \subseteq NamesHeld)
  <2> SUFFICES ASSUME Instances \subseteq NamesHeld PROVE FALSE
    OBVIOUS
  <2>1. Cardinality(Instances) <= Cardinality(NamesHeld)
    BY <1>5, <1>6, FS_Subset
  <2>2. Cardinality(NamesHeld) \in Nat
    BY <1>5, <1>6, FS_CardinalityType
  <2> QED BY <1>1, <1>5, <1>6, <1>7, <2>1, <2>2
<1>9. FreshInstance \in Instances /\ FreshInstance \notin NamesHeld
  BY <1>8 DEF FreshInstance
<1> QED BY <1>9 DEF NamesHeld

-------------------------------------------------------------------------------
(* The invariant                                                              *)

Clients == [config : Config, catalog : Catalog, listed : Catalog, holder : Caller \cup {Supervisor, Nobody},
            unanswered : BOOLEAN, owed : 0 .. MaxLate, line : Seq({"own", "late"}),
            accepts : BOOLEAN, reading : BOOLEAN, broken : BOOLEAN, closed : BOOLEAN]

Wanted == sup.want \in Rows /\ sup.want # NoServer

(* A process runs only while the supervisor has it in the map or in hand.      *)
LifeOK ==
    /\ running \subseteq {instance} \ {0}
    /\ running # {} => mapped = instance \/ sup.step \in {"connect", "takeback", "close"}
    /\ mapped # 0 => mapped = instance
    /\ sup.step \in {"connect", "takeback", "close"} => mapped = 0
    /\ sup.step \in {"promote", "refresh", "writing", "listing", "remove"} => mapped # 0
    /\ sup.step = "connect" => instance # 0
    /\ sup.step \in {"connect", "close"} \/ mapped # 0 => restarts < MaxRestarts

(* What the pass knows of the server it starts or checks.                      *)
ChecksOK ==
    /\ sup.step \in {"connect", "promote", "refresh", "writing", "listing"} => Wanted
    /\ sup.step \in {"connect", "promote"} => client.config = sup.want.config
    /\ sup.step = "promote" => client.listed = sup.want.expected
    /\ sup.step = "takeback" => faults > 0
    /\ mapped = 0 /\ faults = 0 /\ sup.step # "close" => health.state # "healthy"

McpIInv == McpTypeOK /\ AnswersAreOwn /\ LifeOK /\ ChecksOK /\ ServesWhatWasChecked

LEMMA ZeroIsName == 0 \in Instances
BY CallerType, FS_CardinalityType DEF Instances

LEMMA InitMcpIInv == Init => McpIInv
<1> SUFFICES ASSUME Init PROVE McpIInv
  OBVIOUS
<1> PICK config \in Config :
        /\ row = [server |-> [config |-> config, expected |-> offers[config]], enabled |-> TRUE]
        /\ client = [NewClient(config) EXCEPT !.reading = FALSE, !.closed = TRUE]
  BY DEF Init
<1>1. NewClient(config) \in Clients
  BY LimitType DEF Init, NewClient, Clients
<1>2. client \in Clients
  BY <1>1 DEF Clients
<1>3. row \in [server : Rows, enabled : BOOLEAN]
  BY DEF Init, Rows
<1>4. McpTypeOK
  BY <1>2, <1>3, ZeroIsName, LimitType
     DEF Init, McpTypeOK, Clients, HealthStates, SupSteps, NoCall, CallSteps
<1> QED BY <1>4 DEF Init, McpIInv, AnswersAreOwn, LifeOK, ChecksOK, ServesWhatWasChecked, NoCall

-------------------------------------------------------------------------------
(* The client                                                                 *)

(* What a request changes of the client when it returns.                       *)
LEMMA ReturnedClient ==
    ASSUME client \in Clients, NEW line \in Seq({"own", "late"}), NEW broken \in BOOLEAN,
           Returned(line, broken)
    PROVE  client' \in Clients /\ client'.config = client.config /\ client'.listed = client.listed
<1>1. [k \in DOMAIN line |-> "late"] \in Seq({"own", "late"})
  OBVIOUS
<1>2. (IF client.unanswered /\ client.owed < MaxLate THEN client.owed + 1 ELSE client.owed) \in 0 .. MaxLate
  BY LimitType DEF Clients
<1> QED BY <1>1, <1>2 DEF Returned, Clients

LEMMA UnansweredClient ==
    ASSUME client \in Clients, Unanswered
    PROVE  client' \in Clients /\ client'.config = client.config /\ client'.listed = client.listed
<1>1. client.line \in Seq({"own", "late"}) /\ client.broken \in BOOLEAN
  BY DEF Clients
<1>2. client.line # <<>> => Tail(client.line) \in Seq({"own", "late"})
  BY <1>1
<1>3. <<>> \in Seq({"own", "late"})
  OBVIOUS
<1> QED BY <1>1, <1>2, <1>3, ReturnedClient DEF Unanswered, Mismatched, ReadFailed, GivenUp

LEMMA AnsweredClient ==
    ASSUME client \in Clients, Answered
    PROVE  /\ client' \in Clients /\ client'.config = client.config /\ client'.listed = client.listed
           /\ Head(client.line) = "own"
<1>1. client.line \in Seq({"own", "late"}) /\ client.broken \in BOOLEAN
  BY DEF Clients
<1>2. Tail(client.line) \in Seq({"own", "late"})
  BY <1>1 DEF Answered
<1> QED BY <1>1, <1>2, ReturnedClient DEF Answered, IsOwn

LEMMA WrittenClient ==
    ASSUME client \in Clients, WriteEnds
    PROVE  client' \in Clients /\ client'.config = client.config /\ client'.listed = client.listed
BY DEF WriteEnds, Clients

LEMMA ClosedIsClient == ASSUME client \in Clients PROVE ClosedClient \in Clients
<1>1. <<>> \in Seq({"own", "late"}) /\ 0 \in 0 .. MaxLate
  BY LimitType
<1> QED BY <1>1 DEF Clients, ClosedClient

(* The steps of the world and of the tool calls leave what the supervisor      *)
(* relies on alone.                                                            *)
Unconcerned ==
    /\ UNCHANGED supVars /\ UNCHANGED instance /\ running' \subseteq running
    /\ client'.config = client.config /\ client'.listed = client.listed
    /\ faults' \in 0 .. MaxFaults /\ faults' >= faults

LEMMA UnconcernedKeeps ==
    ASSUME McpIInv, Unconcerned, McpTypeOK', AnswersAreOwn'
    PROVE  McpIInv'
<1>1. faults \in Nat /\ faults' \in Nat
  BY LimitType DEF McpIInv, McpTypeOK
<1>2. LifeOK'
  BY DEF McpIInv, Unconcerned, supVars, LifeOK
<1>3. ChecksOK' /\ ServesWhatWasChecked'
  BY <1>1 DEF McpIInv, Unconcerned, supVars, ChecksOK, Wanted, ServesWhatWasChecked
<1> QED BY <1>2, <1>3 DEF McpIInv

LEMMA WorldStep ==
    ASSUME McpIInv,
           \/ \E config \in Config, enabled \in BOOLEAN : Register(config, enabled)
           \/ \E enabled \in BOOLEAN : SetEnabled(enabled)
           \/ \E config \in Config, catalog \in Catalog : OfferOtherTools(config, catalog)
           \/ ServerStopsReading \/ ServerReadsAgain \/ ServerFails \/ AnswerOwn \/ AnswerLate
    PROVE  McpIInv'
<1>0. McpTypeOK /\ AnswersAreOwn /\ client \in Clients /\ faults \in 0 .. MaxFaults
      /\ MaxFaults \in Nat /\ MaxChanges \in Nat
  BY LimitType DEF McpIInv, McpTypeOK, Clients
<1> USE <1>0
<1>1. ASSUME NEW config \in Config, NEW enabled \in BOOLEAN, Register(config, enabled)
      PROVE  McpIInv'
  <2>1. row' \in [server : Rows, enabled : BOOLEAN] /\ changes' \in 0 .. MaxChanges
    BY <1>1 DEF Register, Change, Rows, McpTypeOK
  <2>2. McpTypeOK' /\ AnswersAreOwn' /\ Unconcerned
    BY <1>1, <2>1 DEF Register, McpTypeOK, AnswersAreOwn, Unconcerned, supVars, clientVars
  <2> QED BY <2>2, UnconcernedKeeps
<1>2. ASSUME NEW enabled \in BOOLEAN, SetEnabled(enabled) PROVE McpIInv'
  <2>1. row' \in [server : Rows, enabled : BOOLEAN] /\ changes' \in 0 .. MaxChanges
    BY <1>2 DEF SetEnabled, Change, McpTypeOK
  <2>2. McpTypeOK' /\ AnswersAreOwn' /\ Unconcerned
    BY <1>2, <2>1 DEF SetEnabled, McpTypeOK, AnswersAreOwn, Unconcerned, supVars, clientVars
  <2> QED BY <2>2, UnconcernedKeeps
<1>3. ASSUME NEW config \in Config, NEW catalog \in Catalog, OfferOtherTools(config, catalog)
      PROVE  McpIInv'
  <2>1. /\ client' \in Clients /\ client'.config = client.config /\ client'.listed = client.listed
        /\ changes' \in 0 .. MaxChanges /\ offers' \in [Config -> Catalog]
    <3>1. client' = client \/ client' = [client EXCEPT !.catalog = catalog]
      BY <1>3 DEF OfferOtherTools
    <3>2. client' \in Clients /\ client'.config = client.config /\ client'.listed = client.listed
      BY <1>0, <3>1 DEF Clients
    <3>3. changes' \in 0 .. MaxChanges /\ offers' \in [Config -> Catalog]
      BY <1>3 DEF OfferOtherTools, Change, McpTypeOK
    <3> QED BY <3>2, <3>3
  <2>2. McpTypeOK' /\ AnswersAreOwn' /\ Unconcerned
    BY <1>3, <2>1 DEF OfferOtherTools, McpTypeOK, Clients, AnswersAreOwn, Unconcerned, supVars
  <2> QED BY <2>2, UnconcernedKeeps
<1>4. CASE ServerFails
  <2>1. /\ client' \in Clients /\ client'.config = client.config /\ client'.listed = client.listed
    BY <1>4 DEF ServerFails, Clients
  <2>2. faults' \in 0 .. MaxFaults /\ faults' >= faults
    BY <1>0, <1>4 DEF ServerFails, Fault
  <2>3. running' \subseteq running
    BY <1>4 DEF ServerFails
  <2>4. McpTypeOK' /\ AnswersAreOwn' /\ Unconcerned
    BY <1>4, <2>1, <2>2, <2>3 DEF ServerFails, McpTypeOK, Clients, AnswersAreOwn, Unconcerned, supVars, externalVars
  <2> QED BY <2>4, UnconcernedKeeps
<1>5. CASE AnswerOwn \/ AnswerLate
  <2>1. \A a \in {"own", "late"} : Append(client.line, a) \in Seq({"own", "late"})
    BY DEF Clients
  <2>2. /\ client' \in Clients /\ client'.config = client.config /\ client'.listed = client.listed
    <3> PICK own, late : own = Append(client.line, "own") /\ late = Append(client.line, "late")
      OBVIOUS
    <3>1. {own, late} \subseteq Seq({"own", "late"})
      BY <2>1
    <3>2. CASE AnswerOwn
      <4>1. client' = [client EXCEPT !.unanswered = FALSE, !.line = own]
        BY <3>2 DEF AnswerOwn, Clients
      <4> QED BY <3>1, <4>1 DEF Clients
    <3>3. CASE AnswerLate
      <4>1. client' = [client EXCEPT !.owed = client.owed - 1, !.line = late]
        BY <3>3 DEF AnswerLate, Clients
      <4>2. client.owed - 1 \in 0 .. MaxLate
        BY <3>3, LimitType DEF AnswerLate, Clients
      <4> QED BY <3>1, <4>1, <4>2 DEF Clients
    <3> QED BY <1>5, <3>2, <3>3
  <2>3. McpTypeOK' /\ AnswersAreOwn' /\ Unconcerned
    BY <1>5, <2>2 DEF AnswerOwn, AnswerLate, McpTypeOK, Clients, AnswersAreOwn, Unconcerned,
                      supVars, externalVars
  <2> QED BY <2>3, UnconcernedKeeps
<1>6. CASE ServerStopsReading \/ ServerReadsAgain
  <2>1. /\ client' \in Clients /\ client'.config = client.config /\ client'.listed = client.listed
    BY <1>6 DEF ServerStopsReading, ServerReadsAgain, Clients
  <2>2. faults' \in 0 .. MaxFaults /\ faults' >= faults
    BY <1>0, <1>6 DEF ServerStopsReading, ServerReadsAgain, Fault
  <2>3. McpTypeOK' /\ AnswersAreOwn' /\ Unconcerned
    BY <1>6, <2>1, <2>2 DEF ServerStopsReading, ServerReadsAgain, McpTypeOK, Clients, AnswersAreOwn,
                            Unconcerned, supVars, externalVars
  <2> QED BY <2>3, UnconcernedKeeps
<1> QED BY <1>1, <1>2, <1>3, <1>4, <1>5, <1>6

LEMMA CallerStep ==
    ASSUME McpIInv, NEW c \in Caller, FindServer(c) \/ CallStep(c)
    PROVE  McpIInv'
<1> DEFINE Calls == [step : CallSteps, on : Instances, got : {"none", "own", "late"}]
<1>0. /\ McpTypeOK /\ AnswersAreOwn /\ client \in Clients /\ faults \in 0 .. MaxFaults /\ MaxFaults \in Nat
      /\ call \in [Caller -> Calls] /\ mapped \in Instances
  BY LimitType DEF McpIInv, McpTypeOK, Clients
<1>1. /\ NoCall \in Calls /\ NoCall.step # "answered"
      /\ \A i \in Instances : /\ [NoCall EXCEPT !.step = "found", !.on = i] \in Calls
                              /\ [NoCall EXCEPT !.step = "found", !.on = i].step # "answered"
      /\ \A step \in {"writing", "asking"} : /\ [NoCall EXCEPT !.step = step] \in Calls
                                            /\ [NoCall EXCEPT !.step = step].step # "answered"
  <2>1. NoCall \in Calls /\ NoCall.step # "answered"
    BY ZeroIsName DEF NoCall, CallSteps
  <2> HIDE DEF NoCall
  <2> QED BY <2>1 DEF CallSteps
<1> HIDE DEF Calls
<1>2. ASSUME NEW next \in Calls, call' = [call EXCEPT ![c] = next],
             next.step = "answered" => next.got = "own",
             client' \in Clients, client'.config = client.config, client'.listed = client.listed,
             UNCHANGED <<externalVars, supVars, instance, running, faults>>
      PROVE  McpIInv'
  <2>1. call' \in [Caller -> Calls] /\ AnswersAreOwn'
    BY <1>0, <1>2 DEF AnswersAreOwn
  <2>2. McpTypeOK' /\ Unconcerned
    BY <1>0, <1>2, <2>1 DEF McpTypeOK, Clients, Calls, Unconcerned, supVars, externalVars
  <2> QED BY <2>1, <2>2, UnconcernedKeeps
<1>3. CASE FindServer(c)
  <2>1. UNCHANGED client
    BY <1>3 DEF FindServer, clientVars
  <2> QED BY <1>0, <1>1, <1>2, <1>3, <2>1 DEF FindServer, clientVars
<1>4. CASE AskServer(c)
  <2>1. Asking(c) => /\ client' \in Clients /\ client'.config = client.config
                     /\ client'.listed = client.listed
    BY <1>0 DEF Asking, Clients
  <2>2. AskingStep("asking") \in {"writing", "asking"}
    BY DEF AskingStep
  <2> QED BY <1>0, <1>1, <1>2, <1>4, <2>1, <2>2 DEF AskServer
<1>5. CASE CallReturns(c)
  <2>1. CASE Unanswered /\ call' = [call EXCEPT ![c] = NoCall]
    BY <1>0, <1>1, <1>2, <1>5, <2>1, UnansweredClient DEF CallReturns
  <2>2. CASE Answered /\ call' = [call EXCEPT ![c].step = "answered", ![c].got = Head(client.line)]
    <3> DEFINE next == [call[c] EXCEPT !.step = "answered", !.got = "own"]
    <3>1. next \in Calls /\ next.step = "answered" /\ next.got = "own"
      BY <1>0 DEF Calls, CallSteps
    <3>2. call' = [call EXCEPT ![c] = next]
      BY <1>0, <2>2, AnsweredClient
    <3> HIDE DEF next
    <3> QED BY <1>0, <1>2, <1>5, <2>2, <3>1, <3>2, AnsweredClient DEF CallReturns
  <2> QED BY <1>5, <2>1, <2>2 DEF CallReturns
<1>6. CASE CallWritten(c)
  BY <1>0, <1>1, <1>2, <1>6, WrittenClient DEF CallWritten
<1> QED BY <1>3, <1>4, <1>5, <1>6 DEF CallStep

-------------------------------------------------------------------------------
(* The supervisor                                                             *)

(* A health row that could not be written is counted as a fault.               *)
LEMMA RecordedTypes ==
    ASSUME McpTypeOK, NEW state \in HealthStates, NEW of \in Instances, RecordedOrNot(state, of)
    PROVE  /\ health' \in [state : HealthStates, of : Instances]
           /\ faults' \in 0 .. MaxFaults
           /\ (health'.state = state \/ faults' > 0)
<1>1. faults \in 0 .. MaxFaults /\ MaxFaults \in Nat
  BY LimitType DEF McpTypeOK
<1> QED BY <1>1 DEF RecordedOrNot, Recorded, Fault, McpTypeOK

LEMMA NewIsClient ==
    ASSUME McpTypeOK, NEW config \in Config
    PROVE  NewClient(config) \in Clients /\ NewClient(config).config = config
<1>1. <<>> \in Seq({"own", "late"}) /\ 0 \in 0 .. MaxLate
  BY LimitType
<1> QED BY <1>1 DEF McpTypeOK, NewClient, Clients

(* ListEnabled, and the start of a server that is not in the map.              *)
LEMMA ListEnabledStep == ASSUME McpIInv, ListEnabled PROVE McpIInv'
<1>0. /\ McpTypeOK /\ AnswersAreOwn /\ LifeOK /\ ChecksOK /\ client \in Clients
      /\ faults \in 0 .. MaxFaults /\ MaxFaults \in Nat /\ restarts \in 0 .. MaxRestarts /\ MaxRestarts \in Nat
      /\ sup.step = "list"
  BY LimitType DEF McpIInv, McpTypeOK, Clients, ListEnabled
<1> PICK want : want = IF row.enabled THEN row.server ELSE NoServer
  OBVIOUS
<1>1. want \in Rows \cup {NoServer}
  BY <1>0 DEF McpTypeOK
<1>2. AnswersAreOwn'
  BY <1>0 DEF ListEnabled, AnswersAreOwn
<1>3. CASE FirstStep(want) # "connect"
  <2>1. /\ sup' = [step |-> FirstStep(want), want |-> want]
        /\ UNCHANGED <<health, clientVars, faults, externalVars, mapped, restarts, call>>
    BY <1>3 DEF ListEnabled
  <2>2. /\ FirstStep(want) \in {"rest", "refresh", "remove"}
        /\ FirstStep(want) = "rest" => mapped = 0
        /\ FirstStep(want) \in {"refresh", "remove"} => mapped # 0
        /\ FirstStep(want) = "refresh" => want # NoServer
    BY <1>3 DEF FirstStep
  <2> HIDE DEF FirstStep
  <2>3. McpTypeOK'
    BY <1>0, <1>1, <2>1, <2>2 DEF McpTypeOK, SupSteps, clientVars, externalVars
  <2>4. LifeOK'
    BY <1>0, <2>1, <2>2 DEF LifeOK, clientVars
  <2>5. ChecksOK' /\ ServesWhatWasChecked'
    BY <1>0, <1>1, <2>1, <2>2 DEF ChecksOK, Wanted, ServesWhatWasChecked, clientVars
  <2> QED BY <1>2, <2>3, <2>4, <2>5 DEF McpIInv
<1>4. CASE FirstStep(want) = "connect"
  <2>0. mapped = 0 /\ want \in Rows /\ want # NoServer /\ UNCHANGED <<externalVars, mapped, restarts, call>>
    BY <1>1, <1>4 DEF FirstStep, ListEnabled
  <2>1. CASE /\ Recorded("degraded", 0)
             /\ sup' = [step |-> "rest", want |-> want]
             /\ UNCHANGED <<clientVars, faults>>
    <3>1. McpTypeOK'
      BY <1>0, <1>1, <2>0, <2>1, ZeroIsName DEF McpTypeOK, SupSteps, HealthStates, Recorded, clientVars, externalVars
    <3>2. LifeOK' /\ ChecksOK' /\ ServesWhatWasChecked'
      BY <1>0, <2>0, <2>1 DEF LifeOK, ChecksOK, ServesWhatWasChecked, Recorded, clientVars
    <3> QED BY <1>2, <3>1, <3>2 DEF McpIInv
  <2>2. CASE /\ ~Exhausted
             /\ Recorded("starting", FreshInstance)
             /\ sup' = [step |-> "connect", want |-> want]
             /\ instance' = FreshInstance
             /\ running' = running \cup {FreshInstance}
             /\ client' = NewClient(want.config)
             /\ UNCHANGED faults
    <3> PICK fresh : fresh = FreshInstance
      OBVIOUS
    <3>1. fresh \in Instances /\ fresh # 0
      BY FreshName
    <3>2. running = {}
      BY <1>0, <2>0 DEF LifeOK
    <3>3. want.config \in Config
      BY <2>0 DEF Rows
    <3>4. client' \in Clients /\ client'.config = want.config
      BY <1>0, <2>2, <3>3, NewIsClient
    <3>5. McpTypeOK'
      BY <1>0, <1>1, <2>0, <2>2, <3>1, <3>2, <3>4
         DEF McpTypeOK, Clients, SupSteps, HealthStates, Recorded, externalVars
    <3>6. LifeOK'
      BY <1>0, <2>0, <2>2, <3>1, <3>2 DEF LifeOK, Exhausted
    <3>7. ChecksOK' /\ ServesWhatWasChecked'
      BY <1>0, <2>0, <2>2, <3>4 DEF ChecksOK, Wanted, ServesWhatWasChecked, Recorded
    <3> QED BY <1>2, <3>5, <3>6, <3>7 DEF McpIInv
  <2>3. CASE Fault /\ UNCHANGED <<health, clientVars>> /\ sup' = [step |-> "rest", want |-> want]
    <3>1. McpTypeOK'
      BY <1>0, <1>1, <2>0, <2>3 DEF McpTypeOK, SupSteps, Fault, clientVars, externalVars
    <3>2. LifeOK' /\ ChecksOK' /\ ServesWhatWasChecked'
      BY <1>0, <2>0, <2>3 DEF LifeOK, ChecksOK, ServesWhatWasChecked, Fault, clientVars
    <3> QED BY <1>2, <3>1, <3>2 DEF McpIInv
  <2> QED BY <1>4, <2>1, <2>2, <2>3 DEF ListEnabled
<1> QED BY <1>3, <1>4

(* From the start of a process to its place in the map, or its end.            *)
LEMMA StartStep == ASSUME McpIInv, Connect \/ Promote \/ TakeBack PROVE McpIInv'
<1>0. /\ McpTypeOK /\ AnswersAreOwn /\ LifeOK /\ ChecksOK /\ client \in Clients
      /\ faults \in 0 .. MaxFaults /\ MaxFaults \in Nat /\ restarts \in 0 .. MaxRestarts /\ MaxRestarts \in Nat
      /\ instance \in Instances /\ sup \in [step : SupSteps, want : Rows \cup {NoServer}]
  BY LimitType DEF McpIInv, McpTypeOK, Clients
<1>1. AnswersAreOwn'
  BY <1>0 DEF Connect, Promote, TakeBack, AnswersAreOwn
<1>2. CASE Connect
  <2>0. /\ sup.step = "connect" /\ mapped = 0 /\ restarts < MaxRestarts /\ instance # 0
        /\ Wanted /\ client.config = sup.want.config
        /\ UNCHANGED <<externalVars, instance, call>>
    BY <1>0, <1>2 DEF Connect, LifeOK, ChecksOK
  <2>1. CASE /\ client.catalog = sup.want.expected /\ client.reading
             /\ client' = [client EXCEPT !.listed = client.catalog]
             /\ mapped' = instance
             /\ At("promote")
             /\ UNCHANGED <<running, restarts, health, faults>>
    <3>1. client' \in Clients /\ client'.config = client.config /\ client'.listed = sup.want.expected
      BY <1>0, <2>1 DEF Clients
    <3>2. sup' \in [step : SupSteps, want : Rows \cup {NoServer}] /\ sup'.step = "promote" /\ sup'.want = sup.want
      BY <1>0, <2>1 DEF At, SupSteps
    <3>3. McpTypeOK'
      BY <1>0, <2>0, <2>1, <3>1, <3>2 DEF McpTypeOK, Clients, externalVars
    <3>4. LifeOK' /\ ChecksOK' /\ ServesWhatWasChecked'
      BY <1>0, <2>0, <2>1, <3>1, <3>2 DEF LifeOK, ChecksOK, Wanted, ServesWhatWasChecked
    <3> QED BY <1>1, <3>3, <3>4 DEF McpIInv
  <2>2. CASE /\ Closed
             /\ restarts' = restarts + 1
             /\ RecordedOrNot("degraded", instance)
             /\ At("rest")
             /\ UNCHANGED mapped
    <3>1. client' \in Clients /\ running' = running \ {instance} /\ restarts' \in 0 .. MaxRestarts
      BY <1>0, <2>0, <2>2, ClosedIsClient DEF Closed
    <3>2. sup' \in [step : SupSteps, want : Rows \cup {NoServer}] /\ sup'.step = "rest"
      BY <1>0, <2>2 DEF At, SupSteps
    <3>3. /\ health' \in [state : HealthStates, of : Instances]
          /\ faults' \in 0 .. MaxFaults
          /\ (health'.state = "degraded" \/ faults' > 0)
      BY <1>0, <2>2, RecordedTypes DEF HealthStates
    <3>4. McpTypeOK'
      BY <1>0, <2>0, <2>2, <3>1, <3>2, <3>3 DEF McpTypeOK, Clients, externalVars
    <3>5. LifeOK' /\ ChecksOK' /\ ServesWhatWasChecked'
      BY <1>0, <2>0, <2>2, <3>1, <3>2, <3>3 DEF LifeOK, ChecksOK, ServesWhatWasChecked
    <3> QED BY <1>1, <3>4, <3>5 DEF McpIInv
  <2> QED BY <1>2, <2>1, <2>2 DEF Connect
<1>3. CASE Promote
  <2>0. /\ sup.step = "promote" /\ mapped = instance /\ mapped # 0
        /\ Wanted /\ client.config = sup.want.config /\ client.listed = sup.want.expected
        /\ UNCHANGED <<externalVars, restarts, clientVars, call>>
    BY <1>0, <1>3 DEF Promote, LifeOK, ChecksOK
  <2>1. CASE Recorded("healthy", instance) /\ At("rest") /\ UNCHANGED <<mapped, faults>>
    <3>1. sup' \in [step : SupSteps, want : Rows \cup {NoServer}] /\ sup'.step = "rest" /\ sup'.want = sup.want
      BY <1>0, <2>1 DEF At, SupSteps
    <3>2. McpTypeOK'
      BY <1>0, <2>0, <2>1, <3>1 DEF McpTypeOK, HealthStates, Recorded, externalVars, clientVars
    <3>3. LifeOK' /\ ChecksOK' /\ ServesWhatWasChecked'
      BY <1>0, <2>0, <2>1, <3>1 DEF LifeOK, ChecksOK, Wanted, ServesWhatWasChecked, Recorded, clientVars
    <3> QED BY <1>1, <3>2, <3>3 DEF McpIInv
  <2>2. CASE Fault /\ mapped' = 0 /\ At("takeback") /\ UNCHANGED health
    <3>1. sup' \in [step : SupSteps, want : Rows \cup {NoServer}] /\ sup'.step = "takeback"
      BY <1>0, <2>2 DEF At, SupSteps
    <3>2. faults' \in 0 .. MaxFaults /\ faults' > 0
      BY <1>0, <2>2 DEF Fault
    <3>3. McpTypeOK'
      BY <1>0, <2>0, <2>2, <3>1, <3>2, ZeroIsName DEF McpTypeOK, externalVars, clientVars
    <3>4. LifeOK' /\ ChecksOK' /\ ServesWhatWasChecked'
      BY <1>0, <2>0, <2>2, <3>1, <3>2 DEF LifeOK, ChecksOK, ServesWhatWasChecked, clientVars
    <3> QED BY <1>1, <3>3, <3>4 DEF McpIInv
  <2> QED BY <1>3, <2>0, <2>1, <2>2 DEF Promote
<1>4. CASE TakeBack
  <2>0. /\ sup.step = "takeback" /\ mapped = 0 /\ faults > 0 /\ Closed /\ At("rest")
        /\ UNCHANGED <<externalVars, mapped, restarts, health, instance, call, faults>>
    BY <1>0, <1>4 DEF TakeBack, LifeOK, ChecksOK
  <2>1. sup' \in [step : SupSteps, want : Rows \cup {NoServer}] /\ sup'.step = "rest"
    BY <1>0, <2>0 DEF At, SupSteps
  <2>2. client' \in Clients /\ running' = running \ {instance}
    BY <1>0, <2>0, ClosedIsClient DEF Closed
  <2>3. McpTypeOK'
    BY <1>0, <2>0, <2>1, <2>2 DEF McpTypeOK, Clients, externalVars
  <2>4. LifeOK' /\ ChecksOK' /\ ServesWhatWasChecked'
    BY <1>0, <2>0, <2>1, <2>2 DEF LifeOK, ChecksOK, ServesWhatWasChecked
  <2> QED BY <1>1, <2>3, <2>4 DEF McpIInv
<1> QED BY <1>2, <1>3, <1>4

(* The check of a server that is in the map.                                   *)
LEMMA RefreshStep ==
    ASSUME McpIInv, AskForTools \/ ToolsWritten \/ ToolsListed \/ ToolsNotListed
    PROVE  McpIInv'
<1>0. /\ McpTypeOK /\ AnswersAreOwn /\ LifeOK /\ ChecksOK /\ client \in Clients
      /\ mapped \in Instances /\ sup \in [step : SupSteps, want : Rows \cup {NoServer}]
      /\ sup.step \in {"refresh", "writing", "listing"} /\ mapped # 0 /\ Wanted
      /\ UNCHANGED <<externalVars, mapped, restarts, instance, running, call, faults>>
  BY DEF McpIInv, McpTypeOK, Clients, LifeOK, ChecksOK, AskForTools, ToolsWritten, ToolsListed,
         ToolsNotListed
<1>1. ASSUME NEW step \in {"writing", "listing", "remove", "rest"}, At(step), client' \in Clients,
             IF step = "rest"
             THEN /\ Recorded("healthy", mapped)
                  /\ client'.listed = sup.want.expected /\ client'.config = sup.want.config
             ELSE UNCHANGED health
      PROVE  McpIInv'
  <2>1. sup' \in [step : SupSteps, want : Rows \cup {NoServer}] /\ sup'.step = step /\ sup'.want = sup.want
    BY <1>0, <1>1 DEF At, SupSteps
  <2>2. health' \in [state : HealthStates, of : Instances]
    BY <1>0, <1>1 DEF McpTypeOK, HealthStates, Recorded
  <2>3. McpTypeOK' /\ AnswersAreOwn'
    BY <1>0, <1>1, <2>1, <2>2 DEF McpTypeOK, Clients, externalVars, AnswersAreOwn
  <2>4. LifeOK' /\ ChecksOK' /\ ServesWhatWasChecked'
    BY <1>0, <1>1, <2>1 DEF LifeOK, ChecksOK, Wanted, ServesWhatWasChecked, Recorded
  <2> QED BY <2>3, <2>4 DEF McpIInv
<1>2. CASE AskForTools
  <2>1. Asking(Supervisor) => client' \in Clients
    BY <1>0 DEF Asking, Clients
  <2>2. AskingStep("listing") \in {"writing", "listing"}
    BY DEF AskingStep
  <2> QED BY <1>0, <1>1, <1>2, <2>1, <2>2 DEF AskForTools
<1>3. CASE ToolsListed
  <2>1. client.line \in Seq({"own", "late"}) /\ client.line # <<>>
    BY <1>0, <1>3 DEF ToolsListed, Clients
  <2> PICK rest : rest = Tail(client.line)
    OBVIOUS
  <2>2. rest \in Seq({"own", "late"})
    BY <2>1
  <2>3. client' = [client EXCEPT !.holder = Nobody, !.unanswered = FALSE, !.line = rest, !.listed = client.catalog]
    BY <1>0, <1>3 DEF ToolsListed, Clients
  <2>4. client' \in Clients /\ client'.listed = client.catalog /\ client'.config = client.config
    BY <1>0, <2>2, <2>3 DEF Clients
  <2> QED BY <1>1, <1>3, <2>4 DEF ToolsListed, Drifted
<1>4. CASE ToolsNotListed
  BY <1>0, <1>1, <1>4, UnansweredClient DEF ToolsNotListed
<1>5. CASE ToolsWritten
  BY <1>0, <1>1, <1>5, WrittenClient DEF ToolsWritten
<1> QED BY <1>2, <1>3, <1>4, <1>5

(* The end of an instance, and the wait for the next pass.                     *)
LEMMA StopStep == ASSUME McpIInv, Remove \/ CloseSession \/ Tick PROVE McpIInv'
<1>0. /\ McpTypeOK /\ AnswersAreOwn /\ LifeOK /\ ChecksOK /\ client \in Clients
      /\ faults \in 0 .. MaxFaults /\ MaxFaults \in Nat /\ restarts \in 0 .. MaxRestarts /\ MaxRestarts \in Nat
      /\ instance \in Instances /\ sup \in [step : SupSteps, want : Rows \cup {NoServer}]
  BY LimitType DEF McpIInv, McpTypeOK, Clients
<1>1. AnswersAreOwn'
  BY <1>0 DEF Remove, CloseSession, Tick, AnswersAreOwn
<1>2. CASE Remove
  <2>1. sup' \in [step : SupSteps, want : Rows \cup {NoServer}] /\ sup'.step = "close"
    BY <1>0, <1>2 DEF Remove, At, SupSteps
  <2>2. McpTypeOK'
    BY <1>0, <1>2, <2>1, ZeroIsName DEF Remove, McpTypeOK, externalVars, clientVars
  <2>3. LifeOK' /\ ChecksOK' /\ ServesWhatWasChecked'
    BY <1>0, <1>2, <2>1 DEF Remove, LifeOK, ChecksOK, ServesWhatWasChecked, clientVars
  <2> QED BY <1>1, <2>2, <2>3 DEF McpIInv
<1>3. CASE CloseSession
  <2>0. mapped = 0 /\ restarts < MaxRestarts
    BY <1>0, <1>3 DEF CloseSession, LifeOK
  <2>1. sup' \in [step : SupSteps, want : Rows \cup {NoServer}] /\ sup'.step = "rest"
    BY <1>0, <1>3 DEF CloseSession, At, SupSteps
  <2>2. client' \in Clients /\ running' = running \ {instance} /\ restarts' \in 0 .. MaxRestarts
    BY <1>0, <1>3, <2>0, ClosedIsClient DEF CloseSession, Closed
  <2>3. /\ health' \in [state : HealthStates, of : Instances]
        /\ faults' \in 0 .. MaxFaults
        /\ (health'.state = "degraded" \/ faults' > 0)
    BY <1>0, <1>3, RecordedTypes DEF CloseSession, HealthStates
  <2>4. McpTypeOK'
    BY <1>0, <1>3, <2>1, <2>2, <2>3 DEF CloseSession, McpTypeOK, Clients, externalVars
  <2>5. LifeOK' /\ ChecksOK' /\ ServesWhatWasChecked'
    BY <1>0, <1>3, <2>0, <2>1, <2>2, <2>3 DEF CloseSession, LifeOK, ChecksOK, ServesWhatWasChecked
  <2> QED BY <1>1, <2>4, <2>5 DEF McpIInv
<1>4. CASE Tick
  <2>1. sup' \in [step : SupSteps, want : Rows \cup {NoServer}] /\ sup'.step = "list"
    BY <1>0, <1>4 DEF Tick, At, SupSteps
  <2>2. McpTypeOK'
    BY <1>0, <1>4, <2>1 DEF Tick, McpTypeOK, externalVars, clientVars
  <2>3. LifeOK' /\ ChecksOK' /\ ServesWhatWasChecked'
    BY <1>0, <1>4, <2>1 DEF Tick, LifeOK, ChecksOK, ServesWhatWasChecked, clientVars
  <2> QED BY <1>1, <2>2, <2>3 DEF McpIInv
<1> QED BY <1>2, <1>3, <1>4

LEMMA RestartStep == ASSUME McpIInv, RuntimeRestarts PROVE McpIInv'
<1>0. /\ McpTypeOK /\ client \in Clients
      /\ faults \in 0 .. MaxFaults /\ MaxFaults \in Nat /\ MaxRestarts \in Nat
  BY LimitType DEF McpIInv, McpTypeOK, Clients
<1>1. client' \in Clients
  BY <1>0, ClosedIsClient DEF RuntimeRestarts
<1>2. faults' \in 0 .. MaxFaults /\ faults' > 0
  BY <1>0 DEF RuntimeRestarts, Fault
<1>3. McpTypeOK' /\ AnswersAreOwn'
  BY <1>0, <1>1, <1>2, ZeroIsName
     DEF RuntimeRestarts, McpTypeOK, Clients, SupSteps, CallSteps, NoCall, externalVars, AnswersAreOwn
<1>4. LifeOK' /\ ChecksOK' /\ ServesWhatWasChecked'
  BY <1>0, <1>2 DEF RuntimeRestarts, LifeOK, ChecksOK, ServesWhatWasChecked
<1> QED BY <1>3, <1>4 DEF McpIInv

LEMMA McpIInvStep == McpIInv /\ [Next]_vars => McpIInv'
<1> SUFFICES ASSUME McpIInv, [Next]_vars PROVE McpIInv'
  OBVIOUS
<1>1. CASE UNCHANGED vars
  <2>1. McpTypeOK' /\ AnswersAreOwn' /\ Unconcerned
    <3>1. MaxFaults \in Nat
      BY LimitType
    <3> QED BY <1>1, <3>1 DEF vars, externalVars, supVars, clientVars, McpIInv, McpTypeOK, AnswersAreOwn, Unconcerned
  <2> QED BY <2>1, UnconcernedKeeps
<1>2. CASE Next
  <2>1. CASE SupervisorStep
    BY <2>1, ListEnabledStep, StartStep, RefreshStep, StopStep DEF SupervisorStep
  <2> QED BY <1>2, <2>1, WorldStep, CallerStep, RestartStep DEF Next
<1> QED BY <1>1, <1>2

-------------------------------------------------------------------------------
(* The results                                                                *)

(* No call of a tool returns the answer to another request, and no process of  *)
(* a server is left running that the supervisor does not know of, whatever     *)
(* fails and whatever number of calls is under way (client.go request,         *)
(* supervisor.go start and remove).                                            *)
THEOREM McpCorrect == Spec => []McpInv
<1>1. McpIInv => McpInv
  BY DEF McpIInv, McpInv, LifeOK, NoStrayProcess
<1> QED BY <1>1, InitMcpIInv, McpIInvStep, PTL DEF Spec

(* Between two passes of the supervisor a server that can be called is the one *)
(* the last pass wanted and checked, and is recorded so (supervisor.go         *)
(* reconcile).                                                                 *)
THEOREM McpServesWhatWasChecked == Spec => []ServesWhatWasChecked
<1>1. McpIInv => ServesWhatWasChecked
  BY DEF McpIInv
<1> QED BY <1>1, InitMcpIInv, McpIInvStep, PTL DEF Spec
===============================================================================
