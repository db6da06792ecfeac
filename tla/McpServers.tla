------------------------------ MODULE McpServers ------------------------------
(***************************************************************************)
(* One MCP server of a tenant: its row in capability.mcp_servers, the      *)
(* supervisor of the agent runtime that starts, checks and stops it        *)
(* (internal/mcp/supervisor.go), the stdio client between them (client.go) *)
(* and the tool calls that go through that client.                         *)
(*                                                                         *)
(* The client sends one request at a time and knows answers by their ID.   *)
(* An answer is here "own", the one the current request waits for, or      *)
(* "late", that of a request that was given up.  Only the latest instance  *)
(* of the server can run.  External: the server may answer late, never, or *)
(* not in JSON, stop reading its input, die, and offer other tools than    *)
(* before.                                                                 *)
(***************************************************************************)
EXTENDS Naturals, Sequences, FiniteSets

CONSTANTS
    Caller,       \* tool calls that may be under way at once
    Supervisor,   \* who refreshes
    Nobody,       \* whose the client's mutex is when it is free
    Config,       \* commands, by config_digest
    Catalog,      \* tool catalogs, by their digest
    NoServer,     \* instead of a row that is not enabled
    MaxRestarts,  \* 5 in the code
    MaxLate,      \* bound: answers under way to requests given up
    MaxChanges,   \* bound: changes of the row or of what a server offers
    MaxFaults     \* bound: processes that die, talk nonsense or do not read, failing writes of the health

ASSUME CallerType == IsFiniteSet(Caller) /\ Supervisor \notin Caller /\ Nobody \notin Caller \cup {Supervisor}
ASSUME LimitType == MaxRestarts \in Nat /\ MaxLate \in Nat /\ MaxChanges \in Nat /\ MaxFaults \in Nat

VARIABLES
    row,       \* capability.mcp_servers
    health,    \* capability.mcp_health: state and instance_id
    offers,    \* command: the tools it would list
    sup,       \* Supervisor: where it is in its pass, and the row it read
    mapped,    \* Supervisor.servers: the instance, 0 for none
    restarts,  \* Supervisor.restarts
    instance,  \* the latest instance
    running,   \* instances whose process runs
    client,    \* Client of the latest instance
    call,      \* tool call: the instance it found, and how it went
    changes,
    faults

externalVars == <<row, offers, changes>>
supVars == <<sup, mapped, restarts, health>>
clientVars == <<instance, running, client>>
vars == <<externalVars, supVars, clientVars, call, faults>>

Rows == [config : Config, expected : Catalog]
HealthStates == {"none", "starting", "healthy", "degraded"}
SupSteps == {"list", "connect", "promote", "takeback", "refresh", "writing", "listing", "remove",
             "close", "rest"}
CallSteps == {"free", "found", "writing", "asking", "answered"}

(* Instances have fresh names; a name nobody holds any more is as good as fresh. *)
Instances == 0 .. Cardinality(Caller) + 3

McpTypeOK ==
    /\ row \in [server : Rows, enabled : BOOLEAN]
    /\ health \in [state : HealthStates, of : Instances]
    /\ offers \in [Config -> Catalog]
    /\ sup \in [step : SupSteps, want : Rows \cup {NoServer}]
    /\ {mapped, instance} \subseteq Instances
    /\ restarts \in 0 .. MaxRestarts
    /\ running \subseteq Instances
    /\ client \in [config : Config, catalog : Catalog, listed : Catalog, holder : Caller \cup {Supervisor, Nobody},
                   unanswered : BOOLEAN, owed : 0 .. MaxLate, line : Seq({"own", "late"}),
                   accepts : BOOLEAN, reading : BOOLEAN, broken : BOOLEAN, closed : BOOLEAN]
    /\ call \in [Caller -> [step : CallSteps, on : Instances, got : {"none", "own", "late"}]]
    /\ changes \in 0 .. MaxChanges /\ faults \in 0 .. MaxFaults

NoCall == [step |-> "free", on |-> 0, got |-> "none"]
NewClient(config) ==
    [config |-> config, catalog |-> offers[config], listed |-> offers[config], holder |-> Nobody,
     unanswered |-> FALSE, owed |-> 0, line |-> <<>>, accepts |-> TRUE, reading |-> TRUE,
     broken |-> FALSE, closed |-> FALSE]

(* Nothing is read from, or written to, a client that is closed.               *)
ClosedClient ==
    [client EXCEPT !.holder = Nobody, !.unanswered = FALSE, !.owed = 0, !.line = <<>>,
                   !.accepts = TRUE, !.reading = FALSE, !.broken = FALSE, !.closed = TRUE]

(* A server that has been registered with the tools it lists.                  *)
Init ==
    /\ offers \in [Config -> Catalog]
    /\ \E config \in Config :
          /\ row = [server |-> [config |-> config, expected |-> offers[config]], enabled |-> TRUE]
          /\ client = [NewClient(config) EXCEPT !.reading = FALSE, !.closed = TRUE]
    /\ health = [state |-> "none", of |-> 0]
    /\ sup = [step |-> "list", want |-> NoServer]
    /\ mapped = 0 /\ restarts = 0 /\ instance = 0
    /\ running = {}
    /\ call = [c \in Caller |-> NoCall]
    /\ changes = 0 /\ faults = 0

Change == changes < MaxChanges /\ changes' = changes + 1
Fault == faults < MaxFaults /\ faults' = faults + 1

(* An operator whose comment begins with "Fault:" is a plausible mistake in the *)
(* code the operator below it models; no specification uses it, it is there to  *)
(* show that the properties would notice.                                       *)

-------------------------------------------------------------------------------
(* The administrator and the world                                            *)

(* mcp-admin register: the catalog that the probe lists is the expected one.   *)
Register(config, enabled) ==
    /\ Change
    /\ row' = [server |-> [config |-> config, expected |-> offers[config]], enabled |-> enabled]
    /\ UNCHANGED <<offers, supVars, clientVars, call, faults>>

SetEnabled(enabled) ==
    /\ Change
    /\ row.enabled # enabled
    /\ row' = [row EXCEPT !.enabled = enabled]
    /\ UNCHANGED <<offers, supVars, clientVars, call, faults>>

(* The program behind a command is replaced, and its running process may list  *)
(* its new tools at once.                                                      *)
OfferOtherTools(config, catalog) ==
    /\ Change
    /\ offers[config] # catalog
    /\ offers' = [offers EXCEPT ![config] = catalog]
    /\ \/ UNCHANGED client
       \/ client.config = config /\ client' = [client EXCEPT !.catalog = catalog]
    /\ UNCHANGED <<row, supVars, instance, running, call, faults>>

(* The server does not read its input, and the pipe has no room for the next   *)
(* request; it may go on to read later, die of it, or neither.  The requests of*)
(* Start fit the empty pipe.                                                   *)
ServerStopsReading ==
    /\ Fault
    /\ instance \in running /\ client.accepts
    /\ client' = [client EXCEPT !.accepts = FALSE]
    /\ UNCHANGED <<externalVars, supVars, instance, running, call>>

ServerReadsAgain ==
    /\ instance \in running /\ ~client.accepts
    /\ client' = [client EXCEPT !.accepts = TRUE]
    /\ UNCHANGED <<externalVars, supVars, instance, running, call, faults>>

(* The process dies, or stays and writes what is not a response: in both cases *)
(* readResponses reports an error, once, and returns.                          *)
ServerFails ==
    /\ IF client.accepts THEN Fault ELSE UNCHANGED faults
    /\ instance \in running /\ client.reading
    /\ client' = [client EXCEPT !.reading = FALSE, !.broken = TRUE]
    /\ \/ running' = running \ {instance}
       \/ UNCHANGED running
    /\ UNCHANGED <<externalVars, supVars, instance, call>>

AnswerOwn ==
    /\ client.unanswered /\ client.reading
    /\ client' = [client EXCEPT !.unanswered = FALSE, !.line = Append(@, "own")]
    /\ UNCHANGED <<externalVars, supVars, instance, running, call, faults>>

AnswerLate ==
    /\ client.owed > 0 /\ client.reading
    /\ client' = [client EXCEPT !.owed = @ - 1, !.line = Append(@, "late")]
    /\ UNCHANGED <<externalVars, supVars, instance, running, call, faults>>

-------------------------------------------------------------------------------
(* Client.request: from its lock to its unlock                                 *)

(* A request that fails to be written is over at once.                         *)
Writable == ~client.closed /\ instance \in running

(* The write takes the mutex and has no deadline: the timer is set after it and*)
(* the context is not looked at.                                               *)
Asking(who) == client' = [client EXCEPT !.holder = who, !.unanswered = client.accepts]
AskingStep(asked) == IF client.accepts THEN asked ELSE "writing"

(* A write that was blocked goes through when the server reads on, and fails   *)
(* when its process is gone.                                                   *)
WriteEnds ==
    \/ instance \in running /\ client.accepts /\ client' = [client EXCEPT !.unanswered = TRUE]
    \/ instance \notin running /\ client' = [client EXCEPT !.holder = Nobody]

(* What is left of the request when it returns: an answer that has not come    *)
(* may come late, or never.                                                    *)
Returned(line, broken) ==
    client' = [client EXCEPT
        !.holder = Nobody, !.unanswered = FALSE, !.broken = broken,
        !.owed = IF client.unanswered /\ @ < MaxLate THEN @ + 1 ELSE @,
        !.line = [k \in DOMAIN line |-> "late"]]

(* The answer is the own one if its ID is.  Fault: any answer is.              *)
AnyIsOwn == TRUE
IsOwn == Head(client.line) = "own"
Answered == client.line # <<>> /\ IsOwn /\ Returned(Tail(client.line), client.broken)
Mismatched == client.line # <<>> /\ ~IsOwn /\ Returned(Tail(client.line), client.broken)
ReadFailed == client.broken /\ Returned(client.line, FALSE)
GivenUp == client.line = <<>> /\ Returned(<<>>, client.broken)
Unanswered == Mismatched \/ ReadFailed \/ GivenUp

-------------------------------------------------------------------------------
(* Supervisor.Call, for a tool call of some run                                *)

FindServer(c) ==
    /\ call[c].step \in {"free", "answered"}
    /\ mapped # 0
    /\ call' = [call EXCEPT ![c] = [NoCall EXCEPT !.step = "found", !.on = mapped]]
    /\ UNCHANGED <<externalVars, supVars, clientVars, faults>>

(* The instance may have been closed since it was found: the call fails, as one *)
(* does that cannot be written, and its caller is told so.                     *)
AskServer(c) ==
    /\ call[c].step = "found"
    /\ IF call[c].on = instance
       THEN /\ client.holder = Nobody
            /\ IF Writable
               THEN Asking(c) /\ call' = [call EXCEPT ![c] = [NoCall EXCEPT !.step = AskingStep("asking")]]
               ELSE call' = [call EXCEPT ![c] = NoCall] /\ UNCHANGED client
       ELSE call' = [call EXCEPT ![c] = NoCall] /\ UNCHANGED client
    /\ UNCHANGED <<externalVars, supVars, instance, running, faults>>

CallWritten(c) ==
    /\ call[c].step = "writing"
    /\ WriteEnds
    /\ call' = [call EXCEPT ![c] = IF instance \in running THEN [NoCall EXCEPT !.step = "asking"] ELSE NoCall]
    /\ UNCHANGED <<externalVars, supVars, instance, running, faults>>

CallReturns(c) ==
    /\ call[c].step = "asking"
    /\ \/ Answered /\ call' = [call EXCEPT ![c].step = "answered", ![c].got = Head(client.line)]
       \/ Unanswered /\ call' = [call EXCEPT ![c] = NoCall]
    /\ UNCHANGED <<externalVars, supVars, instance, running, faults>>

CallStep(c) == AskServer(c) \/ CallWritten(c) \/ CallReturns(c)

-------------------------------------------------------------------------------
(* Supervisor.Run and reconcile                                               *)

At(step) == sup' = [sup EXCEPT !.step = step]
Recorded(state, of) == health' = [state |-> state, of |-> of]

(* "_ = RecordHealth": whether the row was written is not looked at.           *)
RecordedOrNot(state, of) ==
    \/ Recorded(state, of) /\ UNCHANGED faults
    \/ Fault /\ UNCHANGED health

(* The process of the runtime ends, with every session it has, and is started  *)
(* again; so it does on an error that Run returns.  Its deferred closeAll ends *)
(* the sessions without a word in the health row.  Where closeAll has to wait  *)
(* for a request under way, the restart is late; nothing here relies on it.    *)
RuntimeRestarts ==
    /\ Fault
    /\ mapped' = 0 /\ restarts' = 0 /\ running' = {}
    /\ client' = ClosedClient
    /\ call' = [c \in Caller |-> NoCall]
    /\ sup' = [step |-> "list", want |-> NoServer]
    /\ UNCHANGED <<externalVars, health, instance>>

(* What the pass does with the row.  A server that is not wanted any more is   *)
(* removed after all others have been checked.  Fault: it is forgotten.        *)
KeptIfUnwanted(want) ==
    IF want = NoServer THEN "rest" ELSE IF mapped # 0 THEN "refresh" ELSE "connect"
FirstStep(want) ==
    IF mapped = 0 THEN IF want = NoServer THEN "rest" ELSE "connect"
    ELSE IF want = NoServer THEN "remove" ELSE "refresh"

Exhausted == restarts >= MaxRestarts

NamesHeld == {0, instance, health.of} \cup {call[c].on : c \in Caller}
FreshInstance == CHOOSE i \in Instances : i \notin NamesHeld

(* ListEnabled, and start up to its connect.                                   *)
ListEnabled ==
    LET want == IF row.enabled THEN row.server ELSE NoServer IN
    /\ sup.step = "list"
    /\ IF FirstStep(want) # "connect"
       THEN /\ sup' = [step |-> FirstStep(want), want |-> want]
            /\ UNCHANGED <<health, clientVars, faults>>
       ELSE \/ /\ Exhausted
               /\ Recorded("degraded", 0)
               /\ sup' = [step |-> "rest", want |-> want]
               /\ UNCHANGED <<clientVars, faults>>
            \/ /\ ~Exhausted
               /\ Recorded("starting", FreshInstance)
               /\ sup' = [step |-> "connect", want |-> want]
               /\ instance' = FreshInstance
               /\ running' = running \cup {FreshInstance}
               /\ client' = NewClient(want.config)
               /\ UNCHANGED faults
            \/ /\ ~Exhausted
               /\ Fault /\ UNCHANGED <<health, clientVars>>
               /\ sup' = [step |-> "rest", want |-> want]
    /\ UNCHANGED <<externalVars, mapped, restarts, call>>

Closed == running' = running \ {instance} /\ client' = ClosedClient

(* start: the answer of Start, or its error.                                   *)
Connect ==
    /\ sup.step = "connect"
    /\ \/ /\ client.catalog = sup.want.expected /\ client.reading
          /\ client' = [client EXCEPT !.listed = client.catalog]
          /\ mapped' = instance
          /\ At("promote")
          /\ UNCHANGED <<running, restarts, health, faults>>
       \/ /\ Closed
          /\ restarts' = restarts + 1
          /\ RecordedOrNot("degraded", instance)
          /\ At("rest")
          /\ UNCHANGED mapped
    /\ UNCHANGED <<externalVars, instance, call>>

(* start: the server is callable before it is recorded, and is taken back if   *)
(* it cannot be.                                                               *)
Promote ==
    /\ sup.step = "promote"
    /\ \/ Recorded("healthy", instance) /\ At("rest") /\ UNCHANGED <<mapped, faults>>
       \/ Fault /\ mapped' = 0 /\ At("takeback") /\ UNCHANGED health
    /\ UNCHANGED <<externalVars, restarts, clientVars, call>>

TakeBack ==
    /\ sup.step = "takeback"
    /\ client.holder = Nobody
    /\ Closed
    /\ At("rest")
    /\ UNCHANGED <<externalVars, mapped, restarts, health, instance, call, faults>>

(* Refresh, up to its wait for the answer.                                     *)
AskForTools ==
    /\ sup.step = "refresh"
    /\ client.holder = Nobody
    /\ IF Writable
       THEN Asking(Supervisor) /\ At(AskingStep("listing"))
       ELSE At("remove") /\ UNCHANGED client
    /\ UNCHANGED <<externalVars, mapped, restarts, health, instance, running, call, faults>>

ToolsWritten ==
    /\ sup.step = "writing"
    /\ WriteEnds
    /\ At(IF instance \in running THEN "listing" ELSE "remove")
    /\ UNCHANGED <<externalVars, mapped, restarts, health, instance, running, call, faults>>

(* The tools are those the server lists, the command the one the instance was  *)
(* started with.  Fault: only the tools are compared.                          *)
OtherTools == client.catalog # sup.want.expected
Drifted == client.catalog # sup.want.expected \/ client.config # sup.want.config

(* The health of a server that has not changed is recorded anew; an error of   *)
(* that write ends the runtime, see RuntimeRestarts.                           *)
ToolsListed ==
    /\ sup.step = "listing"
    /\ client.line # <<>> /\ IsOwn
    /\ client' = [client EXCEPT !.holder = Nobody, !.unanswered = FALSE, !.line = Tail(@), !.listed = client.catalog]
    /\ IF Drifted THEN At("remove") /\ UNCHANGED health ELSE At("rest") /\ Recorded("healthy", mapped)
    /\ UNCHANGED <<externalVars, mapped, restarts, instance, running, call, faults>>

ToolsNotListed ==
    /\ sup.step = "listing"
    /\ Unanswered
    /\ At("remove")
    /\ UNCHANGED <<externalVars, mapped, restarts, health, instance, running, call, faults>>

Remove ==
    /\ sup.step = "remove"
    /\ mapped' = 0
    /\ At("close")
    /\ UNCHANGED <<externalVars, restarts, health, clientVars, call, faults>>

(* Close waits for the request under way.  Whatever its reason, a removal counts *)
(* as a restart.                                                               *)
CloseSession ==
    /\ sup.step = "close"
    /\ client.holder = Nobody
    /\ Closed
    /\ restarts' = restarts + 1
    /\ RecordedOrNot("degraded", instance)
    /\ At("rest")
    /\ UNCHANGED <<externalVars, mapped, instance, call>>

Tick ==
    /\ sup.step = "rest"
    /\ At("list")
    /\ UNCHANGED <<externalVars, mapped, restarts, health, clientVars, call, faults>>

SupervisorStep ==
    \/ ListEnabled \/ Connect \/ Promote \/ TakeBack
    \/ AskForTools \/ ToolsWritten \/ ToolsListed \/ ToolsNotListed
    \/ Remove \/ CloseSession \/ Tick

Next ==
    \/ \E config \in Config, enabled \in BOOLEAN : Register(config, enabled)
    \/ \E enabled \in BOOLEAN : SetEnabled(enabled)
    \/ \E config \in Config, catalog \in Catalog : OfferOtherTools(config, catalog)
    \/ ServerStopsReading \/ ServerReadsAgain \/ ServerFails \/ AnswerOwn \/ AnswerLate
    \/ \E c \in Caller : FindServer(c) \/ CallStep(c)
    \/ SupervisorStep
    \/ RuntimeRestarts

(* The ticker wakes the supervisor, and a request that is written ends by its  *)
(* timer if nothing else ends it; Go's mutex does not pass over a waiter.  The *)
(* server owes nothing, neither an answer nor to read.                         *)
Fairness == SF_vars(SupervisorStep) /\ \A c \in Caller : SF_vars(CallStep(c))

Spec == Init /\ [][Next]_vars /\ Fairness

-------------------------------------------------------------------------------
(* No tool call returns what another was answered.                             *)
AnswersAreOwn == \A c \in Caller : call[c].step = "answered" => call[c].got = "own"

(* A server's process that runs can be called or is in the supervisor's hands:  *)
(* none is left behind, whatever fails while it is started or stopped.         *)
NoStrayProcess ==
    running # {} => running = {instance} /\ (mapped = instance \/ sup.step \in {"connect", "takeback", "close"})

(* The client's request/response pairing (client.go request) and the life of   *)
(* an instance (supervisor.go start, remove).                                  *)
McpInv == McpTypeOK /\ AnswersAreOwn /\ NoStrayProcess

(* Between two passes (supervisor.go reconcile) a server that can be called is *)
(* one the last pass wanted, started by the command and offering the tools it  *)
(* was registered with, and recorded as healthy; and as long as no write and   *)
(* no process has failed, one that cannot be called is not recorded so.        *)
ServesWhatWasChecked ==
    sup.step = "rest" =>
        /\ mapped # 0 =>
              /\ sup.want # NoServer
              /\ client.config = sup.want.config
              /\ client.listed = sup.want.expected
              /\ health = [state |-> "healthy", of |-> mapped]
        /\ mapped = 0 /\ faults = 0 => health.state # "healthy"

(* A server that stops reading without dying reads on at some time.  Without   *)
(* this a blocked write keeps the client's mutex for good, and with it the     *)
(* calls that wait for the client, the supervisor's pass and Close, which is   *)
(* what would end the process (client.go write, request, Close).               *)
ReadsOrDies == []<>(client.accepts \/ instance \notin running)

(* If so, every tool call comes to an end, even one that waits for the client  *)
(* while the supervisor wants to close it; once a server stays disabled its    *)
(* process ends; and one that keeps failing is not started again for ever      *)
(* (restart_exhausted): in the end it stays callable or stays stopped.         *)
CallsEnd ==
    \A c \in Caller :
        call[c].step \in {"found", "writing", "asking"} ~> call[c].step \in {"free", "answered"}
DisabledStops == <>[](~row.enabled) => <>[](running = {})
FlappingEnds == <>[](mapped # 0) \/ <>[](running = {})
ServerSettles == ReadsOrDies => CallsEnd /\ DisabledStops /\ FlappingEnds
===============================================================================
