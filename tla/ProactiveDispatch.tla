--------------------------- MODULE ProactiveDispatch ---------------------------
(***************************************************************************)
(* The proactive runtime (internal/proactive/store.go, worker.go, and      *)
(* EnqueueProactive of internal/agent/proactive.go): a subscription of one *)
(* member is polled under a lease, each paper version becomes at most one  *)
(* source event, and events are ranked and dispatched under leases of      *)
(* their own, within quiet hours and a daily budget.  A process runs a     *)
(* collector and a dispatcher (cmd/proactive-runtime/main.go); an error of *)
(* either stops both, and the supervisor starts the process again.         *)
(*                                                                         *)
(* Time is the clock of the member's day, in ticks: available_at is kept   *)
(* as the ticks left to it, updated_at of an event that was sent as        *)
(* whether it is today.  Backoff delays are shorter than a tick.  The      *)
(* clock runs evenly: the member's time zone stays what it is, and no day  *)
(* of it has a local time twice or not at all.  On a day that has, when    *)
(* daylight saving begins or ends, time.Date (worker.go:216, 235) moves an *)
(* end of the quiet hours that does not exist, which may put a deferral    *)
(* back into them: it costs one dispatch attempt and is deferred again.    *)
(***************************************************************************)
EXTENDS Integers, FiniteSets

CONSTANTS
    Papers,       \* number of papers the source ever publishes, the newest last
    Window,       \* PLATFORM_ARXIV_MAX_RESULTS
    Process,      \* instances of proactive-runtime
    MaxAttempts,  \* PLATFORM_PROACTIVE_MAX_ATTEMPTS
    DayLength,    \* ticks of a day
    Preferences,  \* preferences the member may set: [enabled, start, end, budget, minimum]
    Scores,       \* relevance scores the ranker gives
    Nobody,       \* a lease_token that is NULL
    MaxFaults     \* bound: faults, and interventions of members and operators

Paper == 1 .. Papers
BudgetLimit == 50   \* the most DailyBudget that UpdatePreferences accepts

ASSUME CountsType == {Papers, Window, MaxAttempts, DayLength} \subseteq Nat \ {0} /\ MaxFaults \in Nat
ASSUME PreferencesType == Preferences \subseteq
    [enabled : BOOLEAN, start : 0 .. DayLength - 1, end : 0 .. DayLength - 1, budget : Nat, minimum : Nat]
ASSUME BudgetsType == \A p \in Preferences : p.budget <= BudgetLimit
ASSUME ScoresType == Scores \subseteq Nat
ASSUME ProcessType == IsFiniteSet(Process) /\ Nobody \notin Process

VARIABLES
    published,   \* papers 1 .. published are out
    sub,         \* the row of the subscription
    collector,   \* process: its claim of the subscription, and what the source answered
    firstFeed,   \* history: the feed that completed the baseline
    event,       \* paper: the row of its source event
    dispatcher,  \* process: the event, preference and count as claimed, and the time of its decision
    run,         \* paper: state of the Agent Run of its event
    preference,  \* the row of the member's preferences
    paused,      \* runtime control proactive_dispatch
    clock,       \* the time of the member's day
    spent,       \* history: events whose run was made today
    together,    \* history: the most dispatchers that had a decision in hand at once today
    cut,         \* history: events whose dispatch was cut between its two transactions
    woken,       \* history: events whose run was made in the quiet hours of the member's row
    overtaken,   \* history: events whose run was made after time or the member had moved on
    faults

pollVars == <<published, sub, collector, firstFeed>>
night == <<woken, overtaken>>
vars == <<pollVars, event, dispatcher, run, preference, paused, clock, spent, together, cut, night, faults>>

NoPapers == {}
IdleCollector == [step |-> "idle", baseline |-> FALSE, etag |-> 0, answer |-> 0, papers |-> NoPapers]
IdleDispatcher == [step |-> "idle", paper |-> 0, phase |-> "none", attempts |-> 0, score |-> 0,
                   preference |-> CHOOSE p \in Preferences : TRUE, sentToday |-> 0, now |-> 0]
NoEvent == [state |-> "none", rankAttempts |-> 0, dispatchAttempts |-> 0, holder |-> Nobody,
            leaseValid |-> FALSE, score |-> 0, wait |-> 0, hasRun |-> FALSE, today |-> FALSE]

Leased == {"ranking", "dispatching"}
Sent == {"enqueued", "delivered", "acknowledged"}
Ended == {"baseline", "delivered", "acknowledged", "suppressed", "failed"}
EventState == {"none", "pending", "ranked", "enqueued"} \cup Leased \cup Ended

TypeOK ==
    /\ published \in 0 .. Papers
    /\ sub \in [enabled : BOOLEAN, due : BOOLEAN, holder : Process \cup {Nobody}, leaseValid : BOOLEAN,
                baseline : BOOLEAN, etag : 0 .. Papers]
    /\ collector \in [Process -> [step : {"idle", "claimed", "answered"}, baseline : BOOLEAN,
                                  etag : 0 .. Papers, answer : 0 .. Papers, papers : SUBSET Paper]]
    /\ firstFeed \subseteq Paper
    /\ event \in [Paper -> [state : EventState, rankAttempts : 0 .. MaxAttempts,
                            dispatchAttempts : 0 .. MaxAttempts, holder : Process \cup {Nobody},
                            leaseValid : BOOLEAN, score : Scores \cup {0}, wait : 0 .. 2 * DayLength,
                            hasRun : BOOLEAN, today : BOOLEAN]]
    /\ dispatcher \in [Process -> [step : {"idle", "claimed", "decided", "created"}, paper : Paper \cup {0},
                                   phase : {"none"} \cup Leased, attempts : 0 .. MaxAttempts,
                                   score : Scores \cup {0}, preference : Preferences, sentToday : 0 .. Papers,
                                   now : 0 .. DayLength - 1]]
    /\ run \in [Paper -> {"none", "open", "succeeded", "failed"}]
    /\ preference \in Preferences
    /\ paused \in BOOLEAN
    /\ clock \in 0 .. DayLength - 1
    /\ spent \subseteq Paper /\ together \in 0 .. Cardinality(Process) /\ cut \subseteq Paper
    /\ woken \subseteq Paper /\ overtaken \subseteq Paper
    /\ faults \in 0 .. MaxFaults

Init ==
    /\ published = 0
    /\ sub = [enabled |-> TRUE, due |-> TRUE, holder |-> Nobody, leaseValid |-> FALSE,
              baseline |-> FALSE, etag |-> 0]
    /\ collector = [p \in Process |-> IdleCollector]
    /\ firstFeed = {}
    /\ event = [e \in Paper |-> NoEvent]
    /\ dispatcher = [p \in Process |-> IdleDispatcher]
    /\ run = [e \in Paper |-> "none"]
    /\ preference \in Preferences
    /\ paused = FALSE
    /\ clock = 0
    /\ spent = {} /\ together = 0 /\ cut = {} /\ woken = {} /\ overtaken = {}
    /\ faults = 0

Fault == faults < MaxFaults /\ faults' = faults + 1

(* An error of its collector or dispatcher ends the process, with both of them. *)
Stop(p) ==
    /\ collector' = [collector EXCEPT ![p] = IdleCollector]
    /\ dispatcher' = [dispatcher EXCEPT ![p] = IdleDispatcher]
    /\ cut' = IF dispatcher[p].step = "created" THEN cut \cup {dispatcher[p].paper} ELSE cut

-------------------------------------------------------------------------------
(* Polling                                                                    *)

Publish ==
    /\ published' \in published + 1 .. Papers
    /\ UNCHANGED <<sub, collector, firstFeed, event, dispatcher, run, preference, paused, clock, spent,
                   together, cut, night, faults>>

ClaimSubscription(p) ==
    /\ collector[p].step = "idle"
    /\ sub.enabled /\ sub.due /\ ~sub.leaseValid /\ ~paused
    /\ sub' = [sub EXCEPT !.holder = p, !.leaseValid = TRUE]
    /\ collector' = [collector EXCEPT ![p] = [IdleCollector EXCEPT !.step = "claimed",
                                                  !.baseline = sub.baseline, !.etag = sub.etag]]
    /\ UNCHANGED <<published, firstFeed, event, dispatcher, run, preference, paused, clock, spent,
                   together, cut, night, faults>>

(* The newest Window papers, or not modified when the ETag sent is of this feed; *)
(* an ETag is the number of papers that were out, 0 for none.                    *)
Feed == {e \in Paper : published - Window < e /\ e <= published}
Search(p) ==
    /\ collector[p].step = "claimed"
    /\ collector' = [collector EXCEPT ![p] = [@ EXCEPT !.step = "answered", !.answer = published,
                                                  !.papers = Feed]]
    /\ UNCHANGED <<published, sub, firstFeed, event, dispatcher, run, preference, paused, clock, spent,
                   together, cut, night, faults>>

(* Fault: a poll is saved whoever holds the lease.                              *)
Unfenced(p) == collector[p].step # "idle"
HoldsSubscription(p) == sub.holder = p

NotModified(c) == c.etag # 0 /\ c.etag = c.answer

(* The state of a new event follows the subscription as it was claimed, and the *)
(* inserts are rolled back when the lease has been lost; FailPoll then finds    *)
(* the lease gone as well, and its error ends the process.                      *)
SavePoll(p) ==
    LET c == collector[p]
        new == IF NotModified(c) THEN {} ELSE {e \in c.papers : event[e].state = "none"}
    IN
    /\ c.step = "answered"
    /\ \/ /\ HoldsSubscription(p)
          /\ event' = [e \in Paper |->
                IF e \in new THEN [NoEvent EXCEPT !.state = IF c.baseline THEN "pending" ELSE "baseline"]
                ELSE event[e]]
          /\ sub' = [sub EXCEPT !.baseline = @ \/ ~NotModified(c), !.etag = c.answer, !.due = FALSE,
                                !.holder = Nobody, !.leaseValid = FALSE]
          /\ firstFeed' = IF sub.baseline \/ NotModified(c) THEN firstFeed ELSE c.papers
          /\ collector' = [collector EXCEPT ![p] = IdleCollector]
          /\ UNCHANGED <<dispatcher, cut>>
       \/ /\ ~HoldsSubscription(p)
          /\ Stop(p)
          /\ UNCHANGED <<sub, event, firstFeed>>
    /\ UNCHANGED <<published, run, preference, paused, clock, spent, together, night, faults>>

(* The source fails: the next poll is due in a minute.                          *)
FailPoll(p) ==
    /\ collector[p].step = "claimed"
    /\ Fault
    /\ \/ /\ HoldsSubscription(p)
          /\ sub' = [sub EXCEPT !.due = FALSE, !.holder = Nobody, !.leaseValid = FALSE]
          /\ collector' = [collector EXCEPT ![p] = IdleCollector]
          /\ UNCHANGED <<dispatcher, cut>>
       \/ ~HoldsSubscription(p) /\ Stop(p) /\ UNCHANGED sub
    /\ UNCHANGED <<published, firstFeed, event, run, preference, paused, clock, spent, together, night>>

PollFallsDue ==
    /\ sub' = [sub EXCEPT !.due = TRUE]
    /\ UNCHANGED <<published, collector, firstFeed, event, dispatcher, run, preference, paused, clock,
                   spent, together, cut, night, faults>>

(* A poll outlives its lease: its process has died, or the source is slow.      *)
ExpirePoll ==
    /\ sub.leaseValid
    /\ IF collector[sub.holder].step = "idle" THEN UNCHANGED faults ELSE Fault
    /\ sub' = [sub EXCEPT !.leaseValid = FALSE]
    /\ UNCHANGED <<published, collector, firstFeed, event, dispatcher, run, preference, paused, clock,
                   spent, together, cut, night>>

(* Disabling clears the lease, enabling makes the poll due.                     *)
SetSubscriptionEnabled(enabled) ==
    /\ sub.enabled # enabled
    /\ IF enabled THEN UNCHANGED faults ELSE Fault
    /\ sub' = IF enabled THEN [sub EXCEPT !.enabled = TRUE, !.due = TRUE]
              ELSE [sub EXCEPT !.enabled = FALSE, !.holder = Nobody, !.leaseValid = FALSE]
    /\ UNCHANGED <<published, collector, firstFeed, event, dispatcher, run, preference, paused, clock,
                   spent, together, cut, night>>

(* The member subscribes to the same query again; the categories and the poll   *)
(* interval it then sets are data of the queries that follow.                   *)
CreateSubscription ==
    /\ ~sub.enabled
    /\ sub' = [sub EXCEPT !.enabled = TRUE]
    /\ UNCHANGED <<published, collector, firstFeed, event, dispatcher, run, preference, paused, clock,
                   spent, together, cut, night, faults>>

-------------------------------------------------------------------------------
(* Ranking and dispatch                                                       *)

Release(row) == [row EXCEPT !.holder = Nobody, !.leaseValid = FALSE]
Touch(row, state) == [row EXCEPT !.state = state, !.today = state \in Sent]

(* Reconcile: an enqueued event takes the outcome of its run.                   *)
Reconciled(rows) == [e \in Paper |->
    IF rows[e].state = "enqueued" /\ run[e] \in {"succeeded", "failed"}
    THEN Touch(rows[e], IF run[e] = "succeeded" THEN "delivered" ELSE "failed") ELSE rows[e]]

(* Fault: only the leases of rankings are swept.                                *)
RankingUsedUp(row) == row.state = "ranking" /\ row.rankAttempts >= MaxAttempts
UsedUp(row) == \/ row.state = "ranking" /\ row.rankAttempts >= MaxAttempts
               \/ row.state = "dispatching" /\ row.dispatchAttempts >= MaxAttempts
FailExhausted(rows) == [e \in Paper |->
    IF UsedUp(rows[e]) /\ ~rows[e].leaseValid THEN Touch(Release(rows[e]), "failed") ELSE rows[e]]

CanRank(row) == /\ row.rankAttempts < MaxAttempts
                /\ row.state = "pending" \/ (row.state = "ranking" /\ ~row.leaseValid)
CanDispatch(row) == /\ row.dispatchAttempts < MaxAttempts
                    /\ row.state = "ranked" \/ (row.state = "dispatching" /\ ~row.leaseValid)

(* Rows with a decision to take come first; among them the order is by time,    *)
(* which is left open here.                                                     *)
Candidates(rows) ==
    LET available == {e \in Paper : rows[e].wait = 0}
        ranked == {e \in available : CanDispatch(rows[e])}
    IN IF paused THEN {}
       ELSE IF ranked # {} THEN ranked ELSE {e \in available : CanRank(rows[e])}

Claimed(row, p) ==
    IF CanDispatch(row)
    THEN [row EXCEPT !.state = "dispatching", !.dispatchAttempts = @ + 1, !.holder = p, !.leaseValid = TRUE]
    ELSE [row EXCEPT !.state = "ranking", !.rankAttempts = @ + 1, !.holder = p, !.leaseValid = TRUE]

(* Fault: what is under way does not count against the budget.                  *)
DeliveredToday(rows) == Cardinality({e \in Paper : rows[e].state \in Sent \ {"enqueued"} /\ rows[e].today})
SentToday(rows) == Cardinality({e \in Paper : rows[e].state \in Sent /\ rows[e].today})

Deciding(d) == Cardinality({p \in Process : d[p].phase = "dispatching"})

(* A turn of Dispatcher.Run: Reconcile, fail what is used up, claim.            *)
ClaimEvent(p) ==
    LET rows == FailExhausted(Reconciled(event)) IN
    /\ dispatcher[p].step = "idle"
    /\ IF Candidates(rows) = {} THEN event' = rows /\ UNCHANGED dispatcher
       ELSE \E e \in Candidates(rows) :
           LET row == Claimed(rows[e], p) IN
           /\ event' = [rows EXCEPT ![e] = row]
           /\ dispatcher' = [dispatcher EXCEPT ![p] =
                  [step |-> "claimed", paper |-> e, phase |-> row.state, score |-> row.score,
                   attempts |-> IF row.state = "ranking" THEN row.rankAttempts ELSE row.dispatchAttempts,
                   preference |-> preference, sentToday |-> SentToday(rows), now |-> 0]]
    /\ together' = IF Deciding(dispatcher') > together THEN Deciding(dispatcher') ELSE together
    /\ UNCHANGED <<pollVars, run, preference, paused, clock, spent, cut, night, faults>>

HoldsEvent(p) == LET d == dispatcher[p] IN event[d.paper].state = d.phase /\ event[d.paper].holder = p

(* The last write of a turn, under the token; without the lease it fails, and   *)
(* so does the RetryEvent that follows a failed save: the process ends.         *)
Finish(p, row) ==
    LET d == dispatcher[p] IN
    \/ /\ HoldsEvent(p)
       /\ event' = [event EXCEPT ![d.paper] = Release(row)]
       /\ dispatcher' = [dispatcher EXCEPT ![p] = IdleDispatcher]
       /\ cut' = IF d.step = "created" /\ row.state # "enqueued" THEN cut \cup {d.paper} ELSE cut
       /\ UNCHANGED collector
    \/ ~HoldsEvent(p) /\ Stop(p) /\ UNCHANGED event

SaveRank(p) ==
    LET d == dispatcher[p] IN
    /\ d.step = "claimed" /\ d.phase = "ranking"
    /\ \E score \in Scores :
           Finish(p, [Touch(event[d.paper], "ranked") EXCEPT !.score = score, !.wait = 0])
    /\ UNCHANGED <<published, sub, firstFeed, run, preference, paused, clock, spent, together, night,
                   faults>>

(* Memory, ranker, deployment or database fail; the run may be there already.   *)
RetryEvent(p) ==
    LET d == dispatcher[p]
        again == IF d.phase = "ranking" THEN "pending" ELSE "ranked" IN
    /\ d.step # "idle"
    /\ Fault
    /\ Finish(p, Touch(event[d.paper], IF d.attempts >= MaxAttempts THEN "failed" ELSE again))
    /\ UNCHANGED <<published, sub, firstFeed, run, preference, paused, clock, spent, together, night>>

Quiet(pref, now) ==
    IF pref.start = pref.end THEN TRUE
    ELSE IF pref.start < pref.end THEN now >= pref.start /\ now < pref.end
    ELSE now >= pref.start \/ now < pref.end

(* Ticks from now to the end of the quiet hours, of tomorrow when they began    *)
(* today and cross midnight; a time that has passed is no wait.  The time       *)
(* exists, once, on its day: no daylight saving.                                *)
NotBefore(ticks) == IF ticks < 0 THEN 0 ELSE ticks
UntilAllowed(pref, now) ==
    NotBefore(pref.end - now + (IF pref.start > pref.end /\ now >= pref.start THEN DayLength ELSE 0))
UntilBudget(pref, now) == DayLength + pref.end - now

Unwanted(d) == ~d.preference.enabled \/ d.score < d.preference.minimum

Suppress(p) ==
    LET d == dispatcher[p] IN
    /\ d.step = "claimed" /\ d.phase = "dispatching" /\ Unwanted(d)
    /\ Finish(p, [Touch(event[d.paper], "suppressed") EXCEPT !.hasRun = FALSE])
    /\ UNCHANGED <<published, sub, firstFeed, run, preference, paused, clock, spent, together, night,
                   faults>>

Defer(p) ==
    LET d == dispatcher[p] IN
    /\ d.step = "claimed" /\ d.phase = "dispatching" /\ ~Unwanted(d)
    /\ \/ /\ Quiet(d.preference, clock)
          /\ Finish(p, [Touch(event[d.paper], "ranked") EXCEPT !.wait = UntilAllowed(d.preference, clock)])
       \/ /\ ~Quiet(d.preference, clock) /\ d.sentToday >= d.preference.budget
          /\ Finish(p, [Touch(event[d.paper], "ranked") EXCEPT !.wait = UntilBudget(d.preference, clock)])
    /\ UNCHANGED <<published, sub, firstFeed, run, preference, paused, clock, spent, together, night,
                   faults>>

(* The clock is read and the event let through; its run is made later.          *)
Decide(p) ==
    LET d == dispatcher[p] IN
    /\ d.step = "claimed" /\ d.phase = "dispatching" /\ ~Unwanted(d)
    /\ ~Quiet(d.preference, clock) /\ d.sentToday < d.preference.budget
    /\ dispatcher' = [dispatcher EXCEPT ![p] = [d EXCEPT !.step = "decided", !.now = clock]]
    /\ UNCHANGED <<pollVars, event, run, preference, paused, clock, spent, together, cut, night, faults>>

(* The run of the event, found by its source_event_id when there is one: the    *)
(* member gets it, whatever becomes of the dispatch.                            *)
EnqueueProactive(p) ==
    LET d == dispatcher[p]
        made == IF run[d.paper] = "none" THEN {d.paper} ELSE {} IN
    /\ d.step = "decided"
    /\ run' = [run EXCEPT ![d.paper] = IF @ = "none" THEN "open" ELSE @]
    /\ dispatcher' = [dispatcher EXCEPT ![p].step = "created"]
    /\ cut' = IF HoldsEvent(p) /\ event[d.paper].leaseValid THEN cut ELSE cut \cup {d.paper}
    /\ spent' = spent \cup made
    /\ woken' = IF Quiet(preference, clock) THEN woken \cup made ELSE woken
    /\ overtaken' = IF d.now = clock /\ d.preference = preference THEN overtaken ELSE overtaken \cup made
    /\ UNCHANGED <<pollVars, event, preference, paused, clock, together, faults>>

MarkEnqueued(p) ==
    LET d == dispatcher[p] IN
    /\ d.step = "created"
    /\ Finish(p, [Touch(event[d.paper], "enqueued") EXCEPT !.hasRun = TRUE])
    /\ UNCHANGED <<published, sub, firstFeed, run, preference, paused, clock, spent, together, night, faults>>

(* A lease passes: that of a process that has died, or of one that is slow.     *)
ExpireEvent(e) ==
    /\ event[e].leaseValid
    /\ LET d == dispatcher[event[e].holder] IN
           IF d.paper = e
           THEN Fault /\ cut' = IF d.step = "created" THEN cut \cup {e} ELSE cut
           ELSE UNCHANGED <<faults, cut>>
    /\ event' = [event EXCEPT ![e].leaseValid = FALSE]
    /\ UNCHANGED <<pollVars, dispatcher, run, preference, paused, clock, spent, together, night>>

Acknowledge(e) ==
    /\ event[e].state = "delivered"
    /\ event' = [event EXCEPT ![e] = Touch(@, "acknowledged")]
    /\ UNCHANGED <<pollVars, dispatcher, run, preference, paused, clock, spent, together, cut, night,
                   faults>>

(* All but the time zone, which stays what it is.                               *)
UpdatePreferences ==
    /\ Fault
    /\ preference' \in Preferences \ {preference}
    /\ UNCHANGED <<pollVars, event, dispatcher, run, paused, clock, spent, together, cut, night>>

SetPaused ==
    /\ IF paused THEN UNCHANGED faults ELSE Fault
    /\ paused' = ~paused
    /\ UNCHANGED <<pollVars, event, dispatcher, run, preference, clock, spent, together, cut, night>>

(* External: an Agent Run settles.                                              *)
SettleRun(e) ==
    /\ run[e] = "open"
    /\ run' \in {[run EXCEPT ![e] = "succeeded"], [run EXCEPT ![e] = "failed"]}
    /\ UNCHANGED <<pollVars, event, dispatcher, preference, paused, clock, spent, together, cut, night,
                   faults>>

Tick ==
    /\ clock' = (clock + 1) % DayLength
    /\ event' = [e \in Paper |-> [event[e] EXCEPT !.wait = NotBefore(@ - 1),
                                                  !.today = @ /\ clock' # 0]]
    /\ spent' = IF clock' = 0 THEN {} ELSE spent
    /\ together' = IF clock' = 0 THEN Deciding(dispatcher) ELSE together
    /\ UNCHANGED <<pollVars, dispatcher, run, preference, paused, cut, night, faults>>

Die(p) ==
    /\ collector[p].step # "idle" \/ dispatcher[p].step # "idle"
    /\ Fault
    /\ Stop(p)
    /\ UNCHANGED <<published, sub, firstFeed, event, run, preference, paused, clock, spent, together,
                   night>>

PollStep(p) == ClaimSubscription(p) \/ Search(p) \/ SavePoll(p)
DispatchStep(p) == \/ ClaimEvent(p) \/ SaveRank(p) \/ Suppress(p) \/ Defer(p)
                   \/ Decide(p) \/ EnqueueProactive(p) \/ MarkEnqueued(p)
LeasesExpire == \/ ExpirePoll
                \/ \E e \in Paper : ExpireEvent(e)

Next ==
    \/ Publish \/ PollFallsDue \/ CreateSubscription \/ LeasesExpire
    \/ \E p \in Process : PollStep(p) \/ DispatchStep(p) \/ FailPoll(p) \/ RetryEvent(p) \/ Die(p)
    \/ \E b \in BOOLEAN : SetSubscriptionEnabled(b)
    \/ \E e \in Paper : Acknowledge(e) \/ SettleRun(e)
    \/ UpdatePreferences \/ SetPaused \/ Tick

Spec == Init /\ [][Next]_vars

(* Only what the events need: somebody takes turns, leases run out, runs settle, *)
(* days pass and a pause ends.                                                   *)
FairSpec ==
    /\ Spec
    /\ WF_vars(\E p \in Process : DispatchStep(p))
    /\ WF_vars(LeasesExpire)
    /\ WF_vars(\E e \in Paper : SettleRun(e))
    /\ WF_vars(Tick)
    /\ WF_vars(paused /\ SetPaused)

-------------------------------------------------------------------------------
(* Properties                                                                 *)

(* The baseline is exactly the feed that completed it: a paper of that feed is *)
(* never announced, and a later one is never taken for old, even when a        *)
(* collector that claimed the subscription before the baseline saves late.     *)
BaselineSplit == \A e \in Paper : event[e].state = "baseline" <=> e \in firstFeed

(* The runs made in a day, less those that fail, exceed the daily budget by at *)
(* most one for each further dispatcher with a decision in hand (each decides  *)
(* on the count it claimed with), and one for each dispatch that was cut       *)
(* before MarkEnqueued, which no count includes.                               *)
MostBudget == CHOOSE b \in {p.budget : p \in Preferences} : \A p \in Preferences : p.budget <= b
BudgetKept ==
    LET sent == {e \in spent : run[e] # "failed"} IN
    sent # {} => Cardinality(sent) <= MostBudget + together - 1 + Cardinality(sent \cap cut)

(* A run is reported by its event, whose state follows it, unless the dispatch *)
(* was cut between the two transactions.                                       *)
RunReported ==
    \A e \in Paper :
        /\ event[e].state \in Sent => run[e] # "none" /\ event[e].hasRun
        /\ event[e].state \in Sent \ {"enqueued"} => run[e] = "succeeded"
        /\ run[e] # "none" /\ e \notin cut =>
              \/ event[e].hasRun /\ event[e].state \in Sent \cup {"failed"}
              \/ \E p \in Process : dispatcher[p].paper = e /\ dispatcher[p].step = "created" /\ HoldsEvent(p)

(* Of quiet hours that begin and end, at whatever ticks of the day, a deferral *)
(* ends at the first tick that is not quiet; the next budget window is         *)
(* tomorrow and not quiet.  Of an even clock only: see above for the days on   *)
(* which daylight saving begins or ends.                                       *)
DeferralsEndQuiet ==
    \A start, end \in 0 .. DayLength - 1 :
        LET pref == [start |-> start, end |-> end]
            QuietIn(k) == Quiet(pref, (clock + k) % DayLength)
            allowed == UntilAllowed(pref, clock)
            window == UntilBudget(pref, clock)
        IN start # end =>
               /\ QuietIn(0) => ~QuietIn(allowed) /\ \A k \in 0 .. allowed - 1 : QuietIn(k)
               /\ ~QuietIn(window) /\ (clock + window) \div DayLength = 1

(* No run is made in the quiet hours the member has set, unless they began     *)
(* after the dispatcher looked at the clock, or the member set others after    *)
(* the event was claimed.                                                      *)
NotWoken == woken \subseteq overtaken

(* What is announced is new, told of by its run, made outside the quiet hours  *)
(* that were looked at, and deferred to the end of them (proactive store.go    *)
(* SavePoll, ClaimEvent, MarkEnqueued, Reconcile; worker.go process).          *)
ProactiveInv == TypeOK /\ BaselineSplit /\ RunReported /\ DeferralsEndQuiet /\ NotWoken

(* Time and again no source event is left open: each comes to an end, or is    *)
(* stranded: ranked, with every dispatch attempt used up by deferrals, where   *)
(* no claim and no sweep finds it.                                             *)
Stranded(e) == event[e].state = "ranked" /\ event[e].dispatchAttempts = MaxAttempts
EveryEventEnds == []<>(\A e \in Paper : event[e].state \in Ended \cup {"none"} \/ Stranded(e))
===============================================================================
