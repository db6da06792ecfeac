----------------------- MODULE ProactiveDispatch_proofs -----------------------
(***************************************************************************)
(* Proofs about ProactiveDispatch, for any number of papers, processes,    *)
(* preferences and failures and any length of the day.                     *)
(*                                                                         *)
(* Three arguments go side by side.  A lease of the subscription is held   *)
(* with the baseline and the ETag it was claimed with, so that only the    *)
(* first feed is saved as old (PollingOK). A run without a row to tell of  *)
(* it is one whose dispatcher still holds the event, under a lease that is *)
(* good (RowOK). And each dispatcher that counted less than the budget may *)
(* make one run more, which the budget of the day has room for: a run that *)
(* is made is either in the count that is read, or still in the hands of a *)
(* dispatcher, or was cut (BudgetOK). The quiet hours are arithmetic on    *)
(* the even clock of the module, without daylight saving.                  *)
(***************************************************************************)
EXTENDS ProactiveDispatch, FiniteSetTheorems, WellFoundedInduction, TLAPS

-------------------------------------------------------------------------------
(* The clock                                                                  *)

LEMMA Modulo ==
    ASSUME NEW d \in Nat \ {0}, NEW x \in Nat, x < 2 * d
    PROVE  /\ x < d => x % d = x
           /\ d <= x => x % d = x - d /\ x \div d = 1
<1>1. CASE x < d
  BY <1>1
<1>2. CASE d <= x
  BY <1>2
<1> QED BY <1>1, <1>2

(* Quiet hours within a day, or across midnight.                               *)
LEMMA QuietHours ==
    ASSUME NEW d \in Nat \ {0}, NEW start \in 0 .. d - 1, NEW end \in 0 .. d - 1, start # end,
           NEW now \in 0 .. d - 1, NEW k \in Nat, now + k < 2 * d
    PROVE  LET later == (now + k) % d
               pref == [start |-> start, end |-> end]
           IN  /\ now + k < d => (Quiet(pref, later) <=>
                     IF start < end THEN now + k >= start /\ now + k < end ELSE now + k >= start \/ now + k < end)
               /\ now + k >= d => (Quiet(pref, later) <=>
                     IF start < end THEN now + k - d >= start /\ now + k - d < end
                                    ELSE now + k - d >= start \/ now + k - d < end)
<1> PICK later : later = (now + k) % d
  OBVIOUS
<1>1. /\ now + k < d => later = now + k
      /\ now + k >= d => later = now + k - d
  <2> PICK x : x = now + k
    OBVIOUS
  <2>1. x \in Nat /\ x < 2 * d /\ later = x % d
    OBVIOUS
  <2>2. /\ x < d => x % d = x
        /\ d <= x => x % d = x - d
    BY <2>1, Modulo
  <2>3. x < d => later = x
    BY <2>1, <2>2
  <2>4. d <= x => later = x - d
    BY <2>1, <2>2
  <2> QED BY <2>3, <2>4
<1> PICK pref : pref = [start |-> start, end |-> end]
  OBVIOUS
<1>2. Quiet(pref, later) <=> IF start < end THEN later >= start /\ later < end ELSE later >= start \/ later < end
  BY DEF Quiet
<1>3. later \in Int
  BY <1>1
<1> QED BY <1>1, <1>2

LEMMA DeferralsEnd == ASSUME clock \in 0 .. DayLength - 1 PROVE DeferralsEndQuiet
<1>0. DayLength \in Nat \ {0}
  BY CountsType
<1> SUFFICES ASSUME NEW start \in 0 .. DayLength - 1, NEW end \in 0 .. DayLength - 1, start # end
             PROVE  LET pref == [start |-> start, end |-> end]
                        QuietIn(k) == Quiet(pref, (clock + k) % DayLength)
                        allowed == UntilAllowed(pref, clock)
                        window == UntilBudget(pref, clock)
                    IN  /\ QuietIn(0) => ~QuietIn(allowed) /\ \A k \in 0 .. allowed - 1 : QuietIn(k)
                        /\ ~QuietIn(window) /\ (clock + window) \div DayLength = 1
  BY DEF DeferralsEndQuiet
<1> PICK pref : pref = [start |-> start, end |-> end]
  OBVIOUS
<1> DEFINE QuietIn(k) == Quiet(pref, (clock + k) % DayLength)
<1>1. \A k \in Nat : clock + k < 2 * DayLength =>
        /\ clock + k < DayLength => (QuietIn(k) <=>
              IF start < end THEN clock + k >= start /\ clock + k < end ELSE clock + k >= start \/ clock + k < end)
        /\ clock + k >= DayLength => (QuietIn(k) <=>
              IF start < end THEN clock + k - DayLength >= start /\ clock + k - DayLength < end
                             ELSE clock + k - DayLength >= start \/ clock + k - DayLength < end)
  BY <1>0, QuietHours
<1> HIDE DEF QuietIn
<1> PICK allowed, window : allowed = UntilAllowed(pref, clock) /\ window = UntilBudget(pref, clock)
  OBVIOUS
<1>2. allowed = IF start > end /\ clock >= start THEN end - clock + DayLength
                ELSE IF end < clock THEN 0 ELSE end - clock
  BY <1>0 DEF UntilAllowed, NotBefore
<1>3. window = DayLength + end - clock /\ window \in Nat /\ clock + window = DayLength + end
  BY <1>0 DEF UntilBudget
<1>4. QuietIn(0) => ~QuietIn(allowed) /\ \A k \in 0 .. allowed - 1 : QuietIn(k)
  <2> SUFFICES ASSUME QuietIn(0) PROVE ~QuietIn(allowed) /\ \A k \in 0 .. allowed - 1 : QuietIn(k)
    OBVIOUS
  <2>1. IF start < end THEN clock >= start /\ clock < end ELSE clock >= start \/ clock < end
    BY <1>0, <1>1
  <2>2. CASE start > end /\ clock >= start
    <3>1. allowed \in Nat /\ clock + allowed = DayLength + end
      BY <1>0, <1>2, <2>2
    <3>2. ~QuietIn(allowed)
      BY <1>0, <1>1, <2>2, <3>1
    <3>3. ASSUME NEW k \in 0 .. allowed - 1 PROVE QuietIn(k)
      <4>1. k \in Nat /\ clock + k < DayLength + end
        BY <1>0, <3>1
      <4> QED BY <1>0, <1>1, <2>2, <4>1
    <3> QED BY <3>2, <3>3
  <2>3. CASE ~(start > end /\ clock >= start)
    <3>1. clock < end /\ allowed = end - clock /\ allowed \in Nat /\ clock + allowed = end
      BY <1>0, <1>2, <2>1, <2>3
    <3>2. ~QuietIn(allowed)
      BY <1>0, <1>1, <2>1, <2>3, <3>1
    <3>3. ASSUME NEW k \in 0 .. allowed - 1 PROVE QuietIn(k)
      <4>1. k \in Nat /\ clock + k < end /\ clock <= clock + k
        BY <1>0, <3>1
      <4> QED BY <1>0, <1>1, <2>1, <2>3, <4>1
    <3> QED BY <3>2, <3>3
  <2> QED BY <2>2, <2>3
<1>5. ~QuietIn(window)
  BY <1>0, <1>1, <1>3
<1>6. (clock + window) \div DayLength = 1
  <2>1. clock + window \in Nat /\ DayLength <= clock + window /\ clock + window < 2 * DayLength
    BY <1>0, <1>3
  <2> QED BY <1>0, <2>1, Modulo
<1> QED BY <1>4, <1>5, <1>6 DEF QuietIn

-------------------------------------------------------------------------------
(* The invariant                                                              *)

EventRow == [state : EventState, rankAttempts : 0 .. MaxAttempts,
             dispatchAttempts : 0 .. MaxAttempts, holder : Process \cup {Nobody},
             leaseValid : BOOLEAN, score : Scores \cup {0}, wait : 0 .. 2 * DayLength,
             hasRun : BOOLEAN, today : BOOLEAN]
SubscriptionRow == [enabled : BOOLEAN, due : BOOLEAN, holder : Process \cup {Nobody}, leaseValid : BOOLEAN,
                    baseline : BOOLEAN, etag : 0 .. Papers]
Collecting == [step : {"idle", "claimed", "answered"}, baseline : BOOLEAN,
               etag : 0 .. Papers, answer : 0 .. Papers, papers : SUBSET Paper]
Dispatching == [step : {"idle", "claimed", "decided", "created"}, paper : Paper \cup {0},
                phase : {"none"} \cup Leased, attempts : 0 .. MaxAttempts,
                score : Scores \cup {0}, preference : Preferences, sentToday : 0 .. Papers,
                now : 0 .. DayLength - 1]

(* A poll is saved with the baseline and the ETag of the row; until a feed has *)
(* been saved there are no events.                                             *)
PollingOK ==
    /\ \A p \in Process :
          collector[p].step # "idle" /\ sub.holder = p =>
              collector[p].baseline = sub.baseline /\ collector[p].etag = sub.etag
    /\ ~sub.baseline => sub.etag = 0 /\ firstFeed = {} /\ \A e \in Paper : event[e].state = "none"

DispatcherOK(p) ==
    /\ dispatcher[p].step = "idle" => dispatcher[p].phase = "none"
    /\ dispatcher[p].step # "idle" => dispatcher[p].paper \in Paper /\ dispatcher[p].phase \in Leased
    /\ dispatcher[p].step \in {"decided", "created"} =>
          dispatcher[p].phase = "dispatching" /\ dispatcher[p].sentToday < MostBudget
    /\ dispatcher[p].step = "decided" => ~Quiet(dispatcher[p].preference, dispatcher[p].now)
    /\ dispatcher[p].step = "created" => run[dispatcher[p].paper] # "none"

(* The parts of RunReported, and what they rest on: a dispatcher that made the *)
(* run and holds the event has a lease that is good; an event that failed has  *)
(* a run that failed; what was marked as sent of the runs of today is counted. *)
Told(e) == event[e].hasRun /\ event[e].state \in Sent \cup {"failed"}
Holding(e, p) == dispatcher[p].paper = e /\ dispatcher[p].step = "created" /\ HoldsEvent(p)
RowOK(e) ==
    /\ event[e].state \in Sent => run[e] # "none" /\ event[e].hasRun
    /\ event[e].state \in Sent \ {"enqueued"} => run[e] = "succeeded"
    /\ run[e] # "none" /\ e \notin cut => Told(e) \/ \E p \in Process : Holding(e, p)
    /\ \A p \in Process : Holding(e, p) /\ e \notin cut => event[e].leaseValid
    /\ run[e] # "none" /\ e \notin cut /\ event[e].state = "failed" => run[e] = "failed"
    /\ e \in spent => /\ run[e] # "none"
                      /\ event[e].state \in Sent => event[e].today

(* Every dispatcher that counted less than the budget may make one run more.   *)
Counted == {e \in spent \ cut : run[e] # "failed"}
Deciders == {p \in Process : dispatcher[p].phase = "dispatching"}
Makers == {p \in Deciders : dispatcher[p].step = "created"}
Eager == {p \in Deciders : dispatcher[p].step # "created" /\ dispatcher[p].sentToday < MostBudget}
BudgetOK ==
    /\ Cardinality(Deciders) <= together
    /\ spent # {} => together > 0
    /\ Counted # {} \/ Eager # {} => Cardinality(Counted) + Cardinality(Eager) <= MostBudget + together - 1

ProactiveIInv ==
    /\ TypeOK /\ BaselineSplit /\ PollingOK
    /\ \A p \in Process : DispatcherOK(p)
    /\ \A e \in Paper : RowOK(e)
    /\ BudgetOK

LEMMA Types ==
    ASSUME TypeOK
    PROVE  /\ published \in 0 .. Papers /\ sub \in SubscriptionRow /\ collector \in [Process -> Collecting]
           /\ firstFeed \subseteq Paper /\ event \in [Paper -> EventRow] /\ dispatcher \in [Process -> Dispatching]
           /\ run \in [Paper -> {"none", "open", "succeeded", "failed"}]
           /\ preference \in Preferences /\ paused \in BOOLEAN /\ clock \in 0 .. DayLength - 1
           /\ spent \subseteq Paper /\ together \in 0 .. Cardinality(Process) /\ cut \subseteq Paper
           /\ woken \subseteq Paper /\ overtaken \subseteq Paper
           /\ faults \in 0 .. MaxFaults
BY DEF TypeOK, SubscriptionRow, Collecting, EventRow, Dispatching

LEMMA TypesAfter ==
    ASSUME published' \in 0 .. Papers, sub' \in SubscriptionRow, collector' \in [Process -> Collecting],
           firstFeed' \subseteq Paper, event' \in [Paper -> EventRow], dispatcher' \in [Process -> Dispatching],
           run' \in [Paper -> {"none", "open", "succeeded", "failed"}],
           preference' \in Preferences, paused' \in BOOLEAN, clock' \in 0 .. DayLength - 1,
           spent' \subseteq Paper, together' \in 0 .. Cardinality(Process), cut' \subseteq Paper,
           woken' \subseteq Paper, overtaken' \subseteq Paper,
           faults' \in 0 .. MaxFaults
    PROVE  TypeOK'
BY DEF TypeOK, SubscriptionRow, Collecting, EventRow, Dispatching

LEMMA Constants ==
    /\ {Papers, Window, MaxAttempts, DayLength} \subseteq Nat \ {0} /\ MaxFaults \in Nat
    /\ IsFiniteSet(Process) /\ Cardinality(Process) \in Nat
    /\ IsFiniteSet(Paper) /\ Cardinality(Paper) = Papers
<1>1. Papers \in Nat \ {0}
  BY CountsType
<1>2. IsFiniteSet(1 .. Papers) /\ Cardinality(1 .. Papers) = Papers
  <2>1. 1 \in Int /\ Papers \in Int /\ ~(1 > Papers) /\ Papers - 1 + 1 = Papers
    BY <1>1
  <2> QED BY <2>1, FS_Interval
<1> QED BY <1>1, <1>2, CountsType, ProcessType, FS_CardinalityType DEF Paper

(* A set of numbers with a bound has a largest.                                *)
LEMMA Largest ==
    ASSUME NEW S, S \subseteq Nat, S # {}, NEW n \in Nat, \A s \in S : s <= n
    PROVE  \E m \in S : \A s \in S : s <= m
<1> DEFINE T == {k \in Nat : n - k \in S}
<1>1. T \subseteq Nat /\ T # {}
  <2>1. PICK s \in S : TRUE
    OBVIOUS
  <2>2. n - s \in Nat /\ n - (n - s) = s
    OBVIOUS
  <2> QED BY <2>2
<1>2. PICK k \in T : \A y \in T : ~(<<y, k>> \in OpToRel(<, Nat))
  <2> HIDE DEF T
  <2> QED BY <1>1, NatLessThanWellFounded, WFMin, Zenon
<1>3. \A y \in T : ~(y < k)
  BY <1>2 DEF OpToRel
<1>4. ASSUME NEW s \in S PROVE s <= n - k
  <2>1. n - s \in Nat /\ n - (n - s) = s
    OBVIOUS
  <2>2. ~(n - s < k)
    BY <1>3, <2>1
  <2> QED BY <2>2
<1> QED BY <1>4

LEMMA MostIsBudget ==
    ASSUME TypeOK
    PROVE  MostBudget \in Nat /\ \A p \in Preferences : p.budget <= MostBudget
<1> DEFINE Budgets == {p.budget : p \in Preferences}
<1>1. Budgets \subseteq Nat /\ Budgets # {}
  BY PreferencesType, Types
<1>2. BudgetLimit \in Nat /\ \A b \in Budgets : b <= BudgetLimit
  BY BudgetsType DEF BudgetLimit
<1>3. \E b \in Budgets : \A c \in Budgets : c <= b
  <2> HIDE DEF Budgets
  <2> QED BY <1>1, <1>2, Largest
<1>4. \E b \in Budgets : \A p \in Preferences : p.budget <= b
  BY <1>3
<1>5. MostBudget \in Budgets /\ \A p \in Preferences : p.budget <= MostBudget
  BY <1>4 DEF MostBudget
<1> QED BY <1>1, <1>5

LEMMA IdleTypes ==
    ASSUME Preferences # {}
    PROVE  /\ IdleCollector \in Collecting /\ IdleCollector.step = "idle"
           /\ IdleDispatcher \in Dispatching /\ IdleDispatcher.step = "idle" /\ IdleDispatcher.phase = "none"
           /\ NoEvent \in EventRow /\ NoEvent.state = "none" /\ ~NoEvent.hasRun /\ ~NoEvent.leaseValid
<1>1. (CHOOSE p \in Preferences : TRUE) \in Preferences
  OBVIOUS
<1>2. 0 \in 0 .. Papers /\ 0 \in 0 .. MaxAttempts /\ 0 \in 0 .. 2 * DayLength /\ 0 \in 0 .. DayLength - 1
  BY CountsType
<1> QED BY <1>1, <1>2 DEF IdleCollector, Collecting, NoPapers, IdleDispatcher, Dispatching, NoEvent, EventRow, EventState

LEMMA Empty == IsFiniteSet({}) /\ Cardinality({}) = 0
BY FS_EmptySet

LEMMA InitProactive == Init => ProactiveIInv
<1> SUFFICES ASSUME Init PROVE ProactiveIInv
  OBVIOUS
<1>0. Preferences # {}
  BY DEF Init
<1>1. TypeOK
  <2>1. sub \in SubscriptionRow
    BY CountsType DEF Init, SubscriptionRow
  <2>2. collector \in [Process -> Collecting] /\ dispatcher \in [Process -> Dispatching] /\ event \in [Paper -> EventRow]
    BY <1>0, IdleTypes DEF Init
  <2>3. 0 \in 0 .. Papers /\ 0 \in 0 .. DayLength - 1 /\ 0 \in 0 .. Cardinality(Process) /\ 0 \in 0 .. MaxFaults
    BY Constants
  <2> QED BY <2>1, <2>2, <2>3 DEF Init, TypeOK, SubscriptionRow, Collecting, Dispatching, EventRow
<1>2. BaselineSplit /\ PollingOK
  BY <1>0, IdleTypes DEF Init, BaselineSplit, PollingOK
<1>3. \A p \in Process : DispatcherOK(p)
  BY <1>0, IdleTypes DEF Init, DispatcherOK
<1>4. \A e \in Paper : RowOK(e)
  BY <1>0, IdleTypes DEF Init, RowOK, Told, Holding, Sent
<1>5. BudgetOK
  <2>1. spent = {} /\ Counted = {} /\ Deciders = {} /\ Eager = {}
    BY <1>0, IdleTypes DEF Init, Counted, Deciders, Eager
  <2> QED BY <2>1, Empty DEF Init, BudgetOK
<1> QED BY <1>1, <1>2, <1>3, <1>4, <1>5 DEF ProactiveIInv

-------------------------------------------------------------------------------
(* What a step leaves alone                                                   *)

(* A step that neither polls nor makes, ends or revives an old event.          *)
LEMMA PollingStays ==
    ASSUME BaselineSplit, PollingOK, UNCHANGED <<sub, firstFeed>>,
           \A p \in Process : collector'[p] = collector[p] \/ collector'[p].step = "idle",
           \A e \in Paper : /\ event'[e].state = "none" <=> event[e].state = "none"
                            /\ event'[e].state = "baseline" <=> event[e].state = "baseline"
    PROVE  BaselineSplit' /\ PollingOK'
<1>1. BaselineSplit'
  BY DEF BaselineSplit
<1>2. PollingOK'
  BY DEF PollingOK
<1> QED BY <1>1, <1>2

LEMMA DispatcherStays ==
    ASSUME NEW p \in Process, DispatcherOK(p), dispatcher'[p] = dispatcher[p],
           \A e \in Paper : run[e] # "none" => run'[e] # "none"
    PROVE  DispatcherOK(p)'
BY DEF DispatcherOK, MostBudget

LEMMA DispatcherIdle ==
    ASSUME NEW p \in Process, Preferences # {}, dispatcher'[p] = IdleDispatcher
    PROVE  DispatcherOK(p)'
BY IdleTypes DEF DispatcherOK

(* An event that keeps its state and its lease, and the dispatchers that have  *)
(* made its run.                                                               *)
LEMMA RowStays ==
    ASSUME NEW e \in Paper, RowOK(e), cut \subseteq cut', run'[e] = run[e],
           event'[e].state = event[e].state, event'[e].hasRun = event[e].hasRun,
           event'[e].holder = event[e].holder, event'[e].leaseValid = event[e].leaseValid,
           e \in spent' => e \in spent /\ event'[e].today = event[e].today,
           \A p \in Process :
              dispatcher'[p] = dispatcher[p]
              \/ /\ dispatcher[p].step = "created" /\ dispatcher[p].paper = e => e \in cut'
                 /\ dispatcher'[p].step = "created" => dispatcher'[p].paper # e
    PROVE  RowOK(e)'
<1>1. ASSUME NEW p \in Process, Holding(e, p), e \notin cut' PROVE Holding(e, p)'
  BY <1>1 DEF Holding, HoldsEvent
<1>2. ASSUME NEW p \in Process, Holding(e, p)' PROVE Holding(e, p)
  BY <1>2 DEF Holding, HoldsEvent
<1>3. run'[e] # "none" /\ e \notin cut' => Told(e)' \/ \E p \in Process : Holding(e, p)'
  BY <1>1 DEF RowOK, Told
<1>4. \A p \in Process : Holding(e, p)' /\ e \notin cut' => event'[e].leaseValid
  BY <1>2 DEF RowOK
<1> QED BY <1>3, <1>4 DEF RowOK

(* The run has not been made, or was made by a dispatch that has been cut.     *)
NotStarted(e) == run[e] = "none" \/ e \in cut

LEMMA IsNotStarted ==
    ASSUME NEW e \in Paper, RowOK(e), event[e].state \notin Sent \cup {"failed"},
           ~event[e].leaseValid \/ \A p \in Process : ~Holding(e, p)
    PROVE  NotStarted(e)
BY DEF RowOK, NotStarted, Told

(* An event that is not sent and whose run is not made goes on to another      *)
(* state that is not sent either.                                              *)
LEMMA RowMoves ==
    ASSUME NEW e \in Paper, RowOK(e), event[e].state \notin Sent \cup {"failed"},
           run'[e] = run[e], e \in spent' => e \in spent,
           run[e] = "none" \/ e \in cut',
           event'[e].state \notin Sent, event'[e].leaseValid \/ event'[e].state \notin Leased,
           \A p \in Process : DispatcherOK(p)'
    PROVE  RowOK(e)'
<1>1. \A p \in Process : Holding(e, p)' => event'[e].state \in Leased
  BY DEF Holding, HoldsEvent, DispatcherOK, Leased
<1>2. e \in spent' => run'[e] # "none"
  BY DEF RowOK
<1> QED BY <1>1, <1>2 DEF RowOK, Sent

LEMMA FiniteSets ==
    ASSUME TypeOK
    PROVE  IsFiniteSet(Counted) /\ IsFiniteSet(Deciders) /\ IsFiniteSet(Eager) /\ IsFiniteSet(Makers)
           /\ Cardinality(Counted) \in Nat /\ Cardinality(Deciders) \in Nat /\ Cardinality(Eager) \in Nat
           /\ Cardinality(Makers) \in Nat
           /\ Cardinality(Eager) <= Cardinality(Deciders) /\ Cardinality(Deciders) <= Cardinality(Process)
           /\ Deciding(dispatcher) = Cardinality(Deciders)
<1>1. Counted \subseteq Paper /\ Deciders \subseteq Process /\ Eager \subseteq Deciders /\ Makers \subseteq Deciders
  BY Types DEF Counted, Deciders, Eager, Makers
<1>2. IsFiniteSet(Counted) /\ IsFiniteSet(Deciders) /\ Cardinality(Deciders) <= Cardinality(Process)
  BY <1>1, Constants, FS_Subset
<1>3. IsFiniteSet(Eager) /\ IsFiniteSet(Makers) /\ Cardinality(Eager) <= Cardinality(Deciders)
  BY <1>1, <1>2, FS_Subset
<1> QED BY <1>2, <1>3, FS_CardinalityType DEF Deciding, Deciders

(* Nobody joins those that decide, and no run is made.                         *)
LEMMA BudgetStays ==
    ASSUME TypeOK, BudgetOK, UNCHANGED together, spent' \subseteq spent, cut \subseteq cut',
           \A e \in Paper : run[e] = "failed" => run'[e] = "failed",
           \A p \in Process : dispatcher'[p] = dispatcher[p] \/ dispatcher'[p].phase # "dispatching"
                              \/ /\ dispatcher'[p].phase = dispatcher[p].phase
                                 /\ dispatcher'[p].sentToday = dispatcher[p].sentToday
                                 /\ dispatcher[p].step # "created"
    PROVE  BudgetOK'
<1>1. Counted' \subseteq Counted /\ Deciders' \subseteq Deciders /\ Eager' \subseteq Eager
  BY Types DEF Counted, Deciders, Eager, MostBudget
<1>2. /\ Cardinality(Counted') <= Cardinality(Counted) /\ Cardinality(Deciders') <= Cardinality(Deciders)
      /\ Cardinality(Eager') <= Cardinality(Eager)
      /\ IsFiniteSet(Counted') /\ IsFiniteSet(Deciders') /\ IsFiniteSet(Eager')
  BY <1>1, FiniteSets, FS_Subset
<1>3. Cardinality(Counted') \in Nat /\ Cardinality(Deciders') \in Nat /\ Cardinality(Eager') \in Nat
  BY <1>2, FS_CardinalityType
<1>4. MostBudget \in Nat /\ together \in Nat
  BY MostIsBudget, Types, Constants
<1> QED BY <1>1, <1>2, <1>3, <1>4, FiniteSets DEF BudgetOK, MostBudget

-------------------------------------------------------------------------------
(* Polling                                                                    *)

Surroundings ==
    /\ published \in 0 .. Papers /\ preference \in Preferences /\ paused \in BOOLEAN
    /\ clock \in 0 .. DayLength - 1 /\ faults \in 0 .. MaxFaults

(* Nothing that dispatch looks at.                                             *)
LEMMA NotDispatched ==
    ASSUME ProactiveIInv, TypeOK', BaselineSplit', PollingOK',
           UNCHANGED <<event, dispatcher, run, spent, together, cut, woken, overtaken>>
    PROVE  ProactiveIInv'
<1>1. \A p \in Process : DispatcherOK(p)'
  BY DispatcherStays DEF ProactiveIInv
<1>2. \A e \in Paper : RowOK(e)'
  BY RowStays DEF ProactiveIInv
<1>3. BudgetOK'
  BY BudgetStays DEF ProactiveIInv
<1> QED BY <1>1, <1>2, <1>3 DEF ProactiveIInv

(* Somebody else's choices.                                                    *)
LEMMA SettingStep ==
    ASSUME ProactiveIInv, Surroundings',
           UNCHANGED <<sub, collector, firstFeed, event, dispatcher, run, spent, together, cut, woken,
                       overtaken>>
    PROVE  ProactiveIInv'
<1>1. TypeOK'
  BY Types, TypesAfter DEF ProactiveIInv, Surroundings
<1>2. BaselineSplit' /\ PollingOK'
  BY PollingStays DEF ProactiveIInv
<1> QED BY <1>1, <1>2, NotDispatched

(* A process ends with its claims, and with what it has dispatched half.       *)
LEMMA StopStep ==
    ASSUME ProactiveIInv, NEW p \in Process, Stop(p), Surroundings',
           UNCHANGED <<sub, firstFeed, event, run, spent, together, woken, overtaken>>
    PROVE  ProactiveIInv'
<1>0. /\ TypeOK /\ Preferences # {} /\ cut \subseteq Paper
      /\ collector \in [Process -> Collecting] /\ dispatcher \in [Process -> Dispatching]
  BY Types DEF ProactiveIInv
<1>1. /\ collector' \in [Process -> Collecting] /\ collector'[p].step = "idle"
      /\ \A q \in Process : q # p => collector'[q] = collector[q]
  BY <1>0, IdleTypes DEF Stop
<1>2. /\ dispatcher' \in [Process -> Dispatching] /\ dispatcher'[p] = IdleDispatcher
      /\ \A q \in Process : q # p => dispatcher'[q] = dispatcher[q]
  BY <1>0, IdleTypes DEF Stop
<1>3. /\ cut \subseteq cut' /\ cut' \subseteq Paper
      /\ dispatcher[p].step = "created" => dispatcher[p].paper \in cut'
  BY <1>0 DEF Stop, ProactiveIInv, DispatcherOK
<1>4. TypeOK'
  BY <1>0, <1>1, <1>2, <1>3, Types, TypesAfter DEF Surroundings
<1>5. BaselineSplit' /\ PollingOK'
  BY <1>1, PollingStays DEF ProactiveIInv
<1>6. \A q \in Process : DispatcherOK(q)'
  BY <1>0, <1>2, DispatcherStays, DispatcherIdle DEF ProactiveIInv
<1>7. \A e \in Paper : RowOK(e)'
  BY <1>0, <1>2, <1>3, RowStays, IdleTypes DEF ProactiveIInv
<1>8. BudgetOK'
  BY <1>0, <1>2, <1>3, BudgetStays, IdleTypes DEF ProactiveIInv
<1> QED BY <1>4, <1>5, <1>6, <1>7, <1>8 DEF ProactiveIInv

LEMMA ClaimSubscriptionStep ==
    ASSUME ProactiveIInv, NEW p \in Process, ClaimSubscription(p) PROVE ProactiveIInv'
<1> DEFINE taken == [sub EXCEPT !.holder = p, !.leaseValid = TRUE]
           claim == [IdleCollector EXCEPT !.step = "claimed", !.baseline = sub.baseline, !.etag = sub.etag]
<1>0. /\ TypeOK /\ sub \in SubscriptionRow /\ Preferences # {}
      /\ collector \in [Process -> Collecting]
  BY Types DEF ProactiveIInv
<1>1. /\ taken \in SubscriptionRow /\ taken.holder = p /\ taken.baseline = sub.baseline /\ taken.etag = sub.etag
  BY <1>0 DEF SubscriptionRow
<1>2. claim \in Collecting /\ claim.baseline = sub.baseline /\ claim.etag = sub.etag
  BY <1>0, IdleTypes DEF Collecting, SubscriptionRow
<1>3. sub' = taken /\ collector' = [collector EXCEPT ![p] = claim]
  BY DEF ClaimSubscription, night
<1> HIDE DEF taken, claim
<1>4. TypeOK'
  BY <1>0, <1>1, <1>2, <1>3, Types, TypesAfter DEF ClaimSubscription, night
<1>5. PollingOK' /\ BaselineSplit'
  BY <1>0, <1>1, <1>2, <1>3 DEF ClaimSubscription, ProactiveIInv, PollingOK, BaselineSplit, night
<1> QED BY <1>4, <1>5, NotDispatched DEF ClaimSubscription, night

LEMMA SearchStep == ASSUME ProactiveIInv, NEW p \in Process, Search(p) PROVE ProactiveIInv'
<1> DEFINE answer == [collector[p] EXCEPT !.step = "answered", !.answer = published, !.papers = Feed]
<1>0. TypeOK /\ collector \in [Process -> Collecting] /\ published \in 0 .. Papers
  BY Types DEF ProactiveIInv
<1>1. Feed \in SUBSET Paper
  BY DEF Feed
<1>2. answer \in Collecting /\ answer.baseline = collector[p].baseline /\ answer.etag = collector[p].etag
  <2> HIDE DEF Feed
  <2> QED BY <1>0, <1>1 DEF Collecting
<1>3. collector' = [collector EXCEPT ![p] = answer]
  BY DEF Search, night
<1> HIDE DEF answer
<1>4. TypeOK'
  BY <1>0, <1>2, <1>3, Types, TypesAfter DEF Search, night
<1>5. PollingOK' /\ BaselineSplit'
  BY <1>0, <1>2, <1>3 DEF Search, ProactiveIInv, PollingOK, BaselineSplit, night
<1> QED BY <1>4, <1>5, NotDispatched DEF Search, night

(* The rows of the subscription that other steps write.                        *)
LEMMA SubscriptionStep ==
    ASSUME ProactiveIInv, NEW row \in SubscriptionRow, sub' = row,
           row.baseline = sub.baseline, row.etag = sub.etag, row.holder \in {sub.holder, Nobody},
           UNCHANGED <<firstFeed, event, dispatcher, run, spent, together, cut, woken, overtaken>>, Surroundings',
           collector' \in [Process -> Collecting],
           \A q \in Process : collector'[q] = collector[q] \/ collector'[q].step = "idle"
    PROVE  ProactiveIInv'
<1>1. TypeOK'
  BY Types, TypesAfter DEF ProactiveIInv, Surroundings
<1>2. PollingOK' /\ BaselineSplit'
  BY ProcessType DEF ProactiveIInv, PollingOK, BaselineSplit
<1> QED BY <1>1, <1>2, NotDispatched

LEMMA FailPollStep == ASSUME ProactiveIInv, NEW p \in Process, FailPoll(p) PROVE ProactiveIInv'
<1> DEFINE row == [sub EXCEPT !.due = FALSE, !.holder = Nobody, !.leaseValid = FALSE]
<1>0. /\ TypeOK /\ sub \in SubscriptionRow /\ Preferences # {} /\ collector \in [Process -> Collecting]
  BY Types DEF ProactiveIInv
<1>1. Surroundings'
  BY <1>0, Types, Constants DEF FailPoll, Fault, Surroundings, night
<1>2. row \in SubscriptionRow /\ row.baseline = sub.baseline /\ row.etag = sub.etag /\ row.holder = Nobody
  BY <1>0 DEF SubscriptionRow
<1>3. CASE sub' = row /\ collector' = [collector EXCEPT ![p] = IdleCollector] /\ UNCHANGED <<dispatcher, cut>>
  <2>1. /\ collector' \in [Process -> Collecting]
        /\ \A q \in Process : collector'[q] = collector[q] \/ collector'[q].step = "idle"
    BY <1>0, <1>3, IdleTypes
  <2> HIDE DEF row
  <2> QED BY <1>1, <1>2, <1>3, <2>1, SubscriptionStep DEF FailPoll, night
<1>4. CASE Stop(p) /\ UNCHANGED sub
  BY <1>1, <1>4, StopStep DEF FailPoll, night
<1> QED BY <1>3, <1>4 DEF FailPoll, night

LEMMA SubscriptionSteps ==
    ASSUME ProactiveIInv,
           PollFallsDue \/ CreateSubscription \/ ExpirePoll \/ \E b \in BOOLEAN : SetSubscriptionEnabled(b)
    PROVE  ProactiveIInv'
<1>0. TypeOK /\ sub \in SubscriptionRow /\ collector \in [Process -> Collecting]
  BY Types DEF ProactiveIInv
<1>1. Surroundings'
  BY <1>0, Types, Constants DEF PollFallsDue, CreateSubscription, ExpirePoll, SetSubscriptionEnabled, Fault, Surroundings, night
<1>2. PICK row : row = sub'
  OBVIOUS
<1>3. /\ row \in SubscriptionRow /\ row.baseline = sub.baseline /\ row.etag = sub.etag
      /\ row.holder \in {sub.holder, Nobody}
  <2>1. \A due, enabled \in BOOLEAN :
           /\ [sub EXCEPT !.due = due] \in SubscriptionRow
           /\ [sub EXCEPT !.enabled = TRUE, !.due = due] \in SubscriptionRow
           /\ [sub EXCEPT !.enabled = TRUE] \in SubscriptionRow
           /\ [sub EXCEPT !.leaseValid = FALSE] \in SubscriptionRow
           /\ [sub EXCEPT !.enabled = FALSE, !.holder = Nobody, !.leaseValid = FALSE] \in SubscriptionRow
    BY <1>0 DEF SubscriptionRow
  <2>2. CASE PollFallsDue
    BY <1>0, <1>2, <2>1, <2>2 DEF PollFallsDue, SubscriptionRow, night
  <2>3. CASE CreateSubscription
    BY <1>0, <1>2, <2>1, <2>3 DEF CreateSubscription, SubscriptionRow, night
  <2>4. CASE ExpirePoll
    BY <1>0, <1>2, <2>1, <2>4 DEF ExpirePoll, SubscriptionRow, night
  <2>5. CASE \E b \in BOOLEAN : SetSubscriptionEnabled(b)
    <3> PICK b \in BOOLEAN : SetSubscriptionEnabled(b)
      BY <2>5
    <3>1. CASE b
      <4>1. row = [sub EXCEPT !.enabled = TRUE, !.due = TRUE]
        BY <1>2, <3>1 DEF SetSubscriptionEnabled
      <4> QED BY <1>0, <2>1, <4>1 DEF SubscriptionRow
    <3>2. CASE ~b
      <4>1. row = [sub EXCEPT !.enabled = FALSE, !.holder = Nobody, !.leaseValid = FALSE]
        BY <1>2, <3>2 DEF SetSubscriptionEnabled
      <4> QED BY <1>0, <2>1, <4>1 DEF SubscriptionRow
    <3> QED BY <3>1, <3>2
  <2> QED BY <2>2, <2>3, <2>4, <2>5
<1>4. UNCHANGED <<collector, firstFeed, event, dispatcher, run, spent, together, cut, woken, overtaken>>
  BY DEF PollFallsDue, CreateSubscription, ExpirePoll, SetSubscriptionEnabled, night
<1> QED BY <1>0, <1>1, <1>2, <1>3, <1>4, SubscriptionStep

(* The events of a feed: only papers without an event get one.                 *)
LEMMA FeedSaved ==
    ASSUME ProactiveIInv, NEW p \in Process, SavePoll(p), HoldsSubscription(p),
           NEW c, c = collector[p]
    PROVE  \E new \in SUBSET Paper, state \in {"pending", "baseline"} :
              /\ \A e \in new : event[e].state = "none"
              /\ event' = [e \in Paper |-> IF e \in new THEN [NoEvent EXCEPT !.state = state] ELSE event[e]]
              /\ BaselineSplit' /\ PollingOK' /\ firstFeed' \subseteq Paper
<1> DEFINE new == IF NotModified(c) THEN {} ELSE {e \in c.papers : event[e].state = "none"}
           state == IF c.baseline THEN "pending" ELSE "baseline"
<1>0. /\ TypeOK /\ sub \in SubscriptionRow /\ collector \in [Process -> Collecting] /\ c \in Collecting
      /\ c.papers \subseteq Paper /\ c.step = "answered" /\ sub.holder = p
      /\ c.baseline = sub.baseline /\ c.etag = sub.etag
      /\ \A e \in Paper : event[e].state = "baseline" <=> e \in firstFeed
      /\ ~sub.baseline => sub.etag = 0 /\ firstFeed = {} /\ \A e \in Paper : event[e].state = "none"
      /\ firstFeed \subseteq Paper
  BY Types DEF ProactiveIInv, BaselineSplit, PollingOK, HoldsSubscription, SavePoll, Collecting, night
<1>1. new \in SUBSET Paper /\ \A e \in new : event[e].state = "none"
  BY <1>0
<1>2. /\ event' = [e \in Paper |-> IF e \in new THEN [NoEvent EXCEPT !.state = state] ELSE event[e]]
      /\ sub' = [sub EXCEPT !.baseline = @ \/ ~NotModified(c), !.etag = c.answer, !.due = FALSE,
                            !.holder = Nobody, !.leaseValid = FALSE]
      /\ firstFeed' = IF sub.baseline \/ NotModified(c) THEN firstFeed ELSE c.papers
  BY DEF SavePoll, night
<1>3. sub'.holder = Nobody /\ sub'.baseline = (sub.baseline \/ ~NotModified(c))
  BY <1>0, <1>2 DEF SubscriptionRow
<1>4. ~sub.baseline => ~NotModified(c)
  BY <1>0 DEF NotModified
<1>5. PollingOK'
  BY <1>3, <1>4, ProcessType DEF PollingOK
<1> PICK fresh : fresh = [NoEvent EXCEPT !.state = state]
  OBVIOUS
<1>6. fresh.state = state
  BY DEF NoEvent
<1>7. \A e \in Paper : event'[e] = IF e \in new THEN fresh ELSE event[e]
  BY <1>2
<1>8. BaselineSplit'
  <2>1. CASE sub.baseline
    <3>1. state = "pending" /\ firstFeed' = firstFeed
      BY <1>0, <1>2, <2>1
    <3> HIDE DEF new, state
    <3> QED BY <1>0, <1>1, <1>6, <1>7, <3>1 DEF BaselineSplit
  <2>2. CASE ~sub.baseline
    <3>1. state = "baseline" /\ firstFeed' = c.papers /\ \A e \in Paper : e \in new <=> e \in c.papers
      BY <1>0, <1>2, <1>4, <2>2
    <3> HIDE DEF new, state
    <3> QED BY <1>0, <1>6, <1>7, <2>2, <3>1 DEF BaselineSplit
  <2> QED BY <2>1, <2>2
<1>9. firstFeed' \subseteq Paper /\ state \in {"pending", "baseline"}
  BY <1>0, <1>2
<1> HIDE DEF new, state
<1> QED BY <1>1, <1>2, <1>5, <1>8, <1>9

LEMMA SavePollStep == ASSUME ProactiveIInv, NEW p \in Process, SavePoll(p) PROVE ProactiveIInv'
<1>0. /\ TypeOK /\ sub \in SubscriptionRow /\ collector \in [Process -> Collecting] /\ Preferences # {}
      /\ event \in [Paper -> EventRow]
  BY Types DEF ProactiveIInv
<1>1. Surroundings' /\ UNCHANGED <<published, run, preference, paused, clock, spent, together, woken,
                                   overtaken, faults>>
  BY <1>0, Types DEF SavePoll, Surroundings, night
<1>2. CASE ~HoldsSubscription(p)
  BY <1>1, <1>2, StopStep DEF SavePoll, night
<1>3. CASE HoldsSubscription(p)
  <2> PICK c : c = collector[p]
    OBVIOUS
  <2> PICK new \in SUBSET Paper, state \in {"pending", "baseline"} :
              /\ \A e \in new : event[e].state = "none"
              /\ event' = [e \in Paper |-> IF e \in new THEN [NoEvent EXCEPT !.state = state] ELSE event[e]]
              /\ BaselineSplit' /\ PollingOK' /\ firstFeed' \subseteq Paper
    BY <1>3, FeedSaved
  <2> PICK fresh : fresh = [NoEvent EXCEPT !.state = state]
    OBVIOUS
  <2>1. fresh \in EventRow /\ fresh.state = state /\ ~fresh.hasRun
    BY <1>0, IdleTypes DEF EventRow, EventState, Leased, Ended
  <2>2. event' \in [Paper -> EventRow] /\ \A e \in Paper : event'[e] = IF e \in new THEN fresh ELSE event[e]
    BY <1>0, <2>1
  <2>3. UNCHANGED <<dispatcher, cut>> /\ collector' = [collector EXCEPT ![p] = IdleCollector]
    BY <1>3 DEF SavePoll, night
  <2>4. sub' \in SubscriptionRow
    <3>1. c \in Collecting
      BY <1>0
    <3>2. /\ sub' = [sub EXCEPT !.baseline = (sub.baseline \/ ~NotModified(c)), !.etag = c.answer, !.due = FALSE,
                                !.holder = Nobody, !.leaseValid = FALSE]
      BY <1>3 DEF SavePoll, night
    <3>3. c.answer \in 0 .. Papers /\ (sub.baseline \/ ~NotModified(c)) \in BOOLEAN
      BY <3>1 DEF Collecting
    <3> QED BY <1>0, <3>2, <3>3 DEF SubscriptionRow
  <2>5. TypeOK'
    <3>1. collector' \in [Process -> Collecting]
      BY <1>0, <2>3, IdleTypes
    <3> QED BY <1>0, <1>1, <2>2, <2>3, <2>4, <3>1, Types, TypesAfter
  <2>6. \A q \in Process : DispatcherOK(q)'
    BY <1>1, <2>3, DispatcherStays DEF ProactiveIInv
  <2>7. ASSUME NEW e \in Paper PROVE RowOK(e)'
    <3>1. CASE e \in new
      <4>1. RowOK(e) /\ event[e].state = "none" /\ \A q \in Process : ~Holding(e, q)
        BY <3>1 DEF ProactiveIInv, Holding, HoldsEvent, DispatcherOK
      <4>2. run[e] = "none" \/ e \in cut'
        BY <2>3, <4>1, IsNotStarted DEF NotStarted, Sent
      <4> QED BY <1>1, <2>1, <2>2, <2>6, <3>1, <4>1, <4>2, RowMoves DEF Sent, Leased
    <3>2. CASE e \notin new
      BY <1>1, <2>2, <2>3, <3>2, RowStays DEF ProactiveIInv
    <3> QED BY <3>1, <3>2
  <2>8. BudgetOK'
    BY <1>0, <1>1, <2>3, BudgetStays DEF ProactiveIInv
  <2> QED BY <2>5, <2>6, <2>7, <2>8 DEF ProactiveIInv
<1> QED BY <1>2, <1>3

-------------------------------------------------------------------------------
(* Ranking and dispatch                                                       *)

LEMMA Rows ==
    ASSUME NEW row \in EventRow
    PROVE  /\ Release(row) \in EventRow /\ Release(row).state = row.state /\ ~Release(row).leaseValid
           /\ Release(row).hasRun = row.hasRun /\ Release(row).today = row.today
           /\ \A state \in EventState :
                /\ Touch(row, state) \in EventRow /\ Touch(row, state).state = state
                /\ Touch(row, state).hasRun = row.hasRun /\ Touch(row, state).holder = row.holder
                /\ Touch(row, state).leaseValid = row.leaseValid
                /\ state \in Sent => Touch(row, state).today
<1>1. /\ Release(row) \in EventRow /\ Release(row).state = row.state /\ ~Release(row).leaseValid
      /\ Release(row).hasRun = row.hasRun /\ Release(row).today = row.today
  BY DEF Release, EventRow
<1>2. ASSUME NEW state \in EventState
      PROVE  /\ Touch(row, state) \in EventRow /\ Touch(row, state).state = state
             /\ Touch(row, state).hasRun = row.hasRun /\ Touch(row, state).holder = row.holder
             /\ Touch(row, state).leaseValid = row.leaseValid
             /\ state \in Sent => Touch(row, state).today
  <2> PICK touched : touched = Touch(row, state)
    OBVIOUS
  <2>1. CASE state \in Sent
    <3>1. touched = [row EXCEPT !.state = state, !.today = TRUE]
      BY <2>1 DEF Touch
    <3> QED BY <3>1 DEF EventRow
  <2>2. CASE state \notin Sent
    <3>1. touched = [row EXCEPT !.state = state, !.today = state \in Sent]
      BY DEF Touch
    <3>2. (state \in Sent) \in BOOLEAN
      OBVIOUS
    <3> QED BY <2>2, <3>1, <3>2 DEF EventRow
  <2> QED BY <2>1, <2>2
<1> QED BY <1>1, <1>2

(* The event a dispatcher holds is leased, and not held by another.            *)
LEMMA HeldRow ==
    ASSUME ProactiveIInv, NEW p \in Process, dispatcher[p].step # "idle", HoldsEvent(p),
           NEW e, e = dispatcher[p].paper
    PROVE  /\ e \in Paper /\ event[e].state = dispatcher[p].phase /\ event[e].state \in Leased
           /\ event[e].state \notin Sent \cup {"failed", "none", "baseline"}
           /\ \A q \in Process : Holding(e, q) => q = p
BY DEF HoldsEvent, Holding, ProactiveIInv, DispatcherOK, Leased, Sent

(* A turn ends without a run to tell of.                                       *)
LEMMA FinishStep ==
    ASSUME ProactiveIInv, NEW p \in Process, dispatcher[p].step # "idle",
           NEW row \in EventRow, row.state \in {"pending", "ranked", "suppressed", "failed"}, Finish(p, row),
           UNCHANGED <<published, sub, firstFeed, run, preference, paused, clock, spent, together, woken,
                       overtaken>>,
           faults' \in 0 .. MaxFaults
    PROVE  ProactiveIInv'
<1>0. /\ TypeOK /\ Preferences # {} /\ cut \subseteq Paper /\ event \in [Paper -> EventRow]
      /\ collector \in [Process -> Collecting] /\ dispatcher \in [Process -> Dispatching]
  BY Types DEF ProactiveIInv
<1>1. Surroundings'
  BY <1>0, Types DEF Surroundings
<1>2. CASE ~HoldsEvent(p)
  BY <1>1, <1>2, StopStep DEF Finish
<1>3. CASE HoldsEvent(p)
  <2> PICK e : e = dispatcher[p].paper
    OBVIOUS
  <2> PICK released : released = Release(row)
    OBVIOUS
  <2>1. /\ e \in Paper /\ event[e].state \in Leased /\ event[e].state \notin Sent \cup {"failed", "none", "baseline"}
        /\ \A q \in Process : Holding(e, q) => q = p
    BY <1>3, HeldRow
  <2>2. released \in EventRow /\ released.state = row.state /\ ~released.leaseValid
    BY Rows
  <2>3. /\ event' = [event EXCEPT ![e] = released] /\ dispatcher' = [dispatcher EXCEPT ![p] = IdleDispatcher]
        /\ cut' = IF dispatcher[p].step = "created" THEN cut \cup {e} ELSE cut
        /\ UNCHANGED collector
    BY <1>3 DEF Finish
  <2>4. /\ event' \in [Paper -> EventRow] /\ event'[e] = released
        /\ \A f \in Paper : f # e => event'[f] = event[f]
    BY <1>0, <2>1, <2>2, <2>3
  <2>5. /\ dispatcher' \in [Process -> Dispatching] /\ dispatcher'[p] = IdleDispatcher
        /\ \A q \in Process : q # p => dispatcher'[q] = dispatcher[q]
    BY <1>0, <2>3, IdleTypes
  <2>6. TypeOK'
    BY <1>0, <1>1, <2>1, <2>3, <2>4, <2>5, Types, TypesAfter
  <2>7. BaselineSplit' /\ PollingOK'
    BY <2>1, <2>2, <2>3, <2>4, PollingStays DEF ProactiveIInv
  <2>8. \A q \in Process : DispatcherOK(q)'
    BY <1>0, <2>5, DispatcherStays, DispatcherIdle DEF ProactiveIInv
  <2>9. ASSUME NEW f \in Paper PROVE RowOK(f)'
    <3>1. CASE f = e
      <4>1. run[e] = "none" \/ e \in cut'
        <5>1. CASE dispatcher[p].step = "created"
          BY <2>3, <5>1
        <5>2. CASE dispatcher[p].step # "created"
          <6>1. \A q \in Process : ~Holding(e, q)
            BY <2>1, <5>2 DEF Holding
          <6> QED BY <2>1, <2>3, <6>1, IsNotStarted DEF ProactiveIInv, NotStarted
        <5> QED BY <5>1, <5>2
      <4> QED BY <2>1, <2>2, <2>4, <2>8, <3>1, <4>1, RowMoves DEF ProactiveIInv, Sent, Leased
    <3>2. CASE f # e
      <4>1. \A q \in Process : dispatcher'[q] = dispatcher[q]
                \/ (dispatcher[q].paper # f /\ dispatcher'[q].step # "created")
        BY <1>0, <2>5, <3>2, IdleTypes
      <4>2. cut \subseteq cut' /\ event'[f] = event[f]
        BY <2>3, <2>4, <3>2
      <4> QED BY <4>1, <4>2, RowStays DEF ProactiveIInv
    <3> QED BY <3>1, <3>2
  <2>10. BudgetOK'
    <3>1. \A q \in Process : dispatcher'[q] = dispatcher[q] \/ dispatcher'[q].phase # "dispatching"
      BY <1>0, <2>5, IdleTypes
    <3> QED BY <1>0, <2>3, <3>1, BudgetStays DEF ProactiveIInv
  <2> QED BY <2>6, <2>7, <2>8, <2>9, <2>10 DEF ProactiveIInv
<1> QED BY <1>2, <1>3

(* The row a dispatcher works on, if it works on one.                          *)
LEMMA PaperRow ==
    ASSUME ProactiveIInv, NEW p \in Process, dispatcher[p].step # "idle"
    PROVE  dispatcher[p].paper \in Paper /\ event[dispatcher[p].paper] \in EventRow
BY Types DEF ProactiveIInv, DispatcherOK

LEMMA SaveRankStep == ASSUME ProactiveIInv, NEW p \in Process, SaveRank(p) PROVE ProactiveIInv'
<1> PICK old : old = event[dispatcher[p].paper]
  OBVIOUS
<1> PICK score \in Scores : Finish(p, [Touch(old, "ranked") EXCEPT !.score = score, !.wait = 0])
  BY DEF SaveRank, night
<1> PICK touched : touched = Touch(old, "ranked")
  OBVIOUS
<1> PICK row : row = [touched EXCEPT !.score = score, !.wait = 0]
  OBVIOUS
<1>1. dispatcher[p].step # "idle"
  BY DEF SaveRank, night
<1>2. touched \in EventRow /\ touched.state = "ranked"
  <2>1. "ranked" \in EventState
    BY DEF EventState, Ended
  <2>2. old \in EventRow
    BY <1>1, PaperRow
  <2> QED BY <2>1, <2>2, Rows
<1>3. row \in EventRow /\ row.state = "ranked"
  <2>1. 0 \in 0 .. 2 * DayLength /\ score \in Scores \cup {0}
    BY CountsType
  <2> QED BY <1>2, <2>1 DEF EventRow
<1>4. Finish(p, row)
  OBVIOUS
<1>5. UNCHANGED <<published, sub, firstFeed, run, preference, paused, clock, spent, together, woken,
                  overtaken, faults>>
  BY DEF SaveRank, night
<1>6. faults' \in 0 .. MaxFaults
  BY <1>5, Types DEF ProactiveIInv
<1> QED BY <1>1, <1>3, <1>4, <1>5, <1>6, FinishStep

LEMMA RetryStep == ASSUME ProactiveIInv, NEW p \in Process, RetryEvent(p) PROVE ProactiveIInv'
<1> PICK old : old = event[dispatcher[p].paper]
  OBVIOUS
<1> PICK state \in {"pending", "ranked", "failed"} : Finish(p, Touch(old, state))
  BY DEF RetryEvent, night
<1> PICK row : row = Touch(old, state)
  OBVIOUS
<1>1. dispatcher[p].step # "idle"
  BY DEF RetryEvent, night
<1>2. row \in EventRow /\ row.state = state
  <2>1. state \in EventState
    BY DEF EventState, Ended
  <2>2. old \in EventRow
    BY <1>1, PaperRow
  <2> QED BY <2>1, <2>2, Rows
<1>3. UNCHANGED <<published, sub, firstFeed, run, preference, paused, clock, spent, together, woken,
                  overtaken>>
  BY DEF RetryEvent, night
<1>4. faults' \in 0 .. MaxFaults
  BY Types, Constants DEF ProactiveIInv, RetryEvent, Fault, night
<1> QED BY <1>1, <1>2, <1>3, <1>4, FinishStep

LEMMA SuppressStep == ASSUME ProactiveIInv, NEW p \in Process, Suppress(p) PROVE ProactiveIInv'
<1> PICK old : old = event[dispatcher[p].paper]
  OBVIOUS
<1> PICK touched : touched = Touch(old, "suppressed")
  OBVIOUS
<1> PICK row : row = [touched EXCEPT !.hasRun = FALSE]
  OBVIOUS
<1>1. dispatcher[p].step # "idle" /\ Finish(p, row)
  BY DEF Suppress, night
<1>2. touched \in EventRow /\ touched.state = "suppressed"
  <2>1. "suppressed" \in EventState
    BY DEF EventState, Ended
  <2>2. old \in EventRow
    BY <1>1, PaperRow
  <2> QED BY <2>1, <2>2, Rows
<1>3. row \in EventRow /\ row.state = "suppressed"
  BY <1>2 DEF EventRow
<1>4. UNCHANGED <<published, sub, firstFeed, run, preference, paused, clock, spent, together, woken,
                  overtaken, faults>>
  BY DEF Suppress, night
<1>5. faults' \in 0 .. MaxFaults
  BY <1>4, Types DEF ProactiveIInv
<1> QED BY <1>1, <1>3, <1>4, <1>5, FinishStep

(* A deferral is shorter than two days.                                        *)
LEMMA Waits ==
    ASSUME NEW pref \in Preferences, clock \in 0 .. DayLength - 1
    PROVE  UntilAllowed(pref, clock) \in 0 .. 2 * DayLength /\ UntilBudget(pref, clock) \in 0 .. 2 * DayLength
<1>1. DayLength \in Nat \ {0} /\ pref.start \in 0 .. DayLength - 1 /\ pref.end \in 0 .. DayLength - 1
  BY CountsType, PreferencesType
<1> QED BY <1>1 DEF UntilAllowed, UntilBudget, NotBefore

LEMMA DeferStep == ASSUME ProactiveIInv, NEW p \in Process, Defer(p) PROVE ProactiveIInv'
<1> PICK old : old = event[dispatcher[p].paper]
  OBVIOUS
<1> PICK touched : touched = Touch(old, "ranked")
  OBVIOUS
<1>0. dispatcher[p].preference \in Preferences /\ clock \in 0 .. DayLength - 1
  BY Types DEF ProactiveIInv, Dispatching
<1>1. PICK wait \in 0 .. 2 * DayLength : Finish(p, [touched EXCEPT !.wait = wait])
  <2>1. \/ Finish(p, [touched EXCEPT !.wait = UntilAllowed(dispatcher[p].preference, clock)])
        \/ Finish(p, [touched EXCEPT !.wait = UntilBudget(dispatcher[p].preference, clock)])
    BY DEF Defer, night
  <2> QED BY <1>0, <2>1, Waits
<1> PICK row : row = [touched EXCEPT !.wait = wait]
  OBVIOUS
<1>2. dispatcher[p].step # "idle"
  BY DEF Defer, night
<1>3. touched \in EventRow /\ touched.state = "ranked"
  <2>1. "ranked" \in EventState
    BY DEF EventState, Ended
  <2>2. old \in EventRow
    BY <1>2, PaperRow
  <2> QED BY <2>1, <2>2, Rows
<1>4. row \in EventRow /\ row.state = "ranked" /\ Finish(p, row)
  BY <1>1, <1>3 DEF EventRow
<1>5. UNCHANGED <<published, sub, firstFeed, run, preference, paused, clock, spent, together, woken,
                  overtaken, faults>>
  BY DEF Defer, night
<1>6. faults' \in 0 .. MaxFaults
  BY <1>5, Types DEF ProactiveIInv
<1> QED BY <1>2, <1>4, <1>5, <1>6, FinishStep

(* The event is let through on the count that was claimed, when it is not quiet. *)
LEMMA DecideStep == ASSUME ProactiveIInv, NEW p \in Process, Decide(p) PROVE ProactiveIInv'
<1> PICK d : d = dispatcher[p]
  OBVIOUS
<1> PICK decided : decided = [d EXCEPT !.step = "decided", !.now = clock]
  OBVIOUS
<1>0. /\ TypeOK /\ dispatcher \in [Process -> Dispatching] /\ clock \in 0 .. DayLength - 1 /\ d \in Dispatching
  BY Types DEF ProactiveIInv
<1>1. /\ d.step = "claimed" /\ d.phase = "dispatching" /\ ~Quiet(d.preference, clock)
      /\ d.sentToday < d.preference.budget /\ dispatcher' = [dispatcher EXCEPT ![p] = decided]
      /\ UNCHANGED <<published, sub, collector, firstFeed, event, run, preference, paused, clock, spent, together,
                     cut, woken, overtaken, faults>>
  BY DEF Decide, pollVars, night
<1>2. /\ decided \in Dispatching /\ decided.step = "decided" /\ decided.paper = d.paper /\ decided.now = clock
      /\ decided.phase = d.phase /\ decided.sentToday = d.sentToday /\ decided.preference = d.preference
  BY <1>0 DEF Dispatching
<1>3. /\ dispatcher' \in [Process -> Dispatching] /\ dispatcher'[p] = decided
      /\ \A q \in Process : q # p => dispatcher'[q] = dispatcher[q]
  BY <1>0, <1>1, <1>2
<1>4. TypeOK'
  BY <1>0, <1>1, <1>3, Types, TypesAfter
<1>5. BaselineSplit' /\ PollingOK'
  BY <1>1, PollingStays DEF ProactiveIInv
<1>6. ASSUME NEW q \in Process PROVE DispatcherOK(q)'
  <2>1. CASE q # p
    BY <1>1, <1>3, <2>1, DispatcherStays DEF ProactiveIInv
  <2>2. CASE q = p
    <3>1. d.sentToday \in 0 .. Papers /\ d.preference \in Preferences
      BY <1>0 DEF Dispatching
    <3>2. d.preference.budget \in Nat
      BY <3>1, PreferencesType
    <3>3. MostBudget \in Nat /\ d.preference.budget <= MostBudget
      BY <1>0, <3>1, MostIsBudget
    <3>4. d.sentToday < MostBudget
      BY <1>1, <3>1, <3>2, <3>3, CountsType
    <3>5. d.paper \in Paper
      BY <1>1 DEF ProactiveIInv, DispatcherOK
    <3> QED BY <1>1, <1>2, <1>3, <2>2, <3>4, <3>5 DEF DispatcherOK, MostBudget, Leased
  <2> QED BY <2>1, <2>2
<1>7. \A f \in Paper : RowOK(f)'
  <2>1. \A q \in Process : dispatcher'[q] = dispatcher[q]
            \/ (dispatcher[q].step # "created" /\ dispatcher'[q].step # "created")
    BY <1>1, <1>2, <1>3
  <2> QED BY <1>1, <2>1, RowStays DEF ProactiveIInv
<1>8. BudgetOK'
  <2>1. \A q \in Process : dispatcher'[q] = dispatcher[q]
            \/ /\ dispatcher'[q].phase = dispatcher[q].phase /\ dispatcher[q].step # "created"
               /\ dispatcher'[q].sentToday = dispatcher[q].sentToday
    BY <1>1, <1>2, <1>3
  <2> QED BY <1>0, <1>1, <2>1, BudgetStays DEF ProactiveIInv
<1> QED BY <1>4, <1>5, <1>6, <1>7, <1>8 DEF ProactiveIInv

(* The run of the event is made while the lease is good, or the dispatch is cut; *)
(* the dispatcher that makes it had counted less than the budget.                *)
LEMMA EnqueueStep == ASSUME ProactiveIInv, NEW p \in Process, EnqueueProactive(p) PROVE ProactiveIInv'
<1> PICK e : e = dispatcher[p].paper
  OBVIOUS
<1> PICK made : made = IF run[e] = "none" THEN "open" ELSE run[e]
  OBVIOUS
<1>0. /\ TypeOK /\ dispatcher \in [Process -> Dispatching] /\ cut \subseteq Paper /\ spent \subseteq Paper
      /\ woken \subseteq Paper /\ overtaken \subseteq Paper
      /\ run \in [Paper -> {"none", "open", "succeeded", "failed"}]
  BY Types DEF ProactiveIInv
<1>1. /\ e \in Paper /\ dispatcher[p].step = "decided" /\ dispatcher[p].phase = "dispatching"
      /\ dispatcher[p].sentToday < MostBudget
  BY DEF EnqueueProactive, ProactiveIInv, DispatcherOK
<1>2. run' \in [Paper -> {"none", "open", "succeeded", "failed"}] /\ run'[e] # "none"
      /\ (run[e] # "none" => run'[e] = run[e]) /\ \A f \in Paper : f # e => run'[f] = run[f]
  <2>1. run' = [run EXCEPT ![e] = made]
    BY DEF EnqueueProactive
  <2>2. made \in {"open", "succeeded", "failed"} /\ (run[e] # "none" => made = run[e])
    BY <1>0, <1>1
  <2> QED BY <1>0, <1>1, <2>1, <2>2
<1>3. /\ dispatcher' \in [Process -> Dispatching] /\ dispatcher'[p].step = "created" /\ dispatcher'[p].paper = e
      /\ dispatcher'[p].phase = "dispatching" /\ dispatcher'[p].sentToday = dispatcher[p].sentToday
      /\ \A q \in Process : q # p => dispatcher'[q] = dispatcher[q]
  <2> PICK created : created = [dispatcher[p] EXCEPT !.step = "created"]
    OBVIOUS
  <2>1. /\ created \in Dispatching /\ created.step = "created" /\ created.paper = e
        /\ created.phase = dispatcher[p].phase /\ created.sentToday = dispatcher[p].sentToday
    BY <1>0 DEF Dispatching
  <2>2. dispatcher' = [dispatcher EXCEPT ![p] = created]
    BY DEF EnqueueProactive
  <2> QED BY <1>0, <1>1, <2>1, <2>2
<1>4. /\ cut' = IF HoldsEvent(p) /\ event[e].leaseValid THEN cut ELSE cut \cup {e}
      /\ spent' = IF run[e] = "none" THEN spent \cup {e} ELSE spent
      /\ woken' \subseteq woken \cup {e} /\ overtaken' \subseteq overtaken \cup {e}
  BY DEF EnqueueProactive
<1>5. UNCHANGED <<published, sub, collector, firstFeed, event, preference, paused, clock, together, faults>>
  BY DEF EnqueueProactive, pollVars
<1>6. TypeOK'
  <2>1. cut' \subseteq Paper /\ spent' \subseteq Paper /\ woken' \subseteq Paper /\ overtaken' \subseteq Paper
    BY <1>0, <1>1, <1>4
  <2> QED BY <1>0, <1>2, <1>3, <1>5, <2>1, Types, TypesAfter
<1>7. BaselineSplit' /\ PollingOK'
  BY <1>5, PollingStays DEF ProactiveIInv
<1>8. ASSUME NEW q \in Process PROVE DispatcherOK(q)'
  <2>1. CASE q # p
    BY <1>2, <1>3, <2>1, DispatcherStays DEF ProactiveIInv
  <2>2. CASE q = p
    BY <1>1, <1>2, <1>3, <2>2 DEF DispatcherOK, MostBudget, Leased
  <2> QED BY <2>1, <2>2
<1>9. ASSUME NEW f \in Paper PROVE RowOK(f)'
  <2>1. CASE f = e
    <3>1. e \notin cut' => HoldsEvent(p) /\ event[e].leaseValid
      BY <1>4
    <3>2. HoldsEvent(p) => Holding(e, p)' /\ event[e].state = "dispatching"
      BY <1>1, <1>3, <1>5 DEF HoldsEvent, Holding
    <3>3. RowOK(e)
      BY <1>1 DEF ProactiveIInv
    <3>4. /\ event'[e].state \in Sent => run'[e] # "none" /\ event'[e].hasRun
          /\ event'[e].state \in Sent \ {"enqueued"} => run'[e] = "succeeded"
      BY <1>2, <1>5, <3>3 DEF RowOK
    <3>5. e \in spent' => /\ run'[e] # "none"
                          /\ event'[e].state \in Sent => event'[e].today
      BY <1>2, <1>4, <1>5, <3>3 DEF RowOK
    <3>6. RowOK(e)'
      BY <1>5, <3>1, <3>2, <3>4, <3>5 DEF RowOK
    <3> QED BY <2>1, <3>6
  <2>2. CASE f # e
    <3>1. \A q \in Process : dispatcher'[q] = dispatcher[q]
              \/ (dispatcher[q].step # "created" /\ dispatcher'[q].paper # f)
      BY <1>1, <1>3, <2>2
    <3>2. cut \subseteq cut' /\ run'[f] = run[f] /\ (f \in spent' => f \in spent)
      BY <1>2, <1>4, <2>2
    <3> QED BY <1>5, <3>1, <3>2, RowStays DEF ProactiveIInv
  <2> QED BY <2>1, <2>2
<1>10. BudgetOK'
  <2>1. Counted' \subseteq Counted \cup {e} /\ IsFiniteSet(Counted \cup {e}) /\ Cardinality(Counted \cup {e}) \in Nat
        /\ Cardinality(Counted \cup {e}) <= Cardinality(Counted) + 1
    <3>1. Counted' \subseteq Counted \cup {e}
      BY <1>0, <1>2, <1>4 DEF Counted
    <3>2. IsFiniteSet(Counted \cup {e})
      BY <1>0, FiniteSets, FS_AddElement
    <3>3. Cardinality(Counted \cup {e}) <= Cardinality(Counted) + 1
      <4>1. IsFiniteSet(Counted) /\ Cardinality(Counted) \in Nat
        BY <1>0, FiniteSets
      <4>2. Cardinality(Counted \cup {e}) = IF e \in Counted THEN Cardinality(Counted) ELSE Cardinality(Counted) + 1
        BY <4>1, FS_AddElement
      <4> HIDE DEF Counted
      <4> QED BY <4>1, <4>2
    <3> QED BY <3>1, <3>2, <3>3, FS_CardinalityType
  <2>2. Cardinality(Counted') \in Nat /\ Cardinality(Counted') <= Cardinality(Counted) + 1
    <3>1. IsFiniteSet(Counted') /\ Cardinality(Counted') <= Cardinality(Counted \cup {e})
      BY <2>1, FS_Subset
    <3>2. Cardinality(Counted') \in Nat
      BY <3>1, FS_CardinalityType
    <3> QED BY <1>0, <2>1, <3>1, <3>2, FiniteSets
  <2>3. Deciders' = Deciders /\ p \in Deciders
    BY <1>1, <1>3 DEF Deciders
  <2>4. Eager' = Eager \ {p} /\ p \in Eager
    <3>1. MostBudget' = MostBudget
      BY DEF MostBudget
    <3> QED BY <1>1, <1>3, <2>3, <3>1 DEF Eager, Deciders
  <2>5. Cardinality(Eager') = Cardinality(Eager) - 1
    BY <1>0, <2>4, FiniteSets, FS_RemoveElement
  <2>6. MostBudget \in Nat /\ MostBudget' = MostBudget /\ together \in Nat
    BY <1>0, MostIsBudget, Types, Constants DEF MostBudget
  <2>7. together > 0
    <3>1. Cardinality(Deciders) # 0
      BY <1>0, <2>3, FiniteSets, FS_EmptySet
    <3> QED BY <1>0, <2>6, <3>1, FiniteSets DEF ProactiveIInv, BudgetOK
  <2>8. /\ Cardinality(Deciders) <= together
        /\ Cardinality(Counted) + Cardinality(Eager) <= MostBudget + together - 1
    BY <2>4 DEF ProactiveIInv, BudgetOK
  <2>9. Cardinality(Counted') + Cardinality(Eager') <= MostBudget + together - 1
    BY <1>0, <2>2, <2>5, <2>6, <2>8, FiniteSets
  <2> QED BY <1>5, <2>3, <2>6, <2>7, <2>8, <2>9 DEF BudgetOK
<1> QED BY <1>6, <1>7, <1>8, <1>9, <1>10 DEF ProactiveIInv

(* An event that is marked as sent has its run, and is counted from now on.     *)
LEMMA MarkStep == ASSUME ProactiveIInv, NEW p \in Process, MarkEnqueued(p) PROVE ProactiveIInv'
<1> PICK e : e = dispatcher[p].paper
  OBVIOUS
<1> PICK touched : touched = Touch(event[e], "enqueued")
  OBVIOUS
<1> PICK row : row = [touched EXCEPT !.hasRun = TRUE]
  OBVIOUS
<1>0. /\ TypeOK /\ Preferences # {} /\ spent \subseteq Paper /\ event \in [Paper -> EventRow]
      /\ dispatcher \in [Process -> Dispatching]
  BY Types DEF ProactiveIInv
<1>1. /\ dispatcher[p].step = "created" /\ Finish(p, row)
      /\ UNCHANGED <<published, sub, firstFeed, run, preference, paused, clock, spent, together, woken,
                     overtaken, faults>>
  BY DEF MarkEnqueued, night
<1>2. Surroundings'
  BY <1>0, <1>1, Types DEF Surroundings
<1>3. CASE ~HoldsEvent(p)
  BY <1>1, <1>2, <1>3, StopStep DEF Finish
<1>4. CASE HoldsEvent(p)
  <2> PICK released : released = Release(row)
    OBVIOUS
  <2>1. /\ e \in Paper /\ event[e].state \in Leased /\ event[e].state \notin Sent \cup {"failed", "none", "baseline"}
        /\ \A q \in Process : Holding(e, q) => q = p
    BY <1>1, <1>4, HeldRow
  <2>2. touched \in EventRow /\ touched.state = "enqueued" /\ touched.today
    <3>1. event[e] \in EventRow /\ "enqueued" \in EventState /\ "enqueued" \in Sent
      BY <1>0, <2>1 DEF EventState, Sent
    <3> QED BY <3>1, Rows
  <2>3. row \in EventRow /\ row.state = "enqueued" /\ row.today /\ row.hasRun
    BY <2>2 DEF EventRow
  <2>4. released \in EventRow /\ released.state = "enqueued" /\ released.today /\ released.hasRun
    BY <2>3, Rows
  <2>5. /\ event' = [event EXCEPT ![e] = released] /\ dispatcher' = [dispatcher EXCEPT ![p] = IdleDispatcher]
        /\ UNCHANGED <<collector, cut>>
    BY <1>1, <1>4, <2>3 DEF Finish
  <2>6. /\ event' \in [Paper -> EventRow] /\ event'[e] = released
        /\ \A f \in Paper : f # e => event'[f] = event[f]
    BY <1>0, <2>1, <2>4, <2>5
  <2>7. /\ dispatcher' \in [Process -> Dispatching] /\ dispatcher'[p] = IdleDispatcher
        /\ \A q \in Process : q # p => dispatcher'[q] = dispatcher[q]
    BY <1>0, <2>5, IdleTypes
  <2>9. TypeOK'
    BY <1>0, <1>1, <2>5, <2>6, <2>7, Types, TypesAfter
  <2>10. BaselineSplit' /\ PollingOK'
    BY <1>1, <2>1, <2>4, <2>5, <2>6, PollingStays DEF ProactiveIInv
  <2>11. \A q \in Process : DispatcherOK(q)'
    BY <1>0, <1>1, <2>7, DispatcherStays, DispatcherIdle DEF ProactiveIInv
  <2>12. ASSUME NEW f \in Paper PROVE RowOK(f)'
    <3>1. CASE f = e
      <4>1. run'[e] # "none"
        BY <1>1 DEF ProactiveIInv, DispatcherOK
      <4>2. \A q \in Process : ~Holding(e, q)'
        BY <2>4, <2>6, <2>11 DEF Holding, HoldsEvent, DispatcherOK, Leased
      <4>3. RowOK(e)'
        BY <2>4, <2>6, <4>1, <4>2 DEF RowOK, Told, Sent
      <4> QED BY <3>1, <4>3
    <3>2. CASE f # e
      <4>1. \A q \in Process : dispatcher'[q] = dispatcher[q]
                \/ (dispatcher[q].paper # f /\ dispatcher'[q].step # "created")
        BY <1>0, <2>7, <3>2, IdleTypes
      <4>2. event'[f] = event[f]
        BY <2>6, <3>2
      <4> QED BY <1>1, <2>5, <4>1, <4>2, RowStays DEF ProactiveIInv
    <3> QED BY <3>1, <3>2
  <2>13. BudgetOK'
    <3>1. \A q \in Process : dispatcher'[q] = dispatcher[q] \/ dispatcher'[q].phase # "dispatching"
      BY <1>0, <2>7, IdleTypes
    <3> QED BY <1>0, <1>1, <2>5, <3>1, BudgetStays DEF ProactiveIInv
  <2> QED BY <2>9, <2>10, <2>11, <2>12, <2>13 DEF ProactiveIInv
<1> QED BY <1>3, <1>4

(* A run that settles is reported; a lease that is used up ends its event.     *)
SettledRow(e, row) ==
    /\ event[e].state = "enqueued" /\ row.hasRun = event[e].hasRun
    /\ \/ row.state = "delivered" /\ run[e] = "succeeded" /\ row.today
       \/ row.state = "failed" /\ run[e] = "failed"
UsedUpRow(e, row) == event[e].state \in Leased /\ ~event[e].leaseValid /\ row.state = "failed"
SweptRow(e, row) == row = event[e] \/ SettledRow(e, row) \/ UsedUpRow(e, row)

LEMMA Swept ==
    ASSUME event \in [Paper -> EventRow], NEW rows, rows = FailExhausted(Reconciled(event))
    PROVE  rows \in [Paper -> EventRow] /\ \A e \in Paper : SweptRow(e, rows[e])
<1> PICK settled : settled = Reconciled(event)
  OBVIOUS
<1>1. {"delivered", "failed"} \subseteq EventState /\ "delivered" \in Sent
  BY DEF EventState, Ended, Sent
<1>2. ASSUME NEW e \in Paper
      PROVE  settled[e] \in EventRow /\ (settled[e] = event[e] \/ SettledRow(e, settled[e]))
  <2> PICK old \in EventRow : old = event[e]
    OBVIOUS
  <2> PICK state : state = IF run[e] = "succeeded" THEN "delivered" ELSE "failed"
    OBVIOUS
  <2>1. settled[e] = IF old.state = "enqueued" /\ run[e] \in {"succeeded", "failed"} THEN Touch(old, state) ELSE old
    BY DEF Reconciled
  <2>2. CASE old.state = "enqueued" /\ run[e] \in {"succeeded", "failed"}
    <3> PICK touched : touched = Touch(old, state)
      OBVIOUS
    <3>1. touched \in EventRow /\ touched.state = state /\ touched.hasRun = old.hasRun /\ (state \in Sent => touched.today)
      <4>1. state \in EventState
        BY <1>1
      <4>2. \A to \in EventState :
              /\ Touch(old, to) \in EventRow /\ Touch(old, to).state = to /\ Touch(old, to).hasRun = old.hasRun
              /\ to \in Sent => Touch(old, to).today
        BY Rows, SMTT(30)
      <4> QED BY <4>1, <4>2, Zenon
    <3> QED BY <1>1, <2>1, <2>2, <3>1 DEF SettledRow
  <2>3. CASE ~(old.state = "enqueued" /\ run[e] \in {"succeeded", "failed"})
    BY <2>1, <2>3
  <2> QED BY <2>2, <2>3
<1>3. ASSUME NEW e \in Paper
      PROVE  rows[e] \in EventRow /\ SweptRow(e, rows[e])
  <2> PICK old \in EventRow : old = settled[e]
    BY <1>2
  <2>1. rows[e] = IF UsedUp(old) /\ ~old.leaseValid THEN Touch(Release(old), "failed") ELSE old
    BY DEF FailExhausted
  <2>2. CASE UsedUp(old) /\ ~old.leaseValid
    <3> PICK released : released = Release(old)
      OBVIOUS
    <3> PICK touched : touched = Touch(released, "failed")
      OBVIOUS
    <3>1. released \in EventRow
      BY Rows
    <3>2. touched \in EventRow /\ touched.state = "failed"
      <4>1. "failed" \in EventState
        BY <1>1
      <4>2. \A to \in EventState : Touch(released, to) \in EventRow /\ Touch(released, to).state = to
        BY <3>1, Rows, SMTT(30)
      <4> QED BY <4>1, <4>2, Zenon
    <3>3. old = event[e] /\ old.state \in Leased
      BY <1>2, <2>2 DEF UsedUp, Leased, SettledRow
    <3> QED BY <2>1, <2>2, <3>2, <3>3 DEF SweptRow, UsedUpRow
  <2>3. CASE ~(UsedUp(old) /\ ~old.leaseValid)
    BY <1>2, <2>1, <2>3 DEF SweptRow
  <2> QED BY <2>2, <2>3
<1>4. rows = [e \in Paper |-> rows[e]]
  BY DEF FailExhausted
<1> QED BY <1>3, <1>4

LEMMA RowSwept ==
    ASSUME ProactiveIInv, NEW e \in Paper, SweptRow(e, event'[e]), UNCHANGED <<run, spent, cut, woken,
                                                                               overtaken>>,
           NEW p \in Process, dispatcher[p].step = "idle", dispatcher'[p].step # "created",
           \A q \in Process : q # p => dispatcher'[q] = dispatcher[q],
           \A q \in Process : DispatcherOK(q)'
    PROVE  RowOK(e)'
<1>0. RowOK(e)
  BY DEF ProactiveIInv
<1>1. CASE event'[e] = event[e]
  <2>1. \A q \in Process : dispatcher'[q] = dispatcher[q]
            \/ (dispatcher[q].step # "created" /\ dispatcher'[q].step # "created")
    OBVIOUS
  <2> QED BY <1>0, <1>1, <2>1, RowStays
<1>2. CASE SettledRow(e, event'[e])
  <2>1. \A q \in Process : ~Holding(e, q)'
    BY <1>2 DEF SettledRow, Holding, HoldsEvent, DispatcherOK, Leased
  <2>2. event[e].hasRun /\ event[e].state = "enqueued"
    BY <1>0, <1>2 DEF SettledRow, RowOK, Sent
  <2> QED BY <1>0, <1>2, <2>1, <2>2 DEF SettledRow, RowOK, Told, Sent
<1>3. CASE UsedUpRow(e, event'[e])
  <2>1. event[e].state \notin Sent \cup {"failed"}
    BY <1>3 DEF UsedUpRow, Leased, Sent
  <2>2. run[e] = "none" \/ e \in cut
    BY <1>0, <1>3, <2>1, IsNotStarted DEF UsedUpRow, NotStarted
  <2> QED BY <1>0, <1>3, <2>1, <2>2, RowMoves DEF UsedUpRow, Leased, Sent
<1> QED BY <1>1, <1>2, <1>3 DEF SweptRow

(* The row that is claimed is waiting for a decision, or its lease has passed. *)
LEMMA ClaimedRow ==
    ASSUME NEW row \in EventRow, NEW p \in Process, CanDispatch(row) \/ CanRank(row),
           NEW claimed, claimed = Claimed(row, p)
    PROVE  /\ claimed \in EventRow /\ claimed.state \in Leased /\ claimed.leaseValid
           /\ row.state \notin Sent \cup {"failed", "none", "baseline"}
           /\ row.leaseValid => row.state \notin Leased
<1>1. row.state \in {"pending", "ranked"} \cup Leased /\ (row.leaseValid => row.state \in {"pending", "ranked"})
  BY DEF CanDispatch, CanRank, Leased
<1>2. /\ MaxAttempts \in Nat /\ row.dispatchAttempts \in 0 .. MaxAttempts /\ row.rankAttempts \in 0 .. MaxAttempts
      /\ Leased \subseteq EventState
  BY CountsType DEF EventRow, EventState
<1>3. CASE CanDispatch(row)
  <2> PICK n : n = row.dispatchAttempts + 1
    OBVIOUS
  <2>1. claimed = [row EXCEPT !.state = "dispatching", !.dispatchAttempts = n, !.holder = p, !.leaseValid = TRUE]
    BY <1>3 DEF Claimed
  <2>2. n \in 0 .. MaxAttempts
    BY <1>2, <1>3 DEF CanDispatch
  <2>3. claimed \in EventRow /\ claimed.state = "dispatching" /\ claimed.leaseValid
    BY <1>2, <2>1, <2>2 DEF EventRow, Leased
  <2> QED BY <1>1, <2>3 DEF Leased, Sent
<1>4. CASE CanRank(row) /\ ~CanDispatch(row)
  <2> PICK n : n = row.rankAttempts + 1
    OBVIOUS
  <2>1. claimed = [row EXCEPT !.state = "ranking", !.rankAttempts = n, !.holder = p, !.leaseValid = TRUE]
    BY <1>4 DEF Claimed
  <2>2. n \in 0 .. MaxAttempts
    BY <1>2, <1>4 DEF CanRank
  <2>3. claimed \in EventRow /\ claimed.state = "ranking" /\ claimed.leaseValid
    BY <1>2, <2>1, <2>2 DEF EventRow, Leased
  <2> QED BY <1>1, <2>3 DEF Leased, Sent
<1> QED BY <1>3, <1>4

LEMMA CandidateRow ==
    ASSUME NEW rows, NEW e \in Candidates(rows)
    PROVE  e \in Paper /\ (CanDispatch(rows[e]) \/ CanRank(rows[e]))
<1> DEFINE available == {f \in Paper : rows[f].wait = 0}
           ranked == {f \in available : CanDispatch(rows[f])}
<1>1. e \in IF paused THEN {} ELSE IF ranked # {} THEN ranked ELSE {f \in available : CanRank(rows[f])}
  BY DEF Candidates
<1> QED BY <1>1

(* What was made today, was not cut and has not failed is in the count that is  *)
(* read, or in the hands of the dispatcher that made it.                        *)
LEMMA CountRead ==
    ASSUME ProactiveIInv, NEW rows, rows \in [Paper -> EventRow], \A e \in Paper : SweptRow(e, rows[e])
    PROVE  /\ SentToday(rows) \in 0 .. Papers
           /\ Cardinality(Counted) <= SentToday(rows) + Cardinality(Makers)
<1> PICK sent : sent = {e \in Paper : rows[e].state \in Sent /\ rows[e].today}
  OBVIOUS
<1>0. TypeOK /\ IsFiniteSet(Counted) /\ IsFiniteSet(Makers) /\ Cardinality(Makers) \in Nat
  BY FiniteSets DEF ProactiveIInv
<1>1. /\ IsFiniteSet(sent) /\ Cardinality(sent) <= Papers /\ Cardinality(sent) \in Nat
      /\ SentToday(rows) = Cardinality(sent)
  <2>1. IsFiniteSet(sent) /\ Cardinality(sent) <= Papers
    BY Constants, FS_Subset
  <2> QED BY <2>1, FS_CardinalityType DEF SentToday
<1>2. SentToday(rows) \in 0 .. Papers
  BY <1>1, CountsType
<1> DEFINE held == Counted \ sent
<1>3. ASSUME NEW e \in held PROVE \E p \in Makers : dispatcher[p].paper = e
  <2>1. e \in Paper /\ RowOK(e) /\ SweptRow(e, rows[e]) /\ e \in spent /\ e \notin cut /\ run[e] # "failed"
    BY <1>0, Types DEF ProactiveIInv, Counted
  <2>2. Told(e) \/ \E p \in Process : Holding(e, p)
    BY <2>1 DEF RowOK
  <2>3. ~Told(e)
    <3> SUFFICES ASSUME Told(e) PROVE FALSE
      OBVIOUS
    <3>1. event[e].state \in Sent /\ event[e].today
      BY <2>1 DEF Told, RowOK
    <3>2. rows[e].state \in Sent /\ rows[e].today
      BY <2>1, <3>1 DEF SweptRow, SettledRow, UsedUpRow, Sent, Leased
    <3> QED BY <2>1, <3>2
  <2>4. PICK p \in Process : Holding(e, p)
    BY <2>2, <2>3
  <2>5. p \in Makers /\ dispatcher[p].paper = e
    BY <2>4 DEF Holding, Makers, Deciders, ProactiveIInv, DispatcherOK
  <2> QED BY <2>5
<1>4. IsFiniteSet(held) /\ Cardinality(held) \in Nat /\ Cardinality(held) <= Cardinality(Makers)
  <2> DEFINE maker == [e \in held |-> CHOOSE p \in Makers : dispatcher[p].paper = e]
  <2>1. \A e \in held : maker[e] \in Makers /\ dispatcher[maker[e]].paper = e
    BY <1>3
  <2>2. maker \in Injection(held, Makers)
    <3> HIDE DEF held
    <3> QED BY <2>1 DEF Injection, IsInjective
  <2>3. IsFiniteSet(held) /\ Cardinality(held) <= Cardinality(Makers)
    <3> HIDE DEF held, maker
    <3> QED BY <1>0, <2>2, FS_Injection
  <2> QED BY <2>3, FS_CardinalityType
<1>5. Cardinality(Counted) <= Cardinality(sent) + Cardinality(held)
  <2>1. Counted \subseteq sent \cup held
    OBVIOUS
  <2>2. /\ IsFiniteSet(sent \cup held)
        /\ Cardinality(sent \cup held) = Cardinality(sent) + Cardinality(held) - Cardinality(sent \cap held)
    BY <1>1, <1>4, FS_Union
  <2>3. sent \cap held = {}
    OBVIOUS
  <2>4. Cardinality(Counted) <= Cardinality(sent \cup held)
    <3> HIDE DEF held
    <3> QED BY <2>1, <2>2, FS_Subset
  <2>5. Cardinality(sent \cap held) = 0
    BY <2>3, Empty
  <2> HIDE DEF held
  <2> QED BY <1>1, <1>4, <2>2, <2>4, <2>5
<1>6. Cardinality(Counted) \in Nat
  BY <1>0, FS_CardinalityType
<1> HIDE DEF held
<1> QED BY <1>0, <1>1, <1>2, <1>4, <1>5, <1>6

(* A claim for a decision adds a dispatcher to those that decide, which is      *)
(* eager only if the count that it read leaves room.                            *)
LEMMA ClaimStep == ASSUME ProactiveIInv, NEW p \in Process, ClaimEvent(p) PROVE ProactiveIInv'
<1> PICK rows : rows = FailExhausted(Reconciled(event))
  OBVIOUS
<1>0. /\ TypeOK /\ event \in [Paper -> EventRow] /\ dispatcher \in [Process -> Dispatching]
      /\ spent \subseteq Paper /\ together \in 0 .. Cardinality(Process) /\ Cardinality(Process) \in Nat
      /\ preference \in Preferences
  BY Types, Constants DEF ProactiveIInv
<1>1. rows \in [Paper -> EventRow] /\ \A e \in Paper : SweptRow(e, rows[e])
  BY <1>0, Swept
<1>2. /\ dispatcher[p].step = "idle" /\ dispatcher[p].phase = "none"
      /\ UNCHANGED <<published, sub, collector, firstFeed, run, preference, paused, clock, spent, cut,
                     woken, overtaken, faults>>
  BY DEF ClaimEvent, pollVars, ProactiveIInv, DispatcherOK, night
<1> PICK n : n = SentToday(rows)
  OBVIOUS
<1>3. n \in 0 .. Papers
  BY <1>1, CountRead
<1>4. \/ event' = rows /\ UNCHANGED dispatcher
      \/ \E e \in Candidates(rows) : \E row, claim :
            /\ row = Claimed(rows[e], p) /\ event' = [rows EXCEPT ![e] = row]
            /\ claim = [step |-> "claimed", paper |-> e, phase |-> row.state, score |-> row.score,
                        attempts |-> IF row.state = "ranking" THEN row.rankAttempts ELSE row.dispatchAttempts,
                        preference |-> preference, sentToday |-> n, now |-> 0]
            /\ dispatcher' = [dispatcher EXCEPT ![p] = claim]
  <2>1. CASE Candidates(rows) = {}
    BY <2>1 DEF ClaimEvent, night
  <2>2. CASE Candidates(rows) # {}
    <3> PICK e \in Candidates(rows) : LET row == Claimed(rows[e], p) IN
            /\ event' = [rows EXCEPT ![e] = row]
            /\ dispatcher' = [dispatcher EXCEPT ![p] =
                  [step |-> "claimed", paper |-> e, phase |-> row.state, score |-> row.score,
                   attempts |-> IF row.state = "ranking" THEN row.rankAttempts ELSE row.dispatchAttempts,
                   preference |-> preference, sentToday |-> n, now |-> 0]]
      BY <2>2 DEF ClaimEvent, night
    <3> PICK row : row = Claimed(rows[e], p)
      OBVIOUS
    <3> PICK claim : claim =
            [step |-> "claimed", paper |-> e, phase |-> row.state, score |-> row.score,
             attempts |-> IF row.state = "ranking" THEN row.rankAttempts ELSE row.dispatchAttempts,
             preference |-> preference, sentToday |-> n, now |-> 0]
      OBVIOUS
    <3> QED OBVIOUS
  <2> QED BY <2>1, <2>2
<1>5. together' = IF Deciding(dispatcher') > together THEN Deciding(dispatcher') ELSE together
  BY DEF ClaimEvent, night
<1>6. CASE event' = rows /\ UNCHANGED dispatcher
  <2>1. UNCHANGED together
    <3>1. Deciding(dispatcher) = Cardinality(Deciders) /\ Cardinality(Deciders) <= together /\ Cardinality(Deciders) \in Nat
      BY <1>0, FiniteSets DEF ProactiveIInv, BudgetOK
    <3> QED BY <1>0, <1>5, <1>6, <3>1
  <2>2. TypeOK'
    BY <1>0, <1>1, <1>2, <1>6, <2>1, Types, TypesAfter
  <2>3. \A e \in Paper : /\ event'[e].state = "none" <=> event[e].state = "none"
                         /\ event'[e].state = "baseline" <=> event[e].state = "baseline"
    BY <1>1, <1>6 DEF SweptRow, SettledRow, UsedUpRow, Leased
  <2>4. BaselineSplit' /\ PollingOK'
    BY <1>2, <2>3, PollingStays DEF ProactiveIInv
  <2>5. \A q \in Process : DispatcherOK(q)'
    BY <1>2, <1>6, DispatcherStays DEF ProactiveIInv
  <2>6. \A e \in Paper : RowOK(e)'
    BY <1>1, <1>2, <1>6, <2>5, RowSwept
  <2>7. BudgetOK'
    BY <1>0, <1>2, <1>6, <2>1, BudgetStays DEF ProactiveIInv
  <2> QED BY <2>2, <2>4, <2>5, <2>6, <2>7 DEF ProactiveIInv
<1>7. ASSUME NEW e \in Candidates(rows), NEW row, NEW claim,
             row = Claimed(rows[e], p), event' = [rows EXCEPT ![e] = row],
             claim = [step |-> "claimed", paper |-> e, phase |-> row.state, score |-> row.score,
                      attempts |-> IF row.state = "ranking" THEN row.rankAttempts ELSE row.dispatchAttempts,
                      preference |-> preference, sentToday |-> n, now |-> 0],
             dispatcher' = [dispatcher EXCEPT ![p] = claim]
      PROVE  ProactiveIInv'
  <2>1. e \in Paper /\ (CanDispatch(rows[e]) \/ CanRank(rows[e])) /\ rows[e] \in EventRow
    BY <1>1, CandidateRow
  <2>2. /\ row \in EventRow /\ row.state \in Leased /\ row.leaseValid
        /\ rows[e].state \notin Sent \cup {"failed", "none", "baseline"}
        /\ rows[e].leaseValid => rows[e].state \notin Leased
    BY <1>7, <2>1, ClaimedRow
  <2>3. rows[e] = event[e]
    BY <1>1, <2>1, <2>2 DEF SweptRow, SettledRow, UsedUpRow, Sent
  <2>4. claim \in Dispatching /\ claim.step = "claimed" /\ claim.paper = e /\ claim.phase = row.state /\ claim.sentToday = n
    <3>1. 0 \in 0 .. DayLength - 1
      BY CountsType
    <3> QED BY <1>0, <1>3, <1>7, <2>1, <2>2, <3>1 DEF Dispatching, EventRow
  <2>5. /\ event' \in [Paper -> EventRow] /\ event'[e] = row
        /\ \A f \in Paper : f # e => event'[f] = rows[f]
    BY <1>1, <1>7, <2>1, <2>2
  <2>6. /\ dispatcher' \in [Process -> Dispatching] /\ dispatcher'[p] = claim
        /\ \A q \in Process : q # p => dispatcher'[q] = dispatcher[q]
    BY <1>0, <1>7, <2>4
  <2>7. Deciding(dispatcher') = Cardinality(Deciders') /\ Deciders' \subseteq Process
    BY DEF Deciding, Deciders
  <2>8. /\ IsFiniteSet(Deciders') /\ Cardinality(Deciders') \in Nat /\ Cardinality(Deciders') <= Cardinality(Process)
    <3>1. IsFiniteSet(Deciders') /\ Cardinality(Deciders') <= Cardinality(Process)
      BY <2>7, Constants, FS_Subset
    <3> QED BY <3>1, FS_CardinalityType
  <2>9. together' \in 0 .. Cardinality(Process) /\ together <= together' /\ Cardinality(Deciders') <= together'
    BY <1>0, <1>5, <2>7, <2>8
  <2>10. TypeOK'
    BY <1>0, <1>2, <2>5, <2>6, <2>9, Types, TypesAfter
  <2>11. \A f \in Paper : /\ event'[f].state = "none" <=> event[f].state = "none"
                          /\ event'[f].state = "baseline" <=> event[f].state = "baseline"
    BY <1>1, <2>2, <2>3, <2>5 DEF SweptRow, SettledRow, UsedUpRow, Leased
  <2>12. BaselineSplit' /\ PollingOK'
    BY <1>2, <2>11, PollingStays DEF ProactiveIInv
  <2>13. ASSUME NEW q \in Process PROVE DispatcherOK(q)'
    <3>1. CASE q # p
      BY <1>2, <2>6, <3>1, DispatcherStays DEF ProactiveIInv
    <3>2. CASE q = p
      BY <2>1, <2>2, <2>4, <2>6, <3>2 DEF DispatcherOK
    <3> QED BY <3>1, <3>2
  <2>14. ASSUME NEW f \in Paper PROVE RowOK(f)'
    <3>1. CASE f # e
      BY <1>1, <1>2, <2>4, <2>5, <2>6, <2>13, <3>1, RowSwept
    <3>2. CASE f = e
      <4>1. RowOK(e) /\ (~event[e].leaseValid \/ \A q \in Process : ~Holding(e, q))
        BY <2>1, <2>2, <2>3 DEF ProactiveIInv, Holding, HoldsEvent, DispatcherOK
      <4>2. run[e] = "none" \/ e \in cut
        BY <2>1, <2>2, <2>3, <4>1, IsNotStarted DEF NotStarted
      <4>3. event'[e].state \notin Sent /\ event'[e].leaseValid
        BY <2>2, <2>5 DEF Leased, Sent
      <4> QED BY <1>2, <2>1, <2>2, <2>3, <2>13, <3>2, <4>1, <4>2, <4>3, RowMoves
    <3> QED BY <3>1, <3>2
  <2>15. BudgetOK'
    <3>1. Counted' = Counted /\ Makers' = Makers
      <4>1. Counted' = Counted
        BY <1>2 DEF Counted
      <4>2. Makers' = Makers
        BY <1>2, <2>4, <2>6 DEF Makers, Deciders
      <4> QED BY <4>1, <4>2
    <3>2. MostBudget \in Nat /\ MostBudget' = MostBudget
      BY <1>0, MostIsBudget DEF MostBudget
    <3>3. Eager' \subseteq Deciders' /\ Makers' \subseteq Deciders' /\ Eager' \cap Makers' = {}
      BY DEF Eager, Makers
    <3>4. IsFiniteSet(Eager') /\ IsFiniteSet(Makers') /\ Cardinality(Eager') \in Nat /\ Cardinality(Makers') \in Nat
      BY <2>8, <3>3, FS_Subset, FS_CardinalityType
    <3>5. CASE p \in Eager'
      <4>1. n < MostBudget
        BY <2>4, <2>6, <3>2, <3>5 DEF Eager
      <4>2. Cardinality(Counted) <= n + Cardinality(Makers')
        BY <1>1, <3>1, CountRead
      <4>3. Cardinality(Eager') + Cardinality(Makers') <= Cardinality(Deciders')
        <5>1. Cardinality(Eager' \cup Makers') = Cardinality(Eager') + Cardinality(Makers')
          BY <3>3, <3>4, FS_Union, Empty
        <5>2. Eager' \cup Makers' \subseteq Deciders'
          BY <3>3
        <5>3. Cardinality(Eager' \cup Makers') <= Cardinality(Deciders')
          BY <2>8, <5>2, FS_Subset
        <5> QED BY <5>1, <5>3
      <4>4. Cardinality(Counted') + Cardinality(Eager') <= MostBudget + together' - 1
        BY <1>0, <1>3, <2>8, <2>9, <3>1, <3>2, <3>4, <4>1, <4>2, <4>3, FiniteSets, CountsType
      <4>5. spent' # {} => together' > 0
        BY <1>0, <1>2, <2>9, FiniteSets DEF ProactiveIInv, BudgetOK
      <4> QED BY <2>9, <3>2, <4>4, <4>5 DEF BudgetOK
    <3>6. CASE p \notin Eager'
      <4>1. Eager' \subseteq Eager
        BY <2>6, <3>2, <3>6 DEF Eager, Deciders
      <4>2. Cardinality(Eager') <= Cardinality(Eager)
        BY <1>0, <4>1, FiniteSets, FS_Subset
      <4>3. Counted' # {} \/ Eager' # {} => Cardinality(Counted) + Cardinality(Eager) <= MostBudget + together - 1
        BY <3>1, <4>1 DEF ProactiveIInv, BudgetOK
      <4>4. Counted' # {} \/ Eager' # {} => Cardinality(Counted') + Cardinality(Eager') <= MostBudget + together' - 1
        BY <1>0, <2>9, <3>1, <3>2, <3>4, <4>2, <4>3, FiniteSets
      <4>5. spent' # {} => together' > 0
        BY <1>0, <1>2, <2>9, FiniteSets DEF ProactiveIInv, BudgetOK
      <4> QED BY <2>9, <3>2, <4>4, <4>5 DEF BudgetOK
    <3> QED BY <3>5, <3>6
  <2> QED BY <2>10, <2>12, <2>13, <2>14, <2>15 DEF ProactiveIInv
<1> QED BY <1>4, <1>6, <1>7

-------------------------------------------------------------------------------
(* Leases, runs and days                                                      *)

(* A lease that passes under a dispatcher cuts the dispatch whose run is made.  *)
LEMMA ExpireEventStep == ASSUME ProactiveIInv, NEW e \in Paper, ExpireEvent(e) PROVE ProactiveIInv'
<1>0. TypeOK /\ event \in [Paper -> EventRow] /\ cut \subseteq Paper /\ faults \in 0 .. MaxFaults
  BY Types DEF ProactiveIInv
<1> PICK row : row = [event[e] EXCEPT !.leaseValid = FALSE]
  OBVIOUS
<1>1. /\ row \in EventRow /\ row.state = event[e].state /\ row.hasRun = event[e].hasRun
      /\ row.holder = event[e].holder /\ row.today = event[e].today
  BY <1>0 DEF EventRow
<1>2. /\ event' = [event EXCEPT ![e] = row] /\ event[e].leaseValid
      /\ UNCHANGED <<published, sub, collector, firstFeed, dispatcher, run, preference, paused, clock,
                     spent, together, woken, overtaken>>
  BY DEF ExpireEvent, pollVars, night
<1>3. /\ event' \in [Paper -> EventRow] /\ event'[e] = row
      /\ \A f \in Paper : f # e => event'[f] = event[f]
  BY <1>0, <1>1, <1>2
<1>4. /\ cut \subseteq cut' /\ cut' \subseteq cut \cup {e} /\ faults' \in 0 .. MaxFaults
      /\ \A q \in Process : Holding(e, q) => e \in cut'
  <2>1. faults' \in 0 .. MaxFaults
    BY <1>0, Constants DEF ExpireEvent, Fault, night
  <2>2. cut \subseteq cut' /\ cut' \subseteq cut \cup {e}
    BY DEF ExpireEvent, night
  <2>3. ASSUME NEW q \in Process, Holding(e, q) PROVE e \in cut'
    <3>1. event[e].holder = q /\ dispatcher[q].paper = e /\ dispatcher[q].step = "created"
      BY <2>3 DEF Holding, HoldsEvent
    <3> QED BY <3>1 DEF ExpireEvent, night
  <2> QED BY <2>1, <2>2, <2>3
<1>5. TypeOK'
  BY <1>0, <1>2, <1>3, <1>4, Types, TypesAfter
<1>6. BaselineSplit' /\ PollingOK'
  BY <1>1, <1>2, <1>3, PollingStays DEF ProactiveIInv
<1>7. \A q \in Process : DispatcherOK(q)'
  BY <1>2, DispatcherStays DEF ProactiveIInv
<1>8. ASSUME NEW f \in Paper PROVE RowOK(f)'
  <2>1. CASE f # e
    <3>1. event'[f] = event[f]
      BY <1>3, <2>1
    <3> QED BY <1>2, <1>4, <3>1, RowStays DEF ProactiveIInv
  <2>2. CASE f = e
    <3>1. RowOK(e)
      BY DEF ProactiveIInv
    <3>2. \A q \in Process : Holding(e, q)' <=> Holding(e, q)
      BY <1>1, <1>2, <1>3 DEF Holding, HoldsEvent
    <3>3. Told(e)' <=> Told(e)
      BY <1>1, <1>3 DEF Told
    <3> QED BY <1>1, <1>2, <1>3, <1>4, <2>2, <3>1, <3>2, <3>3 DEF RowOK
  <2> QED BY <2>1, <2>2
<1>9. BudgetOK'
  BY <1>0, <1>2, <1>4, BudgetStays DEF ProactiveIInv
<1> QED BY <1>5, <1>6, <1>7, <1>8, <1>9 DEF ProactiveIInv

LEMMA AcknowledgeStep == ASSUME ProactiveIInv, NEW e \in Paper, Acknowledge(e) PROVE ProactiveIInv'
<1>0. TypeOK /\ event \in [Paper -> EventRow]
  BY Types DEF ProactiveIInv
<1> PICK row : row = Touch(event[e], "acknowledged")
  OBVIOUS
<1>1. row \in EventRow /\ row.state = "acknowledged" /\ row.hasRun = event[e].hasRun /\ row.today
  <2>1. "acknowledged" \in EventState /\ "acknowledged" \in Sent
    BY DEF EventState, Ended, Sent
  <2>2. event[e] \in EventRow
    BY <1>0
  <2> QED BY <2>1, <2>2, Rows
<1>2. /\ event' = [event EXCEPT ![e] = row] /\ event[e].state = "delivered"
      /\ UNCHANGED <<published, sub, collector, firstFeed, dispatcher, run, preference, paused, clock,
                     spent, together, cut, woken, overtaken, faults>>
  BY DEF Acknowledge, pollVars, night
<1>3. /\ event' \in [Paper -> EventRow] /\ event'[e] = row
      /\ \A f \in Paper : f # e => event'[f] = event[f]
  BY <1>0, <1>1, <1>2
<1>4. TypeOK'
  BY <1>0, <1>2, <1>3, Types, TypesAfter
<1>5. BaselineSplit' /\ PollingOK'
  BY <1>1, <1>2, <1>3, PollingStays DEF ProactiveIInv
<1>6. \A q \in Process : DispatcherOK(q)'
  BY <1>2, DispatcherStays DEF ProactiveIInv
<1>7. ASSUME NEW f \in Paper PROVE RowOK(f)'
  <2>1. CASE f # e
    <3>1. event'[f] = event[f]
      BY <1>3, <2>1
    <3> QED BY <1>2, <3>1, RowStays DEF ProactiveIInv
  <2>2. CASE f = e
    <3>1. RowOK(e) /\ run[e] = "succeeded" /\ event[e].hasRun
      BY <1>2 DEF ProactiveIInv, RowOK, Sent
    <3>2. \A q \in Process : ~Holding(e, q)'
      BY <1>1, <1>3, <1>6 DEF Holding, HoldsEvent, DispatcherOK, Leased
    <3> QED BY <1>1, <1>2, <1>3, <2>2, <3>1, <3>2 DEF RowOK, Told, Sent
  <2> QED BY <2>1, <2>2
<1>8. BudgetOK'
  BY <1>0, <1>2, BudgetStays DEF ProactiveIInv
<1> QED BY <1>4, <1>5, <1>6, <1>7, <1>8 DEF ProactiveIInv

LEMMA SettleRunStep == ASSUME ProactiveIInv, NEW e \in Paper, SettleRun(e) PROVE ProactiveIInv'
<1>0. TypeOK /\ run \in [Paper -> {"none", "open", "succeeded", "failed"}]
  BY Types DEF ProactiveIInv
<1>1. PICK outcome \in {"succeeded", "failed"} : run' = [run EXCEPT ![e] = outcome]
  BY DEF SettleRun, night
<1>2. /\ run[e] = "open"
      /\ UNCHANGED <<published, sub, collector, firstFeed, event, dispatcher, preference, paused, clock,
                     spent, together, cut, woken, overtaken, faults>>
  BY DEF SettleRun, pollVars, night
<1>3. /\ run' \in [Paper -> {"none", "open", "succeeded", "failed"}] /\ run'[e] = outcome
      /\ \A f \in Paper : f # e => run'[f] = run[f]
  BY <1>0, <1>1
<1>4. TypeOK'
  BY <1>2, <1>3, <1>0, Types, TypesAfter
<1>5. BaselineSplit' /\ PollingOK'
  BY <1>2, PollingStays DEF ProactiveIInv
<1>6. \A q \in Process : DispatcherOK(q)'
  <2>1. \A f \in Paper : run[f] # "none" => run'[f] # "none"
    BY <1>3
  <2> QED BY <1>2, <2>1, DispatcherStays DEF ProactiveIInv
<1>7. ASSUME NEW f \in Paper PROVE RowOK(f)'
  <2>1. CASE f # e
    <3>1. run'[f] = run[f]
      BY <1>3, <2>1
    <3> QED BY <1>2, <3>1, RowStays DEF ProactiveIInv
  <2>2. CASE f = e
    <3>1. RowOK(e)
      BY DEF ProactiveIInv
    <3>2. \A q \in Process : Holding(e, q)' <=> Holding(e, q)
      BY <1>2 DEF Holding, HoldsEvent
    <3> QED BY <1>2, <1>3, <2>2, <3>1, <3>2 DEF RowOK, Told
  <2> QED BY <2>1, <2>2
<1>8. BudgetOK'
  <2>1. \A f \in Paper : run[f] = "failed" => run'[f] = "failed"
    BY <1>2, <1>3
  <2> QED BY <1>0, <1>2, <2>1, BudgetStays DEF ProactiveIInv
<1> QED BY <1>4, <1>5, <1>6, <1>7, <1>8 DEF ProactiveIInv

(* At midnight the count starts again; who counted before may still send.      *)
LEMMA TickStep == ASSUME ProactiveIInv, Tick PROVE ProactiveIInv'
<1>0. /\ TypeOK /\ event \in [Paper -> EventRow] /\ clock \in 0 .. DayLength - 1 /\ DayLength \in Nat \ {0}
      /\ spent \subseteq Paper /\ together \in 0 .. Cardinality(Process) /\ Cardinality(Process) \in Nat
  BY Types, Constants DEF ProactiveIInv
<1>1. UNCHANGED <<published, sub, collector, firstFeed, dispatcher, run, preference, paused, cut,
                  woken, overtaken, faults>>
  BY DEF Tick, pollVars, night
<1>2. clock' \in 0 .. DayLength - 1
  <2> PICK x : x = clock + 1
    OBVIOUS
  <2>1. x \in Nat /\ x <= DayLength /\ x < 2 * DayLength
    BY <1>0
  <2>2. /\ x < DayLength => x % DayLength = x
        /\ DayLength <= x => x % DayLength = x - DayLength
    BY <1>0, <2>1, Modulo
  <2>3. clock' = x % DayLength
    BY DEF Tick, night
  <2> QED BY <1>0, <2>1, <2>2, <2>3
<1>3. ASSUME NEW e \in Paper
      PROVE  /\ event'[e] \in EventRow /\ event'[e].state = event[e].state /\ event'[e].hasRun = event[e].hasRun
             /\ event'[e].holder = event[e].holder /\ event'[e].leaseValid = event[e].leaseValid
             /\ clock' # 0 => event'[e].today = event[e].today
  <2> PICK old \in EventRow : old = event[e]
    BY <1>0
  <2> PICK wait : wait = NotBefore(old.wait - 1)
    OBVIOUS
  <2>1. wait \in 0 .. 2 * DayLength
    BY <1>0 DEF NotBefore, EventRow
  <2>2. old.today \in BOOLEAN
    BY DEF EventRow
  <2>3. event'[e] = [old EXCEPT !.wait = wait, !.today = @ /\ clock' # 0]
    BY DEF Tick, night
  <2>4. CASE clock' # 0
    <3>1. event'[e] = [old EXCEPT !.wait = wait, !.today = old.today]
      BY <2>2, <2>3, <2>4
    <3> QED BY <2>1, <2>2, <3>1 DEF EventRow
  <2>5. CASE clock' = 0
    <3>1. event'[e] = [old EXCEPT !.wait = wait, !.today = FALSE]
      BY <2>3, <2>5
    <3> QED BY <2>1, <2>5, <3>1 DEF EventRow
  <2> QED BY <2>4, <2>5
<1>4. event' \in [Paper -> EventRow]
  <2>1. event' = [e \in Paper |-> event'[e]]
    BY DEF Tick, night
  <2> QED BY <1>3, <2>1
<1>5. /\ spent' = IF clock' = 0 THEN {} ELSE spent
      /\ together' = IF clock' = 0 THEN Cardinality(Deciders) ELSE together
  BY <1>0, FiniteSets DEF Tick, night
<1>6. TypeOK'
  <2>1. spent' \subseteq Paper /\ together' \in 0 .. Cardinality(Process)
    BY <1>0, <1>5, FiniteSets
  <2> QED BY <1>0, <1>1, <1>2, <1>4, <2>1, Types, TypesAfter
<1>7. BaselineSplit' /\ PollingOK'
  BY <1>1, <1>3, PollingStays DEF ProactiveIInv
<1>8. \A q \in Process : DispatcherOK(q)'
  BY <1>1, DispatcherStays DEF ProactiveIInv
<1>9. \A e \in Paper : RowOK(e)'
  BY <1>1, <1>3, <1>5, RowStays DEF ProactiveIInv
<1>10. BudgetOK'
  <2>1. CASE clock' # 0
    BY <1>0, <1>1, <1>3, <1>5, <2>1, BudgetStays DEF ProactiveIInv
  <2>2. CASE clock' = 0
    <3>1. spent' = {} /\ Counted' = {} /\ Deciders' = Deciders /\ Eager' = Eager
      BY <1>1, <1>5, <2>2 DEF Counted, Deciders, Eager, MostBudget
    <3>2. MostBudget \in Nat /\ MostBudget' = MostBudget
      BY <1>0, MostIsBudget DEF MostBudget
    <3>3. Eager # {} => MostBudget > 0
      <4>1. ASSUME NEW q \in Eager PROVE MostBudget > 0
        <5>1. dispatcher[q].sentToday \in 0 .. Papers /\ dispatcher[q].sentToday < MostBudget
          BY <1>0, Types DEF Eager, Deciders, Dispatching
        <5> QED BY <3>2, <5>1, CountsType
      <4> QED BY <4>1
    <3> QED BY <1>0, <1>5, <2>2, <3>1, <3>2, <3>3, FiniteSets, Empty DEF BudgetOK
  <2> QED BY <2>1, <2>2
<1> QED BY <1>6, <1>7, <1>8, <1>9, <1>10 DEF ProactiveIInv

-------------------------------------------------------------------------------
(* Every step                                                                 *)

LEMMA SettingSteps ==
    ASSUME ProactiveIInv, Publish \/ UpdatePreferences \/ SetPaused \/ UNCHANGED vars PROVE ProactiveIInv'
<1>1. UNCHANGED <<sub, collector, firstFeed, event, dispatcher, run, spent, together, cut, woken,
                  overtaken>>
  BY DEF Publish, UpdatePreferences, SetPaused, vars, pollVars, night
<1>2. Surroundings
  BY Types DEF ProactiveIInv, Surroundings
<1>3. CASE Publish
  BY <1>1, <1>2, <1>3, SettingStep, CountsType DEF Publish, Surroundings, night
<1>4. CASE UpdatePreferences
  BY <1>1, <1>2, <1>4, SettingStep, CountsType DEF UpdatePreferences, Fault, pollVars, Surroundings, night
<1>5. CASE SetPaused
  BY <1>1, <1>2, <1>5, SettingStep, CountsType DEF SetPaused, Fault, pollVars, Surroundings, night
<1>6. CASE UNCHANGED vars
  BY <1>1, <1>2, <1>6, SettingStep DEF vars, pollVars, Surroundings, night
<1> QED BY <1>3, <1>4, <1>5, <1>6

LEMMA DieStep == ASSUME ProactiveIInv, NEW p \in Process, Die(p) PROVE ProactiveIInv'
<1>1. Surroundings'
  BY Types, Constants DEF ProactiveIInv, Die, Fault, Surroundings, night
<1> QED BY <1>1, StopStep DEF Die, night

LEMMA ProactiveStep == ASSUME ProactiveIInv, [Next]_vars PROVE ProactiveIInv'
<1>1. CASE Publish \/ UpdatePreferences \/ SetPaused \/ UNCHANGED vars
  BY <1>1, SettingSteps
<1>2. CASE PollFallsDue \/ CreateSubscription \/ ExpirePoll \/ \E b \in BOOLEAN : SetSubscriptionEnabled(b)
  BY <1>2, SubscriptionSteps
<1>3. CASE \E e \in Paper : ExpireEvent(e) \/ Acknowledge(e) \/ SettleRun(e)
  BY <1>3, ExpireEventStep, AcknowledgeStep, SettleRunStep
<1>4. CASE \E p \in Process : PollStep(p) \/ FailPoll(p) \/ RetryEvent(p) \/ Die(p)
  BY <1>4, ClaimSubscriptionStep, SearchStep, SavePollStep, FailPollStep, RetryStep, DieStep DEF PollStep
<1>5. CASE \E p \in Process : DispatchStep(p)
  BY <1>5, ClaimStep, SaveRankStep, SuppressStep, DeferStep, DecideStep, EnqueueStep, MarkStep DEF DispatchStep
<1>6. CASE Tick
  BY <1>6, TickStep
<1> QED BY <1>1, <1>2, <1>3, <1>4, <1>5, <1>6 DEF Next, LeasesExpire

(* A run made in the quiet hours of the member's row is one whose dispatcher    *)
(* looked at another time, or at other preferences.                             *)
LEMMA NightStep == ASSUME ProactiveIInv, NotWoken, [Next]_vars PROVE NotWoken'
<1>1. ASSUME NEW p \in Process, EnqueueProactive(p) PROVE NotWoken'
  <2> PICK d, made : d = dispatcher[p] /\ made = IF run[d.paper] = "none" THEN {d.paper} ELSE {}
    OBVIOUS
  <2>1. ~Quiet(d.preference, d.now)
    BY <1>1 DEF EnqueueProactive, ProactiveIInv, DispatcherOK
  <2>2. /\ woken' = IF Quiet(preference, clock) THEN woken \cup made ELSE woken
        /\ overtaken' = IF d.now = clock /\ d.preference = preference THEN overtaken ELSE overtaken \cup made
    BY <1>1 DEF EnqueueProactive
  <2> QED BY <2>1, <2>2 DEF NotWoken
<1>2. CASE UNCHANGED <<woken, overtaken>>
  BY <1>2 DEF NotWoken
<1>3. CASE \/ Publish \/ PollFallsDue \/ CreateSubscription \/ LeasesExpire \/ UpdatePreferences \/ SetPaused \/ Tick
           \/ (\E b \in BOOLEAN : SetSubscriptionEnabled(b)) \/ (\E e \in Paper : Acknowledge(e) \/ SettleRun(e))
           \/ UNCHANGED vars
  BY <1>2, <1>3 DEF Publish, PollFallsDue, CreateSubscription, LeasesExpire, ExpirePoll, ExpireEvent, UpdatePreferences,
                    SetPaused, Tick, SetSubscriptionEnabled, Acknowledge, SettleRun, vars, night
<1>4. CASE \E p \in Process : \/ PollStep(p) \/ FailPoll(p) \/ RetryEvent(p) \/ Die(p) \/ ClaimEvent(p) \/ SaveRank(p)
                             \/ Suppress(p) \/ Defer(p) \/ Decide(p) \/ MarkEnqueued(p)
  BY <1>2, <1>4 DEF PollStep, ClaimSubscription, Search, SavePoll, FailPoll, RetryEvent, Die, ClaimEvent, SaveRank,
                    Suppress, Defer, Decide, MarkEnqueued, night
<1> QED BY <1>1, <1>3, <1>4 DEF Next, DispatchStep

(* The baseline is exactly the first feed, every run that is made is reported   *)
(* by its event unless its dispatch was cut, none is made in quiet hours that   *)
(* its dispatcher could have looked at, and on a clock that runs evenly, so     *)
(* without the days on which daylight saving begins or ends, every deferral     *)
(* ends when it is not quiet (store.go SavePoll, ClaimEvent, Reconcile,         *)
(* MarkEnqueued; worker.go process).                                            *)
THEOREM ProactiveCorrect == Spec => []ProactiveInv
<1>1. ProactiveIInv /\ NotWoken => ProactiveInv
  <2> SUFFICES ASSUME ProactiveIInv, NotWoken PROVE ProactiveInv
    OBVIOUS
  <2>1. RunReported
    BY DEF ProactiveIInv, RowOK, RunReported, Told, Holding
  <2>2. DeferralsEndQuiet
    BY Types, DeferralsEnd DEF ProactiveIInv
  <2> QED BY <2>1, <2>2 DEF ProactiveIInv, ProactiveInv
<1>2. Init => ProactiveIInv /\ NotWoken
  BY InitProactive DEF Init, NotWoken
<1>3. ProactiveIInv /\ NotWoken /\ [Next]_vars => (ProactiveIInv /\ NotWoken)'
  BY ProactiveStep, NightStep
<1> QED BY <1>1, <1>2, <1>3, PTL DEF Spec

(* However many dispatchers decide at once, the runs made in a day that do not  *)
(* fail exceed the budget by at most one for each dispatcher beyond the first   *)
(* and one for each dispatch that was cut (worker.go process).                  *)
THEOREM ProactiveBudgetKept == Spec => []BudgetKept
<1>1. ProactiveIInv => BudgetKept
  <2> PICK sent : sent = {e \in spent : run[e] # "failed"}
    OBVIOUS
  <2> SUFFICES ASSUME ProactiveIInv, sent # {}
               PROVE  Cardinality(sent) <= MostBudget + together - 1 + Cardinality(sent \cap cut)
    BY DEF BudgetKept
  <2>1. /\ Cardinality(Counted) \in Nat /\ Cardinality(Eager) \in Nat
        /\ MostBudget \in Nat /\ together \in Nat /\ IsFiniteSet(sent)
    <3>1. sent \subseteq Paper
      BY Types DEF ProactiveIInv
    <3>2. IsFiniteSet(sent)
      BY <3>1, Constants, FS_Subset
    <3> QED BY <3>2, FiniteSets, MostIsBudget, Types, Constants DEF ProactiveIInv
  <2>2. Cardinality(Counted) <= MostBudget + together - 1
    <3>1. CASE Counted = {}
      <4>1. together > 0
        BY DEF ProactiveIInv, BudgetOK
      <4> QED BY <2>1, <3>1, <4>1, Empty
    <3>2. CASE Counted # {}
      BY <2>1, <3>2 DEF ProactiveIInv, BudgetOK
    <3> QED BY <3>1, <3>2
  <2>3. Counted = sent \ cut
    BY DEF Counted
  <2>4. Cardinality(sent \ cut) = Cardinality(sent) - Cardinality(sent \cap cut)
    BY <2>1, FS_Difference
  <2>5. Cardinality(sent) \in Nat /\ Cardinality(sent \cap cut) \in Nat
    <3>1. IsFiniteSet(sent \cap cut)
      BY <2>1, FS_Subset
    <3> QED BY <2>1, <3>1, FS_CardinalityType
  <2> QED BY <2>1, <2>2, <2>3, <2>4, <2>5
<1> QED BY <1>1, InitProactive, ProactiveStep, PTL DEF Spec
===============================================================================
