------------------------------- MODULE MemoryLog -------------------------------
(***************************************************************************)
(* Memory as an event-sourced store (internal/memory/store.go).  A stream  *)
(* per scope holds events that are only ever appended, each under an       *)
(* idempotency key that is unique in the tenant; projectors apply them one *)
(* by one to the table of facts, behind a cursor; a rebuild replays a      *)
(* stream in one transaction.  Append and rebuild hold the row of the      *)
(* stream, so projectors skip a stream that is being rebuilt.              *)
(*                                                                         *)
(* The content of a fact is that of the event its row names as the source. *)
(***************************************************************************)
EXTENDS Naturals, Sequences

CONSTANTS
    Stream,    \* one per scope: a member's own memory, a group's
    FactKey,
    EventKey,  \* idempotency keys
    NoFactKey  \* the fact_key of an event that erases the stream

ASSUME NoFactKeyType == NoFactKey \notin FactKey

VARIABLES
    events,     \* stream: memory.events in order of their sequence
    projected,  \* stream: projected_sequence
    facts,      \* stream, key: the row of memory.facts
    rebuild     \* stream: the transaction that replays it

logVars == <<events, projected, facts, rebuild>>

Event == [type : {"fact_upserted", "fact_deleted"}, factKey : FactKey, key : EventKey]
         \cup [type : {"stream_erased"}, factKey : {NoFactKey}, key : EventKey]
Row == [state : {"none", "active", "deleted"}, source : Nat]
NoRow == [state |-> "none", source |-> 0]
NoRows == [k \in FactKey |-> NoRow]
NoRebuild == [running |-> FALSE, replayed |-> 0, rows |-> NoRows]

LogTypeOK ==
    /\ events \in [Stream -> Seq(Event)]
    /\ projected \in [Stream -> Nat]
    /\ facts \in [Stream -> [FactKey -> Row]]
    /\ rebuild \in [Stream -> [running : BOOLEAN, replayed : Nat, rows : [FactKey -> Row]]]
    /\ \A s \in Stream : projected[s] <= Len(events[s]) /\ rebuild[s].replayed <= Len(events[s])

LogInit ==
    /\ events = [s \in Stream |-> <<>>]
    /\ projected = [s \in Stream |-> 0]
    /\ facts = [s \in Stream |-> NoRows]
    /\ rebuild = [s \in Stream |-> NoRebuild]

(* Fault: the key is only looked for in the stream itself, among facts shown.  *)
ShownInStream(key) == \E s \in Stream : \E k \in FactKey :
    facts[s][k].state = "active" /\ events[s][facts[s][k].source].key = key
(* An event with this idempotency key is in some stream of the tenant.         *)
Recorded(key) == \E s \in Stream : \E i \in 1 .. Len(events[s]) : events[s][i].key = key

Upsert(k, key) == [type |-> "fact_upserted", factKey |-> k, key |-> key]
Delete(k, key) == [type |-> "fact_deleted", factKey |-> k, key |-> key]
Erase(key) == [type |-> "stream_erased", factKey |-> NoFactKey, key |-> key]

(* One serializable transaction.  A key that is there already returns the      *)
(* event it names, whatever that says, and appends nothing.                    *)
AppendEvent(s, e) ==
    /\ ~rebuild[s].running
    /\ events' = IF Recorded(e.key) THEN events ELSE [events EXCEPT ![s] = Append(@, e)]
    /\ UNCHANGED <<projected, facts, rebuild>>

(* The rows after event e, the n-th of the stream.                             *)
applyEvent(rows, e, n) == [k \in FactKey |->
    IF e.type = "fact_upserted" /\ e.factKey = k THEN [state |-> "active", source |-> n]
    ELSE IF \/ e.type = "fact_deleted" /\ e.factKey = k /\ rows[k].state # "none"
            \/ e.type = "stream_erased" /\ rows[k].state = "active"
         THEN [state |-> "deleted", source |-> n]
         ELSE rows[k]]

ProjectNext(s) ==
    /\ ~rebuild[s].running
    /\ projected[s] < Len(events[s])
    /\ projected' = [projected EXCEPT ![s] = @ + 1]
    /\ facts' = [facts EXCEPT ![s] = applyEvent(@, events[s][projected[s] + 1], projected[s] + 1)]
    /\ UNCHANGED <<events, rebuild>>

-------------------------------------------------------------------------------
(* RebuildStream: lock and reset, replay every event, move the cursor.  What   *)
(* it writes is seen by nobody before it commits.                              *)

Reset(rows) == [k \in FactKey |-> IF rows[k].state = "none" THEN NoRow
                                  ELSE [rows[k] EXCEPT !.state = "deleted"]]
RebuildBegin(s) ==
    /\ ~rebuild[s].running
    /\ rebuild' = [rebuild EXCEPT ![s] = [running |-> TRUE, replayed |-> 0, rows |-> Reset(facts[s])]]
    /\ UNCHANGED <<events, projected, facts>>

RebuildReplay(s) ==
    /\ rebuild[s].running /\ rebuild[s].replayed < Len(events[s])
    /\ LET n == rebuild[s].replayed + 1 IN
       rebuild' = [rebuild EXCEPT ![s] = [running |-> TRUE, replayed |-> n,
                                          rows |-> applyEvent(rebuild[s].rows, events[s][n], n)]]
    /\ UNCHANGED <<events, projected, facts>>

(* Fault: the cursor stays where it was.                                       *)
CursorStays(s) == projected[s]
RebuiltCursor(s) == Len(events[s])
RebuildCommit(s) ==
    /\ rebuild[s].running /\ rebuild[s].replayed = Len(events[s])
    /\ facts' = [facts EXCEPT ![s] = rebuild[s].rows]
    /\ projected' = [projected EXCEPT ![s] = RebuiltCursor(s)]
    /\ rebuild' = [rebuild EXCEPT ![s] = NoRebuild]
    /\ UNCHANGED events

RebuildRollback(s) ==
    /\ rebuild[s].running
    /\ rebuild' = [rebuild EXCEPT ![s] = NoRebuild]
    /\ UNCHANGED <<events, projected, facts>>

Rebuilds(s) == RebuildBegin(s) \/ RebuildReplay(s) \/ RebuildCommit(s) \/ RebuildRollback(s)

LogNext == \E s \in Stream :
    \/ \E e \in Event : AppendEvent(s, e)
    \/ ProjectNext(s)
    \/ Rebuilds(s)

LogSpec == LogInit /\ [][LogNext]_logVars

-------------------------------------------------------------------------------
(* Properties                                                                 *)

Overrides(e, k) == e.type = "stream_erased" \/ e.factKey = k
(* Event i is the last word on key k among the first n events of es.           *)
StandsAt(es, n, k, i) ==
    /\ i \in 1 .. n
    /\ es[i].type = "fact_upserted" /\ es[i].factKey = k
    /\ \A j \in i + 1 .. n : ~Overrides(es[j], k)
ViewOf(es, n, rows) == \A k \in FactKey :
    /\ rows[k].state = "active" => StandsAt(es, n, k, rows[k].source)
    /\ \A i \in 1 .. n : StandsAt(es, n, k, i) => rows[k] = [state |-> "active", source |-> i]

(* The facts a member or a run is shown are, for every stream, exactly the     *)
(* last words of the events behind the cursor: nothing that was deleted or     *)
(* erased since, nothing superseded and nothing missing, whatever projectors   *)
(* and rebuilds did.                                                           *)
ViewIsLastWord == \A s \in Stream :
    /\ ViewOf(events[s], projected[s], facts[s])
    /\ ViewOf(events[s], rebuild[s].replayed, rebuild[s].rows)

(* An idempotency key is that of one event in the whole tenant.                *)
OneEventPerKey == \A s, t \in Stream : \A i \in 1 .. Len(events[s]), j \in 1 .. Len(events[t]) :
    events[s][i].key = events[t][j].key => s = t /\ i = j

LogInv == LogTypeOK /\ ViewIsLastWord /\ OneEventPerKey

(* A projection or rebuild never takes the row of a fact back to an event      *)
(* before the one it already shows: a deletion that was seen is undone only    *)
(* by an event that came after it.                                             *)
NeverBack == [][\A s \in Stream : \A k \in FactKey : facts'[s][k].source >= facts[s][k].source]_logVars
===============================================================================
