----------------------- MODULE MemoryExtraction_proofs ------------------------
(***************************************************************************)
(* What is remembered, in two steps: of any log of memory events, then of  *)
(* the logs that workers, reviewers, members and operators write.          *)
(***************************************************************************)
EXTENDS MemoryExtraction, SequenceTheorems, FiniteSetTheorems, TLAPS

-------------------------------------------------------------------------------
(***************************************************************************)
(* Proofs about MemoryLog, for any set of streams, fact keys and           *)
(* idempotency keys and logs of any length.  The specification that writes *)
(* to the log and reads from it is MemoryExtraction, whose run checks the  *)
(* same properties; the second part carries them there.                    *)
(*                                                                         *)
(* What is shown of a stream is the last word of its log, and so is what a *)
(* rebuild has written so far.  That nothing is ever taken back needs      *)
(* more: which event a row came from, and that a rebuild, which starts     *)
(* from the rows as deleted, has caught up with a row once it has passed   *)
(* its event.                                                              *)
(***************************************************************************)

Rows == [FactKey -> Row]
Rebuild == [running : BOOLEAN, replayed : Nat, rows : Rows]

(* Event m of es could have written the row of k: it is about k, or erases a   *)
(* stream in which k was shown.                                                *)
WroteRow(es, k, m) ==
    /\ m \in 1 .. Len(es)
    /\ \/ es[m].factKey = k
       \/ es[m].type = "stream_erased" /\ \E i \in 1 .. Len(es) : StandsAt(es, m - 1, k, i)
(* Rows come from the first n events.                                          *)
FromEvents(es, n, rows) == \A k \in FactKey :
    /\ rows[k].source <= n
    /\ rows[k].state = "none" => rows[k].source = 0
    /\ rows[k].source # 0 => WroteRow(es, k, rows[k].source)
(* A rebuild that has passed the event of a row has a row from it or a later one.*)
CaughtUp(rows, rb) == \A k \in FactKey :
    /\ rows[k].state # "none" => rb.rows[k].state # "none"
    /\ rows[k].source <= rb.replayed => rows[k].source <= rb.rows[k].source

(* Log, cursor, rows and rebuild of one stream.                                *)
StreamOK(es, n, rows, rb) ==
    /\ es \in Seq(Event) /\ n \in 0 .. Len(es) /\ rows \in Rows
    /\ rb \in Rebuild /\ rb.replayed <= Len(es)
    /\ ViewOf(es, n, rows) /\ ViewOf(es, rb.replayed, rb.rows)
    /\ FromEvents(es, n, rows)
    /\ rb.running => FromEvents(es, Len(es), rb.rows) /\ CaughtUp(rows, rb)

LogIInv ==
    /\ LogTypeOK /\ OneEventPerKey
    /\ \A s \in Stream : StreamOK(events[s], projected[s], facts[s], rebuild[s])

-------------------------------------------------------------------------------
(* One event more                                                             *)

LEMMA EventType ==
    ASSUME NEW e \in Event, NEW k \in FactKey
    PROVE  /\ e.type \in {"fact_upserted", "fact_deleted", "stream_erased"}
           /\ e.type = "stream_erased" => e.factKey # k
BY NoFactKeyType DEF Event

LEMMA ApplyType ==
    ASSUME NEW rows \in Rows, NEW e \in Event, NEW n \in Nat PROVE applyEvent(rows, e, n) \in Rows
BY DEF applyEvent, Rows, Row

LEMMA ApplyRow ==
    ASSUME NEW rows \in Rows, NEW e \in Event, NEW n \in Nat, NEW k \in FactKey
    PROVE  applyEvent(rows, e, n)[k] =
              IF e.type = "fact_upserted" /\ e.factKey = k THEN [state |-> "active", source |-> n]
              ELSE IF \/ e.type = "fact_deleted" /\ e.factKey = k /\ rows[k].state # "none"
                      \/ e.type = "stream_erased" /\ rows[k].state = "active"
                   THEN [state |-> "deleted", source |-> n]
                   ELSE rows[k]
BY DEF applyEvent, Rows, Row

LEMMA ViewApply ==
    ASSUME NEW es \in Seq(Event), NEW n \in Nat, n < Len(es), NEW rows \in Rows, ViewOf(es, n, rows)
    PROVE  ViewOf(es, n + 1, applyEvent(rows, es[n + 1], n + 1))
<1> DEFINE e == es[n + 1]
           new == applyEvent(rows, e, n + 1)
<1>1. e \in Event /\ Len(es) \in Nat
  OBVIOUS
<1> SUFFICES ASSUME NEW k \in FactKey
             PROVE  /\ new[k].state = "active" => StandsAt(es, n + 1, k, new[k].source)
                    /\ \A i \in 1 .. n + 1 :
                          StandsAt(es, n + 1, k, i) => new[k] = [state |-> "active", source |-> i]
  BY DEF ViewOf
<1>2. /\ rows[k].state = "active" => StandsAt(es, n, k, rows[k].source)
      /\ \A i \in 1 .. n : StandsAt(es, n, k, i) => rows[k] = [state |-> "active", source |-> i]
  BY DEF ViewOf
<1>3. new[k] = IF e.type = "fact_upserted" /\ e.factKey = k THEN [state |-> "active", source |-> n + 1]
               ELSE IF \/ e.type = "fact_deleted" /\ e.factKey = k /\ rows[k].state # "none"
                       \/ e.type = "stream_erased" /\ rows[k].state = "active"
                    THEN [state |-> "deleted", source |-> n + 1]
                    ELSE rows[k]
  BY <1>1, ApplyRow
<1>4. \A i \in 1 .. n : StandsAt(es, n + 1, k, i) <=> StandsAt(es, n, k, i) /\ ~Overrides(e, k)
  BY DEF StandsAt
<1>5. StandsAt(es, n + 1, k, n + 1) <=> e.type = "fact_upserted" /\ e.factKey = k
  BY DEF StandsAt
<1>6. rows[k] \in Row
  BY DEF Rows
<1>7. CASE e.type = "fact_upserted" /\ e.factKey = k
  BY <1>3, <1>4, <1>5, <1>7 DEF Overrides
<1>8. CASE ~(e.type = "fact_upserted" /\ e.factKey = k) /\ Overrides(e, k)
  <2>1. new[k].state # "active"
    <3>1. CASE e.type = "stream_erased"
      BY <1>3, <1>6, <3>1 DEF Row
    <3>2. CASE e.type # "stream_erased"
      BY <1>1, <1>3, <1>6, <1>8, <3>2, EventType DEF Row, Overrides
    <3> QED
      BY <3>1, <3>2
  <2>2. \A i \in 1 .. n + 1 : ~StandsAt(es, n + 1, k, i)
    BY <1>4, <1>5, <1>8
  <2> QED
    BY <2>1, <2>2
<1>9. CASE ~Overrides(e, k)
  <2>1. new[k] = rows[k]
    BY <1>3, <1>9 DEF Overrides
  <2>2. ~StandsAt(es, n + 1, k, n + 1)
    BY <1>5, <1>9 DEF Overrides
  <2>3. rows[k].state = "active" => rows[k].source \in 1 .. n
    BY <1>2 DEF StandsAt
  <2> QED
    BY <1>2, <1>4, <1>9, <2>1, <2>2, <2>3
<1> QED
  BY <1>7, <1>8, <1>9 DEF Overrides

LEMMA SourcesApply ==
    ASSUME NEW es \in Seq(Event), NEW n \in Nat, n < Len(es), NEW rows \in Rows, ViewOf(es, n, rows),
           NEW m \in Nat, n + 1 <= m, FromEvents(es, m, rows)
    PROVE  FromEvents(es, m, applyEvent(rows, es[n + 1], n + 1))
<1> DEFINE e == es[n + 1]
           new == applyEvent(rows, e, n + 1)
<1>1. e \in Event /\ Len(es) \in Nat
  OBVIOUS
<1> SUFFICES ASSUME NEW k \in FactKey
             PROVE  /\ new[k].source <= m
                    /\ new[k].state = "none" => new[k].source = 0
                    /\ new[k].source # 0 => WroteRow(es, k, new[k].source)
  BY DEF FromEvents
<1>2. new[k] = IF e.type = "fact_upserted" /\ e.factKey = k THEN [state |-> "active", source |-> n + 1]
               ELSE IF \/ e.type = "fact_deleted" /\ e.factKey = k /\ rows[k].state # "none"
                       \/ e.type = "stream_erased" /\ rows[k].state = "active"
                    THEN [state |-> "deleted", source |-> n + 1]
                    ELSE rows[k]
  BY <1>1, ApplyRow
<1>3. CASE new[k] = rows[k]
  BY <1>3 DEF FromEvents
<1>4. CASE new[k] # rows[k]
  <2>1. new[k].source = n + 1 /\ new[k].state # "none"
    BY <1>2, <1>4
  <2>2. \/ e.factKey = k
        \/ e.type = "stream_erased" /\ rows[k].state = "active"
    BY <1>2, <1>4
  <2>3. rows[k].state = "active" => rows[k].source \in 1 .. n /\ StandsAt(es, n, k, rows[k].source)
    BY DEF ViewOf, StandsAt
  <2>4. WroteRow(es, k, n + 1)
    BY <1>1, <2>2, <2>3 DEF WroteRow
  <2> QED
    BY <2>1, <2>4
<1> QED
  BY <1>3, <1>4

LEMMA CaughtUpApply ==
    ASSUME NEW es \in Seq(Event), NEW rows \in Rows, NEW rb \in Rebuild, rb.replayed < Len(es),
           FromEvents(es, Len(es), rows), ViewOf(es, rb.replayed, rb.rows), CaughtUp(rows, rb)
    PROVE  LET n == rb.replayed + 1
           IN  CaughtUp(rows, [running |-> TRUE, replayed |-> n, rows |-> applyEvent(rb.rows, es[n], n)])
<1> DEFINE n == rb.replayed + 1
           e == es[n]
           new == applyEvent(rb.rows, e, n)
<1>1. rb.replayed \in Nat /\ rb.rows \in Rows /\ Len(es) \in Nat /\ n \in Nat /\ e \in Event
  BY DEF Rebuild
<1> SUFFICES ASSUME NEW k \in FactKey
             PROVE  /\ rows[k].state # "none" => new[k].state # "none"
                    /\ rows[k].source <= n => rows[k].source <= new[k].source
  BY DEF CaughtUp
<1>2. new[k] = IF e.type = "fact_upserted" /\ e.factKey = k THEN [state |-> "active", source |-> n]
               ELSE IF \/ e.type = "fact_deleted" /\ e.factKey = k /\ rb.rows[k].state # "none"
                       \/ e.type = "stream_erased" /\ rb.rows[k].state = "active"
                    THEN [state |-> "deleted", source |-> n]
                    ELSE rb.rows[k]
  BY <1>1, ApplyRow
<1>3. /\ rows[k].state # "none" => rb.rows[k].state # "none"
      /\ rows[k].source <= rb.replayed => rows[k].source <= rb.rows[k].source
  BY DEF CaughtUp
<1>4. rows[k] \in Row /\ rb.rows[k] \in Row /\ rows[k].source \in Nat /\ rb.rows[k].source \in Nat
  BY <1>1 DEF Rows, Row
<1>5. rows[k].state # "none" => new[k].state # "none"
  BY <1>2, <1>3
<1>6. new[k].source = n \/ new[k] = rb.rows[k]
  BY <1>2
<1>7. ASSUME rows[k].source = n PROVE new[k].source = n
  <2>1. rows[k].state # "none" /\ WroteRow(es, k, n)
    BY <1>1, <1>7 DEF FromEvents
  <2>2. rb.rows[k].state # "none"
    BY <1>3, <2>1
  <2>3. CASE e.factKey = k
    BY <1>1, <1>2, <2>2, <2>3, EventType
  <2>4. CASE e.type = "stream_erased" /\ \E i \in 1 .. Len(es) : StandsAt(es, n - 1, k, i)
    <3>1. n - 1 = rb.replayed
      BY <1>1
    <3>2. PICK i \in 1 .. Len(es) : StandsAt(es, n - 1, k, i)
      BY <2>4
    <3>3. rb.rows[k].state = "active"
      <4>1. StandsAt(es, rb.replayed, k, i)
        <5> HIDE DEF n
        <5> QED
          BY <3>1, <3>2
      <4>2. i \in 1 .. rb.replayed
        BY <1>1, <4>1 DEF StandsAt
      <4>3. rb.rows[k] = [state |-> "active", source |-> i]
        BY <4>1, <4>2 DEF ViewOf
      <4> QED
        BY <4>3
    <3> QED
      BY <1>2, <2>4, <3>3
  <2> QED
    BY <2>1, <2>3, <2>4 DEF WroteRow
<1>8. rows[k].source <= n => rows[k].source <= new[k].source
  BY <1>1, <1>3, <1>4, <1>6, <1>7
<1> QED
  BY <1>5, <1>8

-------------------------------------------------------------------------------
(* A log that has grown                                                       *)

LEMMA StandsAtPrefix ==
    ASSUME NEW es \in Seq(Event), NEW e \in Event, NEW n \in Nat, n <= Len(es), NEW k \in FactKey, NEW i
    PROVE  StandsAt(Append(es, e), n, k, i) <=> StandsAt(es, n, k, i)
<1>1. \A j \in 1 .. n : Append(es, e)[j] = es[j]
  BY AppendProperties
<1> QED
  BY <1>1 DEF StandsAt

LEMMA ViewPrefix ==
    ASSUME NEW es \in Seq(Event), NEW e \in Event, NEW n \in Nat, n <= Len(es), NEW rows,
           ViewOf(es, n, rows)
    PROVE  ViewOf(Append(es, e), n, rows)
BY StandsAtPrefix DEF ViewOf

LEMMA SourcesPrefix ==
    ASSUME NEW es \in Seq(Event), NEW e \in Event, NEW n \in Nat, n <= Len(es), NEW rows \in Rows,
           FromEvents(es, n, rows), NEW m \in Nat, n <= m
    PROVE  FromEvents(Append(es, e), m, rows)
<1> SUFFICES ASSUME NEW k \in FactKey
             PROVE  /\ rows[k].source <= m
                    /\ rows[k].state = "none" => rows[k].source = 0
                    /\ rows[k].source # 0 => WroteRow(Append(es, e), k, rows[k].source)
  BY DEF FromEvents
<1> DEFINE q == rows[k].source
<1>1. /\ q <= n
      /\ rows[k].state = "none" => q = 0
      /\ q # 0 => WroteRow(es, k, q)
  BY DEF FromEvents
<1>2. q \in Nat
  BY DEF Rows, Row
<1>3. ASSUME q # 0 PROVE WroteRow(Append(es, e), k, q)
  <2>1. WroteRow(es, k, q)
    BY <1>1, <1>3
  <2>2. Len(Append(es, e)) = Len(es) + 1 /\ Append(es, e)[q] = es[q] /\ Len(es) \in Nat
    BY <2>1, AppendProperties DEF WroteRow
  <2>3. q - 1 \in Nat /\ q - 1 <= Len(es)
    BY <1>2, <1>3, <2>1 DEF WroteRow
  <2>4. \A i \in 1 .. Len(es) : StandsAt(es, q - 1, k, i) => StandsAt(Append(es, e), q - 1, k, i)
    BY <2>3, StandsAtPrefix
  <2> HIDE DEF q
  <2> QED
    BY <2>1, <2>2, <2>4 DEF WroteRow
<1> QED
  BY <1>1, <1>2, <1>3

-------------------------------------------------------------------------------
(* Initial states and steps                                                   *)

LEMMA InitLog == LogInit => LogIInv
<1> SUFFICES ASSUME LogInit PROVE LogIInv
  OBVIOUS
<1>1. NoRows \in Rows /\ NoRebuild \in Rebuild /\ <<>> \in Seq(Event)
  BY DEF NoRows, NoRow, NoRebuild, Rows, Row, Rebuild
<1>3. ViewOf(<<>>, 0, NoRows)
  BY DEF ViewOf, StandsAt, NoRows, NoRow
<1>4. FromEvents(<<>>, 0, NoRows)
  BY DEF FromEvents, NoRows, NoRow
<1>5. StreamOK(<<>>, 0, NoRows, NoRebuild)
  BY <1>1, <1>3, <1>4 DEF StreamOK, NoRebuild
<1>6. LogTypeOK
  BY <1>1 DEF LogInit, LogTypeOK, Rows, Rebuild, NoRebuild
<1>7. OneEventPerKey
  BY DEF LogInit, OneEventPerKey
<1> QED
  BY <1>5, <1>6, <1>7 DEF LogInit, LogIInv

(* What one stream becomes.                                                    *)
Becomes(s, es, n, rows, rb) ==
    /\ StreamOK(es, n, rows, rb)
    /\ events' = [events EXCEPT ![s] = es] /\ projected' = [projected EXCEPT ![s] = n]
    /\ facts' = [facts EXCEPT ![s] = rows] /\ rebuild' = [rebuild EXCEPT ![s] = rb]
    /\ \A k \in FactKey : facts[s][k].source <= rows[k].source

LEMMA AppendBecomes ==
    ASSUME LogIInv, NEW s \in Stream, NEW e \in Event, AppendEvent(s, e), ~Recorded(e.key)
    PROVE  Becomes(s, Append(events[s], e), projected[s], facts[s], rebuild[s])
<1> DEFINE es == events[s]
<1>1. StreamOK(es, projected[s], facts[s], rebuild[s]) /\ ~rebuild[s].running
  BY DEF LogIInv, AppendEvent
<1>2. /\ es \in Seq(Event) /\ Len(es) \in Nat /\ projected[s] \in 0 .. Len(es) /\ facts[s] \in Rows
      /\ rebuild[s] \in Rebuild /\ rebuild[s].replayed \in Nat /\ rebuild[s].replayed <= Len(es)
  BY <1>1 DEF StreamOK, Rebuild
<1>3. Append(es, e) \in Seq(Event) /\ Len(Append(es, e)) = Len(es) + 1
  BY <1>2, AppendProperties
<1>4. /\ ViewOf(Append(es, e), projected[s], facts[s])
      /\ ViewOf(Append(es, e), rebuild[s].replayed, rebuild[s].rows)
  BY <1>1, <1>2, ViewPrefix DEF StreamOK
<1>5. FromEvents(Append(es, e), projected[s], facts[s])
  BY <1>1, <1>2, SourcesPrefix DEF StreamOK
<1>6. StreamOK(Append(es, e), projected[s], facts[s], rebuild[s])
  BY <1>1, <1>2, <1>3, <1>4, <1>5 DEF StreamOK
<1>7. events' = [events EXCEPT ![s] = Append(es, e)]
  BY DEF AppendEvent
<1>8. UNCHANGED <<projected, facts, rebuild>>
  BY DEF AppendEvent
<1>9. \A k \in FactKey : facts[s][k].source \in Nat
  BY <1>2 DEF Rows, Row
<1> QED
  BY <1>6, <1>7, <1>8, <1>9 DEF Becomes, LogIInv, LogTypeOK

LEMMA ProjectBecomes ==
    ASSUME LogIInv, NEW s \in Stream, ProjectNext(s)
    PROVE  LET n == projected[s] + 1
           IN  Becomes(s, events[s], n, applyEvent(facts[s], events[s][n], n), rebuild[s])
<1> DEFINE es == events[s]
           n == projected[s] + 1
           rows == applyEvent(facts[s], es[n], n)
<1>1. StreamOK(es, projected[s], facts[s], rebuild[s]) /\ ~rebuild[s].running /\ projected[s] < Len(es)
  BY DEF LogIInv, ProjectNext
<1>2. /\ es \in Seq(Event) /\ Len(es) \in Nat /\ projected[s] \in Nat /\ n \in Nat /\ n \in 0 .. Len(es)
      /\ facts[s] \in Rows /\ es[n] \in Event
  BY <1>1 DEF StreamOK
<1>3. ViewOf(es, n, rows)
  BY <1>1, <1>2, ViewApply DEF StreamOK
<1>4. FromEvents(es, n, facts[s])
  BY <1>1, <1>2 DEF StreamOK, FromEvents, Rows, Row
<1>5. FromEvents(es, n, rows)
  BY <1>1, <1>2, <1>4, SourcesApply DEF StreamOK
<1>6. rows \in Rows /\ \A k \in FactKey : rows[k].source = n \/ rows[k] = facts[s][k]
  <2>1. rows \in Rows
    BY <1>2, ApplyType
  <2>2. ASSUME NEW k \in FactKey PROVE rows[k].source = n \/ rows[k] = facts[s][k]
    <3> DEFINE e == es[n]
    <3>1. rows[k] = IF e.type = "fact_upserted" /\ e.factKey = k THEN [state |-> "active", source |-> n]
                    ELSE IF \/ e.type = "fact_deleted" /\ e.factKey = k /\ facts[s][k].state # "none"
                            \/ e.type = "stream_erased" /\ facts[s][k].state = "active"
                         THEN [state |-> "deleted", source |-> n]
                         ELSE facts[s][k]
      BY <1>2, ApplyRow
    <3> HIDE DEF rows, e, n
    <3> QED
      BY <3>1
  <2> QED
    BY <2>1, <2>2
<1>7. StreamOK(es, n, rows, rebuild[s])
  BY <1>1, <1>2, <1>3, <1>5, <1>6 DEF StreamOK
<1>8. \A k \in FactKey : facts[s][k].source <= rows[k].source
  BY <1>2, <1>4, <1>6 DEF FromEvents, Rows, Row
<1>9. projected' = [projected EXCEPT ![s] = n] /\ facts' = [facts EXCEPT ![s] = rows]
  BY DEF ProjectNext
<1>10. UNCHANGED <<events, rebuild>>
  BY DEF ProjectNext
<1> QED
  BY <1>7, <1>8, <1>9, <1>10 DEF Becomes, LogIInv, LogTypeOK

LEMMA BeginBecomes ==
    ASSUME LogIInv, NEW s \in Stream, RebuildBegin(s)
    PROVE  Becomes(s, events[s], projected[s], facts[s],
                   [running |-> TRUE, replayed |-> 0, rows |-> Reset(facts[s])])
<1> DEFINE es == events[s]
           rows == Reset(facts[s])
           rb == [running |-> TRUE, replayed |-> 0, rows |-> rows]
<1>1. StreamOK(es, projected[s], facts[s], rebuild[s])
  BY DEF LogIInv
<1>2. /\ es \in Seq(Event) /\ Len(es) \in Nat /\ projected[s] \in 0 .. Len(es) /\ facts[s] \in Rows
      /\ \A k \in FactKey : facts[s][k] \in Row /\ facts[s][k].source \in Nat
  BY <1>1 DEF StreamOK, Rows, Row
<1>3. ASSUME NEW k \in FactKey
      PROVE  /\ rows[k] \in Row /\ rows[k].state # "active"
             /\ rows[k].state = "none" <=> facts[s][k].state = "none"
             /\ rows[k].source = facts[s][k].source
  <2>1. facts[s][k].state = "none" => facts[s][k].source = 0
    BY <1>1 DEF StreamOK, FromEvents
  <2>2. rows[k] = IF facts[s][k].state = "none" THEN NoRow ELSE [facts[s][k] EXCEPT !.state = "deleted"]
    BY DEF Reset
  <2> QED
    BY <1>2, <2>1, <2>2 DEF Row, NoRow
<1>4. rows \in Rows
  BY <1>3 DEF Reset, Rows
<1>5. ViewOf(es, 0, rows)
  BY <1>3 DEF ViewOf, StandsAt
<1>6. FromEvents(es, Len(es), rows)
  BY <1>1, <1>2, <1>3 DEF StreamOK, FromEvents
<1>7. CaughtUp(facts[s], rb)
  BY <1>2, <1>3 DEF CaughtUp
<1>8. rb \in Rebuild
  BY <1>4 DEF Rebuild
<1> HIDE DEF rows
<1>9. StreamOK(es, projected[s], facts[s], rb)
  BY <1>1, <1>2, <1>5, <1>6, <1>7, <1>8 DEF StreamOK
<1>10. rebuild' = [rebuild EXCEPT ![s] = rb]
  BY DEF RebuildBegin, rows
<1>11. UNCHANGED <<events, projected, facts>>
  BY DEF RebuildBegin
<1> QED
  BY <1>2, <1>9, <1>10, <1>11 DEF Becomes, LogIInv, LogTypeOK, rows

LEMMA ReplayBecomes ==
    ASSUME LogIInv, NEW s \in Stream, RebuildReplay(s)
    PROVE  LET n == rebuild[s].replayed + 1
           IN  Becomes(s, events[s], projected[s], facts[s],
                       [running |-> TRUE, replayed |-> n, rows |-> applyEvent(rebuild[s].rows, events[s][n], n)])
<1> DEFINE es == events[s]
           n == rebuild[s].replayed + 1
           rows == applyEvent(rebuild[s].rows, es[n], n)
           rb == [running |-> TRUE, replayed |-> n, rows |-> rows]
<1>1. StreamOK(es, projected[s], facts[s], rebuild[s]) /\ rebuild[s].running /\ rebuild[s].replayed < Len(es)
  BY DEF LogIInv, RebuildReplay
<1>2. /\ es \in Seq(Event) /\ Len(es) \in Nat /\ projected[s] \in 0 .. Len(es) /\ facts[s] \in Rows
      /\ rebuild[s] \in Rebuild /\ rebuild[s].replayed \in Nat /\ rebuild[s].rows \in Rows
      /\ n \in Nat /\ n <= Len(es) /\ es[n] \in Event
  BY <1>1 DEF StreamOK, Rebuild
<1>3. rows \in Rows
  BY <1>2, ApplyType
<1>4. ViewOf(es, n, rows)
  BY <1>1, <1>2, ViewApply DEF StreamOK
<1>5. FromEvents(es, Len(es), rows)
  BY <1>1, <1>2, SourcesApply DEF StreamOK
<1>6. FromEvents(es, Len(es), facts[s])
  BY <1>1, <1>2 DEF StreamOK, FromEvents, Rows, Row
<1>7. CaughtUp(facts[s], rb)
  BY <1>1, <1>2, <1>6, CaughtUpApply DEF StreamOK
<1>8. rb \in Rebuild
  BY <1>2, <1>3 DEF Rebuild
<1>9. StreamOK(es, projected[s], facts[s], rb)
  <2> HIDE DEF rows, n
  <2> QED
    BY <1>1, <1>2, <1>4, <1>5, <1>7, <1>8 DEF StreamOK
<1>10. rebuild' = [rebuild EXCEPT ![s] = rb]
  BY DEF RebuildReplay
<1>11. UNCHANGED <<events, projected, facts>>
  BY DEF RebuildReplay
<1>12. \A k \in FactKey : facts[s][k].source \in Nat
  BY <1>2 DEF Rows, Row
<1> HIDE DEF rows, n
<1>13. Becomes(s, es, projected[s], facts[s], rb)
  BY <1>9, <1>10, <1>11, <1>12 DEF Becomes, LogIInv, LogTypeOK
<1> QED
  BY <1>13 DEF rows, n

LEMMA CommitBecomes ==
    ASSUME LogIInv, NEW s \in Stream, RebuildCommit(s)
    PROVE  Becomes(s, events[s], Len(events[s]), rebuild[s].rows, NoRebuild)
<1> DEFINE es == events[s]
<1>1. StreamOK(es, projected[s], facts[s], rebuild[s]) /\ rebuild[s].running /\ rebuild[s].replayed = Len(es)
  BY DEF LogIInv, RebuildCommit
<1>2. /\ es \in Seq(Event) /\ Len(es) \in Nat /\ projected[s] \in 0 .. Len(es) /\ facts[s] \in Rows
      /\ rebuild[s].rows \in Rows
  BY <1>1 DEF StreamOK, Rebuild
<1>3. NoRebuild \in Rebuild /\ ViewOf(es, 0, NoRows)
  BY DEF NoRebuild, NoRows, NoRow, Rebuild, Rows, Row, ViewOf, StandsAt
<1>4. StreamOK(es, Len(es), rebuild[s].rows, NoRebuild)
  BY <1>1, <1>2, <1>3 DEF StreamOK, NoRebuild
<1>5. \A k \in FactKey : facts[s][k].source <= rebuild[s].rows[k].source
  BY <1>1, <1>2 DEF StreamOK, CaughtUp, FromEvents, Rows, Row
<1>6. /\ facts' = [facts EXCEPT ![s] = rebuild[s].rows] /\ projected' = [projected EXCEPT ![s] = Len(es)]
      /\ rebuild' = [rebuild EXCEPT ![s] = NoRebuild] /\ UNCHANGED events
  BY DEF RebuildCommit, RebuiltCursor
<1> QED
  BY <1>4, <1>5, <1>6 DEF Becomes, LogIInv, LogTypeOK

LEMMA RollbackBecomes ==
    ASSUME LogIInv, NEW s \in Stream, RebuildRollback(s)
    PROVE  Becomes(s, events[s], projected[s], facts[s], NoRebuild)
<1> DEFINE es == events[s]
<1>1. StreamOK(es, projected[s], facts[s], rebuild[s])
  BY DEF LogIInv
<1>2. NoRebuild \in Rebuild /\ ViewOf(es, 0, NoRows)
  BY DEF NoRebuild, NoRows, NoRow, Rebuild, Rows, Row, ViewOf, StandsAt
<1>3. StreamOK(es, projected[s], facts[s], NoRebuild)
  BY <1>1, <1>2 DEF StreamOK, NoRebuild
<1>4. rebuild' = [rebuild EXCEPT ![s] = NoRebuild] /\ UNCHANGED <<events, projected, facts>>
  BY DEF RebuildRollback
<1>5. \A k \in FactKey : facts[s][k].source \in Nat
  BY <1>1 DEF StreamOK, Rows, Row
<1> QED
  BY <1>3, <1>4, <1>5 DEF Becomes, LogIInv, LogTypeOK

(* A step of the log: nothing, or one stream becomes another.                  *)
LEMMA LogSteps ==
    ASSUME LogIInv, [LogNext]_logVars
    PROVE  \/ UNCHANGED logVars
           \/ \E s \in Stream, e \in Event :
                 /\ ~Recorded(e.key)
                 /\ Becomes(s, Append(events[s], e), projected[s], facts[s], rebuild[s])
           \/ \E s \in Stream : \E n, rows, rb : Becomes(s, events[s], n, rows, rb)
<1>1. ASSUME NEW s \in Stream, NEW e \in Event, AppendEvent(s, e)
      PROVE  UNCHANGED logVars \/ (/\ ~Recorded(e.key)
                                  /\ Becomes(s, Append(events[s], e), projected[s], facts[s], rebuild[s]))
  BY <1>1, AppendBecomes DEF AppendEvent, logVars
<1>2. ASSUME NEW s \in Stream, ProjectNext(s) PROVE \E n, rows, rb : Becomes(s, events[s], n, rows, rb)
  BY <1>2, ProjectBecomes
<1>3. ASSUME NEW s \in Stream, Rebuilds(s) PROVE \E n, rows, rb : Becomes(s, events[s], n, rows, rb)
  BY <1>3, BeginBecomes, ReplayBecomes, CommitBecomes, RollbackBecomes DEF Rebuilds
<1> QED
  BY <1>1, <1>2, <1>3 DEF LogNext

LEMMA BecomesKeeps ==
    ASSUME LogIInv, NEW s \in Stream, NEW es, NEW n, NEW rows, NEW rb, Becomes(s, es, n, rows, rb)
    PROVE  /\ LogTypeOK'
           /\ \A t \in Stream : StreamOK(events'[t], projected'[t], facts'[t], rebuild'[t])
           /\ \A t \in Stream, k \in FactKey : facts'[t][k].source >= facts[t][k].source
<1>1. /\ events' = [events EXCEPT ![s] = es] /\ projected' = [projected EXCEPT ![s] = n]
      /\ facts' = [facts EXCEPT ![s] = rows] /\ rebuild' = [rebuild EXCEPT ![s] = rb]
      /\ StreamOK(es, n, rows, rb)
  BY DEF Becomes
<1>2. ASSUME NEW t \in Stream PROVE StreamOK(events'[t], projected'[t], facts'[t], rebuild'[t])
  BY <1>1 DEF LogIInv, LogTypeOK
<1>3. ASSUME NEW t \in Stream, NEW k \in FactKey PROVE facts'[t][k].source >= facts[t][k].source
  <2>1. CASE t = s
    BY <1>1, <2>1 DEF Becomes, LogIInv, LogTypeOK
  <2>2. CASE t # s
    BY <1>1, <2>2 DEF LogIInv, LogTypeOK, Row
  <2> QED
    BY <2>1, <2>2
<1>4. /\ es \in Seq(Event) /\ n \in Nat /\ rows \in [FactKey -> Row]
      /\ rb \in [running : BOOLEAN, replayed : Nat, rows : [FactKey -> Row]]
  BY <1>1 DEF StreamOK, Rows, Rebuild
<1>5. \A t \in Stream : projected'[t] <= Len(events'[t]) /\ rebuild'[t].replayed <= Len(events'[t])
  BY <1>2 DEF StreamOK
<1>6. LogTypeOK'
  BY <1>1, <1>4, <1>5 DEF LogIInv, LogTypeOK
<1> QED
  BY <1>2, <1>3, <1>6

LEMMA AppendKeepsKeys ==
    ASSUME LogIInv, NEW s \in Stream, NEW e \in Event, ~Recorded(e.key),
           events' = [events EXCEPT ![s] = Append(events[s], e)]
    PROVE  OneEventPerKey'
<1>1. events \in [Stream -> Seq(Event)] /\ OneEventPerKey
  BY DEF LogIInv, LogTypeOK
<1>2. \A t \in Stream : \A i \in 1 .. Len(events[t]) : events[t][i].key # e.key
  BY DEF Recorded
<1>3. /\ Len(events'[s]) = Len(events[s]) + 1 /\ Len(events[s]) \in Nat
      /\ \A i \in 1 .. Len(events[s]) : events'[s][i] = events[s][i]
      /\ events'[s][Len(events[s]) + 1] = e
  BY <1>1, AppendProperties
<1>4. \A t \in Stream : t # s => events'[t] = events[t]
  BY <1>1
<1>5. ASSUME NEW t \in Stream, NEW i \in 1 .. Len(events'[t])
      PROVE  \/ t = s /\ i = Len(events[s]) + 1 /\ events'[t][i] = e
             \/ i \in 1 .. Len(events[t]) /\ events'[t][i] = events[t][i]
  BY <1>3, <1>4
<1> SUFFICES ASSUME NEW t \in Stream, NEW u \in Stream, NEW i \in 1 .. Len(events'[t]),
                    NEW j \in 1 .. Len(events'[u]), events'[t][i].key = events'[u][j].key
             PROVE  t = u /\ i = j
  BY DEF OneEventPerKey
<1> QED
  BY <1>1, <1>2, <1>5 DEF OneEventPerKey

LEMMA NextLog ==
    ASSUME LogIInv, [LogNext]_logVars
    PROVE  LogIInv' /\ \A s \in Stream, k \in FactKey : facts'[s][k].source >= facts[s][k].source
<1>1. CASE UNCHANGED logVars
  BY <1>1 DEF logVars, LogIInv, LogTypeOK, OneEventPerKey, Row
<1>2. ASSUME NEW s \in Stream, NEW e \in Event, ~Recorded(e.key),
             Becomes(s, Append(events[s], e), projected[s], facts[s], rebuild[s])
      PROVE  LogIInv' /\ \A t \in Stream, k \in FactKey : facts'[t][k].source >= facts[t][k].source
  <2>1. OneEventPerKey'
    BY <1>2, AppendKeepsKeys DEF Becomes
  <2> QED
    BY <1>2, <2>1, BecomesKeeps DEF LogIInv
<1>3. ASSUME NEW s \in Stream, NEW n, NEW rows, NEW rb, Becomes(s, events[s], n, rows, rb)
      PROVE  LogIInv' /\ \A t \in Stream, k \in FactKey : facts'[t][k].source >= facts[t][k].source
  <2>1. events' = events
    BY <1>3 DEF Becomes, LogIInv, LogTypeOK
  <2>2. OneEventPerKey'
    BY <2>1 DEF LogIInv, OneEventPerKey
  <2> QED
    BY <1>3, <2>2, BecomesKeeps DEF LogIInv
<1> QED
  BY <1>1, <1>2, <1>3, LogSteps

LEMMA LogIInvImplies == LogIInv => LogInv
BY DEF LogIInv, LogInv, ViewIsLastWord, StreamOK

-------------------------------------------------------------------------------

(* What is shown of every stream, and what a rebuild has written so far, is    *)
(* the last word of the log, and no two events share a key.                    *)
THEOREM LogCorrect == LogSpec => []LogInv
<1>1. LogIInv /\ [LogNext]_logVars => LogIInv'
  BY NextLog
<1> QED
  BY InitLog, <1>1, LogIInvImplies, PTL DEF LogSpec

(* No projection and no rebuild takes a fact back to an earlier event.         *)
THEOREM NeverBackCorrect == LogSpec => NeverBack
<1>1. LogIInv /\ [LogNext]_logVars => LogIInv'
  BY NextLog
<1>2. LogIInv /\ [LogNext]_logVars
         => [\A s \in Stream : \A k \in FactKey : facts'[s][k].source >= facts[s][k].source]_logVars
  BY NextLog
<1> QED
  BY InitLog, <1>1, <1>2, PTL DEF LogSpec, NeverBack

-------------------------------------------------------------------------------
(***************************************************************************)
(* Proofs about MemoryExtraction: what the first part shows of the log     *)
(* holds of every log that extraction workers, reviewers, members and      *)
(* operators write, and nothing that was found in a run is forgotten,      *)
(* nothing unreviewed reaches a group and no answer is unaccounted for,    *)
(* for any number of runs, workers, reviewers, attempts and faults.        *)
(*                                                                         *)
(* The inductive invariant says how far the work of each process has got:  *)
(* a worker's facts are in the log or still ahead of it, a reviewer that   *)
(* has appended finds its event there, and a run that has recorded its     *)
(* exposures has one for each fact.                                        *)
(***************************************************************************)

JobRow == [state : {"none", "pending", "projection_pending"} \cup Leased \cup Ended,
           model : 0 .. MaxAttempts, projection : 0 .. MaxAttempts,
           holder : Worker \cup {Nobody}, leaseValid : BOOLEAN, facts : Seq(FactKey)]
WorkerRow == [job : Job \cup {NoJob}, phase : {"none"} \cup Leased, left : Seq(FactKey), proposed : BOOLEAN]

(* The model's result is saved: what it found does not change any more.        *)
Saved(row) == row.state \in {"projection_pending", "projecting", "succeeded", "failed"}

(* Everything that was found for job j is recorded.                            *)
Settled(j) == \A k \in FactsOf(j) :
    IF j \in InGroup THEN proposal[j][k] # "none" ELSE Recorded(JobKey(j, k))

WorkerOK(w) ==
    /\ worker[w] = Idle \/ (worker[w].job \in Job /\ worker[w].phase \in Leased)
    /\ worker[w].phase = "projecting" =>
          /\ Saved(job[worker[w].job])
          /\ worker[w].job \in InGroup => IF worker[w].proposed THEN Settled(worker[w].job)
                                          ELSE worker[w].left = job[worker[w].job].facts
          /\ worker[w].job \notin InGroup => \A k \in FactsOf(worker[w].job) :
                \/ Recorded(JobKey(worker[w].job, k))
                \/ \E i \in 1 .. Len(worker[w].left) : worker[w].left[i] = k

ReviewerOK(v) ==
    /\ reviewer[v].decision # "none" => reviewer[v].job \in InGroup /\ reviewer[v].factKey \in FactKey
    /\ reviewer[v].decision = "approved" => <<reviewer[v].job, reviewer[v].factKey>> \in approvers
    /\ reviewer[v].appended => Recorded(ProposalKey(reviewer[v].job, reviewer[v].factKey))

DeletionOK(d) == deletion[d].reading => deletion[d].factKey \in FactKey

ReaderOK(r) == reader[r].step \in {"recorded", "answered"} =>
    \A i \in DOMAIN reader[r].given : IsExposed(r, reader[r].given[i])

WorkOK == (\A w \in Worker : WorkerOK(w)) /\ NothingForgotten
(* The two halves of GroupFactsReviewed: what became of the proposals, and what *)
(* there is in the group's stream.                                             *)
ProposalsReviewed == \A j \in InGroup, k \in FactKey :
    /\ proposal[j][k] = "approved" => Recorded(ProposalKey(j, k))
    /\ Recorded(ProposalKey(j, k)) => <<j, k>> \in approvers
GroupKey(key) ==
    \/ \E j \in InGroup, k \in FactKey : key = ProposalKey(j, k)
    \/ \E o \in Command : key = OperatorKey(o)
GroupKeysOnly == \A i \in 1 .. Len(events[Group]) : GroupKey(events[Group][i].key)

ReviewOK == (\A v \in Reviewer : ReviewerOK(v)) /\ ProposalsReviewed
ReadOK == (\A r \in Run : ReaderOK(r)) /\ AnswerAccounted

MemoryIInv ==
    /\ LogIInv /\ WorkTypeOK
    /\ WorkOK /\ ReviewOK /\ ReadOK /\ GroupKeysOnly
    /\ \A d \in Deletion : DeletionOK(d)

(* The actions, by whose they are.                                             *)
WorkAction ==
    \/ \E j \in Job : Deliver(j) \/ ActionFails(j) \/ EnqueueDelivered(j) \/ ExpireLease(j)
    \/ \E w \in Worker : Claim(w) \/ WorkerStep(w) \/ WorkFails(w) \/ WorkerDies(w)
ReviewAction == \E v \in Reviewer : ReadProposal(v) \/ AppendApproved(v) \/ FinishReview(v) \/ ReviewDies(v)
DeleteAction == \E d \in Deletion : LookUpFact(d) \/ AppendDelete(d)
ReadAction ==
    \/ \E r \in Run :
          \/ loadMemory(r) \/ RecordExposures(r) \/ SaveCandidate(r)
          \/ AttemptFails(r) \/ MembershipUnclear(r)
    \/ \E r \in Run, f \in Fact : RecordFeedback(r, f)
LogAction == (\E o \in Command : GroupMemoryAdmin(o)) \/ Project \/ RebuildStream

LEMMA Actions ==
    Next <=> WorkAction \/ ReviewAction \/ DeleteAction \/ ReadAction \/ LogAction
BY DEF Next, WorkAction, ReviewAction, DeleteAction, ReadAction, LogAction

(* What each of them leaves alone.                                             *)
LEMMA WorkFrame == WorkAction => UNCHANGED <<reviewer, approvers, deletion, readVars>>
BY DEF WorkAction, Deliver, ActionFails, EnqueueDelivered, ExpireLease, Claim, WorkerStep, SaveResult, AppendFact,
       SaveGroupProposals, Complete, WorkFails, WorkerDies, reviewVars

LEMMA ReviewFrame == ReviewAction => UNCHANGED <<workVars, deletion, readVars>>
BY DEF ReviewAction, ReadProposal, AppendApproved, FinishReview, ReviewDies

LEMMA DeleteFrame == DeleteAction => UNCHANGED <<workVars, reviewVars, readVars, faults>>
BY DEF DeleteAction, LookUpFact, AppendDelete

LEMMA ReadFrame == ReadAction => UNCHANGED <<logVars, workVars, reviewVars, deletion>>
BY DEF ReadAction, loadMemory, RecordExposures, SaveCandidate, AttemptFails, MembershipUnclear, RecordFeedback

LEMMA LogFrame == LogAction => UNCHANGED <<workVars, reviewVars, deletion, readVars>>
BY DEF LogAction, GroupMemoryAdmin, Project, RebuildStream, Replay, OutsideLog

-------------------------------------------------------------------------------
(* The log                                                                    *)

LEMMA KeyKinds ==
    /\ Personal \in Stream /\ Group \in Stream
    /\ \A j \in Job, k \in FactKey : JobKey(j, k) \in EventKey /\ ProposalKey(j, k) \in EventKey
    /\ \A d \in Deletion : DeletionKey(d) \in EventKey
    /\ \A o \in Command : OperatorKey(o) \in EventKey
BY KeysType, StreamsType DEF AllKeys

(* Only the key of a proposal is the key of a proposal, and it tells which.    *)
LEMMA ProposalKeys ==
    ASSUME NEW i, NEW j, NEW k, NEW l, NEW d
    PROVE  /\ ProposalKey(i, k) # JobKey(j, l) /\ ProposalKey(i, k) # DeletionKey(d)
           /\ ProposalKey(i, k) # OperatorKey(d)
           /\ ProposalKey(i, k) = ProposalKey(j, l) => i = j /\ k = l
<1>1. ProposalKey(i, k)[1] = "proposal" /\ ProposalKey(i, k)[2] = i /\ ProposalKey(i, k)[3] = k
  BY DEF ProposalKey
<1>2. ProposalKey(j, l)[2] = j /\ ProposalKey(j, l)[3] = l
  BY DEF ProposalKey
<1>3. JobKey(j, l)[1] = "extraction" /\ DeletionKey(d)[1] = "deletion" /\ OperatorKey(d)[1] = "operator"
  BY DEF JobKey, DeletionKey, OperatorKey
<1> QED
  BY <1>1, <1>2, <1>3

(* What an append adds to the keys, and what everything else leaves there.     *)
LEMMA AppendRecords ==
    ASSUME LogIInv, NEW s \in Stream, NEW e \in Event, AppendEvent(s, e)
    PROVE  \A key : Recorded(key)' <=> Recorded(key) \/ key = e.key
<1>1. CASE Recorded(e.key)
  <2>1. events' = events
    BY <1>1 DEF AppendEvent
  <2> QED
    BY <1>1, <2>1 DEF Recorded
<1>2. CASE ~Recorded(e.key)
  <2>1. events' = [events EXCEPT ![s] = Append(events[s], e)] /\ events \in [Stream -> Seq(Event)]
    BY <1>2 DEF AppendEvent, LogIInv, LogTypeOK
  <2>2. /\ Len(events'[s]) = Len(events[s]) + 1 /\ Len(events[s]) \in Nat
        /\ \A i \in 1 .. Len(events[s]) : events'[s][i] = events[s][i]
        /\ events'[s][Len(events[s]) + 1] = e
    BY <2>1, AppendProperties
  <2>3. \A t \in Stream : t # s => events'[t] = events[t]
    BY <2>1
  <2>4. ASSUME NEW key, Recorded(key) PROVE Recorded(key)'
    <3>1. PICK t \in Stream : \E i \in 1 .. Len(events[t]) : events[t][i].key = key
      BY <2>4 DEF Recorded
    <3>2. PICK i \in 1 .. Len(events[t]) : events[t][i].key = key
      BY <3>1
    <3>3. i \in 1 .. Len(events'[t]) /\ events'[t][i].key = key
      BY <2>2, <2>3, <3>2
    <3> QED
      BY <3>3 DEF Recorded
  <2>5. Recorded(e.key)'
    <3>1. Len(events[s]) + 1 \in 1 .. Len(events'[s])
      BY <2>2
    <3> QED
      BY <2>2, <3>1 DEF Recorded
  <2>6. ASSUME NEW key, Recorded(key)', key # e.key PROVE Recorded(key)
    <3>1. PICK t \in Stream : \E i \in 1 .. Len(events'[t]) : events'[t][i].key = key
      BY <2>6 DEF Recorded
    <3>2. PICK i \in 1 .. Len(events'[t]) : events'[t][i].key = key
      BY <3>1
    <3>3. i \in 1 .. Len(events[t]) /\ events[t][i].key = key
      BY <2>2, <2>3, <2>6, <3>2
    <3> QED
      BY <3>3 DEF Recorded
  <2> QED
    BY <2>4, <2>5, <2>6
<1> QED
  BY <1>1, <1>2

(* A step of the log of which is known what it records.                        *)
Records(keys) == [LogNext]_logVars /\ \A key : Recorded(key)' <=> Recorded(key) \/ key \in keys

LEMMA AppendIsRecord ==
    ASSUME LogIInv, NEW s \in Stream, NEW e \in Event, AppendEvent(s, e)
    PROVE  Records({e.key})
BY AppendRecords DEF Records, LogNext

LEMMA QuietIsRecord ==
    ASSUME [LogNext]_logVars, UNCHANGED events
    PROVE  Records({})
BY DEF Records, Recorded

(* A step in which no proposal gets its event.                                 *)
NoneApproved ==
    /\ [LogNext]_logVars
    /\ \A key : Recorded(key) => Recorded(key)'
    /\ \A j \in Job, k \in FactKey : Recorded(ProposalKey(j, k))' => Recorded(ProposalKey(j, k))

LEMMA AppendFactRecords ==
    ASSUME MemoryIInv, NEW w \in Worker, AppendFact(w)
    PROVE  /\ worker[w].job \in Job \ InGroup /\ worker[w].left \in Seq(FactKey) /\ worker[w].left # <<>>
           /\ Records({JobKey(worker[w].job, Head(worker[w].left))})
<1> DEFINE j == worker[w].job
           k == Head(worker[w].left)
<1>1. worker[w] \in WorkerRow /\ worker[w].phase = "projecting" /\ j \notin InGroup /\ worker[w].left # <<>>
  BY DEF MemoryIInv, WorkTypeOK, WorkerRow, AppendFact
<1>2. j \in Job /\ worker[w].left \in Seq(FactKey)
  BY <1>1 DEF MemoryIInv, WorkOK, WorkerOK, WorkerRow, Idle
<1>3. k \in FactKey
  BY <1>1, <1>2, HeadTailProperties
<1>4. Upsert(k, JobKey(j, k)) \in Event /\ Upsert(k, JobKey(j, k)).key = JobKey(j, k)
  BY <1>2, <1>3, KeyKinds DEF Upsert, Event
<1>5. AppendEvent(Personal, Upsert(k, JobKey(j, k)))
  BY DEF AppendFact
<1>6. Records({JobKey(j, k)})
  BY <1>4, <1>5, KeyKinds, AppendIsRecord DEF MemoryIInv
<1> QED
  BY <1>1, <1>2, <1>6

LEMMA AppendApprovedRecords ==
    ASSUME MemoryIInv, NEW v \in Reviewer, AppendApproved(v)
    PROVE  /\ reviewer[v].job \in InGroup /\ reviewer[v].factKey \in FactKey
           /\ Records({ProposalKey(reviewer[v].job, reviewer[v].factKey)})
<1> DEFINE j == reviewer[v].job
           k == reviewer[v].factKey
<1>1. j \in InGroup /\ k \in FactKey
  BY DEF MemoryIInv, ReviewOK, ReviewerOK, AppendApproved
<1>2. Upsert(k, ProposalKey(j, k)) \in Event /\ Upsert(k, ProposalKey(j, k)).key = ProposalKey(j, k)
  BY <1>1, KeyKinds, JobsType DEF Upsert, Event
<1>3. AppendEvent(Group, Upsert(k, ProposalKey(j, k)))
  BY DEF AppendApproved
<1> QED
  BY <1>1, <1>2, <1>3, KeyKinds, AppendIsRecord DEF MemoryIInv

LEMMA QuietNoneApproved ==
    ASSUME [LogNext]_logVars, UNCHANGED events
    PROVE  NoneApproved
BY DEF NoneApproved, Recorded

LEMMA WorkRecords ==
    ASSUME MemoryIInv, WorkAction
    PROVE  NoneApproved
<1>1. CASE UNCHANGED logVars
  BY <1>1, QuietNoneApproved DEF logVars
<1>2. ASSUME NEW w \in Worker, AppendFact(w) PROVE NoneApproved
  BY <1>2, AppendFactRecords, ProposalKeys DEF Records, NoneApproved
<1> QED
  BY <1>1, <1>2 DEF WorkAction, Deliver, ActionFails, EnqueueDelivered, ExpireLease, Claim, WorkerStep, SaveResult,
        SaveGroupProposals, Complete, WorkFails, WorkerDies

LEMMA DeleteRecords ==
    ASSUME MemoryIInv, DeleteAction
    PROVE  NoneApproved
<1>1. CASE UNCHANGED logVars
  BY <1>1, QuietNoneApproved DEF logVars
<1>2. ASSUME NEW d \in Deletion, AppendDelete(d) PROVE NoneApproved
  <2> DEFINE e == Delete(deletion[d].factKey, DeletionKey(d))
  <2>1. e \in Event /\ e.key = DeletionKey(d)
    BY <1>2, KeyKinds DEF AppendDelete, MemoryIInv, DeletionOK, Delete, Event
  <2>2. Records({DeletionKey(d)})
    BY <1>2, <2>1, KeyKinds, AppendIsRecord DEF AppendDelete, MemoryIInv
  <2> QED
    BY <2>2, ProposalKeys DEF Records, NoneApproved
<1> QED
  BY <1>1, <1>2 DEF DeleteAction, LookUpFact

LEMMA OperatorEvents ==
    ASSUME NEW key \in EventKey, NEW e \in OperatorCommands(key)
    PROVE  e \in Event /\ e.key = key
BY DEF OperatorCommands, Upsert, Delete, Erase, Event

LEMMA LogRecords ==
    ASSUME MemoryIInv, LogAction
    PROVE  NoneApproved
<1>1. ASSUME NEW o \in Command, GroupMemoryAdmin(o) PROVE NoneApproved
  <2>1. PICK e \in OperatorCommands(OperatorKey(o)) : AppendEvent(Group, e)
    BY <1>1 DEF GroupMemoryAdmin
  <2>2. e \in Event /\ e.key = OperatorKey(o)
    BY KeyKinds, OperatorEvents
  <2>3. Records({OperatorKey(o)})
    BY <2>1, <2>2, KeyKinds, AppendIsRecord DEF MemoryIInv
  <2> QED
    BY <2>3, ProposalKeys DEF Records, NoneApproved
<1>2. CASE Project
  <2>1. [LogNext]_logVars /\ UNCHANGED events
    BY <1>2 DEF Project, ProjectNext, LogNext
  <2> QED
    BY <2>1, QuietNoneApproved
<1>3. CASE RebuildStream
  <2>1. PICK s \in Stream : Rebuilds(s)
    BY <1>3 DEF RebuildStream, Replay, Rebuilds
  <2>2. [LogNext]_logVars /\ UNCHANGED events
    BY <2>1 DEF Rebuilds, RebuildBegin, RebuildReplay, RebuildCommit, RebuildRollback, LogNext
  <2> QED
    BY <2>2, QuietNoneApproved
<1> QED
  BY <1>1, <1>2, <1>3 DEF LogAction

-------------------------------------------------------------------------------
(* The group's stream                                                         *)

(* An event that goes to another stream, or has a key of a proposal or an      *)
(* operator, keeps the group's stream what it is.                              *)
LEMMA AppendGroupKey ==
    ASSUME MemoryIInv, NEW s \in Stream, NEW e \in Event, AppendEvent(s, e),
           s = Group => GroupKey(e.key)
    PROVE  GroupKeysOnly'
<1>1. /\ events \in [Stream -> Seq(Event)] /\ GroupKeysOnly /\ Group \in Stream
      /\ events' = events \/ events' = [events EXCEPT ![s] = Append(@, e)]
  BY StreamsType DEF MemoryIInv, LogIInv, LogTypeOK, AppendEvent
<1>2. CASE events'[Group] = events[Group]
  BY <1>1, <1>2 DEF GroupKeysOnly
<1>3. CASE s = Group /\ events'[Group] = Append(events[Group], e)
  <2>1. /\ events[Group] \in Seq(Event) /\ Len(events[Group]) \in Nat
        /\ Len(events'[Group]) = Len(events[Group]) + 1
        /\ \A i \in 1 .. Len(events[Group]) : events'[Group][i] = events[Group][i]
        /\ events'[Group][Len(events[Group]) + 1] = e
    BY <1>1, <1>3, AppendProperties
  <2> QED
    BY <1>1, <1>3, <2>1 DEF GroupKeysOnly
<1> QED
  BY <1>1, <1>2, <1>3

LEMMA GroupKeysKept ==
    ASSUME MemoryIInv, [Next]_vars
    PROVE  GroupKeysOnly'
<1>1. CASE UNCHANGED events
  BY <1>1 DEF MemoryIInv, GroupKeysOnly
<1>2. ASSUME NEW w \in Worker, AppendFact(w) PROVE GroupKeysOnly'
  <2> DEFINE e == Upsert(Head(worker[w].left), JobKey(worker[w].job, Head(worker[w].left)))
  <2>1. worker[w].job \in Job /\ Head(worker[w].left) \in FactKey
    BY <1>2, AppendFactRecords, HeadTailProperties
  <2>2. e \in Event /\ AppendEvent(Personal, e) /\ Personal \in Stream /\ Personal # Group
    BY <1>2, <2>1, KeyKinds DEF AppendFact, Upsert, Event, Personal, Group
  <2> HIDE DEF e
  <2> QED
    BY <2>2, AppendGroupKey
<1>3. ASSUME NEW v \in Reviewer, AppendApproved(v) PROVE GroupKeysOnly'
  <2> DEFINE j == reviewer[v].job
             k == reviewer[v].factKey
             e == Upsert(k, ProposalKey(j, k))
  <2>1. j \in InGroup /\ k \in FactKey
    BY <1>3, AppendApprovedRecords
  <2>2. e \in Event /\ e.key = ProposalKey(j, k) /\ AppendEvent(Group, e) /\ Group \in Stream
    BY <1>3, <2>1, KeyKinds, JobsType DEF AppendApproved, Upsert, Event
  <2>3. GroupKey(e.key)
    BY <2>1, <2>2 DEF GroupKey
  <2> HIDE DEF e
  <2> QED
    BY <2>2, <2>3, AppendGroupKey
<1>4. ASSUME NEW d \in Deletion, AppendDelete(d) PROVE GroupKeysOnly'
  <2> DEFINE e == Delete(deletion[d].factKey, DeletionKey(d))
  <2>1. e \in Event /\ AppendEvent(Personal, e) /\ Personal \in Stream /\ Personal # Group
    BY <1>4, KeyKinds DEF AppendDelete, MemoryIInv, DeletionOK, Delete, Event, Personal, Group
  <2> HIDE DEF e
  <2> QED
    BY <2>1, AppendGroupKey
<1>5. ASSUME NEW o \in Command, GroupMemoryAdmin(o) PROVE GroupKeysOnly'
  <2>1. PICK e \in OperatorCommands(OperatorKey(o)) : AppendEvent(Group, e)
    BY <1>5 DEF GroupMemoryAdmin
  <2>2. e \in Event /\ e.key = OperatorKey(o) /\ Group \in Stream
    BY KeyKinds, OperatorEvents
  <2>3. GroupKey(e.key)
    BY <2>2 DEF GroupKey
  <2> QED
    BY <2>1, <2>2, <2>3, AppendGroupKey
<1>6. ASSUME WorkAction
      PROVE  UNCHANGED events \/ \E w \in Worker : AppendFact(w)
  BY <1>6 DEF WorkAction, Deliver, ActionFails, EnqueueDelivered, ExpireLease, Claim, WorkerStep,
       SaveResult, SaveGroupProposals, Complete, WorkFails, WorkerDies, logVars
<1>7. ASSUME ReviewAction
      PROVE  UNCHANGED events \/ \E v \in Reviewer : AppendApproved(v)
  BY <1>7 DEF ReviewAction, ReadProposal, FinishReview, ReviewDies, logVars
<1>8. ASSUME DeleteAction
      PROVE  UNCHANGED events \/ \E d \in Deletion : AppendDelete(d)
  BY <1>8 DEF DeleteAction, LookUpFact, logVars
<1>9. ASSUME ReadAction PROVE UNCHANGED events
  BY <1>9, ReadFrame DEF logVars
<1>10. ASSUME LogAction
       PROVE  UNCHANGED events \/ \E o \in Command : GroupMemoryAdmin(o)
  BY <1>10 DEF LogAction, Project, ProjectNext, RebuildStream, Replay, RebuildBegin, RebuildReplay,
       RebuildCommit, RebuildRollback
<1>11. UNCHANGED vars => UNCHANGED events
  BY DEF vars, logVars
<1> QED
  BY <1>1, <1>2, <1>3, <1>4, <1>5, <1>6, <1>7, <1>8, <1>9, <1>10, <1>11, Actions

-------------------------------------------------------------------------------
(* Jobs                                                                       *)

(* What happens to the rows: a saved result stays as it is, and a job succeeds *)
(* when everything is recorded.                                                *)
JobsMove ==
    /\ job' \in [Job -> JobRow]
    /\ \A j \in Job :
          /\ Saved(job[j]) => Saved(job'[j]) /\ job'[j].facts = job[j].facts
          /\ job'[j].state = "succeeded" => Saved(job[j]) /\ Settled(j)

LEMMA FreedRow ==
    ASSUME NEW row \in JobRow, NEW st \in {"pending", "projection_pending"} \cup Ended
    PROVE  /\ [Free(row) EXCEPT !.state = st] \in JobRow
           /\ [Free(row) EXCEPT !.state = st].state = st
           /\ [Free(row) EXCEPT !.state = st].facts = row.facts
BY DEF Free, JobRow, Leased, Ended

LEMMA JobTypes ==
    ASSUME MemoryIInv
    PROVE  /\ job \in [Job -> JobRow] /\ worker \in [Worker -> WorkerRow]
           /\ \A j \in Job : job[j].state = "succeeded" => Saved(job[j]) /\ Settled(j)
           /\ \A w \in Worker : worker[w] # Idle => worker[w].job \in Job /\ worker[w].phase \in Leased
BY DEF MemoryIInv, WorkTypeOK, JobRow, WorkerRow, WorkOK, NothingForgotten, Settled, Saved, WorkerOK

LEMMA SweepMoves ==
    ASSUME MemoryIInv
    PROVE  /\ FailExhausted(job) \in [Job -> JobRow]
           /\ \A j \in Job :
                 \/ FailExhausted(job)[j] = job[j]
                 \/ FailExhausted(job)[j].state = "failed" /\ FailExhausted(job)[j].facts = job[j].facts
<1>1. ASSUME NEW j \in Job
      PROVE  /\ FailExhausted(job)[j] \in JobRow
             /\ \/ FailExhausted(job)[j] = job[j]
                \/ FailExhausted(job)[j].state = "failed" /\ FailExhausted(job)[j].facts = job[j].facts
  <2> DEFINE row == [Free(job[j]) EXCEPT !.state = "failed"]
  <2>1. FailExhausted(job)[j] = job[j] \/ FailExhausted(job)[j] = row
    BY DEF FailExhausted
  <2>2. job[j] \in JobRow
    BY JobTypes
  <2>3. row \in JobRow /\ row.state = "failed" /\ row.facts = job[j].facts
    BY <2>2, FreedRow DEF Ended
  <2> HIDE DEF row
  <2> QED
    BY <2>1, <2>2, <2>3
<1>2. FailExhausted(job) = [j \in Job |-> FailExhausted(job)[j]]
  BY DEF FailExhausted
<1> QED
  BY <1>1, <1>2

LEMMA ClaimedRow ==
    ASSUME NEW row \in JobRow, NEW w \in Worker, ToExtract(row) \/ ToProject(row)
    PROVE  /\ Claimed(row, w) \in JobRow /\ Claimed(row, w).facts = row.facts
           /\ \/ Claimed(row, w).state = "projecting" /\ Saved(row)
              \/ Claimed(row, w).state = "extracting" /\ ~Saved(row)
<1>1. row.model \in 0 .. MaxAttempts /\ row.projection \in 0 .. MaxAttempts /\ MaxAttempts \in Nat
  BY BoundsType DEF JobRow
<1>2. CASE ToProject(row)
  <2>1. row.projection + 1 \in 0 .. MaxAttempts
    BY <1>1, <1>2 DEF ToProject
  <2>2. Claimed(row, w) = [row EXCEPT !.state = "projecting", !.projection = row.projection + 1,
                                      !.holder = w, !.leaseValid = TRUE]
    BY <1>2 DEF Claimed
  <2>3. Saved(row)
    BY <1>2 DEF ToProject, Saved
  <2>4. Claimed(row, w) \in JobRow
    BY <2>1, <2>2 DEF JobRow, Leased
  <2> QED
    BY <2>2, <2>3, <2>4 DEF JobRow
<1>3. CASE ~ToProject(row)
  <2>1. row.model + 1 \in 0 .. MaxAttempts
    BY <1>1, <1>3 DEF ToExtract
  <2>2. Claimed(row, w) = [row EXCEPT !.state = "extracting", !.model = row.model + 1,
                                      !.holder = w, !.leaseValid = TRUE]
    BY <1>3 DEF Claimed
  <2>3. ~Saved(row)
    BY <1>3 DEF ToExtract, Saved
  <2>4. Claimed(row, w) \in JobRow
    BY <2>1, <2>2 DEF JobRow, Leased
  <2> QED
    BY <2>2, <2>3, <2>4 DEF JobRow
<1> QED
  BY <1>2, <1>3

(* One row moves, the others stay.                                             *)
LEMMA OneMoves ==
    ASSUME MemoryIInv, NEW j \in Job, NEW row \in JobRow, job' = [job EXCEPT ![j] = row],
           Saved(job[j]) => Saved(row) /\ row.facts = job[j].facts,
           row.state = "succeeded" => Saved(job[j]) /\ Settled(j)
    PROVE  JobsMove
BY JobTypes DEF JobsMove

LEMMA AllStay == ASSUME MemoryIInv, job' = job PROVE JobsMove
BY JobTypes DEF JobsMove

LEMMA RetriedMoves ==
    ASSUME MemoryIInv, NEW w \in Worker, worker[w] # Idle, job' = Retried(w)
    PROVE  JobsMove
<1> DEFINE j == worker[w].job
<1>1. j \in Job /\ worker[w].phase \in Leased /\ job \in [Job -> JobRow]
  BY JobTypes
<1>2. CASE ~HoldsJob(w)
  BY <1>2, AllStay DEF Retried
<1>3. CASE HoldsJob(w)
  <2>1. PICK st \in {"pending", "projection_pending", "failed"} :
           /\ job' = [job EXCEPT ![j] = [Free(job[j]) EXCEPT !.state = st]]
           /\ st = "pending" => worker[w].phase # "projecting"
    <3> DEFINE last == IF worker[w].phase = "projecting" THEN job[j].projection >= MaxAttempts
                       ELSE job[j].model >= MaxAttempts
               next == IF last THEN "failed"
                       ELSE IF worker[w].phase = "projecting" THEN "projection_pending" ELSE "pending"
    <3>1. job' = [job EXCEPT ![j] = [Free(job[j]) EXCEPT !.state = next]]
      BY <1>3 DEF Retried
    <3>2. /\ next \in {"pending", "projection_pending", "failed"}
          /\ next = "pending" => worker[w].phase # "projecting"
      OBVIOUS
    <3> HIDE DEF next
    <3> QED
      BY <3>1, <3>2
  <2> DEFINE row == [Free(job[j]) EXCEPT !.state = st]
  <2>2. row \in JobRow /\ row.state = st /\ row.facts = job[j].facts
    BY <1>1, FreedRow DEF Ended
  <2> HIDE DEF row
  <2>3. Saved(job[j]) => st # "pending"
    BY <1>1, <1>3, <2>1 DEF HoldsJob, Saved, Leased
  <2> QED
    BY <1>1, <2>1, <2>2, <2>3, OneMoves DEF Saved, row
<1> QED
  BY <1>2, <1>3

LEMMA FoundFacts ==
    ASSUME MemoryIInv, NEW w \in Worker, worker[w].phase = "extracting",
           NEW found \in ExtractedOf[worker[w].job]
    PROVE  found \in Seq(FactKey)
BY JobTypes, JobsType DEF Idle

LEMMA SaveMoves ==
    ASSUME MemoryIInv, NEW w \in Worker, SaveResult(w)
    PROVE  JobsMove
<1> DEFINE j == worker[w].job
<1>1. PICK found \in ExtractedOf[j] :
         job' = IF HoldsJob(w) THEN [job EXCEPT ![j] =
                     [Free(job[j]) EXCEPT !.state = "projection_pending", !.facts = found]]
                ELSE job
  BY DEF SaveResult
<1>2. j \in Job /\ worker[w].phase = "extracting" /\ job \in [Job -> JobRow]
  BY JobTypes DEF SaveResult, Idle
<1>3. CASE ~HoldsJob(w)
  BY <1>1, <1>3, AllStay
<1>4. CASE HoldsJob(w)
  <2> DEFINE row == [Free(job[j]) EXCEPT !.state = "projection_pending", !.facts = found]
  <2>1. ~Saved(job[j])
    BY <1>2, <1>4 DEF HoldsJob, Saved
  <2>2. found \in Seq(FactKey)
    BY <1>2, FoundFacts
  <2>3. row \in JobRow /\ row.state = "projection_pending"
    BY <1>2, <2>2 DEF Free, JobRow
  <2>4. job' = [job EXCEPT ![j] = row]
    BY <1>1, <1>4
  <2> HIDE DEF row
  <2> QED
    BY <1>2, <2>1, <2>3, <2>4, OneMoves DEF Saved
<1> QED
  BY <1>3, <1>4

LEMMA CompleteMoves ==
    ASSUME MemoryIInv, NEW w \in Worker, Complete(w)
    PROVE  JobsMove
<1> DEFINE j == worker[w].job
           row == [Free(job[j]) EXCEPT !.state = "succeeded"]
<1>1. /\ worker[w].phase = "projecting" /\ AllDone(w)
      /\ job' = IF HoldsJob(w) THEN [job EXCEPT ![j] = row] ELSE job
  BY DEF Complete
<1>2. j \in Job /\ job \in [Job -> JobRow] /\ worker[w] \in WorkerRow
  BY <1>1, JobTypes DEF Idle
<1>3. Saved(job[j]) /\ Settled(j)
  <2>1. WorkerOK(w) /\ worker[w].left = <<>> /\ (j \in InGroup => worker[w].proposed)
    BY <1>1 DEF MemoryIInv, WorkOK, AllDone
  <2>2. j \notin InGroup => \A k \in FactsOf(j) : Recorded(JobKey(j, k))
    BY <1>1, <2>1 DEF WorkerOK
  <2>3. j \in InGroup => Settled(j)
    BY <1>1, <2>1 DEF WorkerOK
  <2> QED
    BY <1>1, <2>1, <2>2, <2>3 DEF WorkerOK, Settled
<1>4. row \in JobRow /\ row.state = "succeeded" /\ row.facts = job[j].facts
  BY <1>2, FreedRow DEF Ended
<1> HIDE DEF row
<1>5. CASE HoldsJob(w)
  BY <1>1, <1>2, <1>3, <1>4, <1>5, OneMoves DEF Saved
<1>6. CASE ~HoldsJob(w)
  BY <1>1, <1>6, AllStay
<1> QED
  BY <1>5, <1>6

(* The rows after a claim, with the row that was claimed.                      *)
LEMMA ClaimMoves ==
    ASSUME MemoryIInv, NEW w \in Worker, Claim(w)
    PROVE  /\ JobsMove
           /\ \/ worker' = worker
              \/ \E j \in Job :
                    /\ worker' = [worker EXCEPT ![w] = [job |-> j, phase |-> job'[j].state,
                                                        left |-> job'[j].facts, proposed |-> FALSE]]
                    /\ (job'[j].state = "projecting" /\ Saved(job'[j])) \/ job'[j].state = "extracting"
<1> DEFINE swept == FailExhausted(job)
<1>1. /\ swept \in [Job -> JobRow]
      /\ \A j \in Job : swept[j] = job[j] \/ (swept[j].state = "failed" /\ swept[j].facts = job[j].facts)
  BY SweepMoves
<1> HIDE DEF swept
<1>2. CASE job' = swept /\ UNCHANGED worker
  <2>1. ASSUME NEW j \in Job
        PROVE  /\ Saved(job[j]) => Saved(job'[j]) /\ job'[j].facts = job[j].facts
               /\ job'[j].state = "succeeded" => Saved(job[j]) /\ Settled(j)
    BY <1>1, <1>2, JobTypes DEF Saved
  <2> QED
    BY <1>1, <1>2, <2>1 DEF JobsMove
<1>3. ASSUME NEW j \in Candidates(swept), job' = [swept EXCEPT ![j] = Claimed(swept[j], w)],
             worker' = [worker EXCEPT ![w] = [job |-> j, phase |-> job'[j].state, left |-> job'[j].facts,
                                              proposed |-> FALSE]]
      PROVE  /\ JobsMove
             /\ j \in Job
             /\ (job'[j].state = "projecting" /\ Saved(job'[j])) \/ job'[j].state = "extracting"
  <2>1. j \in Job /\ swept[j] \in JobRow /\ (ToExtract(swept[j]) \/ ToProject(swept[j]))
    BY <1>1, <1>3 DEF Candidates
  <2> DEFINE row == Claimed(swept[j], w)
  <2>2. /\ row \in JobRow /\ row.facts = swept[j].facts
        /\ \/ row.state = "projecting" /\ Saved(swept[j])
           \/ row.state = "extracting" /\ ~Saved(swept[j])
    BY <2>1, ClaimedRow
  <2> HIDE DEF row
  <2>3. job'[j] = row /\ \A i \in Job : i # j => job'[i] = swept[i]
    BY <1>1, <1>3, <2>1 DEF row
  <2>4. job' \in [Job -> JobRow]
    BY <1>1, <1>3, <2>1, <2>2 DEF row
  <2>5. swept[j] = job[j]
    BY <1>1, <2>1 DEF ToExtract, ToProject
  <2>6. ASSUME NEW i \in Job
        PROVE  /\ Saved(job[i]) => Saved(job'[i]) /\ job'[i].facts = job[i].facts
               /\ job'[i].state = "succeeded" => Saved(job[i]) /\ Settled(i)
    <3>1. CASE i = j
      BY <2>2, <2>3, <2>5, <3>1 DEF Saved
    <3>2. CASE i # j
      BY <1>1, <2>3, <3>2, JobTypes DEF Saved
    <3> QED
      BY <3>1, <3>2
  <2> QED
    BY <2>1, <2>2, <2>3, <2>4, <2>6 DEF JobsMove, Saved
<1> QED
  BY <1>2, <1>3 DEF Claim, swept

-------------------------------------------------------------------------------
(* Workers                                                                    *)

(* What was recorded of a saved job stays recorded.                            *)
LEMMA StaysSettled ==
    ASSUME MemoryIInv, JobsMove, \A key : Recorded(key) => Recorded(key)',
           \A i \in Job, k \in FactKey : proposal[i][k] # "none" => proposal'[i][k] # "none",
           NEW j \in Job, Saved(job[j])
    PROVE  /\ Saved(job'[j]) /\ FactsOf(j)' = FactsOf(j) /\ FactsOf(j) \subseteq FactKey
           /\ Settled(j) => Settled(j)'
<1>1. Saved(job'[j]) /\ job'[j].facts = job[j].facts
  BY DEF JobsMove
<1>2. FactsOf(j)' = FactsOf(j)
  BY <1>1 DEF FactsOf
<1>3. job[j].facts \in Seq(FactKey)
  BY JobTypes DEF JobRow
<1>4. FactsOf(j) \subseteq FactKey
  BY <1>3 DEF FactsOf
<1> QED
  BY <1>1, <1>2, <1>4 DEF Settled

(* A worker that does nothing itself is not put in the wrong by what others do.*)
LEMMA WorkerStays ==
    ASSUME MemoryIInv, JobsMove, \A key : Recorded(key) => Recorded(key)',
           \A i \in Job, k \in FactKey : proposal[i][k] # "none" => proposal'[i][k] # "none",
           NEW w \in Worker, worker'[w] = worker[w]
    PROVE  WorkerOK(w)'
<1>1. WorkerOK(w)
  BY DEF MemoryIInv, WorkOK
<1>2. (worker'[w] = Idle \/ (worker'[w].job \in Job /\ worker'[w].phase \in Leased))
  BY <1>1 DEF WorkerOK
<1> DEFINE j == worker[w].job
<1>3. CASE worker[w].phase # "projecting"
  BY <1>2, <1>3 DEF WorkerOK, Idle, Leased
<1>4. CASE worker[w].phase = "projecting"
  <2>1. j \in Job /\ Saved(job[j])
    BY <1>1, <1>4 DEF WorkerOK, Idle
  <2>2. /\ Saved(job'[j]) /\ FactsOf(j)' = FactsOf(j) /\ job'[j].facts = job[j].facts
        /\ Settled(j) => Settled(j)'
    BY <2>1, StaysSettled DEF JobsMove
  <2>3. j \in InGroup => IF worker'[w].proposed THEN Settled(j)' ELSE worker'[w].left = job'[j].facts
    BY <1>1, <1>4, <2>2 DEF WorkerOK
  <2>4. j \notin InGroup => \A k \in FactsOf(j)' :
             Recorded(JobKey(j, k))' \/ \E i \in 1 .. Len(worker'[w].left) : worker'[w].left[i] = k
    BY <1>1, <1>4, <2>2 DEF WorkerOK
  <2>5. worker'[w].job = j
    OBVIOUS
  <2> QED
    BY <1>2, <2>2, <2>3, <2>4, <2>5 DEF WorkerOK
<1> QED
  BY <1>3, <1>4

LEMMA IdleWorker ==
    ASSUME NEW w \in Worker, worker'[w] = Idle PROVE WorkerOK(w)'
BY DEF WorkerOK, Idle

(* The jobs that are done stay done.                                           *)
LEMMA NothingForgottenStays ==
    ASSUME MemoryIInv, JobsMove, \A key : Recorded(key) => Recorded(key)',
           \A i \in Job, k \in FactKey : proposal[i][k] # "none" => proposal'[i][k] # "none"
    PROVE  NothingForgotten'
<1>1. ASSUME NEW j \in Job, job'[j].state = "succeeded" PROVE Settled(j)'
  <2>1. Saved(job[j]) /\ Settled(j)
    BY <1>1 DEF JobsMove
  <2> QED
    BY <2>1, StaysSettled
<1> QED
  BY <1>1 DEF NothingForgotten, Settled

(* The proposals only leave "none", and none becomes approved by the work of a *)
(* worker.                                                                     *)
ProposalsGrow ==
    /\ proposal' \in [Job -> [FactKey -> {"none", "pending", "approved", "rejected"}]]
    /\ \A i \in Job, k \in FactKey :
          /\ proposal[i][k] # "none" => proposal'[i][k] # "none"
          /\ proposal'[i][k] = "approved" => proposal[i][k] = "approved"

WorkTypes ==
    /\ delivered' \subseteq Job /\ actionFailed' \subseteq delivered'
    /\ worker' \in [Worker -> WorkerRow] /\ faults' \in 0 .. MaxFaults

LEMMA QuitTypes ==
    ASSUME MemoryIInv, NEW w \in Worker, Quit(w)
    PROVE  /\ worker' \in [Worker -> WorkerRow] /\ worker'[w] = Idle
           /\ \A v \in Worker \ {w} : worker'[v] = worker[v]
<1>1. Idle \in WorkerRow
  BY DEF Idle, WorkerRow
<1> QED
  BY <1>1, JobTypes DEF Quit

LEMMA FaultType == ASSUME MemoryIInv, Fault PROVE faults' \in 0 .. MaxFaults
BY BoundsType DEF MemoryIInv, WorkTypeOK, Fault

LEMMA ProposalsStay == ASSUME MemoryIInv, proposal' = proposal PROVE ProposalsGrow
BY DEF MemoryIInv, WorkTypeOK, ProposalsGrow

LEMMA TypesNow ==
    ASSUME MemoryIInv
    PROVE  /\ delivered \subseteq Job /\ actionFailed \subseteq delivered
           /\ worker \in [Worker -> WorkerRow] /\ faults \in 0 .. MaxFaults
BY JobTypes DEF MemoryIInv, WorkTypeOK

(* Steps in which a worker stops, and steps of no worker.                      *)
LEMMA StopSteps ==
    ASSUME MemoryIInv, NEW w \in Worker,
           SaveResult(w) \/ Complete(w) \/ WorkFails(w) \/ WorkerDies(w)
    PROVE  /\ JobsMove /\ ProposalsGrow /\ WorkTypes
           /\ \A v \in Worker : worker'[v] \in {worker[v], Idle}
<1>1. Quit(w) /\ proposal' = proposal /\ UNCHANGED <<delivered, actionFailed>>
  BY DEF SaveResult, Complete, WorkFails, WorkerDies, reviewVars
<1>2. faults' \in 0 .. MaxFaults
  BY FaultType, TypesNow DEF SaveResult, Complete, WorkFails, WorkerDies
<1>3. JobsMove
  <2>1. CASE SaveResult(w)
    BY <2>1, SaveMoves
  <2>2. CASE Complete(w)
    BY <2>2, CompleteMoves
  <2>3. CASE WorkFails(w)
    BY <2>3, RetriedMoves DEF WorkFails
  <2>4. CASE WorkerDies(w)
    BY <2>4, AllStay DEF WorkerDies
  <2> QED
    BY <2>1, <2>2, <2>3, <2>4
<1> QED
  BY <1>1, <1>2, <1>3, QuitTypes, TypesNow, ProposalsStay DEF WorkTypes

LEMMA RowSteps ==
    ASSUME MemoryIInv, NEW j \in Job, Deliver(j) \/ ActionFails(j) \/ EnqueueDelivered(j) \/ ExpireLease(j)
    PROVE  JobsMove /\ ProposalsGrow /\ WorkTypes /\ worker' = worker
<1>1. proposal' = proposal /\ worker' = worker
  BY DEF Deliver, ActionFails, EnqueueDelivered, ExpireLease, reviewVars
<1>2. CASE Deliver(j)
  BY <1>1, <1>2, AllStay, TypesNow, ProposalsStay DEF Deliver, WorkTypes
<1>3. CASE EnqueueDelivered(j)
  <2>1. NewJob \in JobRow /\ NewJob.state = "pending"
    BY BoundsType DEF NewJob, JobRow
  <2>2. /\ job' = [job EXCEPT ![j] = NewJob] /\ ~Saved(job[j])
        /\ UNCHANGED <<delivered, actionFailed, faults>>
    BY <1>3 DEF EnqueueDelivered, Saved
  <2>3. JobsMove
    BY <2>1, <2>2, OneMoves
  <2> QED
    BY <1>1, <2>2, <2>3, TypesNow, ProposalsStay DEF WorkTypes
<1>4. CASE ExpireLease(j)
  <2> DEFINE row == [job[j] EXCEPT !.leaseValid = FALSE]
  <2>1. job[j] \in JobRow
    BY JobTypes
  <2>2. row \in JobRow /\ row.state = job[j].state /\ row.facts = job[j].facts
    BY <2>1 DEF JobRow
  <2>3. job' = [job EXCEPT ![j] = row] /\ UNCHANGED <<delivered, actionFailed>>
    BY <1>4 DEF ExpireLease
  <2> HIDE DEF row
  <2>4. JobsMove
    BY <2>2, <2>3, OneMoves, JobTypes DEF Saved
  <2>5. faults' \in 0 .. MaxFaults
    BY <1>4, FaultType, TypesNow DEF ExpireLease
  <2> QED
    BY <1>1, <2>3, <2>4, <2>5, TypesNow, ProposalsStay DEF WorkTypes
<1>5. CASE ActionFails(j)
  BY <1>1, <1>5, AllStay, TypesNow, ProposalsStay DEF ActionFails, WorkTypes
<1> QED
  BY <1>2, <1>3, <1>4, <1>5

LEMMA ClaimStep ==
    ASSUME MemoryIInv, NEW w \in Worker, Claim(w)
    PROVE  /\ JobsMove /\ ProposalsGrow /\ WorkTypes
           /\ \A v \in Worker : worker'[v] = worker[v] \/ WorkerOK(v)'
<1>1. JobsMove
  BY ClaimMoves
<1>2. proposal' = proposal /\ UNCHANGED <<delivered, actionFailed>> /\ faults' = faults
  BY DEF Claim, reviewVars
<1>3. CASE worker' = worker
  BY <1>1, <1>2, <1>3, TypesNow, ProposalsStay DEF WorkTypes
<1>4. ASSUME NEW j \in Job,
             worker' = [worker EXCEPT ![w] = [job |-> j, phase |-> job'[j].state, left |-> job'[j].facts,
                                              proposed |-> FALSE]],
             (job'[j].state = "projecting" /\ Saved(job'[j])) \/ job'[j].state = "extracting"
      PROVE  /\ JobsMove /\ ProposalsGrow /\ WorkTypes
             /\ \A v \in Worker : worker'[v] = worker[v] \/ WorkerOK(v)'
  <2> DEFINE row == [job |-> j, phase |-> job'[j].state, left |-> job'[j].facts, proposed |-> FALSE]
  <2>1. job'[j] \in JobRow
    BY <1>1 DEF JobsMove
  <2>2. row \in WorkerRow
    BY <1>4, <2>1 DEF JobRow, WorkerRow, Leased
  <2>3. /\ worker'[w] = row /\ worker' \in [Worker -> WorkerRow]
        /\ \A v \in Worker : v # w => worker'[v] = worker[v]
    BY <1>4, <2>2, TypesNow
  <2>4. FactsOf(j)' = {job'[j].facts[i] : i \in 1 .. Len(job'[j].facts)}
    BY DEF FactsOf
  <2>5. \A k \in FactsOf(j)' : \E i \in 1 .. Len(row.left) : row.left[i] = k
    BY <2>4
  <2>6. row.job = j /\ row.phase = job'[j].state /\ row.left = job'[j].facts /\ row.proposed = FALSE
    OBVIOUS
  <2> HIDE DEF row
  <2>7. WorkerOK(w)'
    BY <1>4, <2>3, <2>5, <2>6 DEF WorkerOK, Leased
  <2> QED
    BY <1>1, <1>2, <2>3, <2>7, TypesNow, ProposalsStay DEF WorkTypes
<1> QED
  BY <1>3, <1>4, ClaimMoves

LEMMA AppendFactStep ==
    ASSUME MemoryIInv, NEW w \in Worker, AppendFact(w)
    PROVE  /\ JobsMove /\ ProposalsGrow /\ WorkTypes
           /\ \A v \in Worker : worker'[v] = worker[v] \/ WorkerOK(v)'
<1>0. PICK j \in Job, left \in Seq(FactKey) : j = worker[w].job /\ left = worker[w].left
  BY AppendFactRecords
<1>1. j \notin InGroup /\ left # <<>> /\ Records({JobKey(j, Head(left))})
  BY <1>0, AppendFactRecords
<1>2. /\ worker' = [worker EXCEPT ![w].left = Tail(left)]
      /\ proposal' = proposal /\ UNCHANGED <<delivered, actionFailed>> /\ faults' = faults /\ job' = job
      /\ worker[w].phase = "projecting"
  BY <1>0 DEF AppendFact, reviewVars
<1>3. /\ Tail(left) \in Seq(FactKey) /\ Len(Tail(left)) = Len(left) - 1 /\ Len(left) \in Nat
      /\ Head(left) = left[1] /\ \A i \in 1 .. Len(Tail(left)) : Tail(left)[i] = left[i + 1]
  BY <1>1, HeadTailProperties
<1>4. worker[w] \in WorkerRow
  BY TypesNow
<1>5. /\ worker'[w] = [worker[w] EXCEPT !.left = Tail(left)]
      /\ worker' \in [Worker -> WorkerRow] /\ \A v \in Worker : v # w => worker'[v] = worker[v]
  BY <1>2, <1>3, <1>4, TypesNow DEF WorkerRow
<1>6. worker'[w].job = j /\ worker'[w].phase = "projecting" /\ worker'[w].left = Tail(left)
  BY <1>0, <1>2, <1>4, <1>5 DEF WorkerRow
<1>7. Saved(job[j]) /\ \A k \in FactsOf(j) : Recorded(JobKey(j, k)) \/ \E i \in 1 .. Len(left) : left[i] = k
  BY <1>0, <1>1, <1>2 DEF MemoryIInv, WorkOK, WorkerOK
<1>8. ASSUME NEW k \in FactsOf(j)
      PROVE  Recorded(JobKey(j, k))' \/ \E i \in 1 .. Len(Tail(left)) : Tail(left)[i] = k
  <2>1. CASE Recorded(JobKey(j, k))
    BY <1>1, <2>1 DEF Records
  <2>2. ASSUME NEW i \in 1 .. Len(left), left[i] = k
        PROVE  Recorded(JobKey(j, k))' \/ \E m \in 1 .. Len(Tail(left)) : Tail(left)[m] = k
    <3>1. CASE i = 1
      BY <1>1, <1>3, <2>2, <3>1 DEF Records
    <3>2. CASE i # 1
      <4>1. i - 1 \in 1 .. Len(Tail(left)) /\ Tail(left)[i - 1] = left[(i - 1) + 1] /\ (i - 1) + 1 = i
        BY <1>3, <3>2
      <4> QED
        BY <2>2, <4>1
    <3> QED
      BY <3>1, <3>2
  <2> QED
    BY <1>7, <2>1, <2>2
<1>9. FactsOf(j)' = FactsOf(j)
  BY <1>2 DEF FactsOf
<1>10. WorkerOK(w)'
  BY <1>1, <1>2, <1>6, <1>7, <1>8, <1>9 DEF WorkerOK, Leased
<1> QED
  BY <1>2, <1>5, <1>10, AllStay, TypesNow, ProposalsStay DEF WorkTypes

LEMMA SaveGroupProposalsStep ==
    ASSUME MemoryIInv, NEW w \in Worker, SaveGroupProposals(w)
    PROVE  /\ JobsMove /\ ProposalsGrow /\ WorkTypes
           /\ \A v \in Worker : worker'[v] = worker[v] \/ WorkerOK(v)'
<1>0. PICK j \in Job : j = worker[w].job /\ worker[w].phase = "projecting"
  BY JobTypes DEF SaveGroupProposals, Idle
<1> DEFINE found == {worker[w].left[i] : i \in 1 .. Len(worker[w].left)}
           new == [k \in FactKey |-> IF k \in found /\ proposal[j][k] = "none" THEN "pending"
                                     ELSE proposal[j][k]]
<1>1. /\ worker[w].phase = "projecting" /\ j \in InGroup /\ ~worker[w].proposed
      /\ proposal' = [proposal EXCEPT ![j] = new]
      /\ worker' = [worker EXCEPT ![w].left = <<>>, ![w].proposed = TRUE]
      /\ UNCHANGED <<delivered, actionFailed>> /\ faults' = faults /\ job' = job
  BY <1>0 DEF SaveGroupProposals
<1>2. /\ worker[w] \in WorkerRow
      /\ proposal \in [Job -> [FactKey -> {"none", "pending", "approved", "rejected"}]]
  BY JobTypes DEF MemoryIInv, WorkTypeOK
<1>3. ProposalsGrow
  <2>1. new \in [FactKey -> {"none", "pending", "approved", "rejected"}]
    BY <1>2
  <2>2. \A k \in FactKey :
           /\ proposal[j][k] # "none" => new[k] # "none"
           /\ new[k] = "approved" => proposal[j][k] = "approved"
    OBVIOUS
  <2> HIDE DEF new
  <2> QED
    BY <1>1, <1>2, <2>1, <2>2 DEF ProposalsGrow
<1>4. /\ worker'[w] = [worker[w] EXCEPT !.left = <<>>, !.proposed = TRUE]
      /\ \A v \in Worker : v # w => worker'[v] = worker[v]
  BY <1>1, TypesNow
<1>5. [worker[w] EXCEPT !.left = <<>>, !.proposed = TRUE] \in WorkerRow
  <2>1. [worker[w] EXCEPT !.left = <<>>] \in WorkerRow
    <3>1. PICK empty \in Seq(FactKey) : empty = <<>>
      BY EmptySeq
    <3>2. [worker[w] EXCEPT !.left = empty] \in WorkerRow
      BY <1>2 DEF WorkerRow
    <3> QED
      BY <3>1, <3>2
  <2>2. [[worker[w] EXCEPT !.left = <<>>] EXCEPT !.proposed = TRUE] \in WorkerRow
    BY <2>1 DEF WorkerRow
  <2> QED
    BY <2>2
<1>6. worker' \in [Worker -> WorkerRow]
  BY <1>1, <1>4, <1>5, TypesNow
<1>7. worker'[w].job = j /\ worker'[w].phase = "projecting" /\ worker'[w].proposed
  <2>1. /\ [worker[w] EXCEPT !.left = <<>>, !.proposed = TRUE].job = worker[w].job
        /\ [worker[w] EXCEPT !.left = <<>>, !.proposed = TRUE].phase = worker[w].phase
        /\ [worker[w] EXCEPT !.left = <<>>, !.proposed = TRUE].proposed
    BY <1>2 DEF WorkerRow
  <2> QED
    BY <1>0, <1>4, <2>1
<1>8. Saved(job[j]) /\ worker[w].left = job[j].facts
  BY <1>0, <1>1 DEF MemoryIInv, WorkOK, WorkerOK
<1>9. FactsOf(j)' = FactsOf(j) /\ FactsOf(j) = found /\ FactsOf(j) \subseteq FactKey
  <2>1. worker[w].left \in Seq(FactKey)
    BY <1>2 DEF WorkerRow
  <2> QED
    BY <1>1, <1>8, <2>1 DEF FactsOf
<1>10. \A k \in FactsOf(j) : proposal'[j][k] # "none"
  <2> HIDE DEF found
  <2> QED
    BY <1>1, <1>2, <1>9
<1>11. Settled(j)'
  BY <1>1, <1>9, <1>10 DEF Settled
<1>12. WorkerOK(w)'
  BY <1>1, <1>2, <1>7, <1>8, <1>11 DEF WorkerOK, Leased
<1> QED
  BY <1>1, <1>3, <1>4, <1>6, <1>12, AllStay, TypesNow DEF WorkTypes

LEMMA WorkKept ==
    ASSUME MemoryIInv, WorkAction
    PROVE  WorkOK' /\ WorkTypes /\ ProposalsGrow /\ job' \in [Job -> JobRow]
<1>1. /\ JobsMove /\ ProposalsGrow /\ WorkTypes
      /\ \A v \in Worker : worker'[v] = worker[v] \/ WorkerOK(v)'
  <2>1. ASSUME NEW j \in Job, Deliver(j) \/ ActionFails(j) \/ EnqueueDelivered(j) \/ ExpireLease(j)
        PROVE  /\ JobsMove /\ ProposalsGrow /\ WorkTypes
               /\ \A v \in Worker : worker'[v] = worker[v] \/ WorkerOK(v)'
    BY <2>1, RowSteps
  <2>2. ASSUME NEW w \in Worker, SaveResult(w) \/ Complete(w) \/ WorkFails(w) \/ WorkerDies(w)
        PROVE  /\ JobsMove /\ ProposalsGrow /\ WorkTypes
               /\ \A v \in Worker : worker'[v] = worker[v] \/ WorkerOK(v)'
    BY <2>2, StopSteps, IdleWorker
  <2> QED
    BY <2>1, <2>2, ClaimStep, AppendFactStep, SaveGroupProposalsStep DEF WorkAction, WorkerStep
<1>2. \A key : Recorded(key) => Recorded(key)'
  BY WorkRecords DEF NoneApproved
<1>3. \A i \in Job, k \in FactKey : proposal[i][k] # "none" => proposal'[i][k] # "none"
  BY <1>1 DEF ProposalsGrow
<1>4. \A w \in Worker : WorkerOK(w)'
  BY <1>1, <1>2, <1>3, WorkerStays
<1>5. NothingForgotten'
  BY <1>1, <1>2, <1>3, NothingForgottenStays
<1> QED
  BY <1>1, <1>4, <1>5 DEF WorkOK, JobsMove

(* A step that is not of a worker leaves what workers did.                     *)
LEMMA WorkStays ==
    ASSUME MemoryIInv, UNCHANGED <<job, worker>>, \A key : Recorded(key) => Recorded(key)',
           \A i \in Job, k \in FactKey : proposal[i][k] # "none" => proposal'[i][k] # "none"
    PROVE  WorkOK'
BY AllStay, WorkerStays, NothingForgottenStays DEF WorkOK

-------------------------------------------------------------------------------
(* Reviewers                                                                  *)

ReviewTypes ==
    /\ proposal' \in [Job -> [FactKey -> {"none", "pending", "approved", "rejected"}]]
    /\ reviewer' \in [Reviewer -> [job : Job \cup {NoJob}, factKey : FactKey \cup {NoFactKey},
                                   decision : {"none", "approved", "rejected"}, appended : BOOLEAN]]
    /\ approvers' \subseteq Job \X FactKey

(* Nothing reaches a group, and no reviewer moves.                             *)
LEMMA ReviewStays ==
    ASSUME MemoryIInv, NoneApproved, UNCHANGED <<reviewer, approvers>>, ProposalsGrow
    PROVE  ReviewOK' /\ ReviewTypes
<1>1. \A v \in Reviewer : ReviewerOK(v)'
  BY DEF MemoryIInv, ReviewOK, ReviewerOK, NoneApproved
<1>2. ProposalsReviewed'
  BY JobsType DEF MemoryIInv, ReviewOK, ProposalsReviewed, NoneApproved, ProposalsGrow
<1>3. ReviewTypes
  BY DEF MemoryIInv, WorkTypeOK, ReviewTypes, ProposalsGrow
<1> QED
  BY <1>1, <1>2, <1>3 DEF ReviewOK

ReviewerRow == [job : Job \cup {NoJob}, factKey : FactKey \cup {NoFactKey},
                decision : {"none", "approved", "rejected"}, appended : BOOLEAN]

(* What holds of the reviewers after a step of one of them.                    *)
ReviewResult ==
    /\ ReviewOK' /\ ReviewTypes /\ [LogNext]_logVars
    /\ \A key : Recorded(key) => Recorded(key)'
    /\ \A i \in Job, k \in FactKey : proposal[i][k] # "none" => proposal'[i][k] # "none"
    /\ faults' \in 0 .. MaxFaults

LEMMA ReviewNow ==
    ASSUME MemoryIInv
    PROVE  /\ proposal \in [Job -> [FactKey -> {"none", "pending", "approved", "rejected"}]]
           /\ reviewer \in [Reviewer -> ReviewerRow] /\ approvers \subseteq Job \X FactKey
           /\ faults \in 0 .. MaxFaults /\ InGroup \subseteq Job
           /\ \A v \in Reviewer : ReviewerOK(v)
           /\ ProposalsReviewed
BY JobsType DEF MemoryIInv, WorkTypeOK, ReviewerRow, ReviewOK

LEMMA ReadProposalStep ==
    ASSUME MemoryIInv, NEW v \in Reviewer, ReadProposal(v)
    PROVE  ReviewResult
<1>1. PICK j \in InGroup, k \in FactKey, decision \in {"approved", "rejected"} :
         /\ reviewer' = [reviewer EXCEPT ![v] = [job |-> j, factKey |-> k, decision |-> decision,
                                                 appended |-> FALSE]]
         /\ approvers' = IF decision = "approved" THEN approvers \cup {<<j, k>>} ELSE approvers
  BY DEF ReadProposal
<1>2. UNCHANGED <<logVars, proposal, faults>>
  BY DEF ReadProposal
<1> DEFINE row == [job |-> j, factKey |-> k, decision |-> decision, appended |-> FALSE]
<1>3. row \in ReviewerRow
  BY ReviewNow DEF ReviewerRow
<1>4. /\ reviewer' \in [Reviewer -> ReviewerRow] /\ reviewer'[v] = row
      /\ \A u \in Reviewer : u # v => reviewer'[u] = reviewer[u]
  BY <1>1, <1>3, ReviewNow
<1>5. /\ approvers \subseteq approvers' /\ approvers' \subseteq Job \X FactKey
      /\ decision = "approved" => <<j, k>> \in approvers'
  BY <1>1, ReviewNow
<1>6. \A key : Recorded(key)' <=> Recorded(key)
  BY <1>2 DEF Recorded, logVars
<1>7. ASSUME NEW u \in Reviewer PROVE ReviewerOK(u)'
  <2>1. CASE u = v
    BY <1>4, <1>5, <2>1 DEF ReviewerOK
  <2>2. CASE u # v
    BY <1>4, <1>5, <1>6, <2>2, ReviewNow DEF ReviewerOK
  <2> QED
    BY <2>1, <2>2
<1>8. ProposalsReviewed'
  BY <1>2, <1>5, <1>6, ReviewNow DEF ProposalsReviewed
<1> QED
  BY <1>2, <1>4, <1>5, <1>6, <1>7, <1>8, ReviewNow DEF ReviewResult, ReviewOK, ReviewTypes, ReviewerRow

LEMMA AppendApprovedStep ==
    ASSUME MemoryIInv, NEW v \in Reviewer, AppendApproved(v)
    PROVE  ReviewResult
<1>1. PICK j \in InGroup, k \in FactKey : j = reviewer[v].job /\ k = reviewer[v].factKey
  BY AppendApprovedRecords
<1>2. Records({ProposalKey(j, k)})
  BY <1>1, AppendApprovedRecords
<1>3. /\ reviewer' = [reviewer EXCEPT ![v].appended = TRUE] /\ UNCHANGED <<proposal, approvers, faults>>
      /\ reviewer[v].decision = "approved"
  BY DEF AppendApproved
<1>4. reviewer[v] \in ReviewerRow
  BY ReviewNow
<1>5. /\ [reviewer[v] EXCEPT !.appended = TRUE] \in ReviewerRow
      /\ [reviewer[v] EXCEPT !.appended = TRUE].job = j
      /\ [reviewer[v] EXCEPT !.appended = TRUE].factKey = k
      /\ [reviewer[v] EXCEPT !.appended = TRUE].decision = "approved"
  BY <1>1, <1>3, <1>4 DEF ReviewerRow
<1>6. /\ reviewer' \in [Reviewer -> ReviewerRow] /\ reviewer'[v] = [reviewer[v] EXCEPT !.appended = TRUE]
      /\ \A u \in Reviewer : u # v => reviewer'[u] = reviewer[u]
  BY <1>3, <1>5, ReviewNow
<1>7. <<j, k>> \in approvers
  BY <1>1, <1>3, ReviewNow DEF ReviewerOK
<1>8. Recorded(ProposalKey(j, k))' /\ \A key : Recorded(key) => Recorded(key)'
  BY <1>2 DEF Records
<1>9. ASSUME NEW u \in Reviewer PROVE ReviewerOK(u)'
  <2>1. CASE u = v
    BY <1>3, <1>5, <1>6, <1>7, <1>8, <2>1 DEF ReviewerOK
  <2>2. CASE u # v
    BY <1>3, <1>6, <1>8, <2>2, ReviewNow DEF ReviewerOK
  <2> QED
    BY <2>1, <2>2
<1>10. ASSUME NEW i \in InGroup, NEW l \in FactKey
       PROVE  /\ proposal'[i][l] = "approved" => Recorded(ProposalKey(i, l))'
              /\ Recorded(ProposalKey(i, l))' => <<i, l>> \in approvers'
  <2>1. Recorded(ProposalKey(i, l))' => Recorded(ProposalKey(i, l)) \/ ProposalKey(i, l) = ProposalKey(j, k)
    BY <1>2 DEF Records
  <2>2. ProposalKey(i, l) = ProposalKey(j, k) => i = j /\ l = k
    BY ProposalKeys
  <2> QED
    BY <1>3, <1>7, <1>8, <2>1, <2>2, ReviewNow DEF ProposalsReviewed
<1>11. ProposalsReviewed'
  BY <1>10 DEF ProposalsReviewed
<1>12. [LogNext]_logVars
  BY <1>2 DEF Records
<1> QED
  BY <1>3, <1>6, <1>8, <1>9, <1>11, <1>12, ReviewNow DEF ReviewResult, ReviewOK, ReviewTypes, ReviewerRow

(* A reviewer that is done or gone.                                            *)
LEMMA ReviewerLeaves ==
    ASSUME MemoryIInv, NEW v \in Reviewer, reviewer' = [reviewer EXCEPT ![v] = Away],
           UNCHANGED <<logVars, approvers>>
    PROVE  /\ \A u \in Reviewer : ReviewerOK(u)'
           /\ reviewer' \in [Reviewer -> ReviewerRow]
           /\ \A key : Recorded(key)' <=> Recorded(key)
<1>1. Away \in ReviewerRow /\ Away.decision = "none" /\ Away.appended = FALSE
  BY DEF Away, ReviewerRow
<1>2. /\ reviewer' \in [Reviewer -> ReviewerRow] /\ reviewer'[v] = Away
      /\ \A u \in Reviewer : u # v => reviewer'[u] = reviewer[u]
  BY <1>1, ReviewNow
<1>3. \A key : Recorded(key)' <=> Recorded(key)
  BY DEF Recorded, logVars
<1>4. ASSUME NEW u \in Reviewer PROVE ReviewerOK(u)'
  <2>1. CASE u = v
    BY <1>1, <1>2, <2>1 DEF ReviewerOK
  <2>2. CASE u # v
    BY <1>2, <1>3, <2>2, ReviewNow DEF ReviewerOK
  <2> QED
    BY <2>1, <2>2
<1> QED
  BY <1>2, <1>3, <1>4

LEMMA FinishReviewStep ==
    ASSUME MemoryIInv, NEW v \in Reviewer, FinishReview(v)
    PROVE  ReviewResult
<1>1. PICK j \in InGroup, k \in FactKey, decision \in {"approved", "rejected"} :
         j = reviewer[v].job /\ k = reviewer[v].factKey /\ decision = reviewer[v].decision
  BY ReviewNow DEF FinishReview, ReadyToFinish, ReviewerOK
<1>2. /\ proposal' = [proposal EXCEPT ![j][k] = IF proposal[j][k] = "pending" THEN decision ELSE proposal[j][k]]
      /\ reviewer' = [reviewer EXCEPT ![v] = Away] /\ UNCHANGED <<logVars, approvers, faults>>
      /\ decision = "approved" => reviewer[v].appended
  BY <1>1 DEF FinishReview, ReadyToFinish
<1>3. /\ \A u \in Reviewer : ReviewerOK(u)'
      /\ reviewer' \in [Reviewer -> ReviewerRow]
      /\ \A key : Recorded(key)' <=> Recorded(key)
  BY <1>2, ReviewerLeaves
<1>4. decision = "approved" => Recorded(ProposalKey(j, k))
  BY <1>1, <1>2, ReviewNow DEF ReviewerOK
<1>5. /\ proposal' \in [Job -> [FactKey -> {"none", "pending", "approved", "rejected"}]]
      /\ \A i \in Job, l \in FactKey :
            /\ proposal[i][l] # "none" => proposal'[i][l] # "none"
            /\ proposal'[i][l] = "approved" =>
                  proposal[i][l] = "approved" \/ (i = j /\ l = k /\ decision = "approved")
  BY <1>2, ReviewNow
<1>6. ProposalsReviewed'
  BY <1>2, <1>3, <1>4, <1>5, ReviewNow DEF ProposalsReviewed
<1> QED
  BY <1>2, <1>3, <1>5, <1>6, ReviewNow DEF ReviewResult, ReviewOK, ReviewTypes, ReviewerRow

LEMMA ReviewDiesStep ==
    ASSUME MemoryIInv, NEW v \in Reviewer, ReviewDies(v)
    PROVE  ReviewResult
<1>1. reviewer' = [reviewer EXCEPT ![v] = Away] /\ UNCHANGED <<logVars, proposal, approvers>> /\ Fault
  BY DEF ReviewDies
<1>2. /\ \A u \in Reviewer : ReviewerOK(u)'
      /\ reviewer' \in [Reviewer -> ReviewerRow]
      /\ \A key : Recorded(key)' <=> Recorded(key)
  BY <1>1, ReviewerLeaves
<1>3. ProposalsReviewed'
  BY <1>1, <1>2, ReviewNow DEF ProposalsReviewed
<1> QED
  BY <1>1, <1>2, <1>3, FaultType, ReviewNow DEF ReviewResult, ReviewOK, ReviewTypes, ReviewerRow

LEMMA ReviewKept == MemoryIInv /\ ReviewAction => ReviewResult
BY ReadProposalStep, AppendApprovedStep, FinishReviewStep, ReviewDiesStep DEF ReviewAction

-------------------------------------------------------------------------------
(* Deletions                                                                  *)

DeletionResult ==
    /\ deletion' \in [Deletion -> [factKey : FactKey \cup {NoFactKey}, reading : BOOLEAN, answered : BOOLEAN]]
    /\ \A d \in Deletion : DeletionOK(d)'

LEMMA DeleteKept ==
    ASSUME MemoryIInv, DeleteAction
    PROVE  DeletionResult
<1> DEFINE Request == [factKey : FactKey \cup {NoFactKey}, reading : BOOLEAN, answered : BOOLEAN]
<1>1. deletion \in [Deletion -> Request] /\ \A d \in Deletion : DeletionOK(d)
  BY DEF MemoryIInv, WorkTypeOK
<1>2. ASSUME NEW d \in Deletion, LookUpFact(d) PROVE DeletionResult
  <2>1. PICK k \in FactKey : deletion' = [deletion EXCEPT ![d].factKey = k, ![d].reading = TRUE]
    BY <1>2 DEF LookUpFact
  <2> DEFINE row == [deletion[d] EXCEPT !.factKey = k, !.reading = TRUE]
  <2>2. deletion[d] \in Request
    BY <1>1
  <2>3. row \in Request /\ row.factKey = k
    BY <2>2
  <2>4. deletion' = [deletion EXCEPT ![d] = row]
    BY <2>1
  <2> HIDE DEF row
  <2> QED
    BY <1>1, <2>3, <2>4 DEF DeletionResult, DeletionOK
<1>3. ASSUME NEW d \in Deletion, AppendDelete(d) PROVE DeletionResult
  <2> DEFINE row == [deletion[d] EXCEPT !.reading = FALSE, !.answered = TRUE]
  <2>1. deletion[d] \in Request
    BY <1>1
  <2>2. row \in Request /\ row.reading = FALSE
    BY <2>1
  <2>3. deletion' = [deletion EXCEPT ![d] = row]
    BY <1>3 DEF AppendDelete
  <2> HIDE DEF row
  <2> QED
    BY <1>1, <2>2, <2>3 DEF DeletionResult, DeletionOK
<1> QED
  BY <1>2, <1>3 DEF DeleteAction

-------------------------------------------------------------------------------
(* Readers                                                                    *)

ReaderRow == [step : {"waiting", "given", "recorded", "answered", "failed"},
              attempts : 0 .. MaxAttempts, given : Seq(Fact)]

(* The facts that are shown of a stream are finitely many: each stems from an  *)
(* event of its own.                                                           *)
LEMMA ActiveFinite ==
    ASSUME MemoryIInv, NEW s \in Stream
    PROVE  IsFiniteSet(Active(s)) /\ Active(s) \subseteq Fact
<1> DEFINE n == projected[s]
           g == [i \in 1 .. n |-> <<s, events[s][i].factKey>>]
           T == {g[i] : i \in 1 .. n}
<1>1. n \in Nat /\ ViewOf(events[s], n, facts[s])
  BY DEF MemoryIInv, LogIInv, StreamOK
<1>2. g \in Surjection(1 .. n, T)
  BY DEF Surjection
<1>3. IsFiniteSet(1 .. n)
  BY <1>1, FS_Interval
<1>4. IsFiniteSet(T)
  <2> HIDE DEF g, T
  <2> QED
    BY <1>2, <1>3, FS_Surjection
<1>5. ASSUME NEW k \in FactKey, facts[s][k].state = "active" PROVE <<s, k>> \in T
  <2>1. facts[s][k].source \in 1 .. n /\ events[s][facts[s][k].source].factKey = k
    BY <1>1, <1>5 DEF ViewOf, StandsAt
  <2> QED
    BY <2>1
<1>6. Active(s) \in SUBSET T
  <2> HIDE DEF T
  <2> QED
    BY <1>5 DEF Active
<1>7. IsFiniteSet(Active(s))
  <2> HIDE DEF T
  <2> QED
    BY <1>4, <1>6, FS_Subset
<1> QED
  BY <1>7 DEF Active, Fact

LEMMA MatchesType ==
    ASSUME MemoryIInv, NEW s \in Stream, NEW q \in Matches(s)
    PROVE  q \in Seq(Fact)
<1>1. PICK set \in SUBSET Active(s) : q \in [1 .. Cardinality(set) -> set]
  BY DEF Matches, Orders
<1>2. IsFiniteSet(set) /\ set \subseteq Fact
  BY <1>1, ActiveFinite, FS_Subset
<1>3. Cardinality(set) \in Nat
  BY <1>2, FS_CardinalityType
<1> DEFINE n == Cardinality(set)
<1> HIDE DEF n
<1>4. q \in [1 .. n -> set] /\ n \in Nat
  BY <1>1, <1>3 DEF n
<1>5. q \in [1 .. n -> Fact]
  BY <1>2, <1>4
<1> QED
  BY <1>4, <1>5

ReadNow ==
    /\ exposed \in [Run -> [Fact -> Nat \cup {-1}]]
    /\ reader \in [Run -> ReaderRow] /\ feedback \subseteq Run \X Fact /\ faults \in 0 .. MaxFaults
    /\ \A r \in Run : ReaderOK(r)
    /\ AnswerAccounted

LEMMA ReadIsNow == MemoryIInv => ReadNow
BY DEF MemoryIInv, WorkTypeOK, ReadOK, ReadNow, ReaderRow

(* A run moves to a row in which nothing has to be exposed, or is already.     *)
LEMMA RowRead ==
    ASSUME MemoryIInv, NEW r \in Run, NEW row \in ReaderRow, reader' = [reader EXCEPT ![r] = row],
           UNCHANGED <<exposed, feedback>>, faults' \in 0 .. MaxFaults,
           row.step \in {"recorded", "answered"} => \A i \in DOMAIN row.given : IsExposed(r, row.given[i])
    PROVE  ReadNow'
<1>1. /\ reader' \in [Run -> ReaderRow] /\ reader'[r] = row /\ \A q \in Run : q # r => reader'[q] = reader[q]
  BY ReadIsNow DEF ReadNow
<1>2. \A q \in Run : ReaderOK(q)'
  BY <1>1, ReadIsNow DEF ReadNow, ReaderOK, IsExposed
<1>3. AnswerAccounted'
  BY <1>2, ReadIsNow DEF ReadNow, ReaderOK, AnswerAccounted, IsExposed
<1> QED
  BY <1>1, <1>2, <1>3, ReadIsNow DEF ReadNow

LEMMA AgainRead ==
    ASSUME MemoryIInv, NEW r \in Run, NEW attempts \in 0 .. MaxAttempts, reader' = Again(r, attempts),
           UNCHANGED <<exposed, feedback>>, faults' \in 0 .. MaxFaults
    PROVE  ReadNow'
<1> DEFINE row == [step |-> IF attempts < MaxAttempts THEN "waiting" ELSE "failed",
                   attempts |-> attempts, given |-> <<>>]
<1>1. PICK empty \in Seq(Fact) : empty = <<>>
  BY EmptySeq
<1>2. PICK step \in {"waiting", "failed"} : step = IF attempts < MaxAttempts THEN "waiting" ELSE "failed"
  OBVIOUS
<1>3. row = [step |-> step, attempts |-> attempts, given |-> empty]
  BY <1>1, <1>2
<1>4. [step |-> step, attempts |-> attempts, given |-> empty] \in ReaderRow
  BY DEF ReaderRow
<1>5. row \in ReaderRow /\ row.step \notin {"recorded", "answered"}
  BY <1>2, <1>3, <1>4
<1>6. reader' = [reader EXCEPT ![r] = row]
  BY DEF Again
<1> HIDE DEF row
<1> QED
  BY <1>5, <1>6, RowRead

LEMMA GivenType ==
    ASSUME MemoryIInv, NEW r \in Run
    PROVE  /\ reader[r] \in ReaderRow /\ reader[r].given \in Seq(Fact)
           /\ Len(reader[r].given) \in Nat /\ DOMAIN reader[r].given = 1 .. Len(reader[r].given)
           /\ \A i \in DOMAIN reader[r].given : reader[r].given[i] \in Fact
<1>1. reader[r] \in ReaderRow /\ reader[r].given \in Seq(Fact)
  BY ReadIsNow DEF ReadNow, ReaderRow
<1> QED
  BY <1>1, LenProperties, ElementOfSeq

LEMMA LoadStep ==
    ASSUME MemoryIInv, NEW r \in Run, loadMemory(r)
    PROVE  ReadNow'
<1>1. PICK personal \in SearchPersonal, group \in IF Group \in ReadsOf[r] THEN SearchGroup ELSE {<<>>} :
         reader' = [reader EXCEPT ![r] = [step |-> "given", attempts |-> reader[r].attempts + 1,
                                          given |-> personal \o group]]
  BY DEF loadMemory
<1>2. personal \in Seq(Fact)
  BY MatchesType, KeyKinds DEF SearchPersonal
<1>3. group \in Seq(Fact)
  <2>1. CASE Group \in ReadsOf[r]
    BY <1>1, <2>1, MatchesType, KeyKinds DEF SearchGroup
  <2>2. CASE Group \notin ReadsOf[r]
    BY <1>1, <2>2, EmptySeq
  <2> QED
    BY <2>1, <2>2
<1>4. personal \o group \in Seq(Fact)
  BY <1>2, <1>3, ConcatProperties
<1>5. reader[r].attempts + 1 \in 0 .. MaxAttempts
  BY GivenType, BoundsType DEF loadMemory, ReaderRow
<1> DEFINE row == [step |-> "given", attempts |-> reader[r].attempts + 1, given |-> personal \o group]
<1>6. row \in ReaderRow /\ row.step = "given"
  BY <1>4, <1>5 DEF ReaderRow
<1>7. reader' = [reader EXCEPT ![r] = row]
  BY <1>1
<1>8. UNCHANGED <<exposed, feedback, faults>>
  BY DEF loadMemory
<1> HIDE DEF row
<1> QED
  BY <1>6, <1>7, <1>8, RowRead, ReadIsNow DEF ReadNow

LEMMA RecordStep ==
    ASSUME MemoryIInv, NEW r \in Run, RecordExposures(r)
    PROVE  ReadNow'
<1>0. PICK given \in Seq(Fact) : given = reader[r].given
  BY GivenType
<1> DEFINE new == {i \in DOMAIN given : ~IsExposed(r, given[i]) /\ IsActive(given[i])}
<1>1. CASE ~\A i \in DOMAIN given : Recordable(r, i)
  <2>1. reader' = Again(r, reader[r].attempts) /\ UNCHANGED <<exposed, feedback, faults>>
    BY <1>0, <1>1 DEF RecordExposures
  <2>2. reader[r].attempts \in 0 .. MaxAttempts
    BY GivenType DEF ReaderRow
  <2> QED
    BY <2>1, <2>2, AgainRead, ReadIsNow DEF ReadNow
<1>2. CASE \A i \in DOMAIN given : Recordable(r, i)
  <2> DEFINE ordinals == [f \in Fact |-> IF \E i \in new : given[i] = f THEN CHOOSE i \in new : given[i] = f
                                         ELSE exposed[r][f]]
             row == [reader[r] EXCEPT !.step = "recorded"]
  <2>1. exposed' = [exposed EXCEPT ![r] = ordinals] /\ reader' = [reader EXCEPT ![r] = row]
    BY <1>0, <1>2 DEF RecordExposures
  <2>2. UNCHANGED <<feedback, faults>>
    BY DEF RecordExposures
  <2>3. /\ reader[r] \in ReaderRow /\ Len(given) \in Nat /\ DOMAIN given = 1 .. Len(given)
        /\ \A i \in DOMAIN given : given[i] \in Fact
    BY <1>0, GivenType
  <2>4. row \in ReaderRow /\ row.step = "recorded" /\ row.given = given
    BY <1>0, <2>3 DEF ReaderRow
  <2>5. ASSUME NEW f \in Fact
        PROVE  \/ ordinals[f] \in new /\ given[ordinals[f]] = f
               \/ ordinals[f] = exposed[r][f] /\ \A i \in new : given[i] # f
    <3>1. CASE \E i \in new : given[i] = f
      <4> DEFINE c == CHOOSE i \in new : given[i] = f
      <4>1. c \in new /\ given[c] = f
        BY <3>1
      <4>2. ordinals[f] = c
        BY <3>1
      <4> QED
        BY <4>1, <4>2
    <3>2. CASE ~\E i \in new : given[i] = f
      BY <3>2
    <3> QED
      BY <3>1, <3>2
  <2>6. /\ new \subseteq DOMAIN given /\ new \subseteq Nat
        /\ \A i \in new : ~IsExposed(r, given[i]) /\ \A f \in Fact : exposed[r][f] # i
    BY <1>0, <1>2, <2>3 DEF Recordable
  <2>7. exposed[r] \in [Fact -> Nat \cup {-1}]
    BY ReadIsNow DEF ReadNow
  <2>8. ordinals \in [Fact -> Nat \cup {-1}]
    <3>1. \A f \in Fact : ordinals[f] \in Nat \cup {-1}
      <4> HIDE DEF ordinals, new
      <4> QED
        BY <2>5, <2>6, <2>7
    <3>2. ordinals = [f \in Fact |-> ordinals[f]]
      OBVIOUS
    <3> HIDE DEF ordinals
    <3> QED
      BY <3>1, <3>2
  <2>9. \A f \in Fact : exposed[r][f] >= 0 => ordinals[f] >= 0
    <3> HIDE DEF ordinals, new
    <3> QED
      BY <2>5, <2>6, <2>7
  <2>10. \A i \in DOMAIN given : ordinals[given[i]] >= 0
    <3> SUFFICES ASSUME NEW i \in DOMAIN given PROVE ordinals[given[i]] >= 0
      OBVIOUS
    <3>1. given[i] \in Fact
      BY <2>3
    <3>2. CASE IsExposed(r, given[i])
      BY <2>9, <3>1, <3>2 DEF IsExposed
    <3>3. CASE ~IsExposed(r, given[i])
      <4>1. i \in new
        BY <1>0, <1>2, <3>3 DEF Recordable
      <4>2. ordinals[given[i]] \in new
        <5> HIDE DEF ordinals, new
        <5> QED
          BY <2>5, <3>1, <4>1
      <4> HIDE DEF ordinals, new
      <4> QED
        BY <2>6, <4>2
    <3> QED
      BY <3>2, <3>3
  <2>11. ASSUME NEW f \in Fact, NEW g \in Fact, f # g, ordinals[f] >= 0
         PROVE  ordinals[f] # ordinals[g]
    <3>1. exposed[r][f] >= 0 => exposed[r][f] # exposed[r][g]
      BY <2>11, ReadIsNow DEF ReadNow, AnswerAccounted, IsExposed
    <3> HIDE DEF ordinals, new
    <3> QED
      BY <2>5, <2>6, <2>11, <3>1
  <2> HIDE DEF ordinals, row, new
  <2>12. /\ exposed' \in [Run -> [Fact -> Nat \cup {-1}]] /\ exposed'[r] = ordinals
         /\ \A q \in Run : q # r => exposed'[q] = exposed[q]
    BY <2>1, <2>8, ReadIsNow DEF ReadNow
  <2>13. /\ reader' \in [Run -> ReaderRow] /\ reader'[r] = row
         /\ \A q \in Run : q # r => reader'[q] = reader[q]
    BY <2>1, <2>4, ReadIsNow DEF ReadNow
  <2>14. ASSUME NEW q \in Run PROVE ReaderOK(q)'
    <3>1. CASE q = r
      BY <2>4, <2>10, <2>12, <2>13, <3>1 DEF ReaderOK, IsExposed
    <3>2. CASE q # r
      BY <2>12, <2>13, <3>2, ReadIsNow DEF ReadNow, ReaderOK, IsExposed
    <3> QED
      BY <3>1, <3>2
  <2>15. ASSUME NEW q \in Run, NEW f \in Fact, NEW g \in Fact, f # g, exposed'[q][f] >= 0
         PROVE  exposed'[q][f] # exposed'[q][g]
    <3>1. CASE q = r
      BY <2>11, <2>12, <2>15, <3>1
    <3>2. CASE q # r
      BY <2>12, <2>15, <3>2, ReadIsNow DEF ReadNow, AnswerAccounted, IsExposed
    <3> QED
      BY <3>1, <3>2
  <2>16. AnswerAccounted'
    BY <2>14, <2>15 DEF AnswerAccounted, ReaderOK, IsExposed
  <2> QED
    BY <2>2, <2>12, <2>13, <2>14, <2>16, ReadIsNow DEF ReadNow
<1> QED
  BY <1>1, <1>2

LEMMA ReadKept ==
    ASSUME MemoryIInv, ReadAction
    PROVE  ReadNow'
<1>1. ASSUME NEW r \in Run, SaveCandidate(r) PROVE ReadNow'
  <2> DEFINE row == [reader[r] EXCEPT !.step = "answered"]
  <2>1. reader[r] \in ReaderRow /\ reader[r].step = "recorded" /\ reader' = [reader EXCEPT ![r] = row]
    BY <1>1, GivenType DEF SaveCandidate
  <2>2. row \in ReaderRow /\ row.given = reader[r].given
    BY <2>1 DEF ReaderRow
  <2>3. \A i \in DOMAIN reader[r].given : IsExposed(r, reader[r].given[i])
    BY <2>1, ReadIsNow DEF ReadNow, ReaderOK
  <2>4. UNCHANGED <<exposed, feedback, faults>>
    BY <1>1 DEF SaveCandidate
  <2> HIDE DEF row
  <2> QED
    BY <2>1, <2>2, <2>3, <2>4, RowRead, ReadIsNow DEF ReadNow
<1>2. ASSUME NEW r \in Run, AttemptFails(r) PROVE ReadNow'
  <2>1. reader[r].attempts \in 0 .. MaxAttempts
    BY GivenType DEF ReaderRow
  <2> QED
    BY <1>2, <2>1, AgainRead, FaultType DEF AttemptFails
<1>3. ASSUME NEW r \in Run, MembershipUnclear(r) PROVE ReadNow'
  <2>1. reader[r].attempts + 1 \in 0 .. MaxAttempts
    BY <1>3, GivenType, BoundsType DEF ReaderRow, MembershipUnclear
  <2> QED
    BY <1>3, <2>1, AgainRead, FaultType DEF MembershipUnclear
<1>4. ASSUME NEW r \in Run, NEW f \in Fact, RecordFeedback(r, f) PROVE ReadNow'
  <2>1. UNCHANGED <<exposed, reader, faults>> /\ feedback' \subseteq Run \X Fact
    BY <1>4, ReadIsNow DEF RecordFeedback, ReadNow
  <2> QED
    BY <2>1, ReadIsNow DEF ReadNow, ReaderOK, AnswerAccounted, IsExposed
<1> QED
  BY <1>1, <1>2, <1>3, <1>4, LoadStep, RecordStep DEF ReadAction

-------------------------------------------------------------------------------
(* The invariant, and what follows                                            *)

LEMMA InitMemory == Init => MemoryIInv
<1> SUFFICES ASSUME Init PROVE MemoryIInv
  OBVIOUS
<1>1. LogIInv
  BY InitLog DEF Init
<1>2. \A key : ~Recorded(key)
  BY DEF Init, LogInit, Recorded
<1>3. PICK empty \in Seq(FactKey) : empty = <<>>
  BY EmptySeq
<1>4. PICK nothing \in Seq(Fact) : nothing = <<>>
  BY EmptySeq
<1>5. job \in [Job -> JobRow] /\ \A j \in Job : job[j].state = "none"
  <2> DEFINE row == [NewJob EXCEPT !.state = "none"]
  <2>1. NewJob = [state |-> "pending", model |-> 0, projection |-> 0, holder |-> Nobody,
                  leaseValid |-> FALSE, facts |-> empty]
    BY <1>3 DEF NewJob
  <2>2. NewJob \in JobRow
    BY <2>1, BoundsType DEF JobRow
  <2>3. row \in JobRow /\ row.state = "none"
    BY <2>2 DEF JobRow
  <2>4. job = [j \in Job |-> row]
    BY DEF Init
  <2> HIDE DEF row
  <2> QED
    BY <2>3, <2>4
<1>6. worker \in [Worker -> WorkerRow] /\ \A w \in Worker : worker[w] = Idle
  <2>1. Idle = [job |-> NoJob, phase |-> "none", left |-> empty, proposed |-> FALSE]
    BY <1>3 DEF Idle
  <2>2. Idle \in WorkerRow
    BY <2>1 DEF WorkerRow
  <2> QED
    BY <2>2 DEF Init
<1>7. WorkOK
  BY <1>5, <1>6 DEF WorkOK, WorkerOK, Idle, NothingForgotten
<1>8. ReviewOK /\ reviewer \in [Reviewer -> ReviewerRow]
  BY <1>2, JobsType DEF Init, ReviewOK, ReviewerOK, Away, ReviewerRow, ProposalsReviewed
<1>9. ReadNow
  <2>1. NotRunning = [step |-> "waiting", attempts |-> 0, given |-> nothing]
    BY <1>4 DEF NotRunning
  <2>2. NotRunning \in ReaderRow /\ NotRunning.step = "waiting"
    BY <2>1, BoundsType DEF ReaderRow
  <2>3. reader \in [Run -> ReaderRow] /\ \A r \in Run : reader[r].step = "waiting"
    BY <2>2 DEF Init
  <2>4. exposed \in [Run -> [Fact -> Nat \cup {-1}]] /\ \A r \in Run, f \in Fact : ~(exposed[r][f] >= 0)
    BY DEF Init
  <2>5. feedback \subseteq Run \X Fact /\ faults \in 0 .. MaxFaults
    BY BoundsType DEF Init
  <2> QED
    BY <2>3, <2>4, <2>5 DEF ReadNow, ReaderOK, AnswerAccounted, IsExposed
<1>10. /\ deletion \in [Deletion -> [factKey : FactKey \cup {NoFactKey}, reading : BOOLEAN, answered : BOOLEAN]]
       /\ \A d \in Deletion : DeletionOK(d)
  BY DEF Init, DeletionOK
<1>11. /\ proposal \in [Job -> [FactKey -> {"none", "pending", "approved", "rejected"}]]
       /\ delivered \subseteq Job /\ actionFailed \subseteq delivered /\ approvers \subseteq Job \X FactKey
  BY DEF Init
<1>12. WorkTypeOK
  BY <1>5, <1>6, <1>8, <1>9, <1>10, <1>11 DEF WorkTypeOK, ReadNow, JobRow, WorkerRow, ReviewerRow, ReaderRow
<1>13. GroupKeysOnly
  BY StreamsType DEF Init, LogInit, GroupKeysOnly
<1> QED
  BY <1>1, <1>7, <1>8, <1>9, <1>10, <1>12, <1>13 DEF MemoryIInv, ReadOK, ReadNow

LEMMA DeletionNow == MemoryIInv /\ UNCHANGED deletion => DeletionResult
BY DEF MemoryIInv, WorkTypeOK, DeletionResult, DeletionOK

LEMMA ReadStays == MemoryIInv /\ UNCHANGED readVars /\ faults' \in 0 .. MaxFaults => ReadNow'
BY ReadIsNow DEF ReadNow, readVars, ReaderOK, AnswerAccounted, IsExposed

LEMMA JobsNow ==
    ASSUME MemoryIInv, UNCHANGED workVars
    PROVE  /\ delivered' \subseteq Job /\ actionFailed' \subseteq delivered'
           /\ worker' \in [Worker -> WorkerRow] /\ job' \in [Job -> JobRow]
BY TypesNow, JobTypes DEF workVars

(* All parts of the invariant after a step.                                    *)
Parts ==
    /\ [LogNext]_logVars
    /\ delivered' \subseteq Job /\ actionFailed' \subseteq delivered'
    /\ worker' \in [Worker -> WorkerRow] /\ job' \in [Job -> JobRow]
    /\ WorkOK' /\ ReviewOK' /\ ReviewTypes /\ DeletionResult /\ ReadNow'

LEMMA PartsSuffice == MemoryIInv /\ Parts /\ GroupKeysOnly' => MemoryIInv'
<1> SUFFICES ASSUME MemoryIInv, Parts, GroupKeysOnly' PROVE MemoryIInv'
  OBVIOUS
<1>1. LogIInv'
  BY NextLog DEF MemoryIInv, Parts
<1>2. WorkTypeOK'
  BY DEF Parts, WorkTypeOK, ReviewTypes, DeletionResult, ReadNow, JobRow, WorkerRow, ReaderRow
<1> QED
  BY <1>1, <1>2 DEF Parts, MemoryIInv, DeletionResult, ReadOK, ReadNow

LEMMA QuietFaults ==
    ASSUME MemoryIInv, LogAction \/ DeleteAction
    PROVE  faults' \in 0 .. MaxFaults
BY FaultType, TypesNow, DeleteFrame DEF LogAction, GroupMemoryAdmin, Project, RebuildStream, Replay, OutsideLog

LEMMA NextMemory == MemoryIInv /\ [Next]_vars => MemoryIInv' /\ [LogNext]_logVars
<1> SUFFICES ASSUME MemoryIInv, [Next]_vars PROVE Parts
  BY PartsSuffice, GroupKeysKept DEF Parts
<1>1. CASE WorkAction
  <2>1. UNCHANGED <<reviewer, approvers, deletion, readVars>>
    BY <1>1, WorkFrame
  <2>2. WorkOK' /\ WorkTypes /\ ProposalsGrow /\ job' \in [Job -> JobRow]
    BY <1>1, WorkKept
  <2>3. NoneApproved
    BY <1>1, WorkRecords
  <2>4. ReviewOK' /\ ReviewTypes
    BY <2>1, <2>2, <2>3, ReviewStays
  <2>5. DeletionResult
    BY <2>1, DeletionNow
  <2>6. ReadNow'
    BY <2>1, <2>2, ReadStays DEF WorkTypes
  <2> QED
    BY <2>2, <2>3, <2>4, <2>5, <2>6 DEF Parts, WorkTypes, NoneApproved
<1>2. CASE ReviewAction
  <2>1. UNCHANGED <<workVars, deletion, readVars>>
    BY <1>2, ReviewFrame
  <2>2. ReviewResult
    BY <1>2, ReviewKept
  <2>3. WorkOK'
    BY <2>1, <2>2, WorkStays DEF ReviewResult, workVars
  <2>4. DeletionResult
    BY <2>1, DeletionNow
  <2>5. ReadNow'
    BY <2>1, <2>2, ReadStays DEF ReviewResult
  <2> QED
    BY <2>1, <2>2, <2>3, <2>4, <2>5, JobsNow DEF Parts, ReviewResult
<1>3. CASE DeleteAction
  <2>1. UNCHANGED <<workVars, reviewVars, readVars, faults>>
    BY <1>3, DeleteFrame
  <2>2. NoneApproved
    BY <1>3, DeleteRecords
  <2>3. ProposalsGrow
    BY <2>1, ProposalsStay DEF reviewVars
  <2>4. ReviewOK' /\ ReviewTypes
    BY <2>1, <2>2, <2>3, ReviewStays DEF reviewVars
  <2>5. WorkOK'
    BY <2>1, <2>2, <2>3, WorkStays DEF workVars, NoneApproved, ProposalsGrow
  <2>6. DeletionResult
    BY <1>3, DeleteKept
  <2>7. ReadNow'
    BY <1>3, <2>1, ReadStays, QuietFaults
  <2> QED
    BY <2>1, <2>2, <2>4, <2>5, <2>6, <2>7, JobsNow DEF Parts, NoneApproved
<1>4. CASE LogAction
  <2>1. UNCHANGED <<workVars, reviewVars, deletion, readVars>>
    BY <1>4, LogFrame
  <2>2. NoneApproved
    BY <1>4, LogRecords
  <2>3. ProposalsGrow
    BY <2>1, ProposalsStay DEF reviewVars
  <2>4. ReviewOK' /\ ReviewTypes
    BY <2>1, <2>2, <2>3, ReviewStays DEF reviewVars
  <2>5. WorkOK'
    BY <2>1, <2>2, <2>3, WorkStays DEF workVars, NoneApproved, ProposalsGrow
  <2>6. DeletionResult
    BY <2>1, DeletionNow
  <2>7. ReadNow'
    BY <1>4, <2>1, ReadStays, QuietFaults
  <2> QED
    BY <2>1, <2>2, <2>4, <2>5, <2>6, <2>7, JobsNow DEF Parts, NoneApproved
<1>5. ASSUME UNCHANGED <<logVars, workVars, reviewVars, deletion>>, ReadNow' PROVE Parts
  <2>1. NoneApproved
    BY <1>5, QuietNoneApproved DEF logVars
  <2>2. ProposalsGrow
    BY <1>5, ProposalsStay DEF reviewVars
  <2>3. ReviewOK' /\ ReviewTypes
    BY <1>5, <2>1, <2>2, ReviewStays DEF reviewVars
  <2>4. WorkOK'
    BY <1>5, <2>1, <2>2, WorkStays DEF workVars, NoneApproved, ProposalsGrow
  <2> QED
    BY <1>5, <2>1, <2>3, <2>4, DeletionNow, JobsNow DEF Parts, NoneApproved
<1>6. CASE ReadAction
  BY <1>5, <1>6, ReadFrame, ReadKept
<1>7. CASE UNCHANGED vars
  BY <1>5, <1>7, TypesNow, ReadStays DEF vars
<1> QED
  BY <1>1, <1>2, <1>3, <1>4, <1>6, <1>7, Actions

LEMMA SpecMemoryIInv == Spec => []MemoryIInv
BY InitMemory, NextMemory, PTL DEF Spec

(* The log and what is shown of it agree, a proposal got into a group's memory *)
(* only when a reviewer approved it, the rest of that memory an operator wrote,  *)
(* and what an answer used is on record.                                       *)
THEOREM MemoryCorrect == Spec => []MemoryInv
<1>1. MemoryIInv => GroupFactsReviewed
  BY DEF MemoryIInv, ReviewOK, ProposalsReviewed, GroupKeysOnly, GroupKey, GroupFactsReviewed
<1>2. MemoryIInv => MemoryInv
  BY <1>1, LogIInvImplies DEF MemoryIInv, MemoryInv, ReadOK
<1> QED
  BY <1>2, SpecMemoryIInv, PTL

(* A job is done only when everything the model found in its run is recorded.  *)
THEOREM NothingForgottenCorrect == Spec => []NothingForgotten
<1>1. MemoryIInv => NothingForgotten
  BY DEF MemoryIInv, WorkOK
<1> QED
  BY <1>1, SpecMemoryIInv, PTL

(* Everything workers, reviewers, members and operators do is a step of the    *)
(* log or none of it.                                                          *)
THEOREM MemoryIsLog == Spec => LogSpec
<1>1. Init => LogInit
  BY DEF Init
<1> QED
  BY <1>1, SpecMemoryIInv, NextMemory, PTL DEF Spec, LogSpec

(* So nothing they do takes a fact back to an earlier event.                   *)
THEOREM MemoryNeverBack == Spec => NeverBack
BY MemoryIsLog, NeverBackCorrect, PTL
===============================================================================
