----------------------- MODULE DurableTransportProofs -----------------------
(***************************************************************************)
(* Proofs about DurableTransport, for every set of events, every cap,      *)
(* batch size and number of crashes and spool faults.                      *)
(***************************************************************************)
EXTENDS DurableTransport, FiniteSetTheorems, TLAPS

Acked == {e \in Events : caller[e] = "acked"}

(* The table: an acknowledged call is one whose row got a seq.             *)
RowsNumbered ==
  \A e \in Events :
    /\ rowSeq[e] <= lastSeq
    /\ caller[e] = "acked" <=> rowSeq[e] > 0

(* Only acknowledged events are spooled, on the wire, or delivered.        *)
OnlyAcked ==
  /\ spool \subseteq Acked
  /\ batch \subseteq Acked
  /\ \A b \in stale : b \subseteq Acked
  /\ delivered \subseteq Acked

(* What the pump is about to delete: rows still there, whose events were   *)
(* delivered or reported before.                                           *)
BatchSettled ==
  /\ pump \in {"waiting", "discarding"} => batch \subseteq spool
  /\ (pump = "waiting" /\ verdict = "ok") => batch \subseteq delivered
  /\ pump = "discarding" => batch \subseteq reported

Inv ==
  /\ TypeOK
  /\ RowsNumbered
  /\ OnlyAcked
  /\ BatchSettled
  /\ NoSilentLoss

-----------------------------------------------------------------------------
(* The table, the pump's batch and the callers stay consistent, and with   *)
(* them no event is lost silently: the inductive invariant of the module.  *)
LEMMA InvInit == Init => Inv
  BY DurableAssumption DEF Init, Inv, TypeOK, RowsNumbered, OnlyAcked, Acked,
     BatchSettled, NoSilentLoss, Verdict

LEMMA InsertKeepsInv ==
  ASSUME Inv, NEW e \in Events, caller[e] \in {"new", "blocked"}, Insert(e),
         UNCHANGED <<life, pumping, stale, delivered, crashes, faults>>
  PROVE  Inv'
  BY DEF Inv, Insert, pumping, TypeOK, RowsNumbered, OnlyAcked, Acked,
         BatchSettled, NoSilentLoss, Verdict

LEMMA RefuseKeepsInv ==
  ASSUME Inv, NEW e \in Events, caller[e] \in {"new", "blocked"}, Refuse(e),
         UNCHANGED <<life, pumping, stale, delivered, crashes>>,
         faults' \in 0..MaxFaults
  PROVE  Inv'
  BY DEF Inv, Refuse, table, pumping, TypeOK, RowsNumbered, OnlyAcked, Acked,
         BatchSettled, NoSilentLoss, Verdict

LEMMA InvNext == Inv /\ [Next]_vars => Inv'
  <1> SUFFICES ASSUME Inv, [Next]_vars PROVE Inv'
    OBVIOUS
  <1> USE DurableAssumption
  <1>1. ASSUME NEW e \in Events, Log(e) PROVE Inv'
    <2>1. CASE Insert(e)
      BY <1>1, <2>1, InsertKeepsInv DEF Log
    <2>2. CASE Refuse(e)
      BY <1>1, <2>2, RefuseKeepsInv DEF Log, Inv, TypeOK
    <2>3. CASE /\ BlockPolls > 0
               /\ caller' = [caller EXCEPT ![e] = "blocked"]
               /\ polls' = [polls EXCEPT ![e] = BlockPolls]
               /\ UNCHANGED <<table, reported>>
      BY <1>1, <2>3 DEF Log, Inv, table, pumping, TypeOK, RowsNumbered, OnlyAcked,
         Acked, BatchSettled, NoSilentLoss, Verdict
    <2> QED BY <1>1, <2>1, <2>2, <2>3 DEF Log
  <1>2. ASSUME NEW e \in Events, Wake(e) PROVE Inv'
    <2>1. CASE Insert(e)
      BY <1>2, <2>1, InsertKeepsInv DEF Wake
    <2>2. CASE Refuse(e)
      BY <1>2, <2>2, RefuseKeepsInv DEF Wake, Inv, TypeOK
    <2>3. CASE /\ polls[e] > 1
               /\ polls' = [polls EXCEPT ![e] = @ - 1]
               /\ UNCHANGED <<table, caller, reported>>
      BY <1>2, <2>3 DEF Wake, Inv, table, pumping, TypeOK, RowsNumbered, OnlyAcked,
         Acked, BatchSettled, NoSilentLoss, Verdict
    <2> QED BY <1>2, <2>1, <2>2, <2>3 DEF Wake
  <1>3. ASSUME NEW e \in Events, SpoolThrows(e) PROVE Inv'
    BY <1>3, RefuseKeepsInv DEF SpoolThrows, Inv, TypeOK
  <1> USE DEF Inv, TypeOK, RowsNumbered, OnlyAcked, Acked, BatchSettled,
              NoSilentLoss, Verdict, table, calls, pumping
  <1>4. CASE PumpPeek
    BY <1>4 DEF PumpPeek, PeekOldest
  <1>5. CASE PumpWakes
    BY <1>5 DEF PumpWakes
  <1>6. CASE PumpAcked
    BY <1>6 DEF PumpAcked, Answered, DeleteBatch
  <1>7. CASE PumpReports
    BY <1>7 DEF PumpReports, Answered
  <1>8. CASE PumpDiscards
    BY <1>8 DEF PumpDiscards, DeleteBatch
  <1>9. CASE PumpBacksOff
    BY <1>9 DEF PumpBacksOff, Answered
  <1>10. CASE PumpStops
    BY <1>10 DEF PumpStops
  <1>11. CASE PumpDies
    BY <1>11 DEF PumpDies, Answered
  <1>12. ASSUME NEW v \in Verdict, ServerAnswers(v) PROVE Inv'
    BY <1>12 DEF ServerAnswers
  <1>13. CASE PostFails
    BY <1>13 DEF PostFails
  <1>14. ASSUME NEW b \in stale, NEW taken \in BOOLEAN, StaleRequest(b, taken)
         PROVE Inv'
    BY <1>14 DEF StaleRequest
  <1>15. CASE CloseBegins
    BY <1>15 DEF CloseBegins
  <1>16. CASE CloseStopsPump
    BY <1>16 DEF CloseStopsPump
  <1>17. CASE CloseSpool
    BY <1>17 DEF CloseSpool
  <1>18. CASE Crash
    BY <1>18 DEF Crash
  <1>19. CASE Restart
    BY <1>19 DEF Restart
  <1>20. CASE UNCHANGED vars
    BY <1>20 DEF vars
  <1> QED
    BY <1>1, <1>2, <1>3, <1>4, <1>5, <1>6, <1>7, <1>8, <1>9, <1>10, <1>11, <1>12,
       <1>13, <1>14, <1>15, <1>16, <1>17, <1>18, <1>19, <1>20 DEF Next, PumpStep

LEMMA Invariance == Spec => []Inv
  BY InvInit, InvNext, PTL DEF Spec

(* Type correctness of the durable transport. *)
THEOREM TypeCorrect == Spec => []TypeOK
  <1>1. Inv => TypeOK
    BY DEF Inv
  <1> QED BY <1>1, Invariance, PTL

(* No silent loss: an event whose log() call returned is spooled, was      *)
(* delivered, or was reported, whatever crashed or was closed since.       *)
THEOREM NothingLostSilently == Spec => []NoSilentLoss
  <1>1. Inv => NoSilentLoss
    BY DEF Inv
  <1> QED BY <1>1, Invariance, PTL

-----------------------------------------------------------------------------
(* The cap: a row is only ever added below it. *)
CapInv == IsFiniteSet(spool) /\ SpoolWithinCap

LEMMA InsertBelowCap ==
  ASSUME CapInv, NEW e \in Events, ~Full, Insert(e)
  PROVE  CapInv'
  <1>1. IsFiniteSet(spool \union {e})
        /\ Cardinality(spool \union {e}) =
             IF e \in spool THEN Cardinality(spool) ELSE Cardinality(spool) + 1
    BY FS_AddElement DEF CapInv
  <1>2. Cardinality(spool) \in Nat
    BY FS_CardinalityType DEF CapInv
  <1> QED
    BY <1>1, <1>2, DurableAssumption DEF CapInv, SpoolWithinCap, Full, Insert

LEMMA DeleteKeepsCap ==
  ASSUME CapInv, DeleteBatch
  PROVE  CapInv'
  <1>1. spool' \subseteq spool
    BY DEF DeleteBatch
  <1>2. IsFiniteSet(spool') /\ Cardinality(spool') <= Cardinality(spool)
    BY <1>1, FS_Subset DEF CapInv
  <1>3. Cardinality(spool) \in Nat /\ Cardinality(spool') \in Nat
    BY <1>2, FS_CardinalityType DEF CapInv
  <1> QED
    BY <1>2, <1>3, DurableAssumption DEF CapInv, SpoolWithinCap

(* The spool never holds more than maxSpooledEvents rows (backpressure.ts),*)
(* however many blocked calls wake for the same freed space.               *)
THEOREM CapHolds == Spec => []SpoolWithinCap
  <1>1. Init => CapInv
    BY FS_EmptySet, DurableAssumption DEF Init, CapInv, SpoolWithinCap
  <1>2. CapInv /\ [Next]_vars => CapInv'
    <2> SUFFICES ASSUME CapInv, [Next]_vars PROVE CapInv'
      OBVIOUS
    <2>1. ASSUME NEW e \in Events, Insert(e), ~Full PROVE CapInv'
      BY <2>1, InsertBelowCap
    <2>2. CASE DeleteBatch
      BY <2>2, DeleteKeepsCap
    <2>3. CASE spool' = spool
      BY <2>3 DEF CapInv, SpoolWithinCap
    <2>4. ASSUME NEW e \in Events, Log(e) \/ Wake(e) \/ SpoolThrows(e)
          PROVE  (Insert(e) /\ ~Full) \/ spool' = spool
      BY <2>4 DEF Log, Wake, SpoolThrows, Refuse, table
    <2>5. PumpStep => DeleteBatch \/ spool' = spool
      BY DEF PumpStep, PumpPeek, PumpWakes, PumpAcked, PumpReports, PumpDiscards,
             PumpBacksOff, PumpStops, table
    <2>6. (Next /\ ~PumpStep) => (\E e \in Events : Log(e) \/ Wake(e) \/ SpoolThrows(e))
                               \/ spool' = spool
      BY DEF Next, PumpDies, ServerAnswers, PostFails, StaleRequest, CloseBegins,
             CloseStopsPump, CloseSpool, Crash, Restart, table
    <2>7. UNCHANGED vars => spool' = spool
      BY DEF vars, table
    <2> QED BY <2>1, <2>2, <2>3, <2>4, <2>5, <2>6, <2>7
  <1>3. CapInv => SpoolWithinCap
    BY DEF CapInv
  <1> QED BY <1>1, <1>2, <1>3, PTL DEF Spec

-----------------------------------------------------------------------------
(* Order.  A batch on the wire holds, with each event, every earlier event *)
(* that still waits for its first delivery or report.                      *)
Closed(b) ==
  \A e \in Events, f \in b :
    (rowSeq[e] > 0 /\ Older(e, f)) => e \in b \union delivered \union reported

OrderInv ==
  /\ DeliveredInOrder
  /\ \A b \in stale : Closed(b)
  /\ pump = "waiting" => Closed(batch)

(* peekOldest returns a set of rows closed under "older". *)
LEMMA PeekIsClosed ==
  ASSUME TypeOK, NEW n \in Nat, NEW f \in PeekOldest(n), NEW e \in spool, Older(e, f)
  PROVE  e \in PeekOldest(n)
  <1> DEFINE Before(x) == {g \in spool : Older(g, x)}
  <1>1. rowSeq[e] \in Nat /\ rowSeq[f] \in Nat /\ \A g \in spool : rowSeq[g] \in Nat
    BY DEF TypeOK, PeekOldest
  <1>2. Before(e) \subseteq Before(f)
    BY <1>1 DEF Older
  <1>3. IsFiniteSet(spool)
    BY FS_Subset, DurableAssumption DEF TypeOK
  <1>4. IsFiniteSet(Before(f))
    <2>1. Before(f) \subseteq spool
      OBVIOUS
    <2> QED BY <2>1, <1>3, FS_Subset
  <1>5. IsFiniteSet(Before(e)) /\ Cardinality(Before(e)) <= Cardinality(Before(f))
    BY <1>2, <1>4, FS_Subset
  <1>6. Cardinality(Before(f)) < n
    BY DEF PeekOldest
  <1>7. Cardinality(Before(e)) \in Nat /\ Cardinality(Before(f)) \in Nat
    BY <1>4, <1>5, FS_CardinalityType
  <1>8. Cardinality(Before(e)) < n
    BY <1>5, <1>6, <1>7
  <1> QED BY <1>8 DEF PeekOldest

LEMMA InsertKeepsOrder ==
  ASSUME Inv, OrderInv, NEW e \in Events, caller[e] \in {"new", "blocked"}, Insert(e),
         UNCHANGED <<pumping, stale, delivered>>
  PROVE  OrderInv'
  <1> USE DEF Insert, pumping, Inv, TypeOK, RowsNumbered, OnlyAcked, Acked
  <1>1. e \notin Acked /\ e \notin delivered /\ e \notin batch /\ \A b \in stale : e \notin b
    OBVIOUS
  <1>2. ASSUME NEW S, S \subseteq Acked, NEW f \in S, NEW d \in Events,
               rowSeq'[d] > 0, rowSeq'[d] < rowSeq'[f]
        PROVE  d # e /\ rowSeq[d] > 0 /\ rowSeq[d] < rowSeq[f]
    BY <1>2
  <1>3. DeliveredInOrder'
    BY <1>1, <1>2 DEF OrderInv, DeliveredInOrder, Older
  <1>4. ASSUME NEW b, b \subseteq Acked, Closed(b) PROVE Closed(b)'
    BY <1>1, <1>2, <1>4 DEF Closed, Older
  <1> QED BY <1>3, <1>4 DEF OrderInv

LEMMA OrderNext == Inv /\ OrderInv /\ [Next]_vars => OrderInv'
  <1> SUFFICES ASSUME Inv, OrderInv, [Next]_vars PROVE OrderInv'
    OBVIOUS
  <1> USE DEF table, calls, pumping
  <1>1. ASSUME NEW e \in Events, Log(e) \/ Wake(e), Insert(e) PROVE OrderInv'
    BY <1>1, InsertKeepsOrder DEF Log, Wake
  <1>2. ASSUME NEW e \in Events, SpoolThrows(e) \/ ((Log(e) \/ Wake(e)) /\ ~Insert(e))
        PROVE  OrderInv'
    BY <1>2 DEF Log, Wake, SpoolThrows, Refuse, OrderInv, Closed, DeliveredInOrder, Older
  <1>3. CASE PumpPeek
    <2>1. ASSUME NEW f \in PeekOldest(BatchSize), NEW e \in Events,
                 rowSeq[e] > 0, Older(e, f)
          PROVE  e \in PeekOldest(BatchSize) \union delivered \union reported
      <3>1. e \in spool \union delivered \union reported
        BY <2>1 DEF Inv, RowsNumbered, NoSilentLoss
      <3>2. CASE e \in spool
        BY <2>1, <3>2, PeekIsClosed, DurableAssumption DEF Inv
      <3> QED BY <3>1, <3>2
    <2> QED BY <1>3, <2>1 DEF PumpPeek, OrderInv, Closed, DeliveredInOrder, Older
  <1> USE DEF OrderInv, Closed, DeliveredInOrder, Older
  <1>4. CASE PumpWakes
    BY <1>4 DEF PumpWakes
  <1>5. CASE PumpAcked
    BY <1>5 DEF PumpAcked, DeleteBatch
  <1>6. CASE PumpReports
    BY <1>6 DEF PumpReports
  <1>7. CASE PumpDiscards
    BY <1>7 DEF PumpDiscards, DeleteBatch
  <1>8. CASE PumpBacksOff \/ PumpStops
    BY <1>8 DEF PumpBacksOff, PumpStops
  <1>9. CASE PumpDies
    BY <1>9 DEF PumpDies
  <1>10. ASSUME NEW v \in Verdict, ServerAnswers(v) PROVE OrderInv'
    BY <1>10 DEF ServerAnswers
  <1>11. CASE PostFails
    BY <1>11 DEF PostFails
  <1>12. ASSUME NEW b \in stale, NEW taken \in BOOLEAN, StaleRequest(b, taken)
         PROVE OrderInv'
    BY <1>12 DEF StaleRequest
  <1>13. CASE CloseBegins \/ CloseStopsPump \/ CloseSpool
    BY <1>13 DEF CloseBegins, CloseStopsPump, CloseSpool
  <1>14. CASE Crash \/ Restart
    BY <1>14 DEF Crash, Restart
  <1>15. CASE UNCHANGED vars
    BY <1>15 DEF vars
  <1> QED
    BY <1>1, <1>2, <1>3, <1>4, <1>5, <1>6, <1>7, <1>8, <1>9, <1>10, <1>11, <1>12,
       <1>13, <1>14, <1>15 DEF Next, PumpStep

(* Oldest first: the server never has an event while an earlier spooled    *)
(* one still waits for its first delivery or report.                       *)
THEOREM DeliveryIsInOrder == Spec => []DeliveredInOrder
  <1>1. Init => OrderInv
    BY DEF Init, OrderInv, DeliveredInOrder, Older, Closed
  <1>2. OrderInv => DeliveredInOrder
    BY DEF OrderInv
  <1> QED BY <1>1, <1>2, OrderNext, Invariance, PTL DEF Spec

-----------------------------------------------------------------------------
(* Every step of the durable transport is a step of Outbox, or changes     *)
(* nothing Outbox sees.                                                    *)
LEMMA StepRefines == Inv /\ [Next]_vars => [Contract!Next]_(Contract!vars)
  <1> SUFFICES ASSUME Inv, [Next]_vars PROVE Contract!Next \/ UNCHANGED Contract!vars
    OBVIOUS
  <1> USE DEF Contract!vars, table, calls, pumping, Inv, TypeOK
  <1>1. ASSUME NEW e \in Events, Log(e) \/ Wake(e), Insert(e)
        PROVE  Contract!Accept(e)
    BY <1>1 DEF Log, Wake, Insert, Contract!Accept
  <1>2. ASSUME NEW e \in Events, Log(e) \/ Wake(e) \/ SpoolThrows(e), Refuse(e)
        PROVE  Contract!Report({e})
    BY <1>2 DEF Log, Wake, SpoolThrows, Refuse, Contract!Report
  <1>3. ASSUME NEW e \in Events, Log(e) \/ Wake(e), ~Insert(e), ~Refuse(e)
        PROVE  UNCHANGED Contract!vars
    BY <1>3 DEF Log, Wake
  <1>4. ASSUME PumpAcked \/ PumpDiscards
        PROVE  Contract!Release(batch) /\ batch \in SUBSET spool
    BY <1>4 DEF PumpAcked, PumpDiscards, Answered, DeleteBatch, BatchSettled,
                Contract!Release
  <1>5. CASE PumpReports
    BY <1>5 DEF PumpReports, Contract!Report, Contract!Next
  <1>6. ASSUME NEW v \in Verdict, ServerAnswers(v)
        PROVE  Contract!Next \/ UNCHANGED Contract!vars
    <2>1. batch \in SUBSET {e \in Events : caller[e] = "acked"}
      BY DEF OnlyAcked, Acked
    <2>2. v = "ok" => Contract!Deliver(batch)
      BY <1>6 DEF ServerAnswers, Contract!Deliver
    <2>3. v # "ok" => UNCHANGED Contract!vars
      BY <1>6 DEF ServerAnswers
    <2> QED BY <2>1, <2>2, <2>3 DEF Contract!Next
  <1>7. ASSUME NEW b \in stale, NEW taken \in BOOLEAN, StaleRequest(b, taken)
        PROVE  Contract!Next \/ UNCHANGED Contract!vars
    <2>1. b \in SUBSET {e \in Events : caller[e] = "acked"}
      BY DEF OnlyAcked, Acked
    <2>2. taken => Contract!Deliver(b)
      BY <1>7 DEF StaleRequest, Contract!Deliver
    <2>3. ~taken => UNCHANGED Contract!vars
      BY <1>7 DEF StaleRequest
    <2> QED BY <2>1, <2>2, <2>3 DEF Contract!Next
  <1>8. CASE PumpPeek \/ PumpWakes \/ PumpBacksOff \/ PumpStops \/ PumpDies \/ PostFails
    BY <1>8 DEF PumpPeek, PumpWakes, PumpBacksOff, PumpStops, PumpDies, PostFails
  <1>9. CASE CloseBegins \/ CloseStopsPump \/ CloseSpool \/ Restart
    BY <1>9 DEF CloseBegins, CloseStopsPump, CloseSpool, Restart
  <1>10. CASE Crash
    BY <1>10 DEF Crash
  <1>11. CASE UNCHANGED vars
    BY <1>11 DEF vars
  <1>12. ASSUME NEW e \in Events, Log(e) \/ Wake(e) \/ SpoolThrows(e)
         PROVE  Contract!Next \/ UNCHANGED Contract!vars
    <2>1. CASE Insert(e) /\ ~SpoolThrows(e)
      BY <1>12, <2>1, <1>1 DEF Contract!Next
    <2>2. CASE Refuse(e)
      <3>1. {e} \in SUBSET Events
        OBVIOUS
      <3> QED BY <1>12, <2>2, <3>1, <1>2 DEF Contract!Next
    <2>3. SpoolThrows(e) => Refuse(e)
      BY DEF SpoolThrows
    <2> QED BY <1>12, <2>1, <2>2, <2>3, <1>3
  <1> QED
    BY <1>4, <1>5, <1>6, <1>7, <1>8, <1>9, <1>10, <1>11, <1>12
    DEF Next, PumpStep, Contract!Next

(* The durable transport implements the Outbox contract: accepted events   *)
(* stay owed until delivered or reported, and only accepted ones are sent. *)
THEOREM Refinement == Spec => ImplementsOutbox
  <1>1. Init => Contract!Init
    BY DEF Init, Contract!Init
  <1> QED
    BY <1>1, StepRefines, Invariance, PTL DEF Spec, ImplementsOutbox, Contract!Spec
=============================================================================
