----------------------------- MODULE IngestProofs -----------------------------
(***************************************************************************)
(* Proof that an accepted batch stays stored (Ingest.tla), for any batches *)
(* and requests, any page size and limits, any number of sends, faults and *)
(* exits.                                                                  *)
(***************************************************************************)
EXTENDS Ingest, FiniteSetTheorems, TLAPS

(* What the argument needs of the types: records have their fields.        *)
Shape ==
  /\ up \in BOOLEAN
  /\ rows \subseteq Rows /\ IsFiniteSet(rows)
  /\ nextId \in Nat \ {0}
  /\ request \in [Requests -> [pc : {"idle", "clustering", "inserting", "inserted"},
                               batch : Batches, clustered : BOOLEAN]]
  /\ sweep = [pc |-> sweep.pc, cursor |-> sweep.cursor, page |-> sweep.page,
              recovered |-> sweep.recovered]
  /\ sweep.page \subseteq Rows /\ IsFiniteSet(sweep.page)

Stored(b) == \E s \in rows : s.batch = b

(* Ids are given once, to rows and to the rows the sweep read.             *)
IdsOnce ==
  /\ \A s \in rows \union sweep.page : s.id < nextId
  /\ \A s, t \in rows \union sweep.page : s.id = t.id => s = t

(* Before the sweep deletes a row it read, its batch has a row that the    *)
(* DELETE does not name and that no merge takes away.                      *)
ReplacedBeforeDelete ==
  sweep.pc = "inserted" =>
    \A s \in sweep.page : \E t \in rows :
      t.batch = s.batch /\ ~t.stable /\ \A u \in sweep.page : u.id # t.id

(* Who was answered, who is about to be, and who would be from the cache.  *)
AnswersBacked ==
  /\ \A b \in acked \ Dropped : Stored(b)
  /\ \A b \in cache : Stored(b)
  /\ \A r \in Requests : request[r].pc = "inserted" => Stored(request[r].batch)

Inv == Shape /\ IdsOnce /\ ReplacedBeforeDelete /\ AnswersBacked

-----------------------------------------------------------------------------
(* Rows of a finite set, counted by the ids below them: distinct numbers   *)
(* smaller than the size of the set.                                       *)
LEMMA CountsBelow ==
  ASSUME NEW S \in SUBSET Rows, IsFiniteSet(S)
  PROVE  /\ Cardinality(S) \in Nat
         /\ \A s \in S : /\ Cardinality({t \in S : t.id < s.id}) \in Nat
                         /\ Cardinality({t \in S : t.id < s.id}) < Cardinality(S)
         /\ \A s, u \in S :
              s.id < u.id => Cardinality({t \in S : t.id < s.id}) < Cardinality({t \in S : t.id < u.id})
  <1> DEFINE Below(s) == {t \in S : t.id < s.id}
  <1>0. \A s \in S : s.id \in Nat
    BY DEF Rows
  <1>1. Cardinality(S) \in Nat
    BY FS_CardinalityType
  <1>2. ASSUME NEW s \in S
        PROVE  /\ IsFiniteSet(Below(s)) /\ Cardinality(Below(s)) \in Nat
               /\ Cardinality(Below(s)) < Cardinality(S)
    <2>1. Below(s) \in SUBSET S /\ Below(s) # S
      BY <1>0
    <2>2. IsFiniteSet(Below(s)) /\ Cardinality(Below(s)) \in Nat
      BY <2>1, FS_Subset, FS_CardinalityType
    <2>3. Cardinality(Below(s)) <= Cardinality(S) /\ Cardinality(S) # Cardinality(Below(s))
      BY <2>1, FS_Subset
    <2> QED BY <1>1, <2>2, <2>3
  <1>3. ASSUME NEW s \in S, NEW u \in S, s.id < u.id
        PROVE  Cardinality(Below(s)) < Cardinality(Below(u))
    <2>1. Below(s) \in SUBSET Below(u) /\ Below(s) # Below(u)
      BY <1>0, <1>3
    <2>2. Cardinality(Below(s)) <= Cardinality(Below(u)) /\ Cardinality(Below(u)) # Cardinality(Below(s))
      BY <1>2, <2>1, FS_Subset
    <2>3. Cardinality(Below(s)) \in Nat /\ Cardinality(Below(u)) \in Nat
      BY <1>2
    <2> HIDE DEF Below
    <2> QED BY <2>2, <2>3
  <1> QED BY <1>1, <1>2, <1>3

LEMMA InvInit == Init => Inv
  BY FS_EmptySet, IngestAssumption
     DEF Init, Inv, Shape, IdsOnce, ReplacedBeforeDelete, AnswersBacked, Stored, NoSweep, IdleRequest

LEMMA OtherCallKeepsInv ==
  ASSUME Inv, OtherCall
  PROVE  Inv'
  <1> USE IngestAssumption DEF Inv, outside, OtherCall, table, client, recovery
  <1>1. Shape'
    BY FS_EmptySet, FS_Subset DEF Shape
  <1>2. IdsOnce'
    BY DEF Shape, IdsOnce
  <1>3. ReplacedBeforeDelete'
    BY DEF Shape, ReplacedBeforeDelete
  <1>4. AnswersBacked'
    BY DEF Shape, AnswersBacked, Stored
  <1> QED BY <1>1, <1>2, <1>3, <1>4

LEMMA GoesDownKeepsInv ==
  ASSUME Inv, GoesDown
  PROVE  Inv'
  <1> USE IngestAssumption DEF Inv, outside, GoesDown, table, client, recovery
  <1>1. Shape'
    BY FS_EmptySet, FS_Subset DEF Shape
  <1>2. IdsOnce'
    BY DEF Shape, IdsOnce
  <1>3. ReplacedBeforeDelete'
    BY DEF Shape, ReplacedBeforeDelete
  <1>4. AnswersBacked'
    BY DEF Shape, AnswersBacked, Stored
  <1> QED BY <1>1, <1>2, <1>3, <1>4

LEMMA ComesUpKeepsInv ==
  ASSUME Inv, ComesUp
  PROVE  Inv'
  <1> USE IngestAssumption DEF Inv, outside, ComesUp, table, client, recovery
  <1>1. Shape'
    BY FS_EmptySet, FS_Subset DEF Shape
  <1>2. IdsOnce'
    BY DEF Shape, IdsOnce
  <1>3. ReplacedBeforeDelete'
    BY DEF Shape, ReplacedBeforeDelete
  <1>4. AnswersBacked'
    BY DEF Shape, AnswersBacked, Stored
  <1> QED BY <1>1, <1>2, <1>3, <1>4

LEMMA SendKeepsInv ==
  ASSUME Inv, NEW r \in Requests, NEW b \in Batches, Send(r, b)
  PROVE  Inv'
  <1> USE IngestAssumption DEF Inv, outside, Send, table, recovery
  <1>1. Shape'
    <2> DEFINE entry == [pc |-> IF TurnedAway THEN "inserting" ELSE "clustering",
                         batch |-> b, clustered |-> FALSE]
    <2>1. entry \in [pc : {"idle", "clustering", "inserting", "inserted"}, batch : Batches, clustered : BOOLEAN]
      OBVIOUS
    <2>2. request' = request \/ request' = [request EXCEPT ![r] = entry]
      OBVIOUS
    <2> HIDE DEF entry
    <2> QED BY <2>1, <2>2 DEF Shape
  <1>2. IdsOnce'
    BY DEF Shape, IdsOnce
  <1>3. ReplacedBeforeDelete'
    BY DEF Shape, ReplacedBeforeDelete
  <1>4. AnswersBacked'
    BY DEF Shape, AnswersBacked, Stored
  <1> QED BY <1>1, <1>2, <1>3, <1>4

LEMMA ClusterReturnsKeepsInv ==
  ASSUME Inv, NEW r \in Requests, ClusterReturns(r)
  PROVE  Inv'
  <1> USE IngestAssumption DEF Inv, outside, ClusterReturns, table, recovery
  <1>1. Shape'
    <2>1. [request[r] EXCEPT !.pc = "inserting", !.clustered = up]
            \in [pc : {"idle", "clustering", "inserting", "inserted"}, batch : Batches, clustered : BOOLEAN]
      BY DEF Shape
    <2> QED BY <2>1 DEF Shape
  <1>2. IdsOnce'
    BY DEF Shape, IdsOnce
  <1>3. ReplacedBeforeDelete'
    BY DEF Shape, ReplacedBeforeDelete
  <1>4. AnswersBacked'
    BY DEF Shape, AnswersBacked, Stored
  <1> QED BY <1>1, <1>2, <1>3, <1>4

LEMMA InsertReturnsKeepsInv ==
  ASSUME Inv, NEW r \in Requests, InsertReturns(r)
  PROVE  Inv'
  <1> USE IngestAssumption DEF Inv, outside, InsertReturns, recovery
  <1>1. Shape'
    <2> DEFINE new == [id |-> nextId, batch |-> request[r].batch, stable |-> request[r].batch \in Stable,
                       clustered |-> request[r].clustered, from |-> 0]
    <2>1. new \in Rows /\ rows' = rows \union {new}
      BY DEF Shape, Rows
    <2>2. [request[r] EXCEPT !.pc = "inserted"]
            \in [pc : {"idle", "clustering", "inserting", "inserted"}, batch : Batches, clustered : BOOLEAN]
      BY DEF Shape
    <2> HIDE DEF new
    <2>3. IsFiniteSet(rows')
      <3>1. IsFiniteSet(rows)
        BY DEF Shape
      <3>2. IsFiniteSet(rows \union {new})
        BY <3>1, FS_AddElement
      <3> QED BY <2>1, <3>2
    <2> QED BY <2>1, <2>2, <2>3 DEF Shape
  <1>2. IdsOnce'
    <2>1. \A s \in rows' \union sweep'.page : s \in rows \union sweep.page \/ s.id = nextId
      OBVIOUS
    <2>2. \A s \in rows \union sweep.page : s.id \in Nat /\ s.id < nextId
      BY DEF Shape, IdsOnce, Rows
    <2>3. \A s, t \in rows' \union sweep'.page :
            s \notin rows \union sweep.page /\ t \notin rows \union sweep.page => s = t
      OBVIOUS
    <2>4. nextId' = nextId + 1 /\ nextId \in Nat
      BY DEF Shape
    <2>5. \A s \in rows' \union sweep'.page : s.id < nextId'
      BY <2>1, <2>2, <2>4
    <2>6. ASSUME NEW s \in rows' \union sweep'.page, NEW t \in rows' \union sweep'.page, s.id = t.id
          PROVE  s = t
      <3>1. CASE s \in rows \union sweep.page /\ t \in rows \union sweep.page
        BY <2>6, <3>1 DEF IdsOnce
      <3>2. CASE s \notin rows \union sweep.page /\ t \notin rows \union sweep.page
        BY <2>3, <3>2
      <3> QED BY <2>1, <2>2, <2>4, <2>6, <3>1, <3>2
    <2> QED BY <2>5, <2>6 DEF IdsOnce
  <1>3. ReplacedBeforeDelete'
    BY DEF Shape, ReplacedBeforeDelete
  <1>4. AnswersBacked'
    BY DEF Shape, AnswersBacked, Stored
  <1> QED BY <1>1, <1>2, <1>3, <1>4

LEMMA InsertFailsKeepsInv ==
  ASSUME Inv, NEW r \in Requests, InsertFails(r)
  PROVE  Inv'
  <1> USE IngestAssumption DEF Inv, outside, InsertFails, table, recovery, IdleRequest
  <1>1. Shape'
    BY FS_EmptySet, FS_Subset DEF Shape
  <1>2. IdsOnce'
    BY DEF Shape, IdsOnce
  <1>3. ReplacedBeforeDelete'
    BY DEF Shape, ReplacedBeforeDelete
  <1>4. AnswersBacked'
    BY DEF Shape, AnswersBacked, Stored
  <1> QED BY <1>1, <1>2, <1>3, <1>4

LEMMA AnswerKeepsInv ==
  ASSUME Inv, NEW r \in Requests, Answer(r)
  PROVE  Inv'
  <1> USE IngestAssumption DEF Inv, outside, Answer, table, recovery, IdleRequest
  <1>1. Shape'
    BY FS_EmptySet, FS_Subset DEF Shape
  <1>2. IdsOnce'
    BY DEF Shape, IdsOnce
  <1>3. ReplacedBeforeDelete'
    BY DEF Shape, ReplacedBeforeDelete
  <1>4. AnswersBacked'
    BY DEF Shape, AnswersBacked, Stored
  <1> QED BY <1>1, <1>2, <1>3, <1>4

LEMMA ForgetKeepsInv ==
  ASSUME Inv, NEW b \in Batches, Forget(b)
  PROVE  Inv'
  <1> USE IngestAssumption DEF Inv, outside, Forget, table, recovery
  <1>1. Shape'
    BY FS_EmptySet, FS_Subset DEF Shape
  <1>2. IdsOnce'
    BY DEF Shape, IdsOnce
  <1>3. ReplacedBeforeDelete'
    BY DEF Shape, ReplacedBeforeDelete
  <1>4. AnswersBacked'
    BY DEF Shape, AnswersBacked, Stored
  <1> QED BY <1>1, <1>2, <1>3, <1>4

LEMMA MergeKeepsInv ==
  ASSUME Inv, Merge
  PROVE  Inv'
  <1> USE IngestAssumption DEF Inv, outside, Merge, client, recovery
  <1>1. Shape'
    BY FS_EmptySet, FS_Subset DEF Shape
  <1>2. IdsOnce'
    BY DEF Shape, IdsOnce
  <1>3. ReplacedBeforeDelete'
    BY DEF Shape, ReplacedBeforeDelete
  <1>4. AnswersBacked'
    <2>1. PICK s \in rows, t \in rows :
             s.batch = t.batch /\ s.stable /\ t.stable /\ s.id < t.id /\ rows' = rows \ {s}
      OBVIOUS
    <2>2. t \in rows'
      <3>1. s.id \in Nat
        BY DEF Shape, Rows
      <3> QED BY <2>1, <3>1
    <2>3. \A b : Stored(b) => Stored(b)'
      BY <2>1, <2>2 DEF Stored
    <2> QED BY <2>3 DEF AnswersBacked
  <1> QED BY <1>1, <1>2, <1>3, <1>4

LEMMA SweepStartsKeepsInv ==
  ASSUME Inv, SweepStarts
  PROVE  Inv'
  <1> USE IngestAssumption DEF Inv, outside, SweepStarts, NoSweep, table, client
  <1>1. Shape'
    BY FS_EmptySet, FS_Subset DEF Shape
  <1>2. IdsOnce'
    BY DEF Shape, IdsOnce
  <1>3. ReplacedBeforeDelete'
    BY DEF Shape, ReplacedBeforeDelete
  <1>4. AnswersBacked'
    BY DEF Shape, AnswersBacked, Stored
  <1> QED BY <1>1, <1>2, <1>3, <1>4

LEMMA SweepPagesKeepsInv ==
  ASSUME Inv, SweepPages
  PROVE  Inv'
  <1> USE IngestAssumption DEF Inv, outside, SweepPages, NoSweep, Page, Unclustered, table, client
  <1>1. Shape'
    BY FS_EmptySet, FS_Subset DEF Shape
  <1>2. IdsOnce'
    BY DEF Shape, IdsOnce
  <1>3. ReplacedBeforeDelete'
    BY DEF Shape, ReplacedBeforeDelete
  <1>4. AnswersBacked'
    BY DEF Shape, AnswersBacked, Stored
  <1> QED BY <1>1, <1>2, <1>3, <1>4

LEMMA SweepCallsKeepsInv ==
  ASSUME Inv, SweepCalls
  PROVE  Inv'
  <1> USE IngestAssumption DEF Inv, outside, SweepCalls, table, client, Advance
  <1>1. Shape'
    BY FS_EmptySet, FS_Subset DEF Shape
  <1>2. IdsOnce'
    BY DEF Shape, IdsOnce
  <1>3. ReplacedBeforeDelete'
    BY DEF Shape, ReplacedBeforeDelete
  <1>4. AnswersBacked'
    BY DEF Shape, AnswersBacked, Stored
  <1> QED BY <1>1, <1>2, <1>3, <1>4

LEMMA SweepClustersKeepsInv ==
  ASSUME Inv, SweepClusters
  PROVE  Inv'
  <1> USE IngestAssumption DEF Inv, outside, SweepClusters, table, client, Advance
  <1>1. Shape'
    BY FS_EmptySet, FS_Subset DEF Shape
  <1>2. IdsOnce'
    BY DEF Shape, IdsOnce
  <1>3. ReplacedBeforeDelete'
    BY DEF Shape, ReplacedBeforeDelete
  <1>4. AnswersBacked'
    BY DEF Shape, AnswersBacked, Stored
  <1> QED BY <1>1, <1>2, <1>3, <1>4

LEMMA SweepBackpressureKeepsInv ==
  ASSUME Inv, SweepBackpressure
  PROVE  Inv'
  <1> USE IngestAssumption DEF Inv, outside, SweepBackpressure, NoSweep, table, client
  <1>1. Shape'
    BY FS_EmptySet, FS_Subset DEF Shape
  <1>2. IdsOnce'
    BY DEF Shape, IdsOnce
  <1>3. ReplacedBeforeDelete'
    BY DEF Shape, ReplacedBeforeDelete
  <1>4. AnswersBacked'
    BY DEF Shape, AnswersBacked, Stored
  <1> QED BY <1>1, <1>2, <1>3, <1>4

LEMMA SweepInsertsKeepsInv ==
  ASSUME Inv, SweepInserts
  PROVE  Inv'
  <1> USE IngestAssumption DEF Inv, outside, SweepInserts, client
  <1> DEFINE Again(s) == [id |-> nextId + Cardinality({t \in sweep.page : t.id < s.id}),
                          batch |-> s.batch, stable |-> FALSE, clustered |-> TRUE, from |-> s.id]
  <1>a. Reclustered = {Again(s) : s \in sweep.page}
    BY DEF Reclustered
  <1>b. /\ \A s \in sweep.page : nextId <= Again(s).id /\ Again(s).id < nextId'
        /\ \A s, u \in sweep.page : Again(s).id = Again(u).id => s = u
    <2>1. \A s \in sweep.page : s.id \in Nat
      BY DEF Shape, Rows
    <2>2. ASSUME NEW s \in sweep.page, NEW u \in sweep.page, Again(s).id = Again(u).id
          PROVE  s = u
      <3> DEFINE n(x) == Cardinality({t \in sweep.page : t.id < x.id})
      <3>a. n(s) \in Nat /\ n(u) \in Nat /\ (s.id < u.id => n(s) < n(u)) /\ (u.id < s.id => n(u) < n(s))
        BY CountsBelow DEF Shape
      <3>b. nextId + n(s) = nextId + n(u) /\ nextId \in Nat
        BY <2>2 DEF Shape
      <3> HIDE DEF n
      <3>1. ~(s.id < u.id) /\ ~(u.id < s.id)
        BY <3>a, <3>b
      <3> QED BY <2>1, <3>1 DEF IdsOnce
    <2> QED BY <2>2, CountsBelow DEF Shape
  <1> HIDE DEF Again
  <1>1. Shape'
    <2>1. \A s \in sweep.page : Again(s) \in Rows
      BY CountsBelow DEF Shape, Again, Rows
    <2>2. IsFiniteSet(Reclustered)
      <3> DEFINE f == [s \in sweep.page |-> Again(s)]
      <3>1. f \in Surjection(sweep.page, Reclustered)
        BY <1>a DEF Surjection
      <3> QED BY <3>1, FS_Surjection DEF Shape
    <2>3. IsFiniteSet(rows')
      BY <2>2, FS_Union DEF Shape
    <2>4. Reclustered \subseteq Rows
      BY <1>a, <2>1
    <2>5. nextId' \in Nat \ {0}
      BY CountsBelow DEF Shape
    <2> QED BY <2>3, <2>4, <2>5 DEF Shape
  <1>2. IdsOnce'
    <2>1. \A s \in rows' \union sweep'.page :
            s \in rows \union sweep.page \/ \E u \in sweep.page : s = Again(u)
      BY <1>a DEF Shape
    <2>2. \A s \in rows \union sweep.page : s.id \in Nat /\ s.id < nextId
      BY DEF Shape, IdsOnce, Rows
    <2>3. nextId <= nextId' /\ nextId \in Nat /\ nextId' \in Nat
      BY <1>1, CountsBelow DEF Shape
    <2>4. \A u \in sweep.page : Again(u).id \in Nat
      BY CountsBelow DEF Shape, Again
    <2>5. \A s \in rows' \union sweep'.page : s.id < nextId'
      BY <1>b, <2>1, <2>2, <2>3
    <2>6. ASSUME NEW s \in rows' \union sweep'.page, NEW t \in rows' \union sweep'.page, s.id = t.id
          PROVE  s = t
      <3>1. CASE s \in rows \union sweep.page /\ t \in rows \union sweep.page
        BY <2>6, <3>1 DEF IdsOnce
      <3>2. CASE \E u, v \in sweep.page : s = Again(u) /\ t = Again(v)
        BY <1>b, <2>6, <3>2
      <3> QED BY <1>b, <2>1, <2>2, <2>3, <2>4, <2>6, <3>1, <3>2
    <2> QED BY <2>5, <2>6 DEF IdsOnce
  <1>3. ReplacedBeforeDelete'
    <2>1. sweep'.page = sweep.page /\ rows' = rows \union Reclustered
      BY DEF Shape
    <2>2. ASSUME NEW s \in sweep.page
          PROVE  \E t \in rows' : t.batch = s.batch /\ ~t.stable /\ \A u \in sweep.page : u.id # t.id
      <3>1. Again(s) \in rows'
        BY <1>a, <2>1
      <3>2. Again(s).batch = s.batch /\ ~Again(s).stable
        BY DEF Again
      <3>3. \A u \in sweep.page : u.id # Again(s).id
        BY <1>b, CountsBelow DEF Shape, IdsOnce, Again, Rows
      <3> QED BY <3>1, <3>2, <3>3
    <2> QED BY <2>1, <2>2 DEF ReplacedBeforeDelete
  <1>4. AnswersBacked'
    BY DEF Shape, AnswersBacked, Stored
  <1> QED BY <1>1, <1>2, <1>3, <1>4

LEMMA SweepInsertFailsKeepsInv ==
  ASSUME Inv, SweepInsertFails
  PROVE  Inv'
  <1> USE IngestAssumption DEF Inv, outside, SweepInsertFails, table, client, Advance
  <1>1. Shape'
    BY FS_EmptySet, FS_Subset DEF Shape
  <1>2. IdsOnce'
    BY DEF Shape, IdsOnce
  <1>3. ReplacedBeforeDelete'
    BY DEF Shape, ReplacedBeforeDelete
  <1>4. AnswersBacked'
    BY DEF Shape, AnswersBacked, Stored
  <1> QED BY <1>1, <1>2, <1>3, <1>4

LEMMA SweepDeletesKeepsInv ==
  ASSUME Inv, SweepDeletes
  PROVE  Inv'
  <1> USE IngestAssumption DEF Inv, outside, SweepDeletes, client, Advance
  <1>1. Shape'
    BY FS_EmptySet, FS_Subset DEF Shape
  <1>2. IdsOnce'
    BY DEF Shape, IdsOnce
  <1>3. ReplacedBeforeDelete'
    BY DEF Shape, ReplacedBeforeDelete
  <1>4. AnswersBacked'
    <2>1. ASSUME NEW b, Stored(b) PROVE Stored(b)'
      <3>1. PICK s \in rows : s.batch = b
        BY <2>1 DEF Stored
      <3>2. CASE \E u \in sweep.page : u.id = s.id
        <4>1. s \in sweep.page
          BY <3>2 DEF IdsOnce
        <4>2. PICK t \in rows : t.batch = s.batch /\ \A u \in sweep.page : u.id # t.id
          BY <4>1 DEF ReplacedBeforeDelete
        <4> QED BY <3>1, <4>2 DEF Stored
      <3>3. CASE ~\E u \in sweep.page : u.id = s.id
        BY <3>1, <3>3 DEF Stored
      <3> QED BY <3>2, <3>3
    <2> QED BY <2>1 DEF AnswersBacked
  <1> QED BY <1>1, <1>2, <1>3, <1>4

LEMMA SweepDeleteFailsKeepsInv ==
  ASSUME Inv, SweepDeleteFails
  PROVE  Inv'
  <1> USE IngestAssumption DEF Inv, outside, SweepDeleteFails, table, client, Advance
  <1>1. Shape'
    BY FS_EmptySet, FS_Subset DEF Shape
  <1>2. IdsOnce'
    BY DEF Shape, IdsOnce
  <1>3. ReplacedBeforeDelete'
    BY DEF Shape, ReplacedBeforeDelete
  <1>4. AnswersBacked'
    BY DEF Shape, AnswersBacked, Stored
  <1> QED BY <1>1, <1>2, <1>3, <1>4

LEMMA CrashKeepsInv ==
  ASSUME Inv, Crash
  PROVE  Inv'
  <1> USE IngestAssumption DEF Inv, outside, Crash, NoSweep, IdleRequest, table
  <1>1. Shape'
    BY FS_EmptySet, FS_Subset DEF Shape
  <1>2. IdsOnce'
    BY DEF Shape, IdsOnce
  <1>3. ReplacedBeforeDelete'
    BY DEF Shape, ReplacedBeforeDelete
  <1>4. AnswersBacked'
    BY DEF Shape, AnswersBacked, Stored
  <1> QED BY <1>1, <1>2, <1>3, <1>4

LEMMA InvNext == Inv /\ [Next]_vars => Inv'
  <1> SUFFICES ASSUME Inv, [Next]_vars PROVE Inv'
    OBVIOUS
  <1>1. CASE OtherCall \/ GoesDown \/ ComesUp
    BY <1>1, OtherCallKeepsInv, GoesDownKeepsInv, ComesUpKeepsInv
  <1>2. ASSUME NEW r \in Requests, NEW b \in Batches, Send(r, b) PROVE Inv'
    BY <1>2, SendKeepsInv
  <1>3. ASSUME NEW r \in Requests,
               ClusterReturns(r) \/ InsertReturns(r) \/ InsertFails(r) \/ Answer(r)
        PROVE  Inv'
    BY <1>3, ClusterReturnsKeepsInv, InsertReturnsKeepsInv, InsertFailsKeepsInv, AnswerKeepsInv
  <1>4. ASSUME NEW b \in Batches, Forget(b) PROVE Inv'
    BY <1>4, ForgetKeepsInv
  <1>5. CASE Merge \/ Crash
    BY <1>5, MergeKeepsInv, CrashKeepsInv
  <1>6. CASE \/ SweepStarts \/ SweepPages \/ SweepCalls \/ SweepClusters \/ SweepBackpressure
             \/ SweepInserts \/ SweepInsertFails \/ SweepDeletes \/ SweepDeleteFails
    BY <1>6, SweepStartsKeepsInv, SweepPagesKeepsInv, SweepCallsKeepsInv, SweepClustersKeepsInv,
       SweepBackpressureKeepsInv, SweepInsertsKeepsInv, SweepInsertFailsKeepsInv,
       SweepDeletesKeepsInv, SweepDeleteFailsKeepsInv
  <1>7. CASE UNCHANGED vars
    BY <1>7 DEF vars, outside, table, client, recovery, Inv, Shape, IdsOnce, ReplacedBeforeDelete,
                AnswersBacked, Stored
  <1> QED BY <1>1, <1>2, <1>3, <1>4, <1>5, <1>6, <1>7 DEF Next

-----------------------------------------------------------------------------
(* An accepted batch has a row, whatever requests of the same batch fail,  *)
(* whatever ClickHouse merges, and at every step of a recovery sweep: the  *)
(* sweep deletes a row only once another row of its batch stands that no   *)
(* merge and no later DELETE of the same page takes away.                  *)
THEOREM AcceptedStaysStored == Spec => []AckedIsStored
  <1>1. Inv => AckedIsStored
    BY DEF Inv, outside, AnswersBacked, Stored, AckedIsStored
  <1> QED BY <1>1, InvInit, InvNext, PTL DEF Spec

-----------------------------------------------------------------------------
(* How often a row is recovered.                                           *)

Copies(i) == Cardinality({s \in rows : s.from = i})

Known(i) == \E s \in rows \union sweep.page : s.id = i

(* Its copy is inserted, its DELETE not yet answered.                      *)
Recovering(i) == sweep.pc = "inserted" /\ \E s \in sweep.page : s.id = i

(* A row that may still be recovered owes a failed DELETE or an exit to    *)
(* each copy it has; one that cannot be deleted, to the count of failures. *)
Allowed(i) ==
  IF mayDelete
  THEN faults + crashes + (IF Known(i) /\ ~Recovering(i) THEN 0 ELSE 1)
  ELSE DeleteThreshold * crashes
         + (IF skipped THEN DeleteThreshold
            ELSE deleteFailures + (IF Recovering(i) THEN 1 ELSE 0))

CopiesBounded ==
  /\ \A s \in rows : s.from < nextId
  /\ skipped => sweep.pc \notin {"clustering", "clustered", "inserted"}
  /\ \A i \in Nat \ {0} : Copies(i) <= Allowed(i)

RInv == Inv /\ TypeOK /\ CopiesBounded

LEMMA Limits ==
  /\ CircuitThreshold \in Nat \ {0} /\ PageSize \in Nat \ {0} /\ SweepMaxRows \in Nat \ {0}
  /\ DeleteThreshold \in Nat \ {0} /\ ProbeInterval \in Nat \ {0, 1}
  /\ MaxSends \in Nat /\ MaxFaults \in Nat /\ MaxCrashes \in Nat
  BY IngestAssumption

CircuitOK ==
  /\ failures \in 0..CircuitThreshold /\ circuitOpen \in BOOLEAN
  /\ callsSinceOpen \in 0..ProbeInterval-1

SweepOK ==
  sweep \in [pc : {"idle", "paging", "calling", "clustering", "clustered", "inserted"},
            cursor : Nat, page : SUBSET Rows, recovered : Nat]

CountsOK ==
  /\ deleteFailures \in 0..DeleteThreshold-1 /\ skipped \in BOOLEAN
  /\ sends \in 0..MaxSends /\ faults \in 0..MaxFaults /\ crashes \in 0..MaxCrashes

(* The parts of TypeOK that the steps disturb on their own.                *)
LEMMA TypeParts ==
  TypeOK <=> /\ up \in BOOLEAN /\ mayDelete \in BOOLEAN
             /\ CircuitOK /\ SweepOK /\ CountsOK
             /\ rows \subseteq Rows /\ nextId \in Nat \ {0}
             /\ cache \subseteq Batches /\ acked \subseteq Batches
             /\ request \in [Requests -> [pc : {"idle", "clustering", "inserting", "inserted"},
                                         batch : Batches, clustered : BOOLEAN]]
  BY DEF TypeOK, CircuitOK, SweepOK, CountsOK

(* What a call, made or turned away, leaves of the circuit.                *)
LEMMA CircuitKeeps ==
  ASSUME TypeOK,
         \/ UNCHANGED circuit
         \/ CountCall /\ UNCHANGED <<failures, circuitOpen>>
         \/ CallReturns
         \/ failures' = 0 /\ circuitOpen' = FALSE /\ callsSinceOpen' = 0
  PROVE  CircuitOK'
  <1>1. /\ failures \in 0..CircuitThreshold /\ circuitOpen \in BOOLEAN
        /\ callsSinceOpen \in 0..ProbeInterval-1 /\ 0 \in 0..ProbeInterval-1
        /\ 0 \in 0..CircuitThreshold
    BY Limits DEF TypeOK
  <1>2. CASE UNCHANGED circuit
    BY <1>1, <1>2 DEF circuit, CircuitOK
  <1>3. CASE CountCall /\ UNCHANGED <<failures, circuitOpen>>
    <2>1. (callsSinceOpen + 1) % ProbeInterval \in 0..ProbeInterval-1
      BY <1>1, Limits
    <2> QED BY <1>1, <1>3, <2>1 DEF CountCall, CircuitOK
  <1>4. CASE CallReturns
    <2>1. (IF failures < CircuitThreshold THEN failures + 1 ELSE failures) \in 0..CircuitThreshold
      BY <1>1, Limits
    <2>2. CASE OnSuccess
      BY <1>1, <2>2 DEF OnSuccess, CircuitOK
    <2>3. CASE OnFailure
      BY <1>1, <2>1, <2>3 DEF OnFailure, CircuitOK
    <2> QED BY <1>4, <2>2, <2>3 DEF CallReturns
  <1>5. CASE failures' = 0 /\ circuitOpen' = FALSE /\ callsSinceOpen' = 0
    BY <1>1, <1>5 DEF CircuitOK
  <1> QED BY <1>2, <1>3, <1>4, <1>5

LEMMA SweepSteps ==
  ASSUME Inv, TypeOK, NEW n \in Nat,
         \/ UNCHANGED sweep
         \/ sweep' = NoSweep
         \/ sweep' = [NoSweep EXCEPT !.pc = "paging"]
         \/ sweep' = [sweep EXCEPT !.pc = "calling", !.page = Page]
         \/ \E pc \in {"clustering", "clustered", "inserted"} : sweep' = [sweep EXCEPT !.pc = pc]
         \/ Advance(n)
  PROVE  SweepOK'
  <1>1. SweepOK
    BY TypeParts
  <1>2. CASE UNCHANGED sweep
    BY <1>1, <1>2 DEF SweepOK
  <1>3. CASE sweep' = NoSweep \/ sweep' = [NoSweep EXCEPT !.pc = "paging"]
    BY <1>3 DEF NoSweep, SweepOK
  <1>4. CASE sweep' = [sweep EXCEPT !.pc = "calling", !.page = Page]
    <2>1. Page \subseteq Rows
      BY DEF Page, Unclustered, TypeOK
    <2> QED BY <1>1, <1>4, <2>1 DEF SweepOK
  <1>5. CASE \E pc \in {"clustering", "clustered", "inserted"} : sweep' = [sweep EXCEPT !.pc = pc]
    BY <1>1, <1>5 DEF SweepOK
  <1>6. CASE Advance(n)
    BY <1>1, <1>6 DEF Advance, SweepOK, Rows
  <1> QED BY <1>2, <1>3, <1>4, <1>5, <1>6

LEMMA PageSizeIsNat == Inv => Cardinality(sweep.page) \in Nat
  BY FS_CardinalityType DEF Inv, Shape

LEMMA TypeInit == Init => TypeOK
  <1> SUFFICES ASSUME Init PROVE TypeOK
    OBVIOUS
  <1>1. IdleRequest.batch \in Batches
    BY IngestAssumption DEF IdleRequest
  <1>2. request \in [Requests -> [pc : {"idle", "clustering", "inserting", "inserted"},
                                 batch : Batches, clustered : BOOLEAN]]
    BY <1>1 DEF Init, IdleRequest
  <1>3. CircuitOK /\ CountsOK
    <2>1. /\ 0 \in 0..CircuitThreshold /\ 0 \in 0..ProbeInterval-1 /\ 0 \in 0..DeleteThreshold-1
          /\ 0 \in 0..MaxSends /\ 0 \in 0..MaxFaults /\ 0 \in 0..MaxCrashes
      BY Limits
    <2> QED BY <2>1 DEF Init, CircuitOK, CountsOK
  <1>4. SweepOK
    BY DEF Init, SweepOK, NoSweep
  <1> QED BY <1>2, <1>3, <1>4, TypeParts DEF Init

LEMMA TypeNext == Inv /\ Inv' /\ TypeOK /\ [Next]_vars => TypeOK'
  <1> SUFFICES ASSUME Inv, Inv', TypeOK, [Next]_vars PROVE TypeOK'
    OBVIOUS
  <1>1. /\ up' \in BOOLEAN /\ rows' \subseteq Rows /\ nextId' \in Nat \ {0}
        /\ request' \in [Requests -> [pc : {"idle", "clustering", "inserting", "inserted"},
                                     batch : Batches, clustered : BOOLEAN]]
    BY DEF Inv, Shape
  <1>2. CountsOK /\ mayDelete \in BOOLEAN /\ cache \subseteq Batches /\ acked \subseteq Batches
    BY TypeParts
  <1>3. SUFFICES /\ mayDelete' = mayDelete /\ CircuitOK' /\ SweepOK' /\ CountsOK'
                 /\ cache' \subseteq Batches /\ acked' \subseteq Batches
    BY <1>1, <1>2, TypeParts DEF TypeOK, CircuitOK, SweepOK, CountsOK
  <1>4. 0 \in Nat /\ Cardinality(sweep.page) \in Nat
    BY PageSizeIsNat
  <1> USE <1>2 DEF outside, client, recovery, bounds
  <1>5. CASE OtherCall
    BY <1>4, <1>5, CircuitKeeps, SweepSteps DEF OtherCall, CountsOK
  <1>6. CASE GoesDown \/ ComesUp
    <2>1. CircuitOK'
      BY <1>6, CircuitKeeps DEF GoesDown, ComesUp
    <2>2. SweepOK'
      BY <1>4, <1>6, SweepSteps DEF GoesDown, ComesUp
    <2>3. CountsOK'
      BY <1>6, Limits DEF GoesDown, ComesUp, CountsOK
    <2> QED BY <1>6, <2>1, <2>2, <2>3 DEF GoesDown, ComesUp
  <1>7. ASSUME NEW r \in Requests, NEW b \in Batches, Send(r, b)
        PROVE  /\ mayDelete' = mayDelete /\ CircuitOK' /\ SweepOK' /\ CountsOK'
               /\ cache' \subseteq Batches /\ acked' \subseteq Batches
    <2>1. CircuitOK'
      BY <1>7, CircuitKeeps DEF Send, circuit
    <2>2. SweepOK'
      BY <1>4, <1>7, SweepSteps DEF Send
    <2>3. CountsOK' /\ acked' \subseteq Batches
      BY <1>7, Limits DEF Send, CountsOK
    <2> QED BY <1>7, <2>1, <2>2, <2>3 DEF Send
  <1>8. ASSUME NEW r \in Requests,
               ClusterReturns(r) \/ InsertReturns(r) \/ InsertFails(r) \/ Answer(r)
        PROVE  /\ mayDelete' = mayDelete /\ CircuitOK' /\ SweepOK' /\ CountsOK'
               /\ cache' \subseteq Batches /\ acked' \subseteq Batches
    <2>1. CircuitOK'
      BY <1>8, CircuitKeeps DEF ClusterReturns, InsertReturns, InsertFails, Answer
    <2>2. SweepOK'
      BY <1>4, <1>8, SweepSteps DEF ClusterReturns, InsertReturns, InsertFails, Answer
    <2>3. CountsOK'
      BY <1>8, Limits DEF ClusterReturns, InsertReturns, InsertFails, Answer, CountsOK
    <2>4. cache' \subseteq Batches /\ acked' \subseteq Batches
      BY <1>8, IngestAssumption DEF ClusterReturns, InsertReturns, InsertFails, Answer, TypeOK
    <2> QED BY <1>8, <2>1, <2>2, <2>3, <2>4 DEF ClusterReturns, InsertReturns, InsertFails, Answer
  <1>9. CASE (\E b \in Batches : Forget(b)) \/ Merge \/ SweepInserts
    <2>1. CircuitOK'
      BY <1>9, CircuitKeeps DEF Forget, Merge, SweepInserts
    <2>2. SweepOK'
      BY <1>4, <1>9, SweepSteps DEF Forget, Merge, SweepInserts
    <2> QED BY <1>9, <2>1, <2>2 DEF Forget, Merge, SweepInserts, CountsOK
  <1>10. CASE SweepStarts \/ SweepPages \/ SweepCalls
    <2>1. CircuitOK'
      BY <1>10, CircuitKeeps DEF SweepStarts, SweepPages, SweepCalls, circuit
    <2>2. SweepOK'
      BY <1>4, <1>10, SweepSteps DEF SweepStarts, SweepPages, SweepCalls
    <2> QED BY <1>10, <2>1, <2>2 DEF SweepStarts, SweepPages, SweepCalls, CountsOK
  <1>11. CASE SweepClusters \/ SweepBackpressure \/ SweepInsertFails
    <2>1. CircuitOK'
      BY <1>11, CircuitKeeps DEF SweepClusters, SweepBackpressure, SweepInsertFails
    <2>2. SweepOK'
      BY <1>4, <1>11, SweepSteps DEF SweepClusters, SweepBackpressure, SweepInsertFails
    <2> QED BY <1>11, <2>1, <2>2, Limits DEF SweepClusters, SweepBackpressure, SweepInsertFails, CountsOK
  <1>12. CASE SweepDeletes \/ SweepDeleteFails
    <2>1. CircuitOK'
      BY <1>12, CircuitKeeps DEF SweepDeletes, SweepDeleteFails
    <2>2. SweepOK'
      BY <1>4, <1>12, SweepSteps DEF SweepDeletes, SweepDeleteFails
    <2>3. deleteFailures' \in 0..DeleteThreshold-1
      BY <1>12, Limits DEF SweepDeletes, SweepDeleteFails, CountsOK
    <2>4. skipped' \in BOOLEAN
      BY <1>12 DEF SweepDeletes, SweepDeleteFails, CountsOK
    <2>5. faults' \in 0..MaxFaults
      BY <1>12, Limits DEF SweepDeletes, SweepDeleteFails, CountsOK
    <2>6. sends' = sends /\ crashes' = crashes /\ UNCHANGED <<outside, client>>
      BY <1>12 DEF SweepDeletes, SweepDeleteFails
    <2> QED BY <2>1, <2>2, <2>3, <2>4, <2>5, <2>6 DEF CountsOK
  <1>13. CASE Crash
    <2>1. CircuitOK'
      BY <1>13, CircuitKeeps DEF Crash
    <2>2. SweepOK'
      BY <1>4, <1>13, SweepSteps DEF Crash
    <2>3. /\ deleteFailures' = 0 /\ 0 \in 0..DeleteThreshold-1 /\ skipped' = FALSE
          /\ crashes' \in 0..MaxCrashes
      BY <1>13, Limits DEF Crash, CountsOK
    <2> QED BY <1>13, <2>1, <2>2, <2>3 DEF Crash, CountsOK
  <1>14. CASE UNCHANGED vars
    BY <1>4, <1>14, CircuitKeeps, SweepSteps DEF vars, CountsOK
  <1> QED BY <1>5, <1>6, <1>7, <1>8, <1>9, <1>10, <1>11, <1>12, <1>13, <1>14 DEF Next
-----------------------------------------------------------------------------
LEMMA CopiesCounted == ASSUME Shape, NEW i PROVE Copies(i) \in Nat
  BY FS_Subset, FS_CardinalityType DEF Shape, Copies

LEMMA FewerCopies ==
  ASSUME Shape, rows' \subseteq rows, NEW i
  PROVE  Copies(i)' <= Copies(i)
  <1> DEFINE copies == {s \in rows : s.from = i}
  <1>1. copies' \in SUBSET copies
    OBVIOUS
  <1>2. IsFiniteSet(copies)
    BY FS_Subset DEF Shape
  <1> QED BY <1>1, <1>2, FS_Subset DEF Copies

(* What each clause of the bound is made of.                               *)
LEMMA AllowedCounts ==
  ASSUME TypeOK, NEW i
  PROVE  /\ Allowed(i) \in Nat
         /\ mayDelete => /\ faults + crashes <= Allowed(i)
                         /\ Allowed(i) <= faults + crashes + 1
         /\ ~mayDelete => Allowed(i) <= DeleteThreshold * (crashes + 1)
  <1>1. /\ faults \in Nat /\ crashes \in Nat /\ deleteFailures \in 0..DeleteThreshold-1
        /\ DeleteThreshold \in Nat \ {0}
    BY Limits DEF TypeOK
  <1>2. /\ DeleteThreshold * crashes \in Nat
        /\ DeleteThreshold * (crashes + 1) = DeleteThreshold * crashes + DeleteThreshold
    BY <1>1
  <1>3. \A x : (IF x THEN 0 ELSE 1) \in {0, 1} /\ (IF x THEN 1 ELSE 0) \in {0, 1}
    OBVIOUS
  <1> QED BY <1>1, <1>2, <1>3 DEF Allowed

(* Most steps insert no copy, delete nothing of the sweep's and leave its  *)
(* counts alone.                                                           *)
LEMMA CalmStep ==
  ASSUME RInv,
         rows' \subseteq rows, nextId' = nextId,
         mayDelete' = mayDelete, UNCHANGED <<deleteFailures, skipped, crashes>>,
         faults' \in {faults, faults + 1},
         \/ UNCHANGED sweep
         \/ /\ sweep.pc # "inserted" /\ sweep'.pc # "inserted"
            /\ sweep'.page \subseteq rows \union sweep.page
            /\ skipped => sweep'.pc \notin {"clustering", "clustered"}
  PROVE  CopiesBounded'
  <1>1. /\ \A s \in rows' : s.from < nextId'
        /\ skipped' => sweep'.pc \notin {"clustering", "clustered", "inserted"}
    BY DEF RInv, CopiesBounded
  <1>2. ASSUME NEW i \in Nat \ {0}
        PROVE  Copies(i)' <= Allowed(i)'
    <2>1. Copies(i)' <= Copies(i) /\ Copies(i) <= Allowed(i) /\ Copies(i) \in Nat
      BY FewerCopies, CopiesCounted DEF RInv, Inv, CopiesBounded
    <2>2. Known(i)' => Known(i)
      BY DEF Known
    <2>3. Recovering(i)' <=> Recovering(i)
      BY DEF Recovering
    <2>4. faults \in Nat /\ crashes \in Nat /\ Allowed(i) \in Nat
      BY AllowedCounts DEF RInv, TypeOK
    <2>5. Copies(i)' \in Nat
      BY FS_Subset, FS_CardinalityType DEF RInv, Inv, Shape, Copies
    <2>6. CASE mayDelete
      <3>1. /\ Allowed(i) = faults + crashes + (IF Known(i) /\ ~Recovering(i) THEN 0 ELSE 1)
            /\ Allowed(i)' = faults' + crashes + (IF Known(i)' /\ ~Recovering(i)' THEN 0 ELSE 1)
        BY <2>6 DEF Allowed
      <3>2. (IF Known(i) /\ ~Recovering(i) THEN 0 ELSE 1)
              <= (IF Known(i)' /\ ~Recovering(i)' THEN 0 ELSE 1)
        BY <2>2, <2>3
      <3>3. /\ (IF Known(i) /\ ~Recovering(i) THEN 0 ELSE 1) \in {0, 1}
            /\ (IF Known(i)' /\ ~Recovering(i)' THEN 0 ELSE 1) \in {0, 1}
        OBVIOUS
      <3> HIDE DEF Known, Recovering
      <3> QED BY <2>1, <2>4, <2>5, <3>1, <3>2, <3>3
    <2>7. CASE ~mayDelete
      <3>1. Allowed(i)' = Allowed(i)
        BY <2>3, <2>7 DEF Allowed
      <3> QED BY <2>1, <2>4, <2>5, <3>1
    <2> QED BY <2>6, <2>7
  <1> QED BY <1>1, <1>2 DEF CopiesBounded

LEMMA InsertReturnsKeepsCopies ==
  ASSUME RInv, NEW r \in Requests, InsertReturns(r)
  PROVE  CopiesBounded'
  <1>1. PICK new \in [id : {nextId}, from : {0}, batch : Batches, stable : BOOLEAN, clustered : BOOLEAN] :
          rows' = rows \union {new}
    <2> DEFINE new == [id |-> nextId, batch |-> request[r].batch, stable |-> request[r].batch \in Stable,
                       clustered |-> request[r].clustered, from |-> 0]
    <2>1. new \in [id : {nextId}, from : {0}, batch : Batches, stable : BOOLEAN, clustered : BOOLEAN]
      BY DEF RInv, Inv, Shape
    <2>2. rows' = rows \union {new}
      BY DEF InsertReturns
    <2> HIDE DEF new
    <2> QED BY <2>1, <2>2
  <1>2. nextId \in Nat \ {0} /\ nextId' = nextId + 1
    BY DEF InsertReturns, RInv, Inv, Shape
  <1>3. /\ UNCHANGED <<mayDelete, sweep, deleteFailures, skipped, faults, crashes>>
    BY DEF InsertReturns, outside, recovery, bounds
  <1>4. \A s \in rows : s.from \in Nat /\ s.from < nextId
    BY DEF RInv, Inv, Shape, Rows, CopiesBounded
  <1>5. ASSUME NEW i \in Nat \ {0}
        PROVE  Copies(i)' <= Allowed(i)'
    <2>1. Copies(i)' = Copies(i)
      BY <1>1 DEF Copies
    <2>2. Recovering(i)' <=> Recovering(i)
      BY <1>3 DEF Recovering
    <2>3. CASE i = nextId
      <3>1. {s \in rows : s.from = i} = {}
        BY <1>2, <1>4, <2>3
      <3>2. Copies(i) = 0
        BY <3>1, FS_EmptySet DEF Copies
      <3>3. ~Recovering(i)
        BY <2>3 DEF Recovering, RInv, Inv, Shape, IdsOnce, Rows
      <3>4. 0 <= Allowed(i)'
        <4>1. /\ faults \in Nat /\ crashes \in Nat /\ deleteFailures \in Nat
              /\ DeleteThreshold \in Nat /\ DeleteThreshold * crashes \in Nat
          BY Limits DEF RInv, TypeOK
        <4>2. Allowed(i)' = IF mayDelete
                            THEN faults + crashes + (IF Known(i)' /\ ~Recovering(i)' THEN 0 ELSE 1)
                            ELSE DeleteThreshold * crashes
                                   + (IF skipped THEN DeleteThreshold
                                      ELSE deleteFailures + (IF Recovering(i)' THEN 1 ELSE 0))
          BY <1>3 DEF Allowed
        <4> QED BY <4>1, <4>2
      <3> QED BY <2>1, <3>2, <3>4
    <2>4. CASE i # nextId
      <3>1. Known(i)' <=> Known(i)
        BY <1>1, <1>3, <2>4 DEF Known
      <3>2. Allowed(i)' = Allowed(i)
        BY <1>3, <2>2, <3>1 DEF Allowed
      <3> QED BY <2>1, <3>2 DEF RInv, CopiesBounded
    <2> QED BY <2>3, <2>4
  <1>6. \A s \in rows' : s.from < nextId'
    BY <1>1, <1>2, <1>4
  <1> QED BY <1>3, <1>5, <1>6 DEF RInv, CopiesBounded

(* The copy of a row, and that a page holds no row twice.                  *)
LEMMA SweepInsertsKeepsCopies ==
  ASSUME RInv, SweepInserts
  PROVE  CopiesBounded'
  <1> DEFINE
        copy(s) == [id |-> nextId + Cardinality({t \in sweep.page : t.id < s.id}), batch |-> s.batch,
                    stable |-> FALSE, clustered |-> TRUE, from |-> s.id]
  <1>1. rows' = rows \union {copy(s) : s \in sweep.page}
    BY DEF SweepInserts, Reclustered
  <1> HIDE DEF copy
  <1>2. \A s \in sweep.page : copy(s).from = s.id /\ copy(s).id \in Nat /\ copy(s).id >= nextId
    <2>1. \A s \in sweep.page : Cardinality({t \in sweep.page : t.id < s.id}) \in Nat
      BY CountsBelow DEF RInv, Inv, Shape
    <2> QED BY <2>1 DEF copy, RInv, Inv, Shape
  <1>3. /\ sweep.pc = "clustered" /\ sweep'.pc = "inserted" /\ sweep'.page = sweep.page
        /\ UNCHANGED <<mayDelete, deleteFailures, skipped, faults, crashes>>
    BY DEF SweepInserts, outside, bounds, RInv, Inv, Shape
  <1>4. skipped = FALSE
    BY <1>3 DEF RInv, TypeOK, CopiesBounded
  <1>5. /\ nextId \in Nat /\ nextId' \in Nat /\ nextId' >= nextId
    BY PageSizeIsNat DEF SweepInserts, RInv, Inv, Shape
  <1>6. /\ \A s \in sweep.page : s.id \in Nat /\ s.id < nextId
        /\ \A s \in rows : s.id \in Nat /\ s.id < nextId /\ s.from \in Nat /\ s.from < nextId
    BY DEF RInv, Inv, Shape, Rows, IdsOnce, CopiesBounded
  <1>7. \A s \in rows' : s.from < nextId'
    BY <1>1, <1>2, <1>5, <1>6
  <1>8. /\ faults \in Nat /\ crashes \in Nat /\ deleteFailures \in Nat
        /\ DeleteThreshold * crashes \in Nat
    BY Limits DEF RInv, TypeOK
  <1>9. ASSUME NEW i \in Nat \ {0}
        PROVE  Copies(i)' <= Allowed(i)'
    <2>1. ~Recovering(i) /\ Copies(i) \in Nat /\ Copies(i) <= Allowed(i) /\ Allowed(i) \in Nat
      BY <1>3, CopiesCounted, AllowedCounts DEF Recovering, RInv, Inv, CopiesBounded
    <2>2. Allowed(i)' = IF mayDelete
                        THEN faults + crashes + (IF Known(i)' /\ ~Recovering(i)' THEN 0 ELSE 1)
                        ELSE DeleteThreshold * crashes
                               + (deleteFailures + (IF Recovering(i)' THEN 1 ELSE 0))
      BY <1>3, <1>4 DEF Allowed
    <2>3. Allowed(i) = IF mayDelete
                       THEN faults + crashes + (IF Known(i) THEN 0 ELSE 1)
                       ELSE DeleteThreshold * crashes + deleteFailures
      BY <1>4, <1>8, <2>1 DEF Allowed
    <2>4. CASE \E s \in sweep.page : s.id = i
      <3>1. PICK s \in sweep.page : s.id = i
        BY <2>4
      <3>2. Known(i) /\ Recovering(i)'
        BY <1>3, <3>1 DEF Known, Recovering
      <3>3. \A u \in sweep.page : u.id = i => u = s
        BY <3>1 DEF RInv, Inv, IdsOnce
      <3>4. {t \in rows' : t.from = i} \in SUBSET ({t \in rows : t.from = i} \union {copy(s)})
        BY <1>1, <1>2, <3>3
      <3>5. IsFiniteSet({t \in rows : t.from = i})
        BY FS_Subset DEF RInv, Inv, Shape
      <3>6. /\ IsFiniteSet({t \in rows : t.from = i} \union {copy(s)})
            /\ Cardinality({t \in rows : t.from = i} \union {copy(s)}) <= Copies(i) + 1
        <4> DEFINE C == {t \in rows : t.from = i}
        <4>1. /\ IsFiniteSet(C \union {copy(s)})
              /\ Cardinality(C \union {copy(s)}) = IF copy(s) \in C THEN Cardinality(C) ELSE Cardinality(C) + 1
          BY <3>5, FS_AddElement
        <4> QED BY <2>1, <4>1 DEF Copies
      <3>7. Copies(i)' <= Copies(i) + 1 /\ Copies(i)' \in Nat
        <4>1. /\ IsFiniteSet({t \in rows' : t.from = i})
              /\ Cardinality({t \in rows' : t.from = i})
                   <= Cardinality({t \in rows : t.from = i} \union {copy(s)})
          BY <3>4, <3>6, FS_Subset
        <4>2. /\ Cardinality({t \in rows' : t.from = i}) \in Nat
              /\ Cardinality({t \in rows : t.from = i} \union {copy(s)}) \in Nat
          BY <3>6, <4>1, FS_CardinalityType
        <4> QED BY <2>1, <3>6, <4>1, <4>2 DEF Copies
      <3>8. Allowed(i)' = Allowed(i) + 1
        BY <1>8, <2>2, <2>3, <3>2
      <3> QED BY <2>1, <3>7, <3>8
    <2>5. CASE ~\E s \in sweep.page : s.id = i
      <3>1. {t \in rows' : t.from = i} = {t \in rows : t.from = i}
        BY <1>1, <1>2, <2>5
      <3>2. Copies(i)' = Copies(i)
        BY <3>1 DEF Copies
      <3>3. ~Recovering(i)'
        BY <1>3, <2>5 DEF Recovering
      <3>4. CASE i < nextId
        <4>1. Known(i)' <=> Known(i)
          BY <1>1, <1>2, <1>3, <1>5, <3>4 DEF Known
        <4>2. Allowed(i)' = Allowed(i)
          BY <1>8, <2>2, <2>3, <3>3, <4>1
        <4> QED BY <2>1, <3>2, <4>2
      <3>5. CASE ~(i < nextId)
        <4>1. {t \in rows : t.from = i} = {}
          BY <1>5, <1>6, <3>5
        <4>2. Copies(i) = 0
          BY <4>1, FS_EmptySet DEF Copies
        <4>3. 0 <= Allowed(i)'
          BY <1>8, <2>2
        <4> QED BY <3>2, <4>2, <4>3
      <3> QED BY <3>4, <3>5
    <2> QED BY <2>4, <2>5
  <1> QED BY <1>3, <1>4, <1>7, <1>9 DEF CopiesBounded

LEMMA SweepDeletesKeepsCopies ==
  ASSUME RInv, SweepDeletes
  PROVE  CopiesBounded'
  <1>1. /\ sweep.pc = "inserted" /\ sweep'.pc = "paging" /\ sweep'.page = {}
        /\ rows' = {s \in rows : s.id \notin {t.id : t \in sweep.page}} /\ nextId' = nextId
        /\ UNCHANGED <<mayDelete, skipped, faults, crashes>>
        /\ mayDelete
    BY DEF SweepDeletes, Advance, outside, bounds
  <1>2. /\ \A s \in rows' : s.from < nextId'
        /\ skipped' => sweep'.pc \notin {"clustering", "clustered", "inserted"}
    BY <1>1 DEF RInv, CopiesBounded
  <1>3. ASSUME NEW i \in Nat \ {0}
        PROVE  Copies(i)' <= Allowed(i)'
    <2>1. /\ Copies(i)' <= Copies(i) /\ Copies(i) <= Allowed(i) /\ Copies(i) \in Nat
          /\ faults \in Nat /\ crashes \in Nat
      BY <1>1, FewerCopies, CopiesCounted DEF RInv, Inv, CopiesBounded, TypeOK
    <2>2. Copies(i)' \in Nat
      BY <1>1, FS_Subset, FS_CardinalityType DEF RInv, Inv, Shape, Copies
    <2>3. Known(i)' => Known(i) /\ ~Recovering(i)
      BY <1>1 DEF Known, Recovering
    <2>4. ~Recovering(i)'
      BY <1>1 DEF Recovering
    <2>5. /\ Allowed(i) = faults + crashes + (IF Known(i) /\ ~Recovering(i) THEN 0 ELSE 1)
          /\ Allowed(i)' = faults + crashes + (IF Known(i)' THEN 0 ELSE 1)
      BY <1>1, <2>4 DEF Allowed
    <2>6. (IF Known(i) /\ ~Recovering(i) THEN 0 ELSE 1) <= (IF Known(i)' THEN 0 ELSE 1)
      BY <2>3
    <2>7. /\ (IF Known(i) /\ ~Recovering(i) THEN 0 ELSE 1) \in {0, 1}
          /\ (IF Known(i)' THEN 0 ELSE 1) \in {0, 1}
      OBVIOUS
    <2> QED BY <2>1, <2>2, <2>5, <2>6, <2>7
  <1> QED BY <1>2, <1>3 DEF CopiesBounded

LEMMA SweepDeleteFailsKeepsCopies ==
  ASSUME RInv, SweepDeleteFails
  PROVE  CopiesBounded'
  <1>1. /\ sweep.pc = "inserted" /\ sweep'.pc = "paging" /\ sweep'.page = {}
        /\ rows' = rows /\ nextId' = nextId
        /\ UNCHANGED <<mayDelete, crashes>>
        /\ faults' = IF mayDelete THEN faults + 1 ELSE faults
    BY DEF SweepDeleteFails, Advance, outside, table
  <1>2. /\ deleteFailures \in 0..DeleteThreshold-1 /\ DeleteThreshold \in Nat \ {0}
        /\ faults \in Nat /\ crashes \in Nat /\ DeleteThreshold * crashes \in Nat
    BY Limits DEF RInv, TypeOK
  <1>3. skipped = FALSE
    BY <1>1 DEF RInv, TypeOK, CopiesBounded
  <1>4. /\ \A s \in rows' : s.from < nextId'
        /\ skipped' => sweep'.pc \notin {"clustering", "clustered", "inserted"}
    BY <1>1 DEF RInv, CopiesBounded
  <1>5. ASSUME NEW i \in Nat \ {0}
        PROVE  Copies(i)' <= Allowed(i)'
    <2>1. /\ Copies(i)' = Copies(i) /\ Copies(i) <= Allowed(i) /\ Copies(i) \in Nat
      BY <1>1, CopiesCounted DEF Copies, RInv, Inv, CopiesBounded
    <2>2. ~Recovering(i)'
      BY <1>1 DEF Recovering
    <2>3. CASE mayDelete
      <3>1. Allowed(i) <= faults + crashes + 1 /\ Allowed(i) \in Nat
        BY <2>3, AllowedCounts DEF RInv
      <3>2. /\ Allowed(i)' = faults + 1 + crashes + (IF Known(i)' THEN 0 ELSE 1)
            /\ (IF Known(i)' THEN 0 ELSE 1) \in {0, 1}
        BY <1>1, <2>2, <2>3 DEF Allowed
      <3> QED BY <1>2, <2>1, <3>1, <3>2
    <2>4. CASE ~mayDelete
      <3>1. Allowed(i) <= DeleteThreshold * crashes + deleteFailures + 1 /\ Allowed(i) \in Nat
        <4>1. Allowed(i) = DeleteThreshold * crashes + (deleteFailures + (IF Recovering(i) THEN 1 ELSE 0))
          BY <1>3, <2>4 DEF Allowed
        <4>2. (IF Recovering(i) THEN 1 ELSE 0) \in {0, 1}
          OBVIOUS
        <4> QED BY <1>2, <4>1, <4>2
      <3>2. PICK m \in Nat : m = DeleteThreshold * crashes
        BY <1>2
      <3>3. CASE deleteFailures + 1 >= DeleteThreshold
        <4>1. skipped'
          BY <1>3, <3>3 DEF SweepDeleteFails
        <4>2. Allowed(i)' = m + DeleteThreshold
          BY <1>1, <2>4, <3>2, <4>1 DEF Allowed
        <4>3. Allowed(i) <= m + deleteFailures + 1
          BY <3>1, <3>2
        <4> QED BY <1>2, <2>1, <3>1, <3>3, <4>2, <4>3
      <3>4. CASE ~(deleteFailures + 1 >= DeleteThreshold)
        <4>1. ~skipped' /\ deleteFailures' = deleteFailures + 1
          BY <1>3, <3>4 DEF SweepDeleteFails
        <4>2. Allowed(i)' = m + (deleteFailures + 1 + 0)
          BY <1>1, <2>2, <2>4, <3>2, <4>1 DEF Allowed
        <4>3. Allowed(i) <= m + deleteFailures + 1
          BY <3>1, <3>2
        <4> QED BY <1>2, <2>1, <3>1, <3>2, <4>2, <4>3
      <3> QED BY <3>3, <3>4
    <2> QED BY <2>3, <2>4
  <1> QED BY <1>4, <1>5 DEF CopiesBounded

LEMMA CrashKeepsCopies ==
  ASSUME RInv, Crash
  PROVE  CopiesBounded'
  <1>1. /\ sweep' = NoSweep /\ rows' = rows /\ nextId' = nextId /\ skipped' = FALSE
        /\ deleteFailures' = 0 /\ crashes' = crashes + 1
        /\ UNCHANGED <<mayDelete, faults>>
    BY DEF Crash, outside, table
  <1>2. /\ DeleteThreshold \in Nat \ {0} /\ faults \in Nat /\ crashes \in Nat
        /\ DeleteThreshold * (crashes + 1) \in Nat
    BY Limits DEF RInv, TypeOK
  <1>3. /\ \A s \in rows' : s.from < nextId'
        /\ skipped' => sweep'.pc \notin {"clustering", "clustered", "inserted"}
    BY <1>1 DEF RInv, CopiesBounded
  <1>4. ASSUME NEW i \in Nat \ {0}
        PROVE  Copies(i)' <= Allowed(i)'
    <2>1. /\ Copies(i)' = Copies(i) /\ Copies(i) <= Allowed(i) /\ Copies(i) \in Nat
          /\ Allowed(i) \in Nat
      BY <1>1, CopiesCounted, AllowedCounts DEF Copies, RInv, Inv, CopiesBounded
    <2>2. ~Recovering(i)'
      BY <1>1 DEF Recovering, NoSweep
    <2>3. CASE mayDelete
      <3>1. Allowed(i) <= faults + crashes + 1
        BY <2>3, AllowedCounts DEF RInv
      <3>2. /\ Allowed(i)' = faults + (crashes + 1) + (IF Known(i)' THEN 0 ELSE 1)
            /\ (IF Known(i)' THEN 0 ELSE 1) \in {0, 1}
        BY <1>1, <2>2, <2>3 DEF Allowed
      <3> QED BY <1>2, <2>1, <3>1, <3>2
    <2>4. CASE ~mayDelete
      <3>1. Allowed(i) <= DeleteThreshold * (crashes + 1)
        BY <2>4, AllowedCounts DEF RInv
      <3>2. Allowed(i)' = DeleteThreshold * (crashes + 1)
        BY <1>1, <1>2, <2>2, <2>4 DEF Allowed
      <3> QED BY <1>2, <2>1, <3>1, <3>2
    <2> QED BY <2>3, <2>4
  <1> QED BY <1>3, <1>4 DEF CopiesBounded

LEMMA RInvInit == Init => RInv
  <1> SUFFICES ASSUME Init PROVE CopiesBounded
    BY InvInit, TypeInit DEF RInv
  <1>1. \A i : Copies(i) = 0
    BY FS_EmptySet DEF Init, Copies
  <1>2. TypeOK
    BY TypeInit
  <1>3. \A i : Copies(i) <= Allowed(i)
    BY <1>1, <1>2, AllowedCounts
  <1> QED BY <1>3 DEF Init, CopiesBounded

LEMMA RInvNext == RInv /\ [Next]_vars => RInv'
  <1> SUFFICES ASSUME RInv, [Next]_vars PROVE RInv'
    OBVIOUS
  <1>1. Inv' /\ TypeOK'
    BY InvNext, TypeNext DEF RInv
  <1>2. SUFFICES CopiesBounded'
    BY <1>1 DEF RInv
  <1> USE DEF outside, table, client, recovery, bounds
  <1>3. faults \in Nat
    BY DEF RInv, TypeOK
  <1>4. CASE OtherCall \/ GoesDown \/ ComesUp
    BY <1>4, CalmStep DEF OtherCall, GoesDown, ComesUp
  <1>5. ASSUME NEW r \in Requests, NEW b \in Batches, Send(r, b)
        PROVE  CopiesBounded'
    BY <1>5, CalmStep DEF Send
  <1>6. ASSUME NEW r \in Requests, ClusterReturns(r) \/ InsertFails(r) \/ Answer(r)
        PROVE  CopiesBounded'
    BY <1>6, CalmStep DEF ClusterReturns, InsertFails, Answer
  <1>7. CASE (\E b \in Batches : Forget(b)) \/ Merge
    BY <1>7, CalmStep DEF Forget, Merge
  <1>8. CASE SweepStarts \/ SweepPages
    <2>1. /\ sweep.pc # "inserted" /\ sweep'.pc \in {"idle", "paging", "calling"}
          /\ sweep'.page \subseteq rows \union sweep.page
      <3>1. CASE SweepStarts
        BY <3>1 DEF SweepStarts, NoSweep
      <3>2. CASE SweepPages /\ sweep' = NoSweep
        <4>1. sweep.pc = "paging"
          BY <3>2 DEF SweepPages
        <4>2. sweep'.pc = "idle" /\ sweep'.page = {}
          BY <3>2 DEF NoSweep
        <4> QED BY <4>1, <4>2
      <3>3. CASE SweepPages /\ sweep' = [sweep EXCEPT !.pc = "calling", !.page = Page]
        <4>1. Page \subseteq rows
          BY DEF Page, Unclustered
        <4> QED BY <3>3, <4>1 DEF SweepPages, RInv, TypeOK
      <3> QED BY <1>8, <3>1, <3>2, <3>3 DEF SweepPages
    <2> QED BY <1>8, <2>1, CalmStep DEF SweepStarts, SweepPages
  <1>9. CASE SweepCalls \/ SweepClusters
    <2>1. /\ sweep.pc \in {"calling", "clustering"} /\ sweep'.pc # "inserted"
          /\ sweep'.page \subseteq rows \union sweep.page
          /\ skipped => sweep'.pc \notin {"clustering", "clustered"}
      BY <1>9 DEF SweepCalls, SweepClusters, Advance, RInv, TypeOK, CopiesBounded
    <2> QED BY <1>9, <2>1, CalmStep DEF SweepCalls, SweepClusters
  <1>10. CASE SweepBackpressure \/ SweepInsertFails
    <2>1. /\ sweep.pc # "inserted" /\ sweep'.pc \in {"idle", "paging"} /\ sweep'.page = {}
      BY <1>10 DEF SweepBackpressure, SweepInsertFails, Advance, NoSweep
    <2> QED BY <1>10, <2>1, CalmStep DEF SweepBackpressure, SweepInsertFails
  <1>11. CASE UNCHANGED vars
    BY <1>11, CalmStep DEF vars
  <1> QED BY <1>4, <1>5, <1>6, <1>7, <1>8, <1>9, <1>10, <1>11, InsertReturnsKeepsCopies,
             SweepInsertsKeepsCopies, SweepDeletesKeepsCopies, SweepDeleteFailsKeepsCopies,
             CrashKeepsCopies DEF Next

(* Recovery never duplicates a row without bound: where the user may not   *)
(* DELETE, every copy of a row raises the count of consecutive failures    *)
(* that ends in skipping the tenant; where it may, a row that still exists *)
(* after its copy was inserted costs a failed DELETE or an exit.  With it  *)
(* every variable keeps its type: the circuit's counters and the counts of *)
(* failures stay within their limits.                                      *)
THEOREM RowsAreNotRecoveredForever == Spec => []RecoverySound
  <1>1. RInv => RecoverySound
    <2> SUFFICES ASSUME RInv PROVE RecoverySound
      OBVIOUS
    <2>1. ASSUME NEW i \in {s.from : s \in rows} \ {0}
          PROVE  Copies(i) <= IF mayDelete THEN faults + crashes + 1 ELSE DeleteThreshold * (crashes + 1)
      <3>1. i \in Nat \ {0}
        BY DEF RInv, Inv, Shape, Rows
      <3>2. Copies(i) <= Allowed(i) /\ Copies(i) \in Nat
        BY <3>1, CopiesCounted DEF RInv, Inv, CopiesBounded
      <3>3. /\ Allowed(i) \in Nat
            /\ mayDelete => Allowed(i) <= faults + crashes + 1
            /\ ~mayDelete => Allowed(i) <= DeleteThreshold * (crashes + 1)
        BY AllowedCounts DEF RInv
      <3>4. faults \in Nat /\ crashes \in Nat /\ DeleteThreshold * (crashes + 1) \in Nat
        BY Limits DEF RInv, TypeOK
      <3> QED BY <3>2, <3>3, <3>4
    <2> QED BY <2>1 DEF RInv, RecoverySound, RecoveryStops, Copies
  <1> QED BY <1>1, RInvInit, RInvNext, PTL DEF Spec
=============================================================================
