----------------------- MODULE TemplateRegistryProofs -----------------------
(***************************************************************************)
(* Proofs about TemplateRegistry, for any requests, texts, and number of   *)
(* timeouts and exits.                                                     *)
(***************************************************************************)
EXTENDS TemplateRegistry, FiniteSetTheorems, TLAPS

Active  == {"locking", "querying", "inserting", "inserted"}
Holding == {"querying", "inserting", "inserted"}

Settled(r) == texts[r] \ missing[r]

(* What a request has settled has a row, and so has what its INSERT wrote. *)
RowsBehind ==
  \A r \in Requests :
    /\ at[r] \in Active =>
         \A t \in Settled(r) : found[r][t] # None /\ row[t].id # None
    /\ at[r] \in {"inserting", "inserted"} => missing[r] = fresh[r]
    /\ at[r] = "inserted" => \A t \in fresh[r] : row[t].id # None

(* Every copy of an id agrees with the table: the answers, the cache, what *)
(* a request found and what the backfill read.                             *)
CopiesAgree ==
  /\ \A t \in Texts : cache[t] \in {None, row[t].id} /\ answered[t] \subseteq {row[t].id}
  /\ \A r \in Requests : at[r] \in Active => \A t \in Settled(r) : found[r][t] = row[t].id
  /\ \A t \in Texts, i \in Ids : <<t, i>> \in backfill => i = row[t].id

(* Who is past the lock holds it, and what it inserts is not there before. *)
OneInserts ==
  /\ orphans = {}
  /\ \A r \in Requests :
       /\ at[r] \in Holding => lock = r
       /\ at[r] = "inserting" => \A t \in fresh[r] : row[t].id = None
       /\ at[r] = "inserted" => \A t \in fresh[r] : row[t].id = NewId(r, t)

(* A text is new only in the answer of the request that gave it its id.    *)
NewByMaker ==
  \A t \in Texts :
    \/ news[t] = 0
    \/ news[t] = 1 /\ \E r \in Requests : row[t].id = NewId(r, t) /\ at[r] = "done"

Inv ==
  /\ CacheSound
  /\ RowsBehind
  /\ \A t \in Texts : row[t].embedded => row[t].id # None
  /\ Undisturbed => CopiesAgree /\ OneInserts /\ NewByMaker

-----------------------------------------------------------------------------
LEMMA IdsAreIds ==
  ASSUME NEW r \in Requests, NEW t \in Texts
  PROVE  NewId(r, t) \in Ids /\ NewId(r, t) # None
  BY RegistryAssumption DEF NewId, Ids

LEMMA IdsInjective ==
  ASSUME NEW r \in Requests, NEW q \in Requests, NEW t \in Texts, NEW u \in Texts,
         NewId(r, t) = NewId(q, u)
  PROVE  r = q /\ t = u
  BY DEF NewId

LEMMA NoneIsNoId == None \notin Ids /\ None \notin Requests
  BY RegistryAssumption DEF Ids

LEMMA InvInit == Init => Inv
  BY NoneIsNoId, RegistryAssumption
     DEF Init, Inv, CacheSound, TypeOK, NoGhostIds, RowsBehind, Settled, Active, Holding, NoRow,
         CopiesAgree, OneInserts, NewByMaker, Undisturbed

LEMMA BeginKeepsInv ==
  ASSUME Inv, NEW r \in Requests, NEW S \in SUBSET Texts, Begin(r, S)
  PROVE  Inv'
  <1> USE NoneIsNoId, IdsAreIds DEF Inv, CacheSound
  <1> USE DEF Begin, TypeOK, Take, Hits, store, bounds, history
  <1>1. CASE S = Hits(S)
    <2> /\ at' = [at EXCEPT ![r] = "done"]
        /\ answered' = [t \in Texts |-> IF t \in S THEN answered[t] \union {cache[t]} ELSE answered[t]]
        /\ news' = news
      BY <1>1 DEF Answer
    <2>1. TypeOK'
      BY <1>1, RegistryAssumption DEF RowsBehind, Settled, Active
    <2>2. NoGhostIds'
      BY <1>1 DEF NoGhostIds, RowsBehind, Settled, Active
    <2>3. RowsBehind'
      BY <1>1 DEF NoGhostIds, RowsBehind, Settled, Active
    <2>4. (\A t \in Texts : row[t].embedded => row[t].id # None)'
      BY <1>1 DEF NoGhostIds, RowsBehind
    <2>9. ASSUME Undisturbed' PROVE (CopiesAgree /\ OneInserts /\ NewByMaker)'
      <3>1. CopiesAgree /\ OneInserts /\ NewByMaker
        BY <2>9 DEF Undisturbed
      <3>2. CopiesAgree'
        BY <1>1, <3>1 DEF NoGhostIds, RowsBehind, CopiesAgree, Settled, Active, Holding, OneInserts
      <3>3. OneInserts'
        BY <1>1, <3>1 DEF NoGhostIds, RowsBehind, OneInserts, Holding
      <3>4. NewByMaker'
        BY <1>1, <3>1 DEF NoGhostIds, RowsBehind, NewByMaker, OneInserts, Holding
      <3> QED BY <3>2, <3>3, <3>4
    <2> QED BY <2>1, <2>2, <2>3, <2>4, <2>9
  <1>2. CASE S # Hits(S)
    <2> /\ at' = [at EXCEPT ![r] = "locking"]
        /\ answered' = answered /\ news' = news
      BY <1>2
    <2>1. TypeOK'
      BY <1>2, RegistryAssumption DEF RowsBehind, Settled, Active
    <2>2. NoGhostIds'
      BY <1>2 DEF NoGhostIds, RowsBehind, Settled, Active
    <2>3. RowsBehind'
      BY <1>2 DEF NoGhostIds, RowsBehind, Settled, Active
    <2>4. (\A t \in Texts : row[t].embedded => row[t].id # None)'
      BY <1>2 DEF NoGhostIds, RowsBehind
    <2>9. ASSUME Undisturbed' PROVE (CopiesAgree /\ OneInserts /\ NewByMaker)'
      <3>1. CopiesAgree /\ OneInserts /\ NewByMaker
        BY <2>9 DEF Undisturbed
      <3>2. CopiesAgree'
        BY <1>2, <3>1 DEF NoGhostIds, RowsBehind, CopiesAgree, Settled, Active, Holding, OneInserts
      <3>3. OneInserts'
        BY <1>2, <3>1 DEF NoGhostIds, RowsBehind, OneInserts, Holding
      <3>4. NewByMaker'
        BY <1>2, <3>1 DEF NoGhostIds, RowsBehind, NewByMaker, OneInserts, Holding
      <3> QED BY <3>2, <3>3, <3>4
    <2> QED BY <2>1, <2>2, <2>3, <2>4, <2>9
  <1> QED BY <1>1, <1>2

LEMMA AcquireKeepsInv ==
  ASSUME Inv, NEW r \in Requests, Acquire(r)
  PROVE  Inv'
  <1> USE NoneIsNoId, IdsAreIds DEF Inv, CacheSound
  <1> USE DEF Acquire, TypeOK, Take, Hits, store, bounds, history
  <1>1. CASE Hits(missing[r]) = missing[r]
    <2> /\ at' = [at EXCEPT ![r] = "done"]
        /\ answered' = [t \in Texts |-> IF t \in texts[r] THEN answered[t] \union {found'[r][t]} ELSE answered[t]]
        /\ news' = news
      BY <1>1 DEF Answer
    <2>1. TypeOK'
      BY <1>1, RegistryAssumption DEF RowsBehind, Settled, Active
    <2>2. NoGhostIds'
      BY <1>1 DEF NoGhostIds, RowsBehind, Settled, Active
    <2>3. RowsBehind'
      BY <1>1 DEF NoGhostIds, RowsBehind, Settled, Active
    <2>4. (\A t \in Texts : row[t].embedded => row[t].id # None)'
      BY <1>1 DEF NoGhostIds, RowsBehind
    <2>9. ASSUME Undisturbed' PROVE (CopiesAgree /\ OneInserts /\ NewByMaker)'
      <3>1. CopiesAgree /\ OneInserts /\ NewByMaker
        BY <2>9 DEF Undisturbed
      <3>2. CopiesAgree'
        BY <1>1, <3>1 DEF NoGhostIds, RowsBehind, CopiesAgree, Settled, Active, Holding, OneInserts
      <3>3. OneInserts'
        BY <1>1, <3>1 DEF NoGhostIds, RowsBehind, OneInserts, Holding
      <3>4. NewByMaker'
        BY <1>1, <3>1 DEF NoGhostIds, RowsBehind, NewByMaker, OneInserts, Holding
      <3> QED BY <3>2, <3>3, <3>4
    <2> QED BY <2>1, <2>2, <2>3, <2>4, <2>9
  <1>2. CASE Hits(missing[r]) # missing[r]
    <2> /\ at' = [at EXCEPT ![r] = "querying"]
        /\ answered' = answered /\ news' = news
      BY <1>2
    <2>1. TypeOK'
      BY <1>2, RegistryAssumption DEF RowsBehind, Settled, Active
    <2>2. NoGhostIds'
      BY <1>2 DEF NoGhostIds, RowsBehind, Settled, Active
    <2>3. RowsBehind'
      BY <1>2 DEF NoGhostIds, RowsBehind, Settled, Active
    <2>4. (\A t \in Texts : row[t].embedded => row[t].id # None)'
      BY <1>2 DEF NoGhostIds, RowsBehind
    <2>9. ASSUME Undisturbed' PROVE (CopiesAgree /\ OneInserts /\ NewByMaker)'
      <3>1. CopiesAgree /\ OneInserts /\ NewByMaker
        BY <2>9 DEF Undisturbed
      <3>2. CopiesAgree'
        BY <1>2, <3>1 DEF NoGhostIds, RowsBehind, CopiesAgree, Settled, Active, Holding, OneInserts
      <3>3. OneInserts'
        BY <1>2, <3>1 DEF NoGhostIds, RowsBehind, OneInserts, Holding
      <3>4. NewByMaker'
        BY <1>2, <3>1 DEF NoGhostIds, RowsBehind, NewByMaker, OneInserts, Holding
      <3> QED BY <3>2, <3>3, <3>4
    <2> QED BY <2>1, <2>2, <2>3, <2>4, <2>9
  <1> QED BY <1>1, <1>2

LEMMA QueryReturnsKeepsInv ==
  ASSUME Inv, NEW r \in Requests, QueryReturns(r)
  PROVE  Inv'
  <1> USE NoneIsNoId, IdsAreIds DEF Inv, CacheSound
  <1> USE DEF QueryReturns, TypeOK, Take, bounds, history
  <1>1. CASE {t \in missing[r] : row[t].id # None} = missing[r]
    <2> /\ at' = [at EXCEPT ![r] = "done"]
        /\ answered' = [t \in Texts |-> IF t \in texts[r] THEN answered[t] \union {found'[r][t]} ELSE answered[t]]
        /\ news' = news
      BY <1>1 DEF Answer
    <2>1. TypeOK'
      BY <1>1, RegistryAssumption DEF RowsBehind, Settled, Active
    <2>2. NoGhostIds'
      BY <1>1 DEF NoGhostIds, RowsBehind, Settled, Active
    <2>3. RowsBehind'
      BY <1>1 DEF NoGhostIds, RowsBehind, Settled, Active
    <2>4. (\A t \in Texts : row[t].embedded => row[t].id # None)'
      BY <1>1 DEF NoGhostIds, RowsBehind
    <2>9. ASSUME Undisturbed' PROVE (CopiesAgree /\ OneInserts /\ NewByMaker)'
      <3>1. CopiesAgree /\ OneInserts /\ NewByMaker
        BY <2>9 DEF Undisturbed
      <3>2. CopiesAgree'
        BY <1>1, <3>1 DEF NoGhostIds, RowsBehind, CopiesAgree, Settled, Active, Holding, OneInserts
      <3>3. OneInserts'
        BY <1>1, <3>1 DEF NoGhostIds, RowsBehind, OneInserts, Holding
      <3>4. NewByMaker'
        BY <1>1, <3>1 DEF NoGhostIds, RowsBehind, NewByMaker, OneInserts, Holding
      <3> QED BY <3>2, <3>3, <3>4
    <2> QED BY <2>1, <2>2, <2>3, <2>4, <2>9
  <1>2. CASE {t \in missing[r] : row[t].id # None} # missing[r]
    <2> /\ at' = [at EXCEPT ![r] = "inserting"]
        /\ answered' = answered /\ news' = news
      BY <1>2
    <2>1. TypeOK'
      BY <1>2, RegistryAssumption DEF RowsBehind, Settled, Active
    <2>2. NoGhostIds'
      BY <1>2 DEF NoGhostIds, RowsBehind, Settled, Active
    <2>3. RowsBehind'
      BY <1>2 DEF NoGhostIds, RowsBehind, Settled, Active
    <2>4. (\A t \in Texts : row[t].embedded => row[t].id # None)'
      BY <1>2 DEF NoGhostIds, RowsBehind
    <2>9. ASSUME Undisturbed' PROVE (CopiesAgree /\ OneInserts /\ NewByMaker)'
      <3>1. CopiesAgree /\ OneInserts /\ NewByMaker
        BY <2>9 DEF Undisturbed
      <3>2. CopiesAgree'
        BY <1>2, <3>1 DEF NoGhostIds, RowsBehind, CopiesAgree, Settled, Active, Holding, OneInserts
      <3>3. OneInserts'
        BY <1>2, <3>1 DEF NoGhostIds, RowsBehind, OneInserts, Holding
      <3>4. NewByMaker'
        BY <1>2, <3>1 DEF NoGhostIds, RowsBehind, NewByMaker, OneInserts, Holding
      <3> QED BY <3>2, <3>3, <3>4
    <2> QED BY <2>1, <2>2, <2>3, <2>4, <2>9
  <1> QED BY <1>1, <1>2

LEMMA InsertLandsKeepsInv ==
  ASSUME Inv, NEW r \in Requests, InsertLands(r)
  PROVE  Inv'
  <1> USE NoneIsNoId, IdsAreIds DEF Inv, CacheSound
  <1> USE DEF InsertLands, InsertRows, TypeOK, bounds, history
  <1>1. TypeOK'
    BY RegistryAssumption DEF RowsBehind, Settled, Active
  <1>2. NoGhostIds'
    BY DEF NoGhostIds, RowsBehind, Settled, Active
  <1>3. RowsBehind'
    BY DEF NoGhostIds, RowsBehind, Settled, Active
  <1>4. (\A t \in Texts : row[t].embedded => row[t].id # None)'
    BY DEF NoGhostIds, RowsBehind
  <1>9. ASSUME Undisturbed' PROVE (CopiesAgree /\ OneInserts /\ NewByMaker)'
    <2>1. CopiesAgree /\ OneInserts /\ NewByMaker
      BY <1>9 DEF Undisturbed
    <2>2. CopiesAgree'
      BY <2>1 DEF NoGhostIds, RowsBehind, CopiesAgree, Settled, Active, Holding, OneInserts
    <2>3. OneInserts'
      BY <2>1 DEF NoGhostIds, RowsBehind, OneInserts, Holding
    <2>4. NewByMaker'
      BY <2>1 DEF NoGhostIds, RowsBehind, NewByMaker, OneInserts, Holding
    <2> QED BY <2>2, <2>3, <2>4
  <1> QED BY <1>1, <1>2, <1>3, <1>4, <1>9

LEMMA InsertReturnsKeepsInv ==
  ASSUME Inv, NEW r \in Requests, InsertReturns(r)
  PROVE  Inv'
  <1> USE NoneIsNoId, IdsAreIds DEF Inv, CacheSound
  <1> USE DEF InsertReturns, Answer, Take, TypeOK, bounds
  <1>1. TypeOK'
    BY RegistryAssumption DEF RowsBehind, Settled, Active
  <1>2. NoGhostIds'
    BY DEF NoGhostIds, RowsBehind, Settled, Active
  <1>3. RowsBehind'
    BY DEF NoGhostIds, RowsBehind, Settled, Active
  <1>4. (\A t \in Texts : row[t].embedded => row[t].id # None)'
    BY DEF NoGhostIds, RowsBehind
  <1>9. ASSUME Undisturbed' PROVE (CopiesAgree /\ OneInserts /\ NewByMaker)'
    <2>1. CopiesAgree /\ OneInserts /\ NewByMaker
      BY <1>9 DEF Undisturbed
    <2>2. CopiesAgree'
      BY <2>1 DEF NoGhostIds, RowsBehind, CopiesAgree, Settled, Active, Holding, OneInserts
    <2>3. OneInserts'
      BY <2>1 DEF NoGhostIds, RowsBehind, OneInserts, Holding
    <2>4. NewByMaker'
      <3> SUFFICES ASSUME NEW t \in Texts
                   PROVE  \/ news'[t] = 0
                          \/ news'[t] = 1 /\ \E q \in Requests : row'[t].id = NewId(q, t) /\ at'[q] = "done"
        BY DEF NewByMaker
      <3>1. CASE t \in fresh[r]
        <4>1. row[t].id = NewId(r, t)
          BY <2>1, <3>1 DEF OneInserts
        <4>2. ~\E q \in Requests : row[t].id = NewId(q, t) /\ at[q] = "done"
          BY <4>1, IdsInjective
        <4>3. news[t] = 0
          BY <2>1, <4>2 DEF NewByMaker
        <4> QED BY <3>1, <4>1, <4>3
      <3>2. CASE t \notin fresh[r]
        BY <2>1, <3>2 DEF NewByMaker
      <3> QED BY <3>1, <3>2
    <2> QED BY <2>2, <2>3, <2>4
  <1> QED BY <1>1, <1>2, <1>3, <1>4, <1>9

LEMMA ClickHouseFailsKeepsInv ==
  ASSUME Inv, NEW r \in Requests, ClickHouseFails(r)
  PROVE  Inv'
  <1> USE NoneIsNoId, IdsAreIds DEF Inv, CacheSound
  <1> USE DEF ClickHouseFails, TypeOK, store, bounds, history
  <1>1. TypeOK'
    BY RegistryAssumption DEF RowsBehind, Settled, Active
  <1>2. NoGhostIds'
    BY DEF NoGhostIds, RowsBehind, Settled, Active
  <1>3. RowsBehind'
    BY DEF NoGhostIds, RowsBehind, Settled, Active
  <1>4. (\A t \in Texts : row[t].embedded => row[t].id # None)'
    BY DEF NoGhostIds, RowsBehind
  <1>9. ASSUME Undisturbed' PROVE (CopiesAgree /\ OneInserts /\ NewByMaker)'
    <2>1. CopiesAgree /\ OneInserts /\ NewByMaker
      BY <1>9 DEF Undisturbed
    <2>2. CopiesAgree'
      BY <2>1 DEF NoGhostIds, RowsBehind, CopiesAgree, Settled, Active, Holding, OneInserts
    <2>3. OneInserts'
      BY <2>1 DEF NoGhostIds, RowsBehind, OneInserts, Holding
    <2>4. NewByMaker'
      BY <2>1 DEF NoGhostIds, RowsBehind, NewByMaker, OneInserts, Holding
    <2> QED BY <2>2, <2>3, <2>4
  <1> QED BY <1>1, <1>2, <1>3, <1>4, <1>9

LEMMA TimeoutKeepsInv ==
  ASSUME Inv, NEW r \in Requests, Timeout(r)
  PROVE  Inv'
  <1> USE NoneIsNoId, IdsAreIds DEF Inv, CacheSound
  <1> USE DEF Timeout, Abandon, TypeOK, store, history
  <1>1. TypeOK'
    BY RegistryAssumption DEF RowsBehind, Settled, Active
  <1>2. NoGhostIds'
    BY DEF NoGhostIds, RowsBehind, Settled, Active
  <1>3. RowsBehind'
    BY DEF NoGhostIds, RowsBehind, Settled, Active
  <1>4. (\A t \in Texts : row[t].embedded => row[t].id # None)'
    BY DEF NoGhostIds, RowsBehind
  <1>9. ~Undisturbed'
    BY RegistryAssumption DEF Undisturbed
  <1> QED BY <1>1, <1>2, <1>3, <1>4, <1>9

LEMMA OrphanLandsKeepsInv ==
  ASSUME Inv, NEW r \in Requests, OrphanLands(r)
  PROVE  Inv'
  <1> USE NoneIsNoId, IdsAreIds DEF Inv, CacheSound
  <1> USE DEF OrphanLands, InsertRows, TypeOK, progress, history, bounds
  <1>1. TypeOK'
    BY RegistryAssumption DEF RowsBehind, Settled, Active
  <1>2. NoGhostIds'
    BY DEF NoGhostIds, RowsBehind, Settled, Active
  <1>3. RowsBehind'
    BY DEF NoGhostIds, RowsBehind, Settled, Active
  <1>4. (\A t \in Texts : row[t].embedded => row[t].id # None)'
    BY DEF NoGhostIds, RowsBehind
  <1>9. ASSUME Undisturbed' PROVE (CopiesAgree /\ OneInserts /\ NewByMaker)'
    <2>1. CopiesAgree /\ OneInserts /\ NewByMaker
      BY <1>9 DEF Undisturbed
    <2>2. CopiesAgree'
      BY <2>1 DEF NoGhostIds, RowsBehind, CopiesAgree, Settled, Active, Holding, OneInserts
    <2>3. OneInserts'
      BY <2>1 DEF NoGhostIds, RowsBehind, OneInserts, Holding
    <2>4. NewByMaker'
      BY <2>1 DEF NoGhostIds, RowsBehind, NewByMaker, OneInserts, Holding
    <2> QED BY <2>2, <2>3, <2>4
  <1> QED BY <1>1, <1>2, <1>3, <1>4, <1>9

LEMMA EvictKeepsInv ==
  ASSUME Inv, NEW t \in Texts, Evict(t)
  PROVE  Inv'
  <1> USE NoneIsNoId, IdsAreIds DEF Inv, CacheSound
  <1> USE DEF Evict, TypeOK, progress, history, bounds
  <1>1. TypeOK'
    BY RegistryAssumption DEF RowsBehind, Settled, Active
  <1>2. NoGhostIds'
    BY DEF NoGhostIds, RowsBehind, Settled, Active
  <1>3. RowsBehind'
    BY DEF NoGhostIds, RowsBehind, Settled, Active
  <1>4. (\A u \in Texts : row[u].embedded => row[u].id # None)'
    BY DEF NoGhostIds, RowsBehind
  <1>9. ASSUME Undisturbed' PROVE (CopiesAgree /\ OneInserts /\ NewByMaker)'
    <2>1. CopiesAgree /\ OneInserts /\ NewByMaker
      BY <1>9 DEF Undisturbed
    <2>2. CopiesAgree'
      BY <2>1 DEF NoGhostIds, RowsBehind, CopiesAgree, Settled, Active, Holding, OneInserts
    <2>3. OneInserts'
      BY <2>1 DEF NoGhostIds, RowsBehind, OneInserts, Holding
    <2>4. NewByMaker'
      BY <2>1 DEF NoGhostIds, RowsBehind, NewByMaker, OneInserts, Holding
    <2> QED BY <2>2, <2>3, <2>4
  <1> QED BY <1>1, <1>2, <1>3, <1>4, <1>9

LEMMA RestartKeepsInv ==
  ASSUME Inv, Restart
  PROVE  Inv'
  <1> USE NoneIsNoId, IdsAreIds DEF Inv, CacheSound
  <1> USE DEF Restart, TypeOK, history
  <1>1. TypeOK'
    BY RegistryAssumption DEF RowsBehind, Settled, Active
  <1>2. NoGhostIds'
    BY DEF NoGhostIds, RowsBehind, Settled, Active
  <1>3. RowsBehind'
    BY DEF NoGhostIds, RowsBehind, Settled, Active
  <1>4. (\A t \in Texts : row[t].embedded => row[t].id # None)'
    BY DEF NoGhostIds, RowsBehind
  <1>9. ~Undisturbed'
    BY RegistryAssumption DEF Undisturbed
  <1> QED BY <1>1, <1>2, <1>3, <1>4, <1>9

LEMMA BackfillReadsKeepsInv ==
  ASSUME Inv, BackfillReads
  PROVE  Inv'
  <1> USE NoneIsNoId, IdsAreIds DEF Inv, CacheSound
  <1> USE DEF BackfillReads, TypeOK, store, progress, history, bounds
  <1>1. TypeOK'
    BY RegistryAssumption DEF RowsBehind, Settled, Active
  <1>2. NoGhostIds'
    BY DEF NoGhostIds, RowsBehind, Settled, Active
  <1>3. RowsBehind'
    BY DEF NoGhostIds, RowsBehind, Settled, Active
  <1>4. (\A t \in Texts : row[t].embedded => row[t].id # None)'
    BY DEF NoGhostIds, RowsBehind
  <1>9. ASSUME Undisturbed' PROVE (CopiesAgree /\ OneInserts /\ NewByMaker)'
    <2>1. CopiesAgree /\ OneInserts /\ NewByMaker
      BY <1>9 DEF Undisturbed
    <2>2. CopiesAgree'
      BY <2>1 DEF NoGhostIds, RowsBehind, CopiesAgree, Settled, Active, Holding, OneInserts
    <2>3. OneInserts'
      BY <2>1 DEF NoGhostIds, RowsBehind, OneInserts, Holding
    <2>4. NewByMaker'
      BY <2>1 DEF NoGhostIds, RowsBehind, NewByMaker, OneInserts, Holding
    <2> QED BY <2>2, <2>3, <2>4
  <1> QED BY <1>1, <1>2, <1>3, <1>4, <1>9

LEMMA BackfillInsertsKeepsInv ==
  ASSUME Inv, BackfillInserts
  PROVE  Inv'
  <1> USE NoneIsNoId DEF Inv, CacheSound
  <1> DEFINE Read(t) == \E i \in Ids : <<t, i>> \in backfill
  <1>a. row' = [t \in Texts |->
                  IF Read(t) THEN [id |-> CHOOSE i \in Ids : <<t, i>> \in backfill, embedded |-> TRUE]
                  ELSE row[t]]
    BY Zenon DEF BackfillInserts
  <1>b. backfill' = {} /\ UNCHANGED <<cache, progress, orphans, history, bounds>>
    BY DEF BackfillInserts
  <1>c. ASSUME NEW t \in Texts, Read(t)
        PROVE  /\ row'[t] \in [id : Ids, embedded : BOOLEAN]
               /\ row'[t].id \in Ids /\ <<t, row'[t].id>> \in backfill
    <2> DEFINE i == CHOOSE i \in Ids : <<t, i>> \in backfill
    <2>1. i \in Ids /\ <<t, i>> \in backfill
      BY <1>c, Zenon
    <2>2. row'[t] = [id |-> i, embedded |-> TRUE]
      BY <1>a, <1>c, Zenon
    <2> HIDE DEF i
    <2> QED BY <2>1, <2>2
  <1>d. ASSUME NEW t \in Texts, ~Read(t) PROVE row'[t] = row[t]
    BY <1>a, <1>d, Zenon
  <1> HIDE DEF Read
  <1>0. ASSUME NEW t \in Texts
        PROVE  row'[t] = row[t] \/ (row'[t].id \in Ids /\ <<t, row'[t].id>> \in backfill)
    <2>1. CASE Read(t)
      BY <1>c, <2>1
    <2>2. CASE ~Read(t)
      BY <1>d, <2>2
    <2> QED BY <2>1, <2>2
  <1>t. row' \in [Texts -> [id : Ids \union {None}, embedded : BOOLEAN]]
    <2>1. \A t \in Texts : row'[t] \in [id : Ids \union {None}, embedded : BOOLEAN]
      BY <1>c, <1>d DEF TypeOK
    <2>2. row' = [t \in Texts |-> row'[t]]
      BY <1>a, Zenon
    <2> QED BY <2>1, <2>2, Zenon
  <1> USE DEF progress, history, bounds
  <1>1. TypeOK'
    BY <1>b, <1>t DEF TypeOK
  <1>5. \A t \in Texts : row[t].id # None => row'[t].id # None
    BY <1>0 DEF TypeOK
  <1>2. NoGhostIds'
    BY <1>b, <1>5 DEF NoGhostIds
  <1>3. RowsBehind'
    BY <1>b, <1>5 DEF TypeOK, RowsBehind, Settled, Active
  <1>4. (\A t \in Texts : row[t].embedded => row[t].id # None)'
    BY <1>0 DEF TypeOK
  <1>9. ASSUME Undisturbed' PROVE (CopiesAgree /\ OneInserts /\ NewByMaker)'
    <2>1. CopiesAgree /\ OneInserts /\ NewByMaker
      BY <1>9, <1>b DEF Undisturbed
    <2>0. \A t \in Texts : row'[t].id = row[t].id
      BY <1>0, <2>1 DEF CopiesAgree, TypeOK
    <2>2. CopiesAgree'
      BY <1>b, <2>0, <2>1 DEF TypeOK, CopiesAgree, Settled, Active
    <2>3. OneInserts'
      BY <1>b, <2>0, <2>1 DEF TypeOK, OneInserts, Holding
    <2>4. NewByMaker'
      BY <1>b, <2>0, <2>1 DEF NewByMaker
    <2> QED BY <2>2, <2>3, <2>4
  <1> QED BY <1>1, <1>2, <1>3, <1>4, <1>9

LEMMA BackfillFailsKeepsInv ==
  ASSUME Inv, BackfillFails
  PROVE  Inv'
  <1> USE NoneIsNoId, IdsAreIds DEF Inv, CacheSound
  <1> USE DEF BackfillFails, TypeOK, store, progress, history, bounds
  <1>1. TypeOK'
    BY RegistryAssumption DEF RowsBehind, Settled, Active
  <1>2. NoGhostIds'
    BY DEF NoGhostIds, RowsBehind, Settled, Active
  <1>3. RowsBehind'
    BY DEF NoGhostIds, RowsBehind, Settled, Active
  <1>4. (\A t \in Texts : row[t].embedded => row[t].id # None)'
    BY DEF NoGhostIds, RowsBehind
  <1>9. ASSUME Undisturbed' PROVE (CopiesAgree /\ OneInserts /\ NewByMaker)'
    <2>1. CopiesAgree /\ OneInserts /\ NewByMaker
      BY <1>9 DEF Undisturbed
    <2>2. CopiesAgree'
      BY <2>1 DEF NoGhostIds, RowsBehind, CopiesAgree, Settled, Active, Holding, OneInserts
    <2>3. OneInserts'
      BY <2>1 DEF NoGhostIds, RowsBehind, OneInserts, Holding
    <2>4. NewByMaker'
      BY <2>1 DEF NoGhostIds, RowsBehind, NewByMaker, OneInserts, Holding
    <2> QED BY <2>2, <2>3, <2>4
  <1> QED BY <1>1, <1>2, <1>3, <1>4, <1>9

LEMMA InvNext == Inv /\ [Next]_vars => Inv'
  <1> SUFFICES ASSUME Inv, [Next]_vars PROVE Inv'
    OBVIOUS
  <1>1. ASSUME NEW r \in Requests, NEW S \in (SUBSET Texts) \ {{}}, Begin(r, S) PROVE Inv'
    BY <1>1, BeginKeepsInv
  <1>2. ASSUME NEW r \in Requests,
               \/ Acquire(r) \/ QueryReturns(r) \/ InsertLands(r) \/ InsertReturns(r)
               \/ ClickHouseFails(r) \/ Timeout(r) \/ OrphanLands(r)
        PROVE  Inv'
    BY <1>2, AcquireKeepsInv, QueryReturnsKeepsInv, InsertLandsKeepsInv, InsertReturnsKeepsInv,
       ClickHouseFailsKeepsInv, TimeoutKeepsInv, OrphanLandsKeepsInv
  <1>3. ASSUME NEW t \in Texts, Evict(t) PROVE Inv'
    BY <1>3, EvictKeepsInv
  <1>4. CASE Restart
    BY <1>4, RestartKeepsInv
  <1>5. CASE BackfillReads \/ BackfillInserts \/ BackfillFails
    BY <1>5, BackfillReadsKeepsInv, BackfillInsertsKeepsInv, BackfillFailsKeepsInv
  <1>6. CASE UNCHANGED vars
    BY <1>6 DEF vars, store, progress, history, bounds, Inv, CacheSound, TypeOK, NoGhostIds,
                RowsBehind, Settled, Active, Holding, CopiesAgree, OneInserts, NewByMaker,
                Undisturbed
  <1> QED BY <1>1, <1>2, <1>3, <1>4, <1>5, <1>6 DEF Next

LEMMA Invariance == Spec => []Inv
  BY InvInit, InvNext, PTL DEF Spec

-----------------------------------------------------------------------------
(* "Cache only after INSERT succeeds" (template_registry.py): whatever     *)
(* fails, times out or exits, an id in the cache or in an answer belongs   *)
(* to a text that has a row in the table.                                  *)
THEOREM CachedIdsHaveRows == Spec => []CacheSound
  <1>1. Inv => CacheSound
    BY DEF Inv
  <1> QED BY <1>1, Invariance, PTL

(* While no request timed out and the process did not exit, every answer   *)
(* for a text gives the id of its row, and one answer calls it new: the    *)
(* tenant lock and the second look at the cache and the table do keep two  *)
(* racing requests from inserting the same text.                           *)
THEOREM IdsStable == Spec => []IdsSound
  <1>1. ASSUME Inv, Undisturbed, NEW t \in Texts
        PROVE  Cardinality(answered[t]) <= 1 /\ news[t] <= 1
    <2>1. answered[t] \subseteq {row[t].id} /\ news[t] \in {0, 1}
      BY <1>1 DEF Inv, CopiesAgree, NewByMaker
    <2>2. IsFiniteSet({row[t].id}) /\ Cardinality({row[t].id}) = 1
      BY FS_Singleton
    <2>3. Cardinality(answered[t]) <= 1
      BY <2>1, <2>2, FS_Subset
    <2> QED BY <2>1, <2>3
  <1>2. Inv => IdsSound
    BY <1>1 DEF IdsSound, StableUndisturbed, StableTemplateId, NewOnce
  <1> QED BY <1>2, Invariance, PTL

(* While no request timed out and the process did not exit, the embedding  *)
(* of a row survives: an INSERT writes only texts without a row, and the   *)
(* backfill, whatever it read before, writes embedded rows only.           *)
THEOREM EmbeddingsSurvive == Spec => EmbeddingKept
  <1> DEFINE Kept == Undisturbed => \A t \in Texts : row[t].embedded => row'[t].embedded
  <1>1. ASSUME Inv, [Next]_vars PROVE Kept
    <2> SUFFICES ASSUME Undisturbed, NEW t \in Texts, row[t].embedded
                 PROVE  row'[t].embedded
      OBVIOUS
    <2>1. row[t].id # None /\ OneInserts
      BY <1>1 DEF Inv
    <2>2. CASE UNCHANGED row
      BY <2>2
    <2>3. ASSUME NEW r \in Requests, InsertLands(r) PROVE row'[t].embedded
      <3>1. t \notin fresh[r]
        BY <2>1, <2>3 DEF InsertLands, OneInserts
      <3> QED BY <2>3, <3>1 DEF InsertLands, InsertRows
    <2>4. ASSUME NEW r \in Requests, OrphanLands(r) PROVE FALSE
      BY <2>1, <2>4 DEF OrphanLands, OneInserts
    <2>5. CASE BackfillInserts
      BY <2>5, Zenon DEF BackfillInserts
    <2> QED
      BY <1>1, <2>2, <2>3, <2>4, <2>5
         DEF Next, vars, store, Begin, Acquire, QueryReturns, InsertReturns, ClickHouseFails,
             Timeout, Abandon, Evict, Restart, BackfillReads, BackfillFails
  <1>2. Inv /\ [Next]_vars => [Kept]_vars
    BY <1>1
  <1> QED BY <1>2, Invariance, PTL DEF Spec, EmbeddingKept

=============================================================================
