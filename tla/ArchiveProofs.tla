---------------------------- MODULE ArchiveProofs ----------------------------
(***************************************************************************)
(* Proofs about ArchivePipeline, for any number of objects, partitions,    *)
(* faults and exits: compaction loses no event, the watermark passes no    *)
(* object that still needs a row, and the queue and every counter keep to  *)
(* their limits.                                                           *)
(***************************************************************************)
EXTENDS ArchivePipeline, FiniteSetTheorems, SequenceTheorems, TLAPS

(* A compaction merges no single object, and once it has PUT its object,   *)
(* nothing it or an earlier, half-failed compaction deletes is that one.   *)
MergedIsThere ==
  /\ compaction = [pc |-> compaction.pc, keys |-> compaction.keys]
  /\ \A k \in Keys : compaction.keys # {k}
  /\ compaction.keys \subseteq Keys
  /\ compaction.pc \in {"put", "repointed"} => compaction.keys \in bucket

Inv == MergedIsThere /\ BytesKept

-----------------------------------------------------------------------------
LEMMA InvInit == Init => Inv
  BY FS_EmptySet DEF Init, Inv, MergedIsThere, BytesKept, NoCompaction

LEMMA LandKeepsInv ==
  ASSUME Inv, NEW k \in Keys, Land(k)
  PROVE  Inv'
  BY DEF Inv, Land, MergedIsThere, BytesKept

LEMMA CompactReadsKeepsInv ==
  ASSUME Inv, CompactReads
  PROVE  Inv'
  <1>1. PICK p \in closed :
          LET S == {k \in Keys : Partition[k] = p /\ {k} \in bucket}
          IN  Cardinality(S) >= 2 /\ compaction' = [pc |-> "read", keys |-> S]
    BY DEF CompactReads
  <1> DEFINE S == {k \in Keys : Partition[k] = p /\ {k} \in bucket}
  <1>2. ASSUME NEW k \in Keys, S = {k} PROVE FALSE
    <2>1. Cardinality(S) = 1
      BY <1>2, FS_Singleton
    <2>2. Cardinality(S) >= 2
      BY <1>1
    <2> QED BY <2>1, <2>2
  <1>3. S \subseteq Keys /\ compaction' = [pc |-> "read", keys |-> S]
    BY <1>1
  <1>4. UNCHANGED <<landed, bucket>>
    BY DEF CompactReads, s3
  <1> HIDE DEF S
  <1> QED BY <1>2, <1>3, <1>4 DEF Inv, MergedIsThere, BytesKept

LEMMA CompactPutsKeepsInv ==
  ASSUME Inv, CompactPuts
  PROVE  Inv'
  <1>1. /\ compaction'.pc = "put" /\ compaction'.keys = compaction.keys
        /\ compaction' = [pc |-> compaction'.pc, keys |-> compaction'.keys]
    BY DEF CompactPuts, Inv, MergedIsThere
  <1>2. bucket' = bucket \union {compaction.keys} /\ landed' = landed
    BY DEF CompactPuts
  <1> QED BY <1>1, <1>2 DEF Inv, MergedIsThere, BytesKept

(* What is deleted is what was merged, and the merged object stands.       *)
LEMMA DeletingKeepsBytes ==
  ASSUME Inv, NEW D \in SUBSET compaction.keys, bucket' = bucket \ Originals(D), landed' = landed,
         compaction.pc = "repointed" \/ D = {}
  PROVE  BytesKept'
  <1> SUFFICES ASSUME NEW k \in landed PROVE \E o \in bucket' : k \in o
    BY DEF BytesKept
  <1>1. PICK o \in bucket : k \in o
    BY DEF Inv, BytesKept
  <1>2. CASE o \notin Originals(D)
    BY <1>1, <1>2
  <1>3. CASE o \in Originals(D)
    <2>1. k \in compaction.keys /\ compaction.keys \in bucket
      BY <1>1, <1>3 DEF Originals, Inv, MergedIsThere
    <2>2. compaction.keys \notin Originals(D)
      BY DEF Originals, Inv, MergedIsThere
    <2> QED BY <2>1, <2>2
  <1> QED BY <1>2, <1>3

LEMMA CompactDeletesKeepsInv ==
  ASSUME Inv, CompactDeletes
  PROVE  Inv'
  <1>1. BytesKept'
    BY DeletingKeepsBytes DEF CompactDeletes
  <1> QED BY <1>1 DEF CompactDeletes, NoCompaction, Inv, MergedIsThere

LEMMA CompactFailsKeepsInv ==
  ASSUME Inv, CompactFails
  PROVE  Inv'
  <1>1. BytesKept'
    BY DeletingKeepsBytes DEF CompactFails
  <1> QED BY <1>1 DEF CompactFails, NoCompaction, Inv, MergedIsThere

LEMMA InvNext == Inv /\ [Next]_vars => Inv'
  <1> SUFFICES ASSUME Inv, [Next]_vars PROVE Inv'
    OBVIOUS
  <1>1. CASE UNCHANGED <<landed, bucket, compaction>>
    BY <1>1 DEF Inv, MergedIsThere, BytesKept
  <1>2. CASE Crash
    BY <1>2 DEF Crash, s3, NoCompaction, Inv, MergedIsThere, BytesKept
  <1>3. CASE CompactRepoints
    <2>1. /\ compaction'.pc = "repointed" /\ compaction'.keys = compaction.keys
          /\ compaction' = [pc |-> compaction'.pc, keys |-> compaction'.keys]
          /\ compaction.pc = "put" /\ UNCHANGED s3
      BY <1>3 DEF CompactRepoints, Inv, MergedIsThere
    <2> QED BY <2>1 DEF s3, Inv, MergedIsThere, BytesKept
  <1>4. ASSUME NEW k \in Keys, Notify(k) PROVE Inv'
    BY <1>1, <1>4 DEF Notify, s3
  <1>5. ASSUME NEW q, Close(q) PROVE Inv'
    BY <1>1, <1>5 DEF Close
  <1>6. ASSUME NEW e \in Events, Merge(e) PROVE Inv'
    BY <1>1, <1>6 DEF Merge, s3
  <1>7. CASE CircuitOpens \/ CircuitCloses \/ Forget
    BY <1>1, <1>7 DEF CircuitOpens, CircuitCloses, Forget, s3
  <1>8. CASE ConsumerTakes \/ ConsumerFetches \/ ConsumerIngests \/ ConsumerMisses \/ ConsumerFails
    <2>1. UNCHANGED <<s3, compaction>>
      BY <1>8 DEF ConsumerTakes, ConsumerFetches, ConsumerIngests, ConsumerMisses, ConsumerFails,
                  RetryHead
    <2> QED BY <1>1, <2>1 DEF s3
  <1>9. CASE SweepLists \/ SweepChecks \/ SweepSaves \/ SweepFails
    <2>1. UNCHANGED <<s3, compaction>>
      BY <1>9 DEF SweepLists, SweepChecks, SweepSaves, SweepFails
    <2> QED BY <1>1, <2>1 DEF s3
  <1>10. CASE UNCHANGED vars
    BY <1>1, <1>10 DEF vars, s3
  <1> QED
    BY <1>2, <1>3, <1>4, <1>5, <1>6, <1>7, <1>8, <1>9, <1>10, LandKeepsInv, CompactReadsKeepsInv,
       CompactPutsKeepsInv, CompactDeletesKeepsInv, CompactFailsKeepsInv
       DEF Next

-----------------------------------------------------------------------------
(* Compaction is "ordered so nothing is lost": whatever call fails or      *)
(* process exits between the PUT, the repoint and the deletion, and        *)
(* however often it is retried, the events of every object that landed are *)
(* in an object of the bucket.                                             *)
THEOREM EventsStayArchived == Spec => []BytesKept
  <1>1. Inv => BytesKept
    BY DEF Inv
  <1> QED BY <1>1, InvInit, InvNext, PTL DEF Spec

-----------------------------------------------------------------------------
(* The queue, the consumer and the counters.                               *)

Merging == compaction.pc # "idle" => compaction.keys # {}

LastKept == \A e \in Events : rows[e].refs # {} => rows[e].last \in rows[e].refs

QInv == TypeOK /\ QueueSound /\ Merging /\ LastKept

LEMMA Constants ==
  /\ NumKeys \in Nat \ {0} /\ MaxQueue \in Nat \ {0} /\ BatchSize \in Nat \ {0}
  /\ MaxAttempts \in Nat \ {0} /\ MaxKeys \in Nat \ {0} /\ Quarantine \in Nat \ {0}
  /\ MaxNotifies \in Nat /\ MaxFaults \in Nat /\ MaxCrashes \in Nat
  /\ \A k \in Keys : Content[k] \in SUBSET Events
  BY ArchiveAssumption

(* enqueue() adds a key that is not pending, at the end, if there is room. *)
LEMMA EnqueueKeeps ==
  ASSUME NEW q \in Seq(Keys), NEW k \in Keys, Len(q) <= MaxQueue, IsInjective(q)
  PROVE  /\ Enqueue(q, k) \in Seq(Keys)
         /\ Len(Enqueue(q, k)) <= MaxQueue
         /\ IsInjective(Enqueue(q, k))
  <1>1. Len(q) \in Nat /\ DOMAIN q = 1..Len(q) /\ MaxQueue \in Nat
    BY LenProperties, Constants
  <1>2. CASE k \in ToSet(q) \/ Len(q) >= MaxQueue
    <2>1. Enqueue(q, k) = q
      BY <1>2 DEF Enqueue
    <2> QED BY <2>1
  <1>3. CASE k \notin ToSet(q) /\ ~(Len(q) >= MaxQueue)
    <2>1. Enqueue(q, k) = Append(q, k)
      BY <1>3 DEF Enqueue
    <2> DEFINE r == Append(q, k)
    <2>2. /\ r \in Seq(Keys) /\ Len(r) = Len(q) + 1
          /\ \A i \in 1..Len(q) : r[i] = q[i]
          /\ r[Len(q) + 1] = k
      BY AppendProperties
    <2> HIDE DEF r
    <2>3. DOMAIN r = 1..Len(q) + 1
      BY <2>2, LenProperties
    <2>4. \A i \in 1..Len(q) : q[i] # k
      BY <1>1, <1>3 DEF ToSet
    <2>5. IsInjective(r)
      BY <1>1, <2>2, <2>3, <2>4 DEF IsInjective
    <2>6. Len(r) <= MaxQueue
      BY <1>1, <1>3, <2>2
    <2> QED BY <2>1, <2>2, <2>5, <2>6 DEF r
  <1> QED BY <1>2, <1>3

(* So does the sweep, with all the gaps it found.                          *)
LEMMA EnqueueAllKeeps ==
  ASSUME NEW q \in Seq(Keys), NEW S \in SUBSET Keys, IsInjective(q),
         NEW r \in EnqueueAll(q, S)
  PROVE  /\ r \in Seq(Keys)
         /\ Len(r) <= MaxQueue
         /\ IsInjective(r)
  <1>1. PICK n \in 0..MaxQueue : r \in [1..n -> Keys]
    BY DEF EnqueueAll
  <1>2. MaxQueue \in Nat /\ n \in Nat /\ Len(q) \in Nat /\ DOMAIN q = 1..Len(q)
    BY <1>1, Constants, LenProperties
  <1>3. r \in Seq(Keys) /\ Len(r) = n /\ DOMAIN r = 1..n
    BY <1>1, <1>2
  <1>4. /\ n >= Len(q) /\ \A i \in 1..Len(q) : r[i] = q[i]
        /\ \A i, j \in Len(q) + 1 .. n : i < j => r[i] < r[j]
        /\ {r[i] : i \in Len(q) + 1 .. n} \subseteq S \ ToSet(q)
    BY <1>2, <1>3 DEF EnqueueAll
  <1>5. \A i \in 1..Len(q), j \in Len(q) + 1 .. n : r[i] # r[j]
    BY <1>2, <1>4 DEF ToSet
  <1>6. \A i \in 1..n : r[i] \in Nat
    BY <1>1 DEF Keys
  <1>7. IsInjective(r)
    <2> SUFFICES ASSUME NEW i \in 1..n, NEW j \in 1..n, r[i] = r[j], i < j PROVE FALSE
      BY <1>2, <1>3 DEF IsInjective
    <2>1. CASE j <= Len(q)
      BY <1>2, <1>4, <2>1 DEF IsInjective
    <2>2. CASE i <= Len(q) /\ j > Len(q)
      BY <1>2, <1>5, <2>2
    <2>3. CASE i > Len(q)
      BY <1>2, <1>4, <1>6, <2>3
    <2> QED BY <1>2, <2>1, <2>2, <2>3
  <1> QED BY <1>1, <1>2, <1>3, <1>7

(* A batch is the head of the queue, what remains is the rest of it.       *)
LEMMA TakingKeeps ==
  ASSUME QInv, ConsumerTakes
  PROVE  QInv'
  <1> DEFINE n == IF Len(queue) < BatchSize THEN Len(queue) ELSE BatchSize
  <1>1. /\ batch' = SubSeq(queue, 1, n) /\ queue' = SubSeq(queue, n + 1, Len(queue))
        /\ UNCHANGED <<s3, clickhouse, recent, circuitOpen, attempts, fetched, sweeping, compaction,
                       bounds>>
    BY DEF ConsumerTakes
  <1>2. queue \in Seq(Keys) /\ Len(queue) \in Nat /\ DOMAIN queue = 1..Len(queue)
    BY LenProperties DEF QInv, TypeOK
  <1>3. n \in 0..Len(queue) /\ n <= BatchSize
    BY <1>2, Constants
  <1> HIDE DEF n
  <1>4. \A i \in 1..Len(queue) : queue[i] \in Keys
    BY <1>2
  <1>5. batch' \in Seq(Keys) /\ Len(batch') <= BatchSize
    <2>1. /\ SubSeq(queue, 1, n) \in Seq(Keys)
          /\ Len(SubSeq(queue, 1, n)) = IF 1 <= n THEN n - 1 + 1 ELSE 0
      BY <1>2, <1>3, <1>4, SubSeqProperties
    <2> QED BY <1>1, <1>3, <2>1, Constants
  <1>6. /\ queue' \in Seq(Keys) /\ Len(queue') = Len(queue) - n
        /\ \A i \in 1..Len(queue') : queue'[i] = queue[n + i]
    <2>1. /\ SubSeq(queue, n + 1, Len(queue)) \in Seq(Keys)
          /\ Len(SubSeq(queue, n + 1, Len(queue)))
               = IF n + 1 <= Len(queue) THEN Len(queue) - (n + 1) + 1 ELSE 0
          /\ \A i \in 1..Len(queue) - (n + 1) + 1 :
               SubSeq(queue, n + 1, Len(queue))[i] = queue[n + 1 + i - 1]
      <3>1. n + 1 \in Int /\ Len(queue) \in Int /\ \A i \in n + 1 .. Len(queue) : queue[i] \in Keys
        BY <1>2, <1>3, <1>4
      <3> QED BY <3>1, SubSeqProperties
    <2>2. /\ queue' \in Seq(Keys) /\ Len(queue') = Len(queue) - n
      <3>1. \A m \in Nat : \A i \in 0..m : m - (i + 1) + 1 = m - i /\ (~(i + 1 <= m) => m - i = 0)
        OBVIOUS
      <3> QED BY <1>1, <1>2, <1>3, <2>1, <3>1
    <2>3. \A i \in 1..Len(queue') : n + 1 + i - 1 = n + i /\ i \in 1..Len(queue) - (n + 1) + 1
      BY <1>2, <1>3, <2>2
    <2> QED BY <1>1, <2>1, <2>2, <2>3
  <1>7. QueueSound'
    <2>1. Len(queue') <= MaxQueue
      BY <1>2, <1>3, <1>6, Constants DEF QInv, QueueSound
    <2>2. DOMAIN queue' = 1..Len(queue')
      BY <1>6, LenProperties
    <2>3. IsInjective(queue')
      <3> SUFFICES ASSUME NEW i \in 1..Len(queue'), NEW j \in 1..Len(queue'), queue'[i] = queue'[j]
                   PROVE  i = j
        BY <2>2 DEF IsInjective
      <3>1. n + i \in DOMAIN queue /\ n + j \in DOMAIN queue
        BY <1>2, <1>3, <1>6
      <3>2. queue[n + i] = queue[n + j]
        BY <1>6
      <3>3. n + i = n + j
        BY <3>1, <3>2 DEF QInv, QueueSound, IsInjective
      <3> QED BY <1>3, <3>3
    <2> QED BY <2>1, <2>3 DEF QueueSound
  <1>8. TypeOK' /\ Merging' /\ LastKept'
    BY <1>1, <1>5, <1>6 DEF QInv, TypeOK, Merging, LastKept, s3, clickhouse, sweeping, bounds
  <1> QED BY <1>7, <1>8 DEF QInv

LEMMA TailKeeps ==
  ASSUME QInv, batch # << >>, NextItem
  PROVE  /\ batch' \in Seq(Keys) /\ Len(batch') <= BatchSize /\ fetched' \in BOOLEAN
         /\ Head(batch) \in Keys
  <1>1. batch \in Seq(Keys) /\ Len(batch) \in Nat /\ Len(batch) <= BatchSize
    BY LenProperties DEF QInv, TypeOK
  <1>2. Head(batch) \in Keys /\ Tail(batch) \in Seq(Keys) /\ Len(Tail(batch)) = Len(batch) - 1
    BY <1>1, HeadTailProperties
  <1>3. Len(Tail(batch)) <= BatchSize
    BY <1>1, <1>2, Constants
  <1> QED BY <1>2, <1>3 DEF NextItem

LEMMA RetryKeeps ==
  ASSUME QInv, batch # << >>, RetryHead, notifies' \in 0..MaxNotifies, faults' \in 0..MaxFaults,
         crashes' \in 0..MaxCrashes
  PROVE  QInv'
  <1> DEFINE k == Head(batch)
             again == attempts[k] + 1 < MaxAttempts
  <1>1. /\ attempts' = [attempts EXCEPT ![k] = IF again THEN @ + 1 ELSE 0]
        /\ queue' = IF again THEN Enqueue(queue, k) ELSE queue
        /\ NextItem
        /\ UNCHANGED <<s3, clickhouse, recent, circuitOpen, sweeping, compaction>>
    BY DEF RetryHead
  <1>2. /\ batch' \in Seq(Keys) /\ Len(batch') <= BatchSize /\ fetched' \in BOOLEAN /\ k \in Keys
    BY <1>1, TailKeeps
  <1>3. attempts' \in [Keys -> 0..MaxAttempts-1]
    <2>1. attempts \in [Keys -> 0..MaxAttempts-1]
      BY DEF QInv, TypeOK
    <2>2. (IF again THEN attempts[k] + 1 ELSE 0) \in 0..MaxAttempts-1
      BY <1>2, <2>1, Constants
    <2> HIDE DEF again, k
    <2> QED BY <1>1, <1>2, <2>1, <2>2
  <1>4. queue' \in Seq(Keys) /\ Len(queue') <= MaxQueue /\ IsInjective(queue')
    BY <1>1, <1>2, EnqueueKeeps DEF QInv, TypeOK, QueueSound
  <1> HIDE DEF k, again
  <1>5. TypeOK' /\ Merging' /\ LastKept'
    BY <1>1, <1>2, <1>3, <1>4 DEF QInv, TypeOK, Merging, LastKept, s3, clickhouse, sweeping
  <1> QED BY <1>4, <1>5 DEF QInv, QueueSound

LEMMA IngestKeeps ==
  ASSUME QInv, ConsumerIngests
  PROVE  QInv'
  <1> DEFINE k == Head(batch)
  <1>1. /\ batch # << >> /\ NextItem
        /\ UNCHANGED <<s3, cursor, queue, circuitOpen, sweeping, compaction, bounds>>
        /\ recent' = recent \union {Content[k]}
        /\ attempts' = [attempts EXCEPT ![k] = 0]
        /\ rows' = [e \in Events |-> IF Content[k] \notin recent /\ e \in Content[k]
                                    THEN [refs |-> rows[e].refs \union {{k}}, last |-> {k}]
                                    ELSE rows[e]]
    BY DEF ConsumerIngests
  <1>2. batch' \in Seq(Keys) /\ Len(batch') <= BatchSize /\ fetched' \in BOOLEAN /\ k \in Keys
    BY <1>1, TailKeeps
  <1>3. recent' \subseteq SUBSET Events
    BY <1>1, <1>2, Constants DEF QInv, TypeOK
  <1>4. attempts' \in [Keys -> 0..MaxAttempts-1]
    BY <1>1, <1>2, Constants DEF QInv, TypeOK
  <1> HIDE DEF k
  <1>5. rows' \in [Events -> [refs : SUBSET Objects, last : Objects \union {{}}]]
    <2>1. {k} \in Objects
      BY <1>2 DEF Objects
    <2>2. \A e \in Events : rows[e] \in [refs : SUBSET Objects, last : Objects \union {{}}]
      BY DEF QInv, TypeOK
    <2>3. \A e \in Events : rows[e].refs \union {{k}} \in SUBSET Objects
      BY <2>1, <2>2
    <2> QED BY <1>1, <2>1, <2>2, <2>3
  <1>6. LastKept'
    BY <1>1 DEF QInv, LastKept
  <1> QED BY <1>1, <1>2, <1>3, <1>4, <1>5, <1>6
          DEF QInv, TypeOK, QueueSound, Merging, s3, sweeping, bounds

LEMMA RowsChangeKeeps ==
  ASSUME QInv, CompactRepoints \/ \E e \in Events : Merge(e)
  PROVE  QInv'
  <1>1. \A e \in Events : rows[e] \in [refs : SUBSET Objects, last : Objects \union {{}}]
    BY DEF QInv, TypeOK
  <1>2. CASE CompactRepoints
    <2> DEFINE Repointed(o) == IF o \in Originals(compaction.keys) THEN compaction.keys ELSE o
    <2>1. /\ compaction.pc = "put" /\ compaction' = [compaction EXCEPT !.pc = "repointed"]
          /\ rows' = [e \in Events |-> [refs |-> {Repointed(o) : o \in rows[e].refs},
                                       last |-> Repointed(rows[e].last)]]
          /\ UNCHANGED <<s3, cursor, recent, queue, circuitOpen, consumer, sweeping, bounds>>
      BY <1>2 DEF CompactRepoints
    <2>2. /\ compaction' \in [pc : {"idle", "read", "put", "repointed"}, keys : SUBSET Keys]
          /\ Merging' /\ compaction.keys \in Objects
      BY <2>1 DEF QInv, TypeOK, Merging, Objects
    <2>3. \A o \in Objects \union {{}} : Repointed(o) \in Objects \union {{}}
      BY <2>2
    <2>4. \A o \in Objects : Repointed(o) \in Objects
      BY <2>2
    <2> HIDE DEF Repointed
    <2>5. \A e \in Events : /\ {Repointed(o) : o \in rows[e].refs} \in SUBSET Objects
                            /\ Repointed(rows[e].last) \in Objects \union {{}}
      BY <1>1, <2>3, <2>4
    <2>6. rows' \in [Events -> [refs : SUBSET Objects, last : Objects \union {{}}]]
      BY <2>1, <2>5
    <2>7. LastKept'
      <3> SUFFICES ASSUME NEW e \in Events, rows'[e].refs # {} PROVE rows'[e].last \in rows'[e].refs
        BY DEF LastKept
      <3>1. /\ rows'[e].refs = {Repointed(o) : o \in rows[e].refs}
            /\ rows'[e].last = Repointed(rows[e].last)
        BY <2>1
      <3>2. rows[e].last \in rows[e].refs
        BY <3>1 DEF QInv, LastKept
      <3> QED BY <3>1, <3>2
    <2> QED BY <2>1, <2>2, <2>6, <2>7 DEF QInv, TypeOK, QueueSound, s3, consumer, sweeping, bounds
  <1>3. ASSUME NEW e \in Events, Merge(e) PROVE QInv'
    <2>1. /\ rows' = [rows EXCEPT ![e].refs = {rows[e].last}] /\ rows[e].refs # {}
          /\ UNCHANGED <<s3, cursor, recent, queue, circuitOpen, consumer, sweeping, compaction,
                         bounds>>
      BY <1>3 DEF Merge
    <2>2. rows[e].last \in rows[e].refs /\ rows[e].last \in Objects
      BY <1>1, <2>1 DEF QInv, LastKept
    <2>3. rows' = [f \in Events |-> IF f = e THEN [refs |-> {rows[e].last}, last |-> rows[e].last]
                                  ELSE rows[f]]
      <3>1. DOMAIN rows = Events /\ rows = [f \in Events |-> rows[f]]
        BY DEF QInv, TypeOK
      <3>2. rows[e] = [refs |-> rows[e].refs, last |-> rows[e].last]
        BY <1>1
      <3>3. [rows[e] EXCEPT !.refs = {rows[e].last}] = [refs |-> {rows[e].last}, last |-> rows[e].last]
        BY <3>2
      <3>4. rows' = [rows EXCEPT ![e] = [rows[e] EXCEPT !.refs = {rows[e].last}]]
        BY <2>1
      <3> QED BY <3>1, <3>3, <3>4
    <2>4. [refs |-> {rows[e].last}, last |-> rows[e].last]
            \in [refs : SUBSET Objects, last : Objects \union {{}}]
      BY <2>2
    <2>5. rows' \in [Events -> [refs : SUBSET Objects, last : Objects \union {{}}]]
      BY <1>1, <2>3, <2>4
    <2>6. LastKept'
      BY <2>3 DEF QInv, LastKept
    <2> QED BY <2>1, <2>5, <2>6 DEF QInv, TypeOK, QueueSound, Merging, s3, consumer, sweeping, bounds
  <1> QED BY <1>2, <1>3

LEMMA SweepKeeps ==
  ASSUME QInv, SweepLists \/ SweepChecks \/ SweepSaves \/ SweepFails
  PROVE  QInv'
  <1>1. NoSweep \in [pc : {"idle", "listed", "checked"}, keys : SUBSET Keys, next : 0..NumKeys]
    BY Constants DEF NoSweep
  <1>2. CASE SweepLists
    <2>1. Listing \in SUBSET Keys
      BY DEF Listing
    <2> QED BY <1>2, <2>1 DEF SweepLists, QInv, TypeOK, QueueSound, Merging, LastKept, s3, clickhouse,
                              consumer, bounds
  <1>3. CASE SweepChecks
    <2> DEFINE gaps == {k \in sweep.keys : ~HasRow(k)}
               givenUp == {k \in gaps : misses[k] + 1 >= Quarantine}
               blocking == gaps \ givenUp
               passed == {k \in sweep.keys : \A b \in blocking : k < b}
    <2>1. /\ queue' \in EnqueueAll(queue, gaps)
          /\ misses' = [k \in Keys |-> IF k \in blocking THEN misses[k] + 1
                                      ELSE IF k \in sweep.keys THEN 0 ELSE misses[k]]
          /\ quarantined' = quarantined \union givenUp
          /\ \E next \in passed \union {cursor} :
               sweep' = [sweep EXCEPT !.pc = "checked", !.next = next]
          /\ UNCHANGED <<s3, clickhouse, recent, circuitOpen, consumer, compaction, bounds>>
      BY <1>3 DEF SweepChecks
    <2>2. sweep.keys \in SUBSET Keys /\ gaps \in SUBSET Keys /\ givenUp \in SUBSET Keys
      BY DEF QInv, TypeOK
    <2>3. queue' \in Seq(Keys) /\ Len(queue') <= MaxQueue /\ IsInjective(queue')
      BY <2>1, <2>2, EnqueueAllKeeps DEF QInv, TypeOK, QueueSound
    <2>4. misses' \in [Keys -> 0..Quarantine-1]
      <3> SUFFICES ASSUME NEW k \in Keys
                   PROVE  (IF k \in blocking THEN misses[k] + 1
                           ELSE IF k \in sweep.keys THEN 0 ELSE misses[k]) \in 0..Quarantine-1
        BY <2>1
      <3>1. misses[k] \in 0..Quarantine-1
        BY DEF QInv, TypeOK
      <3>2. k \in blocking => ~(misses[k] + 1 >= Quarantine)
        OBVIOUS
      <3> HIDE DEF blocking
      <3> QED BY <3>1, <3>2, Constants
    <2>5. sweep' \in [pc : {"idle", "listed", "checked"}, keys : SUBSET Keys, next : 0..NumKeys]
      <3>1. PICK next \in passed \union {cursor} :
              sweep' = [sweep EXCEPT !.pc = "checked", !.next = next]
        BY <2>1
      <3>2. next \in 0..NumKeys
        BY <2>2, Constants DEF QInv, TypeOK, Keys
      <3> QED BY <3>1, <3>2 DEF QInv, TypeOK
    <2> HIDE DEF gaps, givenUp, blocking, passed
    <2> QED BY <2>1, <2>2, <2>3, <2>4, <2>5
            DEF QInv, TypeOK, QueueSound, Merging, LastKept, s3, clickhouse, consumer, bounds
  <1>4. CASE SweepSaves
    BY <1>1, <1>4 DEF SweepSaves, QInv, TypeOK, QueueSound, Merging, LastKept, s3, consumer, bounds
  <1>5. CASE SweepFails
    BY <1>1, <1>5, Constants DEF SweepFails, QInv, TypeOK, QueueSound, Merging, LastKept, s3,
                                 clickhouse, consumer
  <1> QED BY <1>2, <1>3, <1>4, <1>5

LEMMA CompactKeeps ==
  ASSUME QInv, CompactReads \/ CompactPuts \/ CompactDeletes \/ CompactFails
  PROVE  QInv'
  <1>1. CASE CompactReads
    <2>1. PICK p \in closed :
            LET S == {k \in Keys : Partition[k] = p /\ {k} \in bucket}
            IN  Cardinality(S) >= 2 /\ compaction' = [pc |-> "read", keys |-> S]
      BY <1>1 DEF CompactReads
    <2> DEFINE S == {k \in Keys : Partition[k] = p /\ {k} \in bucket}
    <2>2. S # {}
      <3>1. Cardinality({}) = 0
        BY FS_EmptySet
      <3>2. Cardinality(S) >= 2
        BY <2>1
      <3>3. ~(0 >= 2)
        OBVIOUS
      <3> HIDE DEF S
      <3> QED BY <3>1, <3>2, <3>3
    <2>3. compaction' \in [pc : {"idle", "read", "put", "repointed"}, keys : SUBSET Keys] /\ Merging'
      BY <2>1, <2>2 DEF Merging
    <2> QED BY <1>1, <2>3 DEF CompactReads, QInv, TypeOK, QueueSound, LastKept, s3, clickhouse, consumer,
                              sweeping, bounds
  <1>2. CASE CompactPuts
    <2>1. compaction.keys \in Objects
      BY <1>2 DEF CompactPuts, QInv, TypeOK, Merging, Objects
    <2> QED BY <1>2, <2>1 DEF CompactPuts, QInv, TypeOK, QueueSound, Merging, LastKept, clickhouse,
                              consumer, sweeping, bounds
  <1>3. CASE CompactDeletes
    BY <1>3 DEF CompactDeletes, NoCompaction, QInv, TypeOK, QueueSound, Merging, LastKept, clickhouse,
                consumer, sweeping, bounds
  <1>4. CASE CompactFails
    BY <1>4, Constants DEF CompactFails, NoCompaction, QInv, TypeOK, QueueSound, Merging, LastKept,
                           clickhouse, consumer, sweeping
  <1> QED BY <1>1, <1>2, <1>3, <1>4

LEMMA QInvInit == Init => QInv
  <1> SUFFICES ASSUME Init PROVE QInv
    OBVIOUS
  <1>1. << >> \in Seq(Keys) /\ Len(<< >>) = 0
    OBVIOUS
  <1>2. NoSweep \in [pc : {"idle", "listed", "checked"}, keys : SUBSET Keys, next : 0..NumKeys]
    BY Constants DEF NoSweep
  <1>3. /\ attempts \in [Keys -> 0..MaxAttempts-1] /\ misses \in [Keys -> 0..Quarantine-1]
    BY Constants DEF Init
  <1>4. rows \in [Events -> [refs : SUBSET Objects, last : Objects \union {{}}]]
    BY DEF Init, NoRow
  <1>5. TypeOK
    <2>1. 0 \in 0..MaxNotifies /\ 0 \in 0..MaxFaults /\ 0 \in 0..MaxCrashes /\ 0 \in 0..NumKeys
          /\ 0 <= BatchSize
      BY Constants
    <2>2. NoCompaction \in [pc : {"idle", "read", "put", "repointed"}, keys : SUBSET Keys]
      BY DEF NoCompaction
    <2> QED BY <1>1, <1>2, <1>3, <1>4, <2>1, <2>2 DEF Init, TypeOK
  <1>6. QueueSound
    BY <1>1, Constants DEF Init, QueueSound, IsInjective
  <1> QED BY <1>5, <1>6 DEF Init, QInv, Merging, LastKept, NoRow, NoCompaction

LEMMA QInvNext == QInv /\ [Next]_vars => QInv'
  <1> SUFFICES ASSUME QInv, [Next]_vars PROVE QInv'
    OBVIOUS
  <1> USE DEF QInv, TypeOK, QueueSound, Merging, LastKept
  <1>1. ASSUME NEW k \in Keys, Land(k) PROVE QInv'
    <2>1. {k} \in Objects
      BY DEF Objects
    <2> QED BY <1>1, <2>1 DEF Land, clickhouse, consumer, sweeping, bounds
  <1>2. ASSUME NEW k \in Keys, Notify(k) PROVE QInv'
    <2>1. Enqueue(queue, k) \in Seq(Keys) /\ Len(Enqueue(queue, k)) <= MaxQueue
          /\ IsInjective(Enqueue(queue, k))
      BY EnqueueKeeps
    <2> QED BY <1>2, <2>1, Constants DEF Notify, s3, clickhouse, consumer, sweeping
  <1>3. ASSUME NEW q \in {Partition[k] : k \in Keys}, Close(q) PROVE QInv'
    BY <1>3 DEF Close, clickhouse, consumer, sweeping, bounds
  <1>4. CASE CircuitOpens \/ CircuitCloses
    <2>1. faults' \in 0..MaxFaults
      BY <1>4, Constants DEF CircuitOpens, CircuitCloses, bounds
    <2> QED BY <1>4, <2>1 DEF CircuitOpens, CircuitCloses, s3, clickhouse, consumer, sweeping, bounds
  <1>5. CASE ConsumerTakes
    BY <1>5, TakingKeeps
  <1>6. CASE ConsumerFetches
    BY <1>6 DEF ConsumerFetches, s3, clickhouse, sweeping, bounds
  <1>7. CASE ConsumerIngests
    BY <1>7, IngestKeeps
  <1>8. CASE ConsumerMisses
    BY <1>8, RetryKeeps DEF ConsumerMisses, bounds
  <1>9. CASE ConsumerFails
    <2>1. /\ batch # << >> /\ RetryHead
          /\ notifies' \in 0..MaxNotifies /\ faults' \in 0..MaxFaults /\ crashes' \in 0..MaxCrashes
      BY <1>9, Constants DEF ConsumerFails
    <2> QED BY <2>1, RetryKeeps
  <1>10. CASE Forget
    BY <1>10 DEF Forget, s3, clickhouse, consumer, sweeping, bounds
  <1>11. CASE Crash
    <2>1. << >> \in Seq(Keys) /\ Len(<< >>) = 0
      OBVIOUS
    <2>2. NoSweep \in [pc : {"idle", "listed", "checked"}, keys : SUBSET Keys, next : 0..NumKeys]
      BY Constants DEF NoSweep
    <2>3. /\ attempts' \in [Keys -> 0..MaxAttempts-1] /\ misses' \in [Keys -> 0..Quarantine-1]
          /\ crashes' \in 0..MaxCrashes /\ 0 <= MaxQueue /\ 0 <= BatchSize
      BY <1>11, Constants DEF Crash
    <2>4. IsInjective(<< >>)
      BY <2>1 DEF IsInjective
    <2>5. NoCompaction \in [pc : {"idle", "read", "put", "repointed"}, keys : SUBSET Keys]
          /\ NoCompaction.pc = "idle"
      BY DEF NoCompaction
    <2> QED BY <1>11, <2>1, <2>2, <2>3, <2>4, <2>5 DEF Crash, s3, clickhouse
  <1>12. CASE UNCHANGED vars
    BY <1>12 DEF vars, s3, clickhouse, consumer, sweeping, bounds
  <1> QED BY <1>1, <1>2, <1>3, <1>4, <1>5, <1>6, <1>7, <1>8, <1>9, <1>10, <1>11, <1>12,
             RowsChangeKeeps, SweepKeeps, CompactKeeps DEF Next

(* The notify endpoint, the consumer's retry and the sweep fill one queue: *)
(* it never exceeds its size and holds no source_ref twice, the batch, the *)
(* attempts and the miss counts keep to theirs, whatever fails or exits.   *)
THEOREM QueueKeepsToItsSize == Spec => []QueuesSound
  <1>1. QInv => QueuesSound
    BY DEF QInv, QueuesSound
  <1> QED BY <1>1, QInvInit, QInvNext, PTL DEF Spec

-----------------------------------------------------------------------------
(* The watermark, where objects land in key order and a partition closes   *)
(* after its objects are ingested.                                         *)

(* What has a row of its own, lies in a closed partition, is being merged  *)
(* or was deleted is ingested in full.                                     *)
RowsComplete ==
  /\ \A k \in Keys : HasRow(k) => Ingested(k)
  /\ \A k \in Keys : {k} \in bucket => k \in landed
  /\ \A k \in landed : {k} \notin bucket \/ Partition[k] \in closed => Ingested(k)
  /\ \A k \in compaction.keys : k \in landed /\ Ingested(k)
  /\ Compacting \/ closed = {}

(* No object lands at or below n any more.                                 *)
Reached(n) == n = 0 \/ \E j \in landed : n <= j

Confirmed(n) == \A k \in landed : k <= n => Ingested(k) \/ k \in quarantined

(* What a sweep read before it saves a watermark is still so when it does. *)
SweepKnows ==
  /\ Reached(cursor) /\ Confirmed(cursor)
  /\ sweep.pc = "listed" =>
       /\ sweep.keys \subseteq landed
       /\ \A n \in sweep.keys, k \in landed :
            cursor < k /\ k <= n => k \in sweep.keys \/ Ingested(k)
  /\ sweep.pc = "checked" => Reached(sweep.next) /\ Confirmed(sweep.next)

WInv == Inv /\ QInv /\ RowsComplete /\ SweepKnows

Complete(k) == HasRow(k) => Ingested(k)

(* An event that has rows keeps one; a row of its own is the last of an    *)
(* object's rows to be missing.                                            *)
LEMMA RowsGrow ==
  ASSUME WInv, ConsumerIngests \/ CompactRepoints \/ \E e \in Events : Merge(e)
  PROVE  \A k \in Keys : (Ingested(k) => Ingested(k)') /\ Complete(k)'
  <1>1. /\ \A k \in Keys : Content[k] \subseteq Events /\ Complete(k)
        /\ \A e \in Events : rows[e].refs # {} => rows[e].last \in rows[e].refs
    BY Constants DEF WInv, QInv, LastKept, RowsComplete, Complete
  <1>2. CASE ConsumerIngests
    <2> DEFINE h == Head(batch)
               new == Content[h] \notin recent
    <2>1. rows' = [e \in Events |-> IF new /\ e \in Content[h]
                                    THEN [refs |-> rows[e].refs \union {{h}}, last |-> {h}]
                                    ELSE rows[e]]
      BY <1>2 DEF ConsumerIngests
    <2> HIDE DEF h, new
    <2>2. \A e \in Events : /\ rows[e].refs \subseteq rows'[e].refs
                            /\ \A o \in rows'[e].refs : o \in rows[e].refs \/ (new /\ o = {h})
      BY <2>1
    <2>3. new => \A e \in Content[h] \cap Events : rows'[e].refs # {}
      BY <2>1
    <2> TAKE k \in Keys
    <2>4. Ingested(k) => Ingested(k)'
      BY <1>1, <2>2 DEF Ingested
    <2>5. ASSUME HasRow(k)' PROVE Ingested(k)'
      <3>1. PICK e \in Events : {k} \in rows'[e].refs
        BY <2>5 DEF HasRow
      <3>2. CASE {k} \in rows[e].refs
        BY <1>1, <2>4, <3>2 DEF Complete, HasRow
      <3>3. CASE new /\ k = h
        BY <1>1, <2>3, <3>3 DEF Ingested
      <3> QED BY <2>2, <3>1, <3>2, <3>3
    <2> QED BY <2>4, <2>5 DEF Complete
  <1>3. CASE CompactRepoints
    <2> DEFINE Repointed(o) == IF o \in Originals(compaction.keys) THEN compaction.keys ELSE o
    <2>1. \A e \in Events : rows'[e].refs = {Repointed(o) : o \in rows[e].refs}
      BY <1>3 DEF CompactRepoints
    <2> TAKE k \in Keys
    <2>2. compaction.keys # {k}
      BY DEF WInv, Inv, MergedIsThere
    <2>3. \A o : Repointed(o) = {k} => o = {k}
      BY <2>2
    <2> HIDE DEF Repointed
    <2>4. Ingested(k) => Ingested(k)'
      BY <1>1, <2>1 DEF Ingested
    <2>5. ASSUME HasRow(k)' PROVE HasRow(k)
      <3>1. PICK e \in Events : {k} \in rows'[e].refs
        BY <2>5 DEF HasRow
      <3>2. PICK o \in rows[e].refs : {k} = Repointed(o)
        BY <2>1, <3>1
      <3>3. {k} \in rows[e].refs
        BY <2>3, <3>2
      <3> QED BY <3>3 DEF HasRow
    <2> QED BY <1>1, <2>4, <2>5 DEF Complete
  <1>4. ASSUME NEW f \in Events, Merge(f)
        PROVE  \A k \in Keys : (Ingested(k) => Ingested(k)') /\ Complete(k)'
    <2>1. \A e \in Events : rows[e] \in [refs : SUBSET Objects, last : Objects \union {{}}]
      BY DEF WInv, QInv, TypeOK
    <2>2. rows' = [rows EXCEPT ![f].refs = {rows[f].last}] /\ rows[f].refs # {}
          /\ rows = [e \in Events |-> rows[e]]
      BY <1>4 DEF Merge, WInv, QInv, TypeOK
    <2>3. \A e \in Events : rows'[e].refs = IF e = f THEN {rows[f].last} ELSE rows[e].refs
      BY <2>1, <2>2
    <2>4. \A e \in Events : /\ rows'[e].refs \subseteq rows[e].refs
                            /\ rows[e].refs # {} => rows'[e].refs # {}
      <3> TAKE e \in Events
      <3>1. CASE e = f
        <4>1. rows[f].last \in rows[f].refs /\ rows'[e].refs = {rows[f].last}
          BY <1>1, <2>2, <2>3, <3>1
        <4> QED BY <3>1, <4>1
      <3>2. CASE e # f
        <4>1. rows'[e].refs = rows[e].refs
          BY <2>3, <3>2
        <4> QED BY <4>1
      <3> QED BY <3>1, <3>2
    <2> TAKE k \in Keys
    <2>5. Ingested(k) => Ingested(k)'
      BY <1>1, <2>4 DEF Ingested
    <2>6. ASSUME HasRow(k)' PROVE HasRow(k)
      <3>1. PICK e \in Events : {k} \in rows'[e].refs
        BY <2>6 DEF HasRow
      <3>2. rows'[e].refs \subseteq rows[e].refs
        BY <2>4, <3>1
      <3>3. {k} \in rows[e].refs
        BY <3>1, <3>2
      <3> QED BY <3>3 DEF HasRow
    <2> QED BY <1>1, <2>5, <2>6 DEF Complete
  <1> QED BY <1>2, <1>3, <1>4

(* A step that leaves the bucket, the watermark and the sweep alone.       *)
LEMMA RowStepKeeps ==
  ASSUME WInv, \A k \in Keys : (Ingested(k) => Ingested(k)') /\ Complete(k)',
         UNCHANGED <<landed, bucket, closed, cursor, sweep, quarantined>>,
         compaction'.keys \subseteq compaction.keys
  PROVE  RowsComplete' /\ SweepKnows'
  <1>1. landed \subseteq Keys /\ compaction.keys \subseteq Keys
    BY DEF WInv, QInv, TypeOK
  <1>2. RowsComplete'
    BY <1>1 DEF WInv, RowsComplete, Complete
  <1>3. Confirmed(cursor)' /\ (sweep.pc = "checked" => Confirmed(sweep.next)')
    BY <1>1 DEF WInv, SweepKnows, Confirmed
  <1> QED BY <1>1, <1>2, <1>3 DEF WInv, SweepKnows, Reached

(* A step that leaves the rows alone.                                      *)
LEMMA SameRows ==
  ASSUME UNCHANGED rows
  PROVE  \A k \in Keys : (Ingested(k) <=> Ingested(k)') /\ (HasRow(k) <=> HasRow(k)')
  BY DEF Ingested, HasRow

LEMMA LandKeeps ==
  ASSUME InOrder, Settled \/ ~Compacting, WInv, NEW k \in Keys, Land(k)
  PROVE  RowsComplete' /\ SweepKnows'
  <1>1. /\ \A j \in landed : j < k
        /\ Settled => Partition[k] \notin closed
        /\ landed' = landed \union {k} /\ bucket' = bucket \union {{k}}
        /\ UNCHANGED <<closed, rows, cursor, sweep, quarantined, compaction>>
    BY DEF Land, clickhouse, sweeping
  <1>2. \A j \in Keys : (Ingested(j) <=> Ingested(j)') /\ (HasRow(j) <=> HasRow(j)')
    BY <1>1, SameRows
  <1>3. landed \subseteq Keys /\ compaction.keys \subseteq Keys /\ cursor \in 0..NumKeys /\ sweep.next \in 0..NumKeys
    BY DEF WInv, QInv, TypeOK
  <1>4. Partition[k] \notin closed
    BY <1>1 DEF WInv, RowsComplete
  <1>5. RowsComplete'
    BY <1>1, <1>2, <1>3, <1>4 DEF WInv, RowsComplete
  <1>0. Keys \subseteq Nat \ {0} /\ k \in Nat \ {0} /\ 0..NumKeys \subseteq Nat /\ landed \subseteq Nat
    BY <1>3, Constants DEF Keys
  <1>6. ASSUME NEW n \in 0..NumKeys, Reached(n)
        PROVE  n < k /\ Reached(n)'
    <2>1. Reached(n)'
      BY <1>1, <1>6 DEF Reached
    <2>2. n < k
      <3>1. n \in Nat
        BY <1>0
      <3> QED BY <1>1, <1>6, <1>0, <3>1 DEF Reached
    <2> QED BY <2>1, <2>2
  <1>7. \A n \in 0..NumKeys : Reached(n) /\ Confirmed(n) => Reached(n)' /\ Confirmed(n)'
    <2> SUFFICES ASSUME NEW n \in 0..NumKeys, Reached(n), Confirmed(n) PROVE Confirmed(n)'
      BY <1>6
    <2>1. n < k
      BY <1>6
    <2>2. ~(k <= n)
      BY <2>1, Constants DEF Keys
    <2> QED BY <1>1, <1>2, <1>3, <2>2 DEF Confirmed
  <1>8. sweep.pc = "listed" => \A n \in sweep.keys : n < k /\ ~(k <= n)
    <2> SUFFICES ASSUME sweep.pc = "listed", NEW n \in sweep.keys PROVE n < k /\ ~(k <= n)
      OBVIOUS
    <2>1. n \in landed
      BY DEF WInv, SweepKnows
    <2>2. n < k
      BY <1>1, <2>1
    <2>3. n \in Nat /\ k \in Nat
      BY <1>0, <2>1
    <2> QED BY <2>2, <2>3
  <1>9. SweepKnows'
    BY <1>1, <1>2, <1>3, <1>7, <1>8 DEF WInv, SweepKnows
  <1> QED BY <1>5, <1>9

LEMMA CloseKeeps ==
  ASSUME Settled \/ ~Compacting, WInv, NEW p, Close(p)
  PROVE  RowsComplete' /\ SweepKnows'
  <1>1. /\ Compacting /\ closed' = closed \union {p}
        /\ \A k \in Keys : Partition[k] = p /\ k \in landed => Ingested(k)
        /\ UNCHANGED <<landed, bucket, rows, cursor, sweep, quarantined, compaction>>
    BY DEF Close, clickhouse, sweeping
  <1>2. \A j \in Keys : (Ingested(j) <=> Ingested(j)') /\ (HasRow(j) <=> HasRow(j)')
    BY <1>1, SameRows
  <1>3. landed \subseteq Keys /\ compaction.keys \subseteq Keys
    BY DEF WInv, QInv, TypeOK
  <1>4. RowsComplete'
    BY <1>1, <1>2, <1>3 DEF WInv, RowsComplete
  <1>5. SweepKnows'
    BY <1>1, <1>2, <1>3 DEF WInv, SweepKnows, Reached, Confirmed
  <1> QED BY <1>4, <1>5

(* Each original up to a listed one is listed too, or was deleted.         *)
LEMMA ListingIsPrefix ==
  ASSUME WInv, NEW n \in Listing, NEW k \in landed, cursor < k, k <= n
  PROVE  k \in Listing \/ Ingested(k)
  <1> DEFINE after == {o \in bucket : After(o, cursor)}
             Ahead(j) == {o \in after : \A i \in o : i < j}
  <1>1. /\ landed \subseteq Keys /\ bucket \subseteq SUBSET Keys /\ n \in Keys /\ k \in Keys
        /\ Cardinality(Ahead(n)) < MaxKeys
    BY DEF WInv, QInv, TypeOK, Objects, Listing
  <1>2. CASE {k} \notin bucket
    BY <1>2 DEF WInv, RowsComplete
  <1>3. CASE {k} \in bucket
    <2>1. {k} \in after
      BY <1>3 DEF After
    <2>2. Ahead(k) \in SUBSET Ahead(n)
      <3>1. \A o \in SUBSET Keys : (\A i \in o : i < k) => \A i \in o : i < n
        BY <1>1, Constants DEF Keys
      <3> QED BY <1>1, <3>1
    <2>3. IsFiniteSet(SUBSET Keys)
      <3>1. IsFiniteSet(Keys)
        BY FS_Interval, Constants DEF Keys
      <3> QED BY <3>1, FS_SUBSET
    <2>4. Ahead(n) \in SUBSET SUBSET Keys
      BY <1>1
    <2> HIDE DEF Ahead
    <2>5. IsFiniteSet(Ahead(n))
      BY <2>3, <2>4, FS_Subset
    <2>6. IsFiniteSet(Ahead(k)) /\ Cardinality(Ahead(k)) <= Cardinality(Ahead(n))
      BY <2>2, <2>5, FS_Subset
    <2>7. Cardinality(Ahead(k)) < MaxKeys
      <3>1. Cardinality(Ahead(k)) \in Nat /\ Cardinality(Ahead(n)) \in Nat
        BY <2>5, <2>6, FS_CardinalityType
      <3> QED BY <1>1, <2>6, <3>1, Constants
    <2> QED BY <1>1, <2>1, <2>7 DEF Listing, Ahead
  <1> QED BY <1>2, <1>3

LEMMA ListsKeeps ==
  ASSUME WInv, SweepLists
  PROVE  RowsComplete' /\ SweepKnows'
  <1>1. /\ sweep' = [pc |-> "listed", keys |-> Listing, next |-> cursor]
        /\ UNCHANGED <<landed, bucket, closed, rows, cursor, quarantined, compaction>>
    BY DEF SweepLists, s3, clickhouse
  <1>2. \A j \in Keys : (Ingested(j) <=> Ingested(j)') /\ (HasRow(j) <=> HasRow(j)')
    BY <1>1, SameRows
  <1>3. landed \subseteq Keys /\ compaction.keys \subseteq Keys
    BY DEF WInv, QInv, TypeOK
  <1>4. RowsComplete'
    BY <1>1, <1>2, <1>3 DEF WInv, RowsComplete
  <1>5. Listing \subseteq landed
    BY DEF Listing, WInv, RowsComplete
  <1>6. \A n \in Listing, k \in landed : cursor < k /\ k <= n => k \in Listing \/ Ingested(k)
    BY ListingIsPrefix
  <1>7. sweep'.pc = "listed" /\ sweep'.keys = Listing
    BY <1>1
  <1>8. Reached(cursor)' /\ Confirmed(cursor)'
    BY <1>1, <1>2, <1>3 DEF WInv, SweepKnows, Reached, Confirmed
  <1> QED BY <1>1, <1>2, <1>3, <1>4, <1>5, <1>6, <1>7, <1>8 DEF SweepKnows

LEMMA ChecksKeeps ==
  ASSUME WInv, SweepChecks
  PROVE  RowsComplete' /\ SweepKnows'
  <1> DEFINE gaps == {k \in sweep.keys : ~HasRow(k)}
             givenUp == {k \in gaps : misses[k] + 1 >= Quarantine}
             blocking == gaps \ givenUp
             passed == {k \in sweep.keys : \A b \in blocking : k < b}
  <1>1. /\ sweep.pc = "listed" /\ quarantined' = quarantined \union givenUp
        /\ \E next \in passed \union {cursor} :
             sweep' = [sweep EXCEPT !.pc = "checked", !.next = next]
        /\ UNCHANGED <<landed, bucket, closed, rows, cursor, compaction>>
    BY DEF SweepChecks, s3, clickhouse
  <1>2. PICK next \in passed \union {cursor} : sweep' = [sweep EXCEPT !.pc = "checked", !.next = next]
    BY <1>1
  <1>3. \A j \in Keys : (Ingested(j) <=> Ingested(j)') /\ (HasRow(j) <=> HasRow(j)')
    BY <1>1, SameRows
  <1>4. /\ landed \subseteq Keys /\ compaction.keys \subseteq Keys /\ sweep.keys \subseteq landed
        /\ cursor \in 0..NumKeys /\ Keys \subseteq Nat
        /\ sweep \in [pc : {"idle", "listed", "checked"}, keys : SUBSET Keys, next : 0..NumKeys]
    <2>1. Keys \subseteq Nat
      BY Constants DEF Keys
    <2>2. sweep.keys \subseteq landed
      BY <1>1 DEF WInv, SweepKnows
    <2> QED BY <2>1, <2>2 DEF WInv, QInv, TypeOK
  <1>5. sweep'.pc = "checked" /\ sweep'.next = next
    BY <1>2, <1>4
  <1>6. RowsComplete'
    BY <1>1, <1>3, <1>4 DEF WInv, RowsComplete
  <1>7. Reached(next)
    BY <1>2, <1>4 DEF WInv, SweepKnows, Reached
  <1>8. ASSUME NEW k \in landed, k <= next
        PROVE  Ingested(k) \/ k \in quarantined'
    <2>1. CASE k <= cursor
      BY <1>1, <2>1 DEF WInv, SweepKnows, Confirmed
    <2>2. CASE ~(k <= cursor) /\ next \in passed
      <3>1. k \in sweep.keys \/ Ingested(k)
        <4>1. cursor < k /\ next \in sweep.keys
          BY <1>4, <2>2
        <4> QED BY <1>1, <1>8, <4>1 DEF WInv, SweepKnows
      <3>2. k \notin blocking
        <4>1. \A b \in blocking : next < b
          BY <2>2
        <4>2. blocking \subseteq Nat /\ k \in Nat /\ next \in Nat
          BY <1>4, <2>2
        <4> HIDE DEF blocking
        <4> QED BY <1>8, <4>1, <4>2
      <3>3. HasRow(k) => Ingested(k)
        BY <1>4 DEF WInv, RowsComplete
      <3> QED BY <1>1, <3>1, <3>2, <3>3
    <2> QED BY <1>2, <1>8, <2>1, <2>2
  <1> HIDE DEF gaps, givenUp, blocking, passed
  <1>9. Confirmed(next)'
    <2> SUFFICES ASSUME NEW k \in landed, k <= next PROVE Ingested(k)' \/ k \in quarantined'
      BY <1>1 DEF Confirmed
    <2> QED BY <1>3, <1>4, <1>8
  <1>10. Reached(cursor)' /\ Confirmed(cursor)'
    BY <1>1, <1>3, <1>4 DEF WInv, SweepKnows, Reached, Confirmed
  <1>11. SweepKnows'
    BY <1>1, <1>5, <1>7, <1>9, <1>10 DEF SweepKnows, Reached, Confirmed
  <1> QED BY <1>6, <1>11

LEMMA SweepEndsKeeps ==
  ASSUME WInv, SweepSaves \/ SweepFails
  PROVE  RowsComplete' /\ SweepKnows'
  <1>1. /\ sweep' = NoSweep
        /\ cursor' = cursor \/ (sweep.pc = "checked" /\ cursor' = sweep.next)
        /\ UNCHANGED <<landed, bucket, closed, rows, quarantined, compaction>>
    BY DEF SweepSaves, SweepFails, s3, clickhouse
  <1>2. \A j \in Keys : (Ingested(j) <=> Ingested(j)') /\ (HasRow(j) <=> HasRow(j)')
    BY <1>1, SameRows
  <1>3. landed \subseteq Keys /\ compaction.keys \subseteq Keys
    BY DEF WInv, QInv, TypeOK
  <1>4. RowsComplete'
    BY <1>1, <1>2, <1>3 DEF WInv, RowsComplete
  <1>5. Reached(cursor') /\ Confirmed(cursor')
    BY <1>1 DEF WInv, SweepKnows
  <1>6. Reached(cursor)' /\ Confirmed(cursor)'
    BY <1>1, <1>2, <1>3, <1>5 DEF Reached, Confirmed
  <1> QED BY <1>1, <1>4, <1>6 DEF SweepKnows, NoSweep

(* A compaction reads, puts and deletes only what is ingested.             *)
LEMMA CompactionKeeps ==
  ASSUME WInv, CompactReads \/ CompactPuts \/ CompactDeletes \/ CompactFails
  PROVE  RowsComplete' /\ SweepKnows'
  <1>1. UNCHANGED <<landed, closed, rows, cursor, sweep, quarantined>>
    BY DEF CompactReads, CompactPuts, CompactDeletes, CompactFails, s3, clickhouse, sweeping
  <1>2. \A j \in Keys : (Ingested(j) <=> Ingested(j)') /\ (HasRow(j) <=> HasRow(j)')
    BY <1>1, SameRows
  <1>3. landed \subseteq Keys /\ compaction.keys \subseteq Keys
    BY DEF WInv, QInv, TypeOK
  <1>4. \A k \in compaction'.keys : k \in landed /\ Ingested(k)
    <2>1. CASE CompactReads
      <3>1. PICK p \in closed :
              LET S == {k \in Keys : Partition[k] = p /\ {k} \in bucket}
              IN  Cardinality(S) >= 2 /\ compaction' = [pc |-> "read", keys |-> S]
        BY <2>1 DEF CompactReads
      <3> QED BY <3>1 DEF WInv, RowsComplete
    <2>2. CASE CompactPuts
      BY <2>2 DEF CompactPuts, WInv, RowsComplete, Inv, MergedIsThere
    <2>3. CASE CompactDeletes \/ CompactFails
      BY <2>3 DEF CompactDeletes, CompactFails, NoCompaction
    <2> QED BY <2>1, <2>2, <2>3
  <1>5. \A k \in Keys : /\ {k} \in bucket' => {k} \in bucket
                        /\ {k} \notin bucket' => {k} \notin bucket \/ k \in compaction.keys
    <2>1. CASE CompactReads
      BY <2>1 DEF CompactReads, s3
    <2>2. CASE CompactPuts
      BY <2>2 DEF CompactPuts, WInv, Inv, MergedIsThere
    <2>3. CASE CompactDeletes \/ CompactFails
      BY <2>3 DEF CompactDeletes, CompactFails, Originals
    <2> QED BY <2>1, <2>2, <2>3
  <1>6. compaction'.keys \subseteq Keys
    BY <1>3, <1>4
  <1>7. RowsComplete'
    BY <1>1, <1>2, <1>3, <1>4, <1>5, <1>6 DEF WInv, RowsComplete
  <1>8. SweepKnows'
    BY <1>1, <1>2, <1>3 DEF WInv, SweepKnows, Reached, Confirmed
  <1> QED BY <1>7, <1>8

LEMMA WInvInit == Init => WInv
  <1> SUFFICES ASSUME Init PROVE RowsComplete /\ SweepKnows
    BY InvInit, QInvInit DEF WInv
  <1> QED BY DEF Init, RowsComplete, SweepKnows, HasRow, NoRow, NoCompaction, NoSweep, Reached, Confirmed

LEMMA WInvNext ==
  ASSUME InOrder, Settled \/ ~Compacting
  PROVE  WInv /\ [Next]_vars => WInv'
  <1> SUFFICES ASSUME WInv, [Next]_vars PROVE RowsComplete' /\ SweepKnows'
    BY InvNext, QInvNext DEF WInv
  <1>1. ASSUME UNCHANGED <<s3, clickhouse, sweep, quarantined>>,
               compaction'.keys \subseteq compaction.keys
        PROVE  RowsComplete' /\ SweepKnows'
    <2>1. \A k \in Keys : (Ingested(k) => Ingested(k)') /\ Complete(k)'
      BY <1>1, SameRows DEF clickhouse, WInv, RowsComplete, Complete
    <2> QED BY <1>1, <2>1, RowStepKeeps DEF s3, clickhouse
  <1>2. CASE ConsumerIngests \/ CompactRepoints \/ \E e \in Events : Merge(e)
    <2>1. UNCHANGED <<landed, bucket, closed, cursor, sweep, quarantined>>
          /\ compaction'.keys = compaction.keys
      BY <1>2 DEF ConsumerIngests, CompactRepoints, Merge, s3, sweeping, WInv, Inv, MergedIsThere
    <2> QED BY <1>2, <2>1, RowsGrow, RowStepKeeps
  <1>3. ASSUME NEW k \in Keys, Notify(k) PROVE RowsComplete' /\ SweepKnows'
    BY <1>1, <1>3 DEF Notify, sweeping
  <1>4. CASE \/ CircuitOpens \/ CircuitCloses \/ Forget \/ ConsumerTakes \/ ConsumerFetches
             \/ ConsumerMisses \/ ConsumerFails
    BY <1>1, <1>4 DEF CircuitOpens, CircuitCloses, Forget, ConsumerTakes, ConsumerFetches,
                      ConsumerMisses, ConsumerFails, RetryHead, sweeping
  <1>5. CASE Crash
    <2>1. /\ sweep' = NoSweep /\ UNCHANGED <<landed, bucket, closed, rows, cursor, quarantined>>
          /\ compaction'.keys = {}
      BY <1>5 DEF Crash, s3, clickhouse, NoCompaction
    <2>2. \A j \in Keys : (Ingested(j) <=> Ingested(j)') /\ (HasRow(j) <=> HasRow(j)')
      BY <2>1, SameRows
    <2>3. landed \subseteq Keys
      BY DEF WInv, QInv, TypeOK
    <2>4. RowsComplete'
      BY <2>1, <2>2, <2>3 DEF WInv, RowsComplete
    <2>5. Reached(cursor)' /\ Confirmed(cursor)'
      BY <2>1, <2>2, <2>3 DEF WInv, SweepKnows, Reached, Confirmed
    <2> QED BY <2>1, <2>4, <2>5 DEF SweepKnows, NoSweep
  <1>6. CASE UNCHANGED vars
    BY <1>1, <1>6 DEF vars, sweeping
  <1>7. ASSUME NEW k \in Keys, Land(k) PROVE RowsComplete' /\ SweepKnows'
    BY <1>7, LandKeeps
  <1>8. ASSUME NEW q, Close(q) PROVE RowsComplete' /\ SweepKnows'
    BY <1>8, CloseKeeps
  <1> QED BY <1>2, <1>3, <1>4, <1>5, <1>6, <1>7, <1>8, ListsKeeps, ChecksKeeps, SweepEndsKeeps,
             CompactionKeeps DEF Next

(* "Every object lexically <= last_key is confirmed (ingested or           *)
(* quarantined)", although rows are read before the watermark is saved,    *)
(* while the consumer and the compaction go on and the process may exit:   *)
(* this needs that objects land in key order, and that a partition that is *)
(* compacted was ingested before.                                          *)
THEOREM WatermarkPassesNothing ==
  ASSUME InOrder, Settled \/ ~Compacting
  PROVE  Spec => []NothingLost
  <1>1. WInv => NothingLost
    BY DEF WInv, Inv, SweepKnows, Confirmed, NothingLost, WatermarkHonest
  <1> QED BY <1>1, WInvInit, WInvNext, PTL DEF Spec
=============================================================================
