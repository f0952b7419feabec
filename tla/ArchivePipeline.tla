-------------------------- MODULE ArchivePipeline --------------------------
(***************************************************************************)
(* How archived objects become log_metadata rows (services/api/src/        *)
(* archive): Vector puts objects into the tenant's bucket and notifies;    *)
(* the notify queue feeds the consumer, which GETs an object and ingests   *)
(* it; the reconciliation sweep lists the bucket from a durable watermark  *)
(* and enqueues what has no row; the compaction sweep merges the objects   *)
(* of a closed partition, repoints the rows and deletes the originals.     *)
(* All of them run in one API process and interleave at every await.       *)
(*                                                                         *)
(* One tenant.  Keys are numbered in lexical order.  An object is the set  *)
(* of the original keys whose events it holds: {k} is original k, a larger *)
(* set is a compacted object, so its name is a function of what it merged. *)
(***************************************************************************)
EXTENDS Naturals, FiniteSets, Sequences, SequencesExt

CONSTANTS
  NumKeys,      (* the original keys are 1..NumKeys                         *)
  Events,
  Content,      (* the events of each original                              *)
  Partition,    (* the partition (service, date, hour) of each original     *)
  MaxQueue,     (* ArchiveNotifyQueue.maxSize                               *)
  BatchSize,    (* items the consumer takes per tick                        *)
  MaxAttempts,  (* consumer attempts per object                             *)
  MaxKeys,      (* objects listed per reconciliation sweep                  *)
  Quarantine,   (* sweeps a gap may stay missing                            *)
  InOrder,      (* objects land in key order                                *)
  Compacting,   (* the compaction sweep is enabled                          *)
  OtherCallers, (* generic and OTLP ingest, or semantic search, are in use  *)
  Paced,        (* the consumer empties the queue between two sweeps, unless
                   the circuit is open                                      *)
  Settled,      (* a partition closes only after its objects are ingested   *)
  MaxNotifies, MaxFaults, MaxCrashes  (* bounds                             *)

Keys == 1..NumKeys

ASSUME ArchiveAssumption ==
  /\ {NumKeys, MaxQueue, BatchSize, MaxAttempts, MaxKeys, Quarantine} \subseteq Nat \ {0}
  /\ Content \in [Keys -> (SUBSET Events) \ {{}}]
  /\ DOMAIN Partition = Keys
  /\ {InOrder, Compacting, OtherCallers, Paced, Settled} \subseteq BOOLEAN
  /\ {MaxNotifies, MaxFaults, MaxCrashes} \subseteq Nat

VARIABLES
  landed,       (* originals Vector has put into the bucket                 *)
  bucket,       (* the objects in the bucket                                *)
  closed,       (* partitions whose hour ended more than the lag ago        *)
  rows,         (* log_metadata: the source_refs of an event's rows        *)
  recent,       (* idempotency cache: batches ingested within the TTL       *)
  queue,        (* ArchiveNotifyQueue: source_refs, oldest first            *)
  attempts,     (* failed attempts per key                                  *)
  circuitOpen,  (* the clusterer circuit                                    *)
  batch,        (* what the consumer has dequeued and not yet processed     *)
  fetched,      (* the head of the batch was fetched                        *)
  cursor,       (* archive_reconcile_cursor, 0 for none                     *)
  sweep,        (* the reconciliation sweep: where it is, what it holds     *)
  misses,       (* missCounts                                               *)
  quarantined,  (* history: keys given up on                                *)
  compaction,   (* the compaction sweep: where it is, the keys it merges    *)
  notifies, faults, crashes

s3       == <<landed, bucket, closed>>
clickhouse == <<rows, cursor>>
consumer == <<attempts, batch, fetched>>
sweeping == <<sweep, misses, quarantined>>
bounds   == <<notifies, faults, crashes>>
vars     == <<s3, clickhouse, recent, queue, circuitOpen, consumer, sweeping,
              compaction, bounds>>

Objects == (SUBSET Keys) \ {{}}
Compacted(o) == Cardinality(o) > 1

NoRow == [refs |-> {}, last |-> {}]
Ingested(k) == \A e \in Content[k] : rows[e].refs # {}

NoSweep == [pc |-> "idle", keys |-> {}, next |-> 0]
NoCompaction == [pc |-> "idle", keys |-> {}]

TypeOK ==
  /\ landed \subseteq Keys /\ bucket \subseteq Objects
  /\ closed \subseteq {Partition[k] : k \in Keys}
  /\ rows \in [Events -> [refs : SUBSET Objects, last : Objects \union {{}}]]
  /\ recent \subseteq SUBSET Events
  /\ queue \in Seq(Keys)
  /\ attempts \in [Keys -> 0..MaxAttempts-1]
  /\ circuitOpen \in BOOLEAN
  /\ batch \in Seq(Keys) /\ Len(batch) <= BatchSize /\ fetched \in BOOLEAN
  /\ cursor \in 0..NumKeys
  /\ sweep \in [pc : {"idle", "listed", "checked"}, keys : SUBSET Keys, next : 0..NumKeys]
  /\ misses \in [Keys -> 0..Quarantine-1]
  /\ quarantined \subseteq Keys
  /\ compaction \in [pc : {"idle", "read", "put", "repointed"}, keys : SUBSET Keys]
  /\ notifies \in 0..MaxNotifies /\ faults \in 0..MaxFaults /\ crashes \in 0..MaxCrashes

Init ==
  /\ landed = {} /\ bucket = {} /\ closed = {}
  /\ rows = [e \in Events |-> NoRow]
  /\ recent = {}
  /\ queue = <<>>
  /\ attempts = [k \in Keys |-> 0]
  /\ circuitOpen = FALSE
  /\ batch = <<>> /\ fetched = FALSE
  /\ cursor = 0
  /\ sweep = NoSweep
  /\ misses = [k \in Keys |-> 0]
  /\ quarantined = {}
  /\ compaction = NoCompaction
  /\ notifies = 0 /\ faults = 0 /\ crashes = 0

-----------------------------------------------------------------------------
(* Vector, S3 and the clock *)

Land(k) ==
  /\ k \notin landed
  /\ InOrder => \A j \in landed : j < k
  /\ Settled => Partition[k] \notin closed
  /\ landed' = landed \union {k}
  /\ bucket' = bucket \union {{k}}
  /\ UNCHANGED <<closed, clickhouse, recent, queue, circuitOpen, consumer, sweeping,
                 compaction, bounds>>

(* The hour of a partition ended longer ago than the safety lag. *)
Close(p) ==
  /\ Compacting
  /\ p \notin closed
  /\ Settled => \A k \in Keys : Partition[k] = p /\ k \in landed =>
                  Ingested(k) /\ k \notin ToSet(queue) \union ToSet(batch)
  /\ closed' = closed \union {p}
  /\ UNCHANGED <<landed, bucket, clickhouse, recent, queue, circuitOpen, consumer,
                 sweeping, compaction, bounds>>

(* A call to the clusterer fails once too often, and the circuit opens:    *)
(* the call of the consumer, which takes the fallback for an answer, or of *)
(* another caller.                                                         *)
CircuitOpens ==
  /\ ~circuitOpen
  /\ fetched \/ OtherCallers
  /\ faults < MaxFaults
  /\ faults' = faults + 1
  /\ circuitOpen' = TRUE
  /\ UNCHANGED <<s3, clickhouse, recent, queue, consumer, sweeping, compaction,
                 notifies, crashes>>

(* A call goes out as a probe and is answered.  While the circuit is open  *)
(* the consumer makes none.                                                *)
CircuitCloses ==
  /\ circuitOpen
  /\ fetched \/ OtherCallers
  /\ circuitOpen' = FALSE
  /\ UNCHANGED <<s3, clickhouse, recent, queue, consumer, sweeping, compaction, bounds>>

-----------------------------------------------------------------------------
(* notify-queue.ts *)

(* Mutant: the size is not looked at. *)
EnqueueUnbounded(q, k) == IF k \in ToSet(q) THEN q ELSE Append(q, k)

(* Pending already, or full: nothing. *)
Enqueue(q, k) == IF k \in ToSet(q) \/ Len(q) >= MaxQueue THEN q ELSE Append(q, k)

(* POST /v1/ingest/notify; a notification may be lost or sent twice. *)
Notify(k) ==
  /\ k \in landed
  /\ Settled => Partition[k] \notin closed
  /\ notifies < MaxNotifies
  /\ notifies' = notifies + 1
  /\ queue' = Enqueue(queue, k)
  /\ UNCHANGED <<s3, clickhouse, recent, circuitOpen, consumer, sweeping, compaction,
                 faults, crashes>>

-----------------------------------------------------------------------------
(* notify-consumer.ts *)

ConsumerTakes ==
  /\ batch = <<>> /\ queue # <<>>
  /\ ~circuitOpen
  /\ LET n == IF Len(queue) < BatchSize THEN Len(queue) ELSE BatchSize
     IN  /\ batch' = SubSeq(queue, 1, n)
         /\ queue' = SubSeq(queue, n + 1, Len(queue))
  /\ UNCHANGED <<s3, clickhouse, recent, circuitOpen, attempts, fetched, sweeping,
                 compaction, bounds>>

ConsumerFetches ==
  /\ batch # <<>> /\ ~fetched
  /\ {Head(batch)} \in bucket
  /\ fetched' = TRUE
  /\ UNCHANGED <<s3, clickhouse, recent, queue, circuitOpen, attempts, batch, sweeping,
                 compaction, bounds>>

NextItem == batch' = Tail(batch) /\ fetched' = FALSE

(* ingestBatch: a batch seen within the TTL is a replay and inserts        *)
(* nothing; else each event gets a row with this source_ref.               *)
ConsumerIngests ==
  /\ batch # <<>> /\ fetched
  /\ LET k == Head(batch)
         new == Content[k] \notin recent
     IN  /\ rows' = [e \in Events |->
                       IF new /\ e \in Content[k]
                       THEN [refs |-> rows[e].refs \union {{k}}, last |-> {k}]
                       ELSE rows[e]]
         /\ recent' = recent \union {Content[k]}
         /\ attempts' = [attempts EXCEPT ![k] = 0]
  /\ NextItem
  /\ UNCHANGED <<s3, cursor, queue, circuitOpen, sweeping, compaction, bounds>>

(* Again on a later tick, MaxAttempts times in all. *)
RetryHead ==
  LET k == Head(batch)
      again == attempts[k] + 1 < MaxAttempts
  IN  /\ attempts' = [attempts EXCEPT ![k] = IF again THEN @ + 1 ELSE 0]
      /\ queue' = IF again THEN Enqueue(queue, k) ELSE queue
      /\ NextItem
      /\ UNCHANGED <<s3, clickhouse, recent, circuitOpen, sweeping, compaction>>

(* The object is gone. *)
ConsumerMisses ==
  /\ batch # <<>> /\ ~fetched
  /\ {Head(batch)} \notin bucket
  /\ RetryHead
  /\ UNCHANGED bounds

(* S3 or ClickHouse fails. *)
ConsumerFails ==
  /\ batch # <<>>
  /\ faults < MaxFaults
  /\ faults' = faults + 1
  /\ RetryHead
  /\ UNCHANGED <<notifies, crashes>>

(* The idempotency cache forgets a batch after its TTL. *)
Forget ==
  /\ \E b \in recent : recent' = recent \ {b}
  /\ UNCHANGED <<s3, clickhouse, queue, circuitOpen, consumer, sweeping, compaction, bounds>>

(* ReplacingMergeTree merges the rows of an event: the last one stays. *)
Merge(e) ==
  /\ \E o \in rows[e].refs : o # rows[e].last
  /\ rows' = [rows EXCEPT ![e].refs = {rows[e].last}]
  /\ UNCHANGED <<s3, cursor, recent, queue, circuitOpen, consumer, sweeping, compaction,
                 bounds>>

-----------------------------------------------------------------------------
(* reconcile-sweep.ts *)

(* Whether object o comes after original k in the listing: a compacted     *)
(* object follows the originals it was made of.                            *)
After(o, k) == \E j \in o : j > k \/ (j = k /\ Compacted(o))

(* The originals among the first MaxKeys objects after the watermark. *)
Listing ==
  LET after == {o \in bucket : After(o, cursor)}
  IN  {k \in Keys : /\ {k} \in after
                    /\ Cardinality({o \in after : \A j \in o : j < k}) < MaxKeys}

(* List from the watermark; compacted objects are skipped. *)
SweepLists ==
  /\ sweep.pc = "idle"
  /\ Paced => circuitOpen \/ queue \o batch = <<>>
  /\ Listing # {}
  /\ sweep' = [pc |-> "listed", keys |-> Listing, next |-> cursor]
  /\ UNCHANGED <<s3, clickhouse, recent, queue, circuitOpen, consumer, misses,
                 quarantined, compaction, bounds>>

HasRow(k) == \E e \in Events : {k} \in rows[e].refs

(* What q is after enqueue() of each key of S in order: those that are not *)
(* pending, as long as there is room.                                      *)
EnqueueAll(q, S) ==
  {r \in UNION {[1..n -> Keys] : n \in 0..MaxQueue} :
     LET fresh == S \ ToSet(q)
         new == Len(q) + 1 .. Len(r)
         added == {r[i] : i \in new}
     IN  /\ Len(r) >= Len(q) /\ \A i \in DOMAIN q : r[i] = q[i]
         /\ \A i, j \in new : i < j => r[i] < r[j]
         /\ added \subseteq fresh
         /\ \A k \in fresh \ added : Len(r) = MaxQueue /\ \A j \in added : j < k}

(* Mutant: the watermark moves to the last key listed, whatever is missing. *)
SweepChecksPassing ==
  /\ sweep.pc = "listed"
  /\ queue' \in EnqueueAll(queue, {k \in sweep.keys : ~HasRow(k)})
  /\ \E last \in sweep.keys :
       /\ \A k \in sweep.keys : k <= last
       /\ sweep' = [sweep EXCEPT !.pc = "checked", !.next = last]
  /\ UNCHANGED <<s3, clickhouse, recent, circuitOpen, consumer, misses, quarantined,
                 compaction, bounds>>

(* The keys without a row are enqueued; the watermark may move to the key  *)
(* before the first of them that is not given up on.                       *)
SweepChecks ==
  /\ sweep.pc = "listed"
  /\ LET gaps == {k \in sweep.keys : ~HasRow(k)}
         givenUp == {k \in gaps : misses[k] + 1 >= Quarantine}
         blocking == gaps \ givenUp
         passed == {k \in sweep.keys : \A b \in blocking : k < b}
     IN  /\ queue' \in EnqueueAll(queue, gaps)
         /\ misses' = [k \in Keys |-> IF k \in blocking THEN misses[k] + 1
                                      ELSE IF k \in sweep.keys THEN 0 ELSE misses[k]]
         /\ quarantined' = quarantined \union givenUp
         /\ \E next \in passed \union {cursor} :
              /\ \A k \in passed \union {cursor} : k <= next
              /\ sweep' = [sweep EXCEPT !.pc = "checked", !.next = next]
  /\ UNCHANGED <<s3, clickhouse, recent, circuitOpen, consumer, compaction, bounds>>

SweepSaves ==
  /\ sweep.pc = "checked"
  /\ cursor' = sweep.next
  /\ sweep' = NoSweep
  /\ UNCHANGED <<s3, rows, recent, queue, circuitOpen, consumer, misses, quarantined,
                 compaction, bounds>>

SweepFails ==
  /\ sweep.pc # "idle"
  /\ faults < MaxFaults
  /\ faults' = faults + 1
  /\ sweep' = NoSweep
  /\ UNCHANGED <<s3, clickhouse, recent, queue, circuitOpen, consumer, misses,
                 quarantined, compaction, notifies, crashes>>

-----------------------------------------------------------------------------
(* compaction-sweep.ts *)

Originals(S) == {{k} : k \in S}

(* Two or more originals of a closed partition, all read. *)
CompactReads ==
  /\ compaction.pc = "idle"
  /\ \E p \in closed :
       LET S == {k \in Keys : Partition[k] = p /\ {k} \in bucket}
       IN  /\ Cardinality(S) >= 2
           /\ compaction' = [pc |-> "read", keys |-> S]
  /\ UNCHANGED <<s3, clickhouse, recent, queue, circuitOpen, consumer, sweeping, bounds>>

(* Mutant: the originals go before the compacted object is there. *)
CompactPutsLast ==
  /\ compaction.pc = "read"
  /\ bucket' = bucket \ Originals(compaction.keys)
  /\ compaction' = [compaction EXCEPT !.pc = "put"]
  /\ UNCHANGED <<landed, closed, clickhouse, recent, queue, circuitOpen, consumer,
                 sweeping, bounds>>

CompactPuts ==
  /\ compaction.pc = "read"
  /\ bucket' = bucket \union {compaction.keys}
  /\ compaction' = [compaction EXCEPT !.pc = "put"]
  /\ UNCHANGED <<landed, closed, clickhouse, recent, queue, circuitOpen, consumer,
                 sweeping, bounds>>

(* repointSourceRefs, a synchronous mutation. *)
CompactRepoints ==
  /\ compaction.pc = "put"
  /\ LET Repointed(o) == IF o \in Originals(compaction.keys) THEN compaction.keys ELSE o
     IN  rows' = [e \in Events |-> [refs |-> {Repointed(o) : o \in rows[e].refs},
                                    last |-> Repointed(rows[e].last)]]
  /\ compaction' = [compaction EXCEPT !.pc = "repointed"]
  /\ UNCHANGED <<s3, cursor, recent, queue, circuitOpen, consumer, sweeping, bounds>>

CompactDeletes ==
  /\ compaction.pc = "repointed"
  /\ bucket' = bucket \ Originals(compaction.keys)
  /\ compaction' = NoCompaction
  /\ UNCHANGED <<landed, closed, clickhouse, recent, queue, circuitOpen, consumer,
                 sweeping, bounds>>

(* A call fails, the deletion perhaps half done; the next sweep retries. *)
CompactFails ==
  /\ compaction.pc # "idle"
  /\ faults < MaxFaults
  /\ faults' = faults + 1
  /\ \E D \in SUBSET compaction.keys :
       /\ compaction.pc # "repointed" => D = {}
       /\ bucket' = bucket \ Originals(D)
  /\ compaction' = NoCompaction
  /\ UNCHANGED <<landed, closed, clickhouse, recent, queue, circuitOpen, consumer,
                 sweeping, notifies, crashes>>

-----------------------------------------------------------------------------
(* The API process exits: all that is not in S3 or ClickHouse is lost. *)
Crash ==
  /\ crashes < MaxCrashes
  /\ crashes' = crashes + 1
  /\ recent' = {}
  /\ queue' = <<>>
  /\ circuitOpen' = FALSE
  /\ attempts' = [k \in Keys |-> 0]
  /\ batch' = <<>> /\ fetched' = FALSE
  /\ sweep' = NoSweep
  /\ misses' = [k \in Keys |-> 0]
  /\ compaction' = NoCompaction
  /\ UNCHANGED <<s3, clickhouse, quarantined, notifies, faults>>

Next ==
  \/ \E k \in Keys : Land(k) \/ Notify(k)
  \/ \E p \in {Partition[k] : k \in Keys} : Close(p)
  \/ \E e \in Events : Merge(e)
  \/ CircuitOpens \/ CircuitCloses
  \/ ConsumerTakes \/ ConsumerFetches \/ ConsumerIngests \/ ConsumerMisses
  \/ ConsumerFails \/ Forget
  \/ SweepLists \/ SweepChecks \/ SweepSaves \/ SweepFails
  \/ CompactReads \/ CompactPuts \/ CompactRepoints \/ CompactDeletes \/ CompactFails
  \/ Crash

Spec == Init /\ [][Next]_vars

(* The timers of the consumer and of the sweep tick, awaits return, and    *)
(* the clusterer comes back and answers the probes of other callers.       *)
Fairness ==
  /\ WF_vars(CircuitCloses)
  /\ WF_vars(ConsumerTakes) /\ WF_vars(ConsumerFetches)
  /\ WF_vars(ConsumerIngests) /\ WF_vars(ConsumerMisses)
  /\ WF_vars(SweepLists) /\ WF_vars(SweepChecks) /\ WF_vars(SweepSaves)

FairSpec == Spec /\ Fairness

-----------------------------------------------------------------------------
(* Compaction is "ordered so nothing is lost": whatever fails or is        *)
(* killed between its steps, the events of a landed object are in an       *)
(* object of the bucket.                                                   *)
BytesKept == \A k \in landed : \E o \in bucket : k \in o

(* "Every object lexically <= last_key is confirmed (ingested or           *)
(* quarantined)": the watermark passes no object that still needs a row.   *)
WatermarkHonest ==
  \A k \in landed : k <= cursor => Ingested(k) \/ k \in quarantined

(* The queue holds a source_ref once and keeps to its size, whoever of the *)
(* route, the consumer's retry and the sweep puts it there.                *)
QueueSound == Len(queue) <= MaxQueue /\ IsInjective(queue)

(* The sweep backfills what the queue and the consumer drop: every landed  *)
(* object gets its rows or is quarantined, though notifications are lost,  *)
(* the queue overflows, calls fail and the process restarts.               *)
LandedIsIngested == \A k \in Keys : k \in landed ~> Ingested(k) \/ k \in quarantined

(* With the circuit open items stay queued, and "reconciliation backfills  *)
(* if the queue overflows or the process restarts during a long outage":   *)
(* where objects can be read and parsed, each landed one is ingested.      *)
OutageBackfilled == \A k \in Keys : k \in landed ~> Ingested(k)

(* The events of a compacted object are "already represented by repointed  *)
(* rows": an original is deleted only after it was ingested.               *)
DeletedIsIngested == \A k \in landed : {k} \notin bucket => Ingested(k)

(* Drill-down GETs the object a row refers to: it is in the bucket. *)
RefsResolve == \A e \in Events : rows[e] # NoRow => rows[e].last \in bucket

(* Nothing archived is lost: the watermark passes no object that needs a   *)
(* row, and its events stay in an object of the bucket.                    *)
NothingLost == WatermarkHonest /\ BytesKept

(* The notify queue and what surrounds it: bounded, without duplicates,    *)
(* and every counter within its limit.                                     *)
QueuesSound == TypeOK /\ QueueSound
=============================================================================
