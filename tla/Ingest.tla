------------------------------- MODULE Ingest -------------------------------
(***************************************************************************)
(* The synchronous ingest path and the recovery of unclustered rows        *)
(* (services/api/src/pipeline and recovery): a request clusters a batch    *)
(* through a circuit breaker that falls back to template '0', inserts the  *)
(* rows and remembers the result; the recovery sweep pages through the     *)
(* rows with template '0', clusters them again, inserts new rows and       *)
(* deletes the old ones.  The client sends a batch at least once.          *)
(*                                                                         *)
(* One tenant.  A row stands for the rows of a batch: they are clustered   *)
(* by one call and inserted by one INSERT.  A stable row carries the       *)
(* event_id of the source, any other one an event_id of its own.           *)
(***************************************************************************)
EXTENDS Naturals, FiniteSets

CONSTANTS
  Batches,
  Stable,           (* batches whose events carry an event_id               *)
  Dropped,          (* batches with no event left after parsing and levels  *)
  Requests,         (* concurrent requests                                  *)
  CircuitThreshold, (* consecutive failures that open the circuit           *)
  ProbeInterval,    (* one call in so many goes out while it is open        *)
  PageSize,         (* rows per recovery page                               *)
  SweepMaxRows,     (* rows recovered per sweep                             *)
  DeleteThreshold,  (* TENANT_DELETE_FAILURE_THRESHOLD                      *)
  MaxSends, MaxFaults, MaxCrashes  (* bounds                                *)

ASSUME IngestAssumption ==
  /\ Batches # {} /\ Stable \subseteq Batches /\ Dropped \subseteq Batches
  /\ {CircuitThreshold, PageSize, SweepMaxRows, DeleteThreshold} \subseteq Nat \ {0}
  /\ ProbeInterval \in Nat \ {0, 1}
  /\ {MaxSends, MaxFaults, MaxCrashes} \subseteq Nat

VARIABLES
  up,             (* the clusterer answers                                  *)
  mayDelete,      (* the ClickHouse user may DELETE; never changes          *)
  failures,       (* consecutive failures, counted up to the threshold      *)
  circuitOpen,
  callsSinceOpen, (* modulo ProbeInterval                                   *)
  rows,           (* log_metadata                                           *)
  nextId,         (* the next row's id                                      *)
  cache,          (* idempotency cache: batches whose result is remembered  *)
  request,        (* where each request is                                  *)
  acked,          (* history: batches a client was told are accepted        *)
  sweep,          (* the recovery sweep: where it is, what it holds         *)
  deleteFailures, (* consecutive DELETE failures                            *)
  skipped,        (* recovery is disabled for the tenant                    *)
  sends, faults, crashes

circuit  == <<failures, circuitOpen, callsSinceOpen>>
table    == <<rows, nextId>>
client   == <<cache, request, acked>>
recovery == <<sweep, deleteFailures, skipped>>
bounds   == <<sends, faults, crashes>>
outside  == <<up, mayDelete>>
vars     == <<outside, circuit, table, client, recovery, bounds>>

Rows == [id : Nat \ {0}, batch : Batches, stable : BOOLEAN, clustered : BOOLEAN,
         from : Nat]

IdleRequest == [pc |-> "idle", batch |-> CHOOSE b \in Batches : TRUE, clustered |-> FALSE]
NoSweep == [pc |-> "idle", cursor |-> 0, page |-> {}, recovered |-> 0]

TypeOK ==
  /\ up \in BOOLEAN /\ mayDelete \in BOOLEAN
  /\ failures \in 0..CircuitThreshold /\ circuitOpen \in BOOLEAN
  /\ callsSinceOpen \in 0..ProbeInterval-1
  /\ rows \subseteq Rows /\ nextId \in Nat \ {0}
  /\ cache \subseteq Batches /\ acked \subseteq Batches
  /\ request \in [Requests -> [pc : {"idle", "clustering", "inserting", "inserted"},
                               batch : Batches, clustered : BOOLEAN]]
  /\ sweep \in [pc : {"idle", "paging", "calling", "clustering", "clustered", "inserted"},
                cursor : Nat, page : SUBSET Rows, recovered : Nat]
  /\ deleteFailures \in 0..DeleteThreshold-1 /\ skipped \in BOOLEAN
  /\ sends \in 0..MaxSends /\ faults \in 0..MaxFaults /\ crashes \in 0..MaxCrashes

Init ==
  /\ up = TRUE /\ mayDelete \in BOOLEAN
  /\ failures = 0 /\ circuitOpen = FALSE /\ callsSinceOpen = 0
  /\ rows = {} /\ nextId = 1
  /\ cache = {} /\ acked = {}
  /\ request = [r \in Requests |-> IdleRequest]
  /\ sweep = NoSweep
  /\ deleteFailures = 0 /\ skipped = FALSE
  /\ sends = 0 /\ faults = 0 /\ crashes = 0

-----------------------------------------------------------------------------
(* cluster-client.ts *)

(* While the circuit is open every ProbeInterval-th call goes out. *)
TurnedAway == circuitOpen /\ (callsSinceOpen + 1) % ProbeInterval # 0

(* Mutant: calls that are turned away are not counted. *)
CountNothing == callsSinceOpen' = callsSinceOpen

CountCall ==
  callsSinceOpen' = IF circuitOpen THEN (callsSinceOpen + 1) % ProbeInterval
                    ELSE callsSinceOpen

OnSuccess == failures' = 0 /\ circuitOpen' = FALSE /\ callsSinceOpen' = 0

OnFailure ==
  LET opens == ~circuitOpen /\ failures + 1 >= CircuitThreshold
  IN  /\ failures' = IF failures < CircuitThreshold THEN failures + 1 ELSE failures
      /\ circuitOpen' = (circuitOpen \/ opens)
      /\ callsSinceOpen' = IF opens THEN 0 ELSE callsSinceOpen

CallReturns == IF up THEN OnSuccess ELSE OnFailure

(* A call of another tenant's request or of a semantic search. *)
OtherCall ==
  /\ IF TurnedAway THEN CountCall /\ UNCHANGED <<failures, circuitOpen>> ELSE CallReturns
  /\ UNCHANGED <<outside, table, client, recovery, bounds>>

GoesDown ==
  /\ up /\ faults < MaxFaults
  /\ up' = FALSE /\ faults' = faults + 1
  /\ UNCHANGED <<mayDelete, circuit, table, client, recovery, sends, crashes>>

ComesUp ==
  /\ ~up
  /\ up' = TRUE
  /\ UNCHANGED <<mayDelete, circuit, table, client, recovery, bounds>>

-----------------------------------------------------------------------------
(* ingest.ts and idempotency.ts *)

(* A batch comes in: nothing is left of it, its result is remembered, or   *)
(* it goes to the clusterer, which may be spared the call.                 *)
Send(r, b) ==
  /\ request[r].pc = "idle"
  /\ sends < MaxSends
  /\ sends' = sends + 1
  /\ IF b \in cache \/ b \in Dropped
     THEN /\ acked' = acked \union {b}
          /\ UNCHANGED <<request, callsSinceOpen>>
     ELSE /\ request' = [request EXCEPT ![r] =
                           [pc |-> IF TurnedAway THEN "inserting" ELSE "clustering",
                            batch |-> b, clustered |-> FALSE]]
          /\ CountCall
          /\ UNCHANGED acked
  /\ UNCHANGED <<outside, failures, circuitOpen, table, cache, recovery, faults, crashes>>

ClusterReturns(r) ==
  /\ request[r].pc = "clustering"
  /\ CallReturns
  /\ request' = [request EXCEPT ![r].pc = "inserting", ![r].clustered = up]
  /\ UNCHANGED <<outside, table, cache, acked, recovery, bounds>>

InsertReturns(r) ==
  /\ request[r].pc = "inserting"
  /\ LET b == request[r].batch
     IN  rows' = rows \union {[id |-> nextId, batch |-> b, stable |-> b \in Stable,
                               clustered |-> request[r].clustered, from |-> 0]}
  /\ nextId' = nextId + 1
  /\ request' = [request EXCEPT ![r].pc = "inserted"]
  /\ UNCHANGED <<outside, circuit, cache, acked, recovery, bounds>>

(* 503 with Retry-After: nothing is remembered. *)
InsertFails(r) ==
  /\ request[r].pc = "inserting"
  /\ faults < MaxFaults
  /\ faults' = faults + 1
  /\ request' = [request EXCEPT ![r] = IdleRequest]
  /\ UNCHANGED <<outside, circuit, table, cache, acked, recovery, sends, crashes>>

(* After the tail and the tags: a batch with a key is remembered. *)
Answer(r) ==
  /\ request[r].pc = "inserted"
  /\ LET b == request[r].batch
     IN  /\ cache' = cache \union ({b} \intersect Stable)
         /\ acked' = acked \union {b}
  /\ request' = [request EXCEPT ![r] = IdleRequest]
  /\ UNCHANGED <<outside, circuit, table, recovery, bounds>>

(* The TTL of a remembered result ends. *)
Forget(b) ==
  /\ b \in cache
  /\ cache' = cache \ {b}
  /\ UNCHANGED <<outside, circuit, table, request, acked, recovery, bounds>>

(* ReplacingMergeTree: of two rows with one event_id the newer one stays. *)
Merge ==
  /\ \E s, t \in rows :
       /\ s.batch = t.batch /\ s.stable /\ t.stable /\ s.id < t.id
       /\ rows' = rows \ {s}
  /\ UNCHANGED <<outside, circuit, nextId, client, recovery, bounds>>

-----------------------------------------------------------------------------
(* recovery/reconcile.ts *)

(* The timer, or the start of the process; the health check answers. *)
SweepStarts ==
  /\ sweep.pc = "idle"
  /\ ~circuitOpen /\ up
  /\ sweep' = [NoSweep EXCEPT !.pc = "paging"]
  /\ UNCHANGED <<outside, circuit, table, client, deleteFailures, skipped, bounds>>

Unclustered(c) == {s \in rows : ~s.clustered /\ s.id > c}

Page ==
  LET all == Unclustered(sweep.cursor)
      left == SweepMaxRows - sweep.recovered
      limit == IF left < PageSize THEN left ELSE PageSize
  IN  {s \in all : Cardinality({t \in all : t.id < s.id}) < limit}

(* On to the rows after the last one of the page, n of which are recovered. *)
Advance(n) ==
  \E last \in sweep.page :
    /\ \A s \in sweep.page : s.id <= last.id
    /\ sweep' = [pc |-> "paging", cursor |-> last.id, page |-> {},
                 recovered |-> sweep.recovered + n]

(* The next page, or the end of the sweep. *)
SweepPages ==
  /\ sweep.pc = "paging"
  /\ sweep' = IF sweep.recovered >= SweepMaxRows \/ Page = {} THEN NoSweep
              ELSE [sweep EXCEPT !.pc = "calling", !.page = Page]
  /\ UNCHANGED <<outside, circuit, table, client, deleteFailures, skipped, bounds>>

(* The tenant is skipped, or its rows go to the clusterer. *)
SweepCalls ==
  /\ sweep.pc = "calling"
  /\ IF skipped THEN UNCHANGED callsSinceOpen ELSE CountCall
  /\ IF skipped \/ TurnedAway THEN Advance(0)
     ELSE sweep' = [sweep EXCEPT !.pc = "clustering"]
  /\ UNCHANGED <<outside, failures, circuitOpen, table, client, deleteFailures, skipped, bounds>>

SweepClusters ==
  /\ sweep.pc = "clustering"
  /\ CallReturns
  /\ IF up THEN sweep' = [sweep EXCEPT !.pc = "clustered"] ELSE Advance(0)
  /\ UNCHANGED <<outside, table, client, deleteFailures, skipped, bounds>>

(* The answer took too long: the sweep ends. *)
SweepBackpressure ==
  /\ sweep.pc = "clustering"
  /\ faults < MaxFaults
  /\ faults' = faults + 1
  /\ CallReturns
  /\ sweep' = NoSweep
  /\ UNCHANGED <<outside, table, client, deleteFailures, skipped, sends, crashes>>

(* A new row for each row of the page, without its event_id. *)
Reclustered ==
  {[id |-> nextId + Cardinality({t \in sweep.page : t.id < s.id}), batch |-> s.batch,
    stable |-> FALSE, clustered |-> TRUE, from |-> s.id] : s \in sweep.page}

(* Mutant: the old rows are deleted first. *)
DeletesFirst ==
  /\ sweep.pc = "clustered"
  /\ rows' = {s \in rows : s.id \notin {t.id : t \in sweep.page}}
  /\ sweep' = [sweep EXCEPT !.pc = "inserted"]
  /\ UNCHANGED <<outside, circuit, nextId, client, deleteFailures, skipped, bounds>>

SweepInserts ==
  /\ sweep.pc = "clustered"
  /\ rows' = rows \union Reclustered
  /\ nextId' = nextId + Cardinality(sweep.page)
  /\ sweep' = [sweep EXCEPT !.pc = "inserted"]
  /\ UNCHANGED <<outside, circuit, client, deleteFailures, skipped, bounds>>

SweepInsertFails ==
  /\ sweep.pc = "clustered"
  /\ faults < MaxFaults
  /\ faults' = faults + 1
  /\ Advance(0)
  /\ UNCHANGED <<outside, circuit, table, client, deleteFailures, skipped, sends, crashes>>

SweepDeletes ==
  /\ sweep.pc = "inserted"
  /\ mayDelete
  /\ rows' = {s \in rows : s.id \notin {t.id : t \in sweep.page}}
  /\ deleteFailures' = 0
  /\ Advance(Cardinality(sweep.page))
  /\ UNCHANGED <<outside, circuit, nextId, client, skipped, bounds>>

(* Mutant: the failures are counted and recovery goes on. *)
DeleteFailsForever ==
  /\ sweep.pc = "inserted"
  /\ mayDelete => faults < MaxFaults
  /\ faults' = IF mayDelete THEN faults + 1 ELSE faults
  /\ deleteFailures' = IF deleteFailures + 1 >= DeleteThreshold THEN 0 ELSE deleteFailures + 1
  /\ Advance(Cardinality(sweep.page))
  /\ UNCHANGED <<outside, circuit, table, client, skipped, sends, crashes>>

(* After DeleteThreshold failures in a row the tenant is skipped. *)
SweepDeleteFails ==
  /\ sweep.pc = "inserted"
  /\ mayDelete => faults < MaxFaults
  /\ faults' = IF mayDelete THEN faults + 1 ELSE faults
  /\ LET last == deleteFailures + 1 >= DeleteThreshold
     IN  /\ deleteFailures' = IF last THEN 0 ELSE deleteFailures + 1
         /\ skipped' = (skipped \/ last)
  /\ Advance(Cardinality(sweep.page))
  /\ UNCHANGED <<outside, circuit, table, client, sends, crashes>>

-----------------------------------------------------------------------------
(* The API process exits: the rows stay. *)
Crash ==
  /\ crashes < MaxCrashes
  /\ crashes' = crashes + 1
  /\ failures' = 0 /\ circuitOpen' = FALSE /\ callsSinceOpen' = 0
  /\ cache' = {}
  /\ request' = [r \in Requests |-> IdleRequest]
  /\ sweep' = NoSweep
  /\ deleteFailures' = 0 /\ skipped' = FALSE
  /\ UNCHANGED <<outside, table, acked, sends, faults>>

Next ==
  \/ OtherCall \/ GoesDown \/ ComesUp
  \/ \E r \in Requests :
       \/ \E b \in Batches : Send(r, b)
       \/ ClusterReturns(r) \/ InsertReturns(r) \/ InsertFails(r) \/ Answer(r)
  \/ \E b \in Batches : Forget(b)
  \/ Merge
  \/ SweepStarts \/ SweepPages \/ SweepCalls \/ SweepClusters \/ SweepBackpressure
  \/ SweepInserts \/ SweepInsertFails \/ SweepDeletes \/ SweepDeleteFails
  \/ Crash

Spec == Init /\ [][Next]_vars

(* The sweep's timer ticks, awaits return, the clusterer comes back, and   *)
(* some caller keeps asking for it, so that the circuit is probed.         *)
Fairness ==
  /\ WF_vars(ComesUp) /\ WF_vars(OtherCall)
  /\ \A r \in Requests :
       WF_vars(ClusterReturns(r)) /\ WF_vars(InsertReturns(r)) /\ WF_vars(Answer(r))
  /\ WF_vars(SweepStarts) /\ WF_vars(SweepPages) /\ WF_vars(SweepCalls) /\ WF_vars(SweepClusters)
  /\ WF_vars(SweepInserts) /\ WF_vars(SweepDeletes \/ SweepDeleteFails)

FairSpec == Spec /\ Fairness

-----------------------------------------------------------------------------
(* What a client was told is accepted has a row, whatever request of the   *)
(* same batch fails, whatever merges, and at every step of a sweep that    *)
(* re-inserts and deletes: "INSERT-first then DELETE ordering to prevent   *)
(* data loss on crash".                                                    *)
AckedIsStored == \A b \in acked \ Dropped : \E s \in rows : s.batch = b

(* Recovery "prevents the INSERT-then-DELETE pattern from re-recovering    *)
(* the same rows every sweep (and unboundedly duplicating them)": where    *)
(* the user may not DELETE, a row is recovered at most DeleteThreshold     *)
(* times in the lifetime of a process; where it may, and a DELETE of other *)
(* rows resets the count, every copy but the last costs a failed call or   *)
(* an exit.                                                                *)
RecoveryStops ==
  \A i \in {s.from : s \in rows} \ {0} :
    Cardinality({s \in rows : s.from = i})
      <= IF mayDelete THEN faults + crashes + 1 ELSE DeleteThreshold * (crashes + 1)

(* Once the clusterer is back the circuit closes and every row stored      *)
(* with template '0' is clustered, unless recovery gave the tenant up.     *)
UnclusteredIsRecovered == <>[](skipped \/ \A s \in rows : s.clustered)

(* Between sweeps, two rows of one event with an event_id merge: a failed  *)
(* DELETE means "duplicates until next merge".                             *)
DuplicatesMerge ==
  sweep.pc = "idle" =>
    \A s, t \in rows : s.batch = t.batch /\ s.batch \in Stable => s = t \/ (s.stable /\ t.stable)

(* The sweep and what it counts: within its limits, and no row is          *)
(* recovered more often than failures and exits explain.                   *)
RecoverySound == TypeOK /\ RecoveryStops
=============================================================================
