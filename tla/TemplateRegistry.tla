-------------------------- MODULE TemplateRegistry --------------------------
(***************************************************************************)
(* The clusterer's template registry (template_registry.py) behind the     *)
(* POST /cluster handler: batch_get_or_create answers from an LRU cache,   *)
(* else, under the tenant's lock, queries ClickHouse and inserts a fresh   *)
(* id.  The handler runs it under asyncio.wait_for, whose timeout cancels  *)
(* the coroutine, which frees the lock, but cannot stop the thread that    *)
(* talks to ClickHouse.  The embedding backfill re-inserts rows meanwhile. *)
(*                                                                         *)
(* One tenant: locks, cache keys and rows of two tenants never meet.       *)
(***************************************************************************)
EXTENDS Naturals, FiniteSets

CONSTANTS
  Requests,     (* calls of batch_get_or_create                         *)
  Texts,        (* template texts of the tenant                         *)
  None,         (* "no id"                                              *)
  MaxTimeouts,  (* bound: requests cancelled by wait_for                *)
  MaxRestarts   (* bound: clusterer exits                               *)

ASSUME RegistryAssumption ==
  /\ None \notin Requests /\ None \notin Requests \X Texts
  /\ MaxTimeouts \in Nat /\ MaxRestarts \in Nat

VARIABLES
  cache,      (* LRU cache: the id of each text, or None                     *)
  row,        (* template_registry FINAL: the last row inserted for each text *)
  lock,       (* the request holding the tenant lock, or None                 *)
  at,         (* where each request is suspended                              *)
  texts,      (* the unique texts of each request                             *)
  missing,    (* the texts it still has to look up                            *)
  found,      (* the result it has so far: text -> id or None                  *)
  fresh,      (* the texts whose INSERT a request's thread is running          *)
  orphans,    (* INSERTs still running for a request that is gone              *)
  backfill,   (* rows the backfill read and is embedding                       *)
  answered,   (* history: the ids answered for each text                       *)
  news,       (* history: answers that said is_new, per text                   *)
  timeouts, restarts

store    == <<cache, row>>
progress == <<lock, at, texts, missing, found, fresh>>
history  == <<answered, news>>
bounds   == <<timeouts, restarts>>
vars     == <<store, progress, orphans, backfill, history, bounds>>

(* A fresh UUIDv7: a request assigns a text at most one. *)
Ids == Requests \X Texts
NewId(r, t) == <<r, t>>

NoRow == [id |-> None, embedded |-> FALSE]

TypeOK ==
  /\ cache \in [Texts -> Ids \union {None}]
  /\ row \in [Texts -> [id : Ids \union {None}, embedded : BOOLEAN]]
  /\ lock \in Requests \union {None}
  /\ at \in [Requests -> {"idle", "locking", "querying", "inserting", "inserted",
                          "done", "failed"}]
  /\ texts \in [Requests -> SUBSET Texts]
  /\ missing \in [Requests -> SUBSET Texts]
  /\ found \in [Requests -> [Texts -> Ids \union {None}]]
  /\ fresh \in [Requests -> SUBSET Texts]
  /\ orphans \subseteq Requests
  /\ backfill \subseteq Texts \X Ids
  /\ answered \in [Texts -> SUBSET Ids]
  /\ news \in [Texts -> Nat]
  /\ timeouts \in 0..MaxTimeouts /\ restarts \in 0..MaxRestarts

Init ==
  /\ cache = [t \in Texts |-> None]
  /\ row = [t \in Texts |-> NoRow]
  /\ lock = None
  /\ at = [r \in Requests |-> "idle"]
  /\ texts = [r \in Requests |-> {}]
  /\ missing = [r \in Requests |-> {}]
  /\ found = [r \in Requests |-> [t \in Texts |-> None]]
  /\ fresh = [r \in Requests |-> {}]
  /\ orphans = {}
  /\ backfill = {}
  /\ answered = [t \in Texts |-> {}]
  /\ news = [t \in Texts |-> 0]
  /\ timeouts = 0 /\ restarts = 0

-----------------------------------------------------------------------------
(* ClickHouse: the row inserted last wins the merge and FINAL. *)
InsertRows(r) ==
  row' = [t \in Texts |-> IF t \in fresh[r] THEN [id |-> NewId(r, t), embedded |-> FALSE]
                          ELSE row[t]]

(* The request returns: every text has an id; those it inserted are new. *)
Answer(r, result, new) ==
  /\ at' = [at EXCEPT ![r] = "done"]
  /\ answered' = [t \in Texts |-> IF t \in texts'[r] THEN answered[t] \union {result[t]}
                                  ELSE answered[t]]
  /\ news' = [t \in Texts |-> IF t \in new THEN news[t] + 1 ELSE news[t]]

Hits(S) == {t \in S : cache[t] # None}

Take(r, S, idOf) == [found EXCEPT ![r] = [t \in Texts |-> IF t \in S THEN idOf[t] ELSE @[t]]]

-----------------------------------------------------------------------------
(* The fast path: all texts from the cache, or wait for the tenant lock. *)
Begin(r, S) ==
  /\ at[r] = "idle"
  /\ texts' = [texts EXCEPT ![r] = S]
  /\ found' = Take(r, Hits(S), cache)
  /\ missing' = [missing EXCEPT ![r] = S \ Hits(S)]
  /\ IF S = Hits(S)
     THEN Answer(r, cache, {})
     ELSE at' = [at EXCEPT ![r] = "locking"] /\ UNCHANGED history
  /\ UNCHANGED <<store, lock, fresh, orphans, backfill, bounds>>

(* Mutant: the cache is not looked at again under the lock, nor is the     *)
(* table asked for what is not cached: every miss is inserted.             *)
AcquireInserts(r) ==
  /\ at[r] = "locking"
  /\ lock = None
  /\ lock' = r
  /\ at' = [at EXCEPT ![r] = "inserting"]
  /\ fresh' = [fresh EXCEPT ![r] = missing[r]]
  /\ UNCHANGED <<missing, found, history, store, texts, orphans, backfill, bounds>>

(* The lock is free: check the cache again, then query for what is left. *)
Acquire(r) ==
  /\ at[r] = "locking"
  /\ lock = None
  /\ LET hits == Hits(missing[r])
         result == Take(r, hits, cache)
     IN  /\ found' = result
         /\ missing' = [missing EXCEPT ![r] = @ \ hits]
         /\ texts' = texts
         /\ IF hits = missing[r]
            THEN lock' = None /\ Answer(r, result[r], {})
            ELSE /\ lock' = r
                 /\ at' = [at EXCEPT ![r] = "querying"]
                 /\ UNCHANGED history
  /\ UNCHANGED <<store, fresh, orphans, backfill, bounds>>

(* Mutant: ids are cached before the INSERT is known to have succeeded. *)
QueryReturnsCachingFirst(r) ==
  /\ at[r] = "querying"
  /\ LET known == {t \in missing[r] : row[t].id # None}
         idOf == [t \in Texts |-> row[t].id]
         result == Take(r, known, idOf)
     IN  /\ cache' = [t \in Texts |-> IF t \in known THEN row[t].id
                                      ELSE IF t \in missing[r] THEN NewId(r, t)
                                      ELSE cache[t]]
         /\ found' = result
         /\ texts' = texts
         /\ missing' = [missing EXCEPT ![r] = @ \ known]
         /\ fresh' = [fresh EXCEPT ![r] = missing[r] \ known]
         /\ IF known = missing[r]
            THEN lock' = None /\ Answer(r, result[r], {})
            ELSE /\ at' = [at EXCEPT ![r] = "inserting"]
                 /\ UNCHANGED <<lock, history>>
  /\ UNCHANGED <<row, orphans, backfill, bounds>>

(* SELECT ... FINAL returns: cache what exists; insert the rest, if any. *)
QueryReturns(r) ==
  /\ at[r] = "querying"
  /\ LET known == {t \in missing[r] : row[t].id # None}
         idOf == [t \in Texts |-> row[t].id]
         result == Take(r, known, idOf)
     IN  /\ cache' = [t \in Texts |-> IF t \in known THEN row[t].id ELSE cache[t]]
         /\ found' = result
         /\ texts' = texts
         /\ missing' = [missing EXCEPT ![r] = @ \ known]
         /\ fresh' = [fresh EXCEPT ![r] = missing[r] \ known]
         /\ IF known = missing[r]
            THEN lock' = None /\ Answer(r, result[r], {})
            ELSE /\ at' = [at EXCEPT ![r] = "inserting"]
                 /\ UNCHANGED <<lock, history>>
  /\ UNCHANGED <<row, orphans, backfill, bounds>>

(* The INSERT takes effect in ClickHouse before the client hears of it. *)
InsertLands(r) ==
  /\ at[r] = "inserting"
  /\ InsertRows(r)
  /\ at' = [at EXCEPT ![r] = "inserted"]
  /\ UNCHANGED <<cache, lock, texts, missing, found, fresh, orphans, backfill,
                 history, bounds>>

(* The INSERT succeeded: only now are the new ids cached and answered. *)
InsertReturns(r) ==
  /\ at[r] = "inserted"
  /\ LET idOf == [t \in Texts |-> NewId(r, t)]
         result == Take(r, fresh[r], idOf)
     IN  /\ cache' = [t \in Texts |-> IF t \in fresh[r] THEN idOf[t] ELSE cache[t]]
         /\ found' = result
         /\ texts' = texts
         /\ Answer(r, result[r], fresh[r])
  /\ lock' = None
  /\ fresh' = [fresh EXCEPT ![r] = {}]
  /\ UNCHANGED <<row, missing, orphans, backfill, bounds>>

(* Mutant: the failure path leaves the lock held. *)
ClickHouseFailsLocked(r) ==
  /\ at[r] \in {"querying", "inserting", "inserted"}
  /\ at' = [at EXCEPT ![r] = "failed"]
  /\ fresh' = [fresh EXCEPT ![r] = {}]
  /\ UNCHANGED <<store, lock, texts, missing, found, orphans, backfill, history, bounds>>

(* ClickHouse fails the query or the insert, before or after taking effect; *)
(* the exception leaves the lock.                                          *)
ClickHouseFails(r) ==
  /\ at[r] \in {"querying", "inserting", "inserted"}
  /\ at' = [at EXCEPT ![r] = "failed"]
  /\ lock' = None
  /\ fresh' = [fresh EXCEPT ![r] = {}]
  /\ UNCHANGED <<store, texts, missing, found, orphans, backfill, history, bounds>>

(* wait_for gives up: the coroutine is cancelled and frees the lock; a     *)
(* running INSERT goes on in its thread.                                   *)
Abandon(r) ==
  /\ at' = [at EXCEPT ![r] = "failed"]
  /\ lock' = IF lock = r THEN None ELSE lock
  /\ orphans' = IF at[r] = "inserting" THEN orphans \union {r} ELSE orphans
  /\ UNCHANGED <<store, texts, missing, found, fresh, backfill, history>>

Timeout(r) ==
  /\ timeouts < MaxTimeouts
  /\ at[r] \in {"locking", "querying", "inserting", "inserted"}
  /\ timeouts' = timeouts + 1
  /\ Abandon(r)
  /\ UNCHANGED restarts

OrphanLands(r) ==
  /\ r \in orphans
  /\ orphans' = orphans \ {r}
  /\ InsertRows(r)
  /\ UNCHANGED <<cache, progress, backfill, history, bounds>>

(* The LRU cache drops a key when it is full of others. *)
Evict(t) ==
  /\ cache[t] # None
  /\ cache' = [cache EXCEPT ![t] = None]
  /\ UNCHANGED <<row, progress, orphans, backfill, history, bounds>>

(* The clusterer exits: memory is lost, what ClickHouse was sent may land. *)
Restart ==
  /\ restarts < MaxRestarts
  /\ restarts' = restarts + 1
  /\ cache' = [t \in Texts |-> None]
  /\ lock' = None
  /\ orphans' = orphans \union {r \in Requests : at[r] = "inserting"}
  /\ at' = [r \in Requests |-> IF at[r] \in {"idle", "done"} THEN at[r] ELSE "failed"]
  /\ backfill' = {}
  /\ UNCHANGED <<row, texts, missing, found, fresh, history, timeouts>>

-----------------------------------------------------------------------------
(* /embed/backfill: read the rows without embedding, embed, insert again   *)
(* with the id that was read.                                              *)
BackfillReads ==
  /\ backfill = {}
  /\ backfill' = {<<t, row[t].id>> : t \in {u \in Texts : row[u].id # None /\ ~row[u].embedded}}
  /\ backfill' # {}
  /\ UNCHANGED <<store, progress, orphans, history, bounds>>

BackfillInserts ==
  /\ backfill # {}
  /\ row' = [t \in Texts |->
               IF \E i \in Ids : <<t, i>> \in backfill
               THEN [id |-> CHOOSE i \in Ids : <<t, i>> \in backfill, embedded |-> TRUE]
               ELSE row[t]]
  /\ backfill' = {}
  /\ UNCHANGED <<cache, progress, orphans, history, bounds>>

(* The embedding or the insert raises: the run ends, a later call retries. *)
BackfillFails ==
  /\ backfill # {}
  /\ backfill' = {}
  /\ UNCHANGED <<store, progress, orphans, history, bounds>>

-----------------------------------------------------------------------------
Next ==
  \/ \E r \in Requests, S \in (SUBSET Texts) \ {{}} : Begin(r, S)
  \/ \E r \in Requests :
       \/ Acquire(r) \/ QueryReturns(r) \/ InsertLands(r) \/ InsertReturns(r)
       \/ ClickHouseFails(r) \/ Timeout(r) \/ OrphanLands(r)
  \/ \E t \in Texts : Evict(t)
  \/ Restart
  \/ BackfillReads \/ BackfillInserts \/ BackfillFails

Spec == Init /\ [][Next]_vars

(* Threads and the event loop make progress; the lock queue is FIFO. *)
Fairness ==
  \A r \in Requests :
    /\ SF_vars(Acquire(r))
    /\ WF_vars(QueryReturns(r)) /\ WF_vars(InsertLands(r)) /\ WF_vars(InsertReturns(r))

FairSpec == Spec /\ Fairness

-----------------------------------------------------------------------------
(* No request timed out and the process did not exit so far. *)
Undisturbed == timeouts = 0 /\ restarts = 0

(* template_registry.py:1 calls the ids stable: whatever requests race,    *)
(* time out or restart, a text is answered with one id for ever.           *)
StableTemplateId == \A t \in Texts : Cardinality(answered[t]) <= 1

(* They are, as long as no INSERT is left behind by a timeout or an exit:  *)
(* the cache, the lock and the table agree, whatever requests, failures,   *)
(* evictions and the backfill race.                                        *)
StableUndisturbed == Undisturbed => StableTemplateId

(* is_new is authoritative (pipeline.py): a text is new in one answer,     *)
(* with the same proviso.                                                  *)
NewOnce == Undisturbed => \A t \in Texts : news[t] <= 1

(* "Cache only after INSERT succeeds — prevents ghost entries": an id that *)
(* is cached or was answered belongs to a text the table has a row for,    *)
(* even when inserts fail, time out or the process dies.                   *)
NoGhostIds ==
  \A t \in Texts : (cache[t] # None \/ answered[t] # {}) => row[t].id # None

(* A row once embedded is never replaced by one without an embedding, with *)
(* the same proviso.                                                       *)
EmbeddingKept ==
  [][Undisturbed => \A t \in Texts : row[t].embedded => row'[t].embedded]_vars

(* A request that waits for the tenant lock gets an answer or an error:    *)
(* every failing holder frees the lock.                                    *)
RequestEnds == \A r \in Requests : at[r] = "locking" ~> at[r] \in {"done", "failed"}

(* The cache and the answers name only ids the table has a row for.        *)
CacheSound == TypeOK /\ NoGhostIds

(* As long as nothing timed out and the process did not exit, a text has   *)
(* one id and was new in one answer.                                       *)
IdsSound == StableUndisturbed /\ NewOnce
=============================================================================
