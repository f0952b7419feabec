----------------------------- MODULE Admission -----------------------------
(***************************************************************************)
(* What a request with an API key passes on its way to a handler, and the  *)
(* keys themselves: the cache of keys against the table api_keys           *)
(* (auth/api-key-store.ts, routes/api-keys.ts), its load at the start and  *)
(* the import of the key in the environment (index.ts), the rate limits    *)
(* (middleware/rate-limit.ts) and the guard of concurrent queries          *)
(* (middleware/concurrent-query-guard.ts), in the order of app.ts.         *)
(*                                                                         *)
(* A key with its hash is a raw key; a row of the table is an id.  One     *)
(* tenant: keys, windows and slots of two never meet.  With an encryption  *)
(* key configured: without one there is no table, only the environment.    *)
(***************************************************************************)
EXTENDS Naturals, FiniteSets

CONSTANTS
  Ids,           (* key ids, each given out once                             *)
  Raws,          (* raw keys                                                 *)
  RawOf,         (* the raw key of each id                                   *)
  EnvRaw,        (* the raw key in LOGWEAVE_API_KEYS                         *)
  None,          (* "no entry"                                               *)
  Clients,       (* requests at a time                                       *)
  MaxPerTenant,  (* maxPerTenant                                             *)
  KeyRpm, TenantRpm, IngestKeyRpm,  (* RateLimitOptions                      *)
  MaxConcurrent, (* maxConcurrent of the query guard                         *)
  MaxArrivals,   (* bound: requests in all                                   *)
  MaxWindows,    (* bound: windows that come to an end                       *)
  MaxKeyFaults,  (* bound: queries or inserts that fail or lose their answer *)
  MaxKeyRestarts (* bound: exits of the API process                          *)

ASSUME AdmissionAssumption ==
  /\ RawOf \in [Ids -> Raws] /\ EnvRaw \in Raws /\ None \notin Ids
  /\ \A i, j \in Ids : RawOf[i] = RawOf[j] => i = j \/ RawOf[i] = EnvRaw
  /\ MaxPerTenant \in Nat \ {0} /\ MaxConcurrent \in Nat \ {0}
  /\ KeyRpm \in Nat /\ TenantRpm \in Nat /\ IngestKeyRpm \in Nat
  /\ MaxArrivals \in Nat /\ MaxWindows \in Nat /\ MaxKeyFaults \in Nat /\ MaxKeyRestarts \in Nat

Routes == {"query", "ingest", "create", "revoke"}
Buckets == {"default", "ingest"}

VARIABLES
  table,    (* api_keys FINAL                                                *)
  phase,    (* of the process: down, loading, seeding, seeded, up            *)
  keyCache, (* ApiKeyStore.cache: raw key to id                              *)
  refresh,  (* the refresh in flight and what its query read                 *)
  keyWin, tenantWin,  (* counts of the current windows                       *)
  active,   (* activeCounts of the guard                                     *)
  keyReq,   (* requests                                                      *)
  revoked,  (* history: ids whose revocation was answered with success       *)
  since,    (* history: rows that changed since the last refresh read        *)
  behind,   (* history: ids the cache may be wrong about until a refresh     *)
  raced,    (* history: a key was created or imported past the cap's check   *)
  arrivals, windows, keyFaults, keyRestarts

store      == <<table, keyCache>>
limits     == <<keyWin, tenantWin, active>>
keyHistory == <<revoked, since, behind, raced>>
keyBounds  == <<arrivals, windows, keyFaults, keyRestarts>>
keysVars   == <<store, phase, refresh, limits, keyReq, keyHistory, keyBounds>>

Vacant == [route |-> "query", at |-> "idle", id |-> None, open |-> FALSE, sent |-> FALSE,
         slot |-> FALSE]
NoRefresh == [on |-> FALSE, read |-> {}]

KeysTypeOK ==
  /\ table \in [Ids -> {"none", "live", "revoked"}]
  /\ phase \in {"down", "loading", "seeding", "seeded", "up"}
  /\ keyCache \in [Raws -> Ids \union {None}]
  /\ refresh \in [on : BOOLEAN, read : SUBSET Ids]
  /\ keyWin \in [Ids \X Buckets -> 0..(KeyRpm + IngestKeyRpm)]
  /\ tenantWin \in 0..TenantRpm /\ active \in 0..MaxConcurrent
  /\ keyReq \in [Clients ->
       [route : Routes, id : Ids \union {None}, open : BOOLEAN, sent : BOOLEAN, slot : BOOLEAN,
        at : {"idle", "running", "inserting", "inserted", "reading", "revoking", "revoked",
              "answered"}]]
  /\ revoked \subseteq Ids /\ since \subseteq Ids /\ behind \subseteq Ids /\ raced \in BOOLEAN
  /\ arrivals \in 0..MaxArrivals /\ windows \in 0..MaxWindows
  /\ keyFaults \in 0..MaxKeyFaults /\ keyRestarts \in 0..MaxKeyRestarts

KeysInit ==
  /\ table = [i \in Ids |-> "none"] /\ phase = "down"
  /\ keyCache = [w \in Raws |-> None] /\ refresh = NoRefresh
  /\ keyWin = [b \in Ids \X Buckets |-> 0] /\ tenantWin = 0 /\ active = 0
  /\ keyReq = [r \in Clients |-> Vacant]
  /\ revoked = {} /\ since = {} /\ behind = {} /\ raced = FALSE
  /\ arrivals = 0 /\ windows = 0 /\ keyFaults = 0 /\ keyRestarts = 0

Live == {i \in Ids : table[i] = "live"}
Cached == {i \in Ids : keyCache[RawOf[i]] = i}
CacheOf(ids) == [w \in Raws |-> IF \E i \in ids : RawOf[i] = w
                                THEN CHOOSE i \in ids : RawOf[i] = w ELSE None]

-----------------------------------------------------------------------------
(* Start: refresh must succeed, then the key of the environment is imported *)
(* unless the cache has it, then the server listens and the loop starts.   *)

Start ==
  /\ phase = "down" /\ phase' = "loading"
  /\ refresh' = [on |-> TRUE, read |-> Live] /\ since' = {}
  /\ UNCHANGED <<store, limits, keyReq, revoked, behind, raced, keyBounds>>

Seed ==
  /\ phase = "seeding"
  /\ IF keyCache[EnvRaw] # None
     THEN phase' = "up" /\ UNCHANGED <<table, since>>
     ELSE \E i \in Ids :
            /\ RawOf[i] = EnvRaw /\ table[i] = "none"
            /\ table' = [table EXCEPT ![i] = "live"] /\ since' = since \union {i}
            /\ phase' = "seeded"
  /\ raced' = (raced \/ Cardinality(Cached) >= MaxPerTenant)
  /\ UNCHANGED <<keyCache, refresh, limits, keyReq, revoked, behind, keyBounds>>

SeedReturns ==
  /\ phase = "seeded" /\ phase' = "up"
  /\ keyCache' = [keyCache EXCEPT ![EnvRaw] = CHOOSE i \in Live : RawOf[i] = EnvRaw]
  /\ UNCHANGED <<table, refresh, limits, keyReq, keyHistory, keyBounds>>

(* Requests whose write to row i has landed and is not answered. *)
Landed(i) == {r \in Clients : keyReq[r].id = i /\ keyReq[r].at \in {"inserted", "revoked"}}

(* The loop: 60 s after the last refresh, the next. *)
RefreshBegins ==
  /\ phase = "up" /\ ~refresh.on
  /\ refresh' = [on |-> TRUE, read |-> Live] /\ since' = {}
  /\ UNCHANGED <<store, phase, limits, keyReq, revoked, behind, raced, keyBounds>>

(* Mutant: rows are added to the cache, none is dropped. *)
RefreshReturnsAdding ==
  /\ refresh.on /\ refresh' = NoRefresh
  /\ keyCache' = [w \in Raws |-> IF CacheOf(refresh.read)[w] = None
                              THEN keyCache[w] ELSE CacheOf(refresh.read)[w]]
  /\ phase' = IF phase = "loading" THEN "seeding" ELSE phase
  /\ behind' = since \union {i \in behind : Landed(i) # {}}
  /\ UNCHANGED <<table, limits, keyReq, revoked, since, raced, keyBounds>>

RefreshReturns ==
  /\ refresh.on /\ refresh' = NoRefresh
  /\ keyCache' = CacheOf(refresh.read)
  /\ phase' = IF phase = "loading" THEN "seeding" ELSE phase
  /\ behind' = since \union {i \in behind : Landed(i) # {}}
  /\ UNCHANGED <<table, limits, keyReq, revoked, since, raced, keyBounds>>

(* The previous cache is kept; at the start the process exits. *)
RefreshFails ==
  /\ refresh.on /\ keyFaults < MaxKeyFaults /\ keyFaults' = keyFaults + 1
  /\ refresh' = NoRefresh
  /\ phase' = IF phase = "loading" THEN "down" ELSE phase
  /\ UNCHANGED <<store, limits, keyReq, keyHistory, arrivals, windows, keyRestarts>>

-----------------------------------------------------------------------------
(* Arrival: auth, rate limit, guard and the start of the handler are one   *)
(* synchronous chain.  Ingest routes are mounted before the guard.         *)

BucketOf(route) == IF route = "ingest" THEN "ingest" ELSE "default"
RpmOf(route) == IF route = "ingest" THEN IngestKeyRpm ELSE KeyRpm
Guarded(route) == route # "ingest"

(* Both limits are looked at before either window is counted up. *)
WithinLimits(id, route) ==
  keyWin[<<id, BucketOf(route)>>] < RpmOf(route) /\ tenantWin < TenantRpm

Count(id, route) ==
  /\ keyWin' = [keyWin EXCEPT ![<<id, BucketOf(route)>>] = @ + 1]
  /\ tenantWin' = tenantWin + 1

(* create(): the cap is counted from the cache. *)
MayCreate(n) == n < MaxPerTenant

(* Where the handler of a route is once it has begun. *)
Begun(route) ==
  CASE route \in {"query", "ingest"} -> "running"
    [] route = "create" -> IF MayCreate(Cardinality(Cached)) THEN "inserting" ELSE "answered"
    [] route = "revoke" -> "reading"

Arrive(r, w, route, target) ==
  /\ phase = "up" /\ arrivals < MaxArrivals
  /\ keyReq[r].at = "idle" /\ keyCache[w] # None
  /\ WithinLimits(keyCache[w], route) /\ Count(keyCache[w], route)
  /\ Guarded(route) => active < MaxConcurrent
  /\ CASE route = "create" -> /\ RawOf[target] # EnvRaw /\ table[target] = "none"
                              /\ \A s \in Clients : keyReq[s].id # target
       [] route = "revoke" -> table[target] # "none"
       [] OTHER            -> target = keyCache[w]
  /\ arrivals' = arrivals + 1
  /\ active' = IF Guarded(route) THEN active + 1 ELSE active
  /\ keyReq' = [keyReq EXCEPT ![r] = [route |-> route, at |-> Begun(route), id |-> target,
                                open |-> TRUE, sent |-> FALSE, slot |-> Guarded(route)]]
  /\ raced' = (raced \/ (Begun(route) = "inserting" /\
                          (behind # {} \/
                           \E s \in Clients : keyReq[s].at \in {"inserting", "inserted"})))
  /\ UNCHANGED <<store, phase, refresh, revoked, since, behind, windows, keyFaults, keyRestarts>>

(* The guard refuses: the request was counted by the windows all the same. *)
GuardRefuses(w, route) ==
  /\ phase = "up" /\ arrivals < MaxArrivals
  /\ keyCache[w] # None /\ Guarded(route) /\ active >= MaxConcurrent
  /\ WithinLimits(keyCache[w], route) /\ Count(keyCache[w], route)
  /\ arrivals' = arrivals + 1
  /\ UNCHANGED <<store, phase, refresh, active, keyReq, keyHistory, windows, keyFaults, keyRestarts>>

(* 60 s after a window was opened the next request opens a new one. *)
KeyWindowEnds(b) ==
  /\ keyWin[b] > 0 /\ windows < MaxWindows /\ windows' = windows + 1
  /\ keyWin' = [keyWin EXCEPT ![b] = 0]
  /\ UNCHANGED <<store, phase, refresh, tenantWin, active, keyReq, keyHistory, arrivals, keyFaults, keyRestarts>>

TenantWindowEnds ==
  /\ tenantWin > 0 /\ windows < MaxWindows /\ windows' = windows + 1
  /\ tenantWin' = 0
  /\ UNCHANGED <<store, phase, refresh, keyWin, active, keyReq, keyHistory, arrivals, keyFaults, keyRestarts>>

-----------------------------------------------------------------------------
(* The handlers *)

(* The handler has answered; the request is over once its connection is. *)
Answered(r) ==
  keyReq' = [keyReq EXCEPT ![r] = IF keyReq[r].open THEN [keyReq[r] EXCEPT !.at = "answered"] ELSE Vacant]

(* A row changes: a refresh that has read already does not see it. *)
Change(r, state, at) ==
  /\ table' = [table EXCEPT ![keyReq[r].id] = state]
  /\ since' = since \union {keyReq[r].id}
  /\ keyReq' = [keyReq EXCEPT ![r].at = at]
  /\ behind' = IF Landed(keyReq[r].id) # {} THEN behind \union {keyReq[r].id} ELSE behind
  /\ UNCHANGED <<keyCache, phase, refresh, limits, revoked, raced, keyBounds>>

CreateLands(r) == keyReq[r].at = "inserting" /\ Change(r, "live", "inserted")

(* Write through: the key works at once. *)
CreateReturns(r) ==
  /\ keyReq[r].at = "inserted"
  /\ keyCache' = [keyCache EXCEPT ![RawOf[keyReq[r].id]] = keyReq[r].id]
  /\ Answered(r)
  /\ UNCHANGED <<table, phase, refresh, limits, keyHistory, keyBounds>>

(* revoke(): not there or revoked already, or the row is read. *)
RevokeReads(r) ==
  /\ keyReq[r].at = "reading"
  /\ IF keyReq[r].id \in Live THEN keyReq' = [keyReq EXCEPT ![r].at = "revoking"] ELSE Answered(r)
  /\ UNCHANGED <<store, phase, refresh, limits, keyHistory, keyBounds>>

RevokeLands(r) == keyReq[r].at = "revoking" /\ Change(r, "revoked", "revoked")

(* Write through: the entry of the hash is dropped. *)
Drop(w) == keyCache' = [keyCache EXCEPT ![w] = None]

RevokeReturns(r) ==
  /\ keyReq[r].at = "revoked"
  /\ Drop(RawOf[keyReq[r].id])
  /\ revoked' = revoked \union {keyReq[r].id}
  /\ Answered(r)
  /\ UNCHANGED <<table, phase, refresh, limits, since, behind, raced, keyBounds>>

(* A query or insert fails, or lands and its answer is lost: 500. *)
KeyStoreFails(r) ==
  /\ keyReq[r].at \in {"inserting", "inserted", "reading", "revoking", "revoked"}
  /\ keyFaults < MaxKeyFaults /\ keyFaults' = keyFaults + 1
  /\ Answered(r)
  /\ behind' = IF keyReq[r].at \in {"inserted", "revoked"} THEN behind \union {keyReq[r].id} ELSE behind
  /\ UNCHANGED <<store, phase, refresh, limits, revoked, since, raced, arrivals, windows, keyRestarts>>

HandlerEnds(r) ==
  /\ keyReq[r].at = "running"
  /\ Answered(r)
  /\ UNCHANGED <<store, phase, refresh, limits, keyHistory, keyBounds>>

(* release(), of the events "finish" and "close", whichever comes first. *)
Released(r) == IF keyReq[r].slot THEN active - 1 ELSE active

(* "finish": the response is sent. *)
Finish(r) ==
  /\ keyReq[r].at = "answered" /\ keyReq[r].open /\ ~keyReq[r].sent
  /\ active' = Released(r)
  /\ keyReq' = [keyReq EXCEPT ![r].sent = TRUE, ![r].slot = FALSE]
  /\ UNCHANGED <<store, phase, refresh, keyWin, tenantWin, keyHistory, keyBounds>>

(* "close": the connection is over, before or after the response. *)
Close(r) ==
  /\ keyReq[r].open
  /\ active' = Released(r)
  /\ keyReq' = [keyReq EXCEPT ![r] = IF @.at = "answered" THEN Vacant
                               ELSE [@ EXCEPT !.open = FALSE, !.slot = FALSE]]
  /\ UNCHANGED <<store, phase, refresh, keyWin, tenantWin, keyHistory, keyBounds>>

Exit ==
  /\ phase # "down" /\ keyRestarts < MaxKeyRestarts /\ keyRestarts' = keyRestarts + 1
  /\ phase' = "down" /\ keyCache' = [w \in Raws |-> None] /\ refresh' = NoRefresh
  /\ keyWin' = [b \in Ids \X Buckets |-> 0] /\ tenantWin' = 0 /\ active' = 0
  /\ keyReq' = [r \in Clients |-> Vacant]
  /\ since' = {} /\ behind' = {}
  /\ UNCHANGED <<table, revoked, raced, arrivals, windows, keyFaults>>

KeysNext ==
  \/ Start \/ Seed \/ SeedReturns \/ RefreshBegins \/ RefreshReturns \/ RefreshFails
  \/ \E w \in Raws, route \in Routes :
       \/ \E r \in Clients, target \in Ids : Arrive(r, w, route, target)
       \/ GuardRefuses(w, route)
  \/ \E b \in Ids \X Buckets : KeyWindowEnds(b)
  \/ TenantWindowEnds
  \/ \E r \in Clients :
       \/ CreateLands(r) \/ CreateReturns(r)
       \/ RevokeReads(r) \/ RevokeLands(r) \/ RevokeReturns(r)
       \/ KeyStoreFails(r) \/ HandlerEnds(r) \/ Finish(r) \/ Close(r)
  \/ Exit

KeysSpec == KeysInit /\ [][KeysNext]_keysVars

-----------------------------------------------------------------------------
(* The cache says what the table says, except about a key whose row is     *)
(* being written, changed while a refresh was under way, was changed by an *)
(* insert whose answer was lost, or by two requests at a time.             *)
CacheFollowsTable ==
  phase = "up" =>
    \A i \in Ids : (i \in Cached) # (i \in Live) =>
      i \in behind \/ Landed(i) # {}

(* The cap is counted from the cache: unless a key was created next to     *)
(* another creation or while the cache could be behind, or was imported on *)
(* top of a full table, a tenant never has more keys than the cap.         *)
CapHeld == raced \/ Cardinality(Live) <= MaxPerTenant

(* A slot is held by every guarded request that is under way on an open    *)
(* connection and by nothing else, however it ends.                        *)
SlotsMatch ==
  active = Cardinality({r \in Clients : keyReq[r].open /\ ~keyReq[r].sent /\ Guarded(keyReq[r].route)})

(* A key is never accepted again, under any id, once its revocation was    *)
(* answered and a refresh has come after: index.ts says that clearing the  *)
(* keys of the environment avoids "revoked key comes back to life".        *)
RevokedForGood ==
  phase = "up" =>
    \A i \in revoked : keyCache[RawOf[i]] # None => i \in behind

(* API keys: the cache follows the table, a tenant has no more keys than   *)
(* its cap, and the query guard counts the requests that hold a slot.      *)
KeysSound == KeysTypeOK /\ CacheFollowsTable /\ CapHeld /\ SlotsMatch
=============================================================================
