----------------------------- MODULE QueryCache -----------------------------
(***************************************************************************)
(* The dashboard's queries and mutations (api/queries.ts, query-keys.ts    *)
(* and the settings pages) over the cache of React Query as main.tsx       *)
(* configures it.  The API is a version number per resource; an answer is  *)
(* the versions it was made from.  The API reads when it answers, so an    *)
(* answer may be older than what a mutation has written since; an answer   *)
(* that a cancelled fetch still gets is dropped.                           *)
(***************************************************************************)
EXTENDS Naturals, FiniteSets

CONSTANTS
  Queries,     (* the queries of the pages that are open in the instance   *)
  Mutations,   (* the mutations the user makes                             *)
  MaxRetries,  (* retries of a query: 2                                    *)
  MaxVersion   (* bound: writes of a resource                              *)

(* What the answer of each query is made from.  Panels are computed from   *)
(* the events; some also from a setting of the tenant.                     *)
Panels ==
  {"overview", "volume", "services", "templates", "sparklines", "clusteringHealth", "levels",
   "templateStatusCodes", "templateEvents", "anomalyState"}
Lists    == {"watches", "rules", "alerts", "deploys", "connectors", "apiKeys", "users"}
Settings == {"slack", "tags", "costThresholds", "spikeBaseline", "clustering"}

ReadsOf(q) ==
  CASE q \in Panels \union {"clusteringPreview"} -> {"events"}
    [] q \in Lists \union Settings -> {q}
    [] q = "changes" -> {"events", "spikeBaseline"}
    [] q = "costAnalysis" -> {"events", "costThresholds"}
    [] q = "onboardingStatus" -> {"events", "clustering", "dismissed"}

(* Queries with refetchInterval pollUnlessError.                           *)
Polled ==
  {"overview", "volume", "services", "templates", "sparklines", "clusteringHealth", "changes",
   "levels", "deploys", "rules", "alerts", "costAnalysis"}

(* What a mutation writes, and what its onSuccess invalidates.             *)
WritesOf(m) ==
  CASE m \in {"watchTemplate", "unwatchTemplate"} -> "watches"
    [] m \in {"createRule", "updateRule", "deleteRule"} -> "rules"
    [] m \in {"saveSlack", "deleteSlack", "testSlack"} -> "slack"
    [] m = "saveTags" -> "tags"
    [] m \in {"createConnector", "deleteConnector", "testConnector"} -> "connectors"
    [] m \in {"createApiKey", "revokeApiKey"} -> "apiKeys"
    [] m \in {"createUser", "deleteUser"} -> "users"
    [] m = "saveCostThresholds" -> "costThresholds"
    [] m = "saveSpikeBaseline" -> "spikeBaseline"
    [] m \in {"saveClustering", "resetClustering"} -> "clustering"
    [] m = "dismissOnboarding" -> "dismissed"

Invalidates(m) ==
  CASE m = "testConnector" -> {}
    [] WritesOf(m) = "costThresholds" -> {"costThresholds", "costAnalysis"}
    [] WritesOf(m) = "clustering" -> {"clustering", "onboardingStatus"}
    [] WritesOf(m) = "dismissed"  -> {"onboardingStatus"}
    [] OTHER -> {WritesOf(m)}

Resources == UNION {ReadsOf(q) : q \in Queries} \union {WritesOf(m) : m \in Mutations}

VARIABLES
  server,      (* version of each resource                                 *)
  mounted,     (* queries some component uses                              *)
  cache,       (* what is held for each query                              *)
  fetch,       (* the fetch of each query                                  *)
  pending,     (* mutations under way                                      *)
  confirmed,   (* versions the user was told their mutations made          *)
  joined       (* queries whose fetch under way outlived an invalidation   *)

vars == <<server, mounted, cache, fetch, pending, confirmed, joined>>

Nothing == [r \in Resources |-> 0]
Answers == [Resources -> 0..MaxVersion]
NoFetch == [stage |-> "idle", data |-> Nothing, tries |-> 0]
NewFetch == [stage |-> "sent", data |-> Nothing, tries |-> 0]
Empty == [status |-> "pending", known |-> FALSE, data |-> Nothing, stale |-> TRUE]

TypeOK ==
  /\ server \in [Resources -> 0..MaxVersion] /\ mounted \subseteq Queries
  /\ cache \in [Queries -> [status : {"pending", "success", "error"}, known : BOOLEAN, data : Answers,
                          stale : BOOLEAN]]
  /\ fetch \in [Queries -> [stage : {"idle", "sent", "answered"}, data : Answers, tries : 0..MaxRetries]]
  /\ pending \in [Mutations -> [stage : {"idle", "sent", "applied"}, made : 0..MaxVersion]]
  /\ confirmed \in [Resources -> 0..MaxVersion] /\ joined \subseteq Queries

Init ==
  /\ server = [r \in Resources |-> 0] /\ mounted = {}
  /\ cache = [q \in Queries |-> Empty] /\ fetch = [q \in Queries |-> NoFetch]
  /\ pending = [m \in Mutations |-> [stage |-> "idle", made |-> 0]]
  /\ confirmed = [r \in Resources |-> 0] /\ joined = {}

-----------------------------------------------------------------------------
(* A component that uses the query appears: what is stale is fetched.      *)
Mount(q) ==
  /\ q \notin mounted /\ mounted' = mounted \union {q}
  /\ fetch' = IF cache[q].stale /\ fetch[q] = NoFetch
              THEN [fetch EXCEPT ![q] = NewFetch] ELSE fetch
  /\ joined' = IF fetch[q] = NoFetch /\ cache[q].stale THEN joined \ {q} ELSE joined
  /\ UNCHANGED <<server, cache, pending, confirmed>>

Unmount(q) ==
  /\ q \in mounted /\ mounted' = mounted \ {q}
  /\ UNCHANGED <<server, cache, fetch, pending, confirmed, joined>>

(* staleTime passes; and gcTime, after which an unused answer is dropped.  *)
Ages(q) ==
  /\ ~cache[q].stale /\ cache' = [cache EXCEPT ![q].stale = TRUE]
  /\ UNCHANGED <<server, mounted, fetch, pending, confirmed, joined>>

Collect(q) ==
  /\ q \notin mounted /\ fetch[q] = NoFetch /\ cache[q] # Empty
  /\ cache' = [cache EXCEPT ![q] = Empty]
  /\ UNCHANGED <<server, mounted, fetch, pending, confirmed, joined>>

(* Whether a query is due again when its interval has passed: the state of *)
(* the scorer is asked for even while it is in error.                      *)
Due(q) == q = "anomalyState" \/ (q \in Polled /\ cache[q].status # "error")

(* The poll interval passes.                                               *)
Poll(q) ==
  /\ q \in mounted /\ Due(q) /\ fetch[q] = NoFetch
  /\ fetch' = [fetch EXCEPT ![q] = NewFetch]
  /\ joined' = joined \ {q}
  /\ UNCHANGED <<server, mounted, cache, pending, confirmed>>

(* The API reads and answers.                                              *)
Serve(q) ==
  /\ fetch[q].stage = "sent"
  /\ fetch' = [fetch EXCEPT ![q].stage = "answered",
                 ![q].data = [r \in Resources |-> IF r \in ReadsOf(q) THEN server[r] ELSE 0]]
  /\ UNCHANGED <<server, mounted, cache, pending, confirmed, joined>>

Arrives(q) ==
  /\ fetch[q].stage = "answered"
  /\ cache' = [cache EXCEPT ![q] = [status |-> "success", known |-> TRUE, data |-> fetch[q].data,
                                    stale |-> FALSE]]
  /\ fetch' = [fetch EXCEPT ![q] = NoFetch]
  /\ UNCHANGED <<server, mounted, pending, confirmed, joined>>

(* A fetch fails or times out, and is tried again until it has failed for  *)
(* good; the old answer is kept.                                           *)
Fails(q) ==
  /\ fetch[q].stage # "idle"
  /\ IF fetch[q].tries < MaxRetries
     THEN /\ fetch' = [fetch EXCEPT ![q] = [NewFetch EXCEPT !.tries = fetch[q].tries + 1]]
          /\ cache' = cache
     ELSE /\ fetch' = [fetch EXCEPT ![q] = NoFetch]
          /\ cache' = [cache EXCEPT ![q].status = "error"]
  /\ joined' = joined \ {q}
  /\ UNCHANGED <<server, mounted, pending, confirmed>>

(* invalidateQueries: all are stale, and those in use are fetched anew.  A *)
(* fetch under way is cancelled, but not the first one of a query, nor     *)
(* that of a query no component uses: they go on.                          *)
Renewed(qs) == {q \in qs \intersect mounted : fetch[q] = NoFetch \/ cache[q].known}

Invalidate(qs) ==
  /\ cache' = [q \in Queries |-> IF q \in qs THEN [cache[q] EXCEPT !.stale = TRUE] ELSE cache[q]]
  /\ fetch' = [q \in Queries |-> IF q \in Renewed(qs) THEN NewFetch ELSE fetch[q]]
  /\ joined' = (joined \union {q \in qs \intersect Queries : fetch[q] # NoFetch}) \ Renewed(qs)

(* The refresh button of the header.                                       *)
Refresh ==
  /\ Invalidate(Queries)
  /\ UNCHANGED <<server, mounted, pending, confirmed>>

-----------------------------------------------------------------------------
(* A mutation is sent, applied by the API, and answered; it may fail       *)
(* before and after it was applied.                                        *)
Mutate(m) ==
  /\ pending[m].stage = "idle"
  /\ pending' = [pending EXCEPT ![m] = [stage |-> "sent", made |-> 0]]
  /\ UNCHANGED <<server, mounted, cache, fetch, confirmed, joined>>

Applies(m) ==
  /\ pending[m].stage = "sent" /\ server[WritesOf(m)] < MaxVersion
  /\ server' = [server EXCEPT ![WritesOf(m)] = @ + 1]
  /\ pending' = [pending EXCEPT ![m] = [stage |-> "applied", made |-> server[WritesOf(m)] + 1]]
  /\ UNCHANGED <<mounted, cache, fetch, confirmed, joined>>

Succeeds(m) ==
  /\ pending[m].stage = "applied"
  /\ pending' = [pending EXCEPT ![m] = [stage |-> "idle", made |-> 0]]
  /\ confirmed' = IF pending[m].made > confirmed[WritesOf(m)]
                  THEN [confirmed EXCEPT ![WritesOf(m)] = pending[m].made] ELSE confirmed
  /\ Invalidate(Invalidates(m))
  /\ UNCHANGED <<server, mounted>>

MutationFails(m) ==
  /\ pending[m].stage # "idle"
  /\ pending' = [pending EXCEPT ![m] = [stage |-> "idle", made |-> 0]]
  /\ UNCHANGED <<server, mounted, cache, fetch, confirmed, joined>>

(* Logs come in, and other users change what this one sees.                *)
OthersWrite(r) ==
  /\ server[r] < MaxVersion /\ server' = [server EXCEPT ![r] = @ + 1]
  /\ UNCHANGED <<mounted, cache, fetch, pending, confirmed, joined>>

Next ==
  \/ \E q \in Queries : Mount(q) \/ Unmount(q) \/ Ages(q) \/ Collect(q) \/ Poll(q)
                          \/ Serve(q) \/ Arrives(q) \/ Fails(q)
  \/ Refresh
  \/ \E m \in Mutations : Mutate(m) \/ Applies(m) \/ Succeeds(m) \/ MutationFails(m)
  \/ \E r \in Resources : OthersWrite(r)

Spec == Init /\ [][Next]_vars

-----------------------------------------------------------------------------
(* A query that shows an answer and fetches nothing                        *)
Settled(q) == cache[q].status = "success" /\ fetch[q] = NoFetch /\ q \in mounted

(* A page at rest shows what its user was told was saved, unless its fetch *)
(* outlived the invalidation; and except the changes panel, which is not   *)
(* told of a new baseline.                                                 *)
OwnWritesShown ==
  \A q \in Queries \ joined : Settled(q) =>
    \A r \in ReadsOf(q) : (q = "changes" /\ r = "spikeBaseline") \/ cache[q].data[r] >= confirmed[r]

(* The same whatever was under way.  (Does not hold: the page is left and  *)
(* entered again, or is loaded for the first time, while a mutation ends.) *)
WritesShownAlways ==
  \A q \in Queries : Settled(q) => \A r \in ReadsOf(q) : cache[q].data[r] >= confirmed[r]

(* The same of the changes panel.  (Does not hold: its key omits the       *)
(* baseline, and saving one invalidates the baseline's own query only.)    *)
ChangesFollowBaseline ==
  "changes" \in Queries /\ Settled("changes") =>
    cache["changes"].data["spikeBaseline"] >= confirmed["spikeBaseline"]
=============================================================================
