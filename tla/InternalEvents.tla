--------------------------- MODULE InternalEvents ---------------------------
(***************************************************************************)
(* The operator event feed of the API (internal-events/emitter.ts,         *)
(* redaction.ts) and who writes to it: the boot, the request middleware    *)
(* and the ClickHouse client (db/client.ts) when a call fails.  An event   *)
(* is a line on stdout and, best effort, a row of internal_events; the row *)
(* is inserted through the same client whose failures are events.          *)
(*                                                                         *)
(* The fields of an event are the paths to its leaves, by what the keys on *)
(* the path are ("plain", "forbidden", "stack") and what the leaf is:      *)
(* text, the text of a stack trace, its first line, or a placeholder.      *)
(***************************************************************************)
EXTENDS Naturals, Sequences, FiniteSets

CONSTANTS
  Routes,
  Tenants,     (* each with one of the codes of its rate limits            *)
  Shapes,      (* the fields an event may have                             *)
  Interval,    (* SAMPLE_INTERVAL_MS: 10 s                                 *)
  MaxCache,    (* entries of the cache above which it is pruned: 1000      *)
  MaxTime,     (* bound: time                                              *)
  MaxEvents    (* bound: events emitted or coalesced                       *)

Leaves == {"text", "trace", "line", "placeholder"}
KeySorts == {"plain", "forbidden", "stack"}
Field == [path : UNION {[1..n -> KeySorts] : n \in 1..3}, leaf : Leaves]

InternalEventsAssumption ==
  /\ Shapes \subseteq SUBSET Field /\ Shapes # {} /\ Interval > 0
  /\ \A f \in UNION Shapes : f.leaf \in {"text", "trace"}

VARIABLES
  phase,       (* of the process: boot, up, exited                         *)
  now,
  cache,       (* sampleCache: when a bucket was last emitted              *)
  lines,       (* events on stdout                                         *)
  ships,       (* rows on their way to internal_events                     *)
  asked,       (* calls of emit there was a reason for                     *)
  hushed       (* events that were coalesced                               *)

vars == <<phase, now, cache, lines, ships, asked, hushed>>

Sampled == {"auth.key_invalid", "ratelimit.exceeded"}
Unsampled == {"config.loaded", "config.invalid", "clickhouse.query_failed", "audit.insert_failed"}
Bucket == (Sampled \X (Tenants \union {"_unknown"}))
Event == [id : 1..MaxEvents, name : Sampled \union Unsampled, tenant : Tenants \union {"_unknown"},
          route : Routes, at : 0..MaxTime, fields : SUBSET Field]

TypeOK ==
  /\ phase \in {"boot", "up", "exited"} /\ now \in 0..MaxTime
  /\ DOMAIN cache \subseteq Bucket /\ \A b \in DOMAIN cache : cache[b] \in 0..MaxTime
  /\ asked \in 0..MaxEvents /\ lines \union ships \union hushed \subseteq Event

-----------------------------------------------------------------------------
(* redactFields: a forbidden key's value, at the top or one level down.    *)
Redacted(fields) ==
  {LET n == IF f.path[1] = "forbidden" THEN 1
            ELSE IF Len(f.path) > 1 /\ f.path[2] = "forbidden" THEN 2 ELSE 0
   IN  IF n = 0 THEN f ELSE [path |-> SubSeq(f.path, 1, n), leaf |-> "placeholder"] : f \in fields}

(* stripStackTraces, as deep: stack keys go, a trace keeps its first line. *)
Stripped(fields) ==
  {[f EXCEPT !.leaf = IF @ = "trace" /\ Len(f.path) <= 2 THEN "line" ELSE @] :
     f \in {g \in fields : \A i \in 1..2 : i \in DOMAIN g.path => g.path[i] # "stack"}}

(* summarizeConfig passes what is on a list; the rest, objects included,   *)
(* is a placeholder.                                                       *)
Summary(fields) ==
  {IF f.path = <<"plain">> THEN f ELSE [path |-> <<f.path[1]>>, leaf |-> "placeholder"] : f \in fields}

-----------------------------------------------------------------------------
Made(name, tenant, route, fields) ==
  [id |-> asked + 1, name |-> name, tenant |-> tenant, route |-> route, at |-> now,
   fields |-> Redacted(fields)]
BucketOf(e) == <<e.name, e.tenant>>

(* shouldSample: within the interval of the last of its bucket.            *)
Suppressed(e) ==
  e.name \in Sampled /\ BucketOf(e) \in DOMAIN cache /\ now - cache[BucketOf(e)] < Interval

(* What is kept when the cache is too large.                               *)
Pruned(c) ==
  IF Cardinality(DOMAIN c) > MaxCache
  THEN [b \in {x \in DOMAIN c : c[x] + 2 * Interval >= now} |-> c[b]] ELSE c

Remembered(e) ==
  IF e.name \in Sampled
  THEN Pruned([b \in DOMAIN cache \union {BucketOf(e)} |-> IF b = BucketOf(e) THEN now ELSE cache[b]])
  ELSE cache

(* emit, with the row shipped if there is a client.                        *)
EmitTo(db, e) ==
  IF Suppressed(e)
  THEN hushed' = hushed \union {e} /\ UNCHANGED <<cache, lines, ships>>
  ELSE /\ lines' = lines \union {e} /\ cache' = Remembered(e)
       /\ ships' = (IF db THEN ships \union {[e EXCEPT !.fields = Stripped(@)]} ELSE ships)
       /\ UNCHANGED hushed

Tick ==
  /\ phase = "up" /\ now < MaxTime /\ now' = now + 1
  /\ UNCHANGED <<phase, cache, lines, ships, asked, hushed>>

AnyRoute == CHOOSE r \in Routes : TRUE
Up == phase = "up" /\ asked < MaxEvents

(* Boot: without a valid configuration there is no client yet.             *)
ConfigInvalid ==
  /\ phase = "boot" /\ phase' = "exited" /\ asked' = 1
  /\ \E f \in Shapes : EmitTo(FALSE, Made("config.invalid", "_unknown", AnyRoute, f))
  /\ UNCHANGED now

ConfigLoaded ==
  /\ phase = "boot" /\ phase' = "up" /\ asked' = 1
  /\ \E f \in Shapes : EmitTo(TRUE, Made("config.loaded", "_unknown", AnyRoute, Summary(f)))
  /\ UNCHANGED now

(* The middleware refuses a key it does not know, on some route.           *)
KeyInvalid(r) ==
  /\ Up /\ asked' = asked + 1 /\ EmitTo(TRUE, Made("auth.key_invalid", "_unknown", r, {}))
  /\ UNCHANGED <<phase, now>>

RateLimited(t) ==
  /\ Up /\ asked' = asked + 1 /\ EmitTo(TRUE, Made("ratelimit.exceeded", t, AnyRoute, {}))
  /\ UNCHANGED <<phase, now>>

(* Mutant: whatever the table. *)
ReportedAlways(table) == {"clickhouse.query_failed"}

(* What the client reports of a failed insert: nothing when it was into    *)
(* the feed's own table.                                                   *)
Reported(table) == IF table = "internal_events" THEN {} ELSE {"clickhouse.query_failed"}

(* A call of the client for anyone else fails.                             *)
CallFails ==
  /\ Up /\ asked' = asked + 1
  /\ \E f \in Shapes, n \in Reported("other") : EmitTo(TRUE, Made(n, "_unknown", AnyRoute, f))
  /\ UNCHANGED <<phase, now>>

Named(n) == {e \in lines : e.name = n}

(* recordAuditEvent says so too, after the client.                         *)
AuditFails(t) ==
  /\ Up /\ Cardinality(Named("audit.insert_failed")) < Cardinality(Named("clickhouse.query_failed"))
  /\ asked' = asked + 1 /\ EmitTo(TRUE, Made("audit.insert_failed", t, AnyRoute, {}))
  /\ UNCHANGED <<phase, now>>

ShipLands ==
  /\ phase = "up"
  /\ \E s \in ships : ships' = ships \ {s}
  /\ UNCHANGED <<phase, now, cache, lines, asked, hushed>>

ShipFails ==
  /\ phase = "up"
  /\ \E s \in ships, told \in {{Made(n, "_unknown", AnyRoute, {}) : n \in Reported("internal_events")}} :
       ships' = (ships \ {s}) \union told /\ lines' = lines \union told
  /\ UNCHANGED <<phase, now, cache, asked, hushed>>

Init ==
  /\ phase = "boot" /\ now = 0 /\ cache = [b \in {} |-> 0] /\ asked = 0
  /\ lines = {} /\ ships = {} /\ hushed = {}

Next ==
  \/ Tick \/ ConfigInvalid \/ ConfigLoaded \/ CallFails \/ ShipLands \/ ShipFails
  \/ \E r \in Routes : KeyInvalid(r)
  \/ \E t \in Tenants : RateLimited(t) \/ AuditFails(t)

Spec == Init /\ [][Next]_vars

-----------------------------------------------------------------------------
(* Every reason to emit is a line on stdout or was coalesced, whatever     *)
(* ClickHouse does, and nothing else is: a row that could not be shipped   *)
(* is no event of its own (DbClient.insert).                               *)
NoEcho == Cardinality(lines) + Cardinality(hushed) = asked

(* In a bucket at most one event in an interval, and none is coalesced     *)
(* without one before it, however the cache is pruned (shouldSample).      *)
Coalesced ==
  /\ \A d, e \in lines :
       d # e /\ d.name \in Sampled /\ BucketOf(d) = BucketOf(e) =>
         d.at - e.at >= Interval \/ e.at - d.at >= Interval
  /\ \A h \in hushed : \E e \in lines :
       BucketOf(e) = BucketOf(h) /\ e.at <= h.at /\ h.at - e.at < Interval

(* Nothing under a forbidden key of the first two levels leaves the        *)
(* process, and no stack trace of those levels reaches the table.          *)
Clean ==
  /\ \A e \in lines \union ships : \A f \in e.fields :
       \A i \in 1..2 : i \in DOMAIN f.path /\ f.path[i] = "forbidden" => f.leaf = "placeholder"
  /\ \A e \in ships : \A f \in e.fields :
       Len(f.path) <= 2 => f.leaf # "trace" /\ \A i \in DOMAIN f.path : f.path[i] # "stack"

(* Does not hold: the middleware means its events to be coalesced by       *)
(* route, but the bucket has no route in it.                               *)
RoutesApart ==
  \A h \in hushed : h.name = "auth.key_invalid" =>
    \E e \in lines : e.name = h.name /\ e.route = h.route

(* Does not hold: entries of the last two intervals are kept, however many *)
(* they are.                                                               *)
CacheBounded == Cardinality(DOMAIN cache) <= MaxCache
=============================================================================
