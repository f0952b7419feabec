---------------------------- MODULE DashboardReads ----------------------------
(***************************************************************************)
(* What the dashboard reads (routes/dashboard.ts, composite.ts, cost.ts,   *)
(* deploys.ts with db/dashboard/*.ts and db/dashboard-changes-queries.ts), *)
(* from log_metadata and the tables that materialized views keep of it     *)
(* (db/schema.ts), while batches arrive, are repeated and recovered, and   *)
(* old rows go (retention/sweep.ts, the TTLs).  A table is a bag of the    *)
(* rows inserted; an aggregate of it counts a repeated row again.          *)
(***************************************************************************)
EXTENDS Integers, Sequences, SequencesExt, FiniteSets, FiniteSetsExt, Bags, BagsExt, TLC

CONSTANTS
  Events, TemplateOf, ServiceOf, LevelOf, TraceOf,  (* what an event says    *)
  Five, Hour, Day,       (* 5 minutes, an hour, a day, in units of time      *)
  Ttl, FiveTtl,          (* the TTL of the tables: 30 days; 7 days           *)
  Retentions, MaxRetention,  (* retentionDays; MAX_RETENTION_DAYS            *)
  MinResolved, Sparse,   (* 5 occurrences; SPARSE_BASELINE_THRESHOLD         *)
  Threshold, MinBaseline,  (* of a spike                                     *)
  NoisePct, ReviewPct,   (* thresholds of the cost analysis                  *)
  Nulls,                 (* settings of join_use_nulls                       *)
  Start, MaxTime, MaxRepeats, MaxAsks, MaxDeploys,  (* bounds                *)
  Lateness,              (* how much older than now an event may be          *)
  DeployTimes,           (* timestamps a deploy may be given                 *)
  Asks                   (* what a request for changes may say               *)

Unclustered == "0"
Templates   == {TemplateOf[e] : e \in Events}

ReadsAssumption ==
  /\ {Five, Hour, Day, Ttl, FiveTtl, MinResolved} \subseteq Nat \ {0}
  /\ Hour % Five = 0 /\ Day % Hour = 0 /\ FiveTtl <= Ttl
  /\ Retentions \subseteq 1..MaxRetention /\ Lateness \union DeployTimes \subseteq Nat /\ Nulls \subseteq BOOLEAN
  /\ {Start, MaxTime, MaxRepeats, MaxAsks, MaxDeploys, Sparse, Threshold, MinBaseline, NoisePct, ReviewPct} \subseteq Nat
  /\ Unclustered \notin Templates

Every       == "every"
Metadata    == "log_metadata"
ByTemplate  == "template_stats"
ByService   == "service_stats"
ByFive      == "service_stats_5m"
ByDay       == "template_daily_summary"
Tables      == {Metadata, ByTemplate, ByService, ByFive, ByDay}
Queries     == {"new", "spike", "resolved", "baseline"}

VARIABLES
  now,
  tables,     (* the rows of each table                                      *)
  deploys,    (* timestamps of the deploy markers                            *)
  retention,  (* retentionDays of the tenant                                 *)
  sweep,      (* tables the retention sweep has still to do, in order        *)
  nulls,      (* join_use_nulls of the server, which the code leaves alone   *)
  req,        (* a request for changes                                       *)
  repeats, asks,
  doubled     (* history: events of which more than one row was inserted     *)

vars == <<now, tables, deploys, retention, sweep, nulls, req, repeats, asks, doubled>>

Idle ==
  [pc |-> "idle", hours |-> 1, since |-> -1, service |-> Every, levels |-> {}, left |-> {},
   new |-> {}, spike |-> {}, resolved |-> {}, baseline |-> "ok",
   still |-> TRUE, moved |-> FALSE]  (* history: nothing happened; time went on *)

SweptInOrder == <<Metadata, ByTemplate, ByService>>

RowsOf(table)    == BagToSet(tables[table])
Inserted         == RowsOf(ByDay) \union RowsOf(Metadata) \union RowsOf(ByFive)
FiveStart(t)     == t - (t % Five)
HourStart(t)     == t - (t % Hour)
DayStart(t)      == t - (t % Day)
StartIn(table, r) ==
  CASE table = Metadata -> r.time
    [] table \in {ByTemplate, ByFive} -> FiveStart(r.time)
    [] table = ByService -> HourStart(r.time)
    [] table = ByDay -> DayStart(r.time)

TypeOK ==
  /\ now \in Start..MaxTime /\ deploys \subseteq Int
  /\ \A t \in Tables : IsABag(tables[t])
                       /\ \A r \in RowsOf(t) : r.event \in Events /\ r.template \in Templates \union {Unclustered}
  /\ retention \in Retentions /\ sweep \in 0..Len(SweptInOrder) /\ nulls \in BOOLEAN
  /\ req.pc \in {"idle", "running", "done", "notfound"} /\ req.left \subseteq Queries
  /\ doubled \subseteq Events

Init ==
  /\ now = Start /\ tables = [t \in Tables |-> EmptyBag] /\ deploys = {}
  /\ retention \in Retentions /\ sweep = 0 /\ nulls \in Nulls
  /\ req = Idle /\ repeats = 0 /\ asks = 0 /\ doubled = {}

-----------------------------------------------------------------------------
(* Rows come and go.                                                       *)

(* A row goes to log_metadata, and through the views to the tables.  Those *)
(* by template leave out rows that are not clustered.                      *)
Takes(table, row) == table \in {ByTemplate, ByDay} => row.template # Unclustered

Insert(row) ==
  tables' = [t \in Tables |-> IF Takes(t, row) THEN BagAdd(tables[t], row) ELSE tables[t]]

(* An answer is out; a request that runs may have missed it. *)
Noticed == IF req.pc = "running" THEN [req EXCEPT !.still = FALSE] ELSE Idle

Known(template) == \E r \in Inserted : r.template = template

(* An event is clustered as it arrives, or while the clusterer is away not. *)
Arrive(e, template, late) ==
  /\ template \in {TemplateOf[e], Unclustered} /\ \A r \in Inserted : r.event # e
  /\ Insert([event |-> e, template |-> template, time |-> now - late,
             new |-> template # Unclustered /\ ~Known(template)])
  /\ req' = Noticed
  /\ UNCHANGED <<now, deploys, retention, sweep, nulls, repeats, asks, doubled>>

(* The client sends a batch again. *)
Repeat(row) ==
  /\ row \in RowsOf(Metadata) /\ repeats < MaxRepeats /\ repeats' = repeats + 1
  /\ Insert(row) /\ doubled' = doubled \union {row.event} /\ req' = Noticed
  /\ UNCHANGED <<now, deploys, retention, sweep, nulls, asks>>

(* Recovery inserts the row under its template, then deletes the old one.  *)
RecoverInserts(row) ==
  /\ row \in RowsOf(Metadata) /\ row.template = Unclustered
  /\ repeats < MaxRepeats /\ repeats' = repeats + 1
  /\ \A r \in RowsOf(Metadata) : r.event = row.event => r = row
  /\ Insert([row EXCEPT !.template = TemplateOf[row.event], !.new = FALSE])
  /\ doubled' = doubled \union {row.event} /\ req' = Noticed
  /\ UNCHANGED <<now, deploys, retention, sweep, nulls, asks>>

RecoverDeletes(row) ==
  /\ row \in RowsOf(Metadata) /\ row.template = Unclustered
  /\ \E r \in RowsOf(Metadata) : r.event = row.event /\ r # row
  /\ tables' = [tables EXCEPT ![Metadata] = BagRemoveAll(@, row)] /\ req' = Noticed
  /\ UNCHANGED <<now, deploys, retention, sweep, nulls, repeats, asks, doubled>>

(* ReplacingMergeTree keeps one of the rows that are equal. *)
Merge(row) ==
  /\ CopiesIn(row, tables[Metadata]) > 1
  /\ tables' = [tables EXCEPT ![Metadata] = BagAdd(BagRemoveAll(@, row), row)] /\ req' = Noticed
  /\ UNCHANGED <<now, deploys, retention, sweep, nulls, repeats, asks, doubled>>

Without(bag, rows) == [r \in DOMAIN bag \ rows |-> bag[r]]

(* The part of a day goes once all of it is older than the TTL.            *)
TtlOf(table) ==
  CASE table = ByFive -> FiveTtl [] table = ByDay -> MaxRetention [] OTHER -> Ttl

Expire(table, day) ==
  LET part == {r \in RowsOf(table) : DayStart(StartIn(table, r)) = day}
  IN /\ part # {} /\ \A r \in part : StartIn(table, r) + TtlOf(table) < now
     /\ tables' = [tables EXCEPT ![table] = Without(@, part)] /\ req' = Noticed
     /\ UNCHANGED <<now, deploys, retention, sweep, nulls, repeats, asks, doubled>>

Outlived(table) == {r \in RowsOf(table) : StartIn(table, r) < now - retention}

(* RetentionSweep.sweep goes over the tables; a DELETE that fails leaves   *)
(* its table alone.  A tenant of the longest retention is left to the TTL. *)
Sweep(works) ==
  LET table == SweptInOrder[sweep + 1]
  IN /\ retention < MaxRetention /\ sweep < Len(SweptInOrder)
     /\ sweep > 0 \/ \E t \in ToSet(SweptInOrder) : Outlived(t) # {}
     /\ sweep' = (sweep + 1) % Len(SweptInOrder)
     /\ IF works THEN tables' = [tables EXCEPT ![table] = Without(@, Outlived(table))] /\ req' = Noticed
        ELSE UNCHANGED <<tables, req>>
     /\ UNCHANGED <<now, deploys, retention, nulls, repeats, asks, doubled>>

Tick ==
  /\ now < MaxTime /\ now' = now + 1
  /\ req' = [Noticed EXCEPT !.moved = req.pc = "running"]
  /\ UNCHANGED <<tables, deploys, retention, sweep, nulls, repeats, asks, doubled>>

-----------------------------------------------------------------------------
(* What changed (GET /dashboard/changes).                                  *)

(* POST /deploys: the timestamp is what the body says, past or future.     *)
PostDeploy(at) ==
  /\ Cardinality(deploys) < MaxDeploys /\ at \notin deploys
  /\ deploys' = deploys \union {at}
  /\ UNCHANGED <<now, tables, retention, sweep, nulls, req, repeats, asks, doubled>>

(* A deploy stands for the time since then; it may not be found. *)
Ask(ask, deploy) ==
  /\ req.pc \in {"idle", "done", "notfound"} /\ asks < MaxAsks /\ asks' = asks + 1
  /\ req' = IF deploy >= 0 /\ deploy \notin deploys THEN [Idle EXCEPT !.pc = "notfound"]
            ELSE [Idle EXCEPT !.pc = "running", !.left = Queries, !.hours = ask.hours,
                              !.since = IF deploy >= 0 THEN deploy ELSE ask.since,
                              !.service = ask.service, !.levels = ask.levels]
  /\ UNCHANGED <<now, tables, deploys, retention, sweep, nulls, repeats, doubled>>

(* computeTimeWindow, or so many hours.                                    *)
IsCurrent(start, q) ==
  IF q.since >= 0 THEN q.since <= start /\ start <= now ELSE start > now - q.hours * Hour

IsPrevious(start, q) ==
  IF q.since >= 0 THEN 2 * q.since - now <= start /\ start < q.since
  ELSE now - 2 * q.hours * Hour < start /\ start <= now - q.hours * Hour

Filtered(table, q) ==
  {r \in RowsOf(table) : /\ q.service \in {Every, ServiceOf[r.event]}
                         /\ q.levels = {} \/ LevelOf[r.event] \in q.levels}

Current(q)  == {r \in Filtered(ByTemplate, q) : IsCurrent(FiveStart(r.time), q)}
Previous(q) == {r \in Filtered(ByTemplate, q) : IsPrevious(FiveStart(r.time), q)}

CountIn(table, rows)   == BagCardinality([r \in rows \intersect RowsOf(table) |-> tables[table][r]])
Active(rows)           == {r.template : r \in rows}
Of(rows, template)     == {r \in rows : r.template = template}
Occurrences(rows, t)   == CountIn(ByTemplate, Of(rows, t))

(* LEFT JOIN ... WHERE id IS NULL: a server that fills in the default      *)
(* value where nothing is joined finds no NULL.                            *)
Missing(ids, others) == IF nulls THEN ids \ others ELSE {}

NewTemplates(q)      == Missing(Active(Current(q)), Active(Previous(q)))
ResolvedTemplates(q) ==
  Missing({t \in Active(Previous(q)) : Occurrences(Previous(q), t) >= MinResolved}, Active(Current(q)))

Spikes(q) ==
  {t \in Active(Current(q)) \intersect Active(Previous(q)) :
     LET before == Occurrences(Previous(q), t)
     IN before >= Max({MinBaseline, 1}) /\ Occurrences(Current(q), t) > Threshold * before}

BaselineStatus(q) ==
  LET n == CountIn(ByTemplate, Previous(q))
  IN IF n = 0 THEN "empty" ELSE IF n < Sparse THEN "sparse" ELSE "ok"

(* The four queries run side by side, each with a clock of its own.        *)
RunQuery(query) ==
  /\ req.pc = "running" /\ query \in req.left
  /\ req' = [req EXCEPT !.left = @ \ {query},
                        !.pc = IF req.left = {query} THEN "done" ELSE @,
                        !.new = IF query = "new" THEN NewTemplates(req) ELSE @,
                        !.spike = IF query = "spike" THEN Spikes(req) ELSE @,
                        !.resolved = IF query = "resolved" THEN ResolvedTemplates(req) ELSE @,
                        !.baseline = IF query = "baseline" THEN BaselineStatus(req) ELSE @]
  /\ UNCHANGED <<now, tables, deploys, retention, sweep, nulls, repeats, asks, doubled>>

Next ==
  \/ Tick \/ \E works \in BOOLEAN : Sweep(works)
  \/ \E e \in Events, t \in Templates \union {Unclustered}, late \in Lateness : Arrive(e, t, late)
  \/ \E row \in RowsOf(Metadata) :
       Repeat(row) \/ Merge(row) \/ RecoverInserts(row) \/ RecoverDeletes(row)
  \/ \E t \in Tables, day \in {DayStart(i) : i \in 0..MaxTime} : Expire(t, day)
  \/ \E at \in DeployTimes : PostDeploy(at)
  \/ \E ask \in Asks, deploy \in {-1, MaxTime} \union deploys : Ask(ask, deploy)
  \/ \E query \in Queries : RunQuery(query)

Spec == Init /\ [][Next]_vars

-----------------------------------------------------------------------------
(* The other panels, as of now, for the last hours, or offset hours ago.   *)

(* Mutant: both windows have the row at the boundary. *)
InLookbackClosed(start, hours, offset) ==
  now - (offset + hours) * Hour <= start /\ start <= now - offset * Hour

(* db/dashboard/overview.ts *)
InLookback(start, hours, offset) ==
  IF offset = 0 THEN start > now - hours * Hour
  ELSE now - (offset + hours) * Hour <= start /\ start <= now - offset * Hour

OverviewRows(hours, offset) == {r \in RowsOf(ByService) : InLookback(HourStart(r.time), hours, offset)}
IsError(r) == LevelOf[r.event] = "ERROR"

OverviewTotals(hours, offset) ==
  LET rows == OverviewRows(hours, offset)
  IN [total |-> CountIn(ByService, rows), errors |-> CountIn(ByService, {r \in rows : IsError(r)}),
      new |-> CountIn(ByService, {r \in rows : r.new})]

OverviewCounts(hours, offset) ==
  LET rows == {r \in RowsOf(Metadata) : InLookback(r.time, hours, offset)}
  IN [templates |-> Active(rows) \ {Unclustered}, services |-> {ServiceOf[r.event] : r \in rows},
      unclustered |-> CountIn(Metadata, Of(rows, Unclustered))]

(* GET /dashboard/overview, compared with as many hours before. *)
Overview(hours) ==
  [now |-> OverviewTotals(hours, 0) @@ OverviewCounts(hours, 0),
   previous |-> OverviewTotals(hours, hours) @@ OverviewCounts(hours, hours)]

(* db/dashboard/services.ts *)
ServiceCounts(hours) ==
  {[service |-> s, logs |-> CountIn(ByService, rows), errors |-> CountIn(ByService, {r \in rows : IsError(r)})] :
     <<s, rows>> \in {<<s, {r \in OverviewRows(hours, 0) : ServiceOf[r.event] = s}>> :
                        s \in {ServiceOf[r.event] : r \in OverviewRows(hours, 0)}}}

(* db/dashboard/volume.ts: the fine table while it holds the whole window. *)
VolumeTable(hours, offset) == IF (hours + offset) * Hour > FiveTtl THEN ByService ELSE ByFive
VolumeRows(hours, offset) ==
  LET table == VolumeTable(hours, offset)
  IN {r \in RowsOf(table) : /\ StartIn(table, r) > now - (hours + offset) * Hour
                            /\ offset > 0 => StartIn(table, r) <= now - offset * Hour}
Volume(service, hours, offset) ==
  CountIn(VolumeTable(hours, offset),
          {r \in VolumeRows(hours, offset) : service \in {Every, ServiceOf[r.event]}})

(* db/dashboard/clustering.ts: a snapshot, and by the hour. *)
RecentRows(hours) == {r \in RowsOf(Metadata) : r.time > now - hours * Hour}
ClusteringSnapshot(hours) ==
  [total |-> CountIn(Metadata, RecentRows(hours)),
   unclustered |-> CountIn(Metadata, Of(RecentRows(hours), Unclustered)),
   clustered |-> CountIn(Metadata, RecentRows(hours) \ Of(RecentRows(hours), Unclustered)),
   templates |-> Active(RecentRows(hours)) \ {Unclustered}]
ClusteringTrend(hours) ==
  [h \in {HourStart(r.time) : r \in RecentRows(hours)} |->
     LET rows == {r \in RecentRows(hours) : HourStart(r.time) = h}
     IN [total |-> CountIn(Metadata, rows), unclustered |-> CountIn(Metadata, Of(rows, Unclustered))]]
ClusteringHealth(hours) == ClusteringSnapshot(hours) @@ [trend |-> ClusteringTrend(hours)]

(* db/dashboard/templates.ts, levels.ts, template-events.ts, template-trend.ts *)
TemplateRows(t, hours)  == {r \in Of(RowsOf(ByTemplate), t) : FiveStart(r.time) > now - hours * Hour}
TemplateCount(t, hours) == CountIn(ByTemplate, TemplateRows(t, hours))
TemplateEvents(t, hours)      == Of(RecentRows(hours), t)
LevelDistribution(hours)      ==
  [level \in {LevelOf[r.event] : r \in RecentRows(hours)} |->
     CountIn(Metadata, {r \in RecentRows(hours) : LevelOf[r.event] = level})]
NewTodayIds == Active({r \in RecentRows(Day \div Hour) : r.new}) \ {Unclustered}

DashboardTemplates(hours) ==
  {[template |-> r.template, service |-> ServiceOf[r.event],
    count |-> CountIn(ByTemplate, {u \in TemplateRows(r.template, hours) : ServiceOf[u.event] = ServiceOf[r.event]})] :
     r \in UNION {TemplateRows(t, hours) : t \in Templates}}

(* Those of the rows of some level, or of some service. *)
AcrossServices(level, service, hours) ==
  LET rows(t) == {r \in TemplateRows(t, hours) : /\ level \in {Every, LevelOf[r.event]}
                                                 /\ service \in {Every, ServiceOf[r.event]}}
  IN {[template |-> t, services |-> {ServiceOf[r.event] : r \in rows(t)}, count |-> CountIn(ByTemplate, rows(t))] :
        t \in {u \in Templates : rows(u) # {}}}

Sparkline(t, hours) ==
  [i \in {FiveStart(r.time) : r \in TemplateRows(t, hours)} |->
     CountIn(ByTemplate, {r \in TemplateRows(t, hours) : FiveStart(r.time) = i})]
TrendTotal(t, days) ==
  CountIn(ByDay, {r \in Of(RowsOf(ByDay), t) : DayStart(r.time) >= DayStart(now) - days * Day})

(* GET /dashboard/templates marks those that are new today. *)
TemplatesPanel(hours) ==
  {row @@ [isNew |-> row.template \in NewTodayIds] : row \in DashboardTemplates(hours)}

(* GET /templates/search: by the text, or by the distance of embeddings,   *)
(* of which no more than twice the limit are joined.                       *)
TemplateSearch(matching, hours) == {row \in AcrossServices(Every, Every, hours) : row.template \in matching}
SemanticSearch(nearest, hours, limit) ==
  LET found == TemplateSearch(ToSet(SubSeq(nearest, 1, Min({Len(nearest), 2 * limit}))), hours)
  IN ToSet(SubSeq(SetToSortSeq(found, LAMBDA a, b : a.count > b.count), 1, Min({Cardinality(found), limit})))

(* GET /templates/:id/detail, /services/:name/health and /overview.        *)
TemplateDetail(t, hours) ==
  {row @@ [sparkline |-> Sparkline(t, hours)] : row \in TemplateSearch({t}, hours)}
ServiceHealth(service, hours) ==
  {row @@ [topErrors |-> AcrossServices("ERROR", service, hours), volume |-> Volume(service, hours, 0)] :
     row \in {c \in ServiceCounts(hours) : c.service = service}}
OverviewComposite(hours) ==
  Overview(hours).now @@ [topErrors |-> AcrossServices("ERROR", Every, hours)]

(* GET /traces/:id and /templates/:id/related. *)
TraceEvents(trace, hours) == {r \in RecentRows(hours) : TraceOf[r.event] = trace}
TracesOf(t, hours)        == {TraceOf[r.event] : r \in TemplateEvents(t, hours)} \ {""}
RelatedPatterns(t, hours) ==
  Active(UNION {TraceEvents(trace, hours) : trace \in TracesOf(t, hours)}) \ {t, Unclustered}

(* GET /cost/analysis: a pattern that is more than its share of a service. *)
CostPatterns(hours) ==
  {<<r.template, ServiceOf[r.event], LevelOf[r.event]>> :
     r \in UNION {TemplateRows(t, hours) : t \in Templates}}
CountOfPattern(p, hours) ==
  CountIn(ByTemplate, {r \in TemplateRows(p[1], hours) : ServiceOf[r.event] = p[2] /\ LevelOf[r.event] = p[3]})
ServiceTotal(service, hours) ==
  MapThenSumSet(LAMBDA p : CountOfPattern(p, hours), {p \in CostPatterns(hours) : p[2] = service})
Classification(p, hours) ==
  LET share == 100 * CountOfPattern(p, hours)
      total == ServiceTotal(p[2], hours)
  IN CASE p[3] \in {"DEBUG", "TRACE"} /\ share > NoisePct * total -> "noise"
       [] p[3] \in {"INFO", "WARN"} /\ share > ReviewPct * total -> "review"
       [] OTHER -> "keep"
CostSummary(hours) ==
  LET Classed(c) == {p \in CostPatterns(hours) : Classification(p, hours) = c}
  IN [noise |-> Classed("noise"), review |-> Classed("review"), keep |-> Classed("keep"),
      reducible |-> MapThenSumSet(LAMBDA p : CountOfPattern(p, hours), Classed("noise") \union Classed("review")),
      total |-> MapThenSumSet(LAMBDA s : ServiceTotal(s, hours), {p[2] : p \in CostPatterns(hours)})]

-----------------------------------------------------------------------------
Shortest  == Min(Retentions \union {Ttl})
Lookbacks == {h \in 1..MaxTime : h * Hour <= Shortest}

(* No event is lost to a sweep, a TTL or the recovery before its time.     *)
RowsKept ==
  \A r \in Inserted : r.time >= now - Shortest => \E m \in RowsOf(Metadata) : m.event = r.event

(* The overview counts at least the rows of the hours it looks back on,    *)
(* and no more of them unless a batch was repeated or a row recovered; the *)
(* window compared with takes up where it ends; and the services add up.   *)
OverviewCovers ==
  \A h \in Lookbacks :
    /\ LET rows == {r \in RowsOf(Metadata) : HourStart(r.time) > now - h * Hour}
       IN /\ CountIn(Metadata, rows) <= Overview(h).now.total
          /\ doubled = {} => CountIn(Metadata, rows) = Overview(h).now.total
    /\ 2 * h \in Lookbacks =>
         Overview(h).now.total + Overview(h).previous.total
           = CountIn(ByService, {r \in RowsOf(ByService) : HourStart(r.time) >= now - 2 * h * Hour})
    /\ OverviewComposite(h).total = MapThenSumSet(LAMBDA c : c.logs, ServiceCounts(h))

(* The chart has every row of its window, and the templates' counts add up *)
(* to it but for the rows that are not clustered; no service has more logs *)
(* than its chart.                                                         *)
VolumeCovers ==
  \A h, offset \in {0} \union Lookbacks : h > 0 /\ h + offset \in Lookbacks =>
    /\ CountIn(Metadata, {r \in RowsOf(Metadata) : HourStart(r.time) > now - (h + offset) * Hour
                                                  /\ (offset > 0 => r.time <= now - offset * Hour)})
         <= Volume(Every, h, offset)
    /\ offset = 0 /\ VolumeTable(h, 0) = ByFive =>
         MapThenSumSet(LAMBDA t : TemplateCount(t, h), Templates)
           = CountIn(ByFive, VolumeRows(h, 0) \ Of(VolumeRows(h, 0), Unclustered))
    /\ \A s \in {ServiceOf[e] : e \in Events} : \A health \in ServiceHealth(s, h) : health.logs <= health.volume

(* The chart of clustering adds up to the snapshot, and both to the levels. *)
ClusteringAgrees ==
  \A h \in Lookbacks :
    LET health == ClusteringHealth(h)
    IN /\ health.total = health.clustered + health.unclustered
       /\ health.total = MapThenSumSet(LAMBDA i : health.trend[i].total, DOMAIN health.trend)
       /\ health.total = MapThenSumSet(LAMBDA l : LevelDistribution(h)[l], DOMAIN LevelDistribution(h))
       /\ health.unclustered = MapThenSumSet(LAMBDA i : health.trend[i].unclustered, DOMAIN health.trend)

(* A template that is listed has a detail and events to show, and its      *)
(* sparkline and its trend have all of its occurrences; what was new in    *)
(* the last day and is held is listed over a day, unless a bucket of five  *)
(* minutes began before it; and both ways of search find what matches.     *)
ListedHasEvents ==
  \A h \in Lookbacks :
    /\ \A row \in TemplatesPanel(h) :
         LET t == row.template
         IN /\ TemplateEvents(t, h) # {}
            /\ \E d \in TemplateDetail(t, h) :
                 d.count >= row.count /\ d.count = MapThenSumSet(LAMBDA i : d.sparkline[i], DOMAIN d.sparkline)
            /\ TemplateCount(t, h) <= TrendTotal(t, (h * Hour) \div Day + 1)
    /\ h * Hour = Day => \A r \in RecentRows(h) :
         r.new => FiveStart(r.time) <= now - Day \/ \E row \in TemplatesPanel(h) : row.template = r.template /\ row.isNew
    /\ LET nearest == SetToSeq(Templates)
       IN SemanticSearch(nearest, h, Len(nearest)) = TemplateSearch(Templates, h)

(* Templates are related to each other, through events of one trace.       *)
RelatedBothWays ==
  \A h \in Lookbacks, t, u \in Templates : t \in RelatedPatterns(u, h) <=> u \in RelatedPatterns(t, h)

(* What could be saved is part of what there is, which the patterns add    *)
(* up to.                                                                  *)
CostBounded ==
  \A h \in Lookbacks :
    LET cost == CostSummary(h)
    IN /\ cost.total = MapThenSumSet(LAMBDA t : TemplateCount(t, h), Templates)
       /\ cost.reducible <= cost.total
       /\ cost.reducible = cost.total <=> cost.keep = {}

(* Panels that read different tables agree, as far as repeated batches,    *)
(* recovery, the retention sweep and the TTLs let them.                    *)
CountsAgree ==
  TypeOK /\ RowsKept /\ OverviewCovers /\ VolumeCovers /\ ClusteringAgrees
    /\ ListedHasEvents /\ RelatedBothWays /\ CostBounded

(* An answer about changes is consistent though its queries run one by one *)
(* while rows arrive: no template is both new and resolved, unless time    *)
(* moved the window; and if nothing happened meanwhile the three lists are *)
(* disjoint, without a baseline everything is new, and a new template was  *)
(* not logged in the previous window.                                      *)
ChangesSound ==
  req.pc = "done" =>
    /\ req.since >= 0 \/ ~req.moved => req.new \intersect req.resolved = {}
    /\ req.still =>
         /\ req.new \intersect req.spike = {} /\ req.spike \intersect req.resolved = {}
         /\ req.baseline = "empty" =>
              req.spike = {} /\ req.resolved = {} /\ (nulls => req.new = Active(Current(req)))
         /\ \A r \in Filtered(Metadata, req) : r.template \in req.new =>
              ~(r.time < IF req.since >= 0 THEN req.since ELSE now - req.hours * Hour)
              \/ r.time < Five + (IF req.since >= 0 THEN 2 * req.since - now ELSE now - 2 * req.hours * Hour)

(* "Returns templates active in the current time window but absent in the  *)
(* equivalent previous window" (dashboard-changes-queries.ts:129).         *)
NewIsReported ==
  req.pc = "done" /\ req.still => Active(Current(req)) \ Active(Previous(req)) \subseteq req.new

(* "Table-level TTLs are set to the maximum tier (365d) so Scale customers *)
(* keep their data" (retention/sweep.ts:41).                               *)
KeptForRetention ==
  \A r \in RowsOf(ByDay) : r.time >= now - retention =>
    \E m \in RowsOf(Metadata) : m.event = r.event
=============================================================================
