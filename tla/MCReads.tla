------------------------------ MODULE MCReads ------------------------------
(***************************************************************************)
(* What the API reads back, in four parts that share no state: a drill     *)
(* down to raw logs; the panels of the dashboard under retention and       *)
(* recovery; the panel of changes, on another instance; and correlations   *)
(* and outliers.  A behaviour is about one of them, and the others stay as *)
(* they started.                                                           *)
(***************************************************************************)
EXTENDS Integers, FiniteSets, TLC

CONSTANTS
  a1, a2, k1, k2, k3, s3, fs, es, loki,        (* of RawLogs               *)
  e1, e2, t1, t2                               (* of the others            *)

VARIABLES
  part,
  table, files, backend, drill, tested, drills, changes,
  now, tables, deploys, retention, sweep, nulls, req, repeats, asks, doubled,
  at, hits

drillVars   == <<table, files, backend, drill, tested, drills, changes>>
panelVars   == <<now, tables, deploys, retention, sweep, nulls, req, repeats, asks, doubled>>
insightVars == <<at, hits>>

Objects == {a1, a2, k1, k2, k3}
Hour    == a1 :> 1 @@ a2 :> 2 @@ k1 :> 0 @@ k2 :> 1 @@ k3 :> 2
Lines   == [o \in Objects |-> IF o = k3 THEN 2 ELSE 1]
Sources == {s3, fs, es, loki}
Type    == s3 :> "s3" @@ fs :> "filesystem" @@ es :> "elasticsearch" @@ loki :> "loki"

Drill == INSTANCE RawLogs WITH
  Archived <- {a1, a2}, Stored <- {k1, k2, k3},
  HourOf <- Hour, LinesOf <- Lines, Connectors <- Sources, TypeOf <- Type,
  Now <- 2, Hours <- {1, 2}, Limits <- {3}, MaxFiles <- 2, MaxRedirects <- 1,
  MaxAsks <- 1, MaxChanges <- 1, req <- drill, asks <- drills

Template == [e \in {e1, e2} |-> t1]
Service  == [e \in {e1, e2} |-> "a"]
Level    == e1 :> "ERROR" @@ e2 :> "INFO"
Trace    == [e \in {e1, e2} |-> "x"]
ByHours  == {[hours |-> 1, since |-> -1, service |-> "every", levels |-> {}]}

(* Tables that outlive a short retention; time enough for a sweep.         *)
Counts == INSTANCE DashboardReads WITH
  Events <- {e1, e2}, TemplateOf <- Template, ServiceOf <- Service, LevelOf <- Level, TraceOf <- Trace,
  Five <- 2, Hour <- 4, Day <- 8, Ttl <- 8, FiveTtl <- 4, Retentions <- {8, 16}, MaxRetention <- 16,
  MinResolved <- 1, Sparse <- 2, Threshold <- 1, MinBaseline <- 0, NoisePct <- 5, ReviewPct <- 10,
  Nulls <- {FALSE}, Start <- 5, MaxTime <- 9, MaxRepeats <- 1, MaxAsks <- 0, MaxDeploys <- 0,
  Lateness <- {0, 5}, DeployTimes <- {}, Asks <- {}

(* A request for changes by hours, or by one of two deploys.               *)
Changes == INSTANCE DashboardReads WITH
  Events <- {e1, e2}, TemplateOf <- Template, ServiceOf <- Service, LevelOf <- Level, TraceOf <- Trace,
  Five <- 2, Hour <- 4, Day <- 8, Ttl <- 16, FiveTtl <- 16, Retentions <- {16}, MaxRetention <- 16,
  MinResolved <- 1, Sparse <- 2, Threshold <- 1, MinBaseline <- 0, NoisePct <- 5, ReviewPct <- 10,
  Nulls <- {FALSE, TRUE}, Start <- 5, MaxTime <- 8, MaxRepeats <- 0, MaxAsks <- 1, MaxDeploys <- 1,
  Lateness <- {0, 4}, DeployTimes <- {6, 9},
  Asks <- ByHours

Insights == INSTANCE InsightReads WITH
  Templates <- {t1, t2}, Errors <- {t1}, Hour <- 2, Day <- 4, Week <- 12, Lookback <- 2,
  OutlierHours <- 1, MinObservations <- 3, MinTogether <- 1, MinDays <- 2,
  Start <- 8, MaxTime <- 10, MaxHits <- 4

ASSUME /\ Drill!RawLogsAssumption /\ Counts!ReadsAssumption /\ Changes!ReadsAssumption
       /\ Insights!InsightsAssumption

ReadsInit ==
  /\ Drill!Init /\ Insights!Init
  /\ \/ part \in {"drill", "counts", "insights"} /\ Counts!Init /\ (part = "counts" \/ retention = 8)
     \/ part = "changes" /\ Changes!Init
  /\ part = "drill" \/ (table = <<>> /\ files = {})

ReadsNext ==
  \/ part = "drill" /\ Drill!Next /\ UNCHANGED <<part, panelVars, insightVars>>
  \/ part = "counts" /\ Counts!Next /\ UNCHANGED <<part, drillVars, insightVars>>
  \/ part = "changes" /\ Changes!Next /\ UNCHANGED <<part, drillVars, insightVars>>
  \/ part = "insights" /\ Insights!Next /\ UNCHANGED <<part, drillVars, panelVars>>

ReadsSpec == ReadsInit /\ [][ReadsNext]_<<part, drillVars, panelVars, insightVars>>

-----------------------------------------------------------------------------
(* What a drill down answers, and says it left out, is what was there.     *)
DrillDownSound == part = "drill" => Drill!DrillDownSound

(* The panels agree with each other and with the events held, and the      *)
(* panel of changes with the two windows it compares.                      *)
DashboardSound ==
  /\ part = "counts" => Counts!CountsAgree
  /\ part = "changes" => Changes!ChangesSound

(* Correlations and outliers are of the hours they speak of.               *)
InsightsSound == part = "insights" => Insights!InsightsSound
=============================================================================
