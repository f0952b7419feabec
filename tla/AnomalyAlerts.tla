---------------------------- MODULE AnomalyAlerts ----------------------------
(***************************************************************************)
(* The anomaly scorer (pipeline/anomaly-scorer.ts, anomaly-strategy.ts),   *)
(* fed by the ingest pipeline, and the two evaluators that read it: watched *)
(* templates (watches/alert-evaluator.ts) and silent services              *)
(* (watches/silence-evaluator.ts), for one tenant.  Time is the number of  *)
(* the five-minute interval.  An evaluation awaits nothing but a dispatch  *)
(* that does not wait, so it is one step.                                  *)
(***************************************************************************)
EXTENDS Integers, FiniteSets, FiniteSetsExt

CONSTANTS
  Templates, Services, ServiceOf,  (* templates, each logged by one service  *)
  Hours, HourOf(_),                (* the hour of day of an interval         *)
  Baselines,     (* what the baseline query may return: hour to template to count *)
  Watched,       (* templates a user watches                                 *)
  ColdStart, Warmup, Forgotten,    (* in intervals: coldStartMs, warmupMs, 2 h *)
  WarmupThreshold, SteadyThreshold, NewTemplateThreshold,
  DropThreshold, MinExpectedForSilence,
  Cooldown,      (* cooldownMs of both evaluators, in intervals              *)
  MaxTime,       (* bound: intervals                                         *)
  MaxCount,      (* bound: events of a template in one interval              *)
  MaxRestarts    (* bound: exits of the API process                          *)

ASSUME AnomalyAssumption ==
  /\ ServiceOf \in [Templates -> Services] /\ Watched \subseteq Templates
  /\ Baselines \subseteq [Hours -> [Templates -> Nat]]
  /\ \A i \in 0..MaxTime : HourOf(i) \in Hours
  /\ {ColdStart, Warmup, Forgotten, WarmupThreshold, SteadyThreshold, NewTemplateThreshold,
      DropThreshold, MinExpectedForSilence, Cooldown, MaxTime, MaxCount, MaxRestarts} \subseteq Nat

Never == 0 - 1
Times == 0..MaxTime

VARIABLES
  now,
  counts,     (* intervalCounters of the current and the previous interval;  *)
              (* older ones are pruned, and no one reads them                *)
  baseline,   (* baselineByHour                                              *)
  tracked,    (* warmupTracker: when a service was first and last seen       *)
  firing,     (* SilenceEvaluator.firingServices                             *)
  coolSilent, coolSpike,  (* cooldowns of the two evaluators                 *)
  maintenance,  (* TenantSettingsStore.isInMaintenance                       *)
  logged,     (* history: events of a service in both intervals, counted or not *)
  moved,      (* history: firing services whose expected count changed, or   *)
              (* that logged, since they were last found silent              *)
  said,       (* history: what the last step dispatched                      *)
  restarts

scorer    == <<counts, baseline, tracked>>
evaluator == <<firing, coolSilent, coolSpike>>
vars      == <<now, scorer, evaluator, maintenance, logged, moved, said, restarts>>

Intervals == {"now", "before"}
Unseen    == [first |-> Never, last |-> Never]
NoBaseline == [h \in Hours |-> [t \in Templates |-> 0]]
NoCounts(S) == [i \in Intervals |-> [x \in S |-> 0]]

TypeOK ==
  /\ now \in Times
  /\ counts \in [Intervals -> [Templates -> 0..MaxCount]]
  /\ baseline \in Baselines \union {NoBaseline}
  /\ tracked \in [Services -> [first : Times, last : Times] \union {Unseen}]
  /\ firing \subseteq Services
  /\ coolSilent \in [Services -> Times \union {Never}]
  /\ coolSpike \in [Templates -> Times \union {Never}]
  /\ maintenance \in BOOLEAN
  /\ logged \in [Intervals -> [Services -> 0..(MaxCount * Cardinality(Templates))]]
  /\ moved \subseteq Services
  /\ said \in [silent : SUBSET Services, resolved : SUBSET Services, spikes : SUBSET Templates]
  /\ restarts \in 0..MaxRestarts

Quiet == [silent |-> {}, resolved |-> {}, spikes |-> {}]

Init ==
  /\ counts = NoCounts(Templates) /\ baseline = NoBaseline
  /\ tracked = [s \in Services |-> Unseen]
  /\ firing = {} /\ moved = {} /\ said = Quiet
  /\ coolSilent = [s \in Services |-> Never] /\ coolSpike = [t \in Templates |-> Never]
  /\ now = 0 /\ maintenance = FALSE /\ logged = NoCounts(Services) /\ restarts = 0

-----------------------------------------------------------------------------
(* The scorer.                                                             *)

ActiveTenant == \E s \in Services : tracked[s] # Unseen
TrackedServices == {s \in Services : tracked[s] # Unseen}
Age(s) == now - tracked[s].first
Warm(s) == s \in TrackedServices /\ Age(s) >= ColdStart

Baseline(t) == baseline[HourOf(now)][t]

(* RatioThresholdStrategy.score is 1 or more; with no baseline, the count  *)
(* is held against an absolute threshold.                                  *)
Anomalous(t, count) ==
  IF Baseline(t) = 0 THEN count > NewTemplateThreshold
  ELSE count >= Max({Baseline(t), 1})
                  * (IF Age(ServiceOf[t]) < Warmup THEN WarmupThreshold ELSE SteadyThreshold)

(* recordAndScore, once per clustered event; the first event of a service  *)
(* and those of its cold start are not counted.                            *)
RecordAndScore(t) ==
  LET s == ServiceOf[t]
  IN /\ counts["now"][t] < MaxCount /\ logged["now"][s] < MaxCount
     /\ tracked' = [tracked EXCEPT ![s] =
                      IF @ = Unseen THEN [first |-> now, last |-> now] ELSE [@ EXCEPT !.last = now]]
     /\ counts' = IF Warm(s) THEN [counts EXCEPT !["now"][t] = @ + 1] ELSE counts
     /\ logged' = [logged EXCEPT !["now"][s] = @ + 1]
     /\ moved' = moved \union ({s} \intersect firing)
     /\ said' = Quiet
     /\ UNCHANGED <<now, baseline, evaluator, maintenance, restarts>>

(* getWatchedScores: watched templates counted in the current interval.    *)
WatchedScores ==
  {t \in Watched : counts["now"][t] > 0 /\ Warm(ServiceOf[t]) /\ Anomalous(t, counts["now"][t])}

(* getServiceSilenceScores: the previous interval is complete, the current *)
(* one is not.                                                             *)
SumOver(s, of) == MapThenSumSet(LAMBDA t : of[t], {t \in Templates : ServiceOf[t] = s})
Expected(s) == SumOver(s, baseline[HourOf(now - 1)])

(* Mutant: the counts of the interval in progress. *)
ActualSoFar(s) == SumOver(s, counts["now"])

Actual(s) == SumOver(s, counts["before"])

SilenceScores ==
  {s \in Services : /\ Expected(s) > 0 /\ Expected(s) >= MinExpectedForSilence
                    /\ Warm(s)
                    /\ Actual(s) * DropThreshold < Expected(s)}

(* refreshBaselines replaces what the tenant has; a query that fails leaves *)
(* it.  A tenant with no tracked service is not asked for.                 *)
Refreshed(b) == IF ActiveTenant THEN {b, baseline} ELSE {baseline}

(* pruneOldCounters drops services that were not heard for two hours.      *)
Pruned == [s \in Services |-> IF now - tracked[s].last > Forgotten THEN Unseen ELSE tracked[s]]

(* The timer of the scorer refreshes, then prunes.                         *)
ScorerTick(b) ==
  /\ baseline' \in Refreshed(b)
  /\ tracked' = Pruned
  /\ moved' = moved \union (IF baseline' = baseline THEN {} ELSE firing)
  /\ said' = Quiet
  /\ UNCHANGED <<now, counts, evaluator, maintenance, logged, restarts>>

NextInterval ==
  /\ now < MaxTime /\ now' = now + 1
  /\ counts' = [i \in Intervals |-> IF i = "before" THEN counts["now"] ELSE [t \in Templates |-> 0]]
  /\ logged' = [i \in Intervals |-> IF i = "before" THEN logged["now"] ELSE [s \in Services |-> 0]]
  /\ moved' = moved \union
       {s \in firing : baseline[HourOf(now)] # baseline[HourOf(now - 1)]}
  /\ said' = Quiet
  /\ UNCHANGED <<baseline, tracked, evaluator, maintenance, restarts>>

-----------------------------------------------------------------------------
(* The evaluators.                                                         *)

Cooling(last) == last # Never /\ now - last < Cooldown
PrunedCooldowns(cool) ==
  [x \in DOMAIN cool |-> IF now - cool[x] > 2 * Cooldown THEN Never ELSE cool[x]]

(* AlertEvaluator.evaluate, whether or not the tenant is in maintenance.   *)
EvaluateWatches ==
  LET alerted == {t \in WatchedScores : ~Cooling(coolSpike[t])}
  IN /\ coolSpike' = PrunedCooldowns([t \in Templates |-> IF t \in alerted THEN now ELSE coolSpike[t]])
     /\ said' = [Quiet EXCEPT !.spikes = alerted]
     /\ UNCHANGED <<now, scorer, firing, coolSilent, maintenance, logged, moved, restarts>>

(* Mutant: a service that was forgotten is reported as resolved. *)
ResolvedServices(silentNow) == firing \ silentNow

(* A service that is no longer tracked drops out without a word.           *)
Resolved(silentNow) == (firing \ silentNow) \intersect TrackedServices

(* SilenceEvaluator.evaluate: a tenant in maintenance is passed over; one  *)
(* without any tracked service is not even considered, and its marks drop. *)
EvaluateSilence ==
  LET considered == ActiveTenant /\ ~maintenance
      silentNow  == SilenceScores
      alerted    == {s \in silentNow : ~Cooling(coolSilent[s])}
  IN /\ firing' = IF ~ActiveTenant THEN {} ELSE IF maintenance THEN firing ELSE silentNow
     /\ coolSilent' = PrunedCooldowns(
          [s \in Services |-> IF considered /\ s \in alerted THEN now ELSE coolSilent[s]])
     /\ said' = IF considered
                THEN [Quiet EXCEPT !.silent = alerted, !.resolved = Resolved(silentNow)] ELSE Quiet
     /\ moved' = IF considered THEN {s \in silentNow : logged["now"][s] > 0} ELSE moved \intersect firing'
     /\ UNCHANGED <<now, scorer, coolSpike, maintenance, logged, restarts>>

SetMaintenance ==
  /\ maintenance' = ~maintenance /\ said' = Quiet
  /\ UNCHANGED <<now, scorer, evaluator, logged, moved, restarts>>

Restart ==
  /\ restarts < MaxRestarts /\ restarts' = restarts + 1
  /\ counts' = NoCounts(Templates) /\ baseline' = NoBaseline
  /\ tracked' = [s \in Services |-> Unseen]
  /\ firing' = {} /\ moved' = {} /\ said' = Quiet
  /\ coolSilent' = [s \in Services |-> Never] /\ coolSpike' = [t \in Templates |-> Never]
  /\ UNCHANGED <<now, maintenance, logged>>

Next ==
  \/ \E t \in Templates : RecordAndScore(t)
  \/ \E b \in Baselines : ScorerTick(b)
  \/ NextInterval \/ EvaluateWatches \/ EvaluateSilence \/ SetMaintenance \/ Restart

Spec == Init /\ [][Next]_vars

-----------------------------------------------------------------------------
(* A service is reported silent only if it logged less than the threshold  *)
(* in the last complete interval, provided its cold start ended before     *)
(* that interval began.                                                    *)
SilentMeansQuiet ==
  \A s \in said.silent :
    now - 1 >= tracked[s].first + ColdStart => logged["before"][s] * DropThreshold < Expected(s)

(* A service is reported as recovered only if it is still tracked, and     *)
(* logged, or was expected to log something else, since it was found silent. *)
ResolvedHasReason ==
  [][\A s \in said'.resolved : s \in moved /\ tracked[s] # Unseen]_vars

(* "A service's current-interval log count has dropped far below its       *)
(* expected baseline": a silent service is quiet, also when it has only    *)
(* just left the cold start.                                               *)
SilentIsQuiet == \A s \in said.silent : logged["before"][s] * DropThreshold < Expected(s)
=============================================================================
