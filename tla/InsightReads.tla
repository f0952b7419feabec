----------------------------- MODULE InsightReads -----------------------------
(***************************************************************************)
(* Correlations of templates and outliers of a service                     *)
(* (db/correlation-queries.ts, routes/correlation.ts).  Both compare an    *)
(* hour with the same hour of other days: the correlation is of what is    *)
(* left of the counts once the mean of the hour of the day is taken away,  *)
(* and the baseline of an outlier is the same hour of the days before.     *)
(* The unit of time is the interval of five minutes; fractions are kept    *)
(* as integers by multiplying them out.                                    *)
(***************************************************************************)
EXTENDS Integers, FiniteSets, FiniteSetsExt

CONSTANTS
  Templates, Errors,     (* of one service; those logged at ERROR            *)
  Hour, Day, Week,       (* in intervals                                     *)
  Lookback, OutlierHours,  (* hours a correlation, an outlier looks at       *)
  MinObservations, MinTogether, MinDays,  (* 6, 3 and 5 in the code          *)
  Start, MaxTime, MaxHits  (* bounds                                         *)

InsightsAssumption ==
  /\ {Hour, Day, Week, Lookback, OutlierHours} \subseteq Nat \ {0} /\ Day % Hour = 0
  /\ Errors \subseteq Templates /\ {MinObservations, MinTogether, MinDays, MaxTime, MaxHits} \subseteq Nat
  /\ Start >= Lookback * Hour

VARIABLES
  at,    (* the interval that is now                                         *)
  hits   (* occurrences per template and interval                            *)

vars == <<at, hits>>

Total(f, set) == MapThenSumSet(LAMBDA i : f[i], set)

TypeOK == at \in Start..MaxTime /\ hits \in [Templates -> [0..MaxTime -> 0..MaxHits]]

Init == at = Start /\ hits = [t \in Templates |-> [i \in 0..MaxTime |-> 0]]

(* An event, of now or late. *)
Log(t, i) ==
  /\ i <= at /\ MapThenSumSet(LAMBDA u : Total(hits[u], 0..MaxTime), Templates) < MaxHits
  /\ hits' = [hits EXCEPT ![t][i] = @ + 1] /\ UNCHANGED at

Tick == at < MaxTime /\ at' = at + 1 /\ UNCHANGED hits

Next == Tick \/ \E t \in Templates, i \in 0..MaxTime : Log(t, i)

Spec == Init /\ [][Next]_vars

-----------------------------------------------------------------------------
(* GET /templates/:id/correlations.                                        *)

HourOfDay(i) == (i % Day) \div Hour

(* The complete intervals of the last hours.                               *)
Grid == (at - Lookback * Hour)..(at - 1)

(* Mutant: the filter of the counts is as wide as the lookback from now.   *)
CountedFromNow(i) == i > at - Lookback * Hour

(* The counts begin where the grid does, though now is in the middle of an *)
(* interval.                                                               *)
Counted(i) == i > at - Lookback * Hour - 1

CountAt(t, i) == IF Counted(i) THEN hits[t][i] ELSE 0

SameHour(i) == {j \in Grid : HourOfDay(j) = HourOfDay(i)}
Scale       == FoldSet(LAMBDA i, n : n * i, 1, {Cardinality(SameHour(i)) : i \in Grid})

(* What is left of a count, times Scale.                                   *)
Residual(t, i) ==
  Scale * CountAt(t, i)
    - (Scale \div Cardinality(SameHour(i))) * MapThenSumSet(LAMBDA j : CountAt(t, j), SameHour(i))

Product(t, u) == MapThenSumSet(LAMBDA i : Residual(t, i) * Residual(u, i), Grid)

(* Enough intervals, enough of them with both, and a coefficient of at     *)
(* least 0.7; where a template is flat within its hours there is none.     *)
Correlated(t, u) ==
  /\ Cardinality(Grid) >= MinObservations
  /\ Cardinality({i \in Grid : CountAt(t, i) > 0 /\ CountAt(u, i) > 0}) >= MinTogether
  /\ Product(t, t) * Product(u, u) > 0
  /\ 100 * Product(t, u) * Product(t, u) >= 49 * Product(t, t) * Product(u, u)

Correlations(t) == {u \in Templates \ {t} : Correlated(t, u)}

Direction(t, u) == IF Product(t, u) >= 0 THEN "positive" ELSE "negative"

-----------------------------------------------------------------------------
(* GET /services/:name/outlier.                                            *)

LogsIn(hour)   == MapThenSumSet(LAMBDA t : Total(hits[t], hour..(hour + Hour - 1) \intersect 0..MaxTime), Templates)
ErrorsIn(hour) == MapThenSumSet(LAMBDA t : Total(hits[t], hour..(hour + Hour - 1) \intersect 0..MaxTime), Errors)

(* service_stats has a row for an hour with logs. *)
Hourly   == {h \in 0..at : h % Hour = 0 /\ h > at - Week /\ LogsIn(h) > 0}

Baseline == {h \in Hourly : HourOfDay(h) = HourOfDay(at) /\ h <= at - OutlierHours * Hour}
Looked   == {h \in Hourly : h > at - OutlierHours * Hour}

(* computeOutlier: (rate - mean) / deviation, compared with 2 and 1.5; no  *)
(* deviation is no outlier.                                                *)
Verdict ==
  LET n     == Cardinality(Baseline)
      sum   == MapThenSumSet(ErrorsIn, Baseline)
      m     == Max({1, Cardinality(Looked)})
      above == n * MapThenSumSet(ErrorsIn, Looked) - m * sum
      spread == n * MapThenSumSet(LAMBDA h : ErrorsIn(h) * ErrorsIn(h), Baseline) - sum * sum
      Beyond(tenths) == above > 0 /\ spread > 0 /\ 100 * above * above > tenths * tenths * m * m * spread
  IN IF n < MinDays THEN "insufficient_data"
     ELSE IF Beyond(20) THEN "outlier" ELSE IF Beyond(15) THEN "elevated" ELSE "normal"

-----------------------------------------------------------------------------
(* The grid has no interval whose count was left out.                      *)
NoPhantom == \A t \in Templates, i \in Grid : CountAt(t, i) = hits[t][i]

(* Correlation goes both ways, needs common intervals, and is not found    *)
(* between templates that only follow the daily rhythm; twins that vary    *)
(* within an hour are found.                                               *)
FlatWithinHours(t) == \A i \in Grid : \A j \in SameHour(i) : hits[t][i] = hits[t][j]

CorrelationsSound ==
  \A t, u \in Templates : t # u =>
    /\ u \in Correlations(t) <=> t \in Correlations(u)
    /\ FlatWithinHours(t) => u \notin Correlations(t)
    /\ (/\ \A i \in Grid : hits[t][i] = hits[u][i]
        /\ ~FlatWithinHours(t) /\ Cardinality(Grid) >= MinObservations
        /\ Cardinality({i \in Grid : hits[t][i] > 0}) >= MinTogether)
         => u \in Correlations(t) /\ Direction(t, u) = "positive"

(* What is being looked at is not its own baseline; and with a baseline of *)
(* at most five days, an outlier has more errors than each of them.        *)
OutlierSound ==
  /\ Baseline \intersect Looked = {}
  /\ Verdict = "outlier" /\ Cardinality(Baseline) <= 5 =>
       \A h \in Baseline : MapThenSumSet(ErrorsIn, Looked) > Cardinality(Looked) * ErrorsIn(h)

InsightsSound == TypeOK /\ NoPhantom /\ CorrelationsSound /\ OutlierSound

(* An hour with errors, where the days before had none, is no outlier      *)
(* whatever their number: the deviation is zero.                           *)
ErrorsAreNoticed ==
  (/\ Verdict # "insufficient_data" /\ MapThenSumSet(ErrorsIn, Looked) > 0
   /\ \A h \in Baseline : ErrorsIn(h) = 0) => Verdict \in {"elevated", "outlier"}
=============================================================================
