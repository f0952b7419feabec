------------------------------ MODULE MCAlerting ------------------------------
(***************************************************************************)
(* What operators are told: the anomaly scorer with its evaluators, the    *)
(* threshold rules, the delivery of what they dispatch, and the event      *)
(* feeds of the two services.  They share no state, and no part waits for  *)
(* another, so a behaviour is about one of them, and the others stay as    *)
(* they started.                                                           *)
(***************************************************************************)
EXTENDS AnomalyAlerts, Alerts, TLC

CONSTANTS t1, t2, s1, s2   (* templates and services                       *)

VARIABLES
  part,
  stage, clock, seen, feed, ships, asked, hushed,
  life, attempt, client, printed, shipped, failures, raised

feedVars == <<stage, clock, seen, feed, ships, asked, hushed>>
lifeVars == <<life, attempt, client, printed, shipped, failures, raised>>

(* An hour of three intervals; the first service has a baseline.           *)
Service == t1 :> s1 @@ t2 :> s2
Hour(i) == ((i + 3) \div 3) % 2
BaselineSet ==
  LET base(a, b, c) == 0 :> (t1 :> a @@ t2 :> b) @@ 1 :> (t1 :> c @@ t2 :> b)
  IN {base(2, 1, 0), base(2, 1, 2)}

(* Each rule is a group of its own.                                        *)
OwnGroup == [r \in Rules |-> r]

(* Values at every depth; and a configuration with nothing to hide.        *)
FieldSets == {
  {[path |-> <<"forbidden">>, leaf |-> "text"], [path |-> <<"plain", "forbidden">>, leaf |-> "text"],
   [path |-> <<"plain", "stack">>, leaf |-> "trace"], [path |-> <<"plain">>, leaf |-> "trace"],
   [path |-> <<"plain", "plain", "forbidden">>, leaf |-> "text"]},
  {[path |-> <<"plain">>, leaf |-> "text"]}}

Feed == INSTANCE InternalEvents WITH
  Routes <- {"/ingest", "/tail"}, Tenants <- {"a", "b"}, Shapes <- FieldSets,
  Interval <- 2, MaxCache <- 1, MaxTime <- 4, MaxEvents <- 4,
  phase <- stage, now <- clock, cache <- seen, lines <- feed

Redact(f) == Feed!Redacted(f)
Strip(f) == Feed!Stripped(f)
Summarise(f) == Feed!Summary(f)
Life == INSTANCE ClustererEvents WITH
  Fields <- FieldSets, Redacted <- Redact, Stripped <- Strip, Summary <- Summarise,
  MaxAttempts <- 5, MaxFailures <- 1, phase <- life, lines <- printed, rows <- shipped

ASSUME Feed!InternalEventsAssumption /\ Life!ClustererEventsAssumption

AlertingInit ==
  /\ part \in {"anomalies", "thresholds", "delivery", "feed", "life"}
  /\ Init /\ Delivery!Init /\ Feed!Init /\ Life!Init
  /\ Thresholds!Init /\ (part = "thresholds" \/ \A r \in Rules : rules[r] = Thresholds!Off)

AlertingNext ==
  \/ part = "anomalies" /\ Next /\ UNCHANGED <<part, ruleVars, deliveryVars, exits, feedVars, lifeVars>>
  \/ part = "thresholds" /\ Thresholds!Next /\ UNCHANGED <<part, vars, deliveryVars, feedVars, lifeVars>>
  \/ part = "delivery" /\ Delivery!Next /\ UNCHANGED <<part, vars, ruleVars, feedVars, lifeVars>>
  \/ part = "feed" /\ Feed!Next /\ UNCHANGED <<part, vars, ruleVars, deliveryVars, exits, lifeVars>>
  \/ part = "life" /\ Life!Next /\ UNCHANGED <<part, vars, ruleVars, deliveryVars, exits, feedVars>>

AlertingSpec ==
  /\ AlertingInit
  /\ [][AlertingNext]_<<part, vars, ruleVars, deliveryVars, exits, feedVars, lifeVars>>

AlertingSymmetry == Permutations(Evaluations) \union Permutations(Rules)

-----------------------------------------------------------------------------
(* A service is reported silent only if it logged too little in an         *)
(* interval that was counted from its beginning, and as recovered only for *)
(* a reason.                                                               *)
ToldWithReason == [](part = "anomalies" => TypeOK /\ SilentMeansQuiet) /\ ResolvedHasReason

(* An event is told of once for every reason to, or coalesced with one of  *)
(* its kind; nothing that is to be kept leaves with it; and the clusterer's*)
(* feed tells the life of its process.                                     *)
EventsSound ==
  /\ part = "feed" => Feed!TypeOK /\ Feed!NoEcho /\ Feed!Coalesced /\ Feed!Clean
  /\ part = "life" => Life!TypeOK /\ Life!FeedTellsLife
=============================================================================
