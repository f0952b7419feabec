------------------------------ MODULE MCConsole ------------------------------
(***************************************************************************)
(* What an operator watches and changes: the live tail of the API; four    *)
(* parts of the dashboard, the tail page, the connector form, the cache of *)
(* answers and the signed-in user; and the simulator, live or filling in   *)
(* history.  They share no state: a behaviour is about one of them, and    *)
(* the others stay as they started.                                        *)
(***************************************************************************)
EXTENDS TailBuffer

CONSTANTS
  t1, t2,                                      (* tenants                  *)
  Visits, Sources, Filters,                    (* of TailClient            *)
  Ids,                                         (* of ConnectorForm         *)
  f1                                           (* the filters a page that  *)
                                               (* is not watched shows     *)

VARIABLES
  part,
  visit, visited, filters, status, awaiting, source, armed, streams, shown,
  here, visits, open, type, form, draft, asking, saving, connectors, stacks, discarded, overlapped,
  server, mounted, cache, fetch, mutations, confirmed, joined,
  row, cookie, user, loading, wizard, requests, elsewhere, unsure,
  options, mode, engines, rate, timer, entered, version, posting, hour, emitted, given,
  buffers, flights, files, failed, stopped, interrupted, closing, closed, process, raced,
  deployAt, bucket, todo, burst, batches, sending, sent, refused, total, remaining, marker

pageVars    == <<visit, visited, filters, status, awaiting, source, armed, streams, shown>>
formVars    == <<here, visits, open, type, form, draft, asking, saving, connectors, stacks,
                 discarded, overlapped>>
cacheVars   == <<server, mounted, cache, fetch, mutations, confirmed, joined>>
sessionVars == <<row, cookie, user, loading, wizard, requests, elsewhere, unsure>>
liveVars    == <<options, mode, rate, timer, entered, version, posting, hour, emitted, given,
                 buffers, flights, files, failed, stopped, interrupted, closing, closed,
                 process, raced>>
historyVars == <<deployAt, bucket, todo, burst, batches, sending, sent, refused, total, remaining,
                 marker>>
simVars     == <<engines, liveVars, historyVars>>
consoleVars == <<pageVars, formVars, cacheVars, sessionVars>>

(* Every reader belongs to the first tenant; the second makes the pressure. *)
FirstTenant == [r \in Readers |-> t1]

Page    == INSTANCE TailClient WITH MaxFails <- 2
Form    == INSTANCE ConnectorForm WITH MaxVisits <- 2
Answers == INSTANCE QueryCache WITH
  Queries <- {"costAnalysis", "costThresholds"}, Mutations <- {"saveCostThresholds"},
  MaxRetries <- 1, MaxVersion <- 1, pending <- mutations
Session == INSTANCE ConsoleSession WITH MaxVersion <- 4

(* A service that deploys, and one that logs no errors.                    *)
Simulated == {"orders", "static"}
Weights == [s \in Simulated |->
  [k \in {"normal", "error"} |-> IF k = "normal" THEN 6 ELSE IF s = "orders" THEN 2 ELSE 0]]
Spikes == [s \in Simulated |-> [k \in {"normal", "error"} |-> IF s = "orders" THEN 1 ELSE 0]]
Multiplier == [s \in Simulated |-> 3]

Live == INSTANCE Simulator WITH
  Services <- Simulated, Base <- Weights, Extra <- Spikes, Times <- Multiplier,
  Deploying <- "orders", MaxEvents <- 3, MaxHour <- 1
History == INSTANCE Backfill WITH
  Services <- Simulated, Base <- Weights, Extra <- Spikes, Times <- Multiplier,
  Minute <- 2, Now <- 9, DeployTimes <- 0..8, Burst <- 3, Planted <- "orders", MaxBatch <- 2,
  PerMinute <- 0..3, posting <- sending, failed <- refused

ASSUME /\ Page!TailClientAssumption /\ Form!ConnectorFormAssumption
       /\ Live!TemplateEngineAssumption /\ Live!SimulatorAssumption /\ History!BackfillAssumption

ConsoleInit ==
  /\ part \in {"tail", "page", "form", "cache", "session", "live", "history"}
  /\ Init /\ Page!Init /\ Form!Init /\ Answers!Init /\ Session!Init
  /\ Live!Init /\ History!Init
  /\ part = "page" \/ filters = f1
  /\ part = "session" \/ (cookie = 0 /\ ~row.must /\ row.totp = "off")
  /\ part = "live" \/ options = [mode |-> "steady", dry |-> TRUE, s3 |-> FALSE, timed |-> FALSE]
  /\ part = "history" \/ deployAt = 0

ConsoleNext ==
  \/ part = "tail" /\ Next /\ UNCHANGED <<part, consoleVars, simVars>>
  \/ part = "page" /\ Page!Next /\ UNCHANGED <<part, vars, formVars, cacheVars, sessionVars, simVars>>
  \/ part = "form" /\ Form!Next /\ UNCHANGED <<part, vars, pageVars, cacheVars, sessionVars, simVars>>
  \/ part = "cache" /\ Answers!Next /\ UNCHANGED <<part, vars, pageVars, formVars, sessionVars, simVars>>
  \/ part = "session" /\ Session!Next /\ UNCHANGED <<part, vars, pageVars, formVars, cacheVars, simVars>>
  \/ part = "live" /\ Live!Next /\ UNCHANGED <<part, vars, consoleVars, historyVars>>
  \/ part = "history" /\ History!Next /\ UNCHANGED <<part, vars, consoleVars, liveVars>>

ConsoleSpec == ConsoleInit /\ [][ConsoleNext]_<<part, vars, consoleVars, simVars>>

-----------------------------------------------------------------------------
(* The events of all tenants stay within the ceiling, and their count      *)
(* never falls short of them.                                              *)
TailSound == CountSound /\ RetainedWithinCeiling

(* What the user does is kept and shown: a stream of the tail page can be  *)
(* closed and lists what came through one subscription, the id of a stack  *)
(* is kept until a connector holds it, what was saved is on the pages made *)
(* from it, and so is the user's own account.                              *)
ConsoleSound ==
  /\ part = "page" => Page!TypeOK /\ Page!StreamsSound
  /\ part = "form" => Form!TypeOK /\ Form!StackRecoverable
  /\ part = "cache" => Answers!TypeOK /\ Answers!OwnWritesShown
  /\ part = "session" => Session!TypeOK /\ Session!ShownAsStored

(* The simulator draws what its mode is about, writes an event once to     *)
(* each place it goes to, and plants its burst where it says it does.      *)
SimulatorSound ==
  /\ part = "live" => Live!TypeOK /\ Live!ModesSound /\ Live!DualWrite
  /\ part = "history" => History!TypeOK /\ History!Counted /\ History!BurstPlanted
=============================================================================
