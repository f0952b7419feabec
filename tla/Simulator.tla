------------------------------ MODULE Simulator ------------------------------
(***************************************************************************)
(* The live simulator (index.ts, runner.ts, scheduler.ts, s3-writer.ts):   *)
(* one process that draws events from the engines of its services, gives   *)
(* each to the service's transport and, if asked, to a writer of S3 files, *)
(* while a mode controller changes what the engines draw.  It stops at the *)
(* end of its duration or on a signal.                                     *)
(*                                                                         *)
(* A transport is what it was given and whether closeAsync is over; its    *)
(* inside is BufferedTransport.                                            *)
(***************************************************************************)
EXTENDS TemplateEngine, Sequences, SequencesExt, FiniteSets

CONSTANTS
  Deploying,   (* deployService: first service with a spike, or NoService  *)
  MaxEvents,   (* bound: events and mode changes together                  *)
  MaxHour      (* bound: hours that pass                                   *)

NoService == "no service"
Modes == {"steady", "deploy-spike", "error-storm", "quiet", "chaos"}

SimulatorAssumption == Deploying \in Services \union {NoService}

VARIABLES
  options,     (* mode, dryRun, s3Bucket given, duration given             *)
  mode, engines, rate,
  timer,       (* of the mode controller                                   *)
  entered,     (* mode changes, and how many of them into a deploy spike   *)
  version,     (* deployVersion                                            *)
  posting,     (* deploy markers under way                                 *)
  hour, emitted,
  given,       (* what each transport was given                            *)
  buffers,     (* of the S3 writer: a batch per prefix, in Map order       *)
  flights,     (* calls of flushAll: the batches left, and whether close   *)
               (* made the call                                            *)
  files,       (* batches written                                          *)
  failed,      (* batches a failed flush took along                        *)
  stopped, interrupted,
  closing,     (* transports whose closeAsync is awaited                   *)
  closed,      (* S3Writer.close returned, or there is no writer           *)
  process,
  raced        (* a flush was under way when the writer was closed, a      *)
               (* signal came after stop had begun, or close failed        *)

modeVars  == <<mode, engines, rate, timer, entered, version>>
writeVars == <<buffers, flights, files, failed>>
stopVars  == <<stopped, interrupted, closing, closed, process, raced>>
vars == <<options, modeVars, posting, hour, emitted, given, writeVars, stopVars>>

Batch == [prefix : Services \X (0..MaxHour), events : Seq(1..MaxEvents)]

TypeOK ==
  /\ options \in [mode : Modes, dry : BOOLEAN, s3 : BOOLEAN, timed : BOOLEAN]
  /\ mode \in Modes /\ engines \in [Services -> Engine] /\ rate \in {"base", "tenth"}
  /\ timer \in {"none", "steady", "event"} /\ entered \in [modes : 0..MaxEvents, spikes : Nat]
  /\ version \in Nat /\ posting \subseteq 1..version
  /\ hour \in 0..MaxHour /\ emitted \in 0..MaxEvents
  /\ given \in [Services -> Seq(1..MaxEvents)] /\ buffers \in Seq(Batch)
  /\ flights \in Seq([batches : Seq(Batch), last : BOOLEAN])
  /\ files \subseteq Batch /\ failed \subseteq Batch
  /\ stopped \in BOOLEAN /\ interrupted \in BOOLEAN /\ closing \subseteq Services
  /\ closed \in BOOLEAN /\ process \in {"up", "exited"} /\ raced \in BOOLEAN

-----------------------------------------------------------------------------
(* Modes. *)
On(m, s, e) ==
  CASE m = "deploy-spike" -> ActivateSpike(s, e)
    [] m = "error-storm" -> ActivateErrorStorm(s, e)
    [] OTHER -> e
(* Mutant: a storm is not called off.                                      *)
OffSpikeOnly(m, s, e) == IF m = "deploy-spike" THEN DeactivateSpike(s, e) ELSE e
Off(m, s, e) ==
  CASE m = "deploy-spike" -> DeactivateSpike(s, e)
    [] m = "error-storm" -> DeactivateErrorStorm(s, e)
    [] OTHER -> e
RateIn(m, r) == CASE m = "quiet" -> "tenth" [] m = "steady" -> "base" [] OTHER -> r
RateOut(m, r) == IF m = "quiet" THEN "base" ELSE r

Registers == ~options.dry /\ Deploying # NoService

(* setMode, and the marker its listener registers.                         *)
SetMode(m) ==
  /\ mode' = m
  /\ engines' = [s \in Services |-> On(m, s, Off(mode, s, engines[s]))]
  /\ rate' = RateIn(m, RateOut(mode, rate))
  /\ entered' = [modes |-> entered.modes + 1,
                 spikes |-> entered.spikes + (IF m = "deploy-spike" THEN 1 ELSE 0)]
  /\ IF m = "deploy-spike" /\ Registers
     THEN version' = version + 1 /\ posting' = posting \union {version + 1}
     ELSE UNCHANGED <<version, posting>>

ChaosPicks ==
  /\ process = "up" /\ timer = "steady" /\ emitted + entered.modes < MaxEvents
  /\ \E m \in {"deploy-spike", "error-storm", "quiet"} : SetMode(m)
  /\ timer' = "event"
  /\ UNCHANGED <<options, hour, emitted, given, writeVars, stopVars>>

ChaosRests ==
  /\ process = "up" /\ timer = "event" /\ emitted + entered.modes < MaxEvents
  /\ SetMode("steady") /\ timer' = "steady"
  /\ UNCHANGED <<options, hour, emitted, given, writeVars, stopVars>>

(* postDeployMarker answers, or logs that it failed.                       *)
MarkerEnds ==
  /\ process = "up"
  /\ \E v \in posting : posting' = posting \ {v}
  /\ UNCHANGED <<options, modeVars, hour, emitted, given, writeVars, stopVars>>

(* Runner.start, one synchronous call: the initial mode sends no           *)
(* modeChange, so start registers its marker; chaos begins with a rest.    *)
Init ==
  /\ options \in [mode : Modes, dry : BOOLEAN, s3 : BOOLEAN, timed : BOOLEAN]
  /\ mode = (IF options.mode = "chaos" THEN "steady" ELSE options.mode)
  /\ engines = [s \in Services |-> On(mode, s, Fresh(s))]
  /\ rate = RateIn(mode, "base")
  /\ timer = (IF options.mode = "chaos" THEN "steady" ELSE "none")
  /\ entered = [modes |-> 0, spikes |-> IF mode = "deploy-spike" THEN 1 ELSE 0]
  /\ version = (IF options.mode = "deploy-spike" /\ Registers THEN 1 ELSE 0)
  /\ posting = 1..version
  /\ hour = 0 /\ emitted = 0 /\ given = [s \in Services |-> <<>>]
  /\ buffers = <<>> /\ flights = <<>> /\ files = {} /\ failed = {}
  /\ stopped = FALSE /\ interrupted = FALSE /\ closing = {} /\ closed = ~options.s3
  /\ process = "up" /\ raced = FALSE

-----------------------------------------------------------------------------
(* Events. *)
HourPasses ==
  /\ process = "up" /\ hour < MaxHour /\ hour' = hour + 1
  /\ UNCHANGED <<options, modeVars, posting, emitted, given, writeVars, stopVars>>

(* addEvent: to the batch of the service and the hour, or to a new one.    *)
Added(b, prefix, n) ==
  IF \E i \in DOMAIN b : b[i].prefix = prefix
  THEN [i \in DOMAIN b |->
          IF b[i].prefix = prefix THEN [b[i] EXCEPT !.events = Append(@, n)] ELSE b[i]]
  ELSE Append(b, [prefix |-> prefix, events |-> <<n>>])

(* The scheduler's timer is armed from start to stop.                      *)
Due == process = "up" /\ ~stopped

(* emitEvent.  A dry run only prints the event.                            *)
Emit(s) ==
  /\ Due /\ emitted + entered.modes < MaxEvents /\ Drawn(engines[s]) # {}
  /\ emitted' = emitted + 1
  /\ IF options.dry THEN UNCHANGED <<given, buffers>>
     ELSE /\ given' = [given EXCEPT ![s] = Append(@, emitted + 1)]
          /\ buffers' = IF options.s3 THEN Added(buffers, <<s, hour>>, emitted + 1) ELSE buffers
  /\ UNCHANGED <<options, modeVars, posting, hour, flights, files, failed, stopVars>>

(* The interval of startFlushing, set until close clears it.  It does not  *)
(* wait for the flush before it.                                           *)
FlushAll ==
  /\ process = "up" /\ options.s3 /\ ~stopped /\ buffers # <<>>
  /\ flights' = Append(flights, [batches |-> buffers, last |-> FALSE]) /\ buffers' = <<>>
  /\ UNCHANGED <<options, modeVars, posting, hour, emitted, given, files, failed, stopVars>>

(* The PUT a flush awaits.                                                 *)
PutLands(i) ==
  /\ process = "up" /\ flights[i].batches # <<>>
  /\ files' = files \union {Head(flights[i].batches)}
  /\ flights' = IF Len(flights[i].batches) = 1 /\ ~flights[i].last THEN RemoveAt(flights, i)
                ELSE [flights EXCEPT ![i].batches = Tail(@)]
  /\ UNCHANGED <<options, modeVars, posting, hour, emitted, given, buffers, failed, stopVars>>

(* A PUT fails: the flush ends, and with it the batches after.  The        *)
(* interval logs that; from close it rejects stop, which nobody catches,   *)
(* and the process dies.                                                   *)
PutFails(i) ==
  /\ process = "up" /\ flights[i].batches # <<>>
  /\ failed' = failed \union ToSet(flights[i].batches) /\ flights' = RemoveAt(flights, i)
  /\ IF flights[i].last THEN process' = "exited" /\ raced' = TRUE ELSE UNCHANGED <<process, raced>>
  /\ UNCHANGED <<options, modeVars, posting, hour, emitted, given, buffers, files,
                 stopped, interrupted, closing, closed>>

-----------------------------------------------------------------------------
(* The end. *)

(* Runner.stop up to its await: no timer of the runner is left, and the    *)
(* writer flushes once more next to a flush that is under way.             *)
Stop ==
  /\ stopped' = TRUE /\ timer' = "none"
  /\ closing' = (IF options.dry THEN {} ELSE Services)
  /\ IF options.s3
     THEN /\ flights' = Append(flights, [batches |-> buffers, last |-> TRUE])
          /\ buffers' = <<>> /\ raced' = (raced \/ flights # <<>>)
     ELSE UNCHANGED <<flights, buffers, raced>>
  /\ UNCHANGED <<options, mode, engines, rate, entered, version, posting, hour, emitted, given,
                 files, failed, closed, process>>

DurationEnds ==
  process = "up" /\ options.timed /\ ~stopped /\ Stop /\ UNCHANGED interrupted

(* SIGINT or SIGTERM.  A second call of stop returns at once, so a signal  *)
(* after the duration's end exits without waiting for it.                  *)
Signal ==
  /\ process = "up" /\ ~interrupted /\ interrupted' = TRUE
  /\ IF ~stopped THEN Stop
     ELSE /\ process' = "exited" /\ raced' = TRUE
          /\ UNCHANGED <<options, modeVars, posting, hour, emitted, given, writeVars,
                         stopped, closing, closed>>

TransportCloses(s) ==
  /\ process = "up" /\ s \in closing /\ closing' = closing \ {s}
  /\ UNCHANGED <<options, modeVars, posting, hour, emitted, given, writeVars,
                 stopped, interrupted, closed, process, raced>>

WriterCloses ==
  /\ process = "up" /\ closed' = TRUE
  /\ \E i \in DOMAIN flights :
       flights[i].last /\ flights[i].batches = <<>> /\ flights' = RemoveAt(flights, i)
  /\ UNCHANGED <<options, modeVars, posting, hour, emitted, given, buffers, files, failed,
                 stopped, interrupted, closing, process, raced>>

(* After stop, a signal's handler exits; without one the process ends when *)
(* nothing is left to wait for.                                            *)
Exit ==
  /\ process = "up" /\ stopped /\ closing = {} /\ closed
  /\ interrupted \/ (flights = <<>> /\ posting = {})
  /\ process' = "exited"
  /\ UNCHANGED <<options, modeVars, posting, hour, emitted, given, writeVars,
                 stopped, interrupted, closing, closed, raced>>

Next ==
  \/ ChaosPicks \/ ChaosRests \/ MarkerEnds \/ HourPasses \/ FlushAll
  \/ \E s \in Services : Emit(s) \/ TransportCloses(s)
  \/ \E i \in DOMAIN flights : PutLands(i) \/ PutFails(i)
  \/ DurationEnds \/ Signal \/ WriterCloses \/ Exit

Spec == Init /\ [][Next]_vars

-----------------------------------------------------------------------------
Wanted(m, s) ==
  CASE m = "deploy-spike" -> Spiked(s)
    [] m = "error-storm" -> Stormed(Base[s])
    [] OTHER -> Base[s]

(* However many events of chaos came and went, the engines draw what the   *)
(* current mode is about and no more, the rate is the mode's, and every    *)
(* deploy spike has a marker of its own (ModeController, registerDeploy).  *)
ModesSound ==
  /\ \A s \in Services :
       /\ engines[s].weights = Wanted(mode, s)
       /\ engines[s].spike = (mode = "deploy-spike") /\ engines[s].storm = (mode = "error-storm")
  /\ rate = (IF mode = "quiet" THEN "tenth" ELSE "base")
  /\ Registers => version = entered.spikes

Waiting == buffers \o FlattenSeq([i \in DOMAIN flights |-> flights[i].batches])
Batches == ToSet(Waiting) \union files \union failed
Held(b) == ToSet(b.events)

(* The dual write: each event is in one batch, a batch holds the events of *)
(* one service in the order its transport got them, and what is neither    *)
(* written nor reported when the process is gone was cut by a race.        *)
DualWrite ==
  /\ options.s3 /\ ~options.dry => UNION {Held(b) : b \in Batches} = 1..emitted
  /\ \A b, c \in Batches : b # c => Held(b) \intersect Held(c) = {}
  /\ \A b \in Batches : \E f \in {given[b.prefix[1]]} :
       /\ Held(b) \subseteq ToSet(f)
       /\ \A i, j \in DOMAIN b.events : i < j => b.events[i] < b.events[j]
  /\ process = "exited" => raced \/ (Waiting = <<>> /\ closing = {})

(* Does not hold: close writes what is in the buffers and waits for no     *)
(* flush that took its batches before, and a signal during the duration's  *)
(* own stop exits at once.                                                 *)
RemainingIsWritten == process = "exited" /\ failed = {} => Waiting = <<>>
=============================================================================
