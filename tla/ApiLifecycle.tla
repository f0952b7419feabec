---------------------------- MODULE ApiLifecycle ----------------------------
(***************************************************************************)
(* One API process from its start to its exit (index.ts): the schema and   *)
(* the stores, the listening socket, the background sweeps, and the        *)
(* shutdown that stops the timers, waits for the sweeps, closes the socket *)
(* and then the ClickHouse client.  Each stop() waits a bounded time, some *)
(* not at all, and a timer may have fired just before.                     *)
(***************************************************************************)
EXTENDS Naturals, FiniteSets

CONSTANTS
  Calls,     (* HTTP requests, tail streams among them                       *)
  MaxSweeps  (* bound: sweeps begun                                          *)

ASSUME LifecycleAssumption == MaxSweeps \in Nat

VARIABLES
  phase,    (* booting, serving, stopping, draining, closing or exited       *)
  code,     (* of the exit; 2 for a process that was killed                  *)
  timers,   (* sweeps whose interval is set                                  *)
  checking, (* callbacks of the recovery that await the health check         *)
  running,  (* sweeps at work                                                *)
  awaited,  (* the stop() the shutdown is in                                 *)
  expired,  (* history: sweeps whose stop() no longer waited for them        *)
  late,     (* history: sweeps that began after their interval was cleared   *)
  request,  (* request -> idle, open, answered or cut                        *)
  forced,   (* the shutdown timeout ran out                                  *)
  sweeps

lifecycle == <<phase, code, timers, checking, running, awaited, expired, late, request, forced,
               sweeps>>

Sweeps == {"recovery", "retention", "consumer", "reconcile", "compaction"}

(* The order the shutdown awaits them in. *)
StopOrder == [n \in 1..5 |-> CASE n = 1 -> "recovery"  [] n = 2 -> "retention" [] n = 3 -> "consumer"
                               [] n = 4 -> "reconcile" [] n = 5 -> "compaction"]

LifecycleTypeOK ==
  /\ phase \in {"booting", "serving", "stopping", "draining", "closing", "exited"}
  /\ code \in 0..2 /\ timers \subseteq Sweeps /\ running \subseteq Sweeps /\ expired \subseteq Sweeps
  /\ late \subseteq Sweeps
  /\ checking \subseteq {"startup", "interval"} /\ awaited \in 1..6 /\ forced \in BOOLEAN
  /\ request \in [Calls -> {"idle", "open", "answered", "cut"}] /\ sweeps \in 0..MaxSweeps

LifecycleInit ==
  /\ phase = "booting" /\ code = 0 /\ timers = {} /\ checking = {} /\ running = {}
  /\ awaited = 1 /\ expired = {} /\ late = {} /\ request = [r \in Calls |-> "idle"]
  /\ forced = FALSE /\ sweeps = 0

Alive == phase # "exited"

(* The process is gone, and with it what was under way. *)
Exit(status) ==
  /\ phase' = "exited" /\ code' = status
  /\ request' = [r \in Calls |-> IF request[r] = "open" THEN "cut" ELSE request[r]]
  /\ timers' = {} /\ checking' = {}
  /\ UNCHANGED <<running, awaited, expired, late, sweeps>>

-----------------------------------------------------------------------------
(* initSchema or the load of a store throws: process.exit(1). *)
BootFails == phase = "booting" /\ Exit(1) /\ UNCHANGED forced

(* createApp starts the consumer of the notify queue. *)
CreateApp ==
  /\ phase = "booting" /\ timers' = {"consumer"}
  /\ UNCHANGED <<phase, code, checking, running, awaited, expired, late, request, forced, sweeps>>

(* The callback of app.listen: every sweep that the configuration enables, *)
(* and the recovery at once.                                               *)
Listen ==
  /\ phase = "booting" /\ timers = {"consumer"} /\ phase' = "serving"
  /\ timers' = Sweeps /\ checking' = {"startup"}
  /\ UNCHANGED <<code, running, awaited, expired, late, request, forced, sweeps>>

BeginSweep(w) == sweeps < MaxSweeps /\ sweeps' = sweeps + 1 /\ running' = running \union {w}

(* An interval is due: a sweep that runs is not run twice; the recovery    *)
(* asks for the health of the clusterer first.                             *)
Tick(w) ==
  /\ Alive /\ w \in timers \ running
  /\ IF w = "recovery" THEN checking' = checking \union {"interval"} /\ UNCHANGED <<running, sweeps>>
     ELSE BeginSweep(w) /\ UNCHANGED checking
  /\ UNCHANGED <<phase, code, timers, awaited, expired, late, request, forced>>

(* The answer: the sweep begins, whatever was stopped meanwhile, unless    *)
(* the clusterer is ill or the other callback's sweep is at work.          *)
HealthChecked(c) ==
  /\ Alive /\ c \in checking /\ checking' = checking \ {c}
  /\ \/ BeginSweep("recovery") /\ late' = IF "recovery" \in timers THEN late ELSE late \union {"recovery"}
     \/ UNCHANGED <<running, sweeps, late>>
  /\ UNCHANGED <<phase, code, timers, awaited, expired, request, forced>>

SweepEnds(w) ==
  /\ Alive /\ w \in running /\ running' = running \ {w}
  /\ UNCHANGED <<phase, code, timers, checking, awaited, expired, late, request, forced, sweeps>>

(* The socket accepts connections until the sweeps are stopped. *)
Accept(r) ==
  /\ phase \in {"serving", "stopping"} /\ request[r] = "idle"
  /\ request' = [request EXCEPT ![r] = "open"]
  /\ UNCHANGED <<phase, code, timers, checking, running, awaited, expired, late, forced, sweeps>>

Answer(r) ==
  /\ Alive /\ request[r] = "open"
  /\ request' = [request EXCEPT ![r] = "answered"]
  /\ UNCHANGED <<phase, code, timers, checking, running, awaited, expired, late, forced, sweeps>>

-----------------------------------------------------------------------------
(* SIGTERM, SIGINT or a fatal error.  During the boot no handler is there  *)
(* yet; during a shutdown it is ignored.  stop() clears the interval, and  *)
(* recovery's is called before anything is awaited.                        *)
Signal ==
  /\ \/ phase = "booting" /\ Exit(2)
     \/ phase = "serving" /\ phase' = "stopping" /\ timers' = timers \ {StopOrder[1]}
        /\ UNCHANGED <<code, checking, running, awaited, expired, late, request, sweeps>>
  /\ UNCHANGED forced

(* RetentionSweep.stop does not wait for its sweep. *)
Waits(w) == w # "retention"

(* Mutant: no stop() waits. *)
StoppedAtOnce(w) == UNCHANGED expired

(* stop() returns: the sweep is over, or its five seconds are. *)
Stopped(w) ==
  expired' = IF w \in running /\ Waits(w) THEN expired \union {w} ELSE expired

NextStop(w) ==
  /\ phase = "stopping" /\ w = StopOrder[awaited]
  /\ Stopped(w)
  /\ awaited' = awaited + 1
  /\ IF awaited = 5 THEN phase' = "draining" /\ UNCHANGED timers
     ELSE timers' = timers \ {StopOrder[awaited + 1]} /\ UNCHANGED phase
  /\ UNCHANGED <<code, checking, running, late, request, forced, sweeps>>

(* Mutant: the callback of server.close does not wait for the streams. *)
Undrained == TRUE

Drained == \A r \in Calls : request[r] # "open"

(* The callback of server.close: all connections have ended; db.close. *)
CloseDb ==
  /\ phase = "draining" /\ Drained /\ phase' = "closing"
  /\ UNCHANGED <<code, timers, checking, running, awaited, expired, late, request, forced, sweeps>>

ExitCleanly == phase = "closing" /\ Exit(0) /\ UNCHANGED forced

(* forceTimer: process.exit(1), whatever the shutdown is at. *)
ForceExit == phase \in {"stopping", "draining", "closing"} /\ forced' = TRUE /\ Exit(1)

LifecycleNext ==
  \/ BootFails \/ CreateApp \/ Listen \/ Signal \/ CloseDb \/ ExitCleanly \/ ForceExit
  \/ \E w \in Sweeps : Tick(w) \/ SweepEnds(w) \/ NextStop(w)
  \/ \E c \in checking : HealthChecked(c)
  \/ \E r \in Calls : Accept(r) \/ Answer(r)

LifecycleSpec == LifecycleInit /\ [][LifecycleNext]_lifecycle

-----------------------------------------------------------------------------
(* "Stop accepting new connections and drain in-flight requests": a        *)
(* process that exits with 0 has answered whatever it accepted.            *)
Answered == phase = "exited" /\ code = 0 => \A r \in Calls : request[r] # "cut"

(* "Let an in-flight sweep settle before shutdown closes the DB": a sweep  *)
(* at work while the client closes is the retention's, which no one waits  *)
(* for, the recovery's, whose health check may answer after its stop(), or *)
(* one that outlasted the wait for it; and none is begun any more but by   *)
(* such an answer.                                                         *)
SettledFirst ==
  /\ phase = "closing" => running \ (expired \union late) \subseteq {"retention"}
  /\ phase \in {"draining", "closing"} => timers = {}

(* A shutdown that is not forced answers what it accepted, and closes the  *)
(* database under no sweep but those that no stop() waits for.             *)
LifecycleSound == LifecycleTypeOK /\ Answered /\ SettledFirst
=============================================================================
