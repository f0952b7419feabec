-------------------------- MODULE DurableTransport --------------------------
(***************************************************************************)
(* The durable mode of the Winston transport (packages/transport): log()   *)
(* calls enqueue through SpoolWriter into the SQLite spool, the Pump posts *)
(* the oldest batch to the ingest endpoint and deletes it once answered,   *)
(* closeAsync stops the pump and closes the spool, and the process may     *)
(* crash at any step and be started again on the same spool file.          *)
(*                                                                         *)
(* JavaScript runs one callback at a time, so an action is the code        *)
(* between two awaits.  Time is abstract: a sleep ends at some later step. *)
(***************************************************************************)
EXTENDS Naturals, FiniteSets

CONSTANTS
  Events,         (* the log() calls of the host application            *)
  Cap,            (* maxSpooledEvents                                   *)
  BatchSize,      (* events per POST                                    *)
  BlockPolls,     (* most polls a blocked enqueue can make in blockMs   *)
  MaxCrashes,     (* bound: process exits in a behaviour                *)
  MaxFaults       (* bound: spool I/O errors in a behaviour             *)

ASSUME DurableAssumption ==
  /\ IsFiniteSet(Events)
  /\ Cap \in Nat \ {0}
  /\ BatchSize \in Nat \ {0}
  /\ BlockPolls \in Nat
  /\ MaxCrashes \in Nat
  /\ MaxFaults \in Nat

VARIABLES
  spool,      (* events with a row in the spool table                       *)
  rowSeq,     (* AUTOINCREMENT seq of each event's row, 0 before its insert  *)
  lastSeq,    (* last seq the table handed out; kept by SQLite              *)
  caller,     (* progress of each log() call                                *)
  polls,      (* polls a blocked call has left before its deadline          *)
  life,       (* the transport's and its process's life cycle               *)
  pump,       (* where the pump's loop is suspended                         *)
  batch,      (* the batch the pump peeked                                  *)
  verdict,    (* postBatch's outcome, "pending" while the POST is out       *)
  stale,      (* batches on the wire whose sender no longer listens         *)
  delivered,  (* history: events the server took                            *)
  reported,   (* history: events handed to onDrop                           *)
  crashes, faults

table   == <<spool, rowSeq, lastSeq>>
calls   == <<caller, polls>>
pumping == <<pump, batch, verdict>>
vars    == <<table, calls, life, pumping, stale, delivered, reported,
             crashes, faults>>

Verdict == {"ok", "retry", "unrecoverable"}

TypeOK ==
  /\ spool \subseteq Events
  /\ rowSeq \in [Events -> Nat]
  /\ lastSeq \in Nat
  /\ caller \in [Events -> {"new", "blocked", "acked", "refused", "cut"}]
  /\ polls \in [Events -> 0..BlockPolls]
  /\ life \in {"up", "closing", "stopping", "closed", "down"}
  /\ pump \in {"top", "idle", "waiting", "discarding", "backoff", "stopped", "dead"}
  /\ batch \subseteq Events
  /\ verdict \in Verdict \union {"pending"}
  /\ stale \subseteq SUBSET Events
  /\ delivered \subseteq Events
  /\ reported \subseteq Events
  /\ crashes \in 0..MaxCrashes
  /\ faults \in 0..MaxFaults

Init ==
  /\ spool = {}
  /\ rowSeq = [e \in Events |-> 0]
  /\ lastSeq = 0
  /\ caller = [e \in Events |-> "new"]
  /\ polls = [e \in Events |-> 0]
  /\ life = "up"
  /\ pump = "top"
  /\ batch = {}
  /\ verdict = "pending"
  /\ stale = {}
  /\ delivered = {}
  /\ reported = {}
  /\ crashes = 0
  /\ faults = 0

(* closeAsync has not closed the database handle and the process runs. *)
SpoolOpen == life \in {"up", "closing", "stopping"}

(* Pump.running: cleared by stop(), never by an exception in the loop. *)
Running == life \in {"up", "closing"}

Full == Cardinality(spool) >= Cap

Older(e, f) == rowSeq[e] < rowSeq[f]

(* Mutant: ORDER BY seq DESC. *)
PeekNewest(n) == {e \in spool : Cardinality({f \in spool : Older(e, f)}) < n}

(* peekOldest(n): the n rows with the least seq. *)
PeekOldest(n) == {e \in spool : Cardinality({f \in spool : Older(f, e)}) < n}

-----------------------------------------------------------------------------
(* SpoolWriter.enqueue *)

Insert(e) ==
  /\ spool' = spool \union {e}
  /\ lastSeq' = lastSeq + 1
  /\ rowSeq' = [rowSeq EXCEPT ![e] = lastSeq + 1]
  /\ caller' = [caller EXCEPT ![e] = "acked"]
  /\ UNCHANGED <<polls, reported>>

Refuse(e) ==
  /\ caller' = [caller EXCEPT ![e] = "refused"]
  /\ reported' = reported \union {e}
  /\ UNCHANGED <<table, polls>>

(* A call under the cap inserts at once; at the cap it blocks, or, with no *)
(* time to block at all, fails open.                                       *)
Log(e) ==
  /\ SpoolOpen
  /\ caller[e] = "new"
  /\ \/ ~Full /\ Insert(e)
     \/ /\ Full
        /\ BlockPolls > 0
        /\ caller' = [caller EXCEPT ![e] = "blocked"]
        /\ polls' = [polls EXCEPT ![e] = BlockPolls]
        /\ UNCHANGED <<table, reported>>
     \/ Full /\ BlockPolls = 0 /\ Refuse(e)
  /\ UNCHANGED <<life, pumping, stale, delivered, crashes, faults>>

(* Mutant: space is not checked again after the sleep. *)
WakeUnchecked(e) ==
  /\ SpoolOpen
  /\ caller[e] = "blocked"
  /\ Insert(e)
  /\ UNCHANGED <<life, pumping, stale, delivered, crashes, faults>>

(* Mutant: no deadline, the call waits until there is space. *)
WakeNoDeadline(e) ==
  /\ SpoolOpen
  /\ caller[e] = "blocked"
  /\ ~Full
  /\ Insert(e)
  /\ UNCHANGED <<life, pumping, stale, delivered, crashes, faults>>

(* A blocked call wakes from its sleep: it takes freed space, keeps        *)
(* waiting, or gives up once the deadline has passed (timers may fire      *)
(* late, so the deadline can come before the last poll).                   *)
Wake(e) ==
  /\ SpoolOpen
  /\ caller[e] = "blocked"
  /\ \/ ~Full /\ Insert(e)
     \/ /\ Full
        /\ polls[e] > 1
        /\ polls' = [polls EXCEPT ![e] = @ - 1]
        /\ UNCHANGED <<table, caller, reported>>
     \/ Full /\ Refuse(e)
  /\ UNCHANGED <<life, pumping, stale, delivered, crashes, faults>>

(* The spool throws, because it was closed or the insert failed; log()     *)
(* catches the rejection and reports the event.                            *)
SpoolThrows(e) ==
  /\ life # "down"
  /\ caller[e] \in {"new", "blocked"}
  /\ \/ ~SpoolOpen /\ UNCHANGED faults
     \/ /\ SpoolOpen /\ ~Full
        /\ faults < MaxFaults
        /\ faults' = faults + 1
  /\ Refuse(e)
  /\ UNCHANGED <<life, pumping, stale, delivered, crashes>>

-----------------------------------------------------------------------------
(* Pump.run and postBatch *)

(* Mutant: the loop ends when it finds the spool empty. *)
PumpPeekExits ==
  /\ Running
  /\ pump = "top"
  /\ batch' = PeekOldest(BatchSize)
  /\ pump' = IF batch' = {} THEN "stopped" ELSE "waiting"
  /\ verdict' = "pending"
  /\ UNCHANGED <<table, calls, life, stale, delivered, reported, crashes, faults>>

(* Head of the loop: peek, then post or sleep. *)
PumpPeek ==
  /\ Running
  /\ pump = "top"
  /\ batch' = PeekOldest(BatchSize)
  /\ pump' = IF batch' = {} THEN "idle" ELSE "waiting"
  /\ verdict' = "pending"
  /\ UNCHANGED <<table, calls, life, stale, delivered, reported, crashes, faults>>

(* The idle or back-off sleep ends, or stop() aborted it. *)
PumpWakes ==
  /\ life # "down"
  /\ pump \in {"idle", "backoff"}
  /\ pump' = "top"
  /\ UNCHANGED <<table, calls, life, batch, verdict, stale, delivered, reported,
                 crashes, faults>>

(* The endpoint answers 2xx, or rejects the batch, or refuses it for now. *)
ServerAnswers(v) ==
  /\ pump = "waiting"
  /\ verdict = "pending"
  /\ verdict' = v
  /\ delivered' = IF v = "ok" THEN delivered \union batch ELSE delivered
  /\ UNCHANGED <<table, calls, life, pump, batch, stale, reported, crashes, faults>>

(* fetch fails or times out; the request may still reach the server. *)
PostFails ==
  /\ pump = "waiting"
  /\ verdict = "pending"
  /\ verdict' = "retry"
  /\ stale' = stale \union {batch}
  /\ UNCHANGED <<table, calls, life, pump, batch, delivered, reported, crashes, faults>>

(* A request nobody waits for is taken by the server after all, or not. *)
StaleRequest(b, taken) ==
  /\ b \in stale
  /\ stale' = stale \ {b}
  /\ delivered' = IF taken THEN delivered \union b ELSE delivered
  /\ UNCHANGED <<table, calls, life, pumping, reported, crashes, faults>>

Answered(v) ==
  /\ life # "down"
  /\ pump = "waiting"
  /\ verdict = v

(* Mutant: deletes what is oldest now, not what was posted. *)
DeleteOldestNow ==
  /\ spool' = spool \ PeekOldest(BatchSize)
  /\ pump' = "top"
  /\ UNCHANGED <<rowSeq, lastSeq>>

DeleteBatch ==
  /\ spool' = spool \ batch
  /\ pump' = "top"
  /\ UNCHANGED <<rowSeq, lastSeq>>

(* 2xx: the events are durably delivered, drop their rows. *)
PumpAcked ==
  /\ Answered("ok")
  /\ Running
  /\ DeleteBatch
  /\ UNCHANGED <<calls, life, batch, verdict, stale, delivered, reported, crashes, faults>>

(* Mutant: a rejected batch is discarded without onDrop. *)
PumpReportsNothing ==
  /\ Answered("unrecoverable")
  /\ Running
  /\ pump' = "discarding"
  /\ UNCHANGED <<table, calls, life, batch, verdict, stale, delivered, reported,
                 crashes, faults>>

(* 4xx: report first, delete after; the process can die in between. *)
PumpReports ==
  /\ Answered("unrecoverable")
  /\ Running
  /\ reported' = reported \union batch
  /\ pump' = "discarding"
  /\ UNCHANGED <<table, calls, life, batch, verdict, stale, delivered, crashes, faults>>

PumpDiscards ==
  /\ life # "down"
  /\ pump = "discarding"
  /\ DeleteBatch
  /\ UNCHANGED <<calls, life, batch, verdict, stale, delivered, reported, crashes, faults>>

(* Transient: keep the rows, sleep, try again. *)
PumpBacksOff ==
  /\ Answered("retry")
  /\ Running
  /\ pump' = "backoff"
  /\ UNCHANGED <<table, calls, life, batch, verdict, stale, delivered, reported,
                 crashes, faults>>

(* A spool call throws inside run(): nothing catches it, the delete is     *)
(* rolled back and the loop is gone although running stays set, so start() *)
(* would not start another.                                                *)
PumpDies ==
  /\ Running
  /\ faults < MaxFaults
  /\ pump \in {"top", "discarding"} \/ Answered("ok")
  /\ pump' = "dead"
  /\ faults' = faults + 1
  /\ UNCHANGED <<table, calls, life, batch, verdict, stale, delivered, reported, crashes>>

(* running was cleared: an answer already received is not acted upon. *)
PumpStops ==
  /\ life = "stopping"
  /\ pump = "top" \/ (pump = "waiting" /\ verdict # "pending")
  /\ pump' = "stopped"
  /\ UNCHANGED <<table, calls, life, batch, verdict, stale, delivered, reported,
                 crashes, faults>>

-----------------------------------------------------------------------------
(* closeAsync, crash and restart *)

CloseBegins ==
  /\ life = "up"
  /\ life' = "closing"
  /\ UNCHANGED <<table, calls, pumping, stale, delivered, reported, crashes, faults>>

(* The spool drained or the close deadline passed: stop() aborts the POST. *)
CloseStopsPump ==
  /\ life = "closing"
  /\ life' = "stopping"
  /\ IF pump = "waiting" /\ verdict = "pending"
     THEN verdict' = "retry" /\ stale' = stale \union {batch}
     ELSE UNCHANGED <<verdict, stale>>
  /\ UNCHANGED <<table, calls, pump, batch, delivered, reported, crashes, faults>>

(* stop() awaits the loop; a dead loop rejects and the spool stays open. *)
CloseSpool ==
  /\ life = "stopping"
  /\ pump = "stopped"
  /\ life' = "closed"
  /\ UNCHANGED <<table, calls, pumping, stale, delivered, reported, crashes, faults>>

(* The process exits: what is in memory is gone, the rows stay. *)
Crash ==
  /\ life # "down"
  /\ crashes < MaxCrashes
  /\ crashes' = crashes + 1
  /\ life' = "down"
  /\ pump' = "stopped"
  /\ caller' = [e \in Events |-> IF caller[e] = "blocked" THEN "cut" ELSE caller[e]]
  /\ stale' = IF pump = "waiting" /\ verdict = "pending"
              THEN stale \union {batch} ELSE stale
  /\ batch' = {}
  /\ verdict' = "pending"
  /\ UNCHANGED <<table, polls, delivered, reported, faults>>

Restart ==
  /\ life = "down"
  /\ life' = "up"
  /\ pump' = "top"
  /\ UNCHANGED <<table, calls, batch, verdict, stale, delivered, reported, crashes, faults>>

-----------------------------------------------------------------------------
PumpStep ==
  PumpPeek \/ PumpWakes \/ PumpAcked \/ PumpReports \/ PumpDiscards
  \/ PumpBacksOff \/ PumpStops

Next ==
  \/ \E e \in Events : Log(e) \/ Wake(e) \/ SpoolThrows(e)
  \/ PumpStep \/ PumpDies
  \/ \E v \in Verdict : ServerAnswers(v)
  \/ PostFails
  \/ \E b \in stale, taken \in BOOLEAN : StaleRequest(b, taken)
  \/ CloseBegins \/ CloseStopsPump \/ CloseSpool
  \/ Crash \/ Restart

Spec == Init /\ [][Next]_vars

(* The event loop runs due callbacks; a POST ends by its timeout; a server *)
(* that is asked again and again takes the batch at some point.            *)
Fairness ==
  /\ WF_vars(PumpStep)
  /\ WF_vars(PostFails)
  /\ SF_vars(ServerAnswers("ok"))
  /\ \A e \in Events : WF_vars(Wake(e)) /\ WF_vars(SpoolThrows(e) /\ ~SpoolOpen)

FairSpec == Spec /\ Fairness

-----------------------------------------------------------------------------
(* No silent loss (spool-store.ts, backpressure.ts "NEVER a silent drop"): *)
(* whatever crash, abort, late request or refusal happened since, an event *)
(* whose call returned is still spooled, was taken by the server, or was   *)
(* reported to onDrop.                                                     *)
NoSilentLoss ==
  \A e \in Events :
    /\ caller[e] = "acked" => e \in spool \union delivered \union reported
    /\ caller[e] = "refused" => e \in reported

(* The disk cap (maxSpooledEvents) holds although several blocked calls    *)
(* wake for the same freed row.                                            *)
SpoolWithinCap == Cardinality(spool) <= Cap

(* Oldest first, across retries, restarts and late requests: the server    *)
(* never has an event while an earlier spooled one is still waiting for    *)
(* its first delivery or report.                                           *)
DeliveredInOrder ==
  \A e, f \in Events :
    (rowSeq[e] > 0 /\ Older(e, f) /\ f \in delivered)
      => e \in delivered \union reported

(* Bounded block (backpressure.ts: bounded-block then fail open): a        *)
(* blocked log() call always returns, even when the pump is dead.          *)
BlockedCallReturns ==
  \A e \in Events : caller[e] = "blocked" ~> caller[e] # "blocked"

(* While the process stays up with a live pump every spooled event is      *)
(* eventually settled: a retried or rejected batch blocks the queue only   *)
(* for a while.                                                            *)
SpoolDrains ==
  <>[](life = "up" /\ pump # "dead")
    => \A e \in Events : e \in spool ~> e \notin spool

(* The implementation of the abstract contract. *)
Contract == INSTANCE Outbox WITH
  accepted <- {e \in Events : caller[e] = "acked"},
  owed     <- spool

(* Every step of the durable transport is a step of the Outbox contract:   *)
(* only accepted events reach the server, and a row leaves the spool only  *)
(* after its event was delivered (delete on 2xx) or reported (report, then *)
(* delete on 4xx), whatever the pump, close and crash interleave to.       *)
ImplementsOutbox == Contract!Spec
=============================================================================
