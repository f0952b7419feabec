------------------------- MODULE BufferedTransport -------------------------
(***************************************************************************)
(* The default, in-memory mode of the Winston transport: BufferManager's   *)
(* double buffer with its flush timer, sendBatch with retryFetch's bounded *)
(* attempts, and closeAsync racing its own timeout.                        *)
(*                                                                         *)
(* An action is the code between two awaits.  One sendBatch runs at a      *)
(* time: either the flush in flight or closeAsync's final batch.           *)
(***************************************************************************)
EXTENDS Naturals, Sequences, FiniteSets

CONSTANTS
  Events,          (* the log() calls of the host application *)
  BufferSize,      (* active events that trigger a flush      *)
  MaxRetained,     (* maxRetainedEvents                       *)
  MaxRetries       (* retries after the first attempt         *)

ASSUME BufferAssumption ==
  /\ IsFiniteSet(Events)
  /\ BufferSize \in Nat \ {0}
  /\ MaxRetained \in Nat \ {0}
  /\ MaxRetries \in Nat

VARIABLES
  active,       (* the buffer push() appends to                               *)
  timer,        (* the flush timer is armed                                   *)
  destroyed,    (* push() ignores events                                      *)
  flight,       (* the batch held by the flush in flight, << >> if none        *)
  sending,      (* the sendBatch call: where it is suspended, what it sends    *)
  closing,      (* closeAsync's progress                                      *)
  aborted,      (* closeController.signal.aborted                             *)
  logged,       (* history: events in the order push() took them               *)
  delivered,    (* history: events the server took                            *)
  reported,     (* history: how often each event was handed to handleDrop      *)
  forsaken      (* history: events of a batch that ended unreported, with why  *)

buffer  == <<active, timer, destroyed, flight>>
closes  == <<closing, aborted>>
history == <<logged, delivered, reported, forsaken>>
vars    == <<buffer, sending, closes, history>>

Elements(s) == {s[i] : i \in DOMAIN s}

Idle == [at |-> "none", batch |-> << >>, tries |-> 0, heeds |-> FALSE]

Batches == UNION {[1..n -> Events] : n \in 0..Cardinality(Events)}

TypeOK ==
  /\ active \in Batches /\ flight \in Batches /\ logged \in Batches
  /\ timer \in BOOLEAN /\ destroyed \in BOOLEAN /\ aborted \in BOOLEAN
  /\ sending \in [at : {"none", "posting", "waiting"}, batch : Batches,
                  tries : 0..MaxRetries, heeds : BOOLEAN]
  /\ closing \in {"no", "settling", "sending", "done"}
  /\ delivered \subseteq Events
  /\ reported \in [Events -> 0..2]
  /\ forsaken \subseteq Events \X {"aborted", "rejected", "exhausted"}

Init ==
  /\ active = << >> /\ flight = << >> /\ logged = << >>
  /\ timer = TRUE              \* the constructor arms it
  /\ destroyed = FALSE
  /\ sending = Idle
  /\ closing = "no" /\ aborted = FALSE
  /\ delivered = {} /\ forsaken = {}
  /\ reported = [e \in Events |-> 0]

LowWaterMark == LET nine == (MaxRetained * 9) \div 10 IN IF nine > 1 THEN nine ELSE 1

Report(S, r) == [e \in Events |-> IF e \in S THEN r[e] + 1 ELSE r[e]]

-----------------------------------------------------------------------------
(* BufferManager *)

(* Mutant: the bound counts the active buffer alone. *)
EvictActiveOnly(buf) ==
  IF Len(buf) > MaxRetained
  THEN SubSeq(buf, Len(buf) - LowWaterMark + 1, Len(buf))
  ELSE buf

(* push's bound on active + in flight: the suffix of buf that survives. *)
Evict(buf) ==
  LET room == IF LowWaterMark > Len(flight) THEN LowWaterMark - Len(flight) ELSE 0
  IN  IF Len(buf) + Len(flight) > MaxRetained
      THEN SubSeq(buf, Len(buf) - room + 1, Len(buf))
      ELSE buf

(* Mutant: a second flush may start while one is in flight. *)
TriggerFlushAlways(buf, armed) ==
  IF buf = << >>
  THEN /\ active' = buf
       /\ timer' = armed
       /\ UNCHANGED <<flight, sending>>
  ELSE /\ active' = << >>
       /\ timer' = TRUE
       /\ flight' = buf
       /\ sending' = [at |-> "posting", batch |-> buf, tries |-> 0,
                      heeds |-> closing # "no"]

(* triggerFlush on a buffer content: swap and send, or leave it alone while *)
(* a flush is in flight.  Only a real swap re-arms the timer.              *)
TriggerFlush(buf, armed) ==
  IF buf = << >> \/ flight # << >>
  THEN /\ active' = buf
       /\ timer' = armed
       /\ UNCHANGED <<flight, sending>>
  ELSE /\ active' = << >>
       /\ timer' = TRUE
       /\ flight' = buf
       /\ sending' = [at |-> "posting", batch |-> buf, tries |-> 0,
                      heeds |-> closing # "no"]

(* log() -> push(): append, evict the oldest beyond the cap, flush if full. *)
Push(e) ==
  /\ ~destroyed
  /\ e \notin Elements(logged)
  /\ LET kept == Evict(Append(active, e))
         dropped == Elements(Append(active, e)) \ Elements(kept)
     IN  /\ reported' = Report(dropped, reported)
         /\ IF Len(kept) >= BufferSize
            THEN TriggerFlush(kept, timer)
            ELSE active' = kept /\ UNCHANGED <<timer, flight, sending>>
  /\ logged' = Append(logged, e)
  /\ UNCHANGED <<destroyed, closes, delivered, forsaken>>

TimerFires ==
  /\ timer
  /\ TriggerFlush(active, FALSE)
  /\ UNCHANGED <<destroyed, closes, history>>

-----------------------------------------------------------------------------
(* sendBatch and retryFetch *)

(* The sendBatch promise settles: the flush, if it was one, leaves flight. *)
Settle ==
  /\ sending' = Idle
  /\ flight' = << >>
  /\ closing' = IF closing = "sending" THEN "done" ELSE closing
  /\ UNCHANGED <<active, timer, destroyed, aborted>>

(* retryFetch returned null: report the batch, unless close was aborted. *)
GiveUp(why) ==
  /\ Settle
  /\ LET lost == Elements(sending.batch)
     IN IF ~aborted
        THEN reported' = Report(lost, reported) /\ UNCHANGED forsaken
        ELSE forsaken' = forsaken \union (lost \X {why}) /\ UNCHANGED reported
  /\ UNCHANGED <<logged, delivered>>

LastAttempt == sending.tries = MaxRetries

HeedsAbort == sending.heeds /\ aborted

PostSucceeds ==
  /\ sending.at = "posting"
  /\ Settle
  /\ delivered' = delivered \union Elements(sending.batch)
  /\ UNCHANGED <<logged, reported, forsaken>>

(* Any 4xx but 429: not retried. *)
PostRejected ==
  /\ sending.at = "posting"
  /\ GiveUp("rejected")

(* 429, 5xx, network error or timeout; the server may have taken the batch *)
(* nevertheless.                                                           *)
PostFails(taken) ==
  /\ sending.at = "posting"
  /\ ~LastAttempt
  /\ sending' = [sending EXCEPT !.at = "waiting"]
  /\ delivered' = IF taken THEN delivered \union Elements(sending.batch) ELSE delivered
  /\ UNCHANGED <<buffer, closes, logged, reported, forsaken>>

PostExhausted ==
  /\ sending.at = "posting"
  /\ LastAttempt
  /\ GiveUp("exhausted")

(* Mutant: attempts are not counted. *)
BackoffEndsUncounted ==
  /\ sending.at = "waiting"
  /\ ~HeedsAbort
  /\ sending' = [sending EXCEPT !.at = "posting"]
  /\ UNCHANGED <<buffer, closes, history>>

BackoffEnds ==
  /\ sending.at = "waiting"
  /\ ~HeedsAbort
  /\ sending' = [sending EXCEPT !.at = "posting", !.tries = @ + 1]
  /\ UNCHANGED <<buffer, closes, history>>

(* The abort signal ends a fetch, or is noticed after a sleep; a flush that *)
(* began before closeAsync was given no signal and never heeds it.         *)
SendAborted ==
  /\ sending.at # "none"
  /\ HeedsAbort
  /\ GiveUp("aborted")

-----------------------------------------------------------------------------
(* closeAsync *)

CloseBegins ==
  /\ closing = "no"
  /\ closing' = "settling"
  /\ UNCHANGED <<buffer, sending, aborted, history>>

(* awaitInflight resolved: drain, destroy, send what was left.  After the  *)
(* timeout the same code still runs, and retryFetch returns at once.       *)
CloseDrains ==
  /\ closing = "settling"
  /\ flight = << >>
  /\ active' = << >>
  /\ destroyed' = TRUE
  /\ timer' = FALSE
  /\ UNCHANGED <<flight, aborted, logged, delivered, reported>>
  /\ \/ /\ active # << >> /\ ~aborted
        /\ sending' = [at |-> "posting", batch |-> active, tries |-> 0, heeds |-> TRUE]
        /\ closing' = "sending"
        /\ UNCHANGED forsaken
     \/ /\ active # << >> /\ aborted
        /\ forsaken' = forsaken \union (Elements(active) \X {"aborted"})
        /\ closing' = "done"
        /\ UNCHANGED sending
     \/ /\ active = << >>
        /\ closing' = "done"
        /\ UNCHANGED <<sending, forsaken>>

(* The close timeout wins the race: closeAsync returns here. *)
CloseTimesOut ==
  /\ closing \in {"settling", "sending"}
  /\ ~aborted
  /\ aborted' = TRUE
  /\ destroyed' = TRUE
  /\ timer' = FALSE
  /\ UNCHANGED <<active, flight, sending, closing, history>>

-----------------------------------------------------------------------------
Sender ==
  \/ PostSucceeds \/ PostRejected \/ PostExhausted \/ BackoffEnds \/ SendAborted
  \/ \E taken \in BOOLEAN : PostFails(taken)

Next ==
  \/ \E e \in Events : Push(e)
  \/ TimerFires
  \/ Sender
  \/ CloseBegins \/ CloseDrains \/ CloseTimesOut

Spec == Init /\ [][Next]_vars

(* Armed timers fire, and every POST and sleep ends (AbortSignal.timeout). *)
Fairness == WF_vars(TimerFires) /\ WF_vars(Sender) /\ WF_vars(CloseDrains)

FairSpec == Spec /\ Fairness

-----------------------------------------------------------------------------
(* buffer.ts: active plus in-flight events never exceed the cap, whatever  *)
(* order pushes, flushes, failures and close come in.                      *)
RetainedWithinCap == Len(active) + Len(flight) <= MaxRetained

(* Every event push() took is accounted for: still buffered, being sent,   *)
(* delivered or reported; only a close that timed out may forsake a batch. *)
Accounted ==
  \A e \in Elements(logged) :
    \/ e \in Elements(active) \union Elements(sending.batch) \union delivered
    \/ reported[e] > 0
    \/ aborted /\ \E why \in {"aborted", "rejected", "exhausted"} : <<e, why>> \in forsaken

(* droppedEvents counts a lost event once, and never one that is still on  *)
(* its way: no event is both evicted and sent.                             *)
DroppedOnce ==
  \A e \in Events :
    /\ reported[e] <= 1
    /\ reported[e] = 1 => e \notin Elements(active) \union Elements(sending.batch)

(* Oldest first: events leave the active buffer in log order, so that what *)
(* an outage leaves behind is the most recent context (README).            *)
ActiveIsNewest ==
  active = SubSeq(logged, Len(logged) - Len(active) + 1, Len(logged))

(* A flush in flight always settles, so awaitInflight returns. *)
FlushSettles == flight # << >> ~> flight = << >>

(* closeAsync's work comes to an end although its batch may be retried. *)
CloseCompletes == closing # "no" ~> closing = "done"

(* buffer.ts:125-126 says that events a skipped flush leaves in the active *)
(* buffer wait for the next timer tick: so a buffered event is eventually  *)
(* taken out of the active buffer.                                         *)
BufferedIsFlushed == \A e \in Events : e \in Elements(active) ~> e \notin Elements(active)

(* types.ts:36: onDrop is called for a batch dropped after retry           *)
(* exhaustion or rejection.                                                *)
FailedBatchIsReported ==
  \A e \in Events, why \in {"rejected", "exhausted"} : <<e, why>> \notin forsaken

(* What the buffer keeps, whatever order pushes, flushes, failures and     *)
(* close come in: no more than the cap, and the newest events.             *)
MemorySound == TypeOK /\ RetainedWithinCap /\ ActiveIsNewest

(* A pushed event is buffered, on its way, delivered or reported, and is   *)
(* reported as dropped once, and only when it is really gone.              *)
AccountedOnce == Accounted /\ DroppedOnce

(* A flush in flight settles, and closeAsync comes to its end.             *)
Settles == FlushSettles /\ CloseCompletes
=============================================================================
