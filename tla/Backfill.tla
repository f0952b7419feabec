------------------------------ MODULE Backfill ------------------------------
(***************************************************************************)
(* The simulator's backfill (backfill.ts): history minute by minute, in    *)
(* batches per service, with a burst of errors planted after a deploy.     *)
(* Time runs from 0 to Now in units of which Minute make a minute; a       *)
(* window that is not whole days does not begin on the deploy's minute.    *)
(***************************************************************************)
EXTENDS TemplateEngine, Integers, Functions

CONSTANTS
  Minute, Now,
  DeployTimes, (* where the planted deploy may fall                        *)
  Burst,       (* length of the burst, in units                            *)
  Planted,     (* the planted service                                      *)
  MaxBatch,    (* events that make a batch: 1000                           *)
  PerMinute    (* events a minute may have                                 *)

NoService == "no service"

BackfillAssumption ==
  /\ Planted \in Services /\ NoService \notin Services
  /\ Minute > 0 /\ MaxBatch > 0 /\ PerMinute \subseteq Nat

VARIABLES
  deployAt, bucket,
  todo,        (* events of the minute still to come; -1: not drawn yet    *)
  burst,       (* burstActive                                              *)
  engines,
  batches,     (* events per service not sent yet                          *)
  posting,     (* the service whose batch is awaited                       *)
  sent, failed,
  total,       (* events made                                              *)
  remaining,   (* services the last loop has still to flush                *)
  marker       (* the planted marker                                       *)

vars == <<deployAt, bucket, todo, burst, engines, batches, posting, sent, failed, total,
          remaining, marker>>

burstEnd == deployAt + Burst
Running == posting = NoService /\ bucket < Now

TypeOK ==
  /\ bucket \in Nat /\ todo \in Nat \union {-1} /\ burst \in BOOLEAN
  /\ engines \in [Services -> Engine] /\ batches \in [Services -> 0..MaxBatch]
  /\ posting \in Services \union {NoService} /\ sent \in Nat /\ failed \in Nat /\ total \in Nat
  /\ remaining \subseteq Services /\ marker \in {"none", "posting", "answered"}

Init ==
  /\ deployAt \in DeployTimes /\ bucket = 0 /\ todo = -1 /\ burst = FALSE
  /\ engines = [s \in Services |-> Fresh(s)] /\ batches = [s \in Services |-> 0]
  /\ posting = NoService /\ sent = 0 /\ failed = 0 /\ total = 0
  /\ remaining = Services /\ marker = "none"

Begins == ~burst /\ bucket >= deployAt /\ bucket < burstEnd
Ends == burst /\ bucket >= burstEnd

(* A minute begins: the burst starts or ends, and its events are counted.  *)
Open ==
  /\ Running /\ todo = -1
  /\ todo' \in PerMinute
  /\ burst' = (IF Begins THEN TRUE ELSE IF Ends THEN FALSE ELSE burst)
  /\ engines' = [engines EXCEPT ![Planted] =
       IF Begins THEN ActivateErrorStorm(Planted, ActivateSpike(Planted, @))
       ELSE IF Ends THEN DeactivateSpike(Planted, DeactivateErrorStorm(Planted, @)) ELSE @]
  /\ UNCHANGED <<deployAt, bucket, batches, posting, sent, failed, total, remaining, marker>>

(* An event, its time somewhere in the minute; a full batch is flushed.    *)
Generate(s) ==
  /\ Running /\ todo > 0 /\ Drawn(engines[s]) # {}
  /\ todo' = todo - 1 /\ total' = total + 1
  /\ batches' = [batches EXCEPT ![s] = @ + 1]
  /\ posting' = IF batches[s] + 1 >= MaxBatch THEN s ELSE NoService
  /\ UNCHANGED <<deployAt, bucket, burst, engines, sent, failed, remaining, marker>>

Close ==
  /\ Running /\ todo = 0 /\ todo' = -1 /\ bucket' = bucket + Minute
  /\ UNCHANGED <<deployAt, burst, engines, batches, posting, sent, failed, total, remaining,
                 marker>>

(* flush goes on with the answer of postBatch.                             *)
Posted(ok) ==
  /\ posting # NoService
  /\ sent' = sent + (IF ok THEN batches[posting] ELSE 0)
  /\ failed' = failed + (IF ok THEN 0 ELSE batches[posting])
  /\ batches' = [batches EXCEPT ![posting] = 0] /\ posting' = NoService
  /\ UNCHANGED <<deployAt, bucket, todo, burst, engines, total, remaining, marker>>

(* The loop over what is left; an empty batch is not sent.                 *)
Flush(s) ==
  /\ posting = NoService /\ bucket >= Now /\ s \in remaining
  /\ remaining' = remaining \ {s}
  /\ posting' = IF batches[s] > 0 THEN s ELSE NoService
  /\ UNCHANGED <<deployAt, bucket, todo, burst, engines, batches, sent, failed, total, marker>>

PlantMarker ==
  /\ posting = NoService /\ bucket >= Now /\ remaining = {} /\ marker # "answered"
  /\ marker' = IF marker = "none" THEN "posting" ELSE "answered"
  /\ UNCHANGED <<deployAt, bucket, todo, burst, engines, batches, posting, sent, failed, total,
                 remaining>>

Next ==
  \/ Open \/ Close \/ PlantMarker
  \/ \E s \in Services : Generate(s) \/ Flush(s)
  \/ \E ok \in BOOLEAN : Posted(ok)

Spec == Init /\ [][Next]_vars

-----------------------------------------------------------------------------
(* Every event is in one batch, and is counted once as sent or as failed   *)
(* when its batch is answered; at the end none is left (flush, postBatch). *)
Counted ==
  /\ total = sent + failed + FoldFunction(+, 0, batches)
  /\ marker # "none" => total = sent + failed

(* The planted service logs a storm over its spike in the minutes that     *)
(* begin within the burst, and is back to normal in all others; no other   *)
(* service changes.                                                        *)
BurstPlanted ==
  todo > 0 =>
    \A s \in Services :
      engines[s].weights =
        IF s = Planted /\ bucket \in deployAt..(burstEnd - 1) THEN Stormed(Spiked(s)) ELSE Base[s]
=============================================================================
