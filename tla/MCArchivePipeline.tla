------------------------- MODULE MCArchivePipeline -------------------------
(* Model-checking instance of ArchivePipeline. *)
EXTENDS ArchivePipeline

(* Object k holds the event k; the first and the last hold event 1 too:    *)
(* the archive has replayed batches.                                       *)
Distinct == [k \in Keys |-> {k}]
Replayed == [k \in Keys |-> IF k = NumKeys THEN {1} ELSE {k}]

OneHour == [k \in Keys |-> 1]
TwoHours == [k \in Keys |-> IF k < NumKeys THEN 1 ELSE 2]
=============================================================================
