------------------------- MODULE MCDurableTransport -------------------------
(* Model-checking instance of DurableTransport: interchangeable events. *)
EXTENDS DurableTransport, TLC

Symmetry == Permutations(Events)
=============================================================================
