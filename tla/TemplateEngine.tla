--------------------------- MODULE TemplateEngine ---------------------------
(***************************************************************************)
(* The template engine of a simulated service (template-engine.ts): which  *)
(* templates it draws from, by the total weight of those that log errors   *)
(* (error, fatal) and of the others.  A spike adds templates and           *)
(* multiplies the errors; a storm makes errors half of what is drawn.      *)
(***************************************************************************)
EXTENDS Naturals

CONSTANTS
  Services,
  Base,        (* weights of a service's templates                         *)
  Extra,       (* weights of its spike's extra_templates                   *)
  Times        (* error_weight_multiplier                                  *)

Kinds == {"normal", "error"}

(* A multiplier of 0, which the configuration allows too, would leave a    *)
(* storm with weights that are no numbers; no shipped service has one.     *)

TemplateEngineAssumption ==
  /\ Base \in [Services -> [Kinds -> Nat]] /\ Extra \in [Services -> [Kinds -> Nat]]
  /\ Times \in [Services -> Nat \ {0}]
  /\ \A s \in Services : \E k \in Kinds : Base[s][k] > 0

Engine == [spike : BOOLEAN, storm : BOOLEAN, weights : [Kinds -> Nat]]
Fresh(s) == [spike |-> FALSE, storm |-> FALSE, weights |-> Base[s]]

Spiked(s) ==
  [k \in Kinds |-> (Base[s][k] + Extra[s][k]) * (IF k = "error" THEN Times[s] ELSE 1)]

(* With templates of one kind only there is nothing to balance.            *)
Stormed(w) == IF \E k \in Kinds : w[k] = 0 THEN w ELSE [w EXCEPT !["error"] = w["normal"]]

ActivateSpike(s, e) ==
  IF e.spike THEN e ELSE [e EXCEPT !.spike = TRUE, !.weights = Spiked(s)]

DeactivateSpike(s, e) ==
  IF e.spike THEN [e EXCEPT !.spike = FALSE, !.weights = Base[s]] ELSE e

ActivateErrorStorm(s, e) ==
  IF e.storm THEN e
  ELSE [e EXCEPT !.storm = TRUE, !.weights = Stormed(IF e.spike THEN e.weights ELSE Base[s])]

(* A spike that is still on is applied again, without the storm.           *)
DeactivateErrorStorm(s, e) ==
  IF e.storm THEN [e EXCEPT !.storm = FALSE, !.weights = IF e.spike THEN Spiked(s) ELSE Base[s]]
  ELSE e

(* pickTemplate: the kinds it may draw.                                    *)
Drawn(e) == {k \in Kinds : e.weights[k] > 0}
=============================================================================
