------------------------------- MODULE Alerts -------------------------------
(***************************************************************************)
(* The alerts of the threshold rules of a tenant, in one API process: the  *)
(* evaluator that tells of them (ThresholdAlerts.tla) and what takes them  *)
(* to their channels (AlertDelivery.tla).  A dispatch does not wait for    *)
(* the delivery and reads nothing of it, so each has its own state, and    *)
(* they have the exits of the process in common.                           *)
(***************************************************************************)
EXTENDS Integers

CONSTANTS
  Rules, GroupOf, Cooldowns, Default, Evaluations, MaxMinutes, MaxChanges,
  Slack, Pager, Generic, AlertKinds, RuleChannels, MaxRetries, MaxAlerts,
  MaxExits      (* bound: exits of the API process                           *)

VARIABLES
  minute, rules, paused, evals, flagged, cooldowns, told, breach, off, changes,
  sent, queues, tasks, tries, got, incident, failed, overlapped,
  exits

ruleVars     == <<minute, rules, paused, evals, flagged, cooldowns, told, breach, off, changes>>
deliveryVars == <<sent, queues, tasks, tries, got, incident, failed, overlapped>>

Thresholds == INSTANCE ThresholdAlerts WITH
  Slots <- Evaluations, MaxTime <- MaxMinutes, MaxRestarts <- MaxExits,
  now <- minute, maintenance <- paused, firing <- flagged, restarts <- exits

Delivery == INSTANCE AlertDelivery WITH
  Kinds <- AlertKinds, MaxRestarts <- MaxExits, restarts <- exits

ASSUME AlertsAssumption == Thresholds!ThresholdAssumption /\ Delivery!DeliveryAssumption

-----------------------------------------------------------------------------
(* A breach is told of no sooner than the cooldown after the last, and a   *)
(* rule that stays enabled and was told of is tracked until it resolves.   *)
BreachesSound == Thresholds!BreachesSound

(* Each alert reaches each of its channels through one observer, or is     *)
(* given up; a PagerDuty incident follows the last alert about it; and a   *)
(* Slack webhook hears of alerts in their order.                           *)
DeliverySound == Delivery!DeliverySound
=============================================================================
