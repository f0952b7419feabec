--------------------------- MODULE ThresholdAlerts ---------------------------
(***************************************************************************)
(* Threshold rules of one tenant (watches/threshold-evaluator.ts).  Every  *)
(* minute an evaluation begins with the rules that are enabled then, and   *)
(* awaits one query per group of rules; the next one does not wait for it, *)
(* and rules change meanwhile.  What follows the answer to a query is one  *)
(* step: the dispatches it awaits do not wait for the delivery.            *)
(***************************************************************************)
EXTENDS Integers, FiniteSets, FiniteSetsExt

CONSTANTS
  Rules,        (* rule ids                                                  *)
  GroupOf,      (* metric, window and environment: rules asked for together  *)
  Cooldowns,    (* what cooldownMinutes may be; 0 for "not set"              *)
  Default,      (* the cooldown of the evaluator, in evaluations             *)
  Slots,        (* evaluations at a time                                     *)
  MaxTime,      (* bound: evaluations                                        *)
  MaxChanges,   (* bound: changes of rules                                   *)
  MaxRestarts   (* bound: exits of the API process                           *)

ThresholdAssumption ==
  /\ Rules \subseteq DOMAIN GroupOf /\ Cooldowns \subseteq Nat /\ Default \in Nat
  /\ MaxTime \in Nat /\ MaxChanges \in Nat /\ MaxRestarts \in Nat

Never == 0 - 1
Groups == {GroupOf[r] : r \in Rules}
Off    == [on |-> FALSE, cool |-> 0]
Idle   == [time |-> Never, rules |-> [r \in Rules |-> Off], left |-> {}, asked |-> {}]

VARIABLES
  now,
  rules,        (* the rule store: enabled or not, and the cooldown; a       *)
                (* deleted rule is one that stays disabled                   *)
  maintenance,  (* TenantSettingsStore.isInMaintenance                       *)
  evals,        (* evaluations in progress: their time, the rules they began *)
                (* with, the groups left, the group whose query is awaited   *)
  firing,       (* firingRules                                               *)
  cooldowns,    (* cooldowns                                                 *)
  told,         (* history: what was dispatched last for a rule              *)
  breach,       (* history: time and cooldown of the last breach dispatched  *)
  off,          (* history: rules that were off after, or for an evaluation  *)
                (* in progress at, their last breach                         *)
  changes, restarts

state   == <<evals, firing, cooldowns>>
history == <<told, breach, off>>
vars    == <<now, rules, maintenance, state, history, changes, restarts>>

Rule == [on : BOOLEAN, cool : Cooldowns \union {0}]

TypeOK ==
  /\ now \in 0..MaxTime
  /\ rules \in [Rules -> Rule] /\ maintenance \in BOOLEAN
  /\ evals \in [Slots -> [time : -1..MaxTime, rules : [Rules -> Rule],
                          left : SUBSET Groups, asked : SUBSET Groups]]
  /\ firing \subseteq Rules
  /\ cooldowns \in [Rules -> -1..MaxTime]
  /\ told \in [Rules -> {"none", "breach", "resolved"}]
  /\ breach \in [Rules -> [time : -1..MaxTime, cool : Nat]]
  /\ off \subseteq Rules
  /\ changes \in 0..MaxChanges /\ restarts \in 0..MaxRestarts

Init ==
  /\ now = 0 /\ rules \in [Rules -> Rule] /\ maintenance = FALSE
  /\ evals = [e \in Slots |-> Idle] /\ firing = {} /\ cooldowns = [r \in Rules |-> Never]
  /\ told = [r \in Rules |-> "none"] /\ breach = [r \in Rules |-> [time |-> Never, cool |-> 0]]
  /\ off = {} /\ changes = 0 /\ restarts = 0

EnabledIn(snapshot) == {r \in Rules : snapshot[r].on}
CoolOf(rule) == IF rule.cool = 0 THEN Default ELSE rule.cool

(* Mutant: cooldowns are pruned as soon as the default period is over. *)
PrunedAtOnce(time, cool) ==
  [r \in Rules |-> IF cool[r] <= time - Default THEN Never ELSE cool[r]]

PrunedCooldowns(time, cool) ==
  [r \in Rules |-> IF cool[r] < time - 2 * Default THEN Never ELSE cool[r]]

(* The marks of rules that this evaluation did not begin with are dropped. *)
PrunedFiring(ev, marks) == marks \intersect EnabledIn(ev.rules)

(* The evaluation e, whose groups left are those of ev, goes on with the   *)
(* next group, or ends: groups of a tenant in maintenance are passed over. *)
GoesOn(e, ev, marks, cool) ==
  \/ /\ ev.left # {} /\ ~maintenance
     /\ \E g \in ev.left : evals' = [evals EXCEPT ![e] = [ev EXCEPT !.left = @ \ {g}, !.asked = {g}]]
     /\ firing' = marks /\ cooldowns' = cool
  \/ /\ ev.left = {} \/ maintenance
     /\ evals' = [evals EXCEPT ![e] = Idle]
     /\ firing' = PrunedFiring(ev, marks) /\ cooldowns' = PrunedCooldowns(ev.time, cool)

(* The timer: with no rule enabled, nothing happens, not even pruning.     *)
Evaluate(e) ==
  /\ now < MaxTime /\ now' = now + 1
  /\ evals[e] = Idle
  /\ IF EnabledIn(rules) = {} THEN UNCHANGED state
     ELSE GoesOn(e, [time |-> now', rules |-> rules, asked |-> {},
                     left |-> {GroupOf[r] : r \in EnabledIn(rules)}], firing, cooldowns)
  /\ UNCHANGED <<rules, maintenance, history, changes, restarts>>

RulesAsked(ev) == {r \in EnabledIn(ev.rules) : GroupOf[r] \in ev.asked}

Cooling(ev, r) == cooldowns[r] # Never /\ ev.time - cooldowns[r] < CoolOf(ev.rules[r])

(* queryMetric returns: the rules in breaching breach.                     *)
QueryReturns(e, breaching) ==
  LET ev       == evals[e]
      resolved == (RulesAsked(ev) \ breaching) \intersect firing
      alerted  == {r \in breaching : ~Cooling(ev, r)}
  IN /\ ev.asked # {} /\ breaching \subseteq RulesAsked(ev)
     /\ GoesOn(e, [ev EXCEPT !.asked = {}], (firing \ resolved) \union breaching,
               [r \in Rules |-> IF r \in alerted THEN ev.time ELSE cooldowns[r]])
     /\ told' = [r \in Rules |-> IF r \in resolved THEN "resolved"
                                 ELSE IF r \in alerted THEN "breach" ELSE told[r]]
     /\ breach' = [r \in Rules |-> IF r \in alerted
                                   THEN [time |-> ev.time, cool |-> CoolOf(ev.rules[r])] ELSE breach[r]]
     /\ off' = (off \ alerted) \union
               {r \in alerted : ~rules[r].on \/ \E f \in Slots : evals[f] # Idle /\ ~evals[f].rules[r].on}
     /\ UNCHANGED <<now, rules, maintenance, changes, restarts>>

(* The query throws: the group is left as it was.                          *)
QueryFails(e) ==
  /\ evals[e].asked # {}
  /\ GoesOn(e, [evals[e] EXCEPT !.asked = {}], firing, cooldowns)
  /\ UNCHANGED <<now, rules, maintenance, history, changes, restarts>>

(* A rule is created, enabled, disabled, deleted or given another cooldown. *)
ChangeRule(r, rule) ==
  /\ changes < MaxChanges /\ changes' = changes + 1
  /\ rules[r] # rule /\ rules' = [rules EXCEPT ![r] = rule]
  /\ off' = IF rule.on THEN off ELSE off \union {r}
  /\ UNCHANGED <<now, maintenance, state, told, breach, restarts>>

SetMaintenance ==
  /\ changes < MaxChanges /\ changes' = changes + 1
  /\ maintenance' = ~maintenance
  /\ UNCHANGED <<now, rules, state, history, restarts>>

Restart ==
  /\ restarts < MaxRestarts /\ restarts' = restarts + 1
  /\ evals' = [e \in Slots |-> Idle] /\ firing' = {} /\ cooldowns' = [r \in Rules |-> Never]
  /\ off' = Rules /\ breach' = [r \in Rules |-> [time |-> Never, cool |-> 0]]
  /\ UNCHANGED <<now, rules, maintenance, told, changes>>

Next ==
  \/ \E e \in Slots :
       \/ Evaluate(e) \/ QueryFails(e)
       \/ \E breaching \in SUBSET Rules : QueryReturns(e, breaching)
  \/ \E r \in Rules, rule \in Rule : ChangeRule(r, rule)
  \/ SetMaintenance \/ Restart

Spec == Init /\ [][Next]_vars

-----------------------------------------------------------------------------
(* A breach of a rule is told of no sooner than its cooldown after the     *)
(* evaluation that told of the last one, however evaluations overlap, as   *)
(* far as the evaluator remembers: for twice the default period.           *)
CooldownHeld ==
  [][\A r \in Rules :
       breach'[r] # breach[r] /\ breach[r].time # Never /\ breach'[r].time # Never =>
         now - breach[r].time >= Min({breach'[r].cool, 2 * Default + 1})]_vars

(* A breach that was told of and not resolved is still marked as firing,   *)
(* so that it can be resolved, unless the rule was off or the process      *)
(* exited since, or an evaluation that knew it as off was in progress.     *)
OpenIsTracked == \A r \in Rules \ off : told[r] = "breach" => r \in firing

(* What is promised of the threshold rules, together.                      *)
BreachesSound == [](TypeOK /\ OpenIsTracked) /\ CooldownHeld

(* A rule's own cooldown is held, whatever it is.                          *)
CooldownOfRule ==
  [][\A r \in Rules :
       breach'[r] # breach[r] /\ breach[r].time # Never /\ breach'[r].time # Never =>
         now - breach[r].time >= breach'[r].cool]_vars
=============================================================================
