---------------------------- MODULE AlertDelivery ----------------------------
(***************************************************************************)
(* The delivery of alerts (watches/alert-observer.ts, slack-observer.ts,   *)
(* webhook-observer.ts, history-observer.ts).  The dispatcher hands each   *)
(* alert to every observer and waits for none.  Slack deliveries queue up  *)
(* per URL; every alert has a webhook task of its own, which posts to one  *)
(* channel after the other.  The alerts here are all about one subject, a  *)
(* rule or a service, and so about one PagerDuty incident per channel.     *)
(***************************************************************************)
EXTENDS Naturals, Sequences, SequencesExt, FiniteSets

CONSTANTS
  Slack, Pager, Generic,  (* channels: Slack webhooks, pagerduty:// keys, other URLs *)
  Kinds,        (* of alerts; a template's, which no one resolves, is like "silent" *)
  RuleChannels, (* sets of channels a rule may have                          *)
  MaxRetries,   (* MAX_RETRIES of both observers                             *)
  MaxAlerts,    (* bound: alerts dispatched                                  *)
  MaxRestarts   (* bound: exits of the API process                           *)

Channels == Slack \union Pager \union Generic
Alerts   == 1..MaxAlerts
Observers == {"slack", "webhook"}

DeliveryAssumption ==
  /\ Kinds \subseteq {"template", "breach", "resolved", "silent", "recovered"}
  /\ RuleChannels \subseteq SUBSET Channels /\ \A to \in RuleChannels : IsFiniteSet(to)
  /\ Slack \intersect Pager = {} /\ (Slack \union Pager) \intersect Generic = {}
  /\ MaxRetries \in Nat /\ MaxAlerts \in Nat /\ MaxRestarts \in Nat

VARIABLES
  sent,      (* the alerts dispatched: kind and channels                     *)
  queues,    (* deliveryQueues: alerts waiting for a Slack URL               *)
  tasks,     (* notify of the webhook observer: channels left                *)
  tries,     (* failed attempts of the post in progress, per queue and task  *)
  got,       (* what a channel received: alert and observer                  *)
  incident,  (* PagerDuty: whether the incident of a channel is open         *)
  failed,    (* history: alerts given up, and lost, per channel              *)
  overlapped, (* history: alerts dispatched while another was being posted    *)
  restarts

vars == <<sent, queues, tasks, tries, got, incident, failed, overlapped, restarts>>

Alert == [kind : Kinds, to : SUBSET Channels]

TypeOK ==
  /\ sent \in Seq(Alert) /\ Len(sent) <= MaxAlerts
  /\ \A u \in Slack : queues[u] \in Seq(Alerts)
  /\ \A a \in Alerts : tasks[a] \in Seq(Channels)
  /\ tries \in [Slack \union Alerts -> 0..MaxRetries]
  /\ \A c \in Channels : got[c] \subseteq [alert : Alerts, by : Observers]
  /\ incident \in [Pager -> BOOLEAN]
  /\ failed \in [Channels -> SUBSET Alerts]
  /\ overlapped \subseteq Alerts /\ restarts \in 0..MaxRestarts

Init ==
  /\ sent = <<>>
  /\ queues = [u \in Slack |-> <<>>] /\ tasks = [a \in Alerts |-> <<>>]
  /\ tries = [x \in Slack \union Alerts |-> 0]
  /\ got = [c \in Channels |-> {}] /\ incident = [p \in Pager |-> FALSE]
  /\ failed = [c \in Channels |-> {}] /\ overlapped = {} /\ restarts = 0

-----------------------------------------------------------------------------
(* isResolvedAlert, isServiceSilenceResolved *)
Resolves(kind) == kind \in {"resolved", "recovered"}
Fires(kind)    == ~Resolves(kind)

(* hasChannels: the channels of the rule, or else the tenant's webhook.    *)
Targets(kind, channels, tenantUrl) ==
  IF kind \in {"breach", "resolved"} /\ channels # {} THEN channels ELSE tenantUrl

(* Slack takes the alerts that fire, and its own webhooks. *)
SlackTargets(kind, to) == IF Resolves(kind) THEN {} ELSE to \intersect Slack

(* Mutant: generic webhooks are any URL. *)
AnyTargets(to) == to

(* The webhook observer takes what Slack does not. *)
WebhookTargets(to) == to \ Slack

(* AlertDispatcher.dispatch: a post to a channel is in progress while a    *)
(* task has it left.                                                       *)
Dispatch(kind, channels, tenantUrl) ==
  LET to == Targets(kind, channels, tenantUrl)
      a  == Len(sent) + 1
      busy == {b \in Alerts : ToSet(tasks[b]) \intersect WebhookTargets(to) # {}}
  IN /\ Len(sent) < MaxAlerts
     /\ sent' = Append(sent, [kind |-> kind, to |-> to])
     /\ queues' = [u \in Slack |->
                     IF u \in SlackTargets(kind, to) THEN Append(queues[u], a) ELSE queues[u]]
     /\ tasks' = [tasks EXCEPT ![a] = SetToSeq(WebhookTargets(to))]
     /\ overlapped' = IF busy = {} THEN overlapped ELSE overlapped \union {a}
     /\ UNCHANGED <<tries, got, incident, failed, restarts>>

-----------------------------------------------------------------------------
(* A post of alert a to channel c reaches it or not, and is then done with *)
(* or tried again, up to MaxRetries times.                                 *)

Reaches(c, a, by) ==
  /\ got' = [got EXCEPT ![c] = @ \union {[alert |-> a, by |-> by]}]
  /\ incident' = [p \in Pager |-> IF p = c THEN Fires(sent[a].kind) ELSE incident[p]]

Missed == UNCHANGED <<got, incident>>

(* A retry keeps its place in the queue of the URL. *)
SlackRetries(u) == tries' = [tries EXCEPT ![u] = @ + 1] /\ UNCHANGED queues

SlackDone(u) ==
  queues' = [queues EXCEPT ![u] = Tail(@)] /\ tries' = [tries EXCEPT ![u] = 0]

(* SlackObserver.deliver: accepted; refused for good or blocked; or, after *)
(* 429, another status or a network error, retried or given up.            *)
SlackPost(u) ==
  LET a == Head(queues[u])
  IN /\ queues[u] # <<>>
     /\ \/ Reaches(u, a, "slack") /\ SlackDone(u) /\ UNCHANGED failed
        \/ Missed /\ SlackDone(u) /\ failed' = [failed EXCEPT ![u] = @ \union {a}]
        \/ /\ Reaches(u, a, "slack") \/ Missed
           /\ IF tries[u] < MaxRetries THEN SlackRetries(u) /\ UNCHANGED failed
              ELSE SlackDone(u) /\ failed' = [failed EXCEPT ![u] = @ \union {a}]
     /\ UNCHANGED <<sent, tasks, overlapped, restarts>>

TaskDone(a) ==
  tasks' = [tasks EXCEPT ![a] = Tail(@)] /\ tries' = [tries EXCEPT ![a] = 0]

(* WebhookObserver.post: what failed for good is logged, and the next      *)
(* channel is turned to.                                                   *)
WebhookPost(a) ==
  LET c == Head(tasks[a])
  IN /\ tasks[a] # <<>>
     /\ \/ Reaches(c, a, "webhook") /\ TaskDone(a) /\ UNCHANGED failed
        \/ Missed /\ TaskDone(a) /\ failed' = [failed EXCEPT ![c] = @ \union {a}]
        \/ /\ Reaches(c, a, "webhook") \/ Missed
           /\ IF tries[a] < MaxRetries
              THEN tries' = [tries EXCEPT ![a] = @ + 1] /\ UNCHANGED <<tasks, failed>>
              ELSE TaskDone(a) /\ failed' = [failed EXCEPT ![c] = @ \union {a}]
     /\ UNCHANGED <<sent, queues, overlapped, restarts>>

Restart ==
  /\ restarts < MaxRestarts /\ restarts' = restarts + 1
  /\ queues' = [u \in Slack |-> <<>>] /\ tasks' = [a \in Alerts |-> <<>>]
  /\ tries' = [x \in Slack \union Alerts |-> 0]
  /\ failed' = [c \in Channels |-> failed[c] \union
       {a \in Alerts : c \in ToSet(tasks[a]) \/ (c \in Slack /\ Contains(queues[c], a))}]
  /\ UNCHANGED <<sent, got, incident, overlapped>>

Next ==
  \/ \E kind \in Kinds, channels \in RuleChannels, u \in Channels \ Pager :
       Dispatch(kind, channels, {}) \/ Dispatch(kind, channels, {u})
  \/ \E a \in Alerts : WebhookPost(a)
  \/ \E u \in Slack : SlackPost(u)
  \/ Restart

Spec == Init /\ [][Next]_vars

-----------------------------------------------------------------------------
Heard(c) == {g.alert : g \in got[c]}
Pending(c, a) == c \in ToSet(tasks[a]) \/ (c \in Slack /\ Contains(queues[c], a))

(* "The two observers partition each rule's channels with no overlap       *)
(* (double-delivery) and no gaps": a channel hears of an alert from one    *)
(* observer only, and what is no longer pending was heard or given up; no  *)
(* Slack webhook hears of a resolution.                                    *)
Partitioned ==
  /\ \A c \in Channels : \A g, h \in got[c] : g.alert = h.alert => g.by = h.by
  /\ \A a \in DOMAIN sent : \A c \in sent[a].to :
       \/ Pending(c, a) \/ a \in Heard(c) \union failed[c]
       \/ c \in Slack /\ Resolves(sent[a].kind)

(* A Slack webhook hears of the alerts in the order they were dispatched.  *)
SlackInOrder ==
  [][\A u \in Slack : \A g \in got'[u] \ got[u], h \in got[u] : h.alert <= g.alert]_vars

(* An incident that nothing is being posted to is open exactly if the last *)
(* alert for it fires, if that was delivered, and was not dispatched while *)
(* the post of an earlier one was in progress.                             *)
FollowsLast(p, excused) ==
  LET about == {a \in DOMAIN sent : p \in sent[a].to}
  IN \A last \in about \ excused :
       (\A a \in about : a <= last /\ ~Pending(p, a)) /\ last \in Heard(p)
         => incident[p] = Fires(sent[last].kind)
IncidentFollows == \A p \in Pager : FollowsLast(p, overlapped)

(* What is promised of the delivery, together.                             *)
DeliverySound == [](TypeOK /\ Partitioned /\ IncidentFollows) /\ SlackInOrder

(* It does so also when posts of two alerts overlap.                       *)
IncidentFollowsLast == \A p \in Pager : FollowsLast(p, {})
=============================================================================
