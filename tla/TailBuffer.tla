----------------------------- MODULE TailBuffer -----------------------------
(***************************************************************************)
(* The live tail (services/api/src/tail and routes/tail.ts): ingest pushes *)
(* events into a ring per tenant; pollers ask for what is new since a      *)
(* cursor; streams replay from their last event id, subscribe, and write   *)
(* what push hands them in a drain loop.  A memory ceiling and a cleanup   *)
(* timer take rings away.                                                  *)
(*                                                                         *)
(* An event is its sequence number in the ring and its number among all    *)
(* the events ever pushed for the tenant.                                  *)
(***************************************************************************)
EXTENDS Integers, FiniteSets, Sequences, SequencesExt

CONSTANTS
  Tenants,
  Pollers, Streams, (* readers                                              *)
  Home,             (* the tenant of each reader                            *)
  BufferSize,       (* events per ring                                      *)
  MaxEvents,        (* the memory ceiling, in events                        *)
  Limit,            (* events per answer                                    *)
  MaxPending,       (* a drain of more events than this closes the stream   *)
  Idles,            (* tenants fall idle for longer than the timeout        *)
  Expires,          (* all events of a ring grow older than the maximum age *)
  MaxPushes, MaxConnects  (* bounds                                         *)

Readers == Pollers \union Streams

ASSUME TailAssumption ==
  /\ Home \in [Readers -> Tenants]
  /\ {BufferSize, MaxEvents, Limit, MaxPending} \subseteq Nat \ {0}
  /\ {Idles, Expires} \subseteq BOOLEAN
  /\ {MaxPushes, MaxConnects} \subseteq Nat

VARIABLES
  rings,      (* tenant -> its ring: is it there, its seq, its events       *)
  recency,    (* the tenants with a ring, the one pushed to last at the end *)
  count,      (* totalEventCount                                            *)
  current,    (* tenant -> the set that push notifies, 0 for none           *)
  group,      (* stream -> the set its callback is in, 0 when closed        *)
  groups,     (* how many sets were made                                    *)
  pending,    (* stream -> pendingEvents                                    *)
  cursor,     (* reader -> the last seq it was given                        *)
  pushed,     (* history: events pushed per tenant                          *)
  seen,       (* history: the last event a reader was given                 *)
  skipped,    (* history: readers that lost an event and were not told      *)
  falseAlarm, (* history: readers that were told of a gap that was none     *)
  connects

memory  == <<rings, recency, count>>
subs    == <<current, group, groups, pending>>
reading == <<cursor, seen, skipped, falseAlarm>>
vars    == <<memory, subs, reading, pushed, connects>>

NoRing == [live |-> FALSE, seq |-> 0, events |-> <<>>]
NoCursor == -1
Event == [seq : Nat, n : Nat]

TypeOK ==
  /\ rings \in [Tenants -> [live : BOOLEAN, seq : Nat, events : Seq(Event)]]
  /\ \A t \in Tenants : Len(rings[t].events) <= BufferSize
  /\ recency \in Seq(Tenants) /\ IsInjective(recency)
  /\ ToSet(recency) = {t \in Tenants : rings[t].live}
  /\ count \in Nat
  /\ current \in [Tenants -> 0..groups] /\ group \in [Streams -> 0..groups]
  /\ groups \in Nat
  /\ pending \in [Streams -> Seq(Event)]
  /\ cursor \in [Readers -> Nat \union {NoCursor}]
  /\ pushed \in [Tenants -> Nat] /\ seen \in [Readers -> Nat]
  /\ skipped \subseteq Readers /\ falseAlarm \subseteq Readers
  /\ connects \in 0..MaxConnects

Init ==
  /\ rings = [t \in Tenants |-> NoRing]
  /\ recency = <<>> /\ count = 0
  /\ current = [t \in Tenants |-> 0]
  /\ group = [s \in Streams |-> 0] /\ groups = 0
  /\ pending = [s \in Streams |-> <<>>]
  /\ cursor = [r \in Readers |-> NoCursor]
  /\ pushed = [t \in Tenants |-> 0] /\ seen = [r \in Readers |-> 0]
  /\ skipped = {} /\ falseAlarm = {}
  /\ connects = 0

Last0(s, default) == IF s = <<>> THEN default ELSE Last(s)
Prefix(s, n) == SubSeq(s, 1, IF Len(s) < n THEN Len(s) ELSE n)
Suffix(s, n) == SubSeq(s, IF Len(s) < n THEN 1 ELSE Len(s) - n + 1, Len(s))

-----------------------------------------------------------------------------
(* push, and what takes rings away *)

(* enforceMemoryCeiling: the ring of another tenant that has to go. *)
Lru(t) ==
  LET others == SelectSeq(recency, LAMBDA u : u # t)
  IN  IF count < MaxEvents THEN {} ELSE ToSet(Prefix(others, 1))

Forgotten(U) == [u \in Tenants |-> IF u \in U THEN NoRing ELSE rings[u]]
Unsubscribed(U) == [u \in Tenants |-> IF u \in U THEN 0 ELSE current[u]]
Size(U) == FoldSet(LAMBDA u, sum : sum + Len(rings[u].events), 0, U)

Grown(ring, e) ==
  [live |-> TRUE, seq |-> e.seq, events |-> Suffix(Append(ring.events, e), BufferSize)]

(* Mutant: the event that opens an empty ring is not counted. *)
CountFollowers(t) == IF Len(rings[t].events) \in 1..BufferSize-1 THEN 1 ELSE 0

(* One event more, unless the oldest is overwritten. *)
CountOf(t) == IF Len(rings[t].events) < BufferSize THEN 1 ELSE 0

Push(t) ==
  /\ FoldSet(LAMBDA u, sum : sum + pushed[u], 0, Tenants) < MaxPushes
  /\ pushed' = [pushed EXCEPT ![t] = @ + 1]
  /\ LET e == [seq |-> rings[t].seq + 1, n |-> pushed[t] + 1]
         gone == Lru(t)
     IN  /\ rings' = [Forgotten(gone) EXCEPT ![t] = Grown(@, e)]
         /\ recency' = Append(SelectSeq(recency, LAMBDA u : u \notin gone \union {t}), t)
         /\ count' = count - Size(gone) + CountOf(t)
         /\ current' = Unsubscribed(gone)
         /\ pending' = [s \in Streams |->
                          IF group[s] # 0 /\ group[s] = current[t] THEN Append(pending[s], e)
                          ELSE pending[s]]
  /\ UNCHANGED <<group, groups, reading, connects>>

(* cleanup: nothing was pushed for idleTimeoutMs. *)
Idle(t) ==
  /\ Idles
  /\ rings[t].live
  /\ rings' = Forgotten({t})
  /\ recency' = SelectSeq(recency, LAMBDA u : u # t)
  /\ count' = count - Len(rings[t].events)
  /\ current' = Unsubscribed({t})
  /\ UNCHANGED <<group, groups, pending, reading, pushed, connects>>

(* cleanup: the newest event is older than bufferSeconds. *)
Expire(t) ==
  /\ Expires
  /\ rings[t].events # <<>>
  /\ rings' = [rings EXCEPT ![t].events = <<>>]
  /\ UNCHANGED <<recency, count, subs, reading, pushed, connects>>

-----------------------------------------------------------------------------
(* since and recent *)

(* Mutant: no gap is reported. *)
SinceNoGap(t, after) ==
  LET ring == rings[t]
      events == Prefix(SelectSeq(ring.events, LAMBDA e : e.seq > after), Limit)
  IN  [events |-> events, gap |-> FALSE,
       cursor |-> IF ring.events = <<>> THEN after
                  ELSE Last0(events, [seq |-> ring.seq]).seq]

(* The first Limit events after a cursor. *)
Since(t, after) ==
  LET ring == rings[t]
      events == Prefix(SelectSeq(ring.events, LAMBDA e : e.seq > after), Limit)
  IN  [events |-> events,
       gap    |-> ring.events # <<>> /\ after < Head(ring.events).seq,
       cursor |-> IF ring.events = <<>> THEN after
                  ELSE Last0(events, [seq |-> ring.seq]).seq]

(* Twice Limit candidates from the newest on; the first Limit of them. *)
Recent(t) ==
  LET ring == rings[t]
      events == Prefix(Suffix(ring.events, 2 * Limit), Limit)
  IN  [events |-> events,
       cursor |-> IF ring.events = <<>> THEN 0 ELSE Last0(events, [seq |-> ring.seq]).seq]

(* What a reader that is given events, and told of a gap or not, has seen. *)
Given(r, events, gap) ==
  /\ seen' = [seen EXCEPT ![r] = Last0(events, [n |-> @]).n]
  /\ LET follows == events = <<>> \/ Head(events).n = seen[r] + 1
     IN  /\ skipped' = IF gap \/ follows THEN skipped ELSE skipped \union {r}
         /\ falseAlarm' = IF gap /\ follows THEN falseAlarm \union {r} ELSE falseAlarm

-----------------------------------------------------------------------------
(* routes/tail.ts *)

(* GET /tail/poll without a cursor. *)
FirstPoll(p) ==
  /\ cursor[p] = NoCursor
  /\ LET answer == Recent(Home[p])
     IN  /\ cursor' = [cursor EXCEPT ![p] = answer.cursor]
         /\ seen' = [seen EXCEPT ![p] = Last0(answer.events, [n |-> pushed[Home[p]]]).n]
  /\ UNCHANGED <<memory, subs, skipped, falseAlarm, pushed, connects>>

Poll(p) ==
  /\ cursor[p] # NoCursor
  /\ LET answer == Since(Home[p], cursor[p])
     IN  /\ cursor' = [cursor EXCEPT ![p] = answer.cursor]
         /\ Given(p, answer.events, answer.gap)
  /\ UNCHANGED <<memory, subs, pushed, connects>>

(* GET /tail: replay from the last event id, if the client has one, and    *)
(* subscribe.                                                              *)
Connect(s) ==
  /\ group[s] = 0
  /\ connects < MaxConnects
  /\ connects' = connects + 1
  /\ IF cursor[s] = NoCursor
     THEN /\ seen' = [seen EXCEPT ![s] = pushed[Home[s]]]
          /\ UNCHANGED <<cursor, skipped, falseAlarm>>
     ELSE LET replay == Since(Home[s], cursor[s])
          IN  /\ cursor' = [cursor EXCEPT ![s] = Last0(replay.events, [seq |-> @]).seq]
              /\ Given(s, replay.events, replay.gap)
  /\ LET t == Home[s]
         g == IF current[t] = 0 THEN groups + 1 ELSE current[t]
     IN  /\ current' = [current EXCEPT ![t] = g]
         /\ group' = [group EXCEPT ![s] = g]
         /\ groups' = IF current[t] = 0 THEN groups + 1 ELSE groups
  /\ UNCHANGED <<memory, pending, pushed>>

(* unsubscribe: the last callback of a set removes the tenant's entry,     *)
(* whichever set is there by now.                                          *)
Unsubscribe(s) ==
  /\ group' = [group EXCEPT ![s] = 0]
  /\ current' = IF \E o \in Streams \ {s} : group[o] = group[s] THEN current
                ELSE [current EXCEPT ![Home[s]] = 0]
  /\ pending' = [pending EXCEPT ![s] = <<>>]
  /\ UNCHANGED groups

Disconnect(s) ==
  /\ group[s] # 0
  /\ Unsubscribe(s)
  /\ UNCHANGED <<memory, reading, pushed, connects>>

(* The drain loop writes all that is pending. *)
Drain(s) ==
  /\ pending[s] # <<>> /\ Len(pending[s]) <= MaxPending
  /\ cursor' = [cursor EXCEPT ![s] = Last(pending[s]).seq]
  /\ Given(s, pending[s], FALSE)
  /\ pending' = [pending EXCEPT ![s] = <<>>]
  /\ UNCHANGED <<memory, current, group, groups, pushed, connects>>

(* Or there is too much of it. *)
Backpressure(s) ==
  /\ Len(pending[s]) > MaxPending
  /\ Unsubscribe(s)
  /\ UNCHANGED <<memory, reading, pushed, connects>>

Next ==
  \/ \E t \in Tenants : Push(t) \/ Idle(t) \/ Expire(t)
  \/ \E p \in Pollers : FirstPoll(p) \/ Poll(p)
  \/ \E s \in Streams : Connect(s) \/ Disconnect(s) \/ Drain(s) \/ Backpressure(s)

Spec == Init /\ [][Next]_vars

-----------------------------------------------------------------------------
(* totalEventCount, which stands for the memory used, is the number of     *)
(* events in the rings.                                                    *)
CountIsRight == count = Size(Tenants)

(* At least it never falls short of them, whatever wraps, expires, falls   *)
(* idle or is evicted: the ceiling is compared with no less than is held.  *)
CountCovers == count >= Size(Tenants)

(* The ceiling keeps the events of all tenants together within MaxEvents,  *)
(* as far as a single tenant's ring does not exceed it.                    *)
RetainedWithinCeiling ==
  Size(Tenants) <= IF BufferSize < MaxEvents THEN MaxEvents ELSE BufferSize

(* A poll "returns events after this cursor", a stream "supports           *)
(* Last-Event-ID for reconnection replay", and missed events are told by a *)
(* gap: no reader goes on after an event it never got without being told.  *)
NothingSkipped == skipped = {}

(* For a poller it is so while the ring it polls is not taken away, that   *)
(* is, while its sequence counts all that was pushed: wrap-around, expiry  *)
(* and the limit per answer lose nothing untold.                           *)
PollSkipsNothing ==
  \A p \in Pollers : rings[Home[p]].seq = pushed[Home[p]] => p \notin skipped

(* A gap event stands for missed events. *)
GapMeansMissed == falseAlarm = {}

(* An open stream is subscribed: push notifies it until it unsubscribes. *)
SubscribedIsNotified ==
  \A s \in Streams : group[s] # 0 => group[s] = current[Home[s]]

(* recent gets "the N most recent events within a time window". *)
RecentIsNewest == \A t \in Tenants : Recent(t).events = Suffix(rings[t].events, Limit)

(* The rings and their count: in shape, and the count covers what is held. *)
CountSound == TypeOK /\ CountCovers
=============================================================================
