----------------------------- MODULE TailClient -----------------------------
(***************************************************************************)
(* The live tail page of the dashboard: useTail, with the buttons and the  *)
(* filters of TailPage.  A visit to the page is one instance of the hook;  *)
(* its refs outlive the visit, its React state does not.  An EventSource   *)
(* reconnects by itself until it is closed.                                *)
(*                                                                         *)
(* `connect' awaits a token before it creates the EventSource, so the page *)
(* may have been left, or its filters changed, when it goes on.  The       *)
(* effect that follows the filters runs in the render that changed them:   *)
(* it is part of SetFilters.                                               *)
(***************************************************************************)
EXTENDS Naturals, FiniteSets

CONSTANTS
  Visits,      (* visits to the page                                       *)
  Sources,     (* EventSource objects                                      *)
  Filters,     (* values of the filters                                    *)
  MaxFails     (* failures in a row before a stream is given up: 3         *)

NoVisit  == "no visit"
NoSource == "no source"

TailClientAssumption ==
  /\ MaxFails \in Nat \ {0} /\ NoVisit \notin Visits /\ NoSource \notin Sources
  /\ Filters # {}

VARIABLES
  visit,       (* the visit under way, or NoVisit                          *)
  visited,     (* visits so far                                            *)
  filters,     (* the filters the page shows                               *)
  status,      (* the status of useTail                                    *)
  awaiting,    (* calls of connect that await their token                  *)
  source,      (* eventSourceRef of each visit                             *)
  armed,       (* whether activityTimerRef of each visit is running        *)
  streams,     (* the EventSource objects                                  *)
  shown        (* the subscriptions the listed events came through         *)

vars == <<visit, visited, filters, status, awaiting, source, armed, streams, shown>>

Status == {"disconnected", "connecting", "connected", "error"}
Unused == [state |-> "none", visit |-> NoVisit, filters |-> NoVisit, fails |-> 0]
Live(s) == streams[s].state \in {"connecting", "open"}
Current(v) == visit = v

TypeOK ==
  /\ visit \in Visits \union {NoVisit} /\ visited \subseteq Visits
  /\ filters \in Filters /\ status \in Status
  /\ awaiting \subseteq [visit : Visits, filters : Filters]
  /\ source \in [Visits -> Sources \union {NoSource}] /\ armed \in [Visits -> BOOLEAN]
  /\ streams \in [Sources -> [state : {"none", "connecting", "open", "closed"},
                              visit : Visits \union {NoVisit},
                              filters : Filters \union {NoVisit}, fails : 0..MaxFails]]
  /\ shown \subseteq Sources

Init ==
  /\ visit = NoVisit /\ visited = {} /\ filters \in Filters /\ status = "disconnected"
  /\ awaiting = {} /\ source = [v \in Visits |-> NoSource] /\ armed = [v \in Visits |-> FALSE]
  /\ streams = [s \in Sources |-> Unused] /\ shown = {}

-----------------------------------------------------------------------------
(* What the React setters do: nothing once the page was left.              *)
Shows(v, st) == IF Current(v) THEN st ELSE status

(* The streams after `disconnect' closed the one its ref holds.            *)
Closing(v) ==
  [s \in Sources |-> IF s = source[v] THEN [streams[s] EXCEPT !.state = "closed"] ELSE streams[s]]

Disconnect(v) ==
  /\ streams' = Closing(v)
  /\ source' = [source EXCEPT ![v] = NoSource]
  /\ armed' = [armed EXCEPT ![v] = FALSE]

(* `connect': disconnect, clear the list, and ask for a token with the     *)
(* filters of this render.                                                 *)
Connect(v, f) ==
  /\ Disconnect(v)
  /\ status' = "connecting" /\ shown' = {}
  /\ awaiting' = awaiting \union {[visit |-> v, filters |-> f]}

Mount(v) ==
  /\ visit = NoVisit /\ v \notin visited
  /\ visit' = v /\ visited' = visited \union {v}
  /\ filters' \in Filters /\ status' = "disconnected" /\ shown' = {}
  /\ UNCHANGED <<awaiting, source, armed, streams>>

Unmount ==
  /\ visit # NoVisit /\ Disconnect(visit)
  /\ visit' = NoVisit
  /\ UNCHANGED <<visited, filters, status, awaiting, shown>>

(* Start Tail or Retry, and Stop: the button follows the status.           *)
CanStart == status \in {"disconnected", "error"}

Start ==
  /\ visit # NoVisit /\ CanStart /\ Connect(visit, filters)
  /\ UNCHANGED <<visit, visited, filters>>

Stop ==
  /\ visit # NoVisit /\ status = "connected" /\ Disconnect(visit)
  /\ status' = "disconnected"
  /\ UNCHANGED <<visit, visited, filters, awaiting, shown>>

SetFilters(f) ==
  /\ visit # NoVisit /\ f # filters /\ filters' = f
  /\ IF status = "connected" THEN Connect(visit, f)
     ELSE UNCHANGED <<status, awaiting, source, armed, streams, shown>>
  /\ UNCHANGED <<visit, visited>>

(* The token arrives: the EventSource is created, whether or not the page  *)
(* is still there.                                                         *)
TokenArrives(a, s) ==
  /\ streams[s].state = "none"
  /\ awaiting' = awaiting \ {a}
  /\ streams' = [streams EXCEPT ![s] = [state |-> "connecting", visit |-> a.visit,
                                        filters |-> a.filters, fails |-> 0]]
  /\ source' = [source EXCEPT ![a.visit] = s]
  /\ UNCHANGED <<visit, visited, filters, status, armed, shown>>

TokenRefused(a) ==
  /\ awaiting' = awaiting \ {a}
  /\ status' = Shows(a.visit, "disconnected")
  /\ UNCHANGED <<visit, visited, filters, source, armed, streams, shown>>

(* `onopen' and `onmessage' restart the activity timer of their visit.     *)
Opens(s) ==
  /\ streams[s].state = "connecting"
  /\ streams' = [streams EXCEPT ![s].state = "open", ![s].fails = 0]
  /\ status' = Shows(streams[s].visit, "connected")
  /\ armed' = [armed EXCEPT ![streams[s].visit] = TRUE]
  /\ UNCHANGED <<visit, visited, filters, awaiting, source, shown>>

Message(s) ==
  /\ streams[s].state = "open"
  /\ armed' = [armed EXCEPT ![streams[s].visit] = TRUE]
  /\ shown' = IF Current(streams[s].visit) THEN shown \union {s} ELSE shown
  /\ UNCHANGED <<visit, visited, filters, status, awaiting, source, streams>>

(* `onerror': a lost connection, which the browser restores or which is    *)
(* refused for good, or an error event of the server on an open one.  A    *)
(* stream that is given up leaves the timers as they are.                  *)
Fails(s, after) ==
  LET fails == streams[s].fails + 1
      over == after = "closed" \/ fails >= MaxFails IN
  /\ Live(s) /\ after \in {"connecting", "closed", streams[s].state}
  /\ streams' = [streams EXCEPT ![s].state = IF over THEN "closed" ELSE after, ![s].fails = fails]
  /\ source' = IF over THEN [source EXCEPT ![streams[s].visit] = NoSource] ELSE source
  /\ status' = Shows(streams[s].visit, IF over THEN "error" ELSE "connecting")
  /\ UNCHANGED <<visit, visited, filters, awaiting, armed, shown>>

(* Nothing was received for autoDisconnectMs.                              *)
Idle(v) ==
  /\ armed[v] /\ Disconnect(v)
  /\ status' = Shows(v, "disconnected")
  /\ UNCHANGED <<visit, visited, filters, awaiting, shown>>

Next ==
  \/ \E v \in Visits : Mount(v)
  \/ Unmount \/ Start \/ Stop
  \/ \E f \in Filters : SetFilters(f)
  \/ \E a \in awaiting, s \in Sources : TokenArrives(a, s)
  \/ \E a \in awaiting : TokenRefused(a)
  \/ \E s \in Sources : Opens(s) \/ Message(s)
  \/ \E s \in Sources, after \in {"connecting", "open", "closed"} : Fails(s, after)
  \/ \E v \in Visits : Idle(v)

Spec == Init /\ [][Next]_vars

-----------------------------------------------------------------------------
(* A live stream can always be closed: the ref of its visit holds it, no   *)
(* visit awaits two tokens or a token next to a live stream, a page that   *)
(* says it is connected has a live stream whose idle timer runs, and the   *)
(* listed events came through one subscription.                            *)
StreamsSound ==
  /\ \A s \in Sources : Live(s) => source[streams[s].visit] = s
  /\ \A a \in awaiting : /\ \A b \in awaiting : a.visit = b.visit => a = b
                         /\ source[a.visit] = NoSource
  /\ visit # NoVisit /\ status = "connected" => source[visit] # NoSource /\ armed[visit]
  /\ Cardinality(shown) <= 1

(* The events of a connected page pass the filters it shows.  (Does not    *)
(* hold: a filter set while the page connects is not followed.)            *)
FiltersFollowed ==
  visit # NoVisit /\ status = "connected" => streams[source[visit]].filters = filters

(* No stream outlives its visit.  (Does not hold: the token may arrive     *)
(* after the page was left.)                                               *)
LeavingStops == \A s \in Sources : Live(s) => Current(streams[s].visit)

=============================================================================
