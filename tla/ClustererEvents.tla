--------------------------- MODULE ClustererEvents ---------------------------
(***************************************************************************)
(* The event feed of the clusterer (internal_events.py) through the life   *)
(* of its process (main.py, lifespan): an emitter without ClickHouse while *)
(* the connection is tried, one with it after.  The insert is made by the  *)
(* caller of emit, in the same step, and its failure is swallowed.         *)
(*                                                                         *)
(* Fields are as in InternalEvents, whose rules internal_events.py mirrors.*)
(***************************************************************************)
EXTENDS Naturals, Sequences, FiniteSets

CONSTANTS
  Fields,      (* the fields an event may have                             *)
  Redacted(_), Stripped(_), Summary(_),        (* of InternalEvents        *)
  MaxAttempts, (* attempts to connect: 5                                   *)
  MaxFailures  (* bound: failures of ClickHouse calls                      *)

ClustererEventsAssumption == Fields # {} /\ MaxAttempts \in Nat \ {0}

VARIABLES
  phase,       (* of lifespan                                              *)
  attempt,
  client,      (* whether the emitter has a ClickHouse client              *)
  lines,       (* events on stdout                                         *)
  rows,        (* those in internal_events                                 *)
  failures,
  raised       (* what callers of a failed ClickHouse call got             *)

vars == <<phase, attempt, client, lines, rows, failures, raised>>

Codes == {"CONFIG_LOADED", "CH_UNREACHABLE", "CH_QUERY_FAILED", "SERVICE_STARTED", "SERVICE_STOPPING"}

TypeOK ==
  /\ phase \in {"connecting", "restoring", "up", "stopping", "failed"}
  /\ attempt \in 0..MaxAttempts /\ client \in BOOLEAN /\ failures \in 0..MaxFailures
  /\ \A i \in DOMAIN lines : lines[i].code \in Codes
  /\ raised \in Seq({"connection", "query"})

(* redact_fields and summarize_config.                                     *)
Scrubbed(f) == Redacted(f)
Settings(f) == Summary(f)

Line(code, f) == [code |-> code, fields |-> Scrubbed(f)]
Row(l) == [l EXCEPT !.fields = Stripped(@)]

(* _ship_to_clickhouse.                                                    *)
Ship(l) == rows' = rows \/ (client /\ rows' = Append(rows, Row(l)))

Emit(code, f) == lines' = Append(lines, Line(code, f)) /\ Ship(Line(code, f))

(* init_internal_events(None) has run.                                     *)
Init ==
  /\ phase = "connecting" /\ attempt = 0 /\ client = FALSE
  /\ lines = <<>> /\ rows = <<>> /\ failures = 0 /\ raised = <<>>

(* A failed attempt is tried again after a while; the last one is told of  *)
(* and raised.                                                             *)
ConnectFails ==
  /\ phase = "connecting" /\ attempt' = attempt + 1
  /\ IF attempt + 1 = MaxAttempts
     THEN phase' = "failed" /\ Emit("CH_UNREACHABLE", {}) ELSE UNCHANGED <<phase, lines, rows>>
  /\ UNCHANGED <<client, failures, raised>>

(* The emitter is made anew with the client, and tells of the settings.    *)
Connected ==
  /\ phase = "connecting" /\ phase' = "restoring" /\ client' = TRUE
  /\ \E f \in Fields :
       /\ lines' = Append(lines, Line("CONFIG_LOADED", Settings(f)))
       /\ rows' = rows \/ rows' = Append(rows, Row(Line("CONFIG_LOADED", Settings(f))))
  /\ UNCHANGED <<attempt, failures, raised>>

Started ==
  /\ phase = "restoring" /\ phase' = "up" /\ Emit("SERVICE_STARTED", {})
  /\ UNCHANGED <<attempt, client, failures, raised>>

(* emit_clickhouse_failure, then the caller re-raises.                     *)
CallFails ==
  /\ phase \in {"restoring", "up", "stopping"} /\ failures < MaxFailures
  /\ failures' = failures + 1
  /\ \E kind \in {"connection", "query"}, f \in Fields :
       /\ Emit(IF kind = "connection" THEN "CH_UNREACHABLE" ELSE "CH_QUERY_FAILED", f)
       /\ raised' = Append(raised, kind)
  /\ UNCHANGED <<phase, attempt, client>>

Stopping ==
  /\ phase = "up" /\ phase' = "stopping" /\ Emit("SERVICE_STOPPING", {})
  /\ UNCHANGED <<attempt, client, failures, raised>>

Next == ConnectFails \/ Connected \/ Started \/ CallFails \/ Stopping
Spec == Init /\ [][Next]_vars

-----------------------------------------------------------------------------
Times(events, code) == Cardinality({i \in DOMAIN events : events[i].code = code})
Told(code) == Times(lines, code)

(* The life of the process can be read off stdout: what it was configured  *)
(* with comes first, then start and end, once each, and a failure of       *)
(* ClickHouse for each call that raised one.  The table has no event       *)
(* stdout lacks, and the one about a failed start is never in it.          *)
FeedTellsLife ==
  /\ lines # <<>> => lines[1].code = IF phase = "failed" THEN "CH_UNREACHABLE" ELSE "CONFIG_LOADED"
  /\ Told("SERVICE_STARTED") = (IF phase \in {"up", "stopping"} THEN 1 ELSE 0)
  /\ Told("SERVICE_STOPPING") = (IF phase = "stopping" THEN 1 ELSE 0)
  /\ Told("CH_QUERY_FAILED") + Told("CH_UNREACHABLE")
       = Len(raised) + (IF phase = "failed" THEN 1 ELSE 0)
  /\ \A c \in Codes : Times(rows, c) <= Told(c)
  /\ phase = "failed" => rows = <<>>
=============================================================================
