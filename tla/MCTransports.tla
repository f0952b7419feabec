----------------------------- MODULE MCTransports -----------------------------
(***************************************************************************)
(* The two modes of the transport under the fairness of one event loop.    *)
(* In memory: four log() calls, a flush at two, at most three retained, so *)
(* a second batch grows while the first is retried.  Durable: two calls    *)
(* compete for one row.  A transport has one mode, so a behaviour is about *)
(* one of them.                                                            *)
(***************************************************************************)
EXTENDS BufferedTransport

CONSTANTS Calls      (* the log() calls of the durable transport           *)

VARIABLES
  mode, spool, rowSeq, lastSeq, caller, polls, life, pump, batch, verdict, stale, taken, dropped,
  crashes, faults

durableVars == <<spool, rowSeq, lastSeq, caller, polls, life, pump, batch, verdict, stale, taken,
                 dropped, crashes, faults>>

Durable == INSTANCE DurableTransport WITH
  Events <- Calls, Cap <- 1, BatchSize <- 1, BlockPolls <- 2, MaxCrashes <- 1, MaxFaults <- 1,
  delivered <- taken, reported <- dropped

TransportsInit == mode \in {"memory", "durable"} /\ Init /\ Durable!Init

TransportsNext ==
  \/ mode = "memory" /\ Next /\ UNCHANGED <<mode, durableVars>>
  \/ mode = "durable" /\ Durable!Next /\ UNCHANGED <<mode, vars>>

(* The mode that is not in use takes no step and is owed none.             *)
TransportsSpec ==
  /\ TransportsInit /\ [][TransportsNext]_<<mode, vars, durableVars>>
  /\ mode = "memory" => Fairness
  /\ mode = "durable" => Durable!Fairness

-----------------------------------------------------------------------------
(* Durable mode: a blocked log() call always returns (bounded block,       *)
(* backpressure.ts), and while the process stays up with a live pump,      *)
(* every spooled event is settled in the end.                              *)
DurableServes == Durable!BlockedCallReturns /\ Durable!SpoolDrains
=============================================================================
