------------------------------- MODULE Outbox -------------------------------
(***************************************************************************)
(* What the durable mode of the transport promises (the contract spelled   *)
(* out in spool-store.ts and pump.ts): an event whose log() call returned  *)
(* is owed to the server, and stays owed across crashes until the server   *)
(* took it or its loss was reported.  Delivery is at least once: an event  *)
(* may be delivered again after it was released.                           *)
(***************************************************************************)
CONSTANT Events        (* the log calls of the host application *)

VARIABLES
  accepted,            (* events whose log() call was acknowledged        *)
  owed,                (* accepted events the transport must still settle *)
  delivered,           (* events the server took at least once            *)
  reported             (* events handed to onDrop                         *)

vars == <<accepted, owed, delivered, reported>>

TypeOK ==
  /\ accepted \subseteq Events
  /\ owed \subseteq accepted
  /\ delivered \subseteq accepted
  /\ reported \subseteq Events

Init ==
  /\ accepted = {}
  /\ owed = {}
  /\ delivered = {}
  /\ reported = {}

Accept(e) ==
  /\ e \notin accepted
  /\ accepted' = accepted \union {e}
  /\ owed' = owed \union {e}
  /\ UNCHANGED <<delivered, reported>>

(* The server takes a batch, perhaps for the second time. *)
Deliver(S) ==
  /\ delivered' = delivered \union S
  /\ UNCHANGED <<accepted, owed, reported>>

Report(S) ==
  /\ reported' = reported \union S
  /\ UNCHANGED <<accepted, owed, delivered>>

(* The only way out of owed: delivered, or lost out loud. *)
Release(S) ==
  /\ S \subseteq delivered \union reported
  /\ owed' = owed \ S
  /\ UNCHANGED <<accepted, delivered, reported>>

Next ==
  \/ \E e \in Events : Accept(e)
  \/ \E S \in SUBSET accepted : Deliver(S)
  \/ \E S \in SUBSET Events : Report(S)
  \/ \E S \in SUBSET owed : Release(S)

Spec == Init /\ [][Next]_vars
=============================================================================
