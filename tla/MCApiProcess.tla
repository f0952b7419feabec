----------------------------- MODULE MCApiProcess -----------------------------
(***************************************************************************)
(* The API process around its routes: the stores its settings and rules    *)
(* live in, the schema it brings up to date before it serves, and its own  *)
(* start and shutdown.  They share no state, so a behaviour is about one   *)
(* of them, and the others stay as they started.                           *)
(***************************************************************************)
EXTENDS SettingStores, ApiLifecycle, SchemaInit, TLC

VARIABLE part

ProcessInit ==
  /\ part \in {"stores", "schema", "lifecycle"} /\ Init /\ SchemaBegins /\ LifecycleInit
  /\ part = "stores" \/ store = "rules"
  /\ part = "schema" \/ engine = "none"

ProcessNext ==
  \/ part = "stores" /\ Next /\ UNCHANGED <<part, schema, lifecycle>>
  \/ part = "schema" /\ SchemaNext /\ UNCHANGED <<part, vars, lifecycle>>
  \/ part = "lifecycle" /\ LifecycleNext /\ UNCHANGED <<part, vars, schema>>

ProcessSpec == ProcessInit /\ [][ProcessNext]_<<part, vars, schema, lifecycle>>

ProcessSymmetry ==
  Permutations(Requests) \union Permutations(Entries) \union Permutations(Values)
=============================================================================
