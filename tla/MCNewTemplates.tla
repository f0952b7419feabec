---------------------------- MODULE MCNewTemplates ----------------------------
(***************************************************************************)
(* An instance of DashboardReads for one question: is a template that is   *)
(* logged now, and was not before, reported as new?  Two events of two     *)
(* templates, one request, and a server with the settings the repository   *)
(* gives it, so without join_use_nulls.                                    *)
(***************************************************************************)
EXTENDS DashboardReads

CONSTANTS e1, e2, t1, t2

Template == e1 :> t1 @@ e2 :> t2
Service  == [e \in {e1, e2} |-> "a"]
Level    == [e \in {e1, e2} |-> "INFO"]
Trace    == [e \in {e1, e2} |-> "x"]
ByHours  == {[hours |-> 1, since |-> -1, service |-> Every, levels |-> {}]}
=============================================================================
