------------------------------- MODULE MCAccess -------------------------------
(***************************************************************************)
(* Who may use the API: accounts, and API keys with the limits of their    *)
(* requests.  The two share no state, so a behaviour is about one of them, *)
(* and the other stays as it started.                                      *)
(***************************************************************************)
EXTENDS Accounts, Admission, TLC

VARIABLE part

(* An admin, and two ids of one name. *)
NameOfId == [u \in Users |-> IF u = First THEN "admin" ELSE "other"]

RawOfId == [i \in Ids |-> IF i \in Ids \ Raws THEN EnvRaw ELSE i]

AccessInit == part \in {"accounts", "admission"} /\ Init /\ KeysInit

AccessNext ==
  \/ part = "accounts" /\ Next /\ UNCHANGED <<part, keysVars>>
  \/ part = "admission" /\ KeysNext /\ UNCHANGED <<part, vars>>

AccessSpec == AccessInit /\ [][AccessNext]_<<part, vars, keysVars>>

AccessSymmetry ==
  Permutations(Requests) \union Permutations(Clients) \union Permutations(Raws \ {EnvRaw})
=============================================================================
