---------------------------- MODULE ConnectorForm ----------------------------
(***************************************************************************)
(* The connector form of the settings page and the draft it keeps in the   *)
(* browser (connector-settings.tsx, connector-draft.ts).  For S3 the API   *)
(* makes up an ExternalId and a link that opens the AWS console with it:   *)
(* once the link is open a stack is created for that id, so the id has to  *)
(* be kept until a connector is saved with it.  The other fields of the    *)
(* form are always filled in.                                              *)
(*                                                                         *)
(* What a request does when it is answered runs with the state of the      *)
(* render that sent it, and only if the page is still there.               *)
(***************************************************************************)
EXTENDS Naturals, FiniteSets

CONSTANTS
  Ids,         (* ExternalIds the API may make up                          *)
  MaxVisits    (* bound: visits to the settings page                       *)

None == "none"

ConnectorFormAssumption == None \notin Ids /\ MaxVisits \in Nat

VARIABLES
  here,        (* whether the page is mounted                              *)
  visits,
  open,        (* showAddForm                                              *)
  type,        (* connectorType                                            *)
  form,        (* the ExternalId in formValues                             *)
  draft,       (* the ExternalId of the draft in localStorage              *)
  asking,      (* a quick-create request under way                         *)
  saving,      (* requests that create a connector                         *)
  connectors,  (* the ExternalIds of the connectors created                *)
  stacks,      (* the ids the AWS console was opened with                  *)
  discarded,   (* ids the user started over from, that expired, or that    *)
               (* the browser refused to store                             *)
  overlapped   (* ids handed out while a connector was being saved         *)

vars == <<here, visits, open, type, form, draft, asking, saving, connectors, stacks,
          discarded, overlapped>>

Id == Ids \union {None}
Types == {"s3", "other"}

TypeOK ==
  /\ here \in BOOLEAN /\ open \in BOOLEAN /\ asking \in BOOLEAN /\ visits \in 0..MaxVisits
  /\ type \in Types /\ form \in Id /\ draft \in Id
  /\ saving \subseteq [visit : 1..MaxVisits, type : Types, id : Id]
  /\ connectors \subseteq Ids /\ stacks \subseteq Ids
  /\ discarded \subseteq stacks /\ overlapped \subseteq stacks

Init ==
  /\ here = FALSE /\ visits = 0 /\ open = FALSE /\ type = "s3" /\ form = None /\ draft = None
  /\ asking = FALSE /\ saving = {}
  /\ connectors = {} /\ stacks = {} /\ discarded = {} /\ overlapped = {}

-----------------------------------------------------------------------------
(* The page is opened with fresh state, and left with requests under way   *)
(* whose callbacks never run.                                              *)
Mount ==
  /\ ~here /\ visits < MaxVisits
  /\ here' = TRUE /\ visits' = visits + 1
  /\ open' = FALSE /\ type' = "s3" /\ form' = None
  /\ UNCHANGED <<draft, asking, saving, connectors, stacks, discarded, overlapped>>

Unmount ==
  /\ here /\ here' = FALSE /\ asking' = FALSE
  /\ open' = FALSE /\ type' = "s3" /\ form' = None
  /\ UNCHANGED <<visits, draft, saving, connectors, stacks, discarded, overlapped>>

(* The effect that follows `showAddForm' and `connectorType': the form is  *)
(* filled from the draft.                                                  *)
Hydrated(opened, t, values) == IF opened /\ t = "s3" /\ draft # None THEN draft ELSE values

OpenForm ==
  /\ here /\ ~open /\ open' = TRUE
  /\ form' = Hydrated(TRUE, type, form)
  /\ UNCHANGED <<here, visits, type, draft, asking, saving, connectors, stacks, discarded, overlapped>>

ChooseType(t) ==
  /\ here /\ open /\ t # type /\ type' = t
  /\ form' = Hydrated(TRUE, t, None)
  /\ UNCHANGED <<here, visits, open, draft, asking, saving, connectors, stacks, discarded, overlapped>>

ResetForm == open' = FALSE /\ type' = "s3" /\ form' = None

Cancel ==
  /\ here /\ open /\ ResetForm
  /\ UNCHANGED <<here, visits, draft, asking, saving, connectors, stacks, discarded, overlapped>>

(* Offered while the form holds an ExternalId of S3.                       *)
StartOver ==
  /\ here /\ open /\ type = "s3" /\ form # None
  /\ draft' = None /\ form' = None
  /\ discarded' = discarded \union ({draft, form} \ {None})
  /\ UNCHANGED <<here, visits, open, type, asking, saving, connectors, stacks, overlapped>>

(* A draft older than its TTL is dropped when it is read.                  *)
Expire ==
  /\ draft # None /\ ~open
  /\ draft' = None /\ discarded' = discarded \union {draft}
  /\ UNCHANGED <<here, visits, open, type, form, asking, saving, connectors, stacks, overlapped>>

-----------------------------------------------------------------------------
(* The quick-create button, and the answer: the form is set to the values  *)
(* it had when the button was pressed, with the id.                        *)
QuickCreate ==
  /\ here /\ open /\ type = "s3" /\ form = None /\ ~asking
  /\ asking' = TRUE
  /\ UNCHANGED <<here, visits, open, type, form, draft, saving, connectors, stacks, discarded, overlapped>>

QuickCreateFails ==
  /\ here /\ asking /\ asking' = FALSE
  /\ UNCHANGED <<here, visits, open, type, form, draft, saving, connectors, stacks, discarded, overlapped>>

QuickCreateAnswers(x, stored) ==
  /\ here /\ asking /\ asking' = FALSE
  /\ x \notin stacks /\ stacks' = stacks \union {x}
  /\ form' = x /\ draft' = IF stored THEN x ELSE draft
  /\ discarded' = IF stored THEN discarded ELSE discarded \union {x}
  /\ overlapped' = IF saving # {} THEN overlapped \union {x} ELSE overlapped
  /\ UNCHANGED <<here, visits, open, type, saving, connectors>>

(* Test & Save, one at a time in a visit.  Only the fields of the chosen   *)
(* type are sent.                                                          *)
Create ==
  /\ here /\ open /\ \A c \in saving : c.visit # visits
  /\ saving' = saving \union
       {[visit |-> visits, type |-> type, id |-> IF type = "s3" THEN form ELSE None]}
  /\ UNCHANGED <<here, visits, open, type, form, draft, asking, connectors, stacks, discarded, overlapped>>

CreateFails(c) ==
  /\ saving' = saving \ {c}
  /\ UNCHANGED <<here, visits, open, type, form, draft, asking, connectors, stacks, discarded, overlapped>>

(* Mutant: the S3 draft is cleared whatever type was saved. *)
DraftAfterSave(c) == None

(* The draft once a connector of the type that was saved exists.           *)
DraftAfter(c) == IF c.type = "s3" THEN None ELSE draft

Created(c) ==
  /\ saving' = saving \ {c}
  /\ connectors' = connectors \union ({c.id} \ {None})
  /\ IF here /\ c.visit = visits THEN draft' = DraftAfter(c) /\ ResetForm
     ELSE UNCHANGED <<draft, open, type, form>>
  /\ UNCHANGED <<here, visits, asking, stacks, discarded, overlapped>>

Next ==
  \/ Mount \/ Unmount \/ OpenForm \/ Cancel \/ StartOver \/ Expire
  \/ \E t \in Types : ChooseType(t)
  \/ QuickCreate \/ QuickCreateFails
  \/ \E x \in Ids, stored \in BOOLEAN : QuickCreateAnswers(x, stored)
  \/ Create
  \/ \E c \in saving : CreateFails(c) \/ Created(c)

Spec == Init /\ [][Next]_vars

-----------------------------------------------------------------------------
(* The id a stack was created with is in the stored draft or in a          *)
(* connector.                                                              *)
Kept(x) == x = draft \/ x \in connectors

(* Leaving the page, closing the form, switching its type, or saving       *)
(* another connector loses no id the user still needs; an id handed out    *)
(* next to a save is apart.                                                *)
StackRecoverable == \A x \in stacks \ (discarded \union overlapped) : Kept(x)

(* The same of every id.  (Does not hold: the save that was sent before    *)
(* the id came clears the draft the id was put in.)                        *)
EveryStackRecoverable == \A x \in stacks \ discarded : Kept(x)
=============================================================================
