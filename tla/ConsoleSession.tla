--------------------------- MODULE ConsoleSession ---------------------------
(***************************************************************************)
(* The signed-in user as the dashboard shows it (auth-provider.tsx, the    *)
(* pages AuthGate chooses between, the 2FA wizard and its settings card)   *)
(* next to the cookie and the row the API decides by (routes/auth.ts).     *)
(* Every change of a user's credentials moves the session version of its   *)
(* row; /auth/me accepts a cookie of the current version only.  What the   *)
(* API checks of passwords, codes and lockouts is in Accounts.             *)
(***************************************************************************)
EXTENDS Naturals, FiniteSets

CONSTANTS
  MaxVersion   (* bound: changes of the row                                *)

VARIABLES
  row,         (* the user's row                                           *)
  cookie,      (* version in the browser's cookie; 0: there is none        *)
  user,        (* what the dashboard shows: the row it was told of, or {}  *)
  loading,     (* isLoading: the first refresh is not over                 *)
  wizard,      (* step of the 2FA wizard, or "away"                        *)
  requests,    (* requests of the dashboard under way                      *)
  elsewhere,   (* the row was changed from another device                  *)
  unsure       (* a request overlapped a logout, its answer was lost, or   *)
               (* the wizard was left before its last step                 *)

vars == <<row, cookie, user, loading, wizard, requests, elsewhere, unsure>>

Shown == [must : BOOLEAN, totp : BOOLEAN]
Ops == {"me", "login", "logout", "password", "setup", "confirm", "disable"}

TypeOK ==
  /\ row \in [version : 1..MaxVersion, must : BOOLEAN, totp : {"off", "pending", "on"}]
  /\ cookie \in 0..MaxVersion /\ user \subseteq Shown /\ Cardinality(user) <= 1
  /\ loading \in BOOLEAN /\ wizard \in {"away", "intro", "scan", "recovery"}
  /\ requests \subseteq [op : Ops, after : Ops, stage : {"sent", "served", "refused"},
                         answer : SUBSET Shown]
  /\ elsewhere \in BOOLEAN /\ unsure \in BOOLEAN

(* One request of each kind at a time: a button waits for its own answer,  *)
(* and for the refresh its handler goes on with.                           *)
Busy(op) == \E q \in requests : op \in {q.op, q.after}
Request(op, after) == [op |-> op, after |-> after, stage |-> "sent", answer |-> {}]
Send(op) == ~Busy(op) /\ requests' = requests \union {Request(op, op)}
Told == {[must |-> row.must, totp |-> row.totp = "on"]}

Init ==
  /\ row \in [version : {1}, must : BOOLEAN, totp : {"off", "on"}]
  /\ cookie \in {0, 1} /\ user = {} /\ loading = TRUE /\ wizard = "away"
  /\ requests = {Request("me", "me")} /\ elsewhere = FALSE /\ unsure = FALSE

(* The page AuthGate shows.                                                *)
Page ==
  IF loading THEN "skeleton" ELSE IF user = {} THEN "login"
  ELSE IF \E u \in user : u.must THEN "change" ELSE "app"

-----------------------------------------------------------------------------
(* What the user does. *)
Press(op) ==
  /\ CASE op = "login"    -> Page = "login"
       [] op = "password" -> Page = "change"
       [] op = "logout"   -> Page = "app"
       [] op = "setup"    -> Page = "app" /\ wizard = "intro" /\ \A u \in user : ~u.totp
       [] op = "confirm"  -> Page = "app" /\ wizard = "scan"
       [] op = "disable"  -> Page = "app" /\ wizard = "away" /\ \A u \in user : u.totp
  /\ Send(op)
  /\ unsure' = (unsure \/ (op = "logout" /\ requests # {}) \/ Busy("logout"))
  /\ UNCHANGED <<row, cookie, user, loading, wizard, elsewhere>>

(* The wizard is a page of its own; it is entered with no request of an    *)
(* earlier visit under way.                                                *)
Enter ==
  /\ Page = "app" /\ wizard = "away" /\ ~Busy("setup") /\ ~Busy("confirm")
  /\ wizard' = "intro"
  /\ UNCHANGED <<row, cookie, user, loading, requests, elsewhere, unsure>>

Leave ==
  /\ Page = "app" /\ wizard # "away" /\ wizard' = "away"
  /\ unsure' = (unsure \/ wizard = "recovery" \/ Busy("confirm"))
  /\ UNCHANGED <<row, cookie, user, loading, requests, elsewhere>>

(* The last step of the wizard asks for the user anew.                     *)
Finish ==
  /\ Page = "app" /\ wizard = "recovery" /\ ~Busy("me")
  /\ requests' = requests \union {Request("me", "confirm")}
  /\ wizard' = "away"
  /\ unsure' = (unsure \/ Busy("logout"))
  /\ UNCHANGED <<row, cookie, user, loading, elsewhere>>

-----------------------------------------------------------------------------
(* The API serves a request.  The routes of the user's own account read    *)
(* the cookie and the row, but do not compare their versions.              *)
Refuses(op) ==
  CASE op = "me" -> cookie # row.version
    [] op = "logout" -> FALSE
    [] op = "login" -> FALSE
    [] op = "confirm" -> cookie = 0 \/ row.totp = "off"
    [] OTHER -> cookie = 0

Changed(op) ==
  CASE op = "password" -> [row EXCEPT !.version = @ + 1, !.must = FALSE]
    [] op = "setup"    -> [row EXCEPT !.version = @ + 1, !.totp = "pending"]
    [] op = "confirm"  -> [row EXCEPT !.version = @ + 1, !.totp = "on"]
    [] op = "disable"  -> [row EXCEPT !.version = @ + 1, !.totp = "off"]
    [] OTHER -> row

(* The cookie after the answer: a login and a new password issue one.      *)
CookieAfter(op, refused) ==
  CASE op = "logout" -> 0
    [] op = "me" -> IF refused THEN 0 ELSE cookie
    [] op = "login" -> IF refused THEN cookie ELSE row.version
    [] op = "password" -> IF refused THEN cookie ELSE row.version + 1
    [] OTHER -> cookie

Serve(q, wrong) ==
  LET refused == Refuses(q.op) \/ wrong IN
  /\ q.stage = "sent" /\ (wrong => q.op \notin {"me", "logout"})
  /\ refused \/ q.op \in {"me", "login", "logout"} \/ row.version < MaxVersion
  /\ row' = IF refused THEN row ELSE Changed(q.op)
  /\ cookie' = CookieAfter(q.op, refused)
  /\ requests' = (requests \ {q}) \union
       {[q EXCEPT !.stage = IF refused THEN "refused" ELSE "served",
                  !.answer = IF refused \/ q.op \notin {"me", "login"} THEN {} ELSE Told]}
  /\ UNCHANGED <<user, loading, wizard, elsewhere, unsure>>

(* The handlers that call refreshUser when they succeed.                   *)
ThenRefreshes(q) == q.op \in {"password", "disable"}

(* The step of the wizard once an answer came: it is gone with its page.   *)
StepAfter(q, users) ==
  IF users = {} THEN "away"
  ELSE IF q.stage # "served" \/ wizard = "away" THEN wizard
  ELSE CASE q.op = "setup" -> "scan" [] q.op = "confirm" -> "recovery" [] OTHER -> wizard

(* The answer arrives.                                                     *)
Arrives(q) ==
  LET users == IF q.op \in {"me", "logout"} \/ (q.op = "login" /\ q.stage = "served")
               THEN q.answer ELSE user IN
  /\ q.stage # "sent"
  /\ requests' = (requests \ {q}) \union
       (IF q.stage = "served" /\ ThenRefreshes(q) THEN {Request("me", q.op)} ELSE {})
  /\ user' = users /\ wizard' = StepAfter(q, users)
  /\ loading' = (loading /\ q.op # "me")
  /\ unsure' = (unsure \/ (user # {} /\ users = {} /\ Busy("confirm")))
  /\ UNCHANGED <<row, cookie, elsewhere>>

(* The network fails before or after the API served the request: the       *)
(* dashboard shows nobody after a refresh or a logout.                     *)
Lost(q) ==
  /\ requests' = requests \ {q}
  /\ user' = IF q.op \in {"me", "logout"} THEN {} ELSE user
  /\ wizard' = IF q.op \in {"me", "logout"} THEN "away" ELSE wizard
  /\ loading' = (loading /\ q.op # "me")
  /\ unsure' = (unsure \/ q.stage = "served")
  /\ UNCHANGED <<row, cookie, elsewhere>>

(* The user changes the password, or an admin resets it, elsewhere.        *)
ChangedElsewhere ==
  /\ row.version < MaxVersion
  /\ \E must \in BOOLEAN : row' = [row EXCEPT !.version = @ + 1, !.must = must]
  /\ elsewhere' = TRUE
  /\ UNCHANGED <<cookie, user, loading, wizard, requests, unsure>>

Next ==
  \/ \E op \in Ops \ {"me"} : Press(op)
  \/ Enter \/ Leave \/ Finish
  \/ \E q \in requests : Arrives(q) \/ Lost(q) \/ \E wrong \in BOOLEAN : Serve(q, wrong)
  \/ ChangedElsewhere

Spec == Init /\ [][Next]_vars

-----------------------------------------------------------------------------
(* At rest, and outside the wizard, a user that is shown is shown as the   *)
(* row says, unless it was changed elsewhere or an answer was lost.        *)
ShownAsStored ==
  requests = {} /\ wizard = "away" /\ ~elsewhere /\ ~unsure => user \in {{}, Told}

(* Who turns 2FA on or off here stays signed in.  (Does not hold: the      *)
(* change moves the version and no new cookie is issued, so the refresh    *)
(* that follows is refused.)                                               *)
StaysSignedIn ==
  \A q \in requests :
    q.op = "me" /\ q.after \in {"confirm", "disable"} /\ ~elsewhere /\ ~unsure => q.stage # "refused"

(* Who has logged out is shown the login page until the next login.  (Does *)
(* not hold: a refresh that was served before the logout may arrive after  *)
(* it.)                                                                    *)
LogoutStays == requests = {} /\ cookie = 0 => user = {}
=============================================================================
