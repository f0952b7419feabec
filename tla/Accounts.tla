------------------------------ MODULE Accounts ------------------------------
(***************************************************************************)
(* Dashboard accounts: the ClickHouse user table (auth/user-store.ts), the *)
(* /v1/auth routes (routes/auth.ts), the login lockout (auth/lockout.ts),  *)
(* and the check of session cookies against a cache of session versions    *)
(* (middleware/auth.ts, auth/session-cache.ts).                            *)
(*                                                                         *)
(* Every update of a user reads the row, awaits, and inserts a whole new   *)
(* row stamped with the time; the row with the latest stamp wins, so of    *)
(* two that overlap either may.  One tenant: a user of another one is "not *)
(* found" to every handler.  Names are locked out per address: one here.   *)
(***************************************************************************)
EXTENDS Naturals, FiniteSets

CONSTANTS
  Users,        (* user ids, in use or not yet                               *)
  Names,        (* user names                                                *)
  NameOf,       (* the name of each id                                       *)
  First,        (* the admin that bootstrap creates                          *)
  Present,      (* other users there are at first                            *)
  Admins,       (* ids that are created with the role of an admin            *)
  Requests,     (* requests in flight                                        *)
  Ops,          (* the operations of this instance                           *)
  NoCookie,     (* "no session"                                              *)
  MaxAttempts,  (* MAX_ATTEMPTS of the lockout                               *)
  MaxTotp,      (* TOTP_MAX_ATTEMPTS                                         *)
  MaxCodes,     (* recovery codes of a user                                  *)
  MaxRequests,  (* bound: requests begun                                     *)
  MaxFaults,    (* bound: inserts that fail or whose answer is lost          *)
  MaxRestarts   (* bound: restarts of the API                                *)

AccountOps == {"login", "password", "setup", "confirm", "disable", "create",
               "delete", "reset", "cli", "call"}

ASSUME AccountsAssumption ==
  /\ NameOf \in [Users -> Names] /\ First \in Admins /\ Admins \union Present \subseteq Users
  /\ \A u, v \in Present \union {First} : NameOf[u] = NameOf[v] => u = v
  /\ Ops \subseteq AccountOps
  /\ MaxAttempts \in Nat \ {0} /\ MaxTotp \in Nat \ {0} /\ MaxCodes \in Nat
  /\ MaxRequests \in Nat /\ MaxFaults \in Nat /\ MaxRestarts \in Nat

VARIABLES
  row,      (* dashboard_users FINAL, whose key is the name, not the id: the *)
            (* row of a name with the latest stamp                           *)
  cache,    (* SessionValidationCache: the version it holds for a user       *)
  lockout,  (* LockoutTracker, by name                                       *)
  cookies,  (* session cookies; one that expires is not used again           *)
  req,      (* the requests                                                  *)
  made,     (* history: ids that were given out                              *)
  answered, (* history: the version a user has by what was answered          *)
  removed,  (* history: whether a deletion of a user landed, was answered    *)
  overlap,  (* history: users that two updates were in progress for          *)
  excused,  (* history: users whose cached version may lag behind the row    *)
  begun, faults, restarts

memory  == <<cache, lockout>>
history == <<made, answered, removed, overlap, excused>>
bounds  == <<begun, faults, restarts>>
vars    == <<row, memory, cookies, req, history, bounds>>

Row ==
  [user : Users, exists : BOOLEAN, admin : BOOLEAN, must : BOOLEAN, totp : {"none", "pending", "on"},
   codes : 0..MaxCodes, ver : Nat]

NoRow == [user |-> First, exists |-> FALSE, admin |-> FALSE, must |-> FALSE, totp |-> "none",
          codes |-> 0, ver |-> 0]

(* createUser: version 1, password to be changed. *)
NewRow(u) ==
  [NoRow EXCEPT !.user = u, !.exists = TRUE, !.admin = u \in Admins, !.must = TRUE, !.ver = 1]

(* findById *)
RowOf(u) == LET x == row[NameOf[u]] IN IF x.exists /\ x.user = u THEN x ELSE NoRow

Cookie == [user : Users, admin : BOOLEAN, ver : Nat]

(* What the cache holds: nothing, or a version and whether it was deleted. *)
NoEntry == [held |-> FALSE, ver |-> 0, gone |-> FALSE]
EntryOf(x) == [held |-> TRUE, ver |-> IF x.exists THEN x.ver ELSE 0, gone |-> ~x.exists]

NoFailures == [fails |-> 0, totp |-> 0, lock |-> "no"]

Idle == [op |-> "none", at |-> "idle", cookie |-> NoCookie, target |-> First,
         user |-> NoRow, seen |-> NoRow, code |-> "no"]

TypeOK ==
  /\ row \in [Names -> Row]
  /\ cache \in [Users -> [held : BOOLEAN, ver : Nat, gone : BOOLEAN]]
  /\ lockout \in [Names -> [fails : Nat, totp : Nat, lock : {"no", "yes", "over"}]]
  /\ cookies \subseteq Cookie
  /\ req \in [Requests ->
       [op : AccountOps \union {"none"}, at : {"idle", "asked", "checked", "fetched", "landed"},
        cookie : Cookie \union {NoCookie}, target : Users, user : Row, seen : Row,
        code : {"no", "spending", "spent"}]]
  /\ made \subseteq Users /\ answered \in [Users -> Nat] /\ removed \in [Users -> {"no", "landed", "answered"}] /\ overlap \subseteq Users
  /\ excused \subseteq Users
  /\ begun \in 0..MaxRequests /\ faults \in 0..MaxFaults /\ restarts \in 0..MaxRestarts

(* The first admin has set up the second factor; everybody is logged in. *)
Init ==
  /\ row = [n \in Names |->
       IF n = NameOf[First]
       THEN [NewRow(First) EXCEPT !.must = FALSE, !.totp = "on", !.codes = MaxCodes]
       ELSE IF \E u \in Present : NameOf[u] = n
            THEN NewRow(CHOOSE u \in Present : NameOf[u] = n) ELSE NoRow]
  /\ cache = [u \in Users |-> NoEntry]
  /\ lockout = [n \in Names |-> NoFailures]
  /\ cookies = {[user |-> u, admin |-> u \in Admins, ver |-> 1] : u \in Present \union {First}}
  /\ req = [r \in Requests |-> Idle]
  /\ made = Present \union {First}
  /\ answered = [u \in Users |-> IF u \in Present \union {First} THEN 1 ELSE 0] /\ removed = [u \in Users |-> "no"] /\ overlap = {} /\ excused = {}
  /\ begun = 0 /\ faults = 0 /\ restarts = 0

-----------------------------------------------------------------------------
(* Helpers *)

Updating(u) == {r \in Requests : req[r].at # "idle" /\ req[r].op # "call"
                                  /\ NameOf[req[r].target] = NameOf[u]}

(* A request for target begins: the handler has asked the table for it. *)
Begin(r, op, c, target, user) ==
  /\ req[r].at = "idle" /\ begun < MaxRequests
  /\ begun' = begun + 1
  /\ req' = [req EXCEPT ![r] = [Idle EXCEPT !.op = op, !.at = "asked", !.cookie = c,
                                            !.target = target, !.user = user]]
  /\ overlap' = IF op # "call" /\ Updating(target) # {}
                THEN overlap \union {u \in Users : NameOf[u] = NameOf[target]} ELSE overlap

End(r) == req' = [req EXCEPT ![r] = Idle]

Invalidate(u) == cache' = [cache EXCEPT ![u] = NoEntry]

(* Requests that read the row of u before its last update. *)
ReadBefore(u) == {r \in Requests : req[r].op = "call" /\ req[r].at = "asked"
                                    /\ req[r].target = u /\ req[r].user.ver # RowOf(u).ver}

(* Nothing in flight can bring an older version of u back. *)
Settled(u) == \A r \in Requests : req[r].target = u =>
                ~(req[r].op = "call" /\ req[r].at = "asked") /\ req[r].at # "landed"

-----------------------------------------------------------------------------
(* lockout.ts *)

RecordFailure(n, isTotp) ==
  LET e == [lockout[n] EXCEPT !.fails = @ + 1, !.totp = IF isTotp THEN @ + 1 ELSE @] IN
  lockout' = [lockout EXCEPT ![n] =
    [e EXCEPT !.lock = IF e.fails >= MaxAttempts \/ e.totp >= MaxTotp THEN "yes" ELSE @]]

LockExpires(n) ==
  /\ lockout[n].lock = "yes"
  /\ lockout' = [lockout EXCEPT ![n].lock = "over"]
  /\ UNCHANGED <<row, cache, cookies, req, history, bounds>>

-----------------------------------------------------------------------------
(* POST /auth/session *)

Candidates(n) == {u \in Users : RowOf(u).exists /\ NameOf[u] = n}

(* isLocked, which forgets a lock that is over, then findAllByUsername. *)
LoginBegins(r, n) ==
  /\ "login" \in Ops
  /\ lockout[n].lock # "yes"
  /\ lockout' = [lockout EXCEPT ![n] = IF @.lock = "over" THEN NoFailures ELSE @]
  /\ \E u \in Users :
       /\ NameOf[u] = n
       /\ Candidates(n) # {} => u \in Candidates(n)
       /\ Begin(r, "login", NoCookie, u, RowOf(u))
  /\ UNCHANGED <<row, cache, cookies, made, answered, removed, excused, faults, restarts>>

(* An unknown or ambiguous name, a wrong password, a missing or wrong code. *)
LoginFails(r, isTotp) ==
  LET q == req[r] IN
  /\ q.op = "login" /\ q.at = "asked" /\ q.code = "no"
  /\ isTotp => q.user.totp = "on"
  /\ RecordFailure(NameOf[q.target], isTotp)
  /\ End(r)
  /\ UNCHANGED <<row, cache, cookies, history, bounds>>

(* A recovery code instead of the second factor: updateTotp spends it. *)
LoginByCode(r) ==
  LET q == req[r] IN
  /\ q.op = "login" /\ q.at = "asked" /\ q.code = "no"
  /\ q.user.totp = "on" /\ q.user.codes > 0
  /\ req' = [req EXCEPT ![r].at = "checked", ![r].code = "spending"]
  /\ UNCHANGED <<row, memory, cookies, history, bounds>>

(* Password and second factor are right: the failures are forgotten and    *)
(* updateLastLogin is called.                                              *)
LoginPasses(r) ==
  LET q == req[r] IN
  /\ q.op = "login" /\ q.at = "asked"
  /\ q.user.exists
  /\ req' = [req EXCEPT ![r].at = "checked"]
  /\ lockout' = [lockout EXCEPT ![NameOf[q.target]] = NoFailures]
  /\ UNCHANGED <<row, cache, cookies, history, bounds>>

-----------------------------------------------------------------------------
(* The other routes *)

(* A route for oneself: PUT /auth/password, /auth/totp/... *)
OwnBegins(r, op, c) ==
  /\ op \in Ops \intersect {"password", "setup", "confirm", "disable"}
  /\ c \in cookies
  /\ Begin(r, op, c, c.user, RowOf(c.user))
  /\ UNCHANGED <<row, memory, cookies, made, answered, removed, excused, faults, restarts>>

(* An admin's route for somebody: POST, DELETE /auth/users, reset. *)
AdminBegins(r, op, c, u) ==
  /\ op \in Ops \intersect {"create", "delete", "reset"}
  /\ c \in cookies /\ c.admin
  /\ op = "delete" => u # c.user
  /\ op = "create" => u \notin made
  /\ made' = IF op = "create" THEN made \union {u} ELSE made
  /\ Begin(r, op, c, u, RowOf(u))
  /\ UNCHANGED <<row, memory, cookies, answered, removed, excused, faults, restarts>>

(* scripts/reset-admin-password.ts, a process of its own. *)
CliBegins(r, u) ==
  /\ "cli" \in Ops
  /\ Candidates(NameOf[u]) = {u}
  /\ Begin(r, "cli", NoCookie, u, RowOf(u))
  /\ UNCHANGED <<row, memory, cookies, made, answered, removed, excused, faults, restarts>>

(* Mutant: the name is not looked up. *)
AcceptsAnyName(q) ==
  CASE q.op = "create"  -> TRUE
    [] q.op = "confirm" -> q.user.exists /\ q.user.totp # "none"
    [] OTHER            -> q.user.exists

(* What the handler requires of the row it was answered. *)
Accepts(q) ==
  CASE q.op = "create"  -> ~row[NameOf[q.target]].exists
    [] q.op = "confirm" -> q.user.exists /\ q.user.totp # "none"
    [] OTHER            -> q.user.exists

(* It goes on: the password or code presented is right, a hash computed. *)
HandlerChecks(r) ==
  LET q == req[r] IN
  /\ q.at = "asked" /\ q.op \notin {"login", "call"}
  /\ Accepts(q)
  /\ req' = [req EXCEPT ![r].at = IF q.op = "create" THEN "fetched" ELSE "checked",
                        ![r].seen = IF q.op = "create" THEN row[NameOf[q.target]] ELSE @]
  /\ UNCHANGED <<row, memory, cookies, history, bounds>>

(* It answers 4xx: not found, name taken, wrong password or code; or the   *)
(* table cannot be asked, which a check of a session takes for a refusal.  *)
HandlerRefuses(r) ==
  /\ req[r].at = "asked" /\ req[r].op # "login"
  /\ End(r)
  /\ UNCHANGED <<row, memory, cookies, history, bounds>>

-----------------------------------------------------------------------------
(* user-store.ts *)

(* Each method first reads the row again, and does nothing for no user. *)
StoreFetches(r) ==
  LET q == req[r] IN
  /\ q.at = "checked"
  /\ req' = [req EXCEPT ![r].at = IF RowOf(q.target).exists THEN "fetched" ELSE "landed",
                        ![r].seen = RowOf(q.target)]
  /\ UNCHANGED <<row, memory, cookies, history, bounds>>

SpendsCode(q) == q.code = "spending"

(* The row a method copies the other fields from. *)
Copied(q) == q.seen

(* The row it inserts: a copy, changed in the fields the method is about.  *)
(* updateTotp takes the secret and the codes from the handler.             *)
Written(q) ==
  LET copy == Copied(q)
      bumped == [copy EXCEPT !.ver = @ + 1] IN
  CASE q.op = "create" -> NewRow(q.target)
    [] SpendsCode(q) -> [bumped EXCEPT !.totp = "on", !.codes = q.user.codes - 1]
    [] q.op = "login" /\ ~SpendsCode(q) -> copy
    [] q.op \in {"password", "reset", "cli"} -> [bumped EXCEPT !.must = q.op # "password"]
    [] q.op = "setup" -> [bumped EXCEPT !.totp = "pending", !.codes = q.user.codes]
    [] q.op = "confirm" -> [bumped EXCEPT !.totp = "on", !.codes = MaxCodes]
    [] q.op = "disable" -> [bumped EXCEPT !.totp = "none", !.codes = 0]
    [] q.op = "delete" -> [bumped EXCEPT !.exists = FALSE, !.must = FALSE,
                                         !.totp = "none", !.codes = 0]

(* Mutant: a deletion does not. *)
InvalidatingUnlessGone == {"password", "reset"}

(* The routes that drop the cache entry afterwards. *)
Invalidating == {"password", "delete", "reset"}

(* ReplacingMergeTree(version): the insert changes nothing if another one  *)
(* since the read has a later stamp.                                       *)
InsertLands(r) ==
  LET q == req[r] IN
  /\ q.at = "fetched"
  /\ \E latest \in BOOLEAN :
       /\ latest \/ row[NameOf[q.target]] # q.seen
       /\ row' = [row EXCEPT ![NameOf[q.target]] = IF latest THEN Written(q) ELSE @]
  /\ req' = [req EXCEPT ![r].at = "landed"]
  /\ excused' = IF q.op \in {"setup", "confirm", "disable", "cli"} \/ SpendsCode(q)
                THEN excused \union {q.target} ELSE excused
  /\ removed' = IF q.op = "delete" /\ removed[q.target] = "no"
                THEN [removed EXCEPT ![q.target] = "landed"] ELSE removed
  /\ UNCHANGED <<memory, cookies, made, answered, overlap, bounds>>

(* The insert is refused, or lands and its answer is lost.  The login      *)
(* handler takes an error of updateTotp for a wrong code.                  *)
StoreFails(r) ==
  LET q == req[r] IN
  /\ q.at \in {"checked", "fetched", "landed"} /\ faults < MaxFaults
  /\ faults' = faults + 1
  /\ End(r)
  /\ excused' = IF q.at = "landed" THEN excused \union {q.target} ELSE excused
  /\ IF SpendsCode(q) THEN RecordFailure(NameOf[q.target], TRUE) ELSE UNCHANGED lockout
  /\ UNCHANGED <<row, cache, cookies, made, answered, removed, overlap, begun, restarts>>

(* The code is spent; the login goes on. *)
CodeSpent(r) ==
  /\ req[r].at = "landed" /\ SpendsCode(req[r])
  /\ req' = [req EXCEPT ![r].at = "asked", ![r].code = "spent"]
  /\ UNCHANGED <<row, memory, cookies, history, bounds>>

(* Mutant: the version is taken as it was before the update. *)
IssuedUnbumped(q) ==
  IF q.op \in {"login", "password"}
  THEN {[user |-> q.target, admin |-> q.user.admin, ver |-> q.user.ver]} ELSE {}

(* The cookie a login or a password change answers with. *)
Issued(q) ==
  CASE q.op = "login"    -> {[user |-> q.target, admin |-> q.user.admin, ver |-> q.user.ver]}
    [] q.op = "password" -> {[user |-> q.target, admin |-> q.user.admin, ver |-> q.user.ver + 1]}
    [] OTHER             -> {}

(* The route drops the cache entry where it does, and answers. *)
Answers(r) ==
  LET q == req[r] IN
  /\ q.at = "landed" /\ ~SpendsCode(q)
  /\ End(r)
  /\ cookies' = cookies \union Issued(q)
  /\ IF q.op \in Invalidating THEN Invalidate(q.target) ELSE UNCHANGED cache
  /\ excused' = IF ReadBefore(q.target) # {} THEN excused \union {q.target} ELSE excused
  /\ answered' = [answered EXCEPT ![q.target] =
                    IF q.op = "create" \/ q.code = "spent" \/ (q.op # "login" /\ q.seen.exists)
                    THEN @ + 1 ELSE @]
  /\ removed' = IF q.op = "delete" THEN [removed EXCEPT ![q.target] = "answered"] ELSE removed
  /\ UNCHANGED <<row, lockout, made, overlap, bounds>>

-----------------------------------------------------------------------------
(* Any other route: the check of the session cookie.  An entry in the cache *)
(* decides at once and changes nothing; without one the table is asked.    *)
CallBegins(r, c) ==
  /\ "call" \in Ops /\ c \in cookies /\ ~cache[c.user].held
  /\ Begin(r, "call", c, c.user, RowOf(c.user))
  /\ UNCHANGED <<row, memory, cookies, made, answered, removed, excused, faults, restarts>>

CallReturns(r) ==
  LET q == req[r] IN
  /\ q.op = "call" /\ q.at = "asked"
  /\ cache' = [cache EXCEPT ![q.target] = EntryOf(q.user)]
  /\ End(r)
  /\ UNCHANGED <<row, lockout, cookies, history, bounds>>

(* An entry is dropped 60 s after it was fetched, at its next use or by    *)
(* the timer.                                                              *)
CacheExpires(u) ==
  /\ cache[u].held /\ Invalidate(u)
  /\ excused' = IF Settled(u) THEN excused \ {u} ELSE excused
  /\ UNCHANGED <<row, lockout, cookies, req, made, answered, removed, overlap, bounds>>

(* A new process: memory is empty; without any user the admin is created. *)
Restart ==
  /\ restarts < MaxRestarts /\ restarts' = restarts + 1
  /\ req' = [r \in Requests |-> Idle]
  /\ cache' = [u \in Users |-> NoEntry]
  /\ lockout' = [n \in Names |-> NoFailures]
  /\ excused' = {}
  /\ IF \E n \in Names : row[n].exists
     THEN UNCHANGED <<row, made>>
     ELSE \E u \in Users \ made :
            /\ NameOf[u] = NameOf[First] /\ made' = made \union {u}
            /\ row' = [row EXCEPT ![NameOf[u]] = [NewRow(u) EXCEPT !.admin = TRUE]]
  /\ UNCHANGED <<cookies, answered, removed, overlap, begun, faults>>

Next ==
  \/ \E r \in Requests :
       \/ \E n \in Names : LoginBegins(r, n)
       \/ \E isTotp \in BOOLEAN : LoginFails(r, isTotp)
       \/ LoginByCode(r) \/ CodeSpent(r) \/ LoginPasses(r)
       \/ \E op \in Ops, c \in cookies :
            OwnBegins(r, op, c) \/ \E u \in Users : AdminBegins(r, op, c, u)
       \/ \E u \in Users : CliBegins(r, u)
       \/ HandlerChecks(r) \/ HandlerRefuses(r)
       \/ StoreFetches(r) \/ InsertLands(r) \/ StoreFails(r) \/ Answers(r)
       \/ \E c \in cookies : CallBegins(r, c)
       \/ CallReturns(r)
  \/ \E u \in Users : CacheExpires(u)
  \/ \E n \in Names : LockExpires(n)
  \/ Restart

Spec == Init /\ [][Next]_vars

-----------------------------------------------------------------------------
Stale(u) == cache[u].held /\ cache[u] # EntryOf(RowOf(u))

(* "A revocation takes effect immediately rather than after the cache TTL" *)
(* (app.ts): once a deletion, a password change or a reset is answered, no *)
(* entry speaks for an older row.  Exempt are updates of the second factor *)
(* and of the command line, which do not drop the entry, answers that were *)
(* lost, a lookup that overtook the update, and updates that overlap.      *)
CacheCoherent ==
  \A u \in Users : Stale(u) =>
    \/ u \in excused \union overlap
    \/ \E r \in Requests : req[r].at = "landed" /\ req[r].target = u

(* The sessions are well typed, and the cache of them coherent.            *)
SessionsSound == TypeOK /\ CacheCoherent

(* Unless two updates of one name overlap, what was answered stays: a user *)
(* who was created is there, with every update counted in the version; one *)
(* who was deleted is not.                                                 *)
UpdatesSurvive ==
  \A u \in Users \ overlap :
    /\ removed[u] = "no" => RowOf(u).ver >= answered[u]
    /\ removed[u] = "answered" => ~RowOf(u).exists

(* The cookie a login or a password change answers with carries the row's  *)
(* version, so that the next request is not "Session expired"; a login by  *)
(* recovery code is exempt.                                                *)
IssuedIsCurrent ==
  [][\A c \in cookies' \ cookies :
       \/ c.user \in overlap
       \/ \E r \in Requests : req[r].code = "spent" /\ req'[r] # req[r]
       \/ c.ver = RowOf(c.user).ver]_vars

(* The same without the exemption. *)
LoginWorks ==
  [][\A c \in cookies' \ cookies : c.user \in overlap \/ c.ver = RowOf(c.user).ver]_vars
=============================================================================
