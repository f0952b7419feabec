----------------------------- MODULE AccessProofs -----------------------------
(***************************************************************************)
(* Sessions follow the accounts: what a session cookie and the cache of    *)
(* session versions say of a user is what the table says, for any number   *)
(* of users, names and requests.  Keys follow their table, within the cap, *)
(* and the query guard counts the requests under way, for any keys, limits *)
(* and number of requests.                                                 *)
(*                                                                         *)
(* The argument for accounts: a user two updates were never in progress    *)
(* for is changed only by a request that is alone with the row, so the row *)
(* is the one it read, until its own insert lands; and from that insert on *)
(* the request is "landed", which covers a stale entry of the cache until  *)
(* the answer drops it, and counts as the one update that is not yet       *)
(* answered.                                                               *)
(***************************************************************************)
EXTENDS Accounts, Admission, FiniteSetTheorems, TLAPS

Updates(r) == req[r].at # "idle" /\ req[r].op # "call"

SameName(r, s) == NameOf[req[r].target] = NameOf[req[s].target]

(* What findById may return for u. *)
Found(x, u) == x = NoRow \/ (x.exists /\ x.user = u /\ x.ver >= 1)

(* What the steps of a request leave behind in it. *)
Shape(q) ==
  /\ q.at = "idle" => q.op = "none"
  /\ q.at # "idle" => q.op # "none"
  /\ q.op = "call" => q.at \in {"idle", "asked"}
  /\ q.op = "create" => q.at # "checked"
  /\ q.code # "no" => q.op = "login"
  /\ q.code = "spending" => q.user.codes > 0 /\ q.at # "asked"
  /\ q.at = "asked" => q.code # "spending"
  /\ Found(q.user, q.target)
  /\ q.at \in {"checked", "fetched", "landed"} /\ q.op # "create" => q.user.exists
  /\ q.at = "fetched" /\ q.op # "create" => Found(q.seen, q.target) /\ q.seen.exists
  /\ q.at = "fetched" /\ q.op = "create" => ~q.seen.exists

Shapes == \A r \in Requests : Shape(req[r])

RowsReal == \A n \in Names : row[n].exists => row[n].ver >= 1

(* Users overlap by name, and two updates of a name do.                    *)
NamesOverlap == \A u \in overlap, v \in Users : NameOf[u] = NameOf[v] => v \in overlap

Alone ==
  \A r, s \in Requests :
    r # s /\ Updates(r) /\ Updates(s) /\ SameName(r, s) => req[r].target \in overlap

(* An id is created by one request, and is nobody before it lands.         *)
Creates(r) == req[r].op = "create"

CreateOnce ==
  \A r \in Requests : Creates(r) =>
    /\ req[r].target \in made
    /\ \A s \in Requests : Creates(s) /\ req[s].target = req[r].target => s = r

Unborn(u) ==
  \/ u \notin made
  \/ \E r \in Requests : Creates(r) /\ req[r].at \in {"asked", "fetched"} /\ req[r].target = u

NobodyYet ==
  \A u \in Users : Unborn(u) =>
    /\ ~RowOf(u).exists /\ ~cache[u].held /\ answered[u] = 0 /\ removed[u] = "no"
    /\ \A c \in cookies : c.user # u
    /\ \A r \in Requests : req[r].target = u => ~req[r].user.exists

CallsHaveCookies ==
  \A r \in Requests : req[r].op = "call" => \E c \in cookies : c.user = req[r].target

(* A request alone with its row.                                           *)
RowAsRead(q) ==
  /\ q.at \in {"asked", "checked", "fetched"} /\ q.code # "spent" => q.user = RowOf(q.target)
  /\ q.at = "fetched" => q.seen = row[NameOf[q.target]]
  /\ q.at = "landed" /\ q.op = "login" /\ q.code = "no" => q.user = RowOf(q.target)
  /\ q.at = "landed" /\ q.op = "password" => RowOf(q.target).ver = q.user.ver + 1
  /\ q.at = "landed" /\ q.op = "delete" => ~RowOf(q.target).exists

(* Its update is in the row and not yet answered.                          *)
Unanswered(q) == q.code = "spent" \/ (q.at = "landed" /\ (q.op # "login" \/ q.code = "spending"))

CountedOnce(q) ==
  Unanswered(q) => removed[q.target] # "no" \/ RowOf(q.target).ver >= answered[q.target] + 1

Undisturbed ==
  \A r \in Requests :
    Updates(r) /\ req[r].target \notin overlap => RowAsRead(req[r]) /\ CountedOnce(req[r])

Remembered ==
  \A u \in Users \ overlap :
    /\ removed[u] = "no" => RowOf(u).ver >= answered[u]
    /\ removed[u] # "no" => ~RowOf(u).exists

(* What a cached version, or one that is about to be cached, may lag for.  *)
Covered(u) ==
  \/ u \in excused \union overlap
  \/ \E r \in Requests : req[r].at = "landed" /\ req[r].target = u /\ req[r].op \in Invalidating

CacheCovered == \A u \in Users : Stale(u) => Covered(u)

CallsCovered ==
  \A r \in Requests :
    req[r].op = "call" /\ EntryOf(req[r].user) # EntryOf(RowOf(req[r].target))
      => Covered(req[r].target)

Inv ==
  /\ TypeOK /\ Shapes /\ RowsReal /\ NamesOverlap /\ Alone /\ CreateOnce /\ NobodyYet
  /\ CallsHaveCookies /\ Undisturbed /\ Remembered /\ CacheCovered /\ CallsCovered
-----------------------------------------------------------------------------
Request ==
  [op : AccountOps \union {"none"}, at : {"idle", "asked", "checked", "fetched", "landed"},
   cookie : Cookie \union {NoCookie}, target : Users, user : Row, seen : Row,
   code : {"no", "spending", "spent"}]

LEMMA Constants ==
  /\ NameOf \in [Users -> Names] /\ First \in Users /\ MaxCodes \in Nat /\ Ops \subseteq AccountOps
  /\ Admins \subseteq Users /\ Present \subseteq Users
  /\ NoRow \in Row /\ Idle \in Request
  /\ \A u \in Users : NewRow(u) \in Row
  <1>1. NameOf \in [Users -> Names] /\ First \in Users /\ MaxCodes \in Nat /\ Ops \subseteq AccountOps
        /\ Admins \subseteq Users /\ Present \subseteq Users
    BY AccountsAssumption
  <1>2. NoRow \in Row
    BY <1>1 DEF NoRow, Row
  <1>3. Idle \in Request
    BY <1>1, <1>2 DEF Idle, Request
  <1>4. ASSUME NEW u \in Users PROVE NewRow(u) \in Row
    <2> DEFINE admin == u \in Admins
    <2>1. admin \in BOOLEAN
      OBVIOUS
    <2>2. NewRow(u) = [NoRow EXCEPT !.user = u, !.exists = TRUE, !.admin = admin, !.must = TRUE,
                                    !.ver = 1]
      BY Zenon DEF NewRow
    <2> HIDE DEF admin
    <2>3. ASSUME NEW x \in Row, NEW a \in BOOLEAN
          PROVE  [x EXCEPT !.user = u, !.exists = TRUE, !.admin = a, !.must = TRUE, !.ver = 1] \in Row
      BY DEF Row
    <2> QED
      BY <2>1, <2>2, <2>3, <1>2
  <1> QED
    BY <1>1, <1>2, <1>3, <1>4

LEMMA Typed ==
  ASSUME TypeOK
  PROVE  /\ req \in [Requests -> Request] /\ row \in [Names -> Row] /\ cookies \subseteq Cookie
         /\ made \subseteq Users /\ overlap \subseteq Users /\ excused \subseteq Users
         /\ \A r \in Requests : req[r].target \in Users /\ req[r].user \in Row /\ req[r].seen \in Row
         /\ \A c \in cookies : c.user \in Users /\ c.ver \in Nat /\ c.admin \in BOOLEAN
  BY DEF TypeOK, Request, Cookie

(* findById returns the row of the user, which counts from one, or none.   *)
LEMMA RowFound ==
  ASSUME TypeOK, RowsReal, NEW u \in Users
  PROVE  RowOf(u) \in Row /\ Found(RowOf(u), u)
  <1>1. row[NameOf[u]] \in Row
    BY Constants, Typed
  <1>2. CASE row[NameOf[u]].exists /\ row[NameOf[u]].user = u
    <2>1. RowOf(u) = row[NameOf[u]]
      BY <1>2 DEF RowOf
    <2>2. row[NameOf[u]].ver >= 1
      BY <1>2, Constants DEF RowsReal
    <2> QED
      BY <1>1, <1>2, <2>1, <2>2 DEF Found
  <1>3. CASE ~(row[NameOf[u]].exists /\ row[NameOf[u]].user = u)
    BY <1>3, Constants DEF RowOf, Found
  <1> QED
    BY <1>2, <1>3

-----------------------------------------------------------------------------
(* A request goes on, or ends, and nothing else changes but that entries   *)
(* of the cache may be excused.                                            *)
Continues(p, q) ==
  /\ q.op = p.op /\ q.target = p.target /\ q.user = p.user
  /\ p.at # "idle" /\ q.at # "idle" /\ p.op # "call"
  /\ q.op = "create" /\ q.at \in {"asked", "fetched"} => p.at \in {"asked", "fetched"}

Moves(r, q) ==
  /\ r \in Requests /\ q \in Request /\ Shape(q)
  /\ req' = [req EXCEPT ![r] = q]
  /\ UNCHANGED <<row, cache, cookies, made, answered, removed, overlap>>
  /\ excused \subseteq excused'
  /\ req[r].at = "landed" /\ req[r].op \in Invalidating => req[r].target \in excused'
  /\ \/ q = Idle
     \/ /\ Continues(req[r], q)
        /\ q.target \notin overlap => RowAsRead(q) /\ CountedOnce(q)

(* All of the invariant but the types.                                     *)
Untyped ==
  /\ Shapes /\ RowsReal /\ NamesOverlap /\ Alone /\ CreateOnce /\ NobodyYet
  /\ CallsHaveCookies /\ Undisturbed /\ Remembered /\ CacheCovered /\ CallsCovered

LEMMA MoveKeeps ==
  ASSUME Inv, NEW r, NEW q, Moves(r, q)
  PROVE  Untyped'
  <1>1. /\ req \in [Requests -> Request] /\ r \in Requests /\ q \in Request /\ Shape(q)
        /\ req' = [req EXCEPT ![r] = q]
        /\ row' = row /\ cache' = cache /\ cookies' = cookies /\ made' = made
        /\ answered' = answered /\ removed' = removed /\ overlap' = overlap
        /\ excused \subseteq excused'
    BY Typed DEF Inv, Moves
  <1>2. /\ req'[r] = q
        /\ \A s \in Requests : s # r => req'[s] = req[s]
    BY <1>1
  <1>3. Idle.op = "none" /\ Idle.at = "idle"
    BY DEF Idle
  <1>4. q = Idle \/ Continues(req[r], q)
    BY DEF Moves
  <1>5. \A s \in Requests :
          /\ Updates(s)' => Updates(s) /\ req'[s].target = req[s].target
          /\ Creates(s)' => Creates(s) /\ req'[s].target = req[s].target
    BY <1>2, <1>3, <1>4 DEF Continues, Updates, Creates
  <1>6. Shapes'
    BY <1>1, <1>2 DEF Inv, Shapes
  <1>7. RowsReal' /\ NamesOverlap'
    BY <1>1 DEF Inv, RowsReal, NamesOverlap
  <1>8. Alone'
    BY <1>1, <1>5 DEF Inv, Alone, SameName
  <1>9. CreateOnce'
    BY <1>1, <1>5 DEF Inv, CreateOnce
  <1>10. NobodyYet'
    <2> SUFFICES ASSUME NEW u \in Users, Unborn(u)'
                 PROVE  /\ ~RowOf(u)'.exists /\ ~cache'[u].held /\ answered'[u] = 0
                        /\ removed'[u] = "no"
                        /\ \A c \in cookies' : c.user # u
                        /\ \A s \in Requests : req'[s].target = u => ~req'[s].user.exists
      BY DEF NobodyYet
    <2>1. Unborn(u)
      BY <1>1, <1>2, <1>3, <1>4 DEF Unborn, Creates, Continues
    <2>2. /\ ~RowOf(u).exists /\ ~cache[u].held /\ answered[u] = 0 /\ removed[u] = "no"
          /\ \A c \in cookies : c.user # u
          /\ \A s \in Requests : req[s].target = u => ~req[s].user.exists
      BY <2>1 DEF Inv, NobodyYet
    <2>3. ~Idle.user.exists
      BY DEF Idle, NoRow
    <2> QED
      BY <1>1, <1>2, <1>4, <2>2, <2>3 DEF RowOf, Continues
  <1>11. CallsHaveCookies'
    BY <1>1, <1>2, <1>3, <1>4 DEF Inv, CallsHaveCookies, Continues
  <1>12. Undisturbed'
    <2> SUFFICES ASSUME NEW s \in Requests, Updates(s)', req'[s].target \notin overlap
                 PROVE  RowAsRead(req[s])' /\ CountedOnce(req[s])'
      BY <1>1 DEF Undisturbed
    <2>1. CASE s = r
      <3>1. RowAsRead(q) /\ CountedOnce(q)
        BY <1>2, <1>3, <2>1 DEF Moves, Updates
      <3> QED
        BY <1>1, <1>2, <2>1, <3>1 DEF RowAsRead, CountedOnce, RowOf, Unanswered
    <2>2. CASE s # r
      <3>1. RowAsRead(req[s]) /\ CountedOnce(req[s])
        BY <1>2, <2>2 DEF Inv, Undisturbed, Updates
      <3> QED
        BY <1>1, <1>2, <2>2, <3>1 DEF RowAsRead, CountedOnce, RowOf, Unanswered
    <2> QED
      BY <2>1, <2>2
  <1>13. Remembered'
    BY <1>1 DEF Inv, Remembered, RowOf
  <1>14. ASSUME NEW u \in Users, Covered(u) PROVE Covered(u)'
    BY <1>1, <1>2, <1>14 DEF Covered, Moves, Invalidating
  <1>15. CacheCovered'
    BY <1>1, <1>14 DEF Inv, CacheCovered, Stale, EntryOf, RowOf
  <1>16. CallsCovered'
    <2> SUFFICES ASSUME NEW s \in Requests, req'[s].op = "call",
                        EntryOf(req'[s].user) # EntryOf(RowOf(req[s].target))'
                 PROVE  Covered(req[s].target)'
      BY DEF CallsCovered
    <2>1. s # r
      BY <1>2, <1>3, <1>4 DEF Continues
    <2>2. req'[s] = req[s] /\ req[s].target \in Users
      BY <1>2, <2>1, Typed DEF Inv
    <2>3. Covered(req[s].target)
      BY <1>1, <2>2 DEF Inv, CallsCovered, RowOf, EntryOf
    <2>4. PICK u \in Users : u = req[s].target
      BY <2>2
    <2>5. Covered(u)'
      BY <1>14, <2>3, <2>4
    <2> QED
      BY <2>2, <2>4, <2>5 DEF Covered
  <1> QED
    BY <1>6, <1>7, <1>8, <1>9, <1>10, <1>11, <1>12, <1>13, <1>15, <1>16 DEF Untyped

-----------------------------------------------------------------------------
(* A request begins with the row the table answers.                        *)
Begins(r, q) ==
  /\ r \in Requests /\ q \in Request
  /\ q.at = "asked" /\ q.op # "none" /\ q.code = "no" /\ q.user = RowOf(q.target)
  /\ q.op = "create" => q.target \notin made
  /\ q.op = "call" => \E c \in cookies : c.user = q.target
  /\ req[r].at = "idle" /\ req' = [req EXCEPT ![r] = q]
  /\ overlap' = IF q.op # "call" /\ Updating(q.target) # {}
                THEN overlap \union {u \in Users : NameOf[u] = NameOf[q.target]} ELSE overlap
  /\ made' = IF q.op = "create" THEN made \union {q.target} ELSE made
  /\ UNCHANGED <<row, cache, cookies, answered, removed, excused>>

LEMMA BeginKeeps ==
  ASSUME Inv, NEW r, NEW q, Begins(r, q)
  PROVE  Untyped'
  <1>1. /\ req \in [Requests -> Request] /\ r \in Requests /\ q \in Request
        /\ q.at = "asked" /\ q.op # "none" /\ q.code = "no" /\ q.user = RowOf(q.target)
        /\ req[r].at = "idle" /\ req' = [req EXCEPT ![r] = q]
        /\ row' = row /\ cache' = cache /\ cookies' = cookies
        /\ answered' = answered /\ removed' = removed /\ excused' = excused
        /\ q.target \in Users /\ overlap \subseteq Users
    BY Typed DEF Inv, Begins, Request
  <1>2. /\ req'[r] = q
        /\ \A s \in Requests : s # r => req'[s] = req[s]
        /\ req[r].op = "none"
    BY <1>1 DEF Inv, Shapes, Shape
  <1>3. overlap \subseteq overlap' /\ made \subseteq made'
    BY DEF Begins
  <1>4. q.user \in Row /\ Found(q.user, q.target)
    BY <1>1, RowFound DEF Inv
  <1>5. Shapes'
    <2>1. Shape(q)
      BY <1>1, <1>4 DEF Shape
    <2> QED
      BY <1>1, <1>2, <2>1 DEF Inv, Shapes
  <1>6. RowsReal'
    BY <1>1 DEF Inv, RowsReal
  <1>7. NamesOverlap'
    BY <1>1 DEF Inv, NamesOverlap, Begins
  <1>8. Alone'
    <2>1. ASSUME NEW s \in Requests, s # r, Updates(s)', Updates(r)', SameName(r, s)'
          PROVE  req'[s].target \in overlap' /\ req'[r].target \in overlap'
      <3>1. req'[s] = req[s] /\ req[s].target \in Users /\ q.op # "call"
        BY <1>2, <2>1, Typed DEF Inv, Updates
      <3>2. s \in Updating(q.target)
        BY <1>2, <2>1, <3>1 DEF Updating, Updates, SameName
      <3> QED
        BY <1>1, <1>2, <2>1, <3>1, <3>2 DEF Begins, SameName
    <2>2. ASSUME NEW s \in Requests, NEW t \in Requests, s # r, t # r, s # t,
                 Updates(s)', Updates(t)', SameName(s, t)'
          PROVE  req'[s].target \in overlap'
      BY <1>2, <1>3, <2>2 DEF Inv, Alone, Updates, SameName
    <2> QED
      BY <1>1, <2>1, <2>2 DEF Alone, SameName
  <1>9. CreateOnce'
    <2>1. ASSUME NEW s \in Requests, NEW t \in Requests, Creates(s)', Creates(t)',
                 req'[s].target = req'[t].target
          PROVE  s = t
      BY <1>1, <1>2, <2>1 DEF Inv, CreateOnce, Creates, Begins
    <2>2. ASSUME NEW s \in Requests, Creates(s)'
          PROVE  req'[s].target \in made'
      BY <1>1, <1>2, <1>3, <2>2 DEF Inv, CreateOnce, Creates, Begins
    <2> QED
      BY <2>1, <2>2 DEF CreateOnce
  <1>10. NobodyYet'
    <2> SUFFICES ASSUME NEW u \in Users, Unborn(u)'
                 PROVE  /\ ~RowOf(u)'.exists /\ ~cache'[u].held /\ answered'[u] = 0
                        /\ removed'[u] = "no"
                        /\ \A c \in cookies' : c.user # u
                        /\ \A s \in Requests : req'[s].target = u => ~req'[s].user.exists
      BY DEF NobodyYet
    <2>1. Unborn(u)
      BY <1>1, <1>2, <1>3 DEF Unborn, Creates, Begins
    <2>2. /\ ~RowOf(u).exists /\ ~cache[u].held /\ answered[u] = 0 /\ removed[u] = "no"
          /\ \A c \in cookies : c.user # u
          /\ \A s \in Requests : req[s].target = u => ~req[s].user.exists
      BY <2>1 DEF Inv, NobodyYet
    <2>3. q.target = u => ~q.user.exists
      BY <1>1, <2>2
    <2> QED
      BY <1>1, <1>2, <2>2, <2>3 DEF RowOf
  <1>11. CallsHaveCookies'
    BY <1>1, <1>2 DEF Inv, CallsHaveCookies, Begins
  <1>12. Undisturbed'
    <2> SUFFICES ASSUME NEW s \in Requests, Updates(s)', req'[s].target \notin overlap'
                 PROVE  RowAsRead(req[s])' /\ CountedOnce(req[s])'
      BY DEF Undisturbed
    <2>1. CASE s = r
      BY <1>1, <1>2, <2>1 DEF RowAsRead, CountedOnce, RowOf, Unanswered
    <2>2. CASE s # r
      <3>1. RowAsRead(req[s]) /\ CountedOnce(req[s])
        BY <1>2, <1>3, <2>2 DEF Inv, Undisturbed, Updates
      <3> QED
        BY <1>1, <1>2, <2>2, <3>1 DEF RowAsRead, CountedOnce, RowOf, Unanswered
    <2> QED
      BY <2>1, <2>2
  <1>13. Remembered'
    BY <1>1, <1>3 DEF Inv, Remembered, RowOf
  <1>14. ASSUME NEW u \in Users, Covered(u) PROVE Covered(u)'
    BY <1>1, <1>2, <1>3, <1>14 DEF Covered
  <1>15. CacheCovered'
    BY <1>1, <1>14 DEF Inv, CacheCovered, Stale, EntryOf, RowOf
  <1>16. CallsCovered'
    <2> SUFFICES ASSUME NEW s \in Requests, req'[s].op = "call",
                        EntryOf(req'[s].user) # EntryOf(RowOf(req[s].target))'
                 PROVE  Covered(req[s].target)'
      BY DEF CallsCovered
    <2>1. s # r
      BY <1>1, <1>2 DEF RowOf, EntryOf
    <2>2. req'[s] = req[s] /\ req[s].target \in Users
      BY <1>2, <2>1, Typed DEF Inv
    <2>3. Covered(req[s].target)
      BY <1>1, <2>2 DEF Inv, CallsCovered, RowOf, EntryOf
    <2>4. PICK u \in Users : u = req[s].target
      BY <2>2
    <2>5. Covered(u)'
      BY <1>14, <2>3, <2>4
    <2> QED
      BY <2>2, <2>4, <2>5 DEF Covered
  <1> QED
    BY <1>5, <1>6, <1>7, <1>8, <1>9, <1>10, <1>11, <1>12, <1>13, <1>15, <1>16 DEF Untyped

-----------------------------------------------------------------------------
(* The row a method inserts is the user's, and counts the update.          *)
Copy(x, exists, must, totp, codes) ==
  [x EXCEPT !.ver = x.ver + 1, !.exists = exists, !.must = must, !.totp = totp, !.codes = codes]

Fields(x, exists, must, totp, codes) ==
  /\ x \in Row /\ exists \in BOOLEAN /\ must \in BOOLEAN
  /\ totp \in {"none", "pending", "on"} /\ codes \in 0..MaxCodes

LEMMA CopiedRow ==
  ASSUME NEW x, NEW exists, NEW must, NEW totp, NEW codes, Fields(x, exists, must, totp, codes)
  PROVE  /\ Copy(x, exists, must, totp, codes) \in Row
         /\ Copy(x, exists, must, totp, codes).user = x.user
         /\ Copy(x, exists, must, totp, codes).exists = exists
         /\ Copy(x, exists, must, totp, codes).ver = x.ver + 1
  <1>1. Copy(x, exists, must, totp, codes) \in Row
    <2>1. ASSUME NEW v \in Nat
          PROVE  [x EXCEPT !.ver = v, !.exists = exists, !.must = must, !.totp = totp,
                           !.codes = codes] \in Row
      BY DEF Fields, Row
    <2>2. x.ver + 1 \in Nat
      BY DEF Fields, Row
    <2> QED
      BY <2>1, <2>2 DEF Copy
  <1>2. Copy(x, exists, must, totp, codes).user = x.user
    BY DEF Fields, Row, Copy
  <1>3. Copy(x, exists, must, totp, codes).exists = exists
    BY DEF Fields, Row, Copy
  <1>4. Copy(x, exists, must, totp, codes).ver = x.ver + 1
    BY DEF Fields, Row, Copy
  <1> QED
    BY <1>1, <1>2, <1>3, <1>4

LEMMA RowFields ==
  ASSUME NEW x \in Row
  PROVE  /\ x.user \in Users /\ x.exists \in BOOLEAN /\ x.must \in BOOLEAN /\ x.ver \in Nat
         /\ x.totp \in {"none", "pending", "on"} /\ x.codes \in 0..MaxCodes
  BY DEF Row

LEMMA WrittenRow ==
  ASSUME NEW q \in Request, Shape(q), q.at = "fetched"
  PROVE  /\ Written(q) \in Row /\ Written(q).user = q.target
         /\ Written(q).exists <=> q.op # "delete"
         /\ Written(q).exists => Written(q).ver >= 1
         /\ q.op # "create" =>
              Written(q).ver = IF q.op = "login" /\ q.code # "spending" THEN q.seen.ver
                               ELSE q.seen.ver + 1
         /\ q.op = "login" /\ q.code # "spending" => Written(q) = q.seen
  <1>1. /\ q.target \in Users /\ q.user \in Row /\ q.seen \in Row
        /\ MaxCodes \in Nat /\ 0 \in 0..MaxCodes /\ MaxCodes \in 0..MaxCodes
    BY Constants DEF Request
  <1>a. /\ q.seen.exists \in BOOLEAN /\ q.seen.must \in BOOLEAN /\ q.seen.ver \in Nat
        /\ q.seen.totp \in {"none", "pending", "on"} /\ q.seen.codes \in 0..MaxCodes
        /\ q.user.codes \in 0..MaxCodes
    BY <1>1, RowFields
  <1>2. q.op \in AccountOps \ {"call"}
    BY DEF Shape, Request
  <1>3. q.op # "create" => q.seen.exists /\ q.seen.user = q.target /\ q.seen.ver >= 1
    BY DEF Shape, Found, NoRow
  <1>4. q.code = "spending" => q.op = "login" /\ q.user.codes - 1 \in 0..MaxCodes
    BY <1>1 DEF Shape, Row
  <1>5. CASE q.op = "create"
    <2>1. Written(q) = NewRow(q.target)
      BY <1>4, <1>5 DEF Written, SpendsCode
    <2>2. NewRow(q.target).user = q.target /\ NewRow(q.target).exists /\ NewRow(q.target).ver = 1
      BY <1>1 DEF NewRow, NoRow
    <2> QED
      BY <1>1, <1>5, <2>1, <2>2, Constants
  <1>6. CASE q.op = "login" /\ q.code = "spending"
    <2>1. Written(q) = [[q.seen EXCEPT !.ver = @ + 1] EXCEPT !.totp = "on", !.codes = q.user.codes - 1]
      BY <1>4, <1>6 DEF Written, Copied, SpendsCode
    <2>2. Written(q) = Copy(q.seen, q.seen.exists, q.seen.must, "on", q.user.codes - 1)
      BY <1>1, <1>3, <1>6, <2>1 DEF Row, Copy
    <2>a. Fields(q.seen, q.seen.exists, q.seen.must, "on", q.user.codes - 1)
      BY <1>1, <1>a, <1>4, <1>6 DEF Fields
    <2>3. /\ Written(q) \in Row /\ Written(q).user = q.seen.user
          /\ Written(q).exists = q.seen.exists /\ Written(q).ver = q.seen.ver + 1
      BY <2>2, <2>a, CopiedRow
    <2> QED
      BY <1>a, <1>3, <1>6, <2>3
  <1>7. CASE q.op = "login" /\ q.code # "spending"
    BY <1>1, <1>3, <1>7 DEF Written, Copied, SpendsCode
  <1>8. CASE q.op \in {"password", "reset", "cli"}
    <2> DEFINE must == q.op # "password"
    <2>0. must \in BOOLEAN
      OBVIOUS
    <2>1. Written(q) = [[q.seen EXCEPT !.ver = @ + 1] EXCEPT !.must = must]
      BY <1>4, <1>8 DEF Written, Copied, SpendsCode
    <2> HIDE DEF must
    <2>2. Written(q) = Copy(q.seen, q.seen.exists, must, q.seen.totp, q.seen.codes)
      BY <1>1, <1>3, <1>8, <2>0, <2>1 DEF Row, Copy
    <2>a. Fields(q.seen, q.seen.exists, must, q.seen.totp, q.seen.codes)
      BY <1>1, <1>a, <1>4, <1>8, <2>0 DEF Fields
    <2>3. /\ Written(q) \in Row /\ Written(q).user = q.seen.user
          /\ Written(q).exists = q.seen.exists /\ Written(q).ver = q.seen.ver + 1
      BY <2>2, <2>a, CopiedRow
    <2> QED
      BY <1>a, <1>3, <1>8, <2>3
  <1>9. CASE q.op = "setup"
    <2>1. Written(q) = [[q.seen EXCEPT !.ver = @ + 1] EXCEPT !.totp = "pending", !.codes = q.user.codes]
      BY <1>4, <1>9 DEF Written, Copied, SpendsCode
    <2>2. Written(q) = Copy(q.seen, q.seen.exists, q.seen.must, "pending", q.user.codes)
      BY <1>1, <1>3, <1>9, <2>1 DEF Row, Copy
    <2>a. Fields(q.seen, q.seen.exists, q.seen.must, "pending", q.user.codes)
      BY <1>1, <1>a, <1>4, <1>9 DEF Fields
    <2>3. /\ Written(q) \in Row /\ Written(q).user = q.seen.user
          /\ Written(q).exists = q.seen.exists /\ Written(q).ver = q.seen.ver + 1
      BY <2>2, <2>a, CopiedRow
    <2> QED
      BY <1>a, <1>3, <1>9, <2>3
  <1>10. CASE q.op = "confirm"
    <2>1. Written(q) = [[q.seen EXCEPT !.ver = @ + 1] EXCEPT !.totp = "on", !.codes = MaxCodes]
      BY <1>4, <1>10 DEF Written, Copied, SpendsCode
    <2>2. Written(q) = Copy(q.seen, q.seen.exists, q.seen.must, "on", MaxCodes)
      BY <1>1, <1>3, <1>10, <2>1 DEF Row, Copy
    <2>a. Fields(q.seen, q.seen.exists, q.seen.must, "on", MaxCodes)
      BY <1>1, <1>a, <1>4, <1>10 DEF Fields
    <2>3. /\ Written(q) \in Row /\ Written(q).user = q.seen.user
          /\ Written(q).exists = q.seen.exists /\ Written(q).ver = q.seen.ver + 1
      BY <2>2, <2>a, CopiedRow
    <2> QED
      BY <1>a, <1>3, <1>10, <2>3
  <1>11. CASE q.op = "disable"
    <2>1. Written(q) = [[q.seen EXCEPT !.ver = @ + 1] EXCEPT !.totp = "none", !.codes = 0]
      BY <1>4, <1>11 DEF Written, Copied, SpendsCode
    <2>2. Written(q) = Copy(q.seen, q.seen.exists, q.seen.must, "none", 0)
      BY <1>1, <1>3, <1>11, <2>1 DEF Row, Copy
    <2>a. Fields(q.seen, q.seen.exists, q.seen.must, "none", 0)
      BY <1>1, <1>a, <1>4, <1>11 DEF Fields
    <2>3. /\ Written(q) \in Row /\ Written(q).user = q.seen.user
          /\ Written(q).exists = q.seen.exists /\ Written(q).ver = q.seen.ver + 1
      BY <2>2, <2>a, CopiedRow
    <2> QED
      BY <1>a, <1>3, <1>11, <2>3
  <1>12. CASE q.op = "delete"
    <2>1. Written(q) = [[q.seen EXCEPT !.ver = @ + 1] EXCEPT !.exists = FALSE, !.must = FALSE,
                                                            !.totp = "none", !.codes = 0]
      BY <1>4, <1>12 DEF Written, Copied, SpendsCode
    <2>2. Written(q) = Copy(q.seen, FALSE, FALSE, "none", 0)
      BY <1>1, <1>3, <1>12, <2>1 DEF Row, Copy
    <2>a. Fields(q.seen, FALSE, FALSE, "none", 0)
      BY <1>1, <1>a, <1>4, <1>12 DEF Fields
    <2>3. /\ Written(q) \in Row /\ Written(q).user = q.seen.user
          /\ Written(q).exists = FALSE /\ Written(q).ver = q.seen.ver + 1
      <3>1. PICK no \in BOOLEAN : no = FALSE
        OBVIOUS
      <3>2. Fields(q.seen, no, no, "none", 0) /\ Written(q) = Copy(q.seen, no, no, "none", 0)
        BY <2>2, <2>a, <3>1, Zenon
      <3>3. Written(q).exists = no
        BY <3>2, CopiedRow
      <3> QED
        BY <3>1, <3>2, <3>3, CopiedRow
    <2> QED
      BY <1>a, <1>3, <1>12, <2>3
  <1> QED
    BY <1>2, <1>5, <1>6, <1>7, <1>8, <1>9, <1>10, <1>11, <1>12 DEF AccountOps

-----------------------------------------------------------------------------
(* An insert that nobody disturbed finds the row as it was read, and what  *)
(* it changes is covered by the request until it is answered.              *)
LEMMA InsertKeeps ==
  ASSUME Inv, NEW r \in Requests, InsertLands(r)
  PROVE  Untyped' /\ row' \in [Names -> Row]
  <1>q. PICK q : q = req[r]
    OBVIOUS
  <1>t. PICK t : t = q.target
    OBVIOUS
  <1> DEFINE n == NameOf[t]
             w == Written(q)
  <1>1. /\ req \in [Requests -> Request] /\ q \in Request /\ Shape(q) /\ q.at = "fetched"
        /\ t \in Users /\ n \in Names /\ q.op \notin {"none", "call"} /\ Updates(r)
        /\ row \in [Names -> Row] /\ cookies \subseteq Cookie
        /\ cache' = cache /\ cookies' = cookies /\ made' = made
        /\ answered' = answered /\ overlap' = overlap
        /\ req' = [req EXCEPT ![r].at = "landed"]
    BY <1>q, <1>t, Typed, Constants DEF Inv, InsertLands, Shapes, Shape, Request, memory, Updates
  <1>2. PICK latest \in BOOLEAN :
          /\ latest \/ row[n] # q.seen
          /\ row' = [row EXCEPT ![n] = IF latest THEN w ELSE @]
    BY <1>q, <1>t DEF InsertLands
  <1>3. /\ req'[r] = [q EXCEPT !.at = "landed"]
        /\ req'[r].at = "landed" /\ req'[r].op = q.op /\ req'[r].target = t
        /\ req'[r].user = q.user /\ req'[r].code = q.code /\ req'[r].seen = q.seen
        /\ \A s \in Requests : s # r => req'[s] = req[s]
    BY <1>q, <1>t, <1>1 DEF Request
  <1>4. /\ w \in Row /\ w.user = t
        /\ w.exists <=> q.op # "delete"
        /\ w.exists => w.ver >= 1
        /\ q.op # "create" =>
             w.ver = IF q.op = "login" /\ q.code # "spending" THEN q.seen.ver
                     ELSE q.seen.ver + 1
        /\ q.op = "login" /\ q.code # "spending" => w = q.seen
    <2>1. q \in Request /\ Shape(q) /\ q.at = "fetched"
      BY <1>1
    <2>2. w.user = q.target
      BY <2>1, WrittenRow
    <2>3. w \in Row /\ (w.exists <=> q.op # "delete")
      BY <2>1, WrittenRow
    <2>4. w.exists => w.ver >= 1
      BY <2>1, WrittenRow
    <2>5. q.op # "create" =>
            w.ver = IF q.op = "login" /\ q.code # "spending" THEN q.seen.ver ELSE q.seen.ver + 1
      BY <2>1, WrittenRow
    <2>6. q.op = "login" /\ q.code # "spending" => w = q.seen
      BY <2>1, WrittenRow
    <2> QED
      BY <1>t, <2>2, <2>3, <2>4, <2>5, <2>6
  <1>5. /\ q.op = "create" => ~q.seen.exists
        /\ q.op # "create" => /\ q.user.exists /\ q.seen.exists
                              /\ q.seen.user = t /\ q.seen.ver >= 1
    BY <1>q, <1>t, <1>1 DEF Shape, Found, NoRow
  <1>6. row' \in [Names -> Row]
    BY <1>1, <1>2, <1>4
  <1>7. t \notin overlap =>
          /\ row[n] = q.seen /\ row' = [row EXCEPT ![n] = w]
          /\ RowAsRead(q) /\ CountedOnce(q)
    BY <1>q, <1>t, <1>1, <1>2 DEF Inv, Undisturbed, RowAsRead
  <1> HIDE DEF n, w
  <1>8. ASSUME NEW v \in Users, NameOf[v] # n PROVE row'[NameOf[v]] = row[NameOf[v]]
    BY <1>1, <1>2, <1>8, Constants
  <1>9. ASSUME NEW v \in Users, v # t, NameOf[v] # n \/ t \notin overlap
        PROVE  RowOf(v)' = RowOf(v)
    <2>1. CASE NameOf[v] # n
      BY <1>8, <2>1 DEF RowOf
    <2>2. CASE NameOf[v] = n
      <3>1. row[n] = q.seen /\ row'[n] = w
        BY <1>1, <1>7, <1>9, <2>2
      <3>2. ~(q.seen.exists /\ q.seen.user = v) /\ ~(w.exists /\ w.user = v)
        BY <1>4, <1>5, <1>9
      <3> QED
        BY <2>2, <3>1, <3>2 DEF RowOf
    <2> QED
      BY <2>1, <2>2
  <1>10. ASSUME t \notin overlap
         PROVE  /\ RowOf(t) = IF q.op = "create" THEN NoRow ELSE q.seen
                /\ RowOf(t)' = IF q.op = "delete" THEN NoRow ELSE w
    <2>1. row[n] = q.seen /\ row'[n] = w
      BY <1>1, <1>7, <1>10
    <2> QED
      <3>1. row[NameOf[t]] = q.seen /\ row'[NameOf[t]] = w
        BY <2>1 DEF n
      <3>2. /\ RowOf(t) = IF q.seen.exists /\ q.seen.user = t THEN q.seen ELSE NoRow
            /\ RowOf(t)' = IF w.exists /\ w.user = t THEN w ELSE NoRow
        BY <3>1 DEF RowOf
      <3> QED
        BY <1>4, <1>5, <3>2
  <1>11. (q.op = "create" => Unborn(t)) /\ (q.op # "create" => ~Unborn(t))
    BY <1>q, <1>t, <1>1, <1>5 DEF Unborn, Creates, Inv, NobodyYet
  <1>12. ASSUME NEW u \in Users, Unborn(u)' PROVE Unborn(u) /\ u # t
    <2>1. \A s \in Requests : Creates(s)' =>
            /\ Creates(s) /\ req'[s].target = req[s].target
            /\ req'[s].at \in {"asked", "fetched"} => s # r /\ req[s].at = req'[s].at
      BY <1>q, <1>t, <1>3 DEF Creates
    <2>2. Unborn(u)
      BY <1>1, <1>12, <2>1 DEF Unborn
    <2>3. ASSUME u = t PROVE FALSE
      <3>1. Creates(r) /\ t \in made
        BY <1>q, <1>t, <1>11, <2>2, <2>3 DEF Creates, Inv, CreateOnce
      <3>2. \A s \in Requests : Creates(s) /\ req[s].target = t => s = r
        BY <1>q, <1>t, <3>1 DEF Inv, CreateOnce
      <3> QED
        BY <1>1, <1>12, <2>1, <2>3, <3>1, <3>2 DEF Unborn
    <2> QED
      BY <2>2, <2>3
  <1>13. \A u \in Users : u # t => removed'[u] = removed[u]
    BY <1>q, <1>t, <1>1 DEF InsertLands, Inv, TypeOK
  <1>14. /\ q.op # "delete" => removed' = removed
         /\ q.op = "delete" => removed'[t] # "no"
    BY <1>q, <1>t, <1>1 DEF InsertLands, Inv, TypeOK
  <1>15. Shapes'
    <2>1. Shape(req'[r])
      <3>1. PICK p : p = req'[r]
        OBVIOUS
      <3>2. /\ p.at = "landed" /\ p.op = q.op /\ p.target = t /\ p.user = q.user
            /\ p.code = q.code /\ t = q.target
        BY <1>t, <1>3, <3>1
      <3>3. /\ q.op \notin {"none", "call"} /\ Found(q.user, q.target)
            /\ q.op # "create" => q.user.exists
            /\ q.code # "no" => q.op = "login"
            /\ q.code = "spending" => q.user.codes > 0
        BY <1>1 DEF Shape
      <3> QED
        BY <3>1, <3>2, <3>3 DEF Shape
    <2> QED
      BY <1>1, <1>3, <2>1 DEF Inv, Shapes
  <1>16. RowsReal'
    BY <1>1, <1>2, <1>4 DEF Inv, RowsReal
  <1>17. NamesOverlap'
    BY <1>1 DEF Inv, NamesOverlap
  <1>18. Alone'
    <2>1. \A s \in Requests : Updates(s)' => Updates(s) /\ req'[s].target = req[s].target
      BY <1>q, <1>t, <1>1, <1>3 DEF Updates
    <2> QED
      BY <1>1, <2>1 DEF Inv, Alone, SameName
  <1>19. CreateOnce'
    <2>1. \A s \in Requests : Creates(s)' => Creates(s) /\ req'[s].target = req[s].target
      BY <1>q, <1>t, <1>1, <1>3 DEF Creates
    <2> QED
      BY <1>1, <2>1 DEF Inv, CreateOnce
  <1>20. NobodyYet'
    <2> SUFFICES ASSUME NEW u \in Users, Unborn(u)'
                 PROVE  /\ ~RowOf(u)'.exists /\ ~cache'[u].held /\ answered'[u] = 0
                        /\ removed'[u] = "no"
                        /\ \A c \in cookies' : c.user # u
                        /\ \A s \in Requests : req'[s].target = u => ~req'[s].user.exists
      BY DEF NobodyYet
    <2>1. Unborn(u) /\ u # t
      BY <1>12
    <2>2. /\ ~RowOf(u).exists /\ ~cache[u].held /\ answered[u] = 0 /\ removed[u] = "no"
          /\ \A c \in cookies : c.user # u
          /\ \A s \in Requests : req[s].target = u => ~req[s].user.exists
      BY <2>1 DEF Inv, NobodyYet
    <2>3. ~RowOf(u)'.exists
      <3>1. row'[NameOf[u]] = row[NameOf[u]] \/ row'[NameOf[u]] = w
        BY <1>1, <1>2, Constants
      <3> QED
        BY <1>4, <2>1, <2>2, <3>1 DEF RowOf, NoRow
    <2>4. \A s \in Requests : req'[s].target = u => ~req'[s].user.exists
      BY <1>1, <1>3, <2>1, <2>2
    <2> QED
      BY <1>1, <1>13, <2>1, <2>2, <2>3, <2>4
  <1>21. CallsHaveCookies'
    BY <1>1, <1>3 DEF Inv, CallsHaveCookies
  <1>22. Undisturbed'
    <2> SUFFICES ASSUME NEW s \in Requests, Updates(s)', req'[s].target \notin overlap
                 PROVE  RowAsRead(req[s])' /\ CountedOnce(req[s])'
      BY <1>1 DEF Undisturbed
    <2>1. CASE s = r
      <3>1. t \notin overlap
        BY <1>3, <2>1
      <3>2. /\ q.seen = row[n] /\ row' = [row EXCEPT ![n] = w] /\ RowAsRead(q) /\ CountedOnce(q)
            /\ RowOf(t) = IF q.op = "create" THEN NoRow ELSE q.seen
            /\ RowOf(t)' = IF q.op = "delete" THEN NoRow ELSE w
            /\ removed[t] = "no" => RowOf(t).ver >= answered[t]
        BY <1>1, <1>7, <1>10, <3>1 DEF Inv, Remembered
      <3>3. RowAsRead(req[s])'
        <4>1. q.op = "login" /\ q.code = "no" => q.user = RowOf(t)'
          BY <1>q, <1>t, <1>1, <1>4, <3>2 DEF RowAsRead
        <4>2. q.op = "password" => RowOf(t)'.ver = q.user.ver + 1
          BY <1>q, <1>t, <1>1, <1>4, <3>2 DEF RowAsRead, Shape
        <4>3. q.op = "delete" => ~RowOf(t)'.exists
          BY <3>2 DEF NoRow
        <4> QED
          BY <1>3, <2>1, <4>1, <4>2, <4>3 DEF RowAsRead
      <3>4. CountedOnce(req[s])'
        <4> SUFFICES ASSUME Unanswered(req'[r]), removed'[t] = "no"
                     PROVE  RowOf(t)'.ver >= answered[t] + 1
          BY <1>1, <1>3, <2>1 DEF CountedOnce, Unanswered
        <4>1. q.op # "delete" /\ removed[t] = "no" /\ RowOf(t)' = w /\ RowOf(t).ver >= answered[t]
          BY <1>14, <3>2
        <4>2. answered[t] \in Nat /\ q.seen.ver \in Nat
          BY <1>1, RowFields DEF Inv, TypeOK, Request
        <4>3. CASE q.op = "create"
          <5>1. answered[t] = 0
            BY <1>1, <1>11, <4>3 DEF Inv, NobodyYet
          <5> QED
            BY <1>4, <4>1, <4>3, <5>1
        <4>4. CASE q.op = "login" /\ q.code = "spent"
          BY <1>q, <1>t, <1>4, <3>2, <4>1, <4>4 DEF CountedOnce, Unanswered
        <4>5. CASE q.op # "create" /\ (q.op # "login" \/ q.code = "spending")
          BY <1>4, <3>2, <4>1, <4>2, <4>5
        <4> QED
          BY <1>1, <1>3, <4>3, <4>4, <4>5 DEF Unanswered, Shape
      <3> QED
        BY <3>3, <3>4
    <2>2. CASE s # r
      <3>1. req'[s] = req[s] /\ Updates(s) /\ req[s].target \notin overlap /\ req[s].target \in Users
        BY <1>3, <2>2, Typed DEF Updates, Inv
      <3>2. NameOf[req[s].target] # n
        BY <1>q, <1>t, <1>1, <2>2, <3>1 DEF Inv, Alone, SameName, n
      <3>3. /\ RowOf(req[s].target)' = RowOf(req[s].target)
            /\ row'[NameOf[req[s].target]] = row[NameOf[req[s].target]]
            /\ removed'[req[s].target] = removed[req[s].target]
        <4>1. PICK v \in Users : v = req[s].target
          BY <3>1
        <4>2. v # t /\ RowOf(v)' = RowOf(v) /\ row'[NameOf[v]] = row[NameOf[v]]
          BY <1>8, <1>9, <3>2, <4>1 DEF n
        <4> QED
          BY <1>13, <3>1, <4>1, <4>2 DEF RowOf
      <3>4. RowAsRead(req[s]) /\ CountedOnce(req[s])
        BY <3>1 DEF Inv, Undisturbed
      <3> QED
        BY <1>1, <3>1, <3>3, <3>4 DEF RowAsRead, CountedOnce, Unanswered
    <2> QED
      BY <2>1, <2>2
  <1>23. Remembered'
    <2> SUFFICES ASSUME NEW u \in Users, u \notin overlap
                 PROVE  /\ removed'[u] = "no" => RowOf(u)'.ver >= answered[u]
                        /\ removed'[u] # "no" => ~RowOf(u)'.exists
      BY <1>1 DEF Remembered
    <2>1. /\ removed[u] = "no" => RowOf(u).ver >= answered[u]
          /\ removed[u] # "no" => ~RowOf(u).exists
      BY DEF Inv, Remembered
    <2>2. CASE u # t
      <3>1. NameOf[u] # n \/ t \notin overlap
        BY <1>1 DEF Inv, NamesOverlap, n
      <3> QED
        BY <1>9, <1>13, <2>1, <2>2, <3>1
    <2>3. CASE u = t
      <3>1. /\ RowOf(t) = IF q.op = "create" THEN NoRow ELSE q.seen
            /\ RowOf(t)' = IF q.op = "delete" THEN NoRow ELSE w
        BY <1>10, <2>3
      <3>2. answered[t] \in Nat /\ q.seen.ver \in Nat
        BY <1>1, RowFields DEF Inv, TypeOK, Request
      <3>3. CASE q.op = "create"
        <4>1. answered[t] = 0 /\ removed[t] = "no"
          BY <1>1, <1>11, <3>3 DEF Inv, NobodyYet
        <4>2. w.ver >= 0
          BY <1>4, RowFields
        <4> QED
          BY <1>4, <1>14, <2>3, <3>1, <3>3, <4>1, <4>2
      <3>4. CASE q.op = "delete"
        BY <1>14, <2>3, <3>1, <3>4 DEF NoRow
      <3>5. CASE q.op \notin {"create", "delete"}
        BY <1>4, <1>5, <1>14, <2>1, <2>3, <3>1, <3>2, <3>5
      <3> QED
        BY <3>3, <3>4, <3>5
    <2> QED
      BY <2>2, <2>3
  <1>24. ASSUME NEW u \in Users
         PROVE  /\ Covered(u) => Covered(u)'
                /\ Covered(u)' \/ RowOf(u)' = RowOf(u) \/ (u = t /\ q.op = "create")
    <2>1. Covered(u) => Covered(u)'
      BY <1>q, <1>1, <1>3 DEF Covered, InsertLands
    <2>2. CASE u # t
      <3>1. u \in overlap \/ NameOf[u] # n \/ t \notin overlap
        BY <1>1 DEF Inv, NamesOverlap, n
      <3> QED
        BY <1>1, <1>9, <2>1, <2>2, <3>1 DEF Covered
    <2>3. CASE u = t /\ q.op \in Invalidating
      BY <1>1, <1>3, <2>1, <2>3 DEF Covered
    <2>4. CASE u = t /\ (q.op \in {"setup", "confirm", "disable", "cli"} \/ SpendsCode(q))
      BY <1>q, <1>t, <1>1, <2>1, <2>4 DEF Covered, InsertLands
    <2>5. CASE u = t /\ q.op = "login" /\ ~SpendsCode(q)
      <3>1. CASE t \in overlap
        BY <1>1, <2>1, <2>5, <3>1 DEF Covered
      <3>2. CASE t \notin overlap
        BY <1>4, <1>10, <2>1, <2>5, <3>2 DEF SpendsCode
      <3> QED
        BY <3>1, <3>2
    <2> QED
      BY <1>1, <2>1, <2>2, <2>3, <2>4, <2>5 DEF Request, AccountOps, Invalidating
  <1>25. CacheCovered'
    <2> SUFFICES ASSUME NEW u \in Users, Stale(u)' PROVE Covered(u)'
      BY DEF CacheCovered
    <2>1. CASE RowOf(u)' = RowOf(u)
      <3>1. Stale(u)
        BY <1>1, <2>1 DEF Stale, EntryOf
      <3> QED
        BY <1>24, <3>1 DEF Inv, CacheCovered
    <2>2. CASE u = t /\ q.op = "create"
      BY <1>1, <1>11, <2>2 DEF Stale, Inv, NobodyYet
    <2> QED
      BY <1>24, <2>1, <2>2
  <1>26. CallsCovered'
    <2> SUFFICES ASSUME NEW s \in Requests, req'[s].op = "call",
                        EntryOf(req'[s].user) # EntryOf(RowOf(req[s].target))'
                 PROVE  Covered(req[s].target)'
      BY DEF CallsCovered
    <2>1. req'[s] = req[s] /\ req[s].target \in Users
      BY <1>1, <1>3, Typed DEF Inv
    <2>2. PICK u \in Users : u = req[s].target
      BY <2>1
    <2>3. SUFFICES Covered(u)'
      BY <2>1, <2>2 DEF Covered
    <2>4. EntryOf(req[s].user) # EntryOf(RowOf(u)')
      BY <2>1, <2>2 DEF EntryOf, RowOf
    <2>5. CASE RowOf(u)' = RowOf(u)
      <3>1. Covered(u)
        BY <2>1, <2>2, <2>4, <2>5 DEF Inv, CallsCovered
      <3> QED
        BY <1>24, <3>1
    <2>6. CASE u = t /\ q.op = "create"
      <3>1. PICK c \in cookies : c.user = t
        BY <2>1, <2>2, <2>6 DEF Inv, CallsHaveCookies
      <3> QED
        BY <1>1, <1>11, <2>6, <3>1 DEF Inv, NobodyYet
    <2> QED
      BY <1>24, <2>5, <2>6
  <1> QED
    BY <1>6, <1>15, <1>16, <1>17, <1>18, <1>19, <1>20, <1>21, <1>22, <1>23, <1>25, <1>26 DEF Untyped

-----------------------------------------------------------------------------
(* Of two answers about a user the versions tell whether they differ.      *)
LEMMA VersionsTell ==
  ASSUME NEW x, NEW y, NEW u, Found(x, u), Found(y, u), EntryOf(x) # EntryOf(y)
  PROVE  x.ver # y.ver
  <1>1. ASSUME NEW z, z.exists PROVE EntryOf(z) = [held |-> TRUE, ver |-> z.ver, gone |-> FALSE]
    BY <1>1, Zenon DEF EntryOf
  <1>2. CASE x.exists /\ y.exists
    BY <1>1, <1>2
  <1>3. CASE ~(x.exists /\ y.exists)
    <2>1. NoRow.ver = 0 /\ ~NoRow.exists
      BY DEF NoRow
    <2> QED
      BY <1>3, <2>1 DEF Found
  <1> QED
    BY <1>2, <1>3

(* The answer counts the update, and drops what the cache held before it.  *)
LEMMA AnswerKeeps ==
  ASSUME Inv, NEW r \in Requests, Answers(r)
  PROVE  Untyped'
  <1>q. PICK q : q = req[r]
    OBVIOUS
  <1>t. PICK t : t = q.target
    OBVIOUS
  <1>1. /\ req \in [Requests -> Request] /\ q \in Request /\ Shape(q) /\ q.at = "landed"
        /\ t \in Users /\ q.op \notin {"none", "call"} /\ Updates(r) /\ q.code # "spending"
        /\ row' = row /\ made' = made /\ overlap' = overlap
        /\ cookies' = cookies \union Issued(q)
        /\ req' = [req EXCEPT ![r] = Idle]
    BY <1>q, <1>t, Typed DEF Inv, Answers, Shapes, Shape, Request, SpendsCode, Updates, End
  <1>2. /\ req'[r] = Idle
        /\ \A s \in Requests : s # r => req'[s] = req[s]
        /\ Idle.op = "none" /\ Idle.at = "idle" /\ ~Idle.user.exists
    BY <1>1 DEF Idle, NoRow
  <1>3. excused \subseteq excused'
    BY DEF Answers
  <1>4. ~Unborn(t)
    <2>1. CASE q.op = "create"
      BY <1>q, <1>t, <1>1, <2>1 DEF Unborn, Creates, Inv, CreateOnce
    <2>2. CASE q.op # "create"
      <3>1. q.user.exists
        BY <1>1, <2>2 DEF Shape
      <3> QED
        BY <1>q, <1>t, <1>1, <3>1 DEF Inv, NobodyYet
    <2> QED
      BY <2>1, <2>2
  <1>5. \A s \in Requests :
          /\ Updates(s)' => s # r /\ Updates(s) /\ req'[s] = req[s]
          /\ Creates(s)' => s # r /\ Creates(s) /\ req'[s] = req[s]
    BY <1>2 DEF Updates, Creates
  <1>6. \A u \in Users : u # t =>
          answered'[u] = answered[u] /\ removed'[u] = removed[u] /\ cache'[u] = cache[u]
    BY <1>q, <1>t, <1>1 DEF Answers, Inv, TypeOK, Invalidate
  <1>7. Shapes'
    <2>1. Shape(Idle)
      BY DEF Idle, Shape, Found
    <2> QED
      BY <1>2, <2>1 DEF Inv, Shapes
  <1>8. RowsReal' /\ NamesOverlap'
    BY <1>1 DEF Inv, RowsReal, NamesOverlap
  <1>9. Alone'
    BY <1>1, <1>5 DEF Inv, Alone, SameName
  <1>10. CreateOnce'
    BY <1>1, <1>5 DEF Inv, CreateOnce
  <1>11. NobodyYet'
    <2> SUFFICES ASSUME NEW u \in Users, Unborn(u)'
                 PROVE  /\ ~RowOf(u)'.exists /\ ~cache'[u].held /\ answered'[u] = 0
                        /\ removed'[u] = "no"
                        /\ \A c \in cookies' : c.user # u
                        /\ \A s \in Requests : req'[s].target = u => ~req'[s].user.exists
      BY DEF NobodyYet
    <2>1. Unborn(u)
      BY <1>1, <1>5 DEF Unborn
    <2>2. u # t
      BY <1>4, <2>1
    <2>3. /\ ~RowOf(u).exists /\ ~cache[u].held /\ answered[u] = 0 /\ removed[u] = "no"
          /\ \A c \in cookies : c.user # u
          /\ \A s \in Requests : req[s].target = u => ~req[s].user.exists
      BY <2>1 DEF Inv, NobodyYet
    <2>4. \A c \in Issued(q) : c.user = t
      BY <1>t DEF Issued
    <2> QED
      BY <1>1, <1>2, <1>6, <2>2, <2>3, <2>4 DEF RowOf
  <1>12. CallsHaveCookies'
    BY <1>1, <1>2 DEF Inv, CallsHaveCookies
  <1>13. Undisturbed'
    <2> SUFFICES ASSUME NEW s \in Requests, Updates(s)', req'[s].target \notin overlap
                 PROVE  RowAsRead(req[s])' /\ CountedOnce(req[s])'
      BY <1>1 DEF Undisturbed
    <2>1. /\ req'[s] = req[s] /\ s # r /\ Updates(s) /\ req[s].target \in Users
          /\ req[s].target \notin overlap
      BY <1>5, Typed DEF Inv
    <2>2. RowAsRead(req[s]) /\ CountedOnce(req[s])
      BY <2>1 DEF Inv, Undisturbed
    <2>3. req[s].target # t
      BY <1>q, <1>t, <1>1, <2>1 DEF Inv, Alone, SameName
    <2> QED
      BY <1>1, <1>6, <2>1, <2>2, <2>3 DEF RowAsRead, CountedOnce, Unanswered, RowOf
  <1>14. Remembered'
    <2> SUFFICES ASSUME NEW u \in Users, u \notin overlap
                 PROVE  /\ removed'[u] = "no" => RowOf(u).ver >= answered'[u]
                        /\ removed'[u] # "no" => ~RowOf(u).exists
      BY <1>1 DEF Remembered, RowOf
    <2>1. /\ removed[u] = "no" => RowOf(u).ver >= answered[u]
          /\ removed[u] # "no" => ~RowOf(u).exists
      BY DEF Inv, Remembered
    <2>2. CASE u # t
      BY <1>6, <2>1, <2>2
    <2>3. CASE u = t
      <3>1. RowAsRead(q) /\ CountedOnce(q)
        BY <1>q, <1>t, <1>1, <2>3 DEF Inv, Undisturbed
      <3>2. answered'[t] = answered[t] \/ (Unanswered(q) /\ answered'[t] = answered[t] + 1)
        BY <1>q, <1>t, <1>1 DEF Answers, Unanswered, Inv, TypeOK
      <3>3. CASE q.op = "delete"
        BY <1>q, <1>t, <1>1, <2>3, <3>1, <3>3 DEF RowAsRead, Answers, Inv, TypeOK
      <3>4. CASE q.op # "delete"
        <4>1. removed' = removed
          BY <1>q, <3>4 DEF Answers
        <4> QED
          BY <1>t, <2>1, <2>3, <3>1, <3>2, <4>1 DEF CountedOnce
      <3> QED
        BY <3>3, <3>4
    <2> QED
      BY <2>2, <2>3
  <1>15. ASSUME NEW u \in Users, Covered(u)
         PROVE  Covered(u)' \/ (u = t /\ q.op \in Invalidating)
    BY <1>q, <1>t, <1>1, <1>2, <1>3, <1>15 DEF Covered
  <1>16. CacheCovered'
    <2> SUFFICES ASSUME NEW u \in Users, Stale(u)' PROVE Covered(u)'
      BY DEF CacheCovered
    <2>1. ~(u = t /\ q.op \in Invalidating)
      BY <1>q, <1>t, <1>1 DEF Stale, Answers, Invalidate, NoEntry, Inv, TypeOK
    <2>2. cache'[u] = cache[u]
      BY <1>q, <1>t, <1>6, <2>1 DEF Answers
    <2>3. Stale(u)
      BY <1>1, <2>2 DEF Stale, EntryOf, RowOf
    <2> QED
      BY <1>15, <2>1, <2>3 DEF Inv, CacheCovered
  <1>17. CallsCovered'
    <2> SUFFICES ASSUME NEW s \in Requests, req'[s].op = "call",
                        EntryOf(req'[s].user) # EntryOf(RowOf(req[s].target))'
                 PROVE  Covered(req[s].target)'
      BY DEF CallsCovered
    <2>1. s # r /\ req'[s] = req[s] /\ req[s].target \in Users /\ Shape(req[s])
      BY <1>2, Typed DEF Inv, Shapes
    <2>2. PICK u \in Users : u = req[s].target
      BY <2>1
    <2>3. SUFFICES Covered(u)'
      BY <2>1, <2>2 DEF Covered
    <2>4. EntryOf(req[s].user) # EntryOf(RowOf(u))
      BY <1>1, <2>1, <2>2 DEF EntryOf, RowOf
    <2>5. Covered(u)
      BY <2>1, <2>2, <2>4 DEF Inv, CallsCovered
    <2>6. CASE u = t
      <3>1. Found(req[s].user, u) /\ Found(RowOf(u), u) /\ req[s].at = "asked"
        BY <2>1, <2>2, RowFound DEF Inv, Shape
      <3>2. req[s].user.ver # RowOf(u).ver
        BY <2>4, <3>1, VersionsTell
      <3>3. s \in ReadBefore(t)
        BY <2>1, <2>2, <2>6, <3>1, <3>2 DEF ReadBefore
      <3> QED
        BY <1>q, <1>t, <2>6, <3>3 DEF Answers, Covered
    <2> QED
      BY <1>15, <2>5, <2>6
  <1> QED
    BY <1>7, <1>8, <1>9, <1>10, <1>11, <1>12, <1>13, <1>14, <1>16, <1>17 DEF Untyped

-----------------------------------------------------------------------------
(* The cache: an entry is fetched, dropped, or lost with the process.      *)
LEMMA CallReturnKeeps ==
  ASSUME Inv, NEW r \in Requests, CallReturns(r)
  PROVE  Untyped'
  <1>q. PICK q : q = req[r]
    OBVIOUS
  <1>t. PICK t : t = q.target
    OBVIOUS
  <1>1. /\ req \in [Requests -> Request] /\ q \in Request /\ q.op = "call" /\ q.at = "asked"
        /\ t \in Users /\ cookies' = cookies
        /\ row' = row /\ made' = made /\ overlap' = overlap /\ excused' = excused
        /\ answered' = answered /\ removed' = removed
        /\ cache' = [cache EXCEPT ![t] = EntryOf(q.user)]
        /\ req' = [req EXCEPT ![r] = Idle]
    BY <1>q, <1>t, Typed DEF Inv, CallReturns, Request, End, history
  <1>2. /\ req'[r] = Idle
        /\ \A s \in Requests : s # r => req'[s] = req[s]
        /\ Idle.op = "none" /\ Idle.at = "idle" /\ ~Idle.user.exists
    BY <1>1 DEF Idle, NoRow
  <1>3. \A s \in Requests :
          /\ Updates(s)' => s # r /\ Updates(s) /\ req'[s] = req[s]
          /\ Creates(s)' => s # r /\ Creates(s) /\ req'[s] = req[s]
    BY <1>2 DEF Updates, Creates
  <1>4. ~Unborn(t)
    <2>1. PICK c \in cookies : c.user = t
      BY <1>q, <1>t, <1>1 DEF Inv, CallsHaveCookies
    <2> QED
      BY <1>1, <2>1 DEF Inv, NobodyYet
  <1>5. \A u \in Users : u # t => cache'[u] = cache[u]
    BY <1>1 DEF Inv, TypeOK
  <1>6. Shapes'
    <2>1. Shape(Idle)
      BY DEF Idle, Shape, Found
    <2> QED
      BY <1>2, <2>1 DEF Inv, Shapes
  <1>7. RowsReal' /\ NamesOverlap' /\ Remembered'
    BY <1>1 DEF Inv, RowsReal, NamesOverlap, Remembered, RowOf
  <1>8. Alone'
    BY <1>1, <1>3 DEF Inv, Alone, SameName
  <1>9. CreateOnce'
    BY <1>1, <1>3 DEF Inv, CreateOnce
  <1>10. NobodyYet'
    <2> SUFFICES ASSUME NEW u \in Users, Unborn(u)'
                 PROVE  /\ ~RowOf(u)'.exists /\ ~cache'[u].held /\ answered'[u] = 0
                        /\ removed'[u] = "no"
                        /\ \A c \in cookies' : c.user # u
                        /\ \A s \in Requests : req'[s].target = u => ~req'[s].user.exists
      BY DEF NobodyYet
    <2>1. Unborn(u)
      BY <1>1, <1>3 DEF Unborn
    <2>2. u # t
      BY <1>4, <2>1
    <2>3. /\ ~RowOf(u).exists /\ ~cache[u].held /\ answered[u] = 0 /\ removed[u] = "no"
          /\ \A c \in cookies : c.user # u
          /\ \A s \in Requests : req[s].target = u => ~req[s].user.exists
      BY <2>1 DEF Inv, NobodyYet
    <2> QED
      BY <1>1, <1>2, <1>5, <2>2, <2>3 DEF RowOf
  <1>11. CallsHaveCookies'
    BY <1>1, <1>2 DEF Inv, CallsHaveCookies
  <1>12. Undisturbed'
    BY <1>1, <1>3 DEF Inv, Undisturbed, RowAsRead, CountedOnce, Unanswered, RowOf
  <1>13. ASSUME NEW u \in Users, Covered(u) PROVE Covered(u)'
    BY <1>q, <1>1, <1>2, <1>13 DEF Covered
  <1>14. CacheCovered'
    <2> SUFFICES ASSUME NEW u \in Users, Stale(u)' PROVE Covered(u)
      BY <1>13 DEF CacheCovered
    <2>1. CASE u = t
      <3>1. cache'[t] = EntryOf(q.user)
        BY <1>1 DEF Inv, TypeOK
      <3>2. EntryOf(q.user) # EntryOf(RowOf(t))
        BY <1>1, <2>1, <3>1 DEF Stale, EntryOf, RowOf
      <3> QED
        BY <1>q, <1>t, <1>1, <2>1, <3>2 DEF Inv, CallsCovered
    <2>2. CASE u # t
      <3>1. Stale(u)
        BY <1>1, <1>5, <2>2 DEF Stale, EntryOf, RowOf
      <3> QED
        BY <3>1 DEF Inv, CacheCovered
    <2> QED
      BY <2>1, <2>2
  <1>15. CallsCovered'
    <2> SUFFICES ASSUME NEW s \in Requests, req'[s].op = "call",
                        EntryOf(req'[s].user) # EntryOf(RowOf(req[s].target))'
                 PROVE  Covered(req[s].target)'
      BY DEF CallsCovered
    <2>1. req'[s] = req[s] /\ req[s].target \in Users
      BY <1>2, Typed DEF Inv
    <2>2. PICK u \in Users : u = req[s].target
      BY <2>1
    <2>3. EntryOf(req[s].user) # EntryOf(RowOf(u))
      BY <1>1, <2>1, <2>2 DEF EntryOf, RowOf
    <2>4. Covered(u)'
      BY <1>13, <2>1, <2>2, <2>3 DEF Inv, CallsCovered
    <2> QED
      BY <2>1, <2>2, <2>4 DEF Covered
  <1> QED
    BY <1>6, <1>7, <1>8, <1>9, <1>10, <1>11, <1>12, <1>14, <1>15 DEF Untyped

LEMMA ExpiryKeeps ==
  ASSUME Inv, NEW t \in Users, CacheExpires(t)
  PROVE  Untyped'
  <1>1. /\ row' = row /\ made' = made /\ overlap' = overlap /\ cookies' = cookies /\ req' = req
        /\ answered' = answered /\ removed' = removed
        /\ cache' = [cache EXCEPT ![t] = NoEntry]
        /\ excused' = IF Settled(t) THEN excused \ {t} ELSE excused
    BY DEF CacheExpires, Invalidate
  <1>2. \A u \in Users : cache'[u].held => u # t /\ cache'[u] = cache[u]
    BY <1>1 DEF Inv, TypeOK, NoEntry
  <1>3. Shapes' /\ RowsReal' /\ NamesOverlap' /\ Remembered' /\ CallsHaveCookies'
    BY <1>1 DEF Inv, Shapes, RowsReal, NamesOverlap, Remembered, RowOf, CallsHaveCookies
  <1>4. Alone' /\ CreateOnce'
    BY <1>1 DEF Inv, Alone, Updates, SameName, CreateOnce, Creates
  <1>5. NobodyYet'
    BY <1>1, <1>2 DEF Inv, NobodyYet, Unborn, Creates, RowOf
  <1>6. Undisturbed'
    BY <1>1 DEF Inv, Undisturbed, Updates, RowAsRead, CountedOnce, Unanswered, RowOf
  <1>7. ASSUME NEW u \in Users, Covered(u), u # t \/ ~Settled(t) PROVE Covered(u)'
    BY <1>1, <1>7 DEF Covered
  <1>8. CacheCovered'
    BY <1>1, <1>2, <1>7 DEF Inv, CacheCovered, Stale, EntryOf, RowOf
  <1>9. CallsCovered'
    <2> SUFFICES ASSUME NEW s \in Requests, req[s].op = "call",
                        EntryOf(req[s].user) # EntryOf(RowOf(req[s].target))
                 PROVE  Covered(req[s].target)'
      BY <1>1 DEF CallsCovered, EntryOf, RowOf
    <2>1. req[s].target \in Users /\ Shape(req[s])
      BY Typed DEF Inv, Shapes
    <2>2. PICK u \in Users : u = req[s].target
      BY <2>1
    <2>3. Covered(u)
      BY <2>2 DEF Inv, CallsCovered
    <2>4. u # t \/ ~Settled(t)
      BY <2>1, <2>2 DEF Settled, Shape
    <2>5. Covered(u)'
      BY <1>7, <2>3, <2>4
    <2> QED
      BY <1>1, <2>2, <2>5 DEF Covered
  <1> QED
    BY <1>3, <1>4, <1>5, <1>6, <1>8, <1>9 DEF Untyped

LEMMA RestartKeeps ==
  ASSUME Inv, Restart
  PROVE  Untyped' /\ row' \in [Names -> Row]
  <1>1. /\ req' = [r \in Requests |-> Idle] /\ cache' = [u \in Users |-> NoEntry]
        /\ excused' = {} /\ cookies' = cookies /\ answered' = answered /\ removed' = removed
        /\ overlap' = overlap
        /\ row \in [Names -> Row]
    BY Typed DEF Restart, Inv
  <1>2. Idle.op = "none" /\ Idle.at = "idle" /\ ~Idle.user.exists /\ ~NoEntry.held /\ Shape(Idle)
    BY DEF Idle, NoRow, NoEntry, Shape, Found
  <1>3. Shapes'
    BY <1>1, <1>2 DEF Shapes
  <1>4. NamesOverlap'
    BY <1>1 DEF Inv, NamesOverlap
  <1>5. Alone' /\ CreateOnce' /\ CallsHaveCookies' /\ Undisturbed' /\ CallsCovered'
    BY <1>1, <1>2 DEF Alone, Updates, CreateOnce, Creates, CallsHaveCookies, Undisturbed, CallsCovered
  <1>6. CacheCovered'
    BY <1>1, <1>2 DEF CacheCovered, Stale
  <1>7. CASE UNCHANGED <<row, made>>
    <2>1. \A u \in Users : Unborn(u)' => Unborn(u)
      BY <1>1, <1>2, <1>7 DEF Unborn, Creates
    <2>2. NobodyYet'
      BY <1>1, <1>2, <1>7, <2>1 DEF Inv, NobodyYet, RowOf
    <2>3. RowsReal' /\ Remembered'
      BY <1>1, <1>7 DEF Inv, RowsReal, Remembered, RowOf
    <2> QED
      BY <1>1, <1>3, <1>4, <1>5, <1>6, <1>7, <2>2, <2>3 DEF Untyped
  <1>8. CASE ~UNCHANGED <<row, made>>
    <2>1. PICK u \in Users \ made :
            /\ made' = made \union {u}
            /\ row' = [row EXCEPT ![NameOf[u]] = [NewRow(u) EXCEPT !.admin = TRUE]]
      BY <1>8 DEF Restart
    <2>2. \A n \in Names : ~row[n].exists
      BY <1>8 DEF Restart
    <2> DEFINE x == [NewRow(u) EXCEPT !.admin = TRUE]
    <2>3. x \in Row
      BY Constants DEF Row
    <2>4. x.user = u /\ x.exists /\ x.ver = 1
      BY DEF NewRow, NoRow
    <2> HIDE DEF x
    <2>5. row' = [row EXCEPT ![NameOf[u]] = x] /\ NameOf[u] \in Names
      BY <2>1, Constants DEF x
    <2>6. \A v \in Users : row'[NameOf[v]] = IF NameOf[v] = NameOf[u] THEN x ELSE row[NameOf[v]]
      BY <1>1, <2>5, Constants
    <2>7. \A v \in Users : v # u => RowOf(v)' = RowOf(v)
      BY <2>2, <2>4, <2>6, Constants DEF RowOf
    <2>8. \A v \in Users : Unborn(v)' => Unborn(v) /\ v # u
      BY <1>1, <1>2, <2>1 DEF Unborn, Creates
    <2>9. NobodyYet'
      BY <1>1, <1>2, <2>7, <2>8 DEF Inv, NobodyYet
    <2>10. RowsReal'
      BY <1>1, <2>2, <2>4, <2>5 DEF RowsReal
    <2>11. Remembered'
      <3>1. Unborn(u)
        BY DEF Unborn
      <3>2. RowOf(u)' = x
        BY <2>4, <2>6 DEF RowOf
      <3>3. answered[u] = 0 /\ removed[u] = "no"
        BY <3>1 DEF Inv, NobodyYet
      <3> QED
        BY <1>1, <2>4, <2>7, <3>2, <3>3 DEF Inv, Remembered
    <2> QED
      BY <1>1, <1>3, <1>4, <1>5, <1>6, <2>3, <2>5, <2>9, <2>10, <2>11 DEF Untyped
  <1> QED
    BY <1>7, <1>8

-----------------------------------------------------------------------------
(* Each action is a move, or a beginning, or one of the steps above.       *)
Failures == [fails : Nat, totp : Nat, lock : {"no", "yes", "over"}]

Kept == TypeOK' /\ Untyped'

LEMMA MoveStep ==
  ASSUME Inv, NEW r, NEW q, Moves(r, q), lockout' \in [Names -> Failures], excused' \subseteq Users,
         UNCHANGED <<begun, restarts>>, faults' \in 0..MaxFaults
  PROVE  Kept
  <1>1. req \in [Requests -> Request]
    BY Typed DEF Inv
  <1>2. req' \in [Requests -> Request]
    BY <1>1 DEF Moves
  <1>3. TypeOK'
    BY <1>2 DEF Inv, TypeOK, Moves, Failures, Request
  <1> QED
    BY <1>3, MoveKeeps DEF Kept

LEMMA BeginStep ==
  ASSUME Inv, NEW r \in Requests, NEW op \in AccountOps, NEW c \in Cookie \union {NoCookie},
         NEW t \in Users, Begin(r, op, c, t, RowOf(t)),
         op = "create" => t \notin made,
         op = "call" => \E k \in cookies : k.user = t,
         made' = IF op = "create" THEN made \union {t} ELSE made,
         lockout' \in [Names -> Failures],
         UNCHANGED <<row, cache, cookies, answered, removed, excused, faults, restarts>>
  PROVE  Kept
  <1> DEFINE q == [Idle EXCEPT !.op = op, !.at = "asked", !.cookie = c, !.target = t,
                               !.user = RowOf(t)]
  <1>1. RowOf(t) \in Row /\ Idle \in Request
    BY RowFound, Constants DEF Inv
  <1>2. q \in Request
    BY <1>1 DEF Request
  <1>3. q.op = op /\ q.at = "asked" /\ q.target = t /\ q.user = RowOf(t) /\ q.code = "no"
    BY DEF Idle
  <1>4. req' = [req EXCEPT ![r] = q] /\ req[r].at = "idle"
    BY DEF Begin
  <1> HIDE DEF q
  <1>5. op # "none"
    BY DEF AccountOps
  <1>6. Begins(r, q)
    BY <1>2, <1>3, <1>4, <1>5 DEF Begins, Begin
  <1>7. req' \in [Requests -> Request]
    BY <1>2, <1>4, Typed DEF Inv
  <1>8. begun' \in 0..MaxRequests
    BY AccountsAssumption DEF Inv, TypeOK, Begin
  <1>9. overlap' \subseteq Users /\ made' \subseteq Users
    BY DEF Inv, TypeOK, Begin
  <1>10. TypeOK'
    BY <1>7, <1>8, <1>9 DEF Inv, TypeOK, Failures, Request
  <1> QED
    BY <1>6, <1>10, BeginKeeps DEF Kept

LEMMA NoFailuresTyped ==
  /\ NoFailures \in Failures
  /\ TypeOK => lockout \in [Names -> Failures]
  BY DEF NoFailures, Failures, TypeOK

LEMMA FailureRecorded ==
  ASSUME TypeOK, NEW n \in Names, NEW isTotp \in BOOLEAN, RecordFailure(n, isTotp)
  PROVE  lockout' \in [Names -> Failures]
  <1>1. lockout \in [Names -> Failures] /\ lockout[n] \in Failures
    BY NoFailuresTyped
  <1> DEFINE e == [lockout[n] EXCEPT !.fails = @ + 1, !.totp = IF isTotp THEN @ + 1 ELSE @]
             f == [e EXCEPT !.lock = IF e.fails >= MaxAttempts \/ e.totp >= MaxTotp THEN "yes" ELSE @]
  <1>2. e \in Failures
    <2>1. /\ lockout[n].fails + 1 \in Nat
          /\ (IF isTotp THEN lockout[n].totp + 1 ELSE lockout[n].totp) \in Nat
      BY <1>1 DEF Failures
    <2>2. ASSUME NEW a \in Nat, NEW b \in Nat, NEW x \in Failures
          PROVE  [x EXCEPT !.fails = a, !.totp = b] \in Failures
      BY DEF Failures
    <2> QED
      BY <1>1, <2>1, <2>2
  <1>3. lockout' = [lockout EXCEPT ![n] = f]
    BY DEF RecordFailure
  <1> HIDE DEF e
  <1>4. f \in Failures
    BY <1>2 DEF Failures
  <1> HIDE DEF f
  <1> QED
    BY <1>1, <1>3, <1>4

(* Entries begin with a user the table may know.                           *)
LEMMA LoginBeginsStep ==
  ASSUME Inv, NEW r \in Requests, NEW n \in Names, LoginBegins(r, n)
  PROVE  Kept
  <1>1. PICK t \in Users : Begin(r, "login", NoCookie, t, RowOf(t))
    BY DEF LoginBegins
  <1>2. lockout' \in [Names -> Failures]
    BY NoFailuresTyped DEF LoginBegins, Inv
  <1> QED
    BY <1>1, <1>2, BeginStep DEF LoginBegins, AccountOps

LEMMA OwnBeginsStep ==
  ASSUME Inv, NEW r \in Requests, NEW op \in Ops, NEW c \in cookies, OwnBegins(r, op, c)
  PROVE  Kept
  <1>1. op \in AccountOps /\ op \notin {"create", "call"} /\ c \in Cookie /\ c.user \in Users
    BY Constants, Typed DEF OwnBegins, Inv
  <1>2. lockout' \in [Names -> Failures]
    BY NoFailuresTyped DEF OwnBegins, Inv, memory
  <1>3. Begin(r, op, c, c.user, RowOf(c.user))
    BY DEF OwnBegins
  <1> QED
    BY <1>1, <1>2, <1>3, BeginStep DEF OwnBegins, memory

LEMMA AdminBeginsStep ==
  ASSUME Inv, NEW r \in Requests, NEW op \in Ops, NEW c \in cookies, NEW u \in Users,
         AdminBegins(r, op, c, u)
  PROVE  Kept
  <1>1. op \in AccountOps /\ op # "call" /\ c \in Cookie
    BY Constants, Typed DEF AdminBegins, Inv
  <1>2. lockout' \in [Names -> Failures]
    BY NoFailuresTyped DEF AdminBegins, Inv, memory
  <1>3. Begin(r, op, c, u, RowOf(u))
    BY DEF AdminBegins
  <1> QED
    BY <1>1, <1>2, <1>3, BeginStep DEF AdminBegins, memory

LEMMA CliBeginsStep ==
  ASSUME Inv, NEW r \in Requests, NEW u \in Users, CliBegins(r, u)
  PROVE  Kept
  <1>1. lockout' \in [Names -> Failures]
    BY NoFailuresTyped DEF CliBegins, Inv, memory
  <1> QED
    BY <1>1, BeginStep DEF CliBegins, memory, AccountOps

LEMMA CallBeginsStep ==
  ASSUME Inv, NEW r \in Requests, NEW c \in cookies, CallBegins(r, c)
  PROVE  Kept
  <1>1. c \in Cookie /\ c.user \in Users
    BY Typed DEF Inv
  <1>2. lockout' \in [Names -> Failures]
    BY NoFailuresTyped DEF CallBegins, Inv, memory
  <1>3. Begin(r, "call", c, c.user, RowOf(c.user))
    BY DEF CallBegins
  <1> QED
    BY <1>1, <1>2, <1>3, BeginStep DEF CallBegins, memory, AccountOps

-----------------------------------------------------------------------------
(* A request that ends before anything landed, or goes on.                 *)
LEMMA EndMoves ==
  ASSUME Inv, NEW r \in Requests, End(r), req[r].at # "landed",
         UNCHANGED <<row, cache, cookies, history>>
  PROVE  Moves(r, Idle)
  <1>1. Shape(Idle) /\ Idle \in Request
    BY Constants DEF Idle, Shape, Found
  <1> QED
    BY <1>1 DEF Moves, End, history

LEMMA LoginFailsStep ==
  ASSUME Inv, NEW r \in Requests, NEW isTotp \in BOOLEAN, LoginFails(r, isTotp)
  PROVE  Kept
  <1>1. NameOf[req[r].target] \in Names
    BY Constants, Typed DEF Inv
  <1>2. lockout' \in [Names -> Failures]
    BY <1>1, FailureRecorded DEF LoginFails, Inv
  <1>3. Moves(r, Idle)
    BY EndMoves DEF LoginFails
  <1> QED
    BY <1>2, <1>3, MoveStep DEF LoginFails, Inv, TypeOK, history, bounds

LEMMA HandlerRefusesStep ==
  ASSUME Inv, NEW r \in Requests, HandlerRefuses(r)
  PROVE  Kept
  <1>1. Moves(r, Idle)
    BY EndMoves DEF HandlerRefuses, memory
  <1>2. lockout' \in [Names -> Failures]
    BY NoFailuresTyped DEF HandlerRefuses, Inv, memory
  <1> QED
    BY <1>1, <1>2, MoveStep DEF HandlerRefuses, Inv, TypeOK, history, bounds

LEMMA LoginByCodeStep ==
  ASSUME Inv, NEW r \in Requests, LoginByCode(r)
  PROVE  Kept
  <1> DEFINE q == [req[r] EXCEPT !.at = "checked", !.code = "spending"]
  <1>1. req[r] \in Request /\ Shape(req[r])
    BY Typed DEF Inv, Shapes
  <1>2. q \in Request
    BY <1>1 DEF Request
  <1>3. /\ q.at = "checked" /\ q.code = "spending" /\ q.op = "login" /\ req[r].op = "login"
        /\ q.target = req[r].target /\ q.user = req[r].user /\ req[r].at = "asked"
        /\ req[r].code = "no" /\ q.user.codes > 0 /\ q.user.totp = "on"
    BY <1>1 DEF LoginByCode, Request
  <1>4. req' = [req EXCEPT ![r] = q]
    BY Typed DEF LoginByCode, Inv
  <1> HIDE DEF q
  <1>5. q.user.exists
    BY <1>1, <1>3 DEF Shape, Found, NoRow
  <1>6. Shape(q)
    BY <1>1, <1>3, <1>5 DEF Shape
  <1>7. q.target \notin overlap => RowAsRead(q) /\ CountedOnce(q)
    BY <1>3 DEF Inv, Undisturbed, Updates, RowAsRead, CountedOnce, Unanswered
  <1>8. Moves(r, q)
    BY <1>2, <1>3, <1>4, <1>6, <1>7 DEF Moves, Continues, LoginByCode, history, memory
  <1>9. lockout' \in [Names -> Failures]
    BY NoFailuresTyped DEF LoginByCode, Inv, memory
  <1> QED
    BY <1>8, <1>9, MoveStep DEF LoginByCode, Inv, TypeOK, history, bounds

LEMMA LoginPassesStep ==
  ASSUME Inv, NEW r \in Requests, LoginPasses(r)
  PROVE  Kept
  <1> DEFINE q == [req[r] EXCEPT !.at = "checked"]
  <1>1. req[r] \in Request /\ Shape(req[r])
    BY Typed DEF Inv, Shapes
  <1>2. q \in Request
    BY <1>1 DEF Request
  <1>3. /\ q.at = "checked" /\ q.code = req[r].code /\ q.op = "login" /\ req[r].op = "login"
        /\ q.target = req[r].target /\ q.user = req[r].user /\ req[r].at = "asked"
        /\ q.user.exists
    BY <1>1 DEF LoginPasses, Request
  <1>4. req' = [req EXCEPT ![r] = q]
    BY Typed DEF LoginPasses, Inv
  <1> HIDE DEF q
  <1>5. Shape(q)
    BY <1>1, <1>3 DEF Shape
  <1>6. q.target \notin overlap => RowAsRead(q) /\ CountedOnce(q)
    BY <1>3 DEF Inv, Undisturbed, Updates, RowAsRead, CountedOnce, Unanswered
  <1>7. Moves(r, q)
    BY <1>2, <1>3, <1>4, <1>5, <1>6 DEF Moves, Continues, LoginPasses, history
  <1>8. lockout' \in [Names -> Failures]
    BY NoFailuresTyped DEF LoginPasses, Inv
  <1> QED
    BY <1>7, <1>8, MoveStep DEF LoginPasses, Inv, TypeOK, history, bounds

LEMMA HandlerChecksStep ==
  ASSUME Inv, NEW r \in Requests, HandlerChecks(r)
  PROVE  Kept
  <1> DEFINE create == req[r].op = "create"
             at == IF create THEN "fetched" ELSE "checked"
             seen == IF create THEN row[NameOf[req[r].target]] ELSE req[r].seen
             q == [req[r] EXCEPT !.at = at, !.seen = seen]
  <1>1. req[r] \in Request /\ Shape(req[r]) /\ req[r].target \in Users
    BY Typed DEF Inv, Shapes
  <1>2. seen \in Row /\ at \in {"fetched", "checked"}
    BY <1>1, Typed, Constants DEF Inv
  <1>3. q \in Request
    BY <1>1, <1>2 DEF Request
  <1>4. /\ q.at = at /\ q.code = req[r].code /\ q.op = req[r].op /\ q.seen = seen
        /\ q.target = req[r].target /\ q.user = req[r].user /\ req[r].at = "asked"
        /\ q.op \notin {"login", "call"} /\ req[r].op # "none"
    BY <1>1 DEF HandlerChecks, Request, Shape
  <1>5. req' = [req EXCEPT ![r] = q]
    BY Typed DEF HandlerChecks, Inv
  <1>6. CASE create
    <2>1. q.at = "fetched" /\ q.seen = row[NameOf[q.target]] /\ ~q.seen.exists
      BY <1>4, <1>6 DEF HandlerChecks, Accepts
    <2> HIDE DEF q
    <2>2. Shape(q)
      BY <1>1, <1>4, <1>6, <2>1 DEF Shape
    <2>3. q.target \notin overlap => RowAsRead(q) /\ CountedOnce(q)
      BY <1>1, <1>4, <1>6, <2>1 DEF Inv, Undisturbed, Updates, RowAsRead, CountedOnce, Unanswered, Shape
    <2> QED
      BY <1>3, <1>4, <1>5, <2>1, <2>2, <2>3, NoFailuresTyped, MoveStep
         DEF Moves, Continues, HandlerChecks, history, memory, bounds, Inv, TypeOK
  <1>7. CASE ~create
    <2>1. q.at = "checked" /\ q.user.exists
      BY <1>4, <1>7 DEF HandlerChecks, Accepts
    <2> HIDE DEF q
    <2>2. Shape(q)
      BY <1>1, <1>4, <1>7, <2>1 DEF Shape
    <2>3. q.target \notin overlap => RowAsRead(q) /\ CountedOnce(q)
      BY <1>1, <1>4, <1>7, <2>1 DEF Inv, Undisturbed, Updates, RowAsRead, CountedOnce, Unanswered, Shape
    <2> QED
      BY <1>3, <1>4, <1>5, <2>1, <2>2, <2>3, NoFailuresTyped, MoveStep
         DEF Moves, Continues, HandlerChecks, history, memory, bounds, Inv, TypeOK
  <1> QED
    BY <1>6, <1>7

LEMMA StoreFetchesStep ==
  ASSUME Inv, NEW r \in Requests, StoreFetches(r)
  PROVE  Kept
  <1> DEFINE u == req[r].target
             at == IF RowOf(u).exists THEN "fetched" ELSE "landed"
             q == [req[r] EXCEPT !.at = at, !.seen = RowOf(u)]
  <1>1. req[r] \in Request /\ Shape(req[r]) /\ u \in Users
    BY Typed DEF Inv, Shapes
  <1>2. RowOf(u) \in Row /\ Found(RowOf(u), u)
    BY <1>1, RowFound DEF Inv
  <1>3. q \in Request
    BY <1>1, <1>2 DEF Request
  <1>4. /\ q.at = at /\ q.code = req[r].code /\ q.op = req[r].op /\ q.seen = RowOf(u)
        /\ q.target = u /\ q.user = req[r].user /\ req[r].at = "checked"
        /\ q.op \notin {"create", "call", "none"} /\ q.user.exists
    BY <1>1 DEF StoreFetches, Request, Shape
  <1>5. req' = [req EXCEPT ![r] = q]
    BY Typed DEF StoreFetches, Inv
  <1>6. RowOf(u).exists => RowOf(u) = row[NameOf[u]]
    BY DEF RowOf, NoRow
  <1> HIDE DEF q
  <1>7. Shape(q)
    BY <1>1, <1>2, <1>4 DEF Shape
  <1>8. q.target \notin overlap => RowAsRead(q) /\ CountedOnce(q)
    <2> SUFFICES ASSUME u \notin overlap PROVE RowAsRead(q) /\ CountedOnce(q)
      BY <1>4
    <2>1. RowAsRead(req[r]) /\ CountedOnce(req[r])
      BY <1>4 DEF Inv, Undisturbed, Updates
    <2>2. q.code # "spent" => q.user = RowOf(u) /\ q.at = "fetched"
      BY <1>4, <2>1 DEF RowAsRead
    <2>3. q.code = "spent" => q.op = "login" /\ CountedOnce(q)
      BY <1>1, <1>4, <2>1 DEF Shape, CountedOnce, Unanswered
    <2>4. RowAsRead(q)
      BY <1>4, <1>6, <2>2, <2>3 DEF RowAsRead
    <2>5. CountedOnce(q)
      BY <2>2, <2>3 DEF CountedOnce, Unanswered
    <2> QED
      BY <2>4, <2>5
  <1>9. Moves(r, q)
    BY <1>3, <1>4, <1>5, <1>7, <1>8 DEF Moves, Continues, StoreFetches, history, memory
  <1>10. lockout' \in [Names -> Failures]
    BY NoFailuresTyped DEF StoreFetches, Inv, memory
  <1> QED
    BY <1>9, <1>10, MoveStep DEF StoreFetches, Inv, TypeOK, history, bounds

LEMMA CodeSpentStep ==
  ASSUME Inv, NEW r \in Requests, CodeSpent(r)
  PROVE  Kept
  <1> DEFINE q == [req[r] EXCEPT !.at = "asked", !.code = "spent"]
  <1>1. req[r] \in Request /\ Shape(req[r])
    BY Typed DEF Inv, Shapes
  <1>2. q \in Request
    BY <1>1 DEF Request
  <1>3. /\ q.at = "asked" /\ q.code = "spent" /\ q.op = "login" /\ req[r].op = "login"
        /\ q.target = req[r].target /\ q.user = req[r].user /\ req[r].at = "landed"
        /\ req[r].code = "spending"
    BY <1>1 DEF CodeSpent, SpendsCode, Request, Shape
  <1>4. req' = [req EXCEPT ![r] = q]
    BY Typed DEF CodeSpent, Inv
  <1> HIDE DEF q
  <1>5. Shape(q)
    BY <1>1, <1>3 DEF Shape
  <1>6. q.target \notin overlap => RowAsRead(q) /\ CountedOnce(q)
    BY <1>3 DEF Inv, Undisturbed, Updates, RowAsRead, CountedOnce, Unanswered
  <1>7. Moves(r, q)
    BY <1>2, <1>3, <1>4, <1>5, <1>6 DEF Moves, Continues, CodeSpent, history, memory, Invalidating
  <1>8. lockout' \in [Names -> Failures]
    BY NoFailuresTyped DEF CodeSpent, Inv, memory
  <1> QED
    BY <1>7, <1>8, MoveStep DEF CodeSpent, Inv, TypeOK, history, bounds

LEMMA StoreFailsStep ==
  ASSUME Inv, NEW r \in Requests, StoreFails(r)
  PROVE  Kept
  <1>1. Shape(Idle) /\ Idle \in Request /\ req[r].target \in Users /\ NameOf[req[r].target] \in Names
    BY Constants, Typed DEF Idle, Shape, Found, Inv
  <1>2. Moves(r, Idle)
    BY <1>1 DEF Moves, End, StoreFails
  <1>3. lockout' \in [Names -> Failures]
    BY <1>1, FailureRecorded, NoFailuresTyped DEF StoreFails, Inv
  <1>4. excused' \subseteq Users /\ faults' \in 0..MaxFaults
    BY <1>1, AccountsAssumption DEF StoreFails, Inv, TypeOK
  <1> QED
    BY <1>2, <1>3, <1>4, MoveStep DEF StoreFails

-----------------------------------------------------------------------------
LEMMA InsertLandsStep ==
  ASSUME Inv, NEW r \in Requests, InsertLands(r)
  PROVE  Kept
  <1>1. req[r].target \in Users /\ req \in [Requests -> Request]
    BY Typed DEF Inv
  <1>2. req' \in [Requests -> Request]
    BY <1>1 DEF InsertLands, Request
  <1>3. excused' \subseteq Users
    BY <1>1 DEF InsertLands, Inv, TypeOK
  <1>4. removed' \in [Users -> {"no", "landed", "answered"}]
    BY <1>1 DEF InsertLands, Inv, TypeOK
  <1>5. row' \in [Names -> Row] /\ Untyped'
    BY InsertKeeps
  <1>6. TypeOK'
    BY <1>2, <1>3, <1>4, <1>5 DEF InsertLands, Inv, TypeOK, Request, memory, bounds
  <1> QED
    BY <1>5, <1>6 DEF Kept

LEMMA AnswersStep ==
  ASSUME Inv, NEW r \in Requests, Answers(r)
  PROVE  Kept
  <1>1. /\ req[r].target \in Users /\ req \in [Requests -> Request] /\ req[r].user \in Row
        /\ Idle \in Request
    BY Typed, Constants DEF Inv
  <1>2. req' \in [Requests -> Request]
    BY <1>1 DEF Answers, End
  <1>3. cookies' \subseteq Cookie
    <2>1. req[r].user.admin \in BOOLEAN /\ req[r].user.ver \in Nat
      BY <1>1 DEF Row
    <2>2. [user |-> req[r].target, admin |-> req[r].user.admin, ver |-> req[r].user.ver] \in Cookie
      BY <1>1, <2>1 DEF Cookie
    <2>3. [user |-> req[r].target, admin |-> req[r].user.admin, ver |-> req[r].user.ver + 1] \in Cookie
      BY <1>1, <2>1 DEF Cookie
    <2>4. Issued(req[r]) \subseteq Cookie
      BY <2>2, <2>3 DEF Issued
    <2> QED
      BY <2>4 DEF Answers, Inv, TypeOK
  <1>4. cache' \in [Users -> [held : BOOLEAN, ver : Nat, gone : BOOLEAN]]
    <2>1. cache \in [Users -> [held : BOOLEAN, ver : Nat, gone : BOOLEAN]]
      BY DEF Inv, TypeOK
    <2>2. cache' = cache \/ cache' = [cache EXCEPT ![req[r].target] = NoEntry]
      BY DEF Answers, Invalidate
    <2>3. NoEntry \in [held : BOOLEAN, ver : Nat, gone : BOOLEAN]
      BY DEF NoEntry
    <2>4. ASSUME NEW S, NEW e \in S, NEW f \in [Users -> S], NEW u \in Users
          PROVE  [f EXCEPT ![u] = e] \in [Users -> S]
      OBVIOUS
    <2> QED
      BY <1>1, <2>1, <2>2, <2>3, <2>4
  <1>5. excused' \subseteq Users
    BY <1>1 DEF Answers, Inv, TypeOK
  <1>6. removed' \in [Users -> {"no", "landed", "answered"}]
    BY <1>1 DEF Answers, Inv, TypeOK
  <1>7. answered' \in [Users -> Nat]
    BY <1>1 DEF Answers, Inv, TypeOK
  <1>8. TypeOK'
    BY <1>2, <1>3, <1>4, <1>5, <1>6, <1>7 DEF Answers, Inv, TypeOK, Request, bounds
  <1> QED
    BY <1>8, AnswerKeeps DEF Kept

LEMMA CallReturnsStep ==
  ASSUME Inv, NEW r \in Requests, CallReturns(r)
  PROVE  Kept
  <1>1. /\ req[r].target \in Users /\ req \in [Requests -> Request] /\ req[r].user \in Row
        /\ Idle \in Request
    BY Typed, Constants DEF Inv
  <1>2. req' \in [Requests -> Request]
    BY <1>1 DEF CallReturns, End
  <1>3. ASSUME NEW x \in Row PROVE EntryOf(x) \in [held : BOOLEAN, ver : Nat, gone : BOOLEAN]
    <2>1. (IF x.exists THEN x.ver ELSE 0) \in Nat /\ (~x.exists) \in BOOLEAN
      BY RowFields
    <2>2. ASSUME NEW v \in Nat, NEW g \in BOOLEAN
          PROVE  [held |-> TRUE, ver |-> v, gone |-> g] \in [held : BOOLEAN, ver : Nat, gone : BOOLEAN]
      OBVIOUS
    <2> QED
      BY <2>1, <2>2, Zenon DEF EntryOf
  <1>4. cache' \in [Users -> [held : BOOLEAN, ver : Nat, gone : BOOLEAN]]
    BY <1>1, <1>3 DEF CallReturns, Inv, TypeOK
  <1>5. TypeOK'
    BY <1>2, <1>4 DEF CallReturns, Inv, TypeOK, Request, history, bounds
  <1> QED
    BY <1>5, CallReturnKeeps DEF Kept

LEMMA CacheExpiresStep ==
  ASSUME Inv, NEW u \in Users, CacheExpires(u)
  PROVE  Kept
  <1>1. TypeOK'
    BY DEF CacheExpires, Invalidate, NoEntry, Inv, TypeOK, bounds
  <1> QED
    BY <1>1, ExpiryKeeps DEF Kept

LEMMA RestartStep ==
  ASSUME Inv, Restart
  PROVE  Kept
  <1>1. req' \in [Requests -> Request]
    BY Constants DEF Restart
  <1>2. lockout' \in [Names -> Failures]
    BY NoFailuresTyped DEF Restart
  <1>3. made' \subseteq Users
    BY DEF Restart, Inv, TypeOK
  <1>4. restarts' \in 0..MaxRestarts
    BY AccountsAssumption DEF Restart, Inv, TypeOK
  <1>5. row' \in [Names -> Row] /\ Untyped'
    BY RestartKeeps
  <1>6. TypeOK'
    BY <1>1, <1>2, <1>3, <1>4, <1>5 DEF Restart, NoEntry, Inv, TypeOK, Request, Failures
  <1> QED
    BY <1>5, <1>6 DEF Kept

(* Steps that touch no more than the lockout.                              *)
LEMMA LockStep ==
  ASSUME Inv, lockout' \in [Names -> Failures],
         UNCHANGED <<row, cache, cookies, req, history, bounds>>
  PROVE  Kept
  <1>1. TypeOK'
    BY DEF Inv, TypeOK, Failures, history, bounds
  <1>2. Shapes' /\ RowsReal' /\ NamesOverlap' /\ Remembered' /\ CallsHaveCookies'
    BY DEF Inv, Shapes, RowsReal, NamesOverlap, Remembered, RowOf, CallsHaveCookies, history
  <1>3. Alone' /\ CreateOnce'
    BY DEF Inv, Alone, Updates, SameName, CreateOnce, Creates, history
  <1>4. NobodyYet'
    BY DEF Inv, NobodyYet, Unborn, Creates, RowOf, history
  <1>5. Undisturbed'
    BY DEF Inv, Undisturbed, Updates, RowAsRead, CountedOnce, Unanswered, RowOf, history
  <1>6. CacheCovered' /\ CallsCovered'
    BY DEF Inv, CacheCovered, CallsCovered, Covered, Stale, EntryOf, RowOf, history
  <1> QED
    BY <1>1, <1>2, <1>3, <1>4, <1>5, <1>6 DEF Kept, Untyped

LEMMA LockExpiresStep ==
  ASSUME Inv, NEW n \in Names, LockExpires(n)
  PROVE  Kept
  <1>1. lockout' \in [Names -> Failures]
    BY NoFailuresTyped DEF LockExpires, Inv, Failures
  <1> QED
    BY <1>1, LockStep DEF LockExpires

LEMMA StutterStep ==
  ASSUME Inv, UNCHANGED vars
  PROVE  Kept
  BY NoFailuresTyped, LockStep DEF vars, memory, Inv

LEMMA NextKeeps ==
  ASSUME Inv, [Next]_vars
  PROVE  Inv'
  <1>1. Kept
    <2>1. CASE \E r \in Requests, n \in Names : LoginBegins(r, n)
      BY <2>1, LoginBeginsStep
    <2>2. CASE \E r \in Requests, isTotp \in BOOLEAN : LoginFails(r, isTotp)
      BY <2>2, LoginFailsStep
    <2>3. CASE \E r \in Requests : LoginByCode(r) \/ CodeSpent(r) \/ LoginPasses(r)
      BY <2>3, LoginByCodeStep, CodeSpentStep, LoginPassesStep
    <2>4. CASE \E r \in Requests, op \in Ops, c \in cookies : OwnBegins(r, op, c)
      BY <2>4, OwnBeginsStep
    <2>5. CASE \E r \in Requests, op \in Ops, c \in cookies, u \in Users : AdminBegins(r, op, c, u)
      BY <2>5, AdminBeginsStep
    <2>6. CASE \E r \in Requests, u \in Users : CliBegins(r, u)
      BY <2>6, CliBeginsStep
    <2>7. CASE \E r \in Requests : HandlerChecks(r) \/ HandlerRefuses(r) \/ StoreFetches(r)
      BY <2>7, HandlerChecksStep, HandlerRefusesStep, StoreFetchesStep
    <2>8. CASE \E r \in Requests : InsertLands(r) \/ StoreFails(r) \/ Answers(r)
      BY <2>8, InsertLandsStep, StoreFailsStep, AnswersStep
    <2>9. CASE \E r \in Requests, c \in cookies : CallBegins(r, c)
      BY <2>9, CallBeginsStep
    <2>10. CASE \E r \in Requests : CallReturns(r)
      BY <2>10, CallReturnsStep
    <2>11. CASE \E u \in Users : CacheExpires(u)
      BY <2>11, CacheExpiresStep
    <2>12. CASE \E n \in Names : LockExpires(n)
      BY <2>12, LockExpiresStep
    <2>13. CASE Restart
      BY <2>13, RestartStep
    <2>14. CASE UNCHANGED vars
      BY <2>14, StutterStep
    <2> QED
      BY <2>1, <2>2, <2>3, <2>4, <2>5, <2>6, <2>7, <2>8, <2>9, <2>10, <2>11, <2>12, <2>13, <2>14
         DEF Next
  <1> QED
    BY <1>1 DEF Kept, Untyped, Inv

LEMMA InitHolds == Init => Inv
  <1> SUFFICES ASSUME Init PROVE Inv
    OBVIOUS
  <1> DEFINE Known  == Present \union {First}
             first  == [NewRow(First) EXCEPT !.must = FALSE, !.totp = "on", !.codes = MaxCodes]
  <1>1. /\ req = [r \in Requests |-> Idle] /\ cache = [u \in Users |-> NoEntry]
        /\ made = Known /\ overlap = {} /\ excused = {} /\ removed = [u \in Users |-> "no"]
        /\ answered = [u \in Users |-> IF u \in Known THEN 1 ELSE 0]
        /\ cookies = {[user |-> u, admin |-> u \in Admins, ver |-> 1] : u \in Known}
        /\ Known \subseteq Users
    BY Constants DEF Init
  <1>2. Idle.op = "none" /\ Idle.at = "idle" /\ ~Idle.user.exists /\ ~NoEntry.held /\ Shape(Idle)
    BY DEF Idle, NoRow, NoEntry, Shape, Found
  <1>3. first \in Row /\ first.user = First /\ first.exists /\ first.ver = 1
    <2>1. MaxCodes \in 0..MaxCodes /\ NewRow(First) \in Row
      BY Constants
    <2>2. first \in Row
      BY <2>1 DEF Row
    <2>3. NewRow(First).user = First /\ NewRow(First).exists /\ NewRow(First).ver = 1
      BY DEF NewRow, NoRow
    <2> QED
      BY <2>1, <2>2, <2>3 DEF Row
  <1> HIDE DEF first
  <1>4. \A n \in Names :
          row[n] = IF n = NameOf[First] THEN first
                   ELSE IF \E u \in Present : NameOf[u] = n
                        THEN NewRow(CHOOSE u \in Present : NameOf[u] = n) ELSE NoRow
    BY DEF Init, first
  <1>5. \A u \in Users : NewRow(u).user = u /\ NewRow(u).exists /\ NewRow(u).ver = 1
    BY DEF NewRow, NoRow
  <1>6. ASSUME NEW u \in Known PROVE RowOf(u).ver = 1 /\ RowOf(u).exists
    <2>1. u \in Users /\ NameOf[u] \in Names
      BY <1>1, Constants
    <2>2. CASE NameOf[u] = NameOf[First]
      <3>1. u = First
        BY <2>2, AccountsAssumption
      <3> QED
        BY <1>3, <1>4, <2>1, <2>2, <3>1 DEF RowOf
    <2>3. CASE NameOf[u] # NameOf[First]
      <3>1. u \in Present
        BY <2>3
      <3>2. (CHOOSE v \in Present : NameOf[v] = NameOf[u]) = u
        BY <3>1, AccountsAssumption
      <3>3. row[NameOf[u]] = NewRow(u)
        BY <1>4, <2>1, <2>3, <3>1, <3>2
      <3> QED
        BY <1>5, <2>1, <3>3 DEF RowOf
    <2> QED
      BY <2>2, <2>3
  <1>7. ASSUME NEW n \in Names
        PROVE  /\ row[n] \in Row /\ (row[n].exists => row[n].ver >= 1 /\ row[n].user \in Known)
    <2>1. CASE n = NameOf[First]
      BY <1>3, <1>4, <2>1
    <2>2. CASE n # NameOf[First] /\ \E u \in Present : NameOf[u] = n
      <3>1. PICK u \in Present : u = CHOOSE v \in Present : NameOf[v] = n
        BY <2>2
      <3>2. row[n] = NewRow(u)
        BY <1>4, <2>2, <3>1
      <3> QED
        BY <1>1, <1>5, <3>2, Constants
    <2>3. CASE n # NameOf[First] /\ ~\E u \in Present : NameOf[u] = n
      BY <1>4, <2>3, Constants DEF NoRow
    <2> QED
      BY <2>1, <2>2, <2>3
  <1>8. TypeOK
    <2>1. row \in [Names -> Row]
      <3>1. row = [n \in Names |-> row[n]]
        BY DEF Init
      <3> QED
        BY <1>7, <3>1
    <2>2. req \in [Requests -> Request]
      BY <1>1, Constants
    <2>3. cookies \subseteq Cookie
      <3>1. ASSUME NEW u \in Known PROVE [user |-> u, admin |-> u \in Admins, ver |-> 1] \in Cookie
        <4>1. (u \in Admins) \in BOOLEAN /\ u \in Users
          BY <1>1
        <4>2. ASSUME NEW a \in BOOLEAN PROVE [user |-> u, admin |-> a, ver |-> 1] \in Cookie
          BY <4>1 DEF Cookie
        <4> QED
          BY <4>1, <4>2, Zenon
      <3> QED
        BY <1>1, <3>1, Zenon
    <2>4. cache \in [Users -> [held : BOOLEAN, ver : Nat, gone : BOOLEAN]]
      BY <1>1 DEF NoEntry
    <2>5. lockout \in [Names -> Failures]
      BY NoFailuresTyped DEF Init
    <2>6. begun \in 0..MaxRequests /\ faults \in 0..MaxFaults /\ restarts \in 0..MaxRestarts
      BY AccountsAssumption DEF Init
    <2>7. answered \in [Users -> Nat] /\ removed \in [Users -> {"no", "landed", "answered"}]
      BY <1>1
    <2> QED
      BY <1>1, <2>1, <2>2, <2>3, <2>4, <2>5, <2>6, <2>7 DEF TypeOK, Failures, Request
  <1>9. Shapes /\ Alone /\ CreateOnce /\ CallsHaveCookies /\ Undisturbed /\ CallsCovered
    BY <1>1, <1>2 DEF Shapes, Alone, Updates, CreateOnce, Creates, CallsHaveCookies, Undisturbed, CallsCovered
  <1>10. RowsReal /\ NamesOverlap /\ CacheCovered
    BY <1>1, <1>2, <1>7 DEF RowsReal, NamesOverlap, CacheCovered, Stale
  <1>11. NobodyYet
    <2> SUFFICES ASSUME NEW u \in Users, Unborn(u)
                 PROVE  ~RowOf(u).exists /\ \A c \in cookies : c.user # u
      BY <1>1, <1>2 DEF NobodyYet, Unborn, Creates
    <2>1. u \notin Known
      BY <1>1, <1>2 DEF Unborn, Creates
    <2>2. \A c \in cookies : c.user \in Known
      BY <1>1
    <2>3. ~RowOf(u).exists
      BY <1>7, <2>1, Constants DEF RowOf, NoRow
    <2> QED
      BY <2>1, <2>2, <2>3
  <1>12. Remembered
    <2> SUFFICES ASSUME NEW u \in Users PROVE RowOf(u).ver >= answered[u]
      BY <1>1 DEF Remembered
    <2>1. CASE u \in Known
      BY <1>1, <1>6, <2>1
    <2>2. CASE u \notin Known
      <3>1. RowOf(u).ver \in Nat
        BY <1>8, <1>10, RowFound, RowFields
      <3> QED
        BY <1>1, <2>2, <3>1
    <2> QED
      BY <2>1, <2>2
  <1> QED
    BY <1>8, <1>9, <1>10, <1>11, <1>12 DEF Inv

LEMMA Invariance == Spec => []Inv
  <1>1. Init => Inv
    BY InitHolds
  <1>2. Inv /\ [Next]_vars => Inv'
    BY NextKeeps
  <1> QED
    BY <1>1, <1>2, PTL DEF Spec

-----------------------------------------------------------------------------
(* Once a deletion, a password change or a reset is answered no cached     *)
(* version speaks for an older row, but for the users the property exempts *)
(* (session-cache.ts, routes/auth.ts).                                     *)
THEOREM SessionsFollowTheTable == Spec => []SessionsSound
  <1>1. Inv => SessionsSound
    BY DEF Inv, SessionsSound, CacheCoherent, CacheCovered, Covered
  <1> QED
    BY <1>1, Invariance, PTL

(* No user that overlapping updates spared loses an update that was        *)
(* answered, or comes back after a deletion that was (user-store.ts).      *)
THEOREM AnsweredUpdatesSurvive == Spec => []UpdatesSurvive
  <1>1. Inv => UpdatesSurvive
    BY DEF Inv, UpdatesSurvive, Remembered
  <1> QED
    BY <1>1, Invariance, PTL

(* A cookie is issued with the version of the row it is for, whatever else *)
(* was in progress for other users (routes/auth.ts).                       *)
THEOREM IssuedCookiesAreCurrent == Spec => IssuedIsCurrent
  <1> DEFINE Current ==
        \A c \in cookies' \ cookies :
          \/ c.user \in overlap
          \/ \E r \in Requests : req[r].code = "spent" /\ req'[r] # req[r]
          \/ c.ver = RowOf(c.user).ver
  <1>1. ASSUME Inv, Next PROVE Current
    <2>1. CASE cookies' = cookies
      BY <2>1
    <2>2. CASE cookies' # cookies
      <3>1. PICK r \in Requests : Answers(r)
        BY <1>1, <2>2
           DEF Next, LoginBegins, LoginFails, LoginByCode, CodeSpent, LoginPasses, OwnBegins, AdminBegins,
               CliBegins, HandlerChecks, HandlerRefuses, StoreFetches, InsertLands, StoreFails, CallBegins,
               CallReturns, CacheExpires, LockExpires, Restart
      <3>2. PICK q : q = req[r]
        OBVIOUS
      <3>3. /\ q.at = "landed" /\ q.code # "spending" /\ q.op \notin {"none", "call"}
            /\ Updates(r) /\ cookies' = cookies \union Issued(q) /\ req'[r] = Idle
            /\ q.target \in Users
        BY <1>1, <3>1, <3>2, Typed DEF Answers, SpendsCode, End, Inv, Shapes, Shape, Updates
      <3>4. req'[r] # req[r]
        BY <3>2, <3>3 DEF Idle
      <3>5. q.target \notin overlap => RowAsRead(q)
        BY <1>1, <3>2, <3>3 DEF Inv, Undisturbed
      <3>6. \A c \in Issued(q) :
              /\ c.user = q.target /\ q.op \in {"login", "password"}
              /\ c.ver = IF q.op = "login" THEN q.user.ver ELSE q.user.ver + 1
        BY DEF Issued
      <3>7. q.code # "no" => q.code = "spent" /\ req[r].code = "spent"
        BY <1>1, <3>2, <3>3, Typed DEF Inv, Request
      <3> QED
        BY <3>1, <3>3, <3>4, <3>5, <3>6, <3>7 DEF RowAsRead
    <2> QED
      BY <2>1, <2>2
  <1>2. Inv /\ [Next]_vars => [Current]_vars
    BY <1>1
  <1> QED
    BY <1>2, Invariance, PTL DEF Spec, IssuedIsCurrent

-----------------------------------------------------------------------------
(* API keys and the query guard. *)

(* What each request is at says of it: a request that is under way holds a *)
(* slot as long as its connection is open, unless it is ingest, and none   *)
(* is under way unless the server listens.                                 *)
CallsKnown ==
  \A r \in Clients : LET q == keyReq[r] IN
    /\ q.slot <=> q.open /\ ~q.sent /\ Guarded(q.route)
    /\ q.at = "idle" \/ phase # "up" => q = Vacant
    /\ q.at = "answered" => q.open
    /\ q.sent => q.at = "answered"
    /\ q.at # "idle" => q.id \in Ids

Holders == {r \in Clients : keyReq[r].slot}

SlotsCounted == IsFiniteSet(Holders) /\ active = Cardinality(Holders)

(* No two live keys are the same raw key. *)
Distinct(ids) == IsFiniteSet(ids) /\ \A i, j \in ids : RawOf[i] = RawOf[j] => i = j

RowsKnown ==
  /\ Distinct(Live) /\ Distinct(refresh.read) /\ IsFiniteSet(Cached)
  /\ \A w \in Raws : keyCache[w] # None => RawOf[keyCache[w]] = w /\ table[keyCache[w]] # "none"
  /\ \A i \in refresh.read : table[i] # "none"

(* What a start, and a refresh under way, have to do with the table.       *)
RefreshKnows ==
  /\ refresh.on => /\ phase \in {"loading", "up"}
                   /\ \A i \in Ids \ since : i \in refresh.read <=> i \in Live
  /\ phase = "loading" => refresh.on /\ since = {}
  /\ phase = "seeding" => Cached = Live
  /\ phase = "seeded" => \E i \in Live : RawOf[i] = EnvRaw /\ Cached = Live \ {i}

(* What a request that writes knows of its row. *)
WritersKnow ==
  \A r \in Clients : LET q == keyReq[r] IN
    /\ q.at = "inserting" => /\ table[q.id] = "none" /\ RawOf[q.id] # EnvRaw
                             /\ \A s \in Clients \ {r} : keyReq[s].id # q.id
    /\ q.at = "inserted" => /\ table[q.id] # "none" /\ RawOf[q.id] # EnvRaw
                            /\ q.id \in Live \union behind
    /\ q.at \in {"revoking", "revoked"} => \A i \in Live : RawOf[i] = RawOf[q.id] => i = q.id
    /\ q.at = "revoked" => table[q.id] = "revoked"

CapKnown ==
  ~raced =>
    /\ Cardinality(Live) <= MaxPerTenant
    /\ \A r \in Clients : keyReq[r].at = "inserting" =>
         /\ Cardinality(Live) < MaxPerTenant
         /\ \A s \in Clients \ {r} : keyReq[s].at # "inserting"

KeysInv ==
  /\ KeysTypeOK /\ CallsKnown /\ SlotsCounted
  /\ RowsKnown /\ RefreshKnows /\ WritersKnow /\ CacheFollowsTable /\ CapKnown

CallRecords ==
  [route : Routes, id : Ids \union {None}, open : BOOLEAN, sent : BOOLEAN, slot : BOOLEAN,
   at : {"idle", "running", "inserting", "inserted", "reading", "revoking", "revoked", "answered"}]

LEMMA VacantIsCall == Vacant \in CallRecords /\ ~Vacant.slot /\ ~Vacant.open /\ ~Vacant.sent
                      /\ Vacant.at = "idle" /\ Vacant.id = None
  BY DEF Vacant, CallRecords, Routes

(* One request changes while the server listens. *)
LEMMA CallMoves ==
  ASSUME KeysTypeOK, CallsKnown, NEW r \in Clients, NEW q \in CallRecords,
         keyReq' = [keyReq EXCEPT ![r] = q], phase = "up", phase' = "up",
         q.slot <=> q.open /\ ~q.sent /\ Guarded(q.route), q.at = "idle" => q = Vacant,
         q.at = "answered" => q.open, q.sent => q.at = "answered", q.at # "idle" => q.id \in Ids
  PROVE  /\ keyReq' \in [Clients -> CallRecords] /\ CallsKnown'
         /\ keyReq'[r] = q /\ \A s \in Clients \ {r} : keyReq'[s] = keyReq[s]
  <1>1. keyReq \in [Clients -> CallRecords]
    BY DEF KeysTypeOK, CallRecords
  <1>2. keyReq'[r] = q /\ \A s \in Clients \ {r} : keyReq'[s] = keyReq[s]
    BY <1>1
  <1>3. keyReq' \in [Clients -> CallRecords]
    BY <1>1
  <1> QED BY <1>2, <1>3 DEF CallsKnown

(* A request that is under way is so while the server listens.             *)
LEMMA UnderWay ==
  ASSUME CallsKnown, NEW r \in Clients, keyReq[r].at # "idle"
  PROVE  phase = "up" /\ keyReq[r].id \in Ids
  BY VacantIsCall DEF CallsKnown

(* A handler answers.                                                      *)
LEMMA AnsweredMoves ==
  ASSUME KeysTypeOK, CallsKnown, NEW r \in Clients, Answered(r), UNCHANGED phase,
         keyReq[r].at \notin {"idle", "answered"}
  PROVE  /\ keyReq' \in [Clients -> CallRecords] /\ CallsKnown' /\ Holders' = Holders
         /\ \A s \in Clients \ {r} : keyReq'[s] = keyReq[s]
         /\ keyReq'[r].at \in {"idle", "answered"} /\ keyReq'[r].id \in {None, keyReq[r].id}
  <1>1. phase = "up" /\ keyReq[r].id \in Ids
    BY UnderWay
  <1>2. keyReq[r] \in CallRecords
    BY DEF KeysTypeOK, CallRecords
  <1>3. keyReq[r].slot <=> keyReq[r].open /\ ~keyReq[r].sent /\ Guarded(keyReq[r].route)
    BY DEF CallsKnown
  <1>4. CASE keyReq[r].open
    <2> DEFINE q == [keyReq[r] EXCEPT !.at = "answered"]
    <2>1. /\ q \in CallRecords /\ q.at = "answered" /\ q.id = keyReq[r].id /\ q.open = keyReq[r].open
          /\ q.sent = keyReq[r].sent /\ q.slot = keyReq[r].slot /\ q.route = keyReq[r].route
      BY <1>2 DEF CallRecords
    <2>2. keyReq' = [keyReq EXCEPT ![r] = q]
      BY <1>4 DEF Answered
    <2> HIDE DEF q
    <2>3. /\ keyReq' \in [Clients -> CallRecords] /\ CallsKnown'
          /\ keyReq'[r] = q /\ \A s \in Clients \ {r} : keyReq'[s] = keyReq[s]
      BY <1>1, <1>3, <1>4, <2>1, <2>2, CallMoves
    <2>4. Holders' = Holders
      BY <2>1, <2>3 DEF Holders
    <2> QED BY <2>1, <2>3, <2>4
  <1>5. CASE ~keyReq[r].open
    <2>1. keyReq' = [keyReq EXCEPT ![r] = Vacant]
      BY <1>5 DEF Answered
    <2>2. /\ keyReq' \in [Clients -> CallRecords] /\ CallsKnown'
          /\ keyReq'[r] = Vacant /\ \A s \in Clients \ {r} : keyReq'[s] = keyReq[s]
      BY <1>1, <2>1, CallMoves, VacantIsCall
    <2>3. ~keyReq[r].slot
      BY <1>3, <1>5
    <2>4. Holders' = Holders
      BY <2>2, <2>3, VacantIsCall DEF Holders
    <2> QED BY <2>2, <2>4, VacantIsCall
  <1> QED BY <1>4, <1>5

(* A handler goes on to its next step.                                     *)
LEMMA StepMoves ==
  ASSUME KeysTypeOK, CallsKnown, NEW r \in Clients, NEW at \in {"inserted", "revoking", "revoked"},
         keyReq' = [keyReq EXCEPT ![r].at = at], UNCHANGED phase,
         keyReq[r].at \in {"inserting", "reading", "revoking"}
  PROVE  /\ keyReq' \in [Clients -> CallRecords] /\ CallsKnown' /\ Holders' = Holders
         /\ \A s \in Clients \ {r} : keyReq'[s] = keyReq[s]
         /\ keyReq'[r].at = at /\ keyReq'[r].id = keyReq[r].id
  <1>1. phase = "up" /\ keyReq[r].id \in Ids
    BY UnderWay
  <1>2. keyReq[r] \in CallRecords
    BY DEF KeysTypeOK, CallRecords
  <1>3. (keyReq[r].slot <=> keyReq[r].open /\ ~keyReq[r].sent /\ Guarded(keyReq[r].route)) /\ ~keyReq[r].sent
    BY DEF CallsKnown
  <1> DEFINE q == [keyReq[r] EXCEPT !.at = at]
  <1>4. /\ q \in CallRecords /\ q.at = at /\ q.id = keyReq[r].id /\ q.open = keyReq[r].open
        /\ q.sent = keyReq[r].sent /\ q.slot = keyReq[r].slot /\ q.route = keyReq[r].route
    BY <1>2 DEF CallRecords
  <1>5. keyReq' = [keyReq EXCEPT ![r] = q]
    OBVIOUS
  <1> HIDE DEF q
  <1>6. /\ keyReq' \in [Clients -> CallRecords] /\ CallsKnown'
        /\ keyReq'[r] = q /\ \A s \in Clients \ {r} : keyReq'[s] = keyReq[s]
    BY <1>1, <1>3, <1>4, <1>5, CallMoves
  <1>7. Holders' = Holders
    BY <1>4, <1>6 DEF Holders
  <1> QED BY <1>4, <1>6, <1>7

(* The response is sent, or the connection is over: the slot is given back *)
(* by whichever comes first.                                               *)
LEMMA EndsMove ==
  ASSUME KeysTypeOK, CallsKnown, SlotsCounted, NEW r \in Clients, Finish(r) \/ Close(r)
  PROVE  /\ keyReq' \in [Clients -> CallRecords] /\ CallsKnown' /\ SlotsCounted'
         /\ active' \in 0..MaxConcurrent
         /\ \A s \in Clients \ {r} : keyReq'[s] = keyReq[s]
         /\ \/ keyReq'[r].at = keyReq[r].at /\ keyReq'[r].id = keyReq[r].id
            \/ keyReq[r].at = "answered" /\ keyReq'[r].at = "idle" /\ keyReq'[r].id = None
  <1>1. keyReq[r].open /\ keyReq[r].at # "idle"
    BY VacantIsCall DEF Finish, Close, CallsKnown
  <1>2. phase = "up" /\ phase' = "up" /\ keyReq[r].id \in Ids
    BY <1>1, UnderWay DEF Finish, Close
  <1>3. keyReq[r] \in CallRecords
    BY DEF KeysTypeOK, CallRecords
  <1>4. /\ keyReq[r].slot <=> keyReq[r].open /\ ~keyReq[r].sent /\ Guarded(keyReq[r].route)
        /\ keyReq[r].sent => keyReq[r].at = "answered"
    BY DEF CallsKnown
  <1> DEFINE sent == [keyReq[r] EXCEPT !.sent = TRUE, !.slot = FALSE]
             shut == [keyReq[r] EXCEPT !.open = FALSE, !.slot = FALSE]
  <1>5. /\ sent \in CallRecords /\ sent.at = keyReq[r].at /\ sent.id = keyReq[r].id
        /\ sent.open = keyReq[r].open /\ sent.sent = TRUE /\ sent.slot = FALSE
    BY <1>3 DEF CallRecords
  <1>6. /\ shut \in CallRecords /\ shut.at = keyReq[r].at /\ shut.id = keyReq[r].id
        /\ shut.open = FALSE /\ shut.sent = keyReq[r].sent /\ shut.slot = FALSE
    BY <1>3 DEF CallRecords
  <1>7. \/ Finish(r) /\ keyReq' = [keyReq EXCEPT ![r] = sent] /\ keyReq[r].at = "answered"
        \/ keyReq[r].at = "answered" /\ keyReq' = [keyReq EXCEPT ![r] = Vacant]
        \/ keyReq[r].at # "answered" /\ keyReq' = [keyReq EXCEPT ![r] = shut]
    BY DEF Finish, Close
  <1> HIDE DEF sent, shut
  <1>8. PICK q \in {sent, shut, Vacant} :
          /\ keyReq' = [keyReq EXCEPT ![r] = q] /\ (q = shut => keyReq[r].at # "answered")
          /\ (q = sent \/ q = Vacant => keyReq[r].at = "answered")
    <2>1. CASE keyReq[r].at = "answered" /\ keyReq' = [keyReq EXCEPT ![r] = sent]
      <3>1. sent # shut
        BY <1>1, <1>5, <1>6
      <3> QED BY <2>1, <3>1
    <2>2. CASE keyReq[r].at = "answered" /\ keyReq' = [keyReq EXCEPT ![r] = Vacant]
      <3>1. Vacant # shut
        BY <1>1, <1>6, VacantIsCall
      <3> QED BY <2>2, <3>1
    <2>3. CASE keyReq[r].at # "answered" /\ keyReq' = [keyReq EXCEPT ![r] = shut]
      <3>1. sent # shut /\ Vacant # shut
        BY <1>1, <1>5, <1>6, VacantIsCall
      <3> QED BY <2>3, <3>1
    <2> QED BY <1>7, <2>1, <2>2, <2>3
  <1>9. /\ q \in CallRecords /\ ~q.slot /\ (q.open => q.sent) /\ (q.sent => q.at = "answered")
        /\ (q.at = "answered" => q.open) /\ (q.at = "idle" => q = Vacant) /\ (q.at # "idle" => q.id \in Ids)
        /\ \/ q.at = keyReq[r].at /\ q.id = keyReq[r].id
           \/ keyReq[r].at = "answered" /\ q.at = "idle" /\ q.id = None
    BY <1>1, <1>2, <1>4, <1>5, <1>6, <1>8, VacantIsCall
  <1>10. /\ keyReq' \in [Clients -> CallRecords] /\ CallsKnown'
         /\ keyReq'[r] = q /\ \A s \in Clients \ {r} : keyReq'[s] = keyReq[s]
    BY <1>2, <1>8, <1>9, CallMoves
  <1>11. active' = (IF keyReq[r].slot THEN active - 1 ELSE active) /\ active \in 0..MaxConcurrent
    BY DEF Finish, Close, Released, KeysTypeOK
  <1>12. Holders' = Holders \ {r}
    BY <1>9, <1>10 DEF Holders
  <1>13. IsFiniteSet(Holders) /\ active = Cardinality(Holders)
    BY DEF SlotsCounted
  <1>14. IsFiniteSet(Holders') /\ active' = Cardinality(Holders') /\ active' \in 0..MaxConcurrent
    <2>1. CASE keyReq[r].slot
      <3>1. r \in Holders
        BY <2>1 DEF Holders
      <3>2. /\ IsFiniteSet(Holders \ {r}) /\ Cardinality(Holders \ {r}) = Cardinality(Holders) - 1
        BY <1>13, <3>1, FS_RemoveElement
      <3>3. Cardinality(Holders \ {r}) \in Nat
        BY <3>2, FS_CardinalityType
      <3> QED BY <1>11, <1>12, <1>13, <2>1, <3>2, <3>3, AdmissionAssumption
    <2>2. CASE ~keyReq[r].slot
      <3>1. Holders \ {r} = Holders
        BY <2>2 DEF Holders
      <3> QED BY <1>11, <1>12, <1>13, <2>2, <3>1
    <2> QED BY <2>1, <2>2
  <1> QED BY <1>9, <1>10, <1>14 DEF SlotsCounted

LEMMA RoutesBegin ==
  ASSUME NEW route \in Routes
  PROVE  /\ Begun(route) \in {"running", "inserting", "answered", "reading"}
         /\ BucketOf(route) \in Buckets /\ Guarded(route) \in BOOLEAN
         /\ RpmOf(route) \in Nat /\ RpmOf(route) <= KeyRpm + IngestKeyRpm
         /\ Begun(route) = "inserting" => route = "create" /\ Cardinality(Cached) < MaxPerTenant
  BY AdmissionAssumption DEF Routes, Buckets, Begun, BucketOf, Guarded, RpmOf, MayCreate

(* A request that is let in takes a slot, unless it is ingest.             *)
LEMMA ArriveMoves ==
  ASSUME KeysTypeOK, CallsKnown, SlotsCounted,
         NEW r \in Clients, NEW w \in Raws, NEW route \in Routes, NEW target \in Ids,
         Arrive(r, w, route, target)
  PROVE  /\ keyReq' \in [Clients -> CallRecords] /\ CallsKnown' /\ SlotsCounted'
         /\ active' \in 0..MaxConcurrent
         /\ \A s \in Clients \ {r} : keyReq'[s] = keyReq[s]
         /\ keyReq[r].at = "idle" /\ keyReq[r].id = None
         /\ keyReq'[r].at = Begun(route) /\ keyReq'[r].id = target
  <1> DEFINE q == [route |-> route, at |-> Begun(route), id |-> target,
                   open |-> TRUE, sent |-> FALSE, slot |-> Guarded(route)]
  <1>1. q \in CallRecords /\ q.slot = Guarded(route) /\ q.open = TRUE /\ q.sent = FALSE
        /\ q.route = route /\ q.at = Begun(route) /\ q.id = target
    BY RoutesBegin DEF CallRecords
  <1>2. phase = "up" /\ phase' = "up" /\ keyReq[r].at = "idle" /\ keyReq' = [keyReq EXCEPT ![r] = q]
    BY DEF Arrive
  <1>3. keyReq[r] = Vacant
    BY <1>2 DEF CallsKnown
  <1> HIDE DEF q
  <1>4. q.at # "idle" /\ (q.slot <=> q.open /\ ~q.sent /\ Guarded(q.route))
    BY <1>1, RoutesBegin
  <1>5. /\ keyReq' \in [Clients -> CallRecords] /\ CallsKnown'
        /\ keyReq'[r] = q /\ \A s \in Clients \ {r} : keyReq'[s] = keyReq[s]
    BY <1>1, <1>2, <1>4, CallMoves
  <1>6. active' = (IF Guarded(route) THEN active + 1 ELSE active) /\ active \in 0..MaxConcurrent
        /\ (Guarded(route) => active < MaxConcurrent)
    BY DEF Arrive, KeysTypeOK
  <1>7. IsFiniteSet(Holders) /\ active = Cardinality(Holders) /\ r \notin Holders
    BY <1>3, VacantIsCall DEF SlotsCounted, Holders
  <1>8. IsFiniteSet(Holders') /\ active' = Cardinality(Holders') /\ active' \in 0..MaxConcurrent
    <2>1. CASE Guarded(route)
      <3>1. Holders' = Holders \union {r}
        BY <1>1, <1>5, <2>1 DEF Holders
      <3>2. IsFiniteSet(Holders \union {r}) /\ Cardinality(Holders \union {r}) = Cardinality(Holders) + 1
        BY <1>7, FS_AddElement
      <3> QED BY <1>6, <1>7, <2>1, <3>1, <3>2, AdmissionAssumption
    <2>2. CASE ~Guarded(route)
      <3>1. Holders' = Holders
        BY <1>1, <1>5, <1>7, <2>2 DEF Holders
      <3> QED BY <1>6, <1>7, <2>2, <3>1
    <2> QED BY <2>1, <2>2
  <1> QED BY <1>1, <1>2, <1>3, <1>5, <1>8, VacantIsCall DEF SlotsCounted

(* Both windows stay within their limits. *)
LEMMA CountKeeps ==
  ASSUME KeysTypeOK, NEW id \in Ids, NEW route \in Routes, WithinLimits(id, route), Count(id, route)
  PROVE  keyWin' \in [Ids \X Buckets -> 0..(KeyRpm + IngestKeyRpm)] /\ tenantWin' \in 0..TenantRpm
  <1>1. <<id, BucketOf(route)>> \in Ids \X Buckets
    BY RoutesBegin
  <1>2. keyWin[<<id, BucketOf(route)>>] + 1 \in 0..(KeyRpm + IngestKeyRpm)
    BY <1>1, RoutesBegin, AdmissionAssumption DEF KeysTypeOK, WithinLimits
  <1>3. tenantWin + 1 \in 0..TenantRpm
    BY AdmissionAssumption DEF KeysTypeOK, WithinLimits
  <1> QED BY <1>1, <1>2, <1>3 DEF KeysTypeOK, Count

(* What a load of the rows makes of the cache.                             *)
LEMMA LoadedCache ==
  ASSUME NEW ids \in SUBSET Ids, Distinct(ids)
  PROVE  /\ CacheOf(ids) \in [Raws -> Ids \union {None}]
         /\ \A w \in Raws : CacheOf(ids)[w] # None =>
              CacheOf(ids)[w] \in ids /\ RawOf[CacheOf(ids)[w]] = w
         /\ \A i \in Ids : CacheOf(ids)[RawOf[i]] = i <=> i \in ids
  <1>1. \A w \in Raws : (\E i \in ids : RawOf[i] = w) =>
          CacheOf(ids)[w] \in ids /\ RawOf[CacheOf(ids)[w]] = w
    BY DEF CacheOf
  <1>2. \A w \in Raws : (\A i \in ids : RawOf[i] # w) => CacheOf(ids)[w] = None
    BY DEF CacheOf
  <1>3. DOMAIN CacheOf(ids) = Raws /\ CacheOf(ids) = [w \in Raws |-> CacheOf(ids)[w]]
    BY DEF CacheOf
  <1>4. \A w \in Raws : CacheOf(ids)[w] \in Ids \union {None}
    BY <1>1, <1>2
  <1>5. CacheOf(ids) \in [Raws -> Ids \union {None}]
    BY <1>3, <1>4
  <1>6. \A i \in Ids : RawOf[i] \in Raws /\ i # None
    BY AdmissionAssumption
  <1> QED BY <1>1, <1>2, <1>5, <1>6 DEF Distinct

(* A request that writes no row knows nothing it could lose. *)
LEMMA OthersKnow ==
  ASSUME KeysInv, NEW r \in Clients, \A s \in Clients \ {r} : keyReq'[s] = keyReq[s],
         \/ keyReq'[r].at \in {"idle", "answered", "running", "reading"}
         \/ keyReq'[r].at = keyReq[r].at /\ keyReq'[r].id = keyReq[r].id,
         keyReq'[r].id \in {None, keyReq[r].id} \/
           (\A s \in Clients : keyReq[s].at = "inserting" => keyReq[s].id # keyReq'[r].id),
         UNCHANGED table, behind \subseteq behind'
  PROVE  WritersKnow'
  <1>1. Live' = Live
    BY DEF Live
  <1>2. \A s \in Clients : keyReq[s].at = "inserting" => keyReq[s].id # None
    BY AdmissionAssumption DEF KeysInv, CallsKnown
  <1> QED BY <1>1, <1>2 DEF KeysInv, WritersKnow

RowInv == RowsKnown /\ RefreshKnows /\ WritersKnow /\ CacheFollowsTable /\ CapKnown

(* A step that leaves the rows, the cache and the refresh alone, and lands *)
(* nothing.                                                                *)
LEMMA QuietKeeps ==
  ASSUME KeysInv, UNCHANGED <<table, keyCache, refresh, since, phase>>,
         behind \subseteq behind', WritersKnow', CapKnown',
         \A i \in Ids : Landed(i) \subseteq Landed(i)' \/ i \in behind'
  PROVE  RowInv'
  <1>1. Live' = Live /\ Cached' = Cached
    BY DEF Live, Cached
  <1>2. RowsKnown'
    BY <1>1 DEF KeysInv, RowsKnown, Distinct
  <1>3. RefreshKnows'
    BY <1>1 DEF KeysInv, RefreshKnows
  <1>4. CacheFollowsTable'
    BY <1>1 DEF KeysInv, CacheFollowsTable
  <1> QED BY <1>2, <1>3, <1>4 DEF RowInv

(* The cap, where nothing is added and no creation passes its check.       *)
LEMMA CapStays ==
  ASSUME KeysInv, Live' \subseteq Live, UNCHANGED raced,
         \A s \in Clients : keyReq'[s].at = "inserting" => keyReq[s].at = "inserting"
  PROVE  CapKnown'
  <1>1. IsFiniteSet(Live) /\ Cardinality(Live') <= Cardinality(Live)
        /\ Cardinality(Live) \in Nat /\ Cardinality(Live') \in Nat
    BY FS_Subset, FS_CardinalityType DEF KeysInv, RowsKnown, Distinct
  <1>2. MaxPerTenant \in Nat
    BY AdmissionAssumption
  <1> QED BY <1>1, <1>2 DEF KeysInv, CapKnown

LEMMA ArriveKeeps ==
  ASSUME KeysInv, NEW r \in Clients, NEW w \in Raws, NEW route \in Routes, NEW target \in Ids,
         Arrive(r, w, route, target)
  PROVE  KeysInv'
  <1>1. /\ keyReq' \in [Clients -> CallRecords] /\ CallsKnown' /\ SlotsCounted'
        /\ active' \in 0..MaxConcurrent
        /\ \A s \in Clients \ {r} : keyReq'[s] = keyReq[s]
        /\ keyReq[r].at = "idle" /\ keyReq[r].id = None
        /\ keyReq'[r].at = Begun(route) /\ keyReq'[r].id = target
    BY ArriveMoves DEF KeysInv
  <1>2. UNCHANGED <<table, keyCache, refresh, since, phase, behind, revoked, windows, keyFaults, keyRestarts>>
    BY DEF Arrive, store
  <1>3. /\ raced' = (raced \/ (Begun(route) = "inserting" /\ (behind # {} \/
                       \E s \in Clients : keyReq[s].at \in {"inserting", "inserted"})))
        /\ arrivals < MaxArrivals /\ arrivals' = arrivals + 1 /\ phase = "up"
        /\ keyCache[w] # None /\ WithinLimits(keyCache[w], route) /\ Count(keyCache[w], route)
    BY DEF Arrive
  <1>4. KeysTypeOK'
    <2>1. keyCache[w] \in Ids
      BY <1>3 DEF KeysInv, KeysTypeOK
    <2>2. keyWin' \in [Ids \X Buckets -> 0..(KeyRpm + IngestKeyRpm)] /\ tenantWin' \in 0..TenantRpm
      BY <1>3, <2>1, CountKeeps DEF KeysInv
    <2>3. raced' \in BOOLEAN /\ arrivals' \in 0..MaxArrivals
      BY <1>3, AdmissionAssumption DEF KeysInv, KeysTypeOK
    <2> QED BY <1>1, <1>2, <2>2, <2>3 DEF KeysInv, KeysTypeOK, CallRecords
  <1>5. \A s \in Clients : keyReq[s].at = "inserting" => keyReq[s].id # target
    <2>1. CASE route = "create"
      BY <2>1 DEF Arrive
    <2>2. CASE route # "create"
      <3>1. table[target] # "none"
        BY <1>3, <2>2 DEF Arrive, Routes, KeysInv, RowsKnown
      <3> QED BY <3>1 DEF KeysInv, WritersKnow
    <2> QED BY <2>1, <2>2
  <1>6. Begun(route) = "inserting" =>
          /\ table[target] = "none" /\ RawOf[target] # EnvRaw /\ \A s \in Clients : keyReq[s].id # target
          /\ Cardinality(Cached) < MaxPerTenant
    <2> SUFFICES ASSUME Begun(route) = "inserting"
                 PROVE  /\ table[target] = "none" /\ RawOf[target] # EnvRaw
                        /\ \A s \in Clients : keyReq[s].id # target
                        /\ Cardinality(Cached) < MaxPerTenant
      OBVIOUS
    <2>1. route = "create" /\ Cardinality(Cached) < MaxPerTenant
      BY RoutesBegin
    <2> QED BY <2>1 DEF Arrive
  <1>7. WritersKnow'
    <2>1. CASE Begun(route) = "inserting"
      <3>1. Live' = Live
        BY <1>2 DEF Live
      <3> QED BY <1>1, <1>2, <1>5, <1>6, <2>1, <3>1 DEF KeysInv, WritersKnow
    <2>2. CASE Begun(route) # "inserting"
      <3>1. Begun(route) \in {"answered", "running", "reading"}
        BY <2>2, RoutesBegin
      <3> QED BY <1>1, <1>2, <1>5, <3>1, OthersKnow
    <2> QED BY <2>1, <2>2
  <1>8. CapKnown'
    <2>1. Live' = Live
      BY <1>2 DEF Live
    <2>2. CASE Begun(route) # "inserting"
      <3>1. UNCHANGED raced
        BY <1>3, <2>2 DEF KeysInv, KeysTypeOK
      <3> QED BY <1>1, <2>1, <2>2, <3>1, CapStays
    <2>3. CASE Begun(route) = "inserting" /\ ~raced'
      <3>1. /\ ~raced /\ behind = {} /\ \A s \in Clients : keyReq[s].at \notin {"inserting", "inserted"}
        BY <1>3, <2>3
      <3>2. Live \subseteq Cached
        <4> SUFFICES ASSUME NEW i \in Live, i \notin Cached PROVE FALSE
          OBVIOUS
        <4>1. i \in Ids /\ table[i] = "live"
          BY DEF Live
        <4>2. PICK s \in Clients : keyReq[s].id = i /\ keyReq[s].at \in {"inserted", "revoked"}
          BY <1>3, <3>1, <4>1 DEF KeysInv, CacheFollowsTable, Landed
        <4> QED BY <3>1, <4>1, <4>2 DEF KeysInv, WritersKnow
      <3>3. /\ Cardinality(Live) <= Cardinality(Cached)
            /\ Cardinality(Live) \in Nat /\ Cardinality(Cached) \in Nat
        BY <3>2, FS_Subset, FS_CardinalityType DEF KeysInv, RowsKnown, Distinct
      <3>4. Cardinality(Live) < MaxPerTenant
        BY <1>6, <2>3, <3>3, AdmissionAssumption
      <3> QED BY <1>1, <2>1, <3>1, <3>3, <3>4, AdmissionAssumption DEF CapKnown
    <2> QED BY <2>2, <2>3 DEF CapKnown
  <1>9. \A i \in Ids : Landed(i) \subseteq Landed(i)'
    BY <1>1 DEF Landed
  <1> QED BY <1>1, <1>2, <1>4, <1>7, <1>8, <1>9, QuietKeeps DEF KeysInv, RowInv

(* The windows, and what a handler answers that wrote nothing.             *)
LEMMA WindowsKeep ==
  ASSUME KeysInv, \/ \E b \in Ids \X Buckets : KeyWindowEnds(b)
                  \/ TenantWindowEnds
                  \/ \E w \in Raws, route \in Routes : GuardRefuses(w, route)
  PROVE  KeysInv'
  <1>1. UNCHANGED <<store, phase, refresh, active, keyReq, keyHistory, keyFaults, keyRestarts>>
    BY DEF KeyWindowEnds, TenantWindowEnds, GuardRefuses
  <1>2. UNCHANGED <<table, keyCache, phase, refresh, active, keyReq, since, behind, raced, revoked,
                    keyFaults, keyRestarts>>
    BY <1>1 DEF store, keyHistory
  <1> DEFINE Bounded == /\ keyWin' \in [Ids \X Buckets -> 0..(KeyRpm + IngestKeyRpm)]
                        /\ tenantWin' \in 0..TenantRpm
                        /\ windows' \in 0..MaxWindows /\ arrivals' \in 0..MaxArrivals
  <1>3. Bounded
    <2>1. ASSUME NEW b \in Ids \X Buckets, KeyWindowEnds(b) PROVE Bounded
      BY <2>1, AdmissionAssumption DEF KeyWindowEnds, KeysInv, KeysTypeOK
    <2>2. CASE TenantWindowEnds
      BY <2>2, AdmissionAssumption DEF TenantWindowEnds, KeysInv, KeysTypeOK
    <2>3. ASSUME NEW w \in Raws, NEW route \in Routes, GuardRefuses(w, route) PROVE Bounded
      <3>1. keyCache[w] \in Ids
        BY <2>3 DEF GuardRefuses, KeysInv, KeysTypeOK
      <3>2. WithinLimits(keyCache[w], route) /\ Count(keyCache[w], route)
            /\ arrivals < MaxArrivals /\ arrivals' = arrivals + 1 /\ windows' = windows
        BY <2>3 DEF GuardRefuses
      <3>3. keyWin' \in [Ids \X Buckets -> 0..(KeyRpm + IngestKeyRpm)] /\ tenantWin' \in 0..TenantRpm
        BY <3>1, <3>2, CountKeeps DEF KeysInv
      <3> QED BY <3>2, <3>3, AdmissionAssumption DEF KeysInv, KeysTypeOK
    <2> QED BY <2>1, <2>2, <2>3
  <1>4. KeysTypeOK'
    BY <1>2, <1>3 DEF KeysInv, KeysTypeOK
  <1>5. CallsKnown' /\ SlotsCounted'
    BY <1>2 DEF KeysInv, CallsKnown, SlotsCounted, Holders
  <1>6. Live' = Live /\ \A i \in Ids : Landed(i)' = Landed(i)
    BY <1>2 DEF Live, Landed
  <1>7. WritersKnow' /\ CapKnown'
    BY <1>2, <1>6 DEF KeysInv, WritersKnow, CapKnown
  <1> QED BY <1>2, <1>4, <1>5, <1>6, <1>7, QuietKeeps DEF KeysInv, RowInv

(* Ends of responses and connections.                                      *)
LEMMA EndsKeep ==
  ASSUME KeysInv, NEW r \in Clients, Finish(r) \/ Close(r)
  PROVE  KeysInv'
  <1>1. /\ keyReq' \in [Clients -> CallRecords] /\ CallsKnown' /\ SlotsCounted'
        /\ active' \in 0..MaxConcurrent
        /\ \A s \in Clients \ {r} : keyReq'[s] = keyReq[s]
        /\ \/ keyReq'[r].at = keyReq[r].at /\ keyReq'[r].id = keyReq[r].id
           \/ keyReq[r].at = "answered" /\ keyReq'[r].at = "idle" /\ keyReq'[r].id = None
    BY EndsMove DEF KeysInv
  <1>2. UNCHANGED <<table, keyCache, phase, refresh, keyWin, tenantWin, since, behind, raced, revoked,
                    arrivals, windows, keyFaults, keyRestarts>>
    BY DEF Finish, Close, store, keyHistory, keyBounds
  <1>3. KeysTypeOK'
    BY <1>1, <1>2 DEF KeysInv, KeysTypeOK, CallRecords
  <1>4. WritersKnow'
    BY <1>1, <1>2, OthersKnow
  <1>5. Live' = Live /\ \A i \in Ids : Landed(i) \subseteq Landed(i)'
    BY <1>1, <1>2 DEF Live, Landed
  <1>6. CapKnown'
    BY <1>1, <1>2, <1>5, CapStays
  <1> QED BY <1>1, <1>2, <1>3, <1>4, <1>5, <1>6, QuietKeeps DEF KeysInv, RowInv

LEMMA AnswersKeep ==
  ASSUME KeysInv, NEW r \in Clients, RevokeReads(r) \/ HandlerEnds(r) \/ KeyStoreFails(r)
  PROVE  KeysInv'
  <1>1. /\ UNCHANGED <<table, keyCache, phase, refresh, keyWin, tenantWin, active, since, raced, revoked,
                       arrivals, windows, keyRestarts>>
        /\ keyFaults' \in 0..MaxKeyFaults /\ behind \subseteq behind' /\ behind' \subseteq Ids
    <2>1. keyReq[r].at \in {"inserted", "revoked"} => keyReq[r].id \in Ids
      BY DEF KeysInv, CallsKnown
    <2> QED BY <2>1, AdmissionAssumption
            DEF RevokeReads, HandlerEnds, KeyStoreFails, store, limits, keyHistory, keyBounds, KeysInv, KeysTypeOK
  <1>2. Live' = Live
    BY <1>1 DEF Live
  <1>3. CASE Answered(r) /\ keyReq[r].at \notin {"idle", "answered"}
             /\ (keyReq[r].at \in {"inserted", "revoked"} => keyReq[r].id \in behind')
    <2>1. /\ keyReq' \in [Clients -> CallRecords] /\ CallsKnown' /\ Holders' = Holders
          /\ \A s \in Clients \ {r} : keyReq'[s] = keyReq[s]
          /\ keyReq'[r].at \in {"idle", "answered"} /\ keyReq'[r].id \in {None, keyReq[r].id}
      BY <1>1, <1>3, AnsweredMoves DEF KeysInv
    <2>2. KeysTypeOK' /\ SlotsCounted'
      BY <1>1, <2>1 DEF KeysInv, KeysTypeOK, CallRecords, SlotsCounted
    <2>3. WritersKnow'
      BY <1>1, <2>1, OthersKnow
    <2>4. CapKnown'
      BY <1>1, <1>2, <2>1, CapStays
    <2>5. \A i \in Ids : Landed(i) \subseteq Landed(i)' \/ i \in behind'
      BY <1>3, <2>1 DEF Landed
    <2> QED BY <1>1, <2>1, <2>2, <2>3, <2>4, <2>5, QuietKeeps DEF KeysInv, RowInv
  <1>4. CASE /\ keyReq' = [keyReq EXCEPT ![r].at = "revoking"] /\ keyReq[r].at = "reading"
             /\ keyReq[r].id \in Live
    <2>1. /\ keyReq' \in [Clients -> CallRecords] /\ CallsKnown' /\ Holders' = Holders
          /\ \A s \in Clients \ {r} : keyReq'[s] = keyReq[s]
          /\ keyReq'[r].at = "revoking" /\ keyReq'[r].id = keyReq[r].id
      BY <1>1, <1>4, StepMoves DEF KeysInv
    <2>2. KeysTypeOK' /\ SlotsCounted'
      BY <1>1, <2>1 DEF KeysInv, KeysTypeOK, CallRecords, SlotsCounted
    <2>3. WritersKnow'
      BY <1>1, <1>2, <1>4, <2>1 DEF KeysInv, WritersKnow, RowsKnown, Distinct
    <2>4. CapKnown'
      BY <1>1, <1>2, <2>1, CapStays
    <2>5. \A i \in Ids : Landed(i) \subseteq Landed(i)'
      BY <1>4, <2>1 DEF Landed
    <2> QED BY <1>1, <2>1, <2>2, <2>3, <2>4, <2>5, QuietKeeps DEF KeysInv, RowInv
  <1>5. \/ Answered(r) /\ keyReq[r].at \notin {"idle", "answered"}
           /\ (keyReq[r].at \in {"inserted", "revoked"} => keyReq[r].id \in behind')
        \/ /\ keyReq' = [keyReq EXCEPT ![r].at = "revoking"] /\ keyReq[r].at = "reading"
           /\ keyReq[r].id \in Live
    BY DEF RevokeReads, HandlerEnds, KeyStoreFails
  <1> QED BY <1>3, <1>4, <1>5

(* A row changes: what reads the table is told through since and behind.   *)
LEMMA ChangeKeeps ==
  ASSUME KeysInv, NEW r \in Clients, NEW state \in {"live", "revoked"}, NEW at \in {"inserted", "revoked"},
         Change(r, state, at),
         \/ keyReq[r].at = "inserting" /\ state = "live" /\ at = "inserted"
         \/ keyReq[r].at = "revoking" /\ state = "revoked" /\ at = "revoked"
  PROVE  KeysInv'
  <1> DEFINE id == keyReq[r].id
  <1>1. /\ keyReq' \in [Clients -> CallRecords] /\ CallsKnown' /\ Holders' = Holders
        /\ \A s \in Clients \ {r} : keyReq'[s] = keyReq[s]
        /\ keyReq'[r].at = at /\ keyReq'[r].id = id
    BY StepMoves DEF Change, KeysInv
  <1>2. id \in Ids /\ phase = "up" /\ None \notin Ids
    BY UnderWay, AdmissionAssumption DEF KeysInv
  <1>3. /\ UNCHANGED <<keyCache, phase, refresh, keyWin, tenantWin, active, revoked, raced,
                       arrivals, windows, keyFaults, keyRestarts>>
        /\ table' = [table EXCEPT ![id] = state] /\ since' = since \union {id}
        /\ behind' = IF Landed(id) # {} THEN behind \union {id} ELSE behind
    BY DEF Change, limits, keyBounds
  <1> HIDE DEF id
  <1>4. KeysTypeOK'
    BY <1>1, <1>2, <1>3 DEF KeysInv, KeysTypeOK, CallRecords
  <1>5. table'[id] = state /\ \A i \in Ids \ {id} : table'[i] = table[i]
    BY <1>2, <1>3 DEF KeysInv, KeysTypeOK
  <1>6. Live' = (IF state = "live" THEN Live \union {id} ELSE Live \ {id}) /\ Cached' = Cached
    BY <1>2, <1>3, <1>5 DEF Live, Cached
  <1>7. state = "live" => /\ table[id] = "none" /\ id \notin Live /\ RawOf[id] # EnvRaw
                          /\ \A s \in Clients \ {r} : keyReq[s].id # id
                          /\ keyReq[r].at = "inserting"
    BY DEF KeysInv, WritersKnow, Live, id
  <1>8. Distinct(Live)'
    <2>1. IsFiniteSet(Live) /\ \A i, j \in Live : RawOf[i] = RawOf[j] => i = j
      BY DEF KeysInv, RowsKnown, Distinct
    <2>2. IsFiniteSet(Live \union {id}) /\ IsFiniteSet(Live \ {id})
      BY <2>1, FS_AddElement, FS_RemoveElement
    <2>3. \A i, j \in Live' : RawOf[i] = RawOf[j] => i = j
      <3>1. Live \subseteq Ids
        BY DEF Live
      <3> QED BY <1>2, <1>6, <1>7, <2>1, <3>1, AdmissionAssumption
    <2> QED BY <1>6, <2>2, <2>3 DEF Distinct
  <1>9. RowsKnown'
    <2>1. \A i \in Ids : table[i] # "none" => table'[i] # "none"
      BY <1>5
    <2>2. \A w \in Raws : keyCache[w] # None => keyCache[w] \in Ids
      BY DEF KeysInv, KeysTypeOK
    <2>3. refresh.read \subseteq Ids
      BY DEF KeysInv, KeysTypeOK
    <2> QED BY <1>3, <1>6, <1>8, <2>1, <2>2, <2>3 DEF KeysInv, RowsKnown, Distinct
  <1>10. RefreshKnows'
    BY <1>2, <1>3, <1>6 DEF KeysInv, RefreshKnows
  <1>11. WritersKnow'
    <2>1. ASSUME NEW s \in Clients, keyReq'[s].at = "inserting"
          PROVE  /\ table'[keyReq'[s].id] = "none" /\ RawOf[keyReq'[s].id] # EnvRaw
                 /\ \A x \in Clients \ {s} : keyReq'[x].id # keyReq'[s].id
      <3>1. s # r /\ keyReq[s].at = "inserting" /\ keyReq'[s].id = keyReq[s].id
        BY <1>1, <2>1
      <3>2. /\ table[keyReq[s].id] = "none" /\ RawOf[keyReq[s].id] # EnvRaw
            /\ \A x \in Clients \ {s} : keyReq[x].id # keyReq[s].id
        BY <3>1 DEF KeysInv, WritersKnow
      <3>3. keyReq[s].id \in Ids /\ keyReq[s].id # id
        BY <3>1, <3>2, UnderWay DEF KeysInv, id
      <3> QED BY <1>1, <1>5, <3>1, <3>2, <3>3 DEF id
    <2>2. ASSUME NEW s \in Clients, keyReq'[s].at = "inserted"
          PROVE  /\ table'[keyReq'[s].id] # "none" /\ RawOf[keyReq'[s].id] # EnvRaw
                 /\ keyReq'[s].id \in Live' \union behind'
      <3>1. CASE s = r
        BY <1>1, <1>2, <1>5, <1>6, <1>7, <2>2, <3>1
      <3>2. CASE s # r
        <4>1. keyReq'[s] = keyReq[s] /\ keyReq[s].at = "inserted"
          BY <1>1, <2>2, <3>2
        <4>2. /\ table[keyReq[s].id] # "none" /\ RawOf[keyReq[s].id] # EnvRaw
              /\ keyReq[s].id \in Live \union behind /\ keyReq[s].id \in Ids
          BY <4>1, UnderWay DEF KeysInv, WritersKnow
        <4>3. keyReq[s].id = id => s \in Landed(id)
          BY <4>1 DEF Landed
        <4> QED BY <1>3, <1>5, <1>6, <4>1, <4>2, <4>3
      <3> QED BY <3>1, <3>2
    <2>3. ASSUME NEW s \in Clients, keyReq'[s].at \in {"revoking", "revoked"}
          PROVE  \A i \in Live' : RawOf[i] = RawOf[keyReq'[s].id] => i = keyReq'[s].id
      <3>1. keyReq'[s].id = keyReq[s].id /\ keyReq[s].id \in Ids
        BY <1>1, <1>2, <2>3, UnderWay DEF KeysInv, id
      <3>2. CASE state = "live"
        <4>1. keyReq[s].at \in {"revoking", "revoked"}
          BY <1>1, <1>7, <2>3, <3>2
        <4> QED BY <1>2, <1>6, <1>7, <3>1, <3>2, <4>1, AdmissionAssumption DEF KeysInv, WritersKnow
      <3>3. CASE state # "live"
        <4>1. keyReq[s].at \in {"revoking", "revoked"}
          BY <1>1, <2>3, <3>3
        <4> QED BY <1>6, <3>1, <3>3, <4>1 DEF KeysInv, WritersKnow
      <3> QED BY <3>2, <3>3
    <2>4. ASSUME NEW s \in Clients, keyReq'[s].at = "revoked" PROVE table'[keyReq'[s].id] = "revoked"
      <3>1. CASE s = r
        BY <1>1, <1>5, <2>4, <3>1
      <3>2. CASE s # r
        <4>1. keyReq'[s] = keyReq[s] /\ keyReq[s].at = "revoked" /\ keyReq[s].id \in Ids
          BY <1>1, <2>4, <3>2, UnderWay DEF KeysInv
        <4>2. table[keyReq[s].id] = "revoked"
          BY <4>1 DEF KeysInv, WritersKnow
        <4> QED BY <1>5, <1>7, <3>2, <4>1, <4>2
      <3> QED BY <3>1, <3>2
    <2> QED BY <2>1, <2>2, <2>3, <2>4 DEF WritersKnow
  <1>12. CacheFollowsTable'
    <2>1. \A i \in Ids : Landed(i) \subseteq Landed(i)'
      BY <1>1 DEF Landed
    <2>2. \A i \in Ids : i = id => r \in Landed(i)'
      BY <1>1 DEF Landed
    <2>3. behind \subseteq behind'
      BY <1>3
    <2> QED BY <1>2, <1>3, <1>6, <2>1, <2>2, <2>3 DEF KeysInv, CacheFollowsTable
  <1>13. CapKnown'
    <2>1. CASE state = "live" /\ ~raced
      <3>1. IsFiniteSet(Live) /\ Cardinality(Live) \in Nat
        BY FS_CardinalityType DEF KeysInv, RowsKnown, Distinct
      <3>2. Cardinality(Live') = Cardinality(Live) + 1
        BY <1>6, <1>7, <2>1, <3>1, FS_AddElement
      <3>3. Cardinality(Live) < MaxPerTenant /\ \A s \in Clients \ {r} : keyReq[s].at # "inserting"
        BY <1>7, <2>1 DEF KeysInv, CapKnown
      <3> QED BY <1>1, <3>1, <3>2, <3>3, AdmissionAssumption DEF CapKnown
    <2>2. CASE state = "revoked"
      BY <1>1, <1>3, <1>6, <2>2, CapStays
    <2> QED BY <1>3, <2>1, <2>2 DEF CapKnown
  <1> QED BY <1>1, <1>3, <1>4, <1>9, <1>10, <1>11, <1>12, <1>13 DEF KeysInv, SlotsCounted

(* A creation and a revocation that return write the cache through.        *)
LEMMA ReturnsKeep ==
  ASSUME KeysInv, NEW r \in Clients, CreateReturns(r) \/ RevokeReturns(r)
  PROVE  KeysInv'
  <1> DEFINE id == keyReq[r].id
             w  == RawOf[id]
  <1>1. /\ UNCHANGED <<table, phase, refresh, keyWin, tenantWin, active, since, behind, raced,
                       arrivals, windows, keyFaults, keyRestarts>>
        /\ Answered(r) /\ keyReq[r].at \in {"inserted", "revoked"}
        /\ \/ keyReq[r].at = "inserted" /\ keyCache' = [keyCache EXCEPT ![w] = id] /\ revoked' = revoked
           \/ /\ keyReq[r].at = "revoked" /\ keyCache' = [keyCache EXCEPT ![w] = None]
              /\ revoked' = revoked \union {id}
    BY DEF CreateReturns, RevokeReturns, Drop, limits, keyHistory, keyBounds
  <1>2. id \in Ids /\ w \in Raws /\ phase = "up"
    BY <1>1, UnderWay, AdmissionAssumption DEF KeysInv
  <1>3. /\ keyReq' \in [Clients -> CallRecords] /\ CallsKnown' /\ Holders' = Holders
        /\ \A s \in Clients \ {r} : keyReq'[s] = keyReq[s]
        /\ keyReq'[r].at \in {"idle", "answered"} /\ keyReq'[r].id \in {None, keyReq[r].id}
    BY <1>1, AnsweredMoves DEF KeysInv
  <1>4. \/ keyReq[r].at = "inserted" /\ id \in Live \union behind /\ w # EnvRaw /\ table[id] # "none"
        \/ /\ keyReq[r].at = "revoked" /\ table[id] = "revoked"
           /\ \A i \in Live : RawOf[i] = w => i = id
    BY <1>1 DEF KeysInv, WritersKnow
  <1> HIDE DEF id, w
  <1>5. KeysTypeOK'
    BY <1>1, <1>2, <1>3 DEF KeysInv, KeysTypeOK, CallRecords
  <1>6. \A x \in Raws : x # w => keyCache'[x] = keyCache[x]
    BY <1>1, <1>2 DEF KeysInv, KeysTypeOK
  <1>7. keyCache'[w] = IF keyReq[r].at = "inserted" THEN id ELSE None
    BY <1>1, <1>2 DEF KeysInv, KeysTypeOK
  <1>8. None \notin Ids /\ RawOf[id] = w /\ \A i \in Ids : RawOf[i] \in Raws
    BY AdmissionAssumption DEF w
  <1>9. Live' = Live /\ \A i \in Ids \ {id} : Landed(i) \subseteq Landed(i)'
    BY <1>1, <1>3 DEF Live, Landed, id
  <1>10. /\ \A i \in Ids : RawOf[i] # w => (i \in Cached' <=> i \in Cached)
         /\ \A i \in Ids : RawOf[i] = w => (i \in Cached' <=> keyReq[r].at = "inserted" /\ i = id)
    BY <1>6, <1>7, <1>8 DEF Cached
  <1>11. RowsKnown'
    <2>1. Cached' \subseteq Cached \union {id}
      BY <1>10 DEF Cached
    <2>2. IsFiniteSet(Cached')
      BY <2>1, FS_AddElement, FS_Subset DEF KeysInv, RowsKnown
    <2>3. ASSUME NEW x \in Raws, keyCache'[x] # None
          PROVE  RawOf[keyCache'[x]] = x /\ table'[keyCache'[x]] # "none"
      BY <1>1, <1>4, <1>6, <1>7, <1>8, <2>3 DEF KeysInv, RowsKnown
    <2> QED BY <1>1, <1>9, <2>2, <2>3 DEF KeysInv, RowsKnown, Distinct
  <1>12. RefreshKnows'
    BY <1>1, <1>2, <1>9 DEF KeysInv, RefreshKnows
  <1>13. WritersKnow'
    BY <1>1, <1>3, OthersKnow
  <1>14. CacheFollowsTable'
    <2> SUFFICES ASSUME NEW i \in Ids, (i \in Cached') # (i \in Live'), i \notin behind'
                 PROVE  Landed(i)' # {}
      BY DEF CacheFollowsTable
    <2>1. CASE RawOf[i] # w
      <3>1. i # id /\ Landed(i) # {}
        BY <1>1, <1>2, <1>8, <1>9, <1>10, <2>1 DEF KeysInv, CacheFollowsTable
      <3> QED BY <1>9, <3>1
    <2>2. CASE RawOf[i] = w /\ keyReq[r].at = "inserted"
      <3>1. i = id
        BY <1>1, <1>2, <1>4, <1>8, <2>2, AdmissionAssumption
      <3> QED BY <1>1, <1>4, <1>9, <1>10, <2>2, <3>1
    <2>3. CASE RawOf[i] = w /\ keyReq[r].at # "inserted"
      <3>1. i \notin Cached' /\ i \in Live
        BY <1>9, <1>10, <2>3
      <3>2. i = id /\ table[id] = "revoked"
        BY <1>4, <2>3, <3>1
      <3> QED BY <3>1, <3>2 DEF Live
    <2> QED BY <2>1, <2>2, <2>3
  <1>15. CapKnown'
    BY <1>1, <1>3, <1>9, CapStays
  <1> QED BY <1>1, <1>3, <1>5, <1>11, <1>12, <1>13, <1>14, <1>15 DEF KeysInv, SlotsCounted

(* Before the server listens there is no request to know anything.         *)
LEMMA NoCalls ==
  ASSUME KeysTypeOK, CallsKnown, SlotsCounted, UNCHANGED <<keyReq, active>>,
         phase # "up", phase' = "up" => keyReq = [r \in Clients |-> Vacant]
  PROVE  /\ \A r \in Clients : keyReq[r] = Vacant
         /\ CallsKnown' /\ SlotsCounted' /\ WritersKnow' /\ \A i \in Ids : Landed(i)' = {}
  <1>1. \A r \in Clients : keyReq[r] = Vacant /\ keyReq'[r] = Vacant
    BY DEF CallsKnown
  <1>2. CallsKnown' /\ WritersKnow' /\ \A i \in Ids : Landed(i)' = {}
    BY <1>1, VacantIsCall DEF CallsKnown, WritersKnow, Landed
  <1>3. SlotsCounted'
    BY DEF SlotsCounted, Holders
  <1> QED BY <1>1, <1>2, <1>3

LEMMA AllVacant ==
  ASSUME KeysTypeOK, CallsKnown, phase # "up"
  PROVE  keyReq = [r \in Clients |-> Vacant]
  BY DEF CallsKnown, KeysTypeOK

(* The import of the key in the environment.                               *)
LEMMA SeedsKeep ==
  ASSUME KeysInv, Seed \/ SeedReturns
  PROVE  KeysInv'
  <1>1. phase \in {"seeding", "seeded"} /\ phase' \in {"seeded", "up"} /\ ~refresh.on
    BY DEF Seed, SeedReturns, KeysInv, RefreshKnows
  <1>2. UNCHANGED <<keyReq, active, refresh, keyWin, tenantWin, revoked, behind, arrivals, windows,
                    keyFaults, keyRestarts>>
    BY DEF Seed, SeedReturns, limits, keyBounds, keyHistory
  <1>3. /\ \A r \in Clients : keyReq[r] = Vacant
        /\ CallsKnown' /\ SlotsCounted' /\ WritersKnow' /\ \A i \in Ids : Landed(i)' = {}
    BY <1>1, <1>2, NoCalls, AllVacant DEF KeysInv
  <1>4. /\ IsFiniteSet(Live) /\ Live \subseteq Ids /\ None \notin Ids /\ EnvRaw \in Raws
        /\ \A i, j \in Live : RawOf[i] = RawOf[j] => i = j
        /\ \A i \in Ids : RawOf[i] \in Raws
    BY AdmissionAssumption DEF KeysInv, RowsKnown, Distinct, Live
  <1>5. Cardinality(Live) \in Nat /\ MaxPerTenant \in Nat
    BY <1>4, FS_CardinalityType, AdmissionAssumption
  <1>6. CASE Seed /\ keyCache[EnvRaw] # None
    <2>1. UNCHANGED <<table, since, keyCache>> /\ phase' = "up" /\ phase = "seeding"
          /\ raced' = (raced \/ Cardinality(Cached) >= MaxPerTenant)
      BY <1>6 DEF Seed
    <2>2. Live' = Live /\ Cached' = Cached /\ Cached = Live
      BY <2>1 DEF Live, Cached, KeysInv, RefreshKnows
    <2>3. KeysTypeOK'
      BY <1>2, <2>1 DEF KeysInv, KeysTypeOK
    <2>4. RowsKnown' /\ RefreshKnows' /\ CacheFollowsTable'
      BY <1>1, <1>2, <2>1, <2>2 DEF KeysInv, RowsKnown, RefreshKnows, CacheFollowsTable, Distinct
    <2>5. CapKnown'
      BY <1>2, <1>3, <2>1, <2>2, VacantIsCall DEF KeysInv, CapKnown
    <2> QED BY <1>3, <2>3, <2>4, <2>5 DEF KeysInv
  <1>7. CASE Seed /\ keyCache[EnvRaw] = None
    <2>1. PICK i \in Ids : /\ RawOf[i] = EnvRaw /\ table[i] = "none"
                           /\ table' = [table EXCEPT ![i] = "live"] /\ since' = since \union {i}
      BY <1>7 DEF Seed
    <2>2. phase = "seeding" /\ phase' = "seeded" /\ raced' = (raced \/ Cardinality(Cached) >= MaxPerTenant)
          /\ UNCHANGED keyCache
      BY <1>7 DEF Seed
    <2>3. Cached = Live /\ Cached' = Cached
      BY <2>2 DEF KeysInv, RefreshKnows, Cached
    <2>4. table'[i] = "live" /\ \A j \in Ids \ {i} : table'[j] = table[j]
      BY <2>1 DEF KeysInv, KeysTypeOK
    <2>5. Live' = Live \union {i} /\ i \notin Live
      BY <2>1, <2>4 DEF Live
    <2>6. \A j \in Live : RawOf[j] # EnvRaw
      BY <1>4, <1>7, <2>3 DEF Cached
    <2>7. IsFiniteSet(Live') /\ Cardinality(Live') = Cardinality(Live) + 1
      BY <1>4, <2>5, FS_AddElement
    <2>8. KeysTypeOK'
      BY <1>2, <2>1, <2>2 DEF KeysInv, KeysTypeOK
    <2>9. RowsKnown'
      <3>1. Distinct(Live)'
        BY <1>4, <2>1, <2>5, <2>6, <2>7 DEF Distinct
      <3>2. \A j \in Ids : table[j] # "none" => table'[j] # "none"
        BY <2>4
      <3>3. refresh.read \subseteq Ids /\ \A w \in Raws : keyCache[w] # None => keyCache[w] \in Ids
        BY DEF KeysInv, KeysTypeOK
      <3> QED BY <1>2, <2>2, <2>3, <3>1, <3>2, <3>3 DEF KeysInv, RowsKnown, Distinct
    <2>10. RefreshKnows' /\ CacheFollowsTable'
      <3>1. Cached' = Live' \ {i}
        BY <2>3, <2>5
      <3> QED BY <1>1, <1>2, <2>1, <2>2, <2>5, <3>1 DEF RefreshKnows, CacheFollowsTable
    <2>11. CapKnown'
      <3>1. ~raced' => ~(Cardinality(Cached) >= MaxPerTenant)
        BY <2>2
      <3>2. ~raced' => Cardinality(Live') <= MaxPerTenant
        BY <1>5, <2>3, <2>7, <3>1
      <3>3. \A r \in Clients : keyReq'[r].at # "inserting"
        BY <1>2, <1>3, VacantIsCall
      <3> QED BY <3>2, <3>3 DEF CapKnown
    <2> QED BY <1>3, <2>8, <2>9, <2>10, <2>11 DEF KeysInv
  <1>8. CASE SeedReturns
    <2> DEFINE e == CHOOSE i \in Live : RawOf[i] = EnvRaw
    <2>1. phase = "seeded" /\ phase' = "up" /\ keyCache' = [keyCache EXCEPT ![EnvRaw] = e]
          /\ UNCHANGED <<table, since, raced>>
      BY <1>8 DEF SeedReturns, keyHistory
    <2>2. PICK i \in Live : RawOf[i] = EnvRaw /\ Cached = Live \ {i}
      BY <2>1 DEF KeysInv, RefreshKnows
    <2>3. e = i
      BY <1>4, <2>2
    <2> HIDE DEF e
    <2>4. keyCache'[EnvRaw] = i /\ \A w \in Raws \ {EnvRaw} : keyCache'[w] = keyCache[w]
      BY <1>4, <2>1, <2>3 DEF KeysInv, KeysTypeOK
    <2>5. Live' = Live /\ Cached' = Live
      <3>1. \A j \in Ids : j \in Cached' <=> j \in Live
        <4> SUFFICES ASSUME NEW j \in Ids PROVE keyCache'[RawOf[j]] = j <=> j \in Live
          BY DEF Cached
        <4>1. CASE RawOf[j] = EnvRaw
          BY <1>4, <2>2, <2>4, <4>1
        <4>2. CASE RawOf[j] # EnvRaw
          BY <1>4, <2>2, <2>4, <4>2 DEF Cached
        <4> QED BY <4>1, <4>2
      <3> QED BY <1>4, <2>1, <3>1 DEF Live, Cached
    <2>6. KeysTypeOK'
      BY <1>2, <1>4, <2>1, <2>2, <2>3 DEF KeysInv, KeysTypeOK
    <2>7. RowsKnown'
      <3>1. table[i] # "none"
        BY DEF Live
      <3> QED BY <1>2, <1>4, <2>1, <2>2, <2>4, <2>5, <3>1 DEF KeysInv, RowsKnown, Distinct
    <2>8. RefreshKnows' /\ CacheFollowsTable'
      BY <1>1, <1>2, <2>1, <2>5 DEF RefreshKnows, CacheFollowsTable
    <2>9. CapKnown'
      BY <1>2, <1>3, <2>1, <2>5, VacantIsCall DEF KeysInv, CapKnown
    <2> QED BY <1>3, <2>6, <2>7, <2>8, <2>9 DEF KeysInv
  <1> QED BY <1>6, <1>7, <1>8

(* A refresh begins, returns or fails.                                     *)
LEMMA RefreshesKeep ==
  ASSUME KeysInv, Start \/ RefreshBegins \/ RefreshReturns \/ RefreshFails
  PROVE  KeysInv'
  <1>1. UNCHANGED <<table, keyWin, tenantWin, active, keyReq, revoked, raced, arrivals, windows, keyRestarts>>
        /\ (phase = "up" <=> phase' = "up") /\ keyFaults' \in 0..MaxKeyFaults
    BY AdmissionAssumption
       DEF Start, RefreshBegins, RefreshReturns, RefreshFails, store, limits, keyHistory, keyBounds,
           KeysInv, KeysTypeOK
  <1>2. Live' = Live /\ (\A i \in Ids : Landed(i)' = Landed(i)) /\ Live \subseteq Ids
    BY <1>1 DEF Live, Landed
  <1>3. CallsKnown' /\ SlotsCounted' /\ CapKnown'
    BY <1>1, <1>2 DEF KeysInv, CallsKnown, SlotsCounted, Holders, CapKnown
  <1>4. CASE Start \/ RefreshBegins
    <2>1. /\ refresh' = [on |-> TRUE, read |-> Live] /\ since' = {} /\ UNCHANGED <<keyCache, behind>>
          /\ \/ phase = "down" /\ phase' = "loading"
             \/ phase = "up" /\ phase' = "up"
      BY <1>4 DEF Start, RefreshBegins, store
    <2>2. refresh'.on /\ refresh'.read = Live /\ refresh' \in [on : BOOLEAN, read : SUBSET Ids]
      BY <1>2, <2>1
    <2>3. Cached' = Cached
      BY <2>1 DEF Cached
    <2>4. KeysTypeOK'
      BY <1>1, <2>1, <2>2 DEF KeysInv, KeysTypeOK
    <2>5. RowsKnown'
      <3>1. \A i \in Live : table[i] # "none"
        BY DEF Live
      <3> QED BY <1>1, <1>2, <2>1, <2>2, <2>3, <3>1 DEF KeysInv, RowsKnown, Distinct
    <2>6. RefreshKnows'
      BY <1>2, <2>1, <2>2 DEF RefreshKnows
    <2>7. WritersKnow' /\ CacheFollowsTable'
      BY <1>1, <1>2, <2>1, <2>3 DEF KeysInv, WritersKnow, CacheFollowsTable
    <2> QED BY <1>3, <2>4, <2>5, <2>6, <2>7 DEF KeysInv
  <1>5. CASE RefreshReturns
    <2>1. /\ refresh.on /\ refresh' = NoRefresh /\ keyCache' = CacheOf(refresh.read)
          /\ phase' = (IF phase = "loading" THEN "seeding" ELSE phase)
          /\ behind' = since \union {i \in behind : Landed(i) # {}} /\ UNCHANGED since
      BY <1>5 DEF RefreshReturns
    <2>2. /\ refresh.read \in SUBSET Ids /\ Distinct(refresh.read)
          /\ phase \in {"loading", "up"} /\ \A i \in Ids \ since : i \in refresh.read <=> i \in Live
      BY <2>1 DEF KeysInv, KeysTypeOK, RowsKnown, RefreshKnows
    <2>3. /\ keyCache' \in [Raws -> Ids \union {None}]
          /\ \A w \in Raws : keyCache'[w] # None => keyCache'[w] \in refresh.read /\ RawOf[keyCache'[w]] = w
          /\ \A i \in Ids : keyCache'[RawOf[i]] = i <=> i \in refresh.read
      BY <2>1, <2>2, LoadedCache
    <2>4. Cached' = refresh.read
      BY <2>2, <2>3 DEF Cached
    <2>5. ~refresh'.on /\ refresh'.read = {} /\ refresh' \in [on : BOOLEAN, read : SUBSET Ids]
      BY <2>1 DEF NoRefresh
    <2>6. KeysTypeOK'
      BY <1>1, <2>1, <2>3, <2>5 DEF KeysInv, KeysTypeOK
    <2>7. RowsKnown'
      <3>1. IsFiniteSet({}) /\ IsFiniteSet(refresh.read)
        BY <2>2, FS_EmptySet DEF Distinct
      <3>2. \A i \in refresh.read : table[i] # "none"
        BY DEF KeysInv, RowsKnown
      <3> QED BY <1>1, <1>2, <2>3, <2>4, <2>5, <3>1, <3>2 DEF KeysInv, RowsKnown, Distinct
    <2>8. RefreshKnows'
      <3>1. phase = "loading" => since = {}
        BY DEF KeysInv, RefreshKnows
      <3>2. phase' \in {"seeding", "up"} /\ (phase' = "seeding" => phase = "loading")
        BY <2>1, <2>2
      <3>3. phase' = "seeding" => Cached' = Live'
        BY <1>2, <2>2, <2>4, <3>1, <3>2
      <3> QED BY <2>5, <3>2, <3>3 DEF RefreshKnows
    <2>9. WritersKnow'
      <3>1. ASSUME NEW s \in Clients, keyReq[s].at = "inserted", keyReq[s].id \in behind
            PROVE  keyReq[s].id \in behind'
        <4>1. s \in Landed(keyReq[s].id)
          BY <3>1 DEF Landed
        <4> QED BY <2>1, <3>1, <4>1
      <3> QED BY <1>1, <1>2, <3>1 DEF KeysInv, WritersKnow
    <2>10. CacheFollowsTable'
      BY <1>1, <1>2, <2>1, <2>2, <2>4 DEF CacheFollowsTable
    <2> QED BY <1>3, <2>6, <2>7, <2>8, <2>9, <2>10 DEF KeysInv
  <1>6. CASE RefreshFails
    <2>1. /\ refresh.on /\ refresh' = NoRefresh /\ UNCHANGED <<keyCache, since, behind>>
          /\ phase' = (IF phase = "loading" THEN "down" ELSE phase)
      BY <1>6 DEF RefreshFails, store, keyHistory
    <2>2. ~refresh'.on /\ refresh'.read = {} /\ refresh' \in [on : BOOLEAN, read : SUBSET Ids]
      BY <2>1 DEF NoRefresh
    <2>3. Cached' = Cached /\ phase \in {"loading", "up"}
      BY <2>1 DEF Cached, KeysInv, RefreshKnows
    <2>4. KeysTypeOK'
      BY <1>1, <2>1, <2>2, <2>3 DEF KeysInv, KeysTypeOK
    <2>5. RowsKnown'
      <3>1. IsFiniteSet({})
        BY FS_EmptySet
      <3> QED BY <1>1, <1>2, <2>1, <2>2, <2>3, <3>1 DEF KeysInv, RowsKnown, Distinct
    <2>6. RefreshKnows'
      BY <2>1, <2>2, <2>3 DEF RefreshKnows
    <2>7. WritersKnow' /\ CacheFollowsTable'
      BY <1>1, <1>2, <2>1, <2>3 DEF KeysInv, WritersKnow, CacheFollowsTable
    <2> QED BY <1>3, <2>4, <2>5, <2>6, <2>7 DEF KeysInv
  <1> QED BY <1>4, <1>5, <1>6

LEMMA ExitsKeep ==
  ASSUME KeysInv, Exit
  PROVE  KeysInv'
  <1>1. /\ phase' = "down" /\ keyCache' = [w \in Raws |-> None] /\ refresh' = NoRefresh
        /\ keyWin' = [b \in Ids \X Buckets |-> 0] /\ tenantWin' = 0 /\ active' = 0
        /\ keyReq' = [r \in Clients |-> Vacant] /\ since' = {} /\ behind' = {}
        /\ keyRestarts < MaxKeyRestarts /\ keyRestarts' = keyRestarts + 1
        /\ UNCHANGED <<table, revoked, raced, arrivals, windows, keyFaults>>
    BY DEF Exit
  <1>2. /\ None \notin Ids /\ \A i \in Ids : RawOf[i] \in Raws
        /\ 0 \in 0..(KeyRpm + IngestKeyRpm) /\ 0 \in 0..TenantRpm /\ 0 \in 0..MaxConcurrent
    BY AdmissionAssumption
  <1>3. Live' = Live /\ Cached' = {} /\ ~refresh'.on /\ refresh'.read = {}
        /\ refresh' \in [on : BOOLEAN, read : SUBSET Ids]
    BY <1>1, <1>2 DEF Live, Cached, NoRefresh
  <1>4. \A r \in Clients : keyReq'[r] = Vacant
    BY <1>1
  <1>5. KeysTypeOK'
    <2>1. keyReq' \in [Clients -> CallRecords] /\ keyRestarts' \in 0..MaxKeyRestarts
      BY <1>1, VacantIsCall, AdmissionAssumption DEF KeysInv, KeysTypeOK
    <2> QED BY <1>1, <1>2, <1>3, <2>1 DEF KeysInv, KeysTypeOK, CallRecords
  <1>6. CallsKnown' /\ WritersKnow'
    BY <1>4, VacantIsCall DEF CallsKnown, WritersKnow
  <1>7. SlotsCounted'
    <2>1. Holders' = {}
      BY <1>4, VacantIsCall DEF Holders
    <2> QED BY <1>1, <2>1, FS_EmptySet DEF SlotsCounted
  <1>8. RowsKnown' /\ RefreshKnows' /\ CacheFollowsTable'
    BY <1>1, <1>3, FS_EmptySet DEF KeysInv, RowsKnown, RefreshKnows, CacheFollowsTable, Distinct
  <1>9. CapKnown'
    BY <1>1, <1>3, <1>4, VacantIsCall DEF KeysInv, CapKnown
  <1> QED BY <1>5, <1>6, <1>7, <1>8, <1>9 DEF KeysInv

LEMMA KeysInitHolds == KeysInit => KeysInv
  <1> SUFFICES ASSUME KeysInit PROVE KeysInv
    OBVIOUS
  <1>1. /\ phase = "down" /\ keyCache = [w \in Raws |-> None] /\ refresh = NoRefresh
        /\ keyWin = [b \in Ids \X Buckets |-> 0] /\ tenantWin = 0 /\ active = 0
        /\ keyReq = [r \in Clients |-> Vacant] /\ since = {} /\ behind = {} /\ revoked = {}
        /\ raced = FALSE /\ table = [i \in Ids |-> "none"]
        /\ arrivals = 0 /\ windows = 0 /\ keyFaults = 0 /\ keyRestarts = 0
    BY DEF KeysInit
  <1>2. /\ None \notin Ids /\ (\A i \in Ids : RawOf[i] \in Raws) /\ MaxPerTenant \in Nat
        /\ 0 \in 0..(KeyRpm + IngestKeyRpm) /\ 0 \in 0..TenantRpm /\ 0 \in 0..MaxConcurrent
        /\ 0 \in 0..MaxArrivals /\ 0 \in 0..MaxWindows /\ 0 \in 0..MaxKeyFaults /\ 0 \in 0..MaxKeyRestarts
    BY AdmissionAssumption
  <1>3. Live = {} /\ Cached = {} /\ ~refresh.on /\ refresh.read = {}
        /\ refresh \in [on : BOOLEAN, read : SUBSET Ids]
    BY <1>1, <1>2 DEF Live, Cached, NoRefresh
  <1>4. \A r \in Clients : keyReq[r] = Vacant
    BY <1>1
  <1>5. KeysTypeOK
    <2>1. keyReq \in [Clients -> CallRecords]
      BY <1>1, VacantIsCall
    <2> QED BY <1>1, <1>2, <1>3, <2>1 DEF KeysTypeOK, CallRecords
  <1>6. CallsKnown /\ WritersKnow
    BY <1>4, VacantIsCall DEF CallsKnown, WritersKnow
  <1>7. SlotsCounted
    <2>1. Holders = {}
      BY <1>4, VacantIsCall DEF Holders
    <2> QED BY <1>1, <2>1, FS_EmptySet DEF SlotsCounted
  <1>8. RowsKnown /\ RefreshKnows /\ CacheFollowsTable
    BY <1>1, <1>3, FS_EmptySet DEF RowsKnown, RefreshKnows, CacheFollowsTable, Distinct
  <1>9. CapKnown
    BY <1>2, <1>3, <1>4, VacantIsCall, FS_EmptySet DEF CapKnown
  <1> QED BY <1>5, <1>6, <1>7, <1>8, <1>9 DEF KeysInv

LEMMA KeysNextKeeps == KeysInv /\ [KeysNext]_keysVars => KeysInv'
  <1> SUFFICES ASSUME KeysInv, [KeysNext]_keysVars PROVE KeysInv'
    OBVIOUS
  <1>1. CASE UNCHANGED keysVars
    <2>1. UNCHANGED <<table, keyCache, phase, refresh, keyWin, tenantWin, active, keyReq, revoked, since,
                      behind, raced, arrivals, windows, keyFaults, keyRestarts>>
      BY <1>1 DEF keysVars, store, limits, keyHistory, keyBounds
    <2>2. /\ Live' = Live /\ Cached' = Cached /\ Holders' = Holders
          /\ \A i \in Ids : Landed(i)' = Landed(i)
      BY <2>1 DEF Live, Cached, Holders, Landed
    <2>3. KeysTypeOK' /\ CallsKnown' /\ SlotsCounted'
      BY <2>1, <2>2 DEF KeysInv, KeysTypeOK, CallsKnown, SlotsCounted
    <2>4. WritersKnow' /\ CapKnown'
      BY <2>1, <2>2 DEF KeysInv, WritersKnow, CapKnown
    <2> QED BY <2>1, <2>2, <2>3, <2>4, QuietKeeps DEF KeysInv, RowInv
  <1>2. ASSUME NEW r \in Clients, CreateLands(r) \/ RevokeLands(r) PROVE KeysInv'
    BY <1>2, ChangeKeeps DEF CreateLands, RevokeLands
  <1> QED BY <1>1, <1>2, ArriveKeeps, WindowsKeep, EndsKeep, AnswersKeep, ReturnsKeep, SeedsKeep,
             RefreshesKeep, ExitsKeep DEF KeysNext

(* While requests create, revoke and use keys next to refreshes, failed    *)
(* queries and restarts, the cache says what the table says but for the    *)
(* keys that are being written or were put out of step, a tenant has no    *)
(* more keys than its cap unless creations raced, and the query guard      *)
(* counts exactly the guarded requests under way: for any keys, limits and *)
(* number of requests.                                                     *)
THEOREM KeysAreSound == KeysSpec => []KeysSound
  <1>1. KeysInv => KeysSound
    <2> SUFFICES ASSUME KeysInv PROVE KeysSound
      OBVIOUS
    <2>1. Holders = {r \in Clients : keyReq[r].open /\ ~keyReq[r].sent /\ Guarded(keyReq[r].route)}
      BY DEF KeysInv, CallsKnown, Holders
    <2>2. SlotsMatch
      BY <2>1 DEF KeysInv, SlotsCounted, SlotsMatch
    <2>3. CapHeld
      BY DEF KeysInv, CapKnown, CapHeld
    <2> QED BY <2>2, <2>3 DEF KeysInv, KeysSound
  <1> QED BY <1>1, KeysInitHolds, KeysNextKeeps, PTL DEF KeysSpec
=============================================================================
