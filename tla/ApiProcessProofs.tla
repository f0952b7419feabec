------------------------- MODULE ApiProcessProofs -------------------------
(***************************************************************************)
(* Proofs about an API process: its write-through stores                   *)
(* (SettingStores.tla), for any entries, values and limit, any number of   *)
(* requests at a time, of failures and of exits; the schema it brings up   *)
(* to date (SchemaInit.tla), for any number of processes, attempts and     *)
(* failed calls; its start and shutdown (ApiLifecycle.tla), for any number *)
(* of requests and sweeps; and its alerts, from the rules                  *)
(* (ThresholdAlerts.tla) to their channels (AlertDelivery.tla).            *)
(***************************************************************************)
EXTENDS SettingStores, ApiLifecycle, SchemaInit, Alerts, FiniteSetTheorems, SequenceTheorems, TLAPS

Writes(q, k)  == q.at \in {"writing", "landed"} /\ k \in q.keys
Writing(r, k) == req[r].at = "writing" /\ k \in req[r].keys

(* Time and maps advance with the requests and their failures.             *)
Paced ==
  /\ gen <= ops + faults /\ stamp <= ops /\ restored <= faults
  /\ \A k \in Keys : table[k].stamp <= stamp
  /\ \A r \in InFlight : req[r].stamp <= stamp /\ req[r].gen <= gen
  /\ \A g \in Gens : g > gen => maps[g] = Empty

(* What a request of each kind writes, and what it found.                  *)
Kind(q) ==
  \/ /\ q.kind = "clear" /\ q.keys = {"slack", "test"} /\ q.val = None /\ store = "settings"
  \/ \E k \in Keys :
       /\ q.keys = {k}
       /\ \/ q.kind = "set" /\ store = "settings" /\ q.val # None
          \/ /\ store # "settings" /\ k \in Entries
             /\ \/ q.kind = "add" /\ q.before[k] = None /\ q.val # None
                \/ q.kind = "update" /\ q.val # None
                \/ q.kind = "remove" /\ q.val = None

Kinds ==
  /\ \A r \in InFlight : Kind(req[r])
  /\ Testing => store = "settings"

(* A store of entries has no fields, and only so many entries are present. *)
NoFields ==
  store # "settings" => \A k \in Fields : table[k].val = None /\ \A g \in Gens : maps[g][k] = None

Finitely ==
  /\ \A g \in Gens : IsFiniteSet(Present(maps[g]))
  /\ \A r \in Requests : IsFiniteSet(Present(req[r].before))
  /\ IsFiniteSet({k \in Keys : table[k].val # None})

(* Of two requests under way each knows what the other writes.             *)
Met == \A r, s \in InFlight : r # s => req[s].keys \subseteq req[r].met

(* What the memory shows of a key that nothing disturbed since r began.    *)
Expected(r, k) == IF k \in req[r].keys THEN req[r].val ELSE req[r].before[k]

Undisturbed ==
  \A r \in InFlight : \A k \in Keys \ (req[r].met \union spoilt) :
    /\ Current[k] = Expected(r, k)
    /\ req[r].gen < gen => Current[k] = None

(* The row of a key that r alone writes is the one r found.                *)
RowAsFound ==
  \A r \in InFlight : \A k \in req[r].keys \ (req[r].met \union spoilt \union lost) :
    req[r].at = "writing" => table[k].val = req[r].before[k]

(* The memory holds what the row holds, or the INSERT that will win does.  *)
RowWillAgree ==
  \A k \in Keys \ (spoilt \union lost) :
    \/ /\ Current[k] = table[k].val
       /\ \A r \in Requests : Writing(r, k) => req[r].stamp < table[k].stamp
    \/ \E r \in Requests :
         /\ Writing(r, k) /\ req[r].val = Current[k] /\ req[r].stamp >= table[k].stamp
         /\ \A s \in Requests \ {r} : Writing(s, k) => req[s].stamp < req[r].stamp

WriteInv ==
  /\ TypeOK /\ Paced /\ Kinds /\ NoFields /\ Finitely /\ Met
  /\ Undisturbed /\ RowAsFound /\ RowWillAgree

-----------------------------------------------------------------------------
(* Unless something raced: the outcome of a test, in memory, in the record *)
(* a request would bring back and in the table, has its webhook; a webhook *)
(* stays while a test is under way or its outcome is written; and a        *)
(* removal that is written takes the row of the outcome with it.           *)
HasWebhook(content) == content["test"] # None => content["slack"] # None

WebhookKept ==
  /\ Testing => Current["slack"] # None
  /\ \A r \in InFlight : req[r].kind = "set" /\ "test" \in req[r].keys =>
       Current["slack"] # None /\ req[r].before["slack"] # None

RowHasWebhook ==
  table["test"].val # None =>
    /\ \/ Current["slack"] # None \/ "slack" \in spoilt \union lost
       \/ \E r \in InFlight : /\ req[r].kind = "clear" /\ req[r].at = "writing"
                              /\ req[r].stamp >= table["test"].stamp
    /\ \A r \in InFlight : req[r].met = {} =>
         req[r].before["slack"] # None \/ "slack" \in spoilt \union lost

WebhookInv ==
  /\ HasWebhook(Current) \/ retested
  /\ store = "settings" /\ ~retested =>
       /\ \A r \in InFlight : HasWebhook(req[r].before)
       /\ WebhookKept /\ RowHasWebhook

StoresInv == WriteInv /\ LimitHeld /\ WebhookInv
-----------------------------------------------------------------------------
Request ==
  [kind : {"none", "add", "update", "remove", "set", "clear"},
   at : {"idle", "testing", "writing", "landed"}, keys : SUBSET Keys,
   val : Values \union {None}, gen : Gens, before : Content, stamp : 0..MaxOps,
   met : SUBSET Keys]

LEMMA Limits ==
  /\ MaxOps \in Nat /\ MaxFaults \in Nat /\ MaxRestarts \in Nat /\ MaxPerTenant \in Nat \ {0}
  /\ None \notin Values /\ Entries \intersect Fields = {}
  BY StoresAssumption

LEMMA Types ==
  ASSUME TypeOK
  PROVE  /\ maps \in [Gens -> Content] /\ gen \in Gens /\ gen \in Nat /\ Current \in Content
         /\ table \in [Keys -> [stamp : 0..MaxOps, val : Values \union {None}]]
         /\ req \in [Requests -> Request]
         /\ stamp \in Nat /\ ops \in Nat /\ faults \in Nat /\ restored \in Nat
         /\ \A k \in Keys : table[k].stamp \in Nat
         /\ \A r \in Requests : req[r].stamp \in Nat /\ req[r].gen \in Nat
  <1>1. gen \in Gens /\ Gens \subseteq Nat
    BY Limits DEF TypeOK, Gens
  <1>2. maps \in [Gens -> Content] /\ Current \in Content
    BY <1>1 DEF TypeOK, Current
  <1>3. req \in [Requests -> Request]
    BY DEF TypeOK, Request
  <1>4. \A r \in Requests : req[r].stamp \in Nat /\ req[r].gen \in Nat
    <2>1. 0..MaxOps \subseteq Nat
      BY Limits
    <2> QED BY <1>1, <1>3, <2>1 DEF Request
  <1>5. table \in [Keys -> [stamp : 0..MaxOps, val : Values \union {None}]]
    BY DEF TypeOK
  <1>6. \A k \in Keys : table[k].stamp \in Nat
    BY <1>5, Limits
  <1>7. stamp \in Nat /\ ops \in Nat /\ faults \in Nat /\ restored \in Nat
    BY Limits DEF TypeOK
  <1> QED BY <1>1, <1>2, <1>3, <1>4, <1>5, <1>6, <1>7

LEMMA EmptyIsFinite == Present(Empty) = {} /\ IsFiniteSet(Present(Empty)) /\ Empty \in Content
  <1>1. Present(Empty) = {}
    BY DEF Present, Empty
  <1> QED BY <1>1, FS_EmptySet DEF Empty, Content

LEMMA WriteInit == Init => WriteInv
  <1> SUFFICES ASSUME Init PROVE WriteInv
    OBVIOUS
  <1>1. InFlight = {} /\ ~Testing /\ Current = Empty
    <2>1. 0 \in Gens
      BY Limits DEF Gens
    <2> QED BY <2>1 DEF Init, InFlight, Testing, Idle, Current
  <1>2. TypeOK
    <2>1. 0 \in Gens /\ 0 \in 0..MaxOps /\ 0 \in 0..MaxFaults /\ 0 \in 0..MaxRestarts
      BY Limits DEF Gens
    <2>2. maps \in [Gens -> Content] /\ req \in [Requests -> Request]
      BY <2>1, EmptyIsFinite DEF Init, Idle, Request
    <2>3. table \in [Keys -> [stamp : 0..MaxOps, val : Values \union {None}]]
      BY <2>1 DEF Init, NoRow
    <2>4. \A r \in Requests : req[r].kind \in {"update", "remove"} =>
            \A k \in req[r].keys : req[r].before[k] # None
      BY DEF Init, Idle
    <2> QED BY <2>1, <2>2, <2>3, <2>4 DEF Init, TypeOK, Request
  <1>3. Paced
    BY <1>1 DEF Init, Paced, NoRow
  <1>4. Kinds /\ Met /\ Undisturbed /\ RowAsFound
    BY <1>1 DEF Kinds, Met, Undisturbed, RowAsFound
  <1>5. NoFields
    BY DEF Init, NoFields, Keys, NoRow, Empty
  <1>6. Finitely
    <2>1. {k \in Keys : table[k].val # None} = {}
      BY DEF Init, NoRow
    <2> QED BY <2>1, EmptyIsFinite, FS_EmptySet DEF Init, Finitely, Idle
  <1>7. RowWillAgree
    BY <1>1 DEF Init, RowWillAgree, Writing, NoRow, Idle, Empty
  <1> QED BY <1>2, <1>3, <1>4, <1>5, <1>6, <1>7 DEF WriteInv

-----------------------------------------------------------------------------
(* What a request does to the memory when it begins.                       *)
LEMMA StoreKeeps ==
  ASSUME TypeOK, Paced, Finitely, NEW content \in Content, IsFiniteSet(Present(content)),
         Store(content), gen < MaxOps + MaxFaults
  PROVE  /\ maps' \in [Gens -> Content] /\ gen' \in Gens /\ gen' \in {gen, gen + 1}
         /\ Current' = content /\ (gen' # gen => content = Empty)
         /\ store = "settings" => gen' = gen
         /\ \A g \in Gens : g > gen' => maps'[g] = Empty
         /\ \A g \in Gens : IsFiniteSet(Present(maps'[g]))
         /\ \A g \in Gens : maps'[g] = IF g = gen THEN content ELSE maps[g]
  <1>1. maps \in [Gens -> Content] /\ gen \in Gens /\ gen \in Nat
    BY Types
  <1>2. gen' \in {gen, gen + 1} /\ gen' \in Gens /\ gen' \in Nat
    BY <1>1, Limits DEF Store, Gens
  <1>3. \A g \in Gens : maps'[g] = IF g = gen THEN content ELSE maps[g]
    BY <1>1 DEF Store
  <1>4. maps' \in [Gens -> Content]
    BY <1>1 DEF Store
  <1>5. gen' # gen => content = Empty /\ store # "settings"
    BY DEF Store
  <1>6. Current' = content
    <2>1. CASE gen' = gen
      BY <1>1, <1>3, <2>1 DEF Current
    <2>2. CASE gen' = gen + 1
      BY <1>1, <1>2, <1>3, <1>5, <2>2 DEF Current, Paced
    <2> QED BY <1>2, <2>1, <2>2
  <1>7. ASSUME NEW g \in Gens, g > gen'
        PROVE  maps'[g] = Empty
    <2>1. g \in Nat
      BY Limits DEF Gens
    <2>2. g > gen
      BY <1>1, <1>2, <1>7, <2>1
    <2> QED BY <1>1, <1>3, <2>1, <2>2 DEF Paced
  <1>8. \A g \in Gens : IsFiniteSet(Present(maps'[g]))
    BY <1>3 DEF Finitely
  <1> QED BY <1>2, <1>3, <1>4, <1>5, <1>6, <1>7, <1>8

(* What is begun is written into the memory, ...                           *)
Changed(keys, val) == [k \in Keys |-> IF k \in keys THEN val ELSE Current[k]]

(* ... by a request of its kind.                                           *)
Begins(r, kind, keys, val) ==
  /\ r \in Requests \ InFlight /\ kind \in {"add", "update", "remove", "set", "clear"}
  /\ keys \subseteq Keys /\ val \in Values \union {None}
  /\ Store(Changed(keys, val)) /\ Begin(r, kind, keys, val)
  /\ Kind([kind |-> kind, keys |-> keys, val |-> val, before |-> Current])
  /\ kind \in {"update", "remove"} => \A k \in keys : Current[k] # None

(* The requests after one has begun.                                       *)
LEMMA BeginRequests ==
  ASSUME TypeOK, Paced, NEW r, NEW kind, NEW keys, NEW val, Begins(r, kind, keys, val)
  PROVE  /\ req' \in [Requests -> Request]
         /\ InFlight' = InFlight \union {r} /\ (Testing' => Testing)
         /\ req'[r].kind = kind /\ req'[r].at = "writing" /\ req'[r].keys = keys /\ req'[r].val = val
         /\ req'[r].gen = gen /\ req'[r].before = Current /\ req'[r].stamp = stamp'
         /\ \A s \in InFlight : req[s].keys \subseteq req'[r].met
         /\ \A s \in Requests \ {r} :
              /\ req'[s].kind = req[s].kind /\ req'[s].at = req[s].at /\ req'[s].keys = req[s].keys
              /\ req'[s].val = req[s].val /\ req'[s].gen = req[s].gen
              /\ req'[s].before = req[s].before /\ req'[s].stamp = req[s].stamp
         /\ \A s \in InFlight : req'[s].met = req[s].met \union keys
         /\ stamp' \in {stamp, stamp + 1} /\ stamp' \in 0..MaxOps /\ stamp' > 0
         /\ ops' = ops + 1 /\ ops < MaxOps
  <1> DEFINE new == [kind |-> kind, at |-> "writing", keys |-> keys, val |-> val, gen |-> gen,
                     before |-> Current, stamp |-> stamp',
                     met |-> UNION {req[o].keys : o \in InFlight \ {r}}]
             step(s) == IF s = r THEN new
                        ELSE IF s \in InFlight THEN [req[s] EXCEPT !.met = @ \union keys] ELSE req[s]
  <1>0. /\ r \in Requests /\ r \notin InFlight /\ keys \in SUBSET Keys /\ val \in Values \union {None}
        /\ kind \in {"add", "update", "remove", "set", "clear"} /\ Begin(r, kind, keys, val)
    BY DEF Begins
  <1>1. /\ req \in [Requests -> Request] /\ gen \in Gens /\ Current \in Content
    BY Types
  <1>2. stamp' \in {stamp, stamp + 1} /\ stamp' > 0 /\ ops' = ops + 1 /\ ops < MaxOps
    BY <1>0 DEF Begin
  <1>3. req' = [s \in Requests |-> step(s)]
    BY <1>0 DEF Begin
  <1> HIDE DEF step
  <1>4. req'[r] = new
    BY <1>0, <1>3 DEF step
  <1>5. \A s \in Requests \ {r} : req'[s] = IF s \in InFlight THEN [req[s] EXCEPT !.met = @ \union keys]
                                          ELSE req[s]
    BY <1>0, <1>3 DEF step
  <1>6. stamp' \in 0..MaxOps
    BY <1>2, Types, Limits DEF Paced, TypeOK
  <1>7. new.met \in SUBSET Keys /\ \A s \in InFlight : req[s].keys \subseteq new.met
    BY <1>0, <1>1 DEF Request, InFlight
  <1>8. new \in Request
    BY <1>0, <1>1, <1>6, <1>7 DEF Request
  <1> HIDE DEF new
  <1>9. ASSUME NEW s \in Requests \ {r}
        PROVE  /\ req'[s] \in Request
               /\ req'[s].kind = req[s].kind /\ req'[s].at = req[s].at /\ req'[s].keys = req[s].keys
               /\ req'[s].val = req[s].val /\ req'[s].gen = req[s].gen
               /\ req'[s].before = req[s].before /\ req'[s].stamp = req[s].stamp
               /\ s \in InFlight => req'[s].met = req[s].met \union keys
    <2>1. req[s] \in Request
      BY <1>1
    <2>2. CASE s \in InFlight
      <3>1. req[s].met \union keys \in SUBSET Keys
        BY <1>0, <2>1 DEF Request
      <3>2. req'[s] = [req[s] EXCEPT !.met = req[s].met \union keys]
        BY <1>5, <2>2
      <3>3. req'[s] \in Request
        BY <2>1, <3>1, <3>2 DEF Request
      <3> QED BY <2>1, <2>2, <3>2, <3>3 DEF Request
    <2>3. CASE s \notin InFlight
      BY <1>5, <2>1, <2>3
    <2> QED BY <2>2, <2>3
  <1>10. req' \in [Requests -> Request]
    <2>1. \A s \in Requests : step(s) \in Request
      BY <1>3, <1>4, <1>8, <1>9
    <2> QED BY <1>3, <2>1
  <1>11. /\ new.kind = kind /\ new.at = "writing" /\ new.keys = keys /\ new.val = val
         /\ new.gen = gen /\ new.before = Current /\ new.stamp = stamp'
    BY DEF new
  <1>12. InFlight' = InFlight \union {r} /\ (Testing' => Testing)
    BY <1>0, <1>4, <1>9, <1>11 DEF InFlight, Testing
  <1>13. \A s \in InFlight : s \in Requests \ {r}
    BY <1>0 DEF InFlight
  <1> QED BY <1>2, <1>4, <1>6, <1>7, <1>9, <1>10, <1>11, <1>12, <1>13

LEMMA BeginType ==
  ASSUME WriteInv, NEW r, NEW kind, NEW keys, NEW val, Begins(r, kind, keys, val),
         retested' \in BOOLEAN
  PROVE  /\ TypeOK' /\ Paced' /\ Kinds' /\ NoFields' /\ Finitely'
         /\ Current' = Changed(keys, val)
         /\ gen' # gen => Current' = Empty
  <1> USE DEF WriteInv
  <1>1. TypeOK /\ Paced /\ Kinds /\ NoFields /\ Finitely
    OBVIOUS
  <1>2. /\ r \in Requests /\ r \notin InFlight /\ keys \in SUBSET Keys /\ val \in Values \union {None}
        /\ kind \in {"add", "update", "remove", "set", "clear"}
        /\ Store(Changed(keys, val)) /\ Begin(r, kind, keys, val)
        /\ Kind([kind |-> kind, keys |-> keys, val |-> val, before |-> Current])
    BY DEF Begins
  <1> DEFINE content == Changed(keys, val)
  <1>3. /\ maps \in [Gens -> Content] /\ gen \in Gens /\ Current \in Content /\ gen \in Nat
        /\ ops \in Nat /\ faults \in Nat /\ stamp \in Nat
    BY Types
  <1>4. content \in Content
    BY <1>2, <1>3 DEF Changed, Content
  <1>5. IsFiniteSet(Present(content))
    <2>1. IsFiniteSet(keys) /\ IsFiniteSet(Present(Current))
      <3>1. keys = {"slack", "test"} \/ \E k : keys = {k}
        BY <1>2 DEF Kind
      <3>2. IsFiniteSet({"slack"} \union {"test"})
        BY FS_Singleton, FS_Union
      <3>3. {"slack", "test"} = {"slack"} \union {"test"}
        OBVIOUS
      <3>4. IsFiniteSet(keys)
        BY <3>1, <3>2, <3>3, FS_Singleton
      <3> QED BY <1>1, <1>3, <3>4 DEF Finitely, Current
    <2>2. Present(content) \in SUBSET (keys \union Present(Current))
      BY DEF Present, Changed
    <2> QED BY <2>1, <2>2, FS_Union, FS_Subset
  <1>6. gen < MaxOps + MaxFaults /\ gen <= ops + faults /\ ops < MaxOps
    BY <1>1, <1>2, <1>3, Limits DEF Begin, Paced, TypeOK
  <1>15. Store(content)
    BY <1>2
  <1> HIDE DEF content
  <1>7. /\ maps' \in [Gens -> Content] /\ gen' \in Gens /\ gen' \in {gen, gen + 1}
        /\ Current' = content /\ (gen' # gen => content = Empty)
        /\ (store = "settings" => gen' = gen)
        /\ \A g \in Gens : g > gen' => maps'[g] = Empty
        /\ \A g \in Gens : IsFiniteSet(Present(maps'[g]))
        /\ \A g \in Gens : maps'[g] = IF g = gen THEN content ELSE maps[g]
    BY <1>1, <1>4, <1>5, <1>6, <1>15, StoreKeeps
  <1>8. /\ req' \in [Requests -> Request]
        /\ InFlight' = InFlight \union {r} /\ (Testing' => Testing)
        /\ req'[r].kind = kind /\ req'[r].at = "writing" /\ req'[r].keys = keys /\ req'[r].val = val
        /\ req'[r].gen = gen /\ req'[r].before = Current /\ req'[r].stamp = stamp'
        /\ \A s \in Requests \ {r} :
             /\ req'[s].kind = req[s].kind /\ req'[s].at = req[s].at /\ req'[s].keys = req[s].keys
             /\ req'[s].val = req[s].val /\ req'[s].gen = req[s].gen
             /\ req'[s].before = req[s].before /\ req'[s].stamp = req[s].stamp
        /\ stamp' \in {stamp, stamp + 1} /\ stamp' \in 0..MaxOps
        /\ ops' = ops + 1
    BY <1>1, BeginRequests
  <1>9. /\ UNCHANGED <<store, table, lost, restored, faults, restarts>> /\ spoilt' \subseteq Keys
    BY <1>1, <1>2 DEF Begin, TypeOK
  <1>10. TypeOK'
    <2>1. ASSUME NEW s \in Requests, req'[s].kind \in {"update", "remove"}, NEW k \in req'[s].keys
          PROVE  req'[s].before[k] # None
      <3>1. CASE s = r
        BY <1>8, <2>1, <3>1 DEF Begins
      <3>2. CASE s # r
        BY <1>1, <1>8, <2>1, <3>2 DEF TypeOK
      <3> QED BY <3>1, <3>2
    <2>2. ops' \in 0..MaxOps
      BY <1>3, <1>6, <1>8, Limits
    <2> QED BY <1>1, <1>7, <1>8, <1>9, <2>1, <2>2 DEF TypeOK, Request
  <1>11. Paced'
    <2>1. gen' <= ops' + faults' /\ stamp' <= ops' /\ restored' <= faults'
      BY <1>1, <1>3, <1>6, <1>7, <1>8, <1>9 DEF Paced
    <2>2. \A k \in Keys : table'[k].stamp <= stamp'
      BY <1>1, <1>3, <1>8, <1>9, Types DEF Paced
    <2>3. \A s \in InFlight' : req'[s].stamp <= stamp' /\ req'[s].gen <= gen'
      <3>1. \A s \in InFlight : s \in Requests /\ s # r /\ req[s].stamp <= stamp /\ req[s].gen <= gen
        BY <1>1, <1>2 DEF Paced, InFlight
      <3>2. \A s \in InFlight : req[s].stamp \in Nat /\ req[s].gen \in Nat
        BY <1>1, <3>1, Types
      <3> QED BY <1>3, <1>7, <1>8, <3>1, <3>2
    <2> QED BY <1>7, <2>1, <2>2, <2>3 DEF Paced
  <1>12. Kinds'
    <2>1. Kind(req[r])'
      BY <1>2, <1>8, <1>9 DEF Kind
    <2>2. ASSUME NEW s \in InFlight
          PROVE  Kind(req[s])'
      <3>1. Kind(req[s]) /\ s \in Requests /\ s # r
        BY <1>1, <1>2, <2>2 DEF Kinds, InFlight
      <3> QED BY <1>8, <1>9, <3>1 DEF Kind
    <2> QED BY <1>1, <1>8, <1>9, <2>1, <2>2 DEF Kinds
  <1>13. NoFields'
    <2> SUFFICES ASSUME store # "settings", NEW k \in Fields
                 PROVE  table[k].val = None /\ \A g \in Gens : maps'[g][k] = None
      BY <1>9 DEF NoFields
    <2>1. content[k] = None
      <3>1. k \notin keys
        BY <1>2, Limits DEF Kind
      <3> QED BY <1>1, <1>3, <3>1 DEF content, Changed, NoFields, Keys, Current
    <2> QED BY <1>1, <1>7, <2>1 DEF NoFields
  <1>14. Finitely'
    <2>1. \A s \in Requests : IsFiniteSet(Present(req'[s].before))
      BY <1>1, <1>3, <1>8 DEF Finitely, Current
    <2> QED BY <1>1, <1>7, <1>9, <2>1 DEF Finitely, Present
  <1> QED BY <1>7, <1>10, <1>11, <1>12, <1>13, <1>14 DEF content

(* Whether a request that begins next to others disturbs them.             *)
LEMMA BeginKeeps ==
  ASSUME WriteInv, NEW r, NEW kind, NEW keys, NEW val, Begins(r, kind, keys, val),
         retested' \in BOOLEAN
  PROVE  WriteInv'
  <1>1. /\ TypeOK' /\ Paced' /\ Kinds' /\ NoFields' /\ Finitely'
        /\ Current' = Changed(keys, val)
        /\ gen' # gen => Current' = Empty
    BY BeginType
  <1>2. /\ r \in Requests /\ r \notin InFlight /\ keys \in SUBSET Keys /\ val \in Values \union {None}
        /\ kind \in {"add", "update", "remove", "set", "clear"} /\ Begin(r, kind, keys, val)
    BY DEF Begins
  <1>3. /\ req' \in [Requests -> Request]
        /\ InFlight' = InFlight \union {r}
        /\ req'[r].at = "writing" /\ req'[r].keys = keys /\ req'[r].val = val
        /\ req'[r].gen = gen /\ req'[r].before = Current /\ req'[r].stamp = stamp'
        /\ \A s \in InFlight : req[s].keys \subseteq req'[r].met
        /\ \A s \in Requests \ {r} :
             /\ req'[s].at = req[s].at /\ req'[s].keys = req[s].keys
             /\ req'[s].val = req[s].val /\ req'[s].gen = req[s].gen
             /\ req'[s].before = req[s].before /\ req'[s].stamp = req[s].stamp
        /\ \A s \in InFlight : req'[s].met = req[s].met \union keys
        /\ stamp' \in {stamp, stamp + 1}
    BY BeginRequests DEF WriteInv
  <1>4. \A s \in InFlight : s \in Requests \ {r}
    BY <1>2 DEF InFlight
  <1>5. UNCHANGED <<table, lost>> /\ spoilt \subseteq spoilt'
    BY <1>2 DEF Begin
  <1>6. /\ gen \in Nat /\ gen' \in Nat /\ stamp \in Nat /\ stamp' \in Nat
        /\ \A s \in Requests : req[s].gen \in Nat /\ req[s].stamp \in Nat
        /\ \A k \in Keys : table[k].stamp \in Nat
    <2>1. gen' \in Nat /\ stamp' \in Nat
      BY <1>1, Limits DEF TypeOK, Gens
    <2> QED BY <2>1, Types DEF WriteInv
  <1>7. Met'
    BY <1>3, <1>4 DEF WriteInv, Met
  <1>8. Undisturbed'
    <2>1. ASSUME NEW s \in InFlight, NEW k \in Keys \ (req'[s].met \union spoilt')
          PROVE  /\ Current'[k] = Expected(s, k)'
                 /\ req'[s].gen < gen' => Current'[k] = None
      <3>1. k \notin req[s].met \union spoilt /\ k \notin keys
        BY <1>3, <1>5, <2>1
      <3>2. /\ Current[k] = Expected(s, k)
            /\ req[s].gen < gen => Current[k] = None
        BY <2>1, <3>1 DEF WriteInv, Undisturbed
      <3>3. Current'[k] = Current[k]
        BY <1>1, <2>1, <3>1 DEF Changed
      <3>4. Expected(s, k)' = Expected(s, k)
        BY <1>3, <1>4 DEF Expected
      <3>5. ASSUME req'[s].gen < gen'
            PROVE  Current'[k] = None
        <4>1. CASE gen' = gen
          BY <1>3, <1>4, <3>2, <3>3, <3>5, <4>1
        <4>2. CASE gen' # gen
          BY <1>1, <2>1, <4>2 DEF Empty
        <4> QED BY <4>1, <4>2
      <3> QED BY <3>2, <3>3, <3>4, <3>5
    <2>2. ASSUME NEW k \in Keys
          PROVE  /\ Current'[k] = Expected(r, k)'
                 /\ req'[r].gen < gen' => Current'[k] = None
      <3>1. Current'[k] = Expected(r, k)'
        BY <1>1, <1>3, <2>2 DEF Changed, Expected
      <3>2. req'[r].gen < gen' => Current'[k] = None
        BY <1>1, <1>3, <1>6, <2>2 DEF Empty
      <3> QED BY <3>1, <3>2
    <2> QED BY <1>3, <2>1, <2>2 DEF Undisturbed
  <1>9. RowAsFound'
    <2>1. ASSUME NEW s \in InFlight, NEW k \in req'[s].keys \ (req'[s].met \union spoilt' \union lost'),
                 req'[s].at = "writing"
          PROVE  table'[k].val = req'[s].before[k]
      BY <1>3, <1>4, <1>5, <2>1 DEF WriteInv, RowAsFound
    <2>2. ASSUME NEW k \in keys \ (req'[r].met \union spoilt' \union lost')
          PROVE  table'[k].val = req'[r].before[k]
      <3>1. k \in Keys \ (spoilt \union lost)
        BY <1>2, <1>5, <2>2
      <3>2. \A s \in Requests : ~Writing(s, k)
        BY <1>3, <2>2 DEF Writing, InFlight
      <3>3. Current[k] = table[k].val
        BY <3>1, <3>2 DEF WriteInv, RowWillAgree
      <3> QED BY <1>3, <1>5, <3>3
    <2> QED BY <1>3, <2>1, <2>2 DEF RowAsFound
  <1>10. RowWillAgree'
    <2> SUFFICES ASSUME NEW k \in Keys \ (spoilt' \union lost')
                 PROVE  \/ /\ Current'[k] = table'[k].val
                           /\ \A s \in Requests : Writing(s, k)' => req'[s].stamp < table'[k].stamp
                        \/ \E q \in Requests :
                             /\ Writing(q, k)' /\ req'[q].val = Current'[k]
                             /\ req'[q].stamp >= table'[k].stamp
                             /\ \A s \in Requests \ {q} : Writing(s, k)' => req'[s].stamp < req'[q].stamp
      BY DEF RowWillAgree
    <2>1. k \in Keys \ (spoilt \union lost)
      BY <1>5
    <2>2. CASE k \in keys
      <3>1. Writing(r, k)' /\ req'[r].val = Current'[k]
        BY <1>1, <1>3, <2>2 DEF Writing, Changed
      <3>2. req'[r].stamp >= table'[k].stamp
        <4>1. table[k].stamp <= stamp
          BY DEF WriteInv, Paced
        <4>2. table'[k].stamp = table[k].stamp /\ table[k].stamp \in Nat /\ req'[r].stamp = stamp'
          <5>1. table'[k].stamp = table[k].stamp
            BY <1>5
          <5>2. table[k].stamp \in Nat
            BY <1>6
          <5> QED BY <1>3, <5>1, <5>2
        <4> QED BY <1>3, <1>6, <4>1, <4>2
      <3>3. ASSUME NEW s \in Requests \ {r}, Writing(s, k)'
            PROVE  req'[s].stamp < req'[r].stamp
        <4>1. s \in InFlight \ {r} /\ k \in req[s].keys
          BY <1>3, <3>3 DEF Writing, InFlight
        <4>2. req[s].stamp # stamp'
          BY <1>2, <2>2, <4>1 DEF Begin
        <4>3. req[s].stamp <= stamp
          BY <4>1 DEF WriteInv, Paced
        <4> QED BY <1>3, <1>6, <4>2, <4>3
      <3> QED BY <1>2, <3>1, <3>2, <3>3
    <2>3. CASE k \notin keys
      <3>1. Current'[k] = Current[k]
        BY <1>1, <2>3 DEF Changed
      <3>2. \A s \in Requests : Writing(s, k)' <=> Writing(s, k)
        BY <1>2, <1>3, <2>3 DEF Writing, InFlight
      <3>3. ~Writing(r, k)
        BY <1>2 DEF Writing, InFlight
      <3> QED BY <1>3, <1>5, <2>1, <3>1, <3>2, <3>3 DEF WriteInv, RowWillAgree
    <2> QED BY <2>2, <2>3
  <1> QED BY <1>1, <1>7, <1>8, <1>9, <1>10 DEF WriteInv
-----------------------------------------------------------------------------
(* What taking a request back does to the memory.                          *)
LEMMA EntryChanged ==
  ASSUME NEW content \in Content, IsFiniteSet(Present(content)), NEW k \in Keys,
         NEW val \in Values \union {None}
  PROVE  /\ [content EXCEPT ![k] = val] \in Content
         /\ IsFiniteSet(Present([content EXCEPT ![k] = val]))
         /\ \A j \in Keys : [content EXCEPT ![k] = val][j] = IF j = k THEN val ELSE content[j]
  <1>1. Present([content EXCEPT ![k] = val]) \in SUBSET (Present(content) \union {k})
    BY DEF Present, Content
  <1>2. IsFiniteSet(Present(content) \union {k})
    BY FS_AddElement
  <1>3. IsFiniteSet(Present([content EXCEPT ![k] = val]))
    BY <1>1, <1>2, FS_Subset
  <1> QED BY <1>3 DEF Content

Restores(r) ==
  /\ maps' \in [Gens -> Content] /\ gen' \in Gens /\ gen' \in {gen, gen + 1}
  /\ gen' # gen => Current' = Empty /\ store # "settings"
  /\ \A g \in Gens : g > gen' => maps'[g] = Empty
  /\ \A g \in Gens : IsFiniteSet(Present(maps'[g]))
  /\ store # "settings" => \A k \in Fields : \A g \in Gens : maps'[g][k] = None
  /\ \A k \in Keys \ (req[r].met \union spoilt) :
       Current'[k] = IF k \in req[r].keys THEN req[r].before[k] ELSE Current[k]

LEMMA RollbackRestores ==
  ASSUME WriteInv, NEW r \in InFlight, faults < MaxFaults, Rollback(req[r])
  PROVE  Restores(r)
  <1>1. /\ maps \in [Gens -> Content] /\ gen \in Gens /\ gen \in Nat /\ Current \in Content
        /\ req[r] \in Request /\ Gens \subseteq Nat
    BY Types, Limits DEF WriteInv, InFlight, Gens
  <1>2. gen + 1 \in Gens
    <2>1. gen <= ops + faults /\ ops \in 0..MaxOps /\ faults \in 0..MaxFaults
      BY DEF WriteInv, Paced, TypeOK
    <2> QED BY <1>1, <2>1, Limits DEF Gens
  <1>3. /\ \A g \in Gens : g > gen => maps[g] = Empty
        /\ \A g \in Gens : IsFiniteSet(Present(maps[g]))
        /\ IsFiniteSet(Present(req[r].before))
        /\ store # "settings" => \A k \in Fields : \A g \in Gens : maps[g][k] = None
        /\ req[r].gen \in Gens /\ req[r].gen <= gen /\ req[r].before \in Content
    BY <1>1 DEF WriteInv, Paced, Finitely, NoFields, InFlight, Request
  <1>4. \A k \in Keys \ (req[r].met \union spoilt) :
          /\ Current[k] = Expected(r, k)
          /\ req[r].gen < gen => Current[k] = None
    BY DEF WriteInv, Undisturbed
  <1>5. Kind(req[r])
    BY DEF WriteInv, Kinds
  <1>6. ASSUME req[r].kind \in {"add", "update", "remove"}
        PROVE  Restores(r)
    <2>1. PICK k \in Keys : req[r].keys = {k} /\ k \in Entries /\ store # "settings"
                             /\ (req[r].kind = "add" => req[r].before[k] = None)
                             /\ (req[r].kind \in {"add", "update"} => req[r].val # None)
      BY <1>5, <1>6 DEF Kind
    <2>2. EntryOf(req[r]) = k /\ k \notin Fields
      BY <2>1, Limits DEF EntryOf
    (* One entry of one map changes, and the map may be dropped.            *)
    <2>3. ASSUME NEW m \in Gens, NEW v \in Values \union {None}, m <= gen, v = req[r].before[k],
                 maps' = [maps EXCEPT ![m] = [maps[m] EXCEPT ![k] = v]],
                 m = gen \/ (m = req[r].gen /\ req[r].kind # "remove"),
                 \/ gen' = gen
                 \/ gen' = gen + 1 /\ maps'[m] = Empty
          PROVE  Restores(r)
      <3>1. /\ maps'[m] \in Content /\ IsFiniteSet(Present(maps'[m]))
            /\ \A j \in Keys : maps'[m][j] = IF j = k THEN v ELSE maps[m][j]
        <4>1. maps'[m] = [maps[m] EXCEPT ![k] = v]
          BY <1>1, <2>3
        <4>2. maps[m] \in Content /\ IsFiniteSet(Present(maps[m]))
          BY <1>1, <1>3, <2>3
        <4> QED BY <2>1, <2>3, <4>1, <4>2, EntryChanged
      <3>2. \A g \in Gens \ {m} : maps'[g] = maps[g]
        BY <1>1, <2>3
      <3>3. maps' \in [Gens -> Content] /\ \A g \in Gens : IsFiniteSet(Present(maps'[g]))
        BY <1>1, <1>3, <2>3, <3>1, <3>2
      <3>4. gen' \in {gen, gen + 1} /\ gen' \in Gens
        BY <1>1, <1>2, <2>3
      <3>5. ASSUME NEW g \in Gens, g > gen'
            PROVE  maps'[g] = Empty
        <4>1. g \in Nat /\ m \in Nat /\ g > gen /\ g # m
          BY <1>1, <2>3, <3>4, <3>5
        <4> QED BY <1>3, <3>2, <4>1
      <3>6. gen' # gen => Current' = Empty
        <4>1. gen + 1 \in Gens \ {m} /\ gen + 1 > gen
          BY <1>1, <1>2, <2>3
        <4>2. maps'[gen + 1] = Empty
          BY <1>3, <3>2, <4>1
        <4> QED BY <3>4, <4>2 DEF Current
      <3>7. \A j \in Fields : \A g \in Gens : maps'[g][j] = None
        BY <1>3, <2>1, <2>2, <3>1, <3>2 DEF Keys
      <3>8. ASSUME NEW j \in Keys \ (req[r].met \union spoilt)
            PROVE  Current'[j] = IF j \in req[r].keys THEN req[r].before[j] ELSE Current[j]
        <4>1. CASE m = gen
          <5>1. Current'[j] = maps'[gen][j]
            <6>1. CASE gen' = gen
              BY <6>1 DEF Current
            <6>2. CASE gen' # gen
              BY <2>3, <3>6, <4>1, <6>2
            <6> QED BY <6>1, <6>2
          <5> QED BY <2>1, <2>3, <3>1, <4>1, <5>1 DEF Current
        <4>2. CASE m # gen
          <5>1. req[r].gen < gen /\ req[r].kind \in {"add", "update"}
            BY <1>1, <1>6, <2>3, <4>2
          <5>2. Current[j] = None /\ Current[j] = Expected(r, j)
            BY <1>4, <3>8, <5>1
          <5>3. j \notin req[r].keys
            BY <2>1, <5>1, <5>2 DEF Expected
          <5>4. Current'[j] = None
            <6>1. CASE gen' = gen
              BY <1>1, <3>2, <4>2, <5>2, <6>1 DEF Current
            <6>2. CASE gen' # gen
              BY <3>6, <3>8, <6>2 DEF Empty
            <6> QED BY <6>1, <6>2
          <5> QED BY <5>2, <5>3, <5>4
        <4> QED BY <4>1, <4>2
      <3> QED BY <2>1, <3>3, <3>4, <3>5, <3>6, <3>7, <3>8 DEF Restores
    <2>4. CASE RollbackAdd(req[r]) /\ req[r].kind = "add"
      <3>1. None \in Values \union {None} /\ req[r].before[k] = None
        BY <2>1, <2>4
      <3>2. maps' = [maps EXCEPT ![req[r].gen] = [maps[req[r].gen] EXCEPT ![k] = None]]
        BY <2>2, <2>4 DEF RollbackAdd
      <3>3. gen' = gen \/ (gen' = gen + 1 /\ maps'[req[r].gen] = Empty)
        <4>1. maps'[req[r].gen] = [maps[req[r].gen] EXCEPT ![k] = None]
          BY <1>1, <1>3, <3>2
        <4>2. gen' = IF [maps[req[r].gen] EXCEPT ![k] = None] = Empty /\ Current # Empty
                     THEN gen + 1 ELSE gen
          BY <2>2, <2>4 DEF RollbackAdd
        <4> QED BY <4>1, <4>2
      <3> QED BY <1>3, <2>3, <2>4, <3>1, <3>2, <3>3
    <2>5. CASE RollbackUpdate(req[r]) /\ req[r].kind = "update"
      <3>1. req[r].before[k] \in Values \union {None}
        BY <1>3 DEF Content
      <3>2. maps' = [maps EXCEPT ![req[r].gen] = [maps[req[r].gen] EXCEPT ![k] = req[r].before[k]]]
        BY <1>1, <1>3, <2>2, <2>5 DEF RollbackUpdate
      <3> QED BY <1>3, <2>3, <2>5, <3>1, <3>2 DEF RollbackUpdate
    <2>6. CASE RollbackRemove(req[r]) /\ req[r].kind = "remove"
      <3>1. req[r].before[k] \in Values \union {None}
        BY <1>3 DEF Content
      <3>2. maps' = [maps EXCEPT ![gen] = [maps[gen] EXCEPT ![k] = req[r].before[k]]]
        BY <1>1, <1>3, <2>2, <2>6 DEF RollbackRemove
      <3>3. gen' = gen /\ gen <= gen
        BY <1>1, <2>6 DEF RollbackRemove
      <3>4. gen = gen \/ (gen = req[r].gen /\ req[r].kind # "remove")
        OBVIOUS
      <3> DEFINE v == req[r].before[k]
      <3>5. v \in Values \union {None} /\ v = req[r].before[k]
            /\ maps' = [maps EXCEPT ![gen] = [maps[gen] EXCEPT ![k] = v]]
        BY <3>1, <3>2
      <3> HIDE DEF v
      <3> QED BY <1>1, <2>3, <3>3, <3>4, <3>5
    <2> QED BY <1>6, <2>4, <2>5, <2>6 DEF Rollback
  <1>7. ASSUME req[r].kind \in {"set", "clear"}
        PROVE  Restores(r)
    <2>1. maps' = [maps EXCEPT ![gen] = req[r].before] /\ gen' = gen /\ store = "settings"
      BY <1>5, <1>7 DEF Rollback, RollbackSettings, Kind
    <2>2. \A g \in Gens : maps'[g] = IF g = gen THEN req[r].before ELSE maps[g]
      BY <1>1, <2>1
    <2>3. Current' = req[r].before
      BY <1>1, <2>1, <2>2 DEF Current
    <2>4. maps' \in [Gens -> Content] /\ \A g \in Gens : IsFiniteSet(Present(maps'[g]))
      BY <1>1, <1>3, <2>1, <2>2
    <2>5. \A g \in Gens : g > gen' => maps'[g] = Empty
      BY <1>1, <1>3, <2>1, <2>2
    <2>6. \A k \in Keys \ (req[r].met \union spoilt) :
            Current'[k] = IF k \in req[r].keys THEN req[r].before[k] ELSE Current[k]
      BY <1>4, <2>3 DEF Expected
    <2> QED BY <1>1, <2>1, <2>4, <2>5, <2>6 DEF Restores
  <1> QED BY <1>5, <1>6, <1>7 DEF Kind
-----------------------------------------------------------------------------
(* A request leaves: what the others find.                                 *)
LEMMA FailsKeeps ==
  ASSUME WriteInv, NEW r \in Requests, Fails(r)
  PROVE  WriteInv'
  <1>1. /\ r \in InFlight /\ faults < MaxFaults /\ Rollback(req[r])
        /\ req' = [req EXCEPT ![r] = Idle] /\ spoilt' = spoilt \union req[r].met
        /\ UNCHANGED <<store, table, stamp, ops, restarts>> /\ faults' = faults + 1
        /\ lost' = IF req[r].at = "landed" THEN lost \union req[r].keys ELSE lost
        /\ restored' \in {restored, restored + 1}
    BY DEF Fails
  <1>2. /\ maps \in [Gens -> Content] /\ gen \in Gens /\ gen \in Nat
        /\ req \in [Requests -> Request] /\ Gens \subseteq Nat
        /\ ops \in Nat /\ faults \in Nat /\ restored \in Nat
    BY Types, Limits DEF WriteInv, Gens
  <1>3. Restores(r)
    BY <1>1, RollbackRestores
  <1>4. /\ req'[r] = Idle /\ \A s \in Requests \ {r} : req'[s] = req[s]
        /\ InFlight' = InFlight \ {r} /\ (Testing' => Testing)
    <2>1. req'[r] = Idle /\ \A s \in Requests \ {r} : req'[s] = req[s]
      BY <1>1, <1>2
    <2>2. Idle.at = "idle"
      BY DEF Idle
    <2> QED BY <2>1, <2>2 DEF InFlight, Testing
  <1>5. \A s \in InFlight' : s \in Requests \ {r} /\ s \in InFlight /\ req'[s] = req[s]
                             /\ req[r].keys \subseteq req[s].met /\ req[s].keys \subseteq req[r].met
    BY <1>1, <1>4 DEF WriteInv, Met, InFlight
  <1>6. TypeOK'
    <2>1. Idle \in Request
      BY EmptyIsFinite, Limits DEF Idle, Request, Gens
    <2>2. req' \in [Requests -> Request]
      BY <1>1, <1>2, <2>1
    <2>3. \A s \in Requests : req'[s].kind \in {"update", "remove"} =>
            \A k \in req'[s].keys : req'[s].before[k] # None
      BY <1>4 DEF WriteInv, TypeOK, Idle
    <2>4. restored' \in 0..MaxFaults
      BY <1>1, <1>2, Limits DEF WriteInv, Paced, TypeOK
    <2>5. faults' \in 0..MaxFaults
      BY <1>1, <1>2, Limits
    <2>6. spoilt' \subseteq Keys /\ lost' \subseteq Keys
      BY <1>1, <1>2 DEF Request, WriteInv, TypeOK
    <2>7. retested' \in BOOLEAN
      BY DEF Fails
    <2>8. maps' \in [Gens -> Content] /\ gen' \in Gens /\ (store = "settings" => gen' = gen)
      BY <1>3 DEF Restores
    <2> QED BY <1>1, <2>2, <2>3, <2>4, <2>5, <2>6, <2>7, <2>8 DEF TypeOK, Request, WriteInv
  <1>7. Paced'
    <2>1. gen' <= ops' + faults' /\ restored' <= faults' /\ stamp' <= ops'
      BY <1>1, <1>2, <1>3 DEF WriteInv, Paced, Restores
    <2>2. \A s \in InFlight' : req'[s].stamp <= stamp' /\ req'[s].gen <= gen'
      <3>1. \A s \in InFlight' : req[s].gen \in Nat /\ req[s].gen <= gen /\ req[s].stamp <= stamp
        BY <1>2, <1>5 DEF WriteInv, Paced, Request
      <3>2. gen' \in {gen, gen + 1} /\ gen' \in Nat
        BY <1>2, <1>3 DEF Restores
      <3> QED BY <1>1, <1>2, <1>5, <3>1, <3>2
    <2> QED BY <1>1, <1>3, <2>1, <2>2 DEF WriteInv, Paced, Restores
  <1>8. Kinds'
    <2>1. ASSUME NEW s \in InFlight'
          PROVE  Kind(req[s])'
      BY <1>1, <1>5, <2>1 DEF WriteInv, Kinds, Kind
    <2> QED BY <1>1, <1>4, <2>1 DEF WriteInv, Kinds
  <1>9. NoFields'
    BY <1>1, <1>3 DEF WriteInv, NoFields, Restores
  <1>10. Finitely'
    <2>1. \A s \in Requests : IsFiniteSet(Present(req'[s].before))
      BY <1>4, EmptyIsFinite DEF WriteInv, Finitely, Idle
    <2> QED BY <1>1, <1>3, <2>1 DEF WriteInv, Finitely, Restores, Present
  <1>11. Met'
    BY <1>5 DEF WriteInv, Met
  <1>12. ASSUME NEW k \in Keys, k \notin spoilt', k \notin req[r].keys
         PROVE  Current'[k] = Current[k]
    BY <1>1, <1>3, <1>12 DEF Restores
  <1>13. Undisturbed'
    <2>1. ASSUME NEW s \in InFlight', NEW k \in Keys \ (req'[s].met \union spoilt')
          PROVE  /\ Current'[k] = Expected(s, k)'
                 /\ req'[s].gen < gen' => Current'[k] = None
      <3>1. k \notin req[s].met \union spoilt /\ k \notin req[r].keys
        BY <1>1, <1>5, <2>1
      <3>2. /\ Current[k] = Expected(s, k)
            /\ req[s].gen < gen => Current[k] = None
        BY <1>5, <2>1, <3>1 DEF WriteInv, Undisturbed
      <3>3. Current'[k] = Current[k]
        BY <1>12, <2>1, <3>1
      <3>4. Expected(s, k)' = Expected(s, k)
        BY <1>5, <2>1 DEF Expected
      <3>5. ASSUME req'[s].gen < gen'
            PROVE  Current'[k] = None
        <4>1. CASE gen' = gen
          BY <1>5, <2>1, <3>2, <3>3, <3>5, <4>1
        <4>2. CASE gen' # gen
          BY <1>3, <2>1, <4>2 DEF Restores, Empty
        <4> QED BY <4>1, <4>2
      <3> QED BY <3>2, <3>3, <3>4, <3>5
    <2> QED BY <2>1 DEF Undisturbed
  <1>14. RowAsFound'
    BY <1>1, <1>5 DEF WriteInv, RowAsFound
  <1>15. RowWillAgree'
    <2> SUFFICES ASSUME NEW k \in Keys \ (spoilt' \union lost')
                 PROVE  \/ /\ Current'[k] = table'[k].val
                           /\ \A s \in Requests : Writing(s, k)' => req'[s].stamp < table'[k].stamp
                        \/ \E q \in Requests :
                             /\ Writing(q, k)' /\ req'[q].val = Current'[k]
                             /\ req'[q].stamp >= table'[k].stamp
                             /\ \A s \in Requests \ {q} : Writing(s, k)' => req'[s].stamp < req'[q].stamp
      BY DEF RowWillAgree
    <2>1. k \in Keys \ (spoilt \union lost) /\ k \notin req[r].met
      BY <1>1
    <2>2. ~Writing(r, k)'
      BY <1>4 DEF Writing, Idle
    <2>3. \A s \in Requests \ {r} : Writing(s, k)' <=> Writing(s, k)
      BY <1>4 DEF Writing
    <2>4. CASE k \in req[r].keys
      <3>1. req[r].at = "writing"
        BY <1>1, <2>4 DEF InFlight
      <3>2. table[k].val = req[r].before[k]
        BY <1>1, <2>1, <2>4, <3>1 DEF WriteInv, RowAsFound
      <3>3. Current'[k] = req[r].before[k]
        BY <1>3, <2>1, <2>4 DEF Restores
      <3>4. \A s \in Requests \ {r} : ~Writing(s, k)
        BY <1>1, <2>1 DEF Writing, InFlight, WriteInv, Met
      <3> QED BY <1>1, <2>2, <2>3, <3>2, <3>3, <3>4
    <2>5. CASE k \notin req[r].keys
      <3>1. Current'[k] = Current[k]
        BY <1>12, <2>5
      <3>2. ~Writing(r, k)
        BY <2>5 DEF Writing
      <3> QED BY <1>1, <1>4, <2>1, <2>2, <2>3, <3>1, <3>2 DEF WriteInv, RowWillAgree
    <2> QED BY <2>4, <2>5
  <1> QED BY <1>6, <1>7, <1>8, <1>9, <1>10, <1>11, <1>13, <1>14, <1>15 DEF WriteInv

LEMMA LandsKeeps ==
  ASSUME WriteInv, NEW r \in Requests, Lands(r)
  PROVE  WriteInv'
  <1> DEFINE row == [stamp |-> req[r].stamp, val |-> req[r].val]
             wins(k) == k \in req[r].keys /\ req[r].stamp >= table[k].stamp
  <1>1. /\ req[r].at = "writing" /\ r \in InFlight
        /\ table' = [k \in Keys |-> IF wins(k) THEN row ELSE table[k]]
        /\ req' = [req EXCEPT ![r].at = "landed"]
        /\ UNCHANGED <<store, maps, gen, stamp, spoilt, lost, restored, retested, ops, faults, restarts>>
    BY DEF Lands, InFlight, memory, history, bounds
  <1>2. /\ req \in [Requests -> Request] /\ stamp \in Nat
        /\ \A k \in Keys : table[k].stamp \in Nat
        /\ \A s \in Requests : req[s].stamp \in Nat
    BY Types DEF WriteInv
  <1>3. /\ \A k \in Keys : table'[k].stamp = (IF wins(k) THEN req[r].stamp ELSE table[k].stamp)
        /\ \A k \in Keys : table'[k].val = (IF wins(k) THEN req[r].val ELSE table[k].val)
    BY <1>1
  <1>4. \A k \in Keys : k \notin req[r].keys => table'[k] = table[k]
    BY <1>1
  <1> HIDE DEF wins
  <1>5. ASSUME NEW s \in Requests
        PROVE  /\ req'[s].kind = req[s].kind /\ req'[s].keys = req[s].keys /\ req'[s].val = req[s].val
               /\ req'[s].gen = req[s].gen /\ req'[s].before = req[s].before
               /\ req'[s].stamp = req[s].stamp /\ req'[s].met = req[s].met
               /\ req'[s].at = IF s = r THEN "landed" ELSE req[s].at
    <2>1. req[s] \in Request
      BY <1>2
    <2> QED BY <1>1, <1>2, <2>1 DEF Request
  <1>6. /\ InFlight' = InFlight /\ Testing' = Testing /\ Current' = Current
    BY <1>1, <1>5 DEF InFlight, Testing, Current
  <1>7. TypeOK'
    <2>1. req' \in [Requests -> Request]
      BY <1>1, <1>2 DEF Request
    <2>2. table' \in [Keys -> [stamp : 0..MaxOps, val : Values \union {None}]]
      <3>1. row \in [stamp : 0..MaxOps, val : Values \union {None}]
        BY <1>2 DEF Request
      <3> HIDE DEF row
      <3> QED BY <1>1, <3>1 DEF WriteInv, TypeOK
    <2>3. \A s \in Requests : req'[s].kind \in {"update", "remove"} =>
            \A k \in req'[s].keys : req'[s].before[k] # None
      BY <1>5 DEF WriteInv, TypeOK
    <2> QED BY <1>1, <2>1, <2>2, <2>3 DEF TypeOK, Request, WriteInv
  <1>8. Paced'
    <2>1. \A k \in Keys : table'[k].stamp <= stamp
      BY <1>1, <1>3 DEF WriteInv, Paced
    <2>2. \A s \in InFlight : req'[s].stamp <= stamp /\ req'[s].gen <= gen
      BY <1>5 DEF WriteInv, Paced, InFlight
    <2> QED BY <1>1, <1>6, <2>1, <2>2 DEF WriteInv, Paced
  <1>9. Kinds'
    <2>1. ASSUME NEW s \in InFlight
          PROVE  Kind(req[s])'
      <3>1. Kind(req[s]) /\ s \in Requests
        BY <2>1 DEF WriteInv, Kinds, InFlight
      <3> QED BY <1>1, <1>5, <3>1 DEF Kind
    <2> QED BY <1>1, <1>6, <2>1 DEF WriteInv, Kinds
  <1>10. NoFields'
    <2>1. Kind(req[r])
      BY <1>1 DEF WriteInv, Kinds
    <2>2. store # "settings" => \A k \in Fields : k \notin req[r].keys
      BY <2>1, Limits DEF Kind
    <2> QED BY <1>1, <1>4, <2>2 DEF WriteInv, NoFields, Keys
  <1>11. Finitely'
    <2>1. IsFiniteSet(req[r].keys)
      <3>1. req[r].keys = {"slack", "test"} \/ \E k : req[r].keys = {k}
        BY <1>1 DEF WriteInv, Kinds, Kind
      <3>2. IsFiniteSet({"slack"} \union {"test"})
        BY FS_Singleton, FS_Union
      <3>3. {"slack", "test"} = {"slack"} \union {"test"}
        OBVIOUS
      <3> QED BY <3>1, <3>2, <3>3, FS_Singleton
    <2>2. {k \in Keys : table'[k].val # None} \in SUBSET (req[r].keys \union {k \in Keys : table[k].val # None})
      BY <1>4
    <2>3. IsFiniteSet({k \in Keys : table'[k].val # None})
      BY <2>1, <2>2, FS_Union, FS_Subset DEF WriteInv, Finitely
    <2> QED BY <1>1, <1>5, <2>3 DEF WriteInv, Finitely, Present
  <1>12. Met' /\ Undisturbed'
    <2>1. \A s \in InFlight : s \in Requests
      BY DEF InFlight
    <2>2. Met'
      BY <1>5, <1>6, <2>1 DEF WriteInv, Met
    <2>3. Undisturbed'
      BY <1>1, <1>5, <1>6, <2>1 DEF WriteInv, Undisturbed, Expected
    <2> QED BY <2>2, <2>3
  <1>13. RowAsFound'
    <2>1. ASSUME NEW s \in InFlight, NEW k \in req[s].keys \ (req[s].met \union spoilt \union lost),
                 req'[s].at = "writing"
          PROVE  table'[k].val = req[s].before[k]
      <3>1. s \in Requests /\ s # r /\ req[s].at = "writing" /\ k \in Keys
        BY <1>2, <1>5, <2>1 DEF InFlight, Request
      <3>2. k \notin req[r].keys
        BY <1>1, <2>1, <3>1 DEF WriteInv, Met
      <3> QED BY <1>4, <2>1, <3>1, <3>2 DEF WriteInv, RowAsFound
    <2>2. \A s \in InFlight : s \in Requests
      BY DEF InFlight
    <2> QED BY <1>1, <1>5, <1>6, <2>1, <2>2 DEF RowAsFound
  <1>14. RowWillAgree'
    <2> SUFFICES ASSUME NEW k \in Keys \ (spoilt' \union lost')
                 PROVE  \/ /\ Current'[k] = table'[k].val
                           /\ \A s \in Requests : Writing(s, k)' => req'[s].stamp < table'[k].stamp
                        \/ \E q \in Requests :
                             /\ Writing(q, k)' /\ req'[q].val = Current'[k]
                             /\ req'[q].stamp >= table'[k].stamp
                             /\ \A s \in Requests \ {q} : Writing(s, k)' => req'[s].stamp < req'[q].stamp
      BY DEF RowWillAgree
    <2>1. k \in Keys \ (spoilt \union lost)
      BY <1>1
    <2>2. /\ ~Writing(r, k)'
          /\ \A s \in Requests \ {r} : (Writing(s, k)' <=> Writing(s, k)) /\ req'[s].stamp = req[s].stamp
                                       /\ req'[s].val = req[s].val
      BY <1>5 DEF Writing
    <2>3. CASE /\ Current[k] = table[k].val
               /\ \A s \in Requests : Writing(s, k) => req[s].stamp < table[k].stamp
      <3>1. ~wins(k)
        BY <1>1, <1>2, <2>3 DEF wins, Writing
      <3> QED BY <1>3, <1>6, <2>2, <2>3, <3>1
    <2>4. ASSUME NEW q \in Requests, Writing(q, k), req[q].val = Current[k],
                 req[q].stamp >= table[k].stamp,
                 \A s \in Requests \ {q} : Writing(s, k) => req[s].stamp < req[q].stamp
          PROVE  \/ /\ Current'[k] = table'[k].val
                    /\ \A s \in Requests : Writing(s, k)' => req'[s].stamp < table'[k].stamp
                 \/ \E t \in Requests :
                      /\ Writing(t, k)' /\ req'[t].val = Current'[k]
                      /\ req'[t].stamp >= table'[k].stamp
                      /\ \A s \in Requests \ {t} : Writing(s, k)' => req'[s].stamp < req'[t].stamp
      <3>1. CASE q = r
        <4>1. wins(k)
          BY <2>4, <3>1 DEF wins, Writing
        <4>2. table'[k].stamp = req[q].stamp /\ table'[k].val = req[q].val
          BY <1>3, <3>1, <4>1
        <4> QED BY <1>6, <2>2, <2>4, <3>1, <4>2
      <3>2. CASE q # r
        <4>1. Writing(r, k) => req[r].stamp < req[q].stamp
          BY <2>4, <3>2
        <4>2. wins(k) => Writing(r, k)
          BY <1>1 DEF wins, Writing
        <4>3. req[q].stamp >= table'[k].stamp
          BY <1>2, <1>3, <2>4, <4>1, <4>2
        <4>4. Writing(q, k)' /\ req'[q].val = Current'[k] /\ req'[q].stamp >= table'[k].stamp
          BY <1>6, <2>2, <2>4, <3>2, <4>3
        <4>5. \A s \in Requests \ {q} : Writing(s, k)' => req'[s].stamp < req'[q].stamp
          BY <2>2, <2>4, <3>2
        <4> QED BY <4>4, <4>5
      <3> QED BY <3>1, <3>2
    <2> QED BY <2>1, <2>3, <2>4 DEF WriteInv, RowWillAgree
  <1> QED BY <1>7, <1>8, <1>9, <1>10, <1>11, <1>12, <1>13, <1>14 DEF WriteInv
LEMMA ReturnsKeeps ==
  ASSUME WriteInv, NEW r \in Requests, Returns(r)
  PROVE  WriteInv'
  <1>1. /\ req[r].at = "landed" /\ r \in InFlight
        /\ req' = [req EXCEPT ![r] = Idle]
        /\ UNCHANGED <<store, maps, gen, table, stamp, spoilt, lost, restored, retested, ops, faults,
                       restarts>>
    BY DEF Returns, InFlight, memory, history, bounds
  <1>2. req \in [Requests -> Request]
    BY Types DEF WriteInv
  <1>3. req'[r] = Idle /\ \A s \in Requests \ {r} : req'[s] = req[s]
    BY <1>1, <1>2
  <1>4. /\ InFlight' = InFlight \ {r} /\ (Testing' => Testing) /\ Current' = Current
        /\ \A s \in InFlight' : s \in InFlight /\ s \in Requests /\ req'[s] = req[s]
    <2>1. Idle.at = "idle"
      BY DEF Idle
    <2> QED BY <1>1, <1>3, <2>1 DEF InFlight, Testing, Current
  <1>5. TypeOK'
    <2>1. Idle \in Request
      BY EmptyIsFinite, Limits DEF Idle, Request, Gens
    <2>2. req' \in [Requests -> Request]
      BY <1>1, <1>2, <2>1
    <2>3. \A s \in Requests : req'[s].kind \in {"update", "remove"} =>
            \A k \in req'[s].keys : req'[s].before[k] # None
      BY <1>3 DEF WriteInv, TypeOK, Idle
    <2> QED BY <1>1, <2>2, <2>3 DEF TypeOK, Request, WriteInv
  <1>6. Paced' /\ NoFields'
    BY <1>1, <1>4 DEF WriteInv, Paced, NoFields
  <1>7. Kinds'
    <2>1. ASSUME NEW s \in InFlight'
          PROVE  Kind(req[s])'
      BY <1>1, <1>4, <2>1 DEF WriteInv, Kinds, Kind
    <2> QED BY <1>1, <1>4, <2>1 DEF WriteInv, Kinds
  <1>8. Finitely'
    <2>1. \A s \in Requests : IsFiniteSet(Present(req'[s].before))
      BY <1>3, EmptyIsFinite DEF WriteInv, Finitely, Idle
    <2> QED BY <1>1, <2>1 DEF WriteInv, Finitely, Present
  <1>9. Met' /\ Undisturbed' /\ RowAsFound'
    BY <1>1, <1>4 DEF WriteInv, Met, Undisturbed, Expected, RowAsFound
  <1>10. RowWillAgree'
    <2>1. \A s \in Requests, k \in Keys : (Writing(s, k)' <=> Writing(s, k)) /\ (s # r => req'[s] = req[s])
                                          /\ ~Writing(r, k)
      BY <1>1, <1>3 DEF Writing, Idle
    <2> QED BY <1>1, <1>4, <2>1 DEF WriteInv, RowWillAgree
  <1> QED BY <1>5, <1>6, <1>7, <1>8, <1>9, <1>10 DEF WriteInv

LEMMA TestKeeps ==
  ASSUME WriteInv, NEW r \in Requests, Test(r)
  PROVE  WriteInv'
  <1>1. /\ store = "settings" /\ req[r].at = "idle" /\ r \notin InFlight
        /\ req' = [req EXCEPT ![r].at = "testing"]
        /\ UNCHANGED <<store, maps, gen, table, stamp, spoilt, lost, restored, retested, ops, faults,
                       restarts>>
    BY DEF Test, InFlight, memory, history, bounds
  <1>2. req \in [Requests -> Request]
    BY Types DEF WriteInv
  <1>3. /\ \A s \in Requests \ {r} : req'[s] = req[s]
        /\ req'[r].at = "testing" /\ req'[r].before = req[r].before /\ req'[r].keys = req[r].keys
        /\ req'[r].kind = req[r].kind
    <2>1. req[r] \in Request
      BY <1>2
    <2> QED BY <1>1, <1>2, <2>1 DEF Request
  <1>4. /\ InFlight' = InFlight /\ Current' = Current
        /\ \A s \in InFlight : s \in Requests /\ s # r /\ req'[s] = req[s]
    BY <1>1, <1>3 DEF InFlight, Current
  <1>5. TypeOK'
    <2>1. req' \in [Requests -> Request]
      BY <1>1, <1>2 DEF Request
    <2>2. \A s \in Requests : req'[s].kind \in {"update", "remove"} =>
            \A k \in req'[s].keys : req'[s].before[k] # None
      BY <1>3 DEF WriteInv, TypeOK
    <2> QED BY <1>1, <2>1, <2>2 DEF TypeOK, Request, WriteInv
  <1>6. Paced' /\ NoFields'
    BY <1>1, <1>4 DEF WriteInv, Paced, NoFields
  <1>7. Kinds'
    <2>1. ASSUME NEW s \in InFlight'
          PROVE  Kind(req[s])'
      BY <1>1, <1>4, <2>1 DEF WriteInv, Kinds, Kind
    <2> QED BY <1>1, <1>4, <2>1 DEF WriteInv, Kinds
  <1>8. Finitely'
    <2>1. \A s \in Requests : IsFiniteSet(Present(req'[s].before))
      BY <1>3 DEF WriteInv, Finitely
    <2> QED BY <1>1, <2>1 DEF WriteInv, Finitely, Present
  <1>9. Met' /\ Undisturbed' /\ RowAsFound'
    BY <1>1, <1>4 DEF WriteInv, Met, Undisturbed, Expected, RowAsFound
  <1>10. RowWillAgree'
    <2>1. \A s \in Requests, k \in Keys : (Writing(s, k)' <=> Writing(s, k)) /\ (s # r => req'[s] = req[s])
                                          /\ ~Writing(r, k)
      BY <1>1, <1>3 DEF Writing
    <2> QED BY <1>1, <1>4, <2>1 DEF WriteInv, RowWillAgree
  <1> QED BY <1>5, <1>6, <1>7, <1>8, <1>9, <1>10 DEF WriteInv

(* What a start loads: rows there are, no more than the limit of entries.  *)
LEMMA RestartLoads ==
  ASSUME WriteInv, Restart
  PROVE  \E kept \in SUBSET {k \in Keys : table[k].val # None} :
           /\ maps' = [g \in Gens |-> [k \in Keys |-> IF g = 0 /\ k \in kept THEN table[k].val ELSE None]]
           /\ lost' = {k \in Keys : table[k].val # None} \ kept
           /\ store # "settings" => Cardinality(kept) <= MaxPerTenant
           /\ store = "settings" => lost' = {}
  <1> DEFINE rows == {k \in Keys : table[k].val # None}
  <1>1. IsFiniteSet(rows)
    BY DEF WriteInv, Finitely
  <1>2. PICK kept \in IF store = "settings" THEN LoadedSettings(rows) ELSE LoadedEntries(rows) :
          /\ maps' = [g \in Gens |-> [k \in Keys |-> IF g = 0 /\ k \in kept THEN table[k].val ELSE None]]
          /\ lost' = rows \ kept
    BY DEF Restart
  <1> HIDE DEF rows
  <1>3. CASE store = "settings"
    <2>1. kept = rows
      BY <1>2, <1>3 DEF LoadedSettings
    <2> QED BY <1>2, <1>3, <2>1 DEF rows
  <1>4. CASE store # "settings"
    <2>1. kept \in SUBSET rows /\ (kept = rows \/ Cardinality(kept) = MaxPerTenant)
          /\ (kept = rows => Cardinality(kept) <= MaxPerTenant \/ Cardinality(kept) = MaxPerTenant)
      BY <1>2, <1>4 DEF LoadedEntries
    <2>2. Cardinality(kept) <= MaxPerTenant
      BY <2>1, Limits
    <2> QED BY <1>2, <1>4, <2>1, <2>2 DEF rows
  <1> QED BY <1>3, <1>4

LEMMA RestartKeeps ==
  ASSUME WriteInv, Restart
  PROVE  WriteInv'
  <1>1. PICK kept \in SUBSET {k \in Keys : table[k].val # None} :
          /\ maps' = [g \in Gens |-> [k \in Keys |-> IF g = 0 /\ k \in kept THEN table[k].val ELSE None]]
          /\ lost' = {k \in Keys : table[k].val # None} \ kept
    BY RestartLoads
  <1>2. /\ gen' = 0 /\ spoilt' = {} /\ restored' = 0 /\ req' = [r \in Requests |-> Idle]
        /\ UNCHANGED <<store, table, stamp, ops, faults>>
        /\ restarts < MaxRestarts /\ restarts' = restarts + 1 /\ retested' \in BOOLEAN
    BY DEF Restart
  <1>3. /\ table \in [Keys -> [stamp : 0..MaxOps, val : Values \union {None}]] /\ 0 \in Gens
        /\ ops \in Nat /\ faults \in Nat
    BY Types, Limits DEF WriteInv, Gens
  <1>4. \A r \in Requests : req'[r] = Idle
    BY <1>2
  <1>5. InFlight' = {} /\ ~Testing'
    BY <1>4 DEF InFlight, Testing, Idle
  <1>6. \A g \in Gens, k \in Keys : maps'[g][k] = IF g = 0 /\ k \in kept THEN table[k].val ELSE None
    BY <1>1
  <1>7. maps' \in [Gens -> Content]
    BY <1>1, <1>3 DEF Content
  <1>8. TypeOK'
    <2>1. Idle \in Request
      BY EmptyIsFinite, Limits DEF Idle, Request, Gens
    <2>2. req' \in [Requests -> Request]
      BY <1>2, <2>1
    <2>3. \A s \in Requests : req'[s].kind \in {"update", "remove"} =>
            \A k \in req'[s].keys : req'[s].before[k] # None
      BY <1>4 DEF Idle
    <2>4. restarts' \in 0..MaxRestarts /\ 0 \in 0..MaxFaults
      BY <1>2, Limits DEF WriteInv, TypeOK
    <2> QED BY <1>1, <1>2, <1>3, <1>7, <2>2, <2>3, <2>4 DEF TypeOK, Request, WriteInv
  <1>9. Paced'
    <2>1. ASSUME NEW g \in Gens, g > 0
          PROVE  maps'[g] = Empty
      BY <1>1, <2>1 DEF Empty
    <2> QED BY <1>2, <1>3, <1>5, <2>1 DEF WriteInv, Paced
  <1>10. Kinds' /\ Met' /\ Undisturbed' /\ RowAsFound'
    BY <1>5 DEF Kinds, Met, Undisturbed, RowAsFound
  <1>11. NoFields'
    BY <1>2, <1>6 DEF WriteInv, NoFields, Keys
  <1>12. Finitely'
    <2>1. IsFiniteSet({k \in Keys : table[k].val # None})
      BY DEF WriteInv, Finitely
    <2>2. \A g \in Gens : Present(maps'[g]) \in SUBSET {k \in Keys : table[k].val # None}
      BY <1>6 DEF Present
    <2>3. \A g \in Gens : IsFiniteSet(Present(maps'[g]))
      BY <2>1, <2>2, FS_Subset
    <2>4. \A s \in Requests : IsFiniteSet(Present(req'[s].before))
      BY <1>4, EmptyIsFinite DEF Idle
    <2> QED BY <1>2, <2>1, <2>3, <2>4 DEF Finitely, Present
  <1>13. RowWillAgree'
    <2>1. \A k \in Keys, s \in Requests : ~Writing(s, k)'
      BY <1>4 DEF Writing, Idle
    <2>2. \A k \in Keys \ lost' : Current'[k] = table'[k].val
      BY <1>1, <1>2, <1>3, <1>6 DEF Current
    <2> QED BY <2>1, <2>2 DEF RowWillAgree
  <1> QED BY <1>8, <1>9, <1>10, <1>11, <1>12, <1>13 DEF WriteInv

-----------------------------------------------------------------------------
(* Every handler that writes begins a request of its kind.                 *)
LEMMA OneEntry ==
  ASSUME TypeOK, NEW k \in Keys, NEW v
  PROVE  [Current EXCEPT ![k] = v] = Changed({k}, v)
  BY Types DEF Changed, Content

Handles(r, k, v) ==
  \/ CreateRule(r, k, v) \/ ChangeRule(r, k, v) \/ CreateWatch(r, k, v)
  \/ DeleteRule(r, k) \/ DeleteWatch(r, k)

SetsField(r, v) ==
  SaveSlack(r, v) \/ SaveOther(r, v) \/ StampOnce(r, v) \/ TestAnswers(r, v)

LEMMA NotUnderWay ==
  ASSUME NEW r \in Requests, req[r].at \in {"idle", "testing"}
  PROVE  r \notin InFlight
  BY DEF InFlight

LEMMA HandlesBegins ==
  ASSUME WriteInv, NEW r \in Requests, NEW k \in Entries, NEW v \in Values, Handles(r, k, v)
  PROVE  /\ \/ Begins(r, "add", {k}, v) /\ Cardinality(Present(Current)) < MaxPerTenant
            \/ Begins(r, "update", {k}, v) \/ Begins(r, "remove", {k}, None)
         /\ retested' = retested /\ store # "settings"
  <1>1. /\ k \in Keys /\ v # None /\ v \in Values \union {None} /\ None \in Values \union {None}
        /\ [Current EXCEPT ![k] = v] = Changed({k}, v)
        /\ [Current EXCEPT ![k] = None] = Changed({k}, None)
    BY OneEntry, Limits DEF WriteInv, Keys
  <1>2. store # "settings" /\ r \notin InFlight /\ retested' = retested
    BY NotUnderWay DEF Handles, CreateRule, ChangeRule, CreateWatch, DeleteRule, DeleteWatch
  <1>3. CASE CreateRule(r, k, v) \/ CreateWatch(r, k, v)
    <2>1. /\ Current[k] = None /\ Store(Changed({k}, v)) /\ Begin(r, "add", {k}, v)
          /\ Cardinality(Present(Current)) < MaxPerTenant
      BY <1>1, <1>3 DEF CreateRule, CreateWatch, AddRule, Fits
    <2>2. Kind([kind |-> "add", keys |-> {k}, val |-> v, before |-> Current])
      BY <1>1, <1>2, <2>1 DEF Kind
    <2> QED BY <1>1, <1>2, <2>1, <2>2 DEF Begins
  <1>4. CASE ChangeRule(r, k, v)
    <2>1. Current[k] # None /\ Store(Changed({k}, v)) /\ Begin(r, "update", {k}, v)
      BY <1>1, <1>4 DEF ChangeRule, UpdateRule
    <2>2. Kind([kind |-> "update", keys |-> {k}, val |-> v, before |-> Current])
      BY <1>1, <1>2 DEF Kind
    <2> QED BY <1>1, <1>2, <2>1, <2>2 DEF Begins
  <1>5. CASE DeleteRule(r, k) \/ DeleteWatch(r, k)
    <2>1. Current[k] # None /\ Store(Changed({k}, None)) /\ Begin(r, "remove", {k}, None)
      BY <1>1, <1>5 DEF DeleteRule, DeleteWatch, RemoveEntry
    <2>2. Kind([kind |-> "remove", keys |-> {k}, val |-> None, before |-> Current])
      BY <1>1, <1>2 DEF Kind
    <2> QED BY <1>1, <1>2, <2>1, <2>2 DEF Begins
  <1> QED BY <1>2, <1>3, <1>4, <1>5 DEF Handles

LEMMA SetsFieldBegins ==
  ASSUME WriteInv, NEW r \in Requests, NEW v \in Values, SetsField(r, v)
  PROVE  \E k \in Fields :
           /\ Begins(r, "set", {k}, v) /\ retested' = retested /\ store = "settings"
           /\ k = "test" => req[r].at = "testing"
  <1> DEFINE Sets(k) == SetField(r, k, v) /\ store = "settings" /\ r \notin InFlight
                        /\ (k = "test" => req[r].at = "testing")
  <1>1. \E k \in Fields : Sets(k)
    <2>1. CASE SaveSlack(r, v)
      BY <2>1, NotUnderWay DEF SaveSlack, Fields
    <2>2. CASE SaveOther(r, v)
      BY <2>2, NotUnderWay DEF SaveOther, Fields
    <2>3. CASE StampOnce(r, v)
      BY <2>3, NotUnderWay DEF StampOnce, Fields
    <2>4. CASE TestAnswers(r, v)
      <3>1. store = "settings"
        BY <2>4 DEF TestAnswers, WriteInv, Kinds, Testing
      <3> QED BY <2>4, <3>1, NotUnderWay DEF TestAnswers, Fields
    <2> QED BY <2>1, <2>2, <2>3, <2>4 DEF SetsField
  <1>2. PICK k \in Fields : Sets(k)
    BY <1>1
  <1>3. k \in Keys /\ v # None /\ [Current EXCEPT ![k] = v] = Changed({k}, v)
    BY <1>2, OneEntry, Limits DEF WriteInv, Keys
  <1>4. Store(Changed({k}, v)) /\ Begin(r, "set", {k}, v) /\ retested' = retested
    BY <1>2, <1>3 DEF SetField
  <1>5. Kind([kind |-> "set", keys |-> {k}, val |-> v, before |-> Current])
    BY <1>2, <1>3 DEF Kind
  <1> QED BY <1>2, <1>3, <1>4, <1>5 DEF Begins

LEMMA ClearSlackBegins ==
  ASSUME WriteInv, NEW r \in Requests, ClearSlack(r)
  PROVE  Begins(r, "clear", {"slack", "test"}, None) /\ store = "settings"
  <1>1. WithoutSlack(Current) = Changed({"slack", "test"}, None)
    BY Types DEF WriteInv, WithoutSlack, Changed, Content
  <1>2. /\ Store(Changed({"slack", "test"}, None)) /\ Begin(r, "clear", {"slack", "test"}, None)
        /\ store = "settings" /\ r \notin InFlight
    BY <1>1, NotUnderWay DEF ClearSlack
  <1>3. {"slack", "test"} \subseteq Keys
    BY DEF Keys, Fields
  <1>4. Kind([kind |-> "clear", keys |-> {"slack", "test"}, val |-> None, before |-> Current])
    BY <1>2 DEF Kind
  <1> QED BY <1>2, <1>3, <1>4 DEF Begins

(* Next, by what a step does to the requests.                              *)
LEMMA NextSteps ==
  ASSUME Next
  PROVE  \/ \E r \in Requests, k \in Entries, v \in Values : Handles(r, k, v)
         \/ \E r \in Requests, v \in Values : SetsField(r, v)
         \/ \E r \in Requests : Test(r) \/ ClearSlack(r) \/ Lands(r) \/ Returns(r) \/ Fails(r)
         \/ Restart
  <1>1. \E v : v \in Values
    BY StoresAssumption
  <1> QED BY <1>1 DEF Next, Handles, SetsField

LEMMA WriteNext == WriteInv /\ [Next]_vars => WriteInv'
  <1> SUFFICES ASSUME WriteInv, [Next]_vars PROVE WriteInv'
    OBVIOUS
  <1>1. retested \in BOOLEAN
    BY DEF WriteInv, TypeOK
  <1>2. ASSUME NEW r \in Requests, NEW k \in Entries, NEW v \in Values, Handles(r, k, v)
        PROVE  WriteInv'
    BY <1>1, <1>2, HandlesBegins, BeginKeeps
  <1>3. ASSUME NEW r \in Requests, NEW v \in Values, SetsField(r, v)
        PROVE  WriteInv'
    BY <1>1, <1>3, SetsFieldBegins, BeginKeeps
  <1>4. ASSUME NEW r \in Requests, ClearSlack(r)
        PROVE  WriteInv'
    <2>1. retested' \in BOOLEAN
      BY <1>4 DEF ClearSlack
    <2> QED BY <1>4, <2>1, ClearSlackBegins, BeginKeeps
  <1>5. CASE UNCHANGED vars
    <2> USE <1>5 DEF vars, memory, history, bounds
    <2>1. InFlight' = InFlight /\ Testing' = Testing /\ Current' = Current
      BY DEF InFlight, Testing, Current
    <2>2. TypeOK' /\ Paced' /\ NoFields'
      BY <2>1 DEF WriteInv, TypeOK, Paced, NoFields
    <2>3. Kinds' /\ Finitely' /\ Met'
      BY <2>1 DEF WriteInv, Kinds, Kind, Finitely, Present, Met
    <2>4. Undisturbed' /\ RowAsFound' /\ RowWillAgree'
      BY <2>1 DEF WriteInv, Undisturbed, Expected, RowAsFound, RowWillAgree, Writing
    <2> QED BY <2>2, <2>3, <2>4 DEF WriteInv
  <1> QED BY <1>2, <1>3, <1>4, <1>5, NextSteps, LandsKeeps, ReturnsKeeps, TestKeeps, FailsKeeps,
             RestartKeeps

(* A request that fails takes back its own change and no other, whatever   *)
(* began, landed, returned or failed next to it and however the maps of a  *)
(* tenant were replaced: a key that nothing under way writes reads in the  *)
(* memory what its row holds, unless it was written next to a request that *)
(* failed, or in the same millisecond, or its answer was lost.             *)
THEOREM FailuresAreContained == Spec => []FailureContained
  <1>1. WriteInv => FailureContained
    BY DEF WriteInv, RowWillAgree, FailureContained, AgreeOn, Writing, InFlight
  <1> QED BY <1>1, WriteInit, WriteNext, PTL DEF Spec
-----------------------------------------------------------------------------
(* How many entries a failure brings back.                                 *)
LEMMA RollbackSizes ==
  ASSUME WriteInv, NEW r \in InFlight, faults < MaxFaults, Rollback(req[r]), store # "settings"
  PROVE  \E k \in Keys :
           /\ req[r].keys = {k}
           /\ Present(Current') \subseteq
                Present(Current) \union (IF req[r].kind = "add" THEN {} ELSE {k})
           /\ req[r].kind \in {"add", "update", "remove"}
  <1>1. /\ maps \in [Gens -> Content] /\ gen \in Gens /\ gen \in Nat /\ req[r] \in Request
        /\ req[r].gen \in Gens
    BY Types DEF WriteInv, InFlight, Request
  <1>2. PICK k \in Keys : req[r].keys = {k} /\ req[r].kind \in {"add", "update", "remove"}
    <2>1. Kind(req[r])
      BY DEF WriteInv, Kinds
    <2> QED BY <2>1 DEF Kind
  <1>3. EntryOf(req[r]) = k
    BY <1>2 DEF EntryOf
  <1>4. Restores(r)
    BY RollbackRestores
  <1>5. CASE gen' # gen
    BY <1>2, <1>4, <1>5, EmptyIsFinite DEF Restores
  <1>6. CASE gen' = gen
    <2>1. Current' = maps'[gen]
      BY <1>6 DEF Current
    <2>2. ASSUME NEW m \in Gens, NEW v, maps' = [maps EXCEPT ![m] = [maps[m] EXCEPT ![k] = v]]
          PROVE  \A j \in Keys \ {k} : Current'[j] = Current[j]
      <3>1. \A j \in Keys \ {k} : [maps[m] EXCEPT ![k] = v][j] = maps[m][j]
        BY <1>1, <2>2 DEF Content
      <3> QED BY <1>1, <2>1, <2>2, <3>1 DEF Current
    <2>3. CASE RollbackAdd(req[r]) /\ req[r].kind = "add"
      <3>1. maps' = [maps EXCEPT ![req[r].gen] = [maps[req[r].gen] EXCEPT ![k] = None]]
        BY <1>3, <2>3 DEF RollbackAdd
      <3>2. \A j \in Keys \ {k} : Current'[j] = Current[j]
        BY <1>1, <2>2, <3>1
      <3>3. Current'[k] \in {None, Current[k]}
        <4>1. [maps[req[r].gen] EXCEPT ![k] = None][k] = None
          BY <1>1 DEF Content
        <4> QED BY <1>1, <2>1, <3>1, <4>1 DEF Current
      <3> QED BY <1>2, <2>3, <3>2, <3>3 DEF Present
    <2>4. CASE RollbackUpdate(req[r]) /\ req[r].kind = "update"
      <3> DEFINE v == req[r].before[k]
      <3>1. maps' = [maps EXCEPT ![req[r].gen] = [maps[req[r].gen] EXCEPT ![k] = v]]
        BY <1>1, <1>3, <2>4 DEF RollbackUpdate
      <3> HIDE DEF v
      <3>2. \A j \in Keys \ {k} : Current'[j] = Current[j]
        BY <1>1, <2>2, <3>1
      <3> QED BY <1>2, <2>4, <3>2 DEF Present
    <2>5. CASE RollbackRemove(req[r]) /\ req[r].kind = "remove"
      <3> DEFINE v == req[r].before[k]
      <3>1. maps' = [maps EXCEPT ![gen] = [maps[gen] EXCEPT ![k] = v]]
        BY <1>1, <1>3, <2>5 DEF RollbackRemove
      <3> HIDE DEF v
      <3>2. \A j \in Keys \ {k} : Current'[j] = Current[j]
        BY <1>1, <2>2, <3>1
      <3> QED BY <1>2, <2>5, <3>2 DEF Present
    <2> QED BY <1>2, <2>3, <2>4, <2>5 DEF Rollback
  <1> QED BY <1>5, <1>6

LEMMA FewerEntries ==
  ASSUME NEW S, NEW T, IsFiniteSet(T), S \subseteq T
  PROVE  Cardinality(S) <= Cardinality(T) /\ Cardinality(S) \in Nat /\ Cardinality(T) \in Nat
  BY FS_Subset, FS_CardinalityType

LEMMA OneMoreEntry ==
  ASSUME NEW S, NEW T, NEW k, IsFiniteSet(T), S \subseteq T \union {k}
  PROVE  /\ Cardinality(S) <= Cardinality(T) + 1 /\ Cardinality(S) \in Nat /\ Cardinality(T) \in Nat
  <1>1. /\ IsFiniteSet(T \union {k}) /\ Cardinality(T) \in Nat
        /\ Cardinality(T \union {k}) = IF k \in T THEN Cardinality(T) ELSE Cardinality(T) + 1
    BY FS_AddElement, FS_CardinalityType
  <1> QED BY <1>1, FewerEntries

LEMMA LimitNext == WriteInv /\ LimitHeld /\ [Next]_vars => LimitHeld'
  <1> SUFFICES ASSUME WriteInv, LimitHeld, [Next]_vars, store' # "settings"
               PROVE  Cardinality(Present(Current')) <= MaxPerTenant + restored'
    BY DEF LimitHeld, Present
  <1>1. /\ IsFiniteSet(Present(Current)) /\ restored \in Nat /\ MaxPerTenant \in Nat
        /\ Cardinality(Present(Current)) \in Nat /\ Current \in Content
    BY Types, Limits, FS_CardinalityType DEF WriteInv, Finitely, Current
  <1>2. store # "settings" => Cardinality(Present(Current)) <= MaxPerTenant + restored
    BY DEF LimitHeld
  <1>3. ASSUME NEW r, NEW kind, NEW k \in Keys, NEW val, Begins(r, kind, {k}, val),
               store # "settings",
               \/ kind = "add" /\ Cardinality(Present(Current)) < MaxPerTenant
               \/ kind \in {"update", "remove"},
               retested' = retested
        PROVE  Cardinality(Present(Current')) <= MaxPerTenant + restored'
    <2>1. retested' \in BOOLEAN
      BY <1>3 DEF WriteInv, TypeOK
    <2>2. Current' = Changed({k}, val)
      BY <1>3, <2>1, BeginType
    <2>3. restored' = restored
      BY <1>3 DEF Begins, Begin
    <2>4. CASE kind = "add" /\ Cardinality(Present(Current)) < MaxPerTenant
      <3>1. Present(Current') \subseteq Present(Current) \union {k}
        BY <2>2 DEF Present, Changed
      <3> QED BY <1>1, <2>3, <2>4, <3>1, OneMoreEntry
    <2>5. CASE kind \in {"update", "remove"}
      <3>1. Current[k] # None
        BY <1>3, <2>5 DEF Begins
      <3>2. Present(Current') \subseteq Present(Current)
        BY <2>2, <3>1 DEF Present, Changed
      <3> QED BY <1>1, <1>2, <1>3, <2>3, <3>2, FewerEntries
    <2> QED BY <1>3, <2>4, <2>5
  <1>4. ASSUME NEW r \in Requests, NEW k \in Entries, NEW v \in Values, Handles(r, k, v)
        PROVE  Cardinality(Present(Current')) <= MaxPerTenant + restored'
    BY <1>3, <1>4, HandlesBegins DEF Keys
  <1>5. ASSUME NEW r \in Requests, NEW v \in Values, SetsField(r, v)
        PROVE  FALSE
    <2>1. store' = store
      BY <1>5, SetsFieldBegins DEF Begins, Begin
    <2> QED BY <1>5, <2>1, SetsFieldBegins
  <1>6. ASSUME NEW r \in Requests, ClearSlack(r)
        PROVE  FALSE
    BY <1>6 DEF ClearSlack, Begin
  <1>7. ASSUME NEW r \in Requests, Test(r) \/ Lands(r) \/ Returns(r)
        PROVE  Cardinality(Present(Current')) <= MaxPerTenant + restored'
    <2>1. /\ store' = store /\ restored' = restored /\ Current' = Current
      BY <1>7 DEF Test, Lands, Returns, memory, history, Current
    <2> QED BY <1>2, <2>1
  <1>8. ASSUME NEW r \in Requests, Fails(r)
        PROVE  Cardinality(Present(Current')) <= MaxPerTenant + restored'
    <2>1. /\ store' = store /\ r \in InFlight /\ faults < MaxFaults /\ Rollback(req[r])
          /\ restored' = IF req[r].kind \in {"remove", "update"} THEN restored + 1 ELSE restored
      BY <1>8 DEF Fails
    <2>2. PICK k \in Keys :
            /\ Present(Current') \subseteq
                 Present(Current) \union (IF req[r].kind = "add" THEN {} ELSE {k})
            /\ req[r].kind \in {"add", "update", "remove"}
      BY <2>1, RollbackSizes
    <2>3. CASE req[r].kind = "add"
      <3>1. Present(Current') \subseteq Present(Current) /\ restored' = restored
        BY <2>1, <2>2, <2>3
      <3> QED BY <1>1, <1>2, <2>1, <3>1, FewerEntries
    <2>4. CASE req[r].kind # "add"
      <3>1. Present(Current') \subseteq Present(Current) \union {k} /\ restored' = restored + 1
        BY <2>1, <2>2, <2>4
      <3>2. /\ Cardinality(Present(Current')) <= Cardinality(Present(Current)) + 1
            /\ Cardinality(Present(Current')) \in Nat
        BY <1>1, <3>1, OneMoreEntry
      <3> QED BY <1>1, <1>2, <2>1, <3>1, <3>2
    <2> QED BY <2>3, <2>4
  <1>9. CASE Restart
    <2>1. store' = store /\ gen' = 0 /\ restored' = 0 /\ 0 \in Gens
      BY <1>9, Limits DEF Restart, Gens
    <2>2. PICK kept \in SUBSET {k \in Keys : table[k].val # None} :
            /\ maps' = [g \in Gens |-> [k \in Keys |-> IF g = 0 /\ k \in kept THEN table[k].val ELSE None]]
            /\ store # "settings" => Cardinality(kept) <= MaxPerTenant
      BY <1>9, RestartLoads
    <2>3. IsFiniteSet(kept)
      BY <2>2, FS_Subset DEF WriteInv, Finitely
    <2>4. Present(Current') \subseteq kept
      BY <2>1, <2>2 DEF Present, Current
    <2> QED BY <1>1, <2>1, <2>2, <2>3, <2>4, FewerEntries
  <1>10. CASE UNCHANGED vars
    <2>1. store' = store /\ restored' = restored /\ Current' = Current
      BY <1>10 DEF vars, memory, history, Current
    <2> QED BY <1>2, <2>1
  <1> QED BY <1>4, <1>5, <1>6, <1>7, <1>8, <1>9, <1>10, NextSteps

-----------------------------------------------------------------------------
(* The webhook and the outcome of its test, while nothing has raced.       *)
Calm ==
  /\ HasWebhook(Current) /\ \A r \in InFlight : HasWebhook(req[r].before)
  /\ WebhookKept /\ RowHasWebhook

LEMMA WritesSomething == ASSUME WriteInv, NEW r \in InFlight PROVE req[r].keys # {}
  BY DEF WriteInv, Kinds, Kind

LEMMA SetsFieldKeepsCalm ==
  ASSUME WriteInv, Calm, NEW r \in Requests, NEW v \in Values, SetsField(r, v)
  PROVE  Calm'
  <1>1. PICK k \in Fields : /\ Begins(r, "set", {k}, v) /\ retested' = retested
                            /\ k = "test" => req[r].at = "testing"
    BY SetsFieldBegins
  <1>2. v # None /\ r \notin InFlight
    BY <1>1, Limits DEF Begins
  <1>3. /\ Current' = Changed({k}, v)
    BY <1>1, BeginType DEF WriteInv, TypeOK
  <1>4. /\ InFlight' = InFlight \union {r} /\ (Testing' => Testing)
        /\ req'[r].keys = {k} /\ req'[r].before = Current
        /\ \A s \in InFlight : req[s].keys \subseteq req'[r].met
        /\ \A s \in Requests \ {r} :
             /\ req'[s].kind = req[s].kind /\ req'[s].at = req[s].at /\ req'[s].keys = req[s].keys
             /\ req'[s].before = req[s].before /\ req'[s].stamp = req[s].stamp
        /\ \A s \in InFlight : req'[s].met = req[s].met \union {k}
    BY <1>1, BeginRequests DEF WriteInv
  <1>5. \A s \in InFlight : s \in Requests \ {r}
    BY <1>2 DEF InFlight
  <1>6. UNCHANGED <<table, lost>> /\ spoilt \subseteq spoilt'
    BY <1>1 DEF Begins, Begin
  <1>7. k = "test" => Current["slack"] # None
    BY <1>1 DEF Calm, WebhookKept, Testing
  <1>8. /\ Current'["test"] = (IF k = "test" THEN v ELSE Current["test"])
        /\ Current'["slack"] = (IF k = "slack" THEN v ELSE Current["slack"])
    BY <1>3 DEF Changed, Keys, Fields
  <1>9. HasWebhook(Current')
    BY <1>2, <1>7, <1>8 DEF Calm, HasWebhook
  <1>10. \A s \in InFlight' : HasWebhook(req'[s].before)
    BY <1>4, <1>5 DEF Calm
  <1>11. WebhookKept'
    BY <1>2, <1>4, <1>5, <1>7, <1>8 DEF Calm, WebhookKept
  <1>12. RowHasWebhook'
    <2> SUFFICES ASSUME table["test"].val # None
                 PROVE  /\ \/ Current'["slack"] # None \/ "slack" \in spoilt' \union lost'
                           \/ \E s \in InFlight' : /\ req'[s].kind = "clear" /\ req'[s].at = "writing"
                                                   /\ req'[s].stamp >= table'["test"].stamp
                        /\ \A s \in InFlight' : req'[s].met = {} =>
                             req'[s].before["slack"] # None \/ "slack" \in spoilt' \union lost'
      BY <1>6 DEF RowHasWebhook
    <2>1. /\ \/ Current["slack"] # None \/ "slack" \in spoilt \union lost
             \/ \E s \in InFlight : /\ req[s].kind = "clear" /\ req[s].at = "writing"
                                    /\ req[s].stamp >= table["test"].stamp
      BY DEF Calm, RowHasWebhook
    <2>2. \/ Current'["slack"] # None \/ "slack" \in spoilt' \union lost'
          \/ \E s \in InFlight' : /\ req'[s].kind = "clear" /\ req'[s].at = "writing"
                                  /\ req'[s].stamp >= table'["test"].stamp
      BY <1>2, <1>4, <1>5, <1>6, <1>8, <2>1
    <2>3. \A s \in InFlight : req'[s].met # {}
      BY <1>4
    <2>4. req'[r].met = {} => InFlight = {}
      BY <1>4, WritesSomething
    <2> QED BY <1>4, <1>6, <2>1, <2>2, <2>3, <2>4
  <1> QED BY <1>9, <1>10, <1>11, <1>12 DEF Calm

LEMMA ClearSlackKeepsCalm ==
  ASSUME WriteInv, Calm, NEW r \in Requests, ClearSlack(r), retested' = FALSE
  PROVE  Calm'
  <1>1. Begins(r, "clear", {"slack", "test"}, None)
    BY ClearSlackBegins
  <1>2. r \notin InFlight /\ ~Testing /\ \A s \in InFlight : "test" \notin req[s].keys
    BY <1>1 DEF Begins, ClearSlack
  <1>3. Current' = Changed({"slack", "test"}, None)
    BY <1>1, BeginType
  <1>4. /\ InFlight' = InFlight \union {r} /\ (Testing' => Testing)
        /\ req'[r].kind = "clear" /\ req'[r].at = "writing" /\ req'[r].before = Current
        /\ req'[r].stamp = stamp' /\ stamp' \in {stamp, stamp + 1}
        /\ \A s \in InFlight : req[s].keys \subseteq req'[r].met
        /\ \A s \in Requests \ {r} :
             /\ req'[s].kind = req[s].kind /\ req'[s].keys = req[s].keys
             /\ req'[s].before = req[s].before
        /\ \A s \in InFlight : req'[s].met = req[s].met \union {"slack", "test"}
    BY <1>1, BeginRequests DEF WriteInv
  <1>5. \A s \in InFlight : s \in Requests \ {r}
    BY <1>2 DEF InFlight
  <1>6. UNCHANGED <<table, lost>> /\ spoilt \subseteq spoilt'
    BY <1>1 DEF Begins, Begin
  <1>7. Current'["test"] = None
    BY <1>3 DEF Changed, Keys, Fields
  <1>8. WebhookKept' /\ \A s \in InFlight' : HasWebhook(req'[s].before)
    BY <1>2, <1>4, <1>5 DEF Calm, WebhookKept
  <1>9. RowHasWebhook'
    <2>1. req'[r].stamp >= table'["test"].stamp
      <3>1. table["test"].stamp <= stamp /\ table["test"].stamp \in Nat /\ stamp \in Nat
        BY Types DEF WriteInv, Paced, Keys, Fields
      <3>2. table'["test"].stamp = table["test"].stamp
        BY <1>6
      <3> QED BY <1>4, <3>1, <3>2
    <2>2. \A s \in InFlight : req'[s].met # {}
      BY <1>4
    <2>3. req'[r].met = {} => InFlight = {}
      BY <1>4, WritesSomething
    <2>4. req'[r].met = {} /\ table["test"].val # None =>
            Current["slack"] # None \/ "slack" \in spoilt \union lost
      BY <2>3 DEF Calm, RowHasWebhook
    <2> QED BY <1>4, <1>6, <2>1, <2>2, <2>4 DEF RowHasWebhook
  <1> QED BY <1>7, <1>8, <1>9 DEF Calm, HasWebhook

LEMMA FailsKeepsCalm ==
  ASSUME WriteInv, Calm, NEW r \in Requests, Fails(r), retested' = FALSE, store = "settings"
  PROVE  Calm'
  <1>1. /\ r \in InFlight /\ Rollback(req[r]) /\ req[r].met = {} /\ ~Testing
        /\ req' = [req EXCEPT ![r] = Idle] /\ table' = table
        /\ spoilt \subseteq spoilt' /\ lost \subseteq lost'
    BY DEF Fails
  <1>2. InFlight = {r}
    BY <1>1, WritesSomething DEF WriteInv, Met
  <1>3. InFlight' = {} /\ ~Testing'
    <2>1. req'[r] = Idle /\ \A s \in Requests \ {r} : req'[s] = req[s]
      BY <1>1, Types DEF WriteInv
    <2> QED BY <1>1, <1>2, <2>1 DEF InFlight, Testing, Idle
  <1>4. Current' = req[r].before
    <2>1. req[r].kind \in {"set", "clear"}
      BY <1>1 DEF WriteInv, Kinds, Kind
    <2>2. maps' = [maps EXCEPT ![gen] = req[r].before] /\ gen' = gen
      BY <1>1, <2>1 DEF Rollback, RollbackSettings
    <2> QED BY <2>2, Types DEF WriteInv, Current
  <1>5. RowHasWebhook'
    BY <1>1, <1>3, <1>4 DEF Calm, RowHasWebhook
  <1> QED BY <1>1, <1>3, <1>4, <1>5 DEF Calm, WebhookKept

LEMMA LandsKeepsCalm ==
  ASSUME WriteInv, Calm, NEW r \in Requests, Lands(r)
  PROVE  Calm'
  <1>1. /\ req[r].at = "writing" /\ r \in InFlight
        /\ table' = [k \in Keys |-> IF k \in req[r].keys /\ req[r].stamp >= table[k].stamp
                                    THEN [stamp |-> req[r].stamp, val |-> req[r].val] ELSE table[k]]
        /\ req' = [req EXCEPT ![r].at = "landed"]
        /\ UNCHANGED <<maps, gen, spoilt, lost>>
    BY DEF Lands, InFlight, memory, history
  <1>2. req \in [Requests -> Request]
    BY Types DEF WriteInv
  <1>3. \A s \in InFlight :
          /\ req'[s].kind = req[s].kind /\ req'[s].keys = req[s].keys /\ req'[s].met = req[s].met
          /\ req'[s].before = req[s].before /\ req'[s].stamp = req[s].stamp
          /\ s # r => req'[s].at = req[s].at
    BY <1>1, <1>2 DEF Request, InFlight
  <1>4. InFlight' = InFlight /\ (Testing' => Testing) /\ Current' = Current
    BY <1>1, <1>2 DEF InFlight, Testing, Current, Request
  <1>5. WebhookKept' /\ \A s \in InFlight' : HasWebhook(req'[s].before)
    BY <1>3, <1>4 DEF Calm, WebhookKept
  <1>6. RowHasWebhook'
    <2>1. "test" \in Keys
      BY DEF Keys, Fields
    <2>2. CASE "test" \in req[r].keys /\ req[r].stamp >= table["test"].stamp /\ req[r].val # None
      <3>1. req[r].kind = "set"
        BY <1>1, <2>2, Limits DEF WriteInv, Kinds, Kind, Fields
      <3>2. Current["slack"] # None /\ req[r].before["slack"] # None
        BY <1>1, <2>2, <3>1 DEF Calm, WebhookKept
      <3>3. \A s \in InFlight : s # r => req[s].met # {}
        BY <1>1, <2>2 DEF WriteInv, Met
      <3> QED BY <1>1, <1>3, <1>4, <3>2, <3>3 DEF RowHasWebhook
    <2>3. CASE "test" \in req[r].keys /\ req[r].stamp >= table["test"].stamp /\ req[r].val = None
      <3>1. table'["test"].val = None
        BY <1>1, <2>1, <2>3
      <3> QED BY <3>1 DEF RowHasWebhook
    <2>4. CASE ~("test" \in req[r].keys /\ req[r].stamp >= table["test"].stamp)
      <3>1. table'["test"] = table["test"]
        BY <1>1, <2>1, <2>4
      <3>2. req[r].kind = "clear" => "test" \in req[r].keys
        BY <1>1 DEF WriteInv, Kinds, Kind
      <3>3. ASSUME NEW s \in InFlight, req[s].kind = "clear", req[s].at = "writing",
                   req[s].stamp >= table["test"].stamp
            PROVE  s # r
        BY <2>4, <3>2, <3>3
      <3> QED BY <1>1, <1>3, <1>4, <3>1, <3>3 DEF Calm, RowHasWebhook
    <2> QED BY <2>2, <2>3, <2>4
  <1> QED BY <1>4, <1>5, <1>6 DEF Calm

LEMMA RestartKeepsCalm ==
  ASSUME WriteInv, Calm, Restart, retested' = FALSE, store = "settings"
  PROVE  Calm'
  <1>1. /\ InFlight = {} /\ "slack" \notin spoilt \union lost
        /\ spoilt' = {} /\ table' = table /\ req' = [s \in Requests |-> Idle]
    BY DEF Restart
  <1>2. InFlight' = {} /\ ~Testing'
    BY <1>1 DEF InFlight, Testing, Idle
  <1>3. {"slack", "test"} \subseteq Keys
    BY DEF Keys, Fields
  <1>4. Current["slack"] = table["slack"].val
    BY <1>1, <1>3 DEF WriteInv, RowWillAgree, Writing, InFlight
  <1>5. lost' = {}
    BY RestartLoads
  <1>6. \A k \in {"slack", "test"} : Current'[k] = table[k].val
    <2>1. RowWillAgree'
      BY RestartKeeps DEF WriteInv
    <2>2. \A s \in Requests, k \in Keys : ~Writing(s, k)'
      BY <1>2 DEF Writing, InFlight
    <2> QED BY <1>1, <1>3, <1>5, <2>1, <2>2 DEF RowWillAgree
  <1>7. table["test"].val # None => table["slack"].val # None
    BY <1>1, <1>4 DEF Calm, RowHasWebhook
  <1> QED BY <1>1, <1>2, <1>6, <1>7 DEF Calm, HasWebhook, WebhookKept, RowHasWebhook

LEMMA WebhookNext == WriteInv /\ WebhookInv /\ [Next]_vars => WebhookInv'
  <1> SUFFICES ASSUME WriteInv, WebhookInv, [Next]_vars PROVE WebhookInv'
    OBVIOUS
  <1>1. WriteInv' /\ store' = store
    <2>1. store' = store
      <3>1. \A r, kind, keys, val : Begins(r, kind, keys, val) => store' = store
        BY DEF Begins, Begin
      <3> QED BY <3>1, NextSteps, HandlesBegins, SetsFieldBegins, ClearSlackBegins
                 DEF Test, Lands, Returns, Fails, Restart, vars
    <2> QED BY <2>1, WriteNext
  <1>2. CASE store # "settings"
    <2>1. Current'["test"] = None
      BY <1>1, <1>2 DEF WriteInv, NoFields, TypeOK, Current, Fields
    <2> QED BY <1>1, <1>2, <2>1 DEF WebhookInv, HasWebhook
  <1>3. CASE store = "settings"
    <2>1. SUFFICES ASSUME retested' # TRUE PROVE Calm'
      <3>1. retested' \in BOOLEAN
        BY <1>1 DEF WriteInv, TypeOK
      <3> QED BY <1>1, <2>1, <3>1 DEF WebhookInv, Calm
    <2>2. retested' = FALSE /\ retested \in BOOLEAN
      BY <1>1, <2>1 DEF WriteInv, TypeOK
    <2>3. retested = FALSE
      <3>1. ASSUME NEW r \in Requests, NEW k \in Entries, NEW v \in Values, Handles(r, k, v)
            PROVE  retested' = retested
        BY <3>1, HandlesBegins
      <3>2. ASSUME NEW r \in Requests, NEW v \in Values, SetsField(r, v)
            PROVE  retested' = retested
        BY <3>2, SetsFieldBegins
      <3>3. ASSUME NEW r \in Requests, Test(r) \/ Lands(r) \/ Returns(r)
            PROVE  retested' = retested
        BY <3>3 DEF Test, Lands, Returns, history
      <3>4. ASSUME NEW r \in Requests, ClearSlack(r) \/ Fails(r) \/ Restart
            PROVE  retested => retested'
        BY <3>4 DEF ClearSlack, Fails, Restart
      <3>5. Restart => (retested => retested')
        BY DEF Restart
      <3>6. UNCHANGED vars => retested' = retested
        BY DEF vars, history
      <3> QED BY <2>2, <3>1, <3>2, <3>3, <3>4, <3>5, <3>6, NextSteps
    <2>4. Calm
      BY <1>3, <2>3 DEF WebhookInv, Calm
    <2>5. ASSUME NEW r \in Requests, NEW k \in Entries, NEW v \in Values, Handles(r, k, v)
          PROVE  Calm'
      BY <1>3, <2>5, HandlesBegins
    <2>6. ASSUME NEW r \in Requests, Test(r)
          PROVE  Calm'
      <3>1. /\ Current["slack"] # None /\ Current' = Current
            /\ req' = [req EXCEPT ![r].at = "testing"] /\ req[r].at = "idle"
            /\ UNCHANGED <<table, spoilt, lost>>
        BY <2>6 DEF Test, memory, history, Current
      <3>2. req \in [Requests -> Request]
        BY Types DEF WriteInv
      <3>3. InFlight' = InFlight /\ \A s \in InFlight : req'[s] = req[s]
        BY <3>1, <3>2 DEF InFlight, Request
      <3> QED BY <2>4, <3>1, <3>3 DEF Calm, WebhookKept, RowHasWebhook
    <2>7. ASSUME NEW r \in Requests, Returns(r)
          PROVE  Calm'
      <3>1. /\ req[r].at = "landed" /\ r \in InFlight /\ Current' = Current
            /\ req' = [req EXCEPT ![r] = Idle]
            /\ UNCHANGED <<table, spoilt, lost>>
        BY <2>7 DEF Returns, memory, history, Current, InFlight
      <3>2. req'[r].at = "idle" /\ \A s \in Requests \ {r} : req'[s] = req[s]
        BY <3>1, Types DEF WriteInv, Idle
      <3>3. /\ InFlight' = InFlight \ {r} /\ (Testing' => Testing)
            /\ \A s \in InFlight' : s \in InFlight /\ req'[s] = req[s]
        BY <3>1, <3>2 DEF InFlight, Testing
      <3>4. WebhookKept' /\ \A s \in InFlight' : HasWebhook(req'[s].before)
        BY <2>4, <3>1, <3>3 DEF Calm, WebhookKept
      <3>5. RowHasWebhook'
        BY <2>4, <3>1, <3>3 DEF Calm, RowHasWebhook
      <3> QED BY <2>4, <3>1, <3>4, <3>5 DEF Calm
    <2>8. CASE UNCHANGED vars
      <3>1. Current' = Current /\ InFlight' = InFlight /\ Testing' = Testing
            /\ UNCHANGED <<req, table, spoilt, lost>>
        BY <2>8 DEF vars, memory, history, Current, InFlight, Testing
      <3> QED BY <2>4, <3>1 DEF Calm, WebhookKept, RowHasWebhook
    <2> QED BY <1>3, <2>2, <2>4, <2>5, <2>6, <2>7, <2>8, NextSteps, SetsFieldKeepsCalm,
               ClearSlackKeepsCalm, FailsKeepsCalm, LandsKeepsCalm, RestartKeepsCalm
  <1> QED BY <1>2, <1>3

(* A tenant never holds more rules or watches than the limit but for the   *)
(* removals and updates that failed INSERTs took back, whatever was added  *)
(* meanwhile and whichever rows a start skips; the outcome of a webhook's  *)
(* test outlives the webhook only if one of the races of TestHasWebhook    *)
(* occurred; and every variable keeps its type: the tenant's maps are      *)
(* replaced no oftener than requests and failures allow.                   *)
THEOREM LimitsAreHeld == Spec => []LimitsSound
  <1>1. Init => StoresInv
    <2> SUFFICES ASSUME Init PROVE LimitHeld /\ WebhookInv
      BY WriteInit DEF StoresInv
    <2>1. Current = Empty /\ InFlight = {} /\ ~Testing
      <3>1. 0 \in Gens
        BY Limits DEF Gens
      <3> QED BY <3>1 DEF Init, InFlight, Testing, Idle, Current
    <2>2. LimitHeld
      BY <2>1, EmptyIsFinite, FS_EmptySet, Limits DEF Init, LimitHeld
    <2>3. WebhookInv
      BY <2>1 DEF Init, WebhookInv, HasWebhook, WebhookKept, RowHasWebhook, Empty, Keys, Fields, NoRow
    <2> QED BY <2>2, <2>3
  <1>2. StoresInv /\ [Next]_vars => StoresInv'
    BY WriteNext, LimitNext, WebhookNext DEF StoresInv
  <1>3. StoresInv => LimitsSound
    BY DEF StoresInv, WriteInv, WebhookInv, HasWebhook, LimitsSound, TestHasWebhook
  <1> QED BY <1>1, <1>2, <1>3, PTL DEF Spec

-----------------------------------------------------------------------------
(* The schema. *)

(* The statements a process has run, recorded or not, of the migrations.   *)
Ran(b) == boots[b].applied \union (IF boots[b].ran THEN {CurrentMigration(b)} ELSE {})

(* A process will still run s; some process has run s.                     *)
Owes(b, s)   == Migrating(b) /\ s \in All \ Ran(b)
SomeOwes(s)  == \E b \in Boots : Owes(b, s)
Reached(s)   == s \in ledger \/ \E b \in Boots : Migrating(b) /\ s \in Ran(b)

(* What a process has applied, and the ledger, is a beginning of the list. *)
Beginning(done) ==
  done \subseteq All /\ \A i, j \in DOMAIN Migrations :
                          i < j /\ Migrations[j] \in done => Migrations[i] \in done

LedgerOrdered ==
  /\ Beginning(ledger)
  /\ \A b \in Boots : Beginning(boots[b].applied) /\ boots[b].applied \subseteq ledger

BootsKnow ==
  /\ \A b \in Boots : boots[b].ran => Migrating(b) /\ Pending(b) # {}
  /\ \A b \in Boots : Migrating(b) /\ boots[b].late => boots[b].applied = All
  /\ (\E b \in Boots : boots[b].at = "serving") => ledger = All
  /\ engine = "legacy" =>
       ledger = {} /\ \A b \in Boots : boots[b].at \in {"down", "ddl"} /\ boots[b].next = 1

ColumnsAdded ==
  /\ \A v \in Views : Reached(AddColumn(v)) => v \in columns
  /\ Reached(Create(Daily, "new")) => Daily \in columns

(* A view that was to be dropped and is there as it was, or that was to be *)
(* created and is not there, some process is still to drop or to create.   *)
ViewsOwed ==
  /\ views[Daily] # "old"
  /\ \A v \in Views :
       /\ Reached(Drop(v)) /\ views[v] = "old" => SomeOwes(Drop(v))
       /\ Reached(Create(v, "new")) /\ views[v] = "none" => SomeOwes(Create(v, "new"))

SchemaInv ==
  SchemaTypeOK /\ LedgerOrdered /\ BootsKnow /\ ColumnsAdded /\ (torn \/ ViewsOwed)

(* The list, statement by statement.                                       *)
LEMMA TheMigrations ==
  /\ DOMAIN Migrations = 1..11 /\ Len(Ddl) = 2
  /\ Ddl[1] = Create(Template, "new") /\ Ddl[2] = Create(Service, "new")
  /\ Migrations[1] = Drop(Template) /\ Migrations[2] = AddColumn(Template)
  /\ Migrations[3] = Create(Template, "new")
  /\ Migrations[4] = Drop(Service) /\ Migrations[5] = AddColumn(Service)
  /\ Migrations[6] = Create(Service, "new")
  /\ Migrations[7] = Create(FiveMin, "old") /\ Migrations[8] = Drop(FiveMin)
  /\ Migrations[9] = AddColumn(FiveMin) /\ Migrations[10] = Create(FiveMin, "new")
  /\ Migrations[11] = Create(Daily, "new")
  BY DEF Migrations, Ddl

LEMMA AllStatements ==
  /\ All = {Migrations[i] : i \in 1..11}
  /\ All = {Drop(Template), AddColumn(Template), Create(Template, "new"),
            Drop(Service), AddColumn(Service), Create(Service, "new"),
            Create(FiveMin, "old"), Drop(FiveMin), AddColumn(FiveMin), Create(FiveMin, "new"),
            Create(Daily, "new")}
  <1>1. All = {Migrations[i] : i \in 1..11}
    BY TheMigrations DEF All, ToSet, MigrationId
  <1>2. 1..11 = {1, 2, 3, 4, 5, 6, 7, 8, 9, 10, 11}
    OBVIOUS
  <1>3. All = {Migrations[1], Migrations[2], Migrations[3], Migrations[4], Migrations[5], Migrations[6],
               Migrations[7], Migrations[8], Migrations[9], Migrations[10], Migrations[11]}
    BY <1>1, <1>2
  <1> QED BY <1>1, <1>3, TheMigrations

(* The order the statements about one view stand in.                       *)
LEMMA InOrder ==
  ASSUME NEW done, Beginning(done), NEW v \in Views
  PROVE  /\ Create(v, "new") \in done /\ v # Daily => AddColumn(v) \in done /\ Drop(v) \in done
         /\ Drop(v) \in done /\ v = FiveMin => Create(v, "old") \in done
  BY TheMigrations DEF Beginning, Views, Template, Service, FiveMin, Daily

(* What a process runs next: all before it is applied, and it is not.      *)
LEMMA NextStatement ==
  ASSUME SchemaTypeOK, LedgerOrdered, NEW b \in Boots, Pending(b) # {}
  PROVE  \E k \in 1..11 :
           /\ CurrentMigration(b) = Migrations[k] /\ Migrations[k] \notin boots[b].applied
           /\ \A i \in 1..11 : i < k => Migrations[i] \in boots[b].applied
  <1> DEFINE P == Pending(b)
  <1>1. P \subseteq 1..11 /\ \A i \in 1..11 : i \in P <=> Migrations[i] \notin boots[b].applied
    BY TheMigrations DEF Pending, MigrationId
  <1>2. \E k \in P : \A i \in P : k <= i
    <2> DEFINE Found(n) == (\E i \in P : i <= n) => \E k \in P : \A i \in P : k <= i
    <2> HIDE DEF P
    <2>1. Found(0)
      BY <1>1
    <2>2. ASSUME NEW n \in 0..10, Found(n) PROVE Found(n + 1)
      BY <1>1, <2>2
    <2> HIDE DEF Found
    <2>3. Found(11)
      BY <2>1, <2>2
    <2> USE DEF Found
    <2> QED BY <1>1, <2>3 DEF P
  <1>3. Min(P) \in P /\ \A i \in P : Min(P) <= i
    BY <1>2 DEF Min
  <1> QED BY <1>1, <1>3 DEF CurrentMigration

LEMMA StatementsDiffer ==
  ASSUME NEW i \in 1..11, NEW j \in 1..11, Migrations[i] = Migrations[j]
  PROVE  i = j
  <1>1. \A n \in 1..11 :
          /\ Migrations[n].do = IF n \in {1, 4, 8} THEN "drop" ELSE IF n \in {2, 5, 9} THEN "column" ELSE "create"
          /\ Migrations[n].on = IF n <= 3 THEN Template ELSE IF n <= 6 THEN Service
                                ELSE IF n <= 10 THEN FiveMin ELSE Daily
          /\ n \in {7, 10} => Migrations[n].text = IF n = 7 THEN "old" ELSE "new"
    <2>1. \A v \in Views :
            /\ Drop(v).do = "drop" /\ Drop(v).on = v
            /\ AddColumn(v).do = "column" /\ AddColumn(v).on = v
            /\ \A t \in {"old", "new"} :
                 Create(v, t).do = "create" /\ Create(v, t).on = v /\ Create(v, t).text = t
      BY DEF Drop, AddColumn, Create
    <2>2. \A n \in 1..11 : n \in {1, 2, 3, 4, 5, 6, 7, 8, 9, 10, 11}
      OBVIOUS
    <2>3. {Template, Service, FiveMin, Daily} = Views
      BY DEF Views
    <2> QED BY <2>1, <2>2, <2>3, TheMigrations
  <1> HIDE DEF Migrations
  <1>2. (i <= 3 /\ j <= 3) \/ (i \in 4..6 /\ j \in 4..6) \/ (i \in 7..10 /\ j \in 7..10) \/ (i = 11 /\ j = 11)
    BY <1>1 DEF Template, Service, FiveMin, Daily
  <1> QED BY <1>1, <1>2

Known == SchemaTypeOK /\ LedgerOrdered /\ BootsKnow

LEMMA RanBegins ==
  ASSUME Known, NEW b \in Boots
  PROVE  /\ Beginning(Ran(b)) /\ boots[b].applied \subseteq Ran(b)
         /\ boots[b].ran => CurrentMigration(b) \in All \ boots[b].applied
  <1>1. CASE ~boots[b].ran
    BY <1>1 DEF Known, LedgerOrdered, Ran
  <1>2. CASE boots[b].ran
    <2>1. PICK k \in 1..11 :
            /\ CurrentMigration(b) = Migrations[k] /\ Migrations[k] \notin boots[b].applied
            /\ \A i \in 1..11 : i < k => Migrations[i] \in boots[b].applied
      BY <1>2, NextStatement DEF Known, BootsKnow
    <2>2. Migrations[k] \in All
      BY AllStatements
    <2>3. \A i, j \in 1..11 : Migrations[i] = Migrations[j] => i = j
      BY StatementsDiffer
    <2> QED BY <1>2, <2>1, <2>2, <2>3, TheMigrations DEF Known, LedgerOrdered, Beginning, Ran
  <1> QED BY <1>1, <1>2

(* What the other processes have run is theirs.                            *)
LEMMA SameRan ==
  ASSUME NEW x \in Boots, boots'[x].applied = boots[x].applied
  PROVE  /\ Pending(x)' = Pending(x) /\ CurrentMigration(x)' = CurrentMigration(x)
         /\ boots'[x].ran = boots[x].ran => Ran(x)' = Ran(x)
  <1>1. Pending(x)' = Pending(x)
    BY DEF Pending
  <1>2. CurrentMigration(x)' = CurrentMigration(x)
    BY <1>1 DEF CurrentMigration
  <1> QED BY <1>1, <1>2 DEF Ran

LEMMA StatementKinds ==
  ASSUME NEW s \in All
  PROVE  \E v \in Views :
           \/ s = Drop(v) /\ v # Daily
           \/ s = AddColumn(v) /\ v # Daily
           \/ s = Create(v, "new")
           \/ s = Create(v, "old") /\ v = FiveMin
  BY AllStatements DEF Views, Template, Service, FiveMin, Daily

(* Only one view was ever made by an earlier text, and the daily summary   *)
(* is not dropped.                                                         *)
LEMMA OldViews ==
  ASSUME NEW v \in Views
  PROVE  /\ Create(v, "old") \in All => v = FiveMin
         /\ Drop(v) \in All => v # Daily
         /\ Create(Daily, "old") \notin All
  <1>1. ASSUME NEW w \in Views, Create(w, "old") \in All PROVE w = FiveMin
    BY <1>1, AllStatements DEF Create, Drop, AddColumn
  <1>2. ASSUME Drop(v) \in All PROVE v # Daily
    BY <1>2, AllStatements DEF Create, Drop, AddColumn, Daily, FiveMin, Template, Service
  <1>3. Daily \in Views /\ Daily # FiveMin
    BY DEF Views, Daily, FiveMin
  <1> QED BY <1>1, <1>2, <1>3

(* What a statement leaves of the views and the columns.                   *)
LEMMA Executed ==
  ASSUME SchemaTypeOK, NEW s \in All, Execute(s)
  PROVE  /\ views' \in [Views -> {"none", "old", "new"}] /\ columns' \subseteq Views
         /\ engine' \in {"none", "replacing", "legacy"} /\ (engine' = "legacy" <=> engine = "legacy")
         /\ columns \subseteq columns'
         /\ \A v \in Views :
              /\ s = AddColumn(v) => v \in columns'
              /\ s = Create(v, "new") => (v = Daily => v \in columns') /\ views'[v] # "none"
              /\ views'[v] = "old" => s # Drop(v) /\ (views[v] = "old" \/ s = Create(v, "old"))
              /\ views'[v] = "none" => s = Drop(v) \/ views[v] = "none"
  <1>1. PICK w \in Views :
           \/ s = Drop(w) /\ w # Daily
           \/ s = AddColumn(w) /\ w # Daily
           \/ s = Create(w, "new")
           \/ s = Create(w, "old") /\ w = FiveMin
    BY StatementKinds
  <1>2. CASE s = Drop(w)
    BY <1>2 DEF SchemaTypeOK, Execute, Drop, AddColumn, Create, Fresh, Views
  <1>3. CASE s = AddColumn(w)
    BY <1>3 DEF SchemaTypeOK, Execute, Drop, AddColumn, Create, Fresh, Views
  <1>4. CASE s = Create(w, "new")
    BY <1>4 DEF SchemaTypeOK, Execute, Drop, AddColumn, Create, Fresh, Views
  <1>5. CASE s = Create(w, "old")
    BY <1>5 DEF SchemaTypeOK, Execute, Drop, AddColumn, Create, Fresh, Views
  <1> QED BY <1>1, <1>2, <1>3, <1>4, <1>5

LEMMA MigrateKeeps ==
  ASSUME SchemaInv, NEW b \in Boots, Migrate(b)
  PROVE  SchemaInv'
  <1> DEFINE s == CurrentMigration(b)
  <1>1. Migrating(b) /\ Pending(b) # {} /\ ~boots[b].ran /\ Execute(s)
        /\ boots' = [boots EXCEPT ![b].ran = TRUE] /\ UNCHANGED <<ledger, torn, starts, schemaFaults>>
    BY DEF Migrate, Migrating
  <1>2. Known
    BY DEF SchemaInv, Known
  <1>3. PICK k \in 1..11 : s = Migrations[k] /\ s \notin boots[b].applied
    BY <1>1, NextStatement DEF SchemaInv
  <1>4. s \in All
    BY <1>3, AllStatements
  <1>5. \A x \in Boots : /\ boots'[x].applied = boots[x].applied /\ boots'[x].at = boots[x].at
                         /\ boots'[x].next = boots[x].next /\ boots'[x].late = boots[x].late
                         /\ x # b => boots'[x].ran = boots[x].ran
    BY <1>1 DEF SchemaInv, SchemaTypeOK
  <1>6. boots'[b].ran
    BY <1>1 DEF SchemaInv, SchemaTypeOK
  <1>7. /\ \A x \in Boots \ {b} : Ran(x)' = Ran(x)
        /\ Ran(b)' = Ran(b) \union {s} /\ Ran(b) = boots[b].applied
    BY <1>1, <1>5, <1>6, SameRan DEF Ran
  <1>8. \A x \in Boots : Migrating(x)' = Migrating(x)
    BY <1>5 DEF Migrating
  <1> HIDE DEF s
  <1>9. /\ \A t : Reached(t)' <=> Reached(t) \/ t = s
        /\ \A t : t # s /\ SomeOwes(t) => SomeOwes(t)'
        /\ \A t \in All : t # s /\ t \notin boots[b].applied => SomeOwes(t)'
    BY <1>1, <1>7, <1>8 DEF Reached, SomeOwes, Owes
  <1>10. SchemaTypeOK'
    <2>1. boots' \in [Boots -> [at : {"down", "ddl", "migrating", "serving"}, next : 1..Len(Ddl) + 1,
                                ran : BOOLEAN, applied : SUBSET All, attempt : 0..MaxAttempts,
                                late : BOOLEAN]]
      BY <1>1 DEF SchemaInv, SchemaTypeOK
    <2> QED BY <1>1, <1>4, <2>1, Executed DEF SchemaInv, SchemaTypeOK
  <1>11. LedgerOrdered'
    BY <1>1, <1>5 DEF SchemaInv, LedgerOrdered, Beginning
  <1>12. BootsKnow'
    <2>1. \A x \in Boots : Pending(x)' = Pending(x)
      BY <1>5, SameRan
    <2>2. engine' = "legacy" <=> engine = "legacy"
      BY <1>1, <1>4, Executed DEF SchemaInv
    <2>3. ~boots[b].late
      BY <1>1, <1>3, <1>4 DEF SchemaInv, BootsKnow
    <2> QED BY <1>1, <1>5, <1>8, <2>1, <2>2, <2>3 DEF SchemaInv, BootsKnow
  <1>13. ColumnsAdded'
    BY <1>1, <1>4, <1>9, Executed DEF SchemaInv, ColumnsAdded, Views
  <1>14. ASSUME ViewsOwed PROVE ViewsOwed'
    <2>1. views'[Daily] # "old"
      <3>1. s # Create(Daily, "old")
        <4> SUFFICES ASSUME s = Create(Daily, "old") PROVE FALSE
          OBVIOUS
        <4>1. Daily = FiveMin
          BY <1>4, AllStatements DEF Create, Drop, AddColumn
        <4> QED BY <4>1 DEF Daily, FiveMin
      <3>2. Daily \in Views
        BY DEF Views
      <3> QED BY <1>1, <1>4, <1>14, <3>1, <3>2, Executed DEF SchemaInv, ViewsOwed
    <2>2. ASSUME NEW v \in Views, Reached(Drop(v))', views'[v] = "old"
          PROVE  SomeOwes(Drop(v))'
      <3>1. s # Drop(v) /\ (views[v] = "old" \/ s = Create(v, "old"))
        BY <1>1, <1>4, <2>2, Executed DEF SchemaInv
      <3>2. CASE s = Create(v, "old")
        <4>1. v = FiveMin /\ Drop(v) \in All
          BY <1>4, <3>2, AllStatements DEF Create, Drop, AddColumn
        <4>2. Drop(v) \notin boots[b].applied
          BY <1>3, <3>2, <4>1, InOrder DEF SchemaInv, LedgerOrdered
        <4> QED BY <1>9, <3>1, <4>1, <4>2
      <3>3. CASE s # Create(v, "old")
        BY <1>9, <1>14, <2>2, <3>1, <3>3 DEF ViewsOwed
      <3> QED BY <3>2, <3>3
    <2>3. ASSUME NEW v \in Views, Reached(Create(v, "new"))', views'[v] = "none"
          PROVE  SomeOwes(Create(v, "new"))'
      <3>1. s # Create(v, "new") /\ (s = Drop(v) \/ views[v] = "none")
        BY <1>1, <1>4, <2>3, Executed DEF SchemaInv
      <3>2. CASE s = Drop(v)
        <4>1. v # Daily /\ Create(v, "new") \in All
          BY <1>4, <3>2, AllStatements DEF Create, Drop, AddColumn, Views, Daily, FiveMin, Template, Service
        <4>2. Create(v, "new") \notin boots[b].applied
          BY <1>3, <3>2, <4>1, InOrder DEF SchemaInv, LedgerOrdered
        <4> QED BY <1>9, <3>1, <4>1, <4>2
      <3>3. CASE s # Drop(v)
        BY <1>9, <1>14, <2>3, <3>1, <3>3 DEF ViewsOwed
      <3> QED BY <3>2, <3>3
    <2> QED BY <2>1, <2>2, <2>3 DEF ViewsOwed
  <1> QED BY <1>1, <1>10, <1>11, <1>12, <1>13, <1>14 DEF SchemaInv

LEMMA RecordKeeps ==
  ASSUME SchemaInv, NEW b \in Boots, Record(b)
  PROVE  SchemaInv'
  <1> DEFINE s == CurrentMigration(b)
  <1>1. /\ boots[b].ran /\ Migrating(b) /\ Pending(b) # {} /\ ledger' = ledger \union {s}
        /\ boots' = [boots EXCEPT ![b].ran = FALSE, ![b].applied = @ \union {s}]
        /\ UNCHANGED <<engine, views, columns, torn, starts, schemaFaults>>
    BY DEF Record, MigrationId, SchemaInv, BootsKnow
  <1>2. Known
    BY DEF SchemaInv, Known
  <1>3. s \in All \ boots[b].applied /\ Beginning(Ran(b))
    BY <1>1, <1>2, RanBegins
  <1>4. \A x \in Boots : /\ x # b => boots'[x] = boots[x]
                         /\ boots'[x].at = boots[x].at /\ boots'[x].late = boots[x].late
                         /\ boots'[x].next = boots[x].next
    BY <1>1 DEF SchemaInv, SchemaTypeOK
  <1>5. boots'[b].applied = Ran(b) /\ ~boots'[b].ran /\ Ran(b) = boots[b].applied \union {s}
    BY <1>1 DEF SchemaInv, SchemaTypeOK, Ran
  <1>6. /\ \A x \in Boots \ {b} : Ran(x)' = Ran(x) /\ Pending(x)' = Pending(x)
        /\ Ran(b)' = Ran(b)
    BY <1>4, <1>5, SameRan DEF Ran
  <1>7. \A x \in Boots : Migrating(x)' = Migrating(x)
    BY <1>4 DEF Migrating
  <1> HIDE DEF s
  <1>8. \A t : (Reached(t)' <=> Reached(t)) /\ (SomeOwes(t)' <=> SomeOwes(t))
    BY <1>1, <1>5, <1>6, <1>7 DEF Reached, SomeOwes, Owes
  <1>9. SchemaTypeOK'
    <2>1. boots' \in [Boots -> [at : {"down", "ddl", "migrating", "serving"}, next : 1..Len(Ddl) + 1,
                                ran : BOOLEAN, applied : SUBSET All, attempt : 0..MaxAttempts,
                                late : BOOLEAN]]
      BY <1>1, <1>3 DEF SchemaInv, SchemaTypeOK
    <2> QED BY <1>1, <1>3, <2>1 DEF SchemaInv, SchemaTypeOK
  <1>10. LedgerOrdered'
    <2>1. Beginning(boots[b].applied) /\ boots[b].applied \subseteq ledger /\ Beginning(ledger)
      BY DEF SchemaInv, LedgerOrdered
    <2>2. Beginning(ledger')
      BY <1>1, <1>3, <1>5, <2>1 DEF Beginning
    <2>3. \A x \in Boots : Beginning(boots'[x].applied) /\ boots'[x].applied \subseteq ledger'
      <3>1. \A x \in Boots : Beginning(boots[x].applied) /\ boots[x].applied \subseteq ledger
        BY DEF SchemaInv, LedgerOrdered
      <3> QED BY <1>1, <1>3, <1>4, <1>5, <2>1, <3>1
    <2> QED BY <2>2, <2>3 DEF LedgerOrdered, Beginning
  <1>11. BootsKnow'
    <2>1. engine # "legacy" /\ ~boots[b].late
      BY <1>1, <1>3 DEF SchemaInv, BootsKnow, Migrating
    <2>2. ledger = All => ledger' = All
      BY <1>1, <1>3
    <2>3. \A x \in Boots : boots'[x].ran => Migrating(x)' /\ Pending(x)' # {}
      BY <1>4, <1>5, <1>6, <1>7 DEF SchemaInv, BootsKnow
    <2>4. \A x \in Boots : Migrating(x)' /\ boots'[x].late => boots'[x].applied = All
      BY <1>4, <1>7, <2>1 DEF SchemaInv, BootsKnow
    <2>5. (\E x \in Boots : boots'[x].at = "serving") => ledger' = All
      BY <1>4, <2>2 DEF SchemaInv, BootsKnow
    <2> QED BY <1>1, <2>1, <2>3, <2>4, <2>5 DEF BootsKnow
  <1>12. ColumnsAdded' /\ (ViewsOwed => ViewsOwed')
    BY <1>1, <1>8 DEF SchemaInv, ColumnsAdded, ViewsOwed
  <1> QED BY <1>1, <1>9, <1>10, <1>11, <1>12 DEF SchemaInv

(* A process that begins, reads the ledger or serves.                      *)
LEMMA PassesKeeps ==
  ASSUME SchemaInv, NEW b \in Boots, Start(b) \/ ReadLedger(b) \/ Serve(b)
  PROVE  SchemaInv'
  <1>1. /\ \A x \in Boots \ {b} : boots'[x] = boots[x]
        /\ UNCHANGED <<engine, views, columns, ledger, torn, schemaFaults>> /\ ~boots[b].ran /\ ~boots'[b].ran
    <2>1. ~boots[b].ran
      BY DEF SchemaInv, BootsKnow, Migrating, Start, ReadLedger, Serve
    <2>2. ~boots'[b].ran
      <3>1. CASE Start(b)
        <4>1. boots'[b] = [Down EXCEPT !.at = "ddl", !.attempt = 1]
          BY <3>1 DEF Start, SchemaInv, SchemaTypeOK
        <4> QED BY <4>1 DEF Down
      <3>2. CASE ReadLedger(b)
        <4>1. boots'[b].ran = boots[b].ran
          BY <3>2 DEF ReadLedger, SchemaInv, SchemaTypeOK
        <4> QED BY <2>1, <4>1
      <3>3. CASE Serve(b)
        <4>1. boots'[b].ran = boots[b].ran
          BY <3>3 DEF Serve, SchemaInv, SchemaTypeOK
        <4> QED BY <2>1, <4>1
      <3> QED BY <3>1, <3>2, <3>3
    <2>3. \A x \in Boots \ {b} : boots'[x] = boots[x]
      BY DEF Start, ReadLedger, Serve, SchemaInv, SchemaTypeOK
    <2> QED BY <2>1, <2>2, <2>3 DEF Start, ReadLedger, Serve, database
  <1>2. \A x \in Boots \ {b} :
          Ran(x)' = Ran(x) /\ Pending(x)' = Pending(x) /\ Migrating(x)' = Migrating(x)
    BY <1>1, SameRan DEF Migrating
  <1>3. Ran(b) = boots[b].applied /\ Ran(b)' = boots'[b].applied
    BY <1>1 DEF Ran
  <1>4. /\ Migrating(b) => boots[b].applied = All /\ ledger = All
        /\ Migrating(b)' => boots'[b].applied = ledger /\ engine # "legacy"
        /\ boots'[b].at = "serving" => ledger = All
        /\ boots'[b].applied \in {{}, boots[b].applied, ledger}
        /\ Migrating(b)' /\ boots'[b].late => ledger = All
        /\ engine = "legacy" => boots'[b].at = "ddl" /\ boots'[b].next = 1
    <2>1. CASE Start(b)
      BY <2>1 DEF Start, Down, SchemaInv, SchemaTypeOK, BootsKnow, Migrating
    <2>2. CASE ReadLedger(b)
      BY <2>2, TheMigrations DEF ReadLedger, SchemaInv, SchemaTypeOK, BootsKnow, Migrating
    <2>3. CASE Serve(b)
      <3>1. boots[b].applied = All
        BY <2>3, AllStatements, TheMigrations
           DEF Serve, Pending, MigrationId, SchemaInv, SchemaTypeOK
      <3>2. ledger = All
        BY <3>1 DEF SchemaInv, LedgerOrdered, SchemaTypeOK
      <3>3. boots'[b].at = "serving" /\ boots'[b].applied = boots[b].applied
        BY <2>3 DEF Serve, SchemaInv, SchemaTypeOK
      <3>4. engine # "legacy"
        BY <2>3 DEF Serve, SchemaInv, BootsKnow
      <3> QED BY <3>1, <3>2, <3>3, <3>4 DEF Migrating
    <2> QED BY <2>1, <2>2, <2>3
  <1>5. SchemaTypeOK'
    <2>1. boots'[b] \in [at : {"down", "ddl", "migrating", "serving"}, next : 1..Len(Ddl) + 1,
                          ran : BOOLEAN, applied : SUBSET All, attempt : 0..MaxAttempts,
                          late : BOOLEAN]
      <3>1. CASE Start(b)
        <4>1. boots'[b] = [Down EXCEPT !.at = "ddl", !.attempt = 1]
          BY <3>1 DEF Start, SchemaInv, SchemaTypeOK
        <4>2. 1 \in 1..Len(Ddl) + 1 /\ 1 \in 0..MaxAttempts
          BY SchemaAssumption, TheMigrations
        <4> QED BY <4>1, <4>2 DEF Down
      <3>2. CASE ReadLedger(b)
        <4> DEFINE complete == (ledger = All)
        <4>1. complete \in BOOLEAN /\ ledger \in SUBSET All
          BY DEF SchemaInv, SchemaTypeOK
        <4>2. boots'[b] = [boots[b] EXCEPT !.at = "migrating", !.applied = ledger, !.late = complete]
          BY <3>2 DEF ReadLedger, SchemaInv, SchemaTypeOK
        <4> HIDE DEF complete
        <4> QED BY <4>1, <4>2 DEF SchemaInv, SchemaTypeOK
      <3>3. CASE Serve(b)
        BY <3>3 DEF Serve, SchemaInv, SchemaTypeOK
      <3> QED BY <3>1, <3>2, <3>3
    <2>2. boots' = [boots EXCEPT ![b] = boots'[b]]
      BY DEF Start, ReadLedger, Serve, SchemaInv, SchemaTypeOK
    <2>3. starts' \in 0..MaxStarts
      BY SchemaAssumption DEF Start, ReadLedger, Serve, SchemaInv, SchemaTypeOK
    <2> QED BY <1>1, <2>1, <2>2, <2>3 DEF SchemaInv, SchemaTypeOK
  <1>6. LedgerOrdered'
    BY <1>1, <1>4 DEF SchemaInv, LedgerOrdered, Beginning
  <1>7. BootsKnow'
    BY <1>1, <1>2, <1>4 DEF SchemaInv, BootsKnow, Migrating
  <1>8. \A t \in All : Reached(t)' => Reached(t)
    BY <1>1, <1>2, <1>3, <1>4 DEF Reached
  <1>9. \A t : SomeOwes(t) => SomeOwes(t)'
    BY <1>1, <1>2, <1>3, <1>4 DEF SomeOwes, Owes
  <1>10. \A t : Reached(t)' => t \in All
    BY <1>1, <1>2, <1>3, <1>4, RanBegins DEF Reached, SchemaInv, LedgerOrdered, Beginning, Known
  <1>11. ColumnsAdded' /\ (ViewsOwed => ViewsOwed')
    BY <1>1, <1>8, <1>9, <1>10 DEF SchemaInv, ColumnsAdded, ViewsOwed
  <1> QED BY <1>1, <1>5, <1>6, <1>7, <1>11 DEF SchemaInv

(* A statement of DDL_STATEMENTS creates a view that is not there.         *)
LEMMA RunDdlKeeps ==
  ASSUME SchemaInv, NEW b \in Boots, RunDdl(b)
  PROVE  SchemaInv'
  <1>1. PICK w \in {Template, Service} : Execute(Create(w, "new")) /\ Ddl[boots[b].next] = Create(w, "new")
    BY TheMigrations DEF RunDdl, SchemaInv, SchemaTypeOK
  <1>2. Create(w, "new") \in All
    BY <1>1, AllStatements
  <1>3. /\ boots' = [boots EXCEPT ![b].next = @ + 1] /\ boots[b].at = "ddl" /\ boots[b].next \in 1..2
        /\ UNCHANGED <<ledger, torn, starts, schemaFaults>> /\ engine # "legacy"
    BY TheMigrations DEF RunDdl, SchemaInv, SchemaTypeOK
  <1>4. \A x \in Boots : /\ boots'[x].applied = boots[x].applied /\ boots'[x].at = boots[x].at
                         /\ boots'[x].ran = boots[x].ran /\ boots'[x].late = boots[x].late
    BY <1>3 DEF SchemaInv, SchemaTypeOK
  <1>5. \A x \in Boots :
          Ran(x)' = Ran(x) /\ Pending(x)' = Pending(x) /\ Migrating(x)' = Migrating(x)
    BY <1>4, SameRan DEF Migrating
  <1>6. \A t : (Reached(t)' <=> Reached(t)) /\ (SomeOwes(t)' <=> SomeOwes(t))
    BY <1>3, <1>5 DEF Reached, SomeOwes, Owes
  <1>7. SchemaTypeOK'
    <2>1. boots' \in [Boots -> [at : {"down", "ddl", "migrating", "serving"}, next : 1..Len(Ddl) + 1,
                                ran : BOOLEAN, applied : SUBSET All, attempt : 0..MaxAttempts,
                                late : BOOLEAN]]
      BY <1>3, TheMigrations DEF SchemaInv, SchemaTypeOK
    <2> QED BY <1>1, <1>2, <1>3, <2>1, Executed DEF SchemaInv, SchemaTypeOK
  <1>8. LedgerOrdered' /\ BootsKnow'
    <2>1. engine' # "legacy"
      BY <1>1, <1>2, <1>3, Executed DEF SchemaInv
    <2> QED BY <1>3, <1>4, <1>5, <2>1 DEF SchemaInv, LedgerOrdered, Beginning, BootsKnow
  <1>9. ColumnsAdded'
    BY <1>1, <1>2, <1>6, Executed DEF SchemaInv, ColumnsAdded, Views
  <1>10. ASSUME ViewsOwed PROVE ViewsOwed'
    <2>1. \A v \in Views : /\ views'[v] = "old" => views[v] = "old"
                           /\ views'[v] = "none" => views[v] = "none"
      <3>1. \A v \in Views : Create(w, "new") # Create(v, "old") /\ Create(w, "new") # Drop(v)
        BY DEF Create, Drop
      <3> QED BY <1>1, <1>2, <3>1, Executed DEF SchemaInv
    <2>2. Daily \in Views
      BY DEF Views
    <2> QED BY <1>6, <1>10, <2>1, <2>2 DEF ViewsOwed
  <1> QED BY <1>3, <1>7, <1>8, <1>9, <1>10 DEF SchemaInv

(* An attempt that fails, with or without effect, or an exit: unless it is *)
(* torn, the process was the only one at the migrations, and the ledger    *)
(* holds what it has run but for the statement it is at.                   *)
LEMMA LeavesKeeps ==
  ASSUME SchemaInv, NEW b \in Boots, AttemptFails(b) \/ Killed(b)
  PROVE  SchemaInv'
  <1> DEFINE s == CurrentMigration(b)
  <1>1. /\ \A x \in Boots \ {b} : boots'[x] = boots[x]
        /\ boots'[b].at \in {"down", "ddl"} /\ ~boots'[b].ran /\ boots'[b].applied = {}
        /\ boots'[b].next = 1 /\ torn' = Torn(b) /\ UNCHANGED starts
        /\ boots'[b] \in [at : {"down", "ddl", "migrating", "serving"}, next : 1..Len(Ddl) + 1,
                          ran : BOOLEAN, applied : SUBSET All, attempt : 0..MaxAttempts, late : BOOLEAN]
        /\ boots' = [boots EXCEPT ![b] = boots'[b]]
    <2>1. 1 \in 1..Len(Ddl) + 1 /\ 0 \in 0..MaxAttempts
      BY SchemaAssumption, TheMigrations
    <2>2. CASE Killed(b)
      <3>1. boots' = [boots EXCEPT ![b] = Down]
        BY <2>2 DEF Killed
      <3> QED BY <2>1, <2>2, <3>1 DEF Killed, Down, SchemaInv, SchemaTypeOK
    <2>3. CASE AttemptFails(b)
      <3>1. PICK q \in {Down, [Down EXCEPT !.at = "ddl", !.attempt = boots[b].attempt + 1]} :
              /\ boots' = [boots EXCEPT ![b] = q]
              /\ q # Down => boots[b].attempt < MaxAttempts
        BY <2>3 DEF AttemptFails
      <3>2. boots[b].attempt \in 0..MaxAttempts
        BY DEF SchemaInv, SchemaTypeOK
      <3>3. boots[b].attempt < MaxAttempts => boots[b].attempt + 1 \in 0..MaxAttempts
        BY <3>2, SchemaAssumption
      <3>4. /\ q.at \in {"down", "ddl"} /\ q.ran = FALSE /\ q.applied = {} /\ q.next = 1
            /\ q.attempt \in 0..MaxAttempts /\ q.late = FALSE
            /\ q = [at |-> q.at, next |-> q.next, ran |-> q.ran, applied |-> q.applied,
                    attempt |-> q.attempt, late |-> q.late]
        <4>1. CASE q = Down
          BY <2>1, <4>1 DEF Down
        <4>2. CASE q = [Down EXCEPT !.at = "ddl", !.attempt = boots[b].attempt + 1] /\ q # Down
          <5>1. boots[b].attempt + 1 \in 0..MaxAttempts
            BY <3>1, <3>3, <4>2
          <5>2. q = [at |-> "ddl", next |-> 1, ran |-> FALSE, applied |-> {},
                     attempt |-> boots[b].attempt + 1, late |-> FALSE]
            BY <4>2 DEF Down
          <5> QED BY <5>1, <5>2
        <4> QED BY <3>1, <4>1, <4>2
      <3>5. q \in [at : {"down", "ddl", "migrating", "serving"}, next : 1..Len(Ddl) + 1,
                   ran : BOOLEAN, applied : SUBSET All, attempt : 0..MaxAttempts, late : BOOLEAN]
        BY <2>1, <3>4
      <3>6. boots'[b] = q /\ \A x \in Boots \ {b} : boots'[x] = boots[x]
        BY <3>1 DEF SchemaInv, SchemaTypeOK
      <3>7. torn' = Torn(b) /\ UNCHANGED starts
        BY <2>3 DEF AttemptFails
      <3>8. boots' = [boots EXCEPT ![b] = boots'[b]]
        BY <3>1, <3>6
      <3>9. ~boots'[b].ran /\ boots'[b].applied = {} /\ boots'[b].next = 1 /\ boots'[b].at \in {"down", "ddl"}
        BY <3>4, <3>6
      <3> HIDE DEF Torn
      <3> QED BY <3>5, <3>6, <3>7, <3>8, <3>9
    <2> QED BY <2>2, <2>3
  <1>2. \/ UNCHANGED database
        \/ /\ Migrating(b) /\ Pending(b) # {} /\ ~boots[b].ran /\ Execute(s) /\ UNCHANGED ledger
        \/ /\ boots[b].ran /\ ledger' = ledger \union {s} /\ UNCHANGED <<engine, views, columns>>
    BY DEF AttemptFails, Killed, database, MigrationId
  <1>3. schemaFaults' \in 0..MaxFailedCalls
    BY SchemaAssumption DEF AttemptFails, Killed, SchemaInv, SchemaTypeOK
  <1>4. Known
    BY DEF SchemaInv, Known
  <1>5. boots[b].ran => s \in All \ boots[b].applied /\ s \in Ran(b) /\ Migrating(b) /\ Beginning(Ran(b))
    BY <1>4, RanBegins DEF Ran, Known, BootsKnow
  <1>6. Execute(s) /\ Migrating(b) /\ Pending(b) # {} => s \in All \ boots[b].applied
    <2>1. ASSUME Pending(b) # {} PROVE s \in All \ boots[b].applied
      BY <2>1, NextStatement, AllStatements DEF SchemaInv
    <2> QED BY <2>1
  <1>7. \A x \in Boots \ {b} :
          Ran(x)' = Ran(x) /\ Pending(x)' = Pending(x) /\ Migrating(x)' = Migrating(x)
    BY <1>1, SameRan DEF Migrating
  <1>8. ~Migrating(b)' /\ Ran(b)' = {}
    BY <1>1 DEF Migrating, Ran
  <1> HIDE DEF s
  <1>9. ledger \subseteq ledger' /\ ledger' \subseteq All /\ (engine' = "legacy" <=> engine = "legacy")
        /\ (engine = "legacy" => ledger' = {}) /\ columns \subseteq columns'
    <2>1. CASE UNCHANGED database
      BY <2>1 DEF database, SchemaInv, SchemaTypeOK, BootsKnow
    <2>2. CASE /\ Migrating(b) /\ Pending(b) # {} /\ ~boots[b].ran /\ Execute(s) /\ UNCHANGED ledger
      BY <1>6, <2>2, Executed DEF SchemaInv, SchemaTypeOK, BootsKnow
    <2>3. CASE /\ boots[b].ran /\ ledger' = ledger \union {s} /\ UNCHANGED <<engine, views, columns>>
      BY <1>5, <2>3 DEF SchemaInv, SchemaTypeOK, BootsKnow, Migrating
    <2> QED BY <1>2, <2>1, <2>2, <2>3
  <1>10. \A t : Reached(t)' => Reached(t)
    BY <1>2, <1>5, <1>7, <1>8 DEF Reached, database
  <1>11. SchemaTypeOK'
    <2>1. boots' \in [Boots -> [at : {"down", "ddl", "migrating", "serving"}, next : 1..Len(Ddl) + 1,
                                ran : BOOLEAN, applied : SUBSET All, attempt : 0..MaxAttempts,
                                late : BOOLEAN]]
      BY <1>1 DEF SchemaInv, SchemaTypeOK
    <2>2. torn' \in BOOLEAN
      BY <1>1 DEF Torn, SchemaInv, SchemaTypeOK
    <2>3. /\ views' \in [Views -> {"none", "old", "new"}] /\ columns' \subseteq Views
          /\ engine' \in {"none", "replacing", "legacy"}
      BY <1>2, <1>6, Executed DEF database, SchemaInv, SchemaTypeOK
    <2> QED BY <1>1, <1>3, <1>9, <2>1, <2>2, <2>3 DEF SchemaInv, SchemaTypeOK
  <1>12. LedgerOrdered'
    <2>1. Beginning(ledger')
      BY <1>2, <1>5 DEF SchemaInv, LedgerOrdered, Beginning, Ran, database
    <2>2. \A x \in Boots : Beginning(boots'[x].applied) /\ boots'[x].applied \subseteq ledger'
      BY <1>1, <1>9 DEF SchemaInv, LedgerOrdered, Beginning
    <2> QED BY <2>1, <2>2 DEF LedgerOrdered, Beginning
  <1>13. BootsKnow'
    BY <1>1, <1>7, <1>8, <1>9 DEF SchemaInv, BootsKnow
  <1>14. ColumnsAdded'
    BY <1>9, <1>10 DEF SchemaInv, ColumnsAdded
  <1>15. ASSUME ~torn' PROVE ViewsOwed'
    <2>1. ViewsOwed /\ ~torn
      BY <1>1, <1>15 DEF Torn, SchemaInv
    <2>2. CASE ~Migrating(b)
      <3>1. UNCHANGED database
        BY <1>2, <1>5, <2>2
      <3>2. \A t : SomeOwes(t) => SomeOwes(t)'
        BY <1>7, <2>2 DEF SomeOwes, Owes
      <3> QED BY <1>10, <2>1, <3>1, <3>2 DEF ViewsOwed, database
    <2>3. CASE Migrating(b)
      <3>1. ledger = boots[b].applied /\ \A x \in Boots \ {b} : ~Migrating(x)
        BY <1>1, <1>15, <2>3 DEF Torn, SchemaInv, LedgerOrdered
      <3>2. \A t : Reached(t)' <=> t \in ledger'
        BY <1>7, <1>8, <3>1 DEF Reached
      <3>3. \A t : SomeOwes(t) => t \notin Ran(b)
        BY <3>1 DEF SomeOwes, Owes
      <3>4. ledger' \subseteq Ran(b)
        BY <1>2, <1>5, <3>1 DEF Ran, database
      <3>5. ASSUME NEW v \in Views, Drop(v) \in ledger' PROVE views'[v] # "old"
        <4>1. views[v] # "old"
          BY <1>10, <2>1, <3>2, <3>3, <3>4, <3>5 DEF ViewsOwed
        <4>2. CASE UNCHANGED views
          BY <4>1, <4>2
        <4>3. CASE /\ Migrating(b) /\ Pending(b) # {} /\ Execute(s) /\ UNCHANGED ledger
          <5>1. s = Create(v, "old") => v = FiveMin
            BY <1>6, <4>3, OldViews
          <5>2. s # Create(v, "old")
            BY <1>6, <3>1, <3>5, <4>3, <5>1, InOrder DEF SchemaInv, LedgerOrdered
          <5> QED BY <1>6, <4>1, <4>3, <5>2, Executed DEF SchemaInv
        <4> QED BY <1>2, <4>2, <4>3 DEF database
      <3>6. ASSUME NEW v \in Views, Create(v, "new") \in ledger' PROVE views'[v] # "none"
        <4>1. views[v] # "none"
          BY <1>10, <2>1, <3>2, <3>3, <3>4, <3>6 DEF ViewsOwed
        <4>2. CASE UNCHANGED views
          BY <4>1, <4>2
        <4>3. CASE /\ Migrating(b) /\ Pending(b) # {} /\ Execute(s) /\ UNCHANGED ledger
          <5>1. s = Drop(v) => v # Daily
            BY <1>6, <4>3, OldViews
          <5>2. s # Drop(v)
            BY <1>6, <3>1, <3>6, <4>3, <5>1, InOrder DEF SchemaInv, LedgerOrdered
          <5> QED BY <1>6, <4>1, <4>3, <5>2, Executed DEF SchemaInv
        <4> QED BY <1>2, <4>2, <4>3 DEF database
      <3>7. views'[Daily] # "old"
        <4>1. Daily \in Views /\ views[Daily] # "old"
          BY <2>1 DEF Views, ViewsOwed
        <4>2. CASE UNCHANGED views
          BY <4>1, <4>2
        <4>3. CASE /\ Migrating(b) /\ Pending(b) # {} /\ Execute(s) /\ UNCHANGED ledger
          <5>1. s # Create(Daily, "old")
            BY <1>6, <4>1, <4>3, OldViews
          <5> QED BY <1>6, <4>1, <4>3, <5>1, Executed DEF SchemaInv
        <4> QED BY <1>2, <4>2, <4>3 DEF database
      <3> QED BY <3>2, <3>5, <3>6, <3>7 DEF ViewsOwed
    <2> QED BY <2>2, <2>3
  <1> QED BY <1>11, <1>12, <1>13, <1>14, <1>15 DEF SchemaInv

LEMMA SchemaBeginsHolds == SchemaBegins => SchemaInv
  <1> SUFFICES ASSUME SchemaBegins PROVE SchemaInv
    OBVIOUS
  <1>1. \A b \in Boots : boots[b] = Down
    BY DEF SchemaBegins
  <1>2. SchemaTypeOK
    <2>1. Down \in [at : {"down", "ddl", "migrating", "serving"}, next : 1..Len(Ddl) + 1,
                    ran : BOOLEAN, applied : SUBSET All, attempt : 0..MaxAttempts, late : BOOLEAN]
      BY SchemaAssumption, TheMigrations DEF Down
    <2>2. boots \in [Boots -> [at : {"down", "ddl", "migrating", "serving"}, next : 1..Len(Ddl) + 1,
                               ran : BOOLEAN, applied : SUBSET All, attempt : 0..MaxAttempts,
                               late : BOOLEAN]]
      BY <2>1 DEF SchemaBegins
    <2>3. /\ engine \in {"none", "replacing", "legacy"} /\ views \in [Views -> {"none", "old", "new"}]
          /\ columns \subseteq Views /\ ledger \subseteq All
      <3>1. CASE views = [v \in Views |-> "none"]
        BY <3>1 DEF SchemaBegins
      <3>2. CASE views = [v \in Views |-> IF v \in {Template, Service} THEN "old" ELSE "none"]
        BY <3>2 DEF SchemaBegins
      <3>3. \/ views = [v \in Views |-> "none"]
            \/ views = [v \in Views |-> IF v \in {Template, Service} THEN "old" ELSE "none"]
        BY DEF SchemaBegins
      <3> QED BY <3>1, <3>2, <3>3
    <2>4. torn \in BOOLEAN /\ starts \in 0..MaxStarts /\ schemaFaults \in 0..MaxFailedCalls
      <3>1. torn = FALSE /\ starts = 0 /\ schemaFaults = 0
        BY DEF SchemaBegins
      <3>2. 0 \in 0..MaxStarts /\ 0 \in 0..MaxFailedCalls
        BY SchemaAssumption
      <3> QED BY <3>1, <3>2
    <2> QED BY <2>2, <2>3, <2>4 DEF SchemaTypeOK
  <1>3. LedgerOrdered /\ BootsKnow /\ \A t : ~Reached(t)
    BY <1>1 DEF SchemaBegins, LedgerOrdered, Beginning, BootsKnow, Down, Migrating, Reached
  <1>4. views[Daily] # "old"
    BY DEF SchemaBegins, Views, Daily, Template, Service
  <1> QED BY <1>2, <1>3, <1>4 DEF SchemaInv, ColumnsAdded, ViewsOwed

LEMMA SchemaNextKeeps == SchemaInv /\ [SchemaNext]_schema => SchemaInv'
  <1> SUFFICES ASSUME SchemaInv, [SchemaNext]_schema PROVE SchemaInv'
    OBVIOUS
  <1>1. CASE UNCHANGED schema
    <2>1. UNCHANGED <<database, engine, views, columns, ledger, boots, torn, starts, schemaFaults>>
      BY <1>1 DEF schema, database
    <2>2. \A b \in Boots :
            Ran(b)' = Ran(b) /\ Pending(b)' = Pending(b) /\ Migrating(b)' = Migrating(b)
      BY <2>1, SameRan DEF Migrating
    <2>3. \A t : Reached(t)' = Reached(t) /\ SomeOwes(t)' = SomeOwes(t)
      BY <2>1, <2>2 DEF Reached, SomeOwes, Owes
    <2> QED BY <2>1, <2>2, <2>3
            DEF SchemaInv, SchemaTypeOK, LedgerOrdered, Beginning, BootsKnow, ColumnsAdded, ViewsOwed
  <1> QED BY <1>1, MigrateKeeps, RecordKeeps, PassesKeeps, RunDdlKeeps, LeavesKeeps DEF SchemaNext

(* "The ledger makes each statement run exactly once", so that no row is   *)
(* lost from the aggregates: what serves finds every view there as its     *)
(* latest text made it, over tables with their columns, whatever failed    *)
(* before and whoever else starts, unless a process that began before the  *)
(* migrations were done is still at them or ended amid another's; and a    *)
(* database of the legacy engine is not touched.                           *)
THEOREM SchemaIsCurrent == SchemaSpec => []SchemaSound
  <1>1. ASSUME SchemaInv PROVE ViewsCurrent
    <2> SUFFICES ASSUME \E b \in Boots : boots[b].at = "serving", ~torn,
                        \A b \in Boots : Migrating(b) => boots[b].late
                 PROVE  views = [v \in Views |-> "new"] /\ columns = Views
      BY DEF ViewsCurrent
    <2>1. ledger = All /\ ViewsOwed
      BY <1>1 DEF SchemaInv, BootsKnow
    <2>2. \A t : ~SomeOwes(t)
      BY <1>1 DEF SomeOwes, Owes, SchemaInv, BootsKnow, Ran
    <2>3. ASSUME NEW v \in Views PROVE views[v] = "new" /\ v \in columns
      <3>1. Create(v, "new") \in All /\ (v # Daily => Drop(v) \in All /\ AddColumn(v) \in All)
        BY AllStatements DEF Views
      <3>2. views[v] # "none"
        BY <2>1, <2>2, <3>1 DEF ViewsOwed, Reached
      <3>3. views[v] # "old"
        BY <2>1, <2>2, <3>1 DEF ViewsOwed, Reached
      <3>4. v \in columns
        BY <1>1, <2>1, <3>1 DEF SchemaInv, ColumnsAdded, Reached
      <3> QED BY <1>1, <3>2, <3>3, <3>4 DEF SchemaInv, SchemaTypeOK
    <2> QED BY <1>1, <2>3 DEF SchemaInv, SchemaTypeOK
  <1>2. SchemaInv => SchemaTypeOK /\ LegacyRefused
    BY DEF SchemaInv, BootsKnow, LegacyRefused
  <1> QED BY <1>1, <1>2, SchemaBeginsHolds, SchemaNextKeeps, PTL DEF SchemaSpec, SchemaSound

-----------------------------------------------------------------------------
(* Start and shutdown. *)

(* Where the shutdown is: the intervals up to the one it waits for are     *)
(* cleared, and of the sweeps it has waited for only those are at work     *)
(* that outlasted the wait or began after it.                              *)
Waited == CASE phase \in {"booting", "serving"} -> {}
            [] phase = "stopping" -> {StopOrder[n] : n \in 1..(awaited - 1)}
            [] OTHER -> Sweeps

ShutdownKnows ==
  /\ phase \in {"booting", "serving"} => awaited = 1
  /\ phase = "stopping" => awaited \in 1..5 /\ StopOrder[awaited] \notin timers
  /\ phase # "exited" =>
       /\ code = 0 /\ timers \cap Waited = {}
       /\ (running \cap Waited) \ {"retention"} \subseteq expired \union late
       /\ \A r \in Calls : request[r] # "cut"
  /\ phase = "closing" => Drained
  /\ phase \notin {"booting", "serving"} => "recovery" \notin timers

LifecycleInv == LifecycleTypeOK /\ ShutdownKnows /\ Answered

LEMMA StopsInOrder ==
  /\ StopOrder[1] = "recovery" /\ StopOrder[2] = "retention" /\ StopOrder[3] = "consumer"
  /\ StopOrder[4] = "reconcile" /\ StopOrder[5] = "compaction"
  BY DEF StopOrder

LEMMA AfterStop ==
  ASSUME NEW n \in 1..5
  PROVE  /\ {StopOrder[m] : m \in 1..n} = {StopOrder[m] : m \in 1..(n - 1)} \union {StopOrder[n]}
         /\ n = 5 => {StopOrder[m] : m \in 1..n} = Sweeps
         /\ StopOrder[n] \in Sweeps
  BY StopsInOrder DEF Sweeps

LEMMA LifecycleInitHolds == LifecycleInit => LifecycleInv
  <1> SUFFICES ASSUME LifecycleInit PROVE LifecycleInv
    OBVIOUS
  <1>1. LifecycleTypeOK
    <2>1. request \in [Calls -> {"idle", "open", "answered", "cut"}]
      BY DEF LifecycleInit
    <2>2. code \in 0..2 /\ awaited \in 1..6 /\ sweeps \in 0..MaxSweeps
      BY LifecycleAssumption DEF LifecycleInit
    <2> QED BY <2>1, <2>2 DEF LifecycleInit, LifecycleTypeOK
  <1>2. ShutdownKnows /\ Answered
    BY DEF LifecycleInit, ShutdownKnows, Waited, Answered
  <1> QED BY <1>1, <1>2 DEF LifecycleInv

LEMMA ExitKeeps ==
  ASSUME LifecycleInv, NEW status \in 0..2, Exit(status), forced' \in BOOLEAN,
         status = 0 => phase = "closing"
  PROVE  LifecycleInv'
  BY DEF LifecycleInv, LifecycleTypeOK, ShutdownKnows, Waited, Answered, Exit, Drained

LEMMA LifecycleNextKeeps == LifecycleInv /\ [LifecycleNext]_lifecycle => LifecycleInv'
  <1> SUFFICES ASSUME LifecycleInv, [LifecycleNext]_lifecycle PROVE LifecycleInv'
    OBVIOUS
  <1> USE LifecycleAssumption
  <1>1. CASE BootFails \/ ExitCleanly \/ ForceExit
    <2>1. forced' \in BOOLEAN
      BY <1>1 DEF BootFails, ExitCleanly, ForceExit, LifecycleInv, LifecycleTypeOK
    <2>2. Exit(1) \/ (Exit(0) /\ phase = "closing")
      BY <1>1 DEF BootFails, ExitCleanly, ForceExit
    <2> QED BY <2>1, <2>2, ExitKeeps
  <1>2. CASE Signal
    <2>1. CASE phase = "booting" /\ Exit(2)
      BY <1>2, <2>1, ExitKeeps DEF Signal, LifecycleInv, LifecycleTypeOK
    <2>2. CASE phase = "serving"
      BY <1>2, <2>2, StopsInOrder DEF Signal, Exit, LifecycleInv, LifecycleTypeOK, ShutdownKnows, Waited, Answered, Drained
    <2> QED BY <1>2, <2>1, <2>2 DEF Signal
  <1>3. CASE CreateApp \/ Listen
    BY <1>3 DEF CreateApp, Listen, LifecycleInv, LifecycleTypeOK, ShutdownKnows, Waited, Answered, Drained, Sweeps
  <1>4. CASE CloseDb
    BY <1>4 DEF CloseDb, LifecycleInv, LifecycleTypeOK, ShutdownKnows, Waited, Answered, Drained
  <1>5. ASSUME NEW w \in Sweeps, Tick(w) PROVE LifecycleInv'
    BY <1>5 DEF Tick, Alive, BeginSweep, LifecycleInv, LifecycleTypeOK, ShutdownKnows, Waited, Answered, Drained
  <1>6. ASSUME NEW w \in Sweeps, SweepEnds(w) PROVE LifecycleInv'
    BY <1>6 DEF SweepEnds, Alive, LifecycleInv, LifecycleTypeOK, ShutdownKnows, Waited, Answered, Drained
  <1>7. ASSUME NEW w \in Sweeps, NextStop(w) PROVE LifecycleInv'
    <2>1. awaited \in 1..5 /\ w = StopOrder[awaited] /\ w \notin timers /\ phase = "stopping"
      BY <1>7 DEF NextStop, LifecycleInv, ShutdownKnows
    <2>2. Waited' = Waited \union {w} /\ w \in Sweeps
      <3>1. CASE awaited = 5
        BY <1>7, <2>1, <3>1, AfterStop DEF NextStop, Waited
      <3>2. CASE awaited # 5
        <4>1. phase' = "stopping" /\ awaited' = awaited + 1
          BY <1>7, <3>2, <2>1 DEF NextStop
        <4>2. awaited' - 1 = awaited
          BY <4>1, <2>1
        <4>3. Waited' = {StopOrder[m] : m \in 1..awaited}
          BY <4>1, <4>2 DEF Waited
        <4> QED BY <2>1, <4>3, AfterStop DEF Waited
      <3> QED BY <3>1, <3>2
    <2>3. w \in running => w \in expired' \/ w = "retention"
      BY <1>7 DEF NextStop, Stopped, Waits
    <2>4. timers' \subseteq timers /\ (phase' = "stopping" => awaited' \in 1..5 /\ StopOrder[awaited'] \notin timers')
      BY <1>7, <2>1 DEF NextStop, LifecycleInv, LifecycleTypeOK
    <2> QED BY <1>7, <2>1, <2>2, <2>3, <2>4 DEF NextStop, Stopped, LifecycleInv, LifecycleTypeOK, ShutdownKnows, Answered, Drained
  <1>8. ASSUME NEW c \in checking, HealthChecked(c) PROVE LifecycleInv'
    BY <1>8 DEF HealthChecked, BeginSweep, Alive, Sweeps, LifecycleInv, LifecycleTypeOK, ShutdownKnows, Waited, Answered, Drained
  <1>9. ASSUME NEW r \in Calls, Accept(r) \/ Answer(r) PROVE LifecycleInv'
    BY <1>9 DEF Accept, Answer, Alive, LifecycleInv, LifecycleTypeOK, ShutdownKnows, Waited, Answered, Drained
  <1>10. CASE UNCHANGED lifecycle
    BY <1>10 DEF lifecycle, LifecycleInv, LifecycleTypeOK, ShutdownKnows, Waited, Answered, Drained
  <1> QED BY <1>1, <1>2, <1>3, <1>4, <1>5, <1>6, <1>7, <1>8, <1>9, <1>10 DEF LifecycleNext

(* "Drain in-flight requests", "let an in-flight sweep settle before       *)
(* shutdown closes the DB": a process that exits with 0 has answered       *)
(* whatever it accepted, and while it closes the client no sweep is at     *)
(* work but those no stop() waits for, or waited for long enough; for any  *)
(* number of requests and sweeps, whenever the signal comes.               *)
THEOREM ShutdownsAreOrderly == LifecycleSpec => []LifecycleSound
  <1>1. LifecycleInv => LifecycleSound
    BY DEF LifecycleInv, LifecycleSound, ShutdownKnows, Waited, SettledFirst, LifecycleTypeOK
  <1> QED BY <1>1, LifecycleInitHolds, LifecycleNextKeeps, PTL DEF LifecycleSpec

-----------------------------------------------------------------------------
(* Threshold rules.                                                        *)

(* No evaluation is of a time to come.                                     *)
EvalsBegan == \A e \in Evaluations : evals[e].time <= minute

(* A rule whose breach is open and that is not excused is on, and every    *)
(* evaluation in progress has it on: none of them drops its mark.          *)
KnownAsOn(r) ==
  rules[r].on /\ \A e \in Evaluations : evals[e] = Thresholds!Idle \/ evals[e].rules[r].on

OpenIsKnown ==
  \A r \in Rules \ off : told[r] = "breach" => r \in flagged /\ KnownAsOn(r)

(* The evaluator remembers the last breach, or its cooldown was pruned,    *)
(* which takes twice the default period.                                   *)
BreachRemembered ==
  \A r \in Rules : breach[r].time # Thresholds!Never =>
    /\ breach[r].time <= minute
    /\ \/ cooldowns[r] = breach[r].time
       \/ cooldowns[r] = Thresholds!Never /\ minute - breach[r].time >= 2 * Default + 1

ThresholdInv == Thresholds!TypeOK /\ EvalsBegan /\ OpenIsKnown /\ BreachRemembered

Evals == [time : -1..MaxMinutes, rules : [Rules -> Thresholds!Rule],
          left : SUBSET Thresholds!Groups, asked : SUBSET Thresholds!Groups]

(* Where an evaluation that goes on, or ends, leaves its slot.             *)
Leaves(e, ev) ==
  \E next \in Evals :
    /\ evals' = [evals EXCEPT ![e] = next]
    /\ next = Thresholds!Idle \/ (next.rules = ev.rules /\ next.time = ev.time)

(* What it leaves of the cooldowns cool.                                   *)
KeptOrPruned(cool, ev) ==
  \A r \in Rules :
    \/ cooldowns'[r] = cool[r]
    \/ cooldowns'[r] = Thresholds!Never /\ cool[r] < ev.time - 2 * Default

LEMMA IdleIsTyped ==
  ASSUME Thresholds!ThresholdAssumption PROVE Thresholds!Idle \in Evals
  <1>1. Thresholds!Off \in Thresholds!Rule /\ -1 \in -1..MaxMinutes
    BY DEF Thresholds!Off, Thresholds!Rule, Thresholds!ThresholdAssumption
  <1> QED BY <1>1 DEF Thresholds!Idle, Evals, Thresholds!Never

(* What remains when an evaluation goes on after an answer, or ends.       *)
LEMMA GoingOn ==
  ASSUME Thresholds!ThresholdAssumption, NEW e \in Evaluations, NEW ev \in Evals, ev.asked = {},
         NEW marks \in SUBSET Rules, NEW cool \in [Rules -> -1..MaxMinutes],
         evals \in [Evaluations -> Evals], Thresholds!GoesOn(e, ev, marks, cool)
  PROVE  /\ Leaves(e, ev)
         /\ flagged' \subseteq marks
         /\ \A r \in marks : ev.rules[r].on => r \in flagged'
         /\ cooldowns' \in [Rules -> -1..MaxMinutes]
         /\ KeptOrPruned(cool, ev)
  <1>1. CASE /\ ev.left # {} /\ ~paused
             /\ \E g \in ev.left : evals' = [evals EXCEPT ![e] = [ev EXCEPT !.left = @ \ {g}, !.asked = {g}]]
             /\ flagged' = marks /\ cooldowns' = cool
    <2>1. PICK g \in ev.left :
            evals' = [evals EXCEPT ![e] = [ev EXCEPT !.left = @ \ {g}, !.asked = {g}]]
      BY <1>1
    <2>2. [ev EXCEPT !.left = @ \ {g}, !.asked = {g}] \in Evals
      BY <2>1 DEF Evals
    <2>3. Leaves(e, ev)
      BY <2>1, <2>2 DEF Evals, Leaves
    <2>4. KeptOrPruned(cool, ev)
      BY <1>1 DEF KeptOrPruned
    <2> QED BY <1>1, <2>3, <2>4
  <1>2. CASE /\ evals' = [evals EXCEPT ![e] = Thresholds!Idle]
             /\ flagged' = Thresholds!PrunedFiring(ev, marks)
             /\ cooldowns' = Thresholds!PrunedCooldowns(ev.time, cool)
    <2>1. flagged' \subseteq marks /\ \A r \in marks : ev.rules[r].on => r \in flagged'
      BY <1>2 DEF Thresholds!PrunedFiring, Thresholds!EnabledIn
    <2>2. cooldowns' \in [Rules -> -1..MaxMinutes] /\ KeptOrPruned(cool, ev)
      <3>1. MaxMinutes \in Nat /\ Default \in Nat /\ ev.time \in Int
        BY DEF Thresholds!ThresholdAssumption, Evals
      <3>2. cooldowns' = [r \in Rules |-> IF cool[r] < ev.time - 2 * Default THEN 0 - 1 ELSE cool[r]]
        BY <1>2 DEF Thresholds!PrunedCooldowns, Thresholds!Never
      <3>3. KeptOrPruned(cool, ev)
        BY <3>1, <3>2 DEF KeptOrPruned, Thresholds!Never
      <3>4. cooldowns' \in [Rules -> -1..MaxMinutes]
        BY <3>1, <3>2
      <3> QED BY <3>3, <3>4
    <2>3. Leaves(e, ev)
      <3> SUFFICES \E next \in Evals :
              /\ evals' = [evals EXCEPT ![e] = next]
              /\ next = Thresholds!Idle \/ (next.rules = ev.rules /\ next.time = ev.time)
        BY DEF Leaves
      <3> USE IdleIsTyped
      <3> WITNESS Thresholds!Idle \in Evals
      <3> QED BY <1>2
    <2> QED BY <2>1, <2>2, <2>3
  <1> QED BY <1>1, <1>2 DEF Thresholds!GoesOn

(* A step that only lets an evaluation go on or end.                       *)
LEMMA NothingToldKeeps ==
  ASSUME Thresholds!ThresholdAssumption, ThresholdInv, NEW e \in Evaluations, NEW ev \in Evals, ev.asked = {},
         minute' \in 0..MaxMinutes, minute' >= minute, ev.time <= minute',
         \A r \in Rules \ off : told[r] = "breach" => ev.rules[r].on,
         Thresholds!GoesOn(e, ev, flagged, cooldowns),
         UNCHANGED <<rules, paused, told, breach, off, changes, exits>>
  PROVE  ThresholdInv'
  <1>1. /\ evals \in [Evaluations -> Evals] /\ flagged \in SUBSET Rules /\ cooldowns \in [Rules -> -1..MaxMinutes]
    BY DEF ThresholdInv, Thresholds!TypeOK, Evals
  <1>a. /\ Leaves(e, ev)
        /\ flagged' \subseteq flagged
        /\ \A r \in flagged : ev.rules[r].on => r \in flagged'
        /\ cooldowns' \in [Rules -> -1..MaxMinutes]
        /\ KeptOrPruned(cooldowns, ev)
    <2>1. PICK marks \in SUBSET Rules, cool \in [Rules -> -1..MaxMinutes] : marks = flagged /\ cool = cooldowns
      BY <1>1
    <2>2. Thresholds!GoesOn(e, ev, marks, cool)
      BY <2>1 DEF Thresholds!GoesOn
    <2>3. /\ Leaves(e, ev)
          /\ flagged' \subseteq marks
          /\ \A r \in marks : ev.rules[r].on => r \in flagged'
          /\ cooldowns' \in [Rules -> -1..MaxMinutes]
          /\ KeptOrPruned(cool, ev)
      BY <1>1, <2>2, GoingOn
    <2> QED BY <2>1, <2>3
  <1>2. PICK next \in Evals :
              /\ evals' = [evals EXCEPT ![e] = next]
              /\ next = Thresholds!Idle \/ (next.rules = ev.rules /\ next.time = ev.time)
    BY <1>a DEF Leaves
  <1>3. /\ flagged' \subseteq flagged
        /\ \A r \in flagged : ev.rules[r].on => r \in flagged'
        /\ cooldowns' \in [Rules -> -1..MaxMinutes]
        /\ KeptOrPruned(cooldowns, ev)
    BY <1>a
  <1>4. Thresholds!TypeOK'
    BY <1>1, <1>2, <1>3 DEF ThresholdInv, Thresholds!TypeOK, Evals
  <1>5. EvalsBegan'
    <2>1. next.time <= minute'
      BY <1>2 DEF Thresholds!Idle, Thresholds!Never, ThresholdInv, Thresholds!TypeOK
    <2> QED BY <1>1, <1>2, <2>1 DEF EvalsBegan, ThresholdInv, Thresholds!TypeOK, Evals
  <1>6. OpenIsKnown'
    BY <1>1, <1>2, <1>3 DEF OpenIsKnown, KnownAsOn, ThresholdInv
  <1>7. BreachRemembered'
    <2> SUFFICES ASSUME NEW r \in Rules, breach[r].time # Thresholds!Never
                 PROVE  /\ breach[r].time <= minute'
                        /\ \/ cooldowns'[r] = breach[r].time
                           \/ cooldowns'[r] = Thresholds!Never /\ minute' - breach[r].time >= 2 * Default + 1
      BY DEF BreachRemembered
    <2>1. breach[r].time \in Int /\ minute \in Int /\ minute' \in Int /\ Default \in Nat /\ ev.time \in Int
          /\ cooldowns[r] \in Int
      BY <1>1 DEF ThresholdInv, Thresholds!TypeOK, Thresholds!ThresholdAssumption, Evals
    <2> QED BY <2>1, <1>3 DEF BreachRemembered, ThresholdInv, KeptOrPruned
  <1> QED BY <1>4, <1>5, <1>6, <1>7 DEF ThresholdInv
LEMMA ThresholdInit ==
  ASSUME Thresholds!ThresholdAssumption, Thresholds!Init PROVE ThresholdInv
  <1>1. Thresholds!TypeOK
    <2>1. 0 \in 0..MaxMinutes /\ 0 \in 0..MaxChanges /\ 0 \in 0..MaxExits /\ Thresholds!Never \in -1..MaxMinutes
      BY DEF Thresholds!ThresholdAssumption, Thresholds!Never
    <2>2. evals \in [Evaluations -> Evals]
      BY IdleIsTyped DEF Thresholds!Init
    <2> QED BY <2>1, <2>2 DEF Thresholds!Init, Thresholds!TypeOK, Evals
  <1>2. EvalsBegan /\ OpenIsKnown /\ BreachRemembered
    BY DEF Thresholds!Init, EvalsBegan, OpenIsKnown, BreachRemembered, Thresholds!Idle, Thresholds!Never
  <1> QED BY <1>1, <1>2 DEF ThresholdInv

LEMMA EvaluateKeeps ==
  ASSUME Thresholds!ThresholdAssumption, ThresholdInv, NEW e \in Evaluations, Thresholds!Evaluate(e)
  PROVE  ThresholdInv'
  <1>1. /\ minute \in 0..MaxMinutes /\ minute' = minute + 1 /\ minute' \in 0..MaxMinutes /\ MaxMinutes \in Nat
        /\ UNCHANGED <<rules, paused, told, breach, off, changes, exits>>
    BY DEF Thresholds!Evaluate, ThresholdInv, Thresholds!TypeOK, Thresholds!ThresholdAssumption, Thresholds!history
  <1>2. CASE UNCHANGED <<evals, flagged, cooldowns>>
    <2>1. Thresholds!TypeOK'
      BY <1>1, <1>2 DEF ThresholdInv, Thresholds!TypeOK
    <2>2. EvalsBegan'
      BY <1>1, <1>2 DEF ThresholdInv, Thresholds!TypeOK, EvalsBegan
    <2>3. OpenIsKnown'
      BY <1>1, <1>2 DEF ThresholdInv, OpenIsKnown, KnownAsOn
    <2>4. BreachRemembered'
      <3>1. \A r \in Rules : breach[r].time \in Int /\ Default \in Nat
        BY DEF ThresholdInv, Thresholds!TypeOK, Thresholds!ThresholdAssumption
      <3> QED BY <1>1, <1>2, <3>1 DEF ThresholdInv, BreachRemembered
    <2> QED BY <2>1, <2>2, <2>3, <2>4 DEF ThresholdInv
  <1>3. CASE Thresholds!GoesOn(e, [time |-> minute', rules |-> rules, asked |-> {},
                left |-> {GroupOf[r] : r \in Thresholds!EnabledIn(rules)}], flagged, cooldowns)
    <2> DEFINE ev == [time |-> minute', rules |-> rules, asked |-> {},
                      left |-> {GroupOf[r] : r \in Thresholds!EnabledIn(rules)}]
    <2>1. ev \in Evals
      BY <1>1 DEF Evals, Thresholds!Groups, Thresholds!EnabledIn, ThresholdInv, Thresholds!TypeOK
    <2>2. \A r \in Rules \ off : told[r] = "breach" => ev.rules[r].on
      BY DEF ThresholdInv, OpenIsKnown, KnownAsOn
    <2> QED BY <1>1, <1>3, <2>1, <2>2, NothingToldKeeps
  <1> QED BY <1>2, <1>3 DEF Thresholds!Evaluate, Thresholds!state

LEMMA QueryFailsKeeps ==
  ASSUME Thresholds!ThresholdAssumption, ThresholdInv, NEW e \in Evaluations, Thresholds!QueryFails(e)
  PROVE  ThresholdInv'
  <1> DEFINE ev == [evals[e] EXCEPT !.asked = {}]
  <1>1. /\ ev \in Evals /\ ev.asked = {} /\ ev.time = evals[e].time /\ ev.rules = evals[e].rules
        /\ minute \in 0..MaxMinutes /\ evals[e].asked # {}
    BY DEF Evals, ThresholdInv, Thresholds!TypeOK, Thresholds!QueryFails
  <1>2. evals[e] # Thresholds!Idle
    BY <1>1 DEF Thresholds!Idle
  <1>3. \A r \in Rules \ off : told[r] = "breach" => ev.rules[r].on
    BY <1>1, <1>2 DEF ThresholdInv, OpenIsKnown, KnownAsOn
  <1>4. ev.time <= minute
    BY <1>1 DEF ThresholdInv, EvalsBegan
  <1>5. /\ Thresholds!GoesOn(e, ev, flagged, cooldowns)
        /\ UNCHANGED <<minute, rules, paused, told, breach, off, changes, exits>>
    BY DEF Thresholds!QueryFails, Thresholds!history
  <1> HIDE DEF ev
  <1>6. minute' \in 0..MaxMinutes /\ minute' >= minute /\ ev.time <= minute'
    BY <1>1, <1>4, <1>5
  <1> QED BY <1>1, <1>3, <1>5, <1>6, NothingToldKeeps

LEMMA CooldownIsTyped ==
  ASSUME Thresholds!ThresholdAssumption, NEW rule \in Thresholds!Rule
  PROVE  Thresholds!CoolOf(rule) \in Nat
  <1>1. rule.cool \in Nat
    <2>1. rule.cool \in Cooldowns \union {0}
      BY DEF Thresholds!Rule
    <2>2. \A n \in Cooldowns : n \in Nat
      BY Zenon DEF Thresholds!ThresholdAssumption
    <2> QED BY <2>1, <2>2
  <1> QED BY <1>1 DEF Thresholds!CoolOf, Thresholds!ThresholdAssumption

(* What an answer dispatches, and leaves of marks and cooldowns.           *)
LEMMA Answering ==
  ASSUME Thresholds!ThresholdAssumption, ThresholdInv, NEW e \in Evaluations, NEW breaching \in SUBSET Rules,
         Thresholds!QueryReturns(e, breaching)
  PROVE  \E alerted, resolved \in SUBSET Rules :
    /\ resolved \intersect breaching = {}
    /\ alerted = {r \in breaching : ~Thresholds!Cooling(evals[e], r)}
    /\ \A r \in breaching : evals[e].rules[r].on
    /\ evals[e] # Thresholds!Idle
    /\ Thresholds!GoesOn(e, [evals[e] EXCEPT !.asked = {}], (flagged \ resolved) \union breaching,
         [r \in Rules |-> IF r \in alerted THEN evals[e].time ELSE cooldowns[r]])
    /\ told' = [r \in Rules |-> IF r \in resolved THEN "resolved"
                                ELSE IF r \in alerted THEN "breach" ELSE told[r]]
    /\ breach' = [r \in Rules |-> IF r \in alerted
                    THEN [time |-> evals[e].time, cool |-> Thresholds!CoolOf(evals[e].rules[r])] ELSE breach[r]]
    /\ off' = (off \ alerted) \union
              {r \in alerted : ~rules[r].on \/ \E f \in Evaluations : evals[f] # Thresholds!Idle /\ ~evals[f].rules[r].on}
  <1> DEFINE alerted  == {r \in breaching : ~Thresholds!Cooling(evals[e], r)}
             resolved == (Thresholds!RulesAsked(evals[e]) \ breaching) \intersect flagged
  <1>1. alerted \in SUBSET Rules /\ resolved \in SUBSET Rules /\ resolved \intersect breaching = {}
    BY DEF ThresholdInv, Thresholds!TypeOK
  <1>2. \A r \in breaching : evals[e].rules[r].on
    BY DEF Thresholds!QueryReturns, Thresholds!RulesAsked, Thresholds!EnabledIn
  <1>3. evals[e] # Thresholds!Idle
    BY DEF Thresholds!QueryReturns, Thresholds!Idle
  <1> QED BY <1>1, <1>2, <1>3 DEF Thresholds!QueryReturns

LEMMA QueryReturnsKeeps ==
  ASSUME Thresholds!ThresholdAssumption, ThresholdInv, NEW e \in Evaluations, NEW breaching \in SUBSET Rules,
         Thresholds!QueryReturns(e, breaching)
  PROVE  ThresholdInv'
  <1>1. PICK alerted, resolved \in SUBSET Rules :
    /\ resolved \intersect breaching = {}
    /\ alerted = {r \in breaching : ~Thresholds!Cooling(evals[e], r)}
    /\ \A r \in breaching : evals[e].rules[r].on
    /\ evals[e] # Thresholds!Idle
    /\ Thresholds!GoesOn(e, [evals[e] EXCEPT !.asked = {}], (flagged \ resolved) \union breaching,
         [r \in Rules |-> IF r \in alerted THEN evals[e].time ELSE cooldowns[r]])
    /\ told' = [r \in Rules |-> IF r \in resolved THEN "resolved"
                                ELSE IF r \in alerted THEN "breach" ELSE told[r]]
    /\ breach' = [r \in Rules |-> IF r \in alerted
                    THEN [time |-> evals[e].time, cool |-> Thresholds!CoolOf(evals[e].rules[r])] ELSE breach[r]]
    /\ off' = (off \ alerted) \union
              {r \in alerted : ~rules[r].on \/ \E f \in Evaluations : evals[f] # Thresholds!Idle /\ ~evals[f].rules[r].on}
    BY Answering
  <1> DEFINE ev    == [evals[e] EXCEPT !.asked = {}]
             marks == (flagged \ resolved) \union breaching
             cool  == [r \in Rules |-> IF r \in alerted THEN evals[e].time ELSE cooldowns[r]]
  <1>2. /\ evals \in [Evaluations -> Evals] /\ flagged \in SUBSET Rules /\ cooldowns \in [Rules -> -1..MaxMinutes]
        /\ breach \in [Rules -> [time : -1..MaxMinutes, cool : Nat]] /\ off \subseteq Rules
        /\ told \in [Rules -> {"none", "breach", "resolved"}]
        /\ minute \in 0..MaxMinutes /\ Default \in Nat
    BY DEF ThresholdInv, Thresholds!TypeOK, Evals, Thresholds!ThresholdAssumption
  <1>3. /\ UNCHANGED <<minute, rules, paused, changes, exits>>
    BY DEF Thresholds!QueryReturns
  <1>4. /\ ev \in Evals /\ ev.asked = {} /\ ev.time = evals[e].time /\ ev.rules = evals[e].rules
        /\ ev.time \in -1..MaxMinutes /\ ev.time <= minute
        /\ marks \in SUBSET Rules /\ cool \in [Rules -> -1..MaxMinutes]
    BY <1>2 DEF Evals, ThresholdInv, EvalsBegan
  <1>a. Thresholds!GoesOn(e, ev, marks, cool)
    BY <1>1
  <1> HIDE DEF ev, marks, cool
  <1>b. /\ Leaves(e, ev)
        /\ flagged' \subseteq marks
        /\ \A r \in marks : ev.rules[r].on => r \in flagged'
        /\ cooldowns' \in [Rules -> -1..MaxMinutes]
        /\ KeptOrPruned(cool, ev)
    BY <1>2, <1>4, <1>a, GoingOn
  <1>5. PICK next \in Evals :
              /\ evals' = [evals EXCEPT ![e] = next]
              /\ next = Thresholds!Idle \/ (next.rules = ev.rules /\ next.time = ev.time)
    BY <1>b DEF Leaves
  <1>6. /\ flagged' \subseteq marks
        /\ \A r \in marks : ev.rules[r].on => r \in flagged'
        /\ cooldowns' \in [Rules -> -1..MaxMinutes]
        /\ KeptOrPruned(cool, ev)
    BY <1>b
  <1>7. Thresholds!TypeOK'
    <2>1. \A r \in Rules : Thresholds!CoolOf(evals[e].rules[r]) \in Nat
      BY <1>2, CooldownIsTyped DEF Evals
    <2>2. breach' \in [Rules -> [time : -1..MaxMinutes, cool : Nat]]
      BY <1>1, <1>2, <1>4, <2>1
    <2>3. told' \in [Rules -> {"none", "breach", "resolved"}] /\ off' \subseteq Rules
      BY <1>1, <1>2
    <2>4. evals' \in [Evaluations -> Evals] /\ flagged' \subseteq Rules
      BY <1>2, <1>4, <1>5, <1>6
    <2> QED BY <1>3, <1>6, <2>2, <2>3, <2>4 DEF ThresholdInv, Thresholds!TypeOK, Evals
  <1>8. EvalsBegan'
    <2>1. next.time <= minute
      BY <1>2, <1>4, <1>5 DEF Thresholds!Idle, Thresholds!Never
    <2> QED BY <1>2, <1>3, <1>5, <2>1 DEF EvalsBegan, ThresholdInv
  <1>9. OpenIsKnown'
    <2> SUFFICES ASSUME NEW r \in Rules \ off', told'[r] = "breach"
                 PROVE  r \in flagged' /\ KnownAsOn(r)'
      BY DEF OpenIsKnown
    <2>1. CASE r \in alerted
      <3>1. rules[r].on /\ \A f \in Evaluations : evals[f] = Thresholds!Idle \/ evals[f].rules[r].on
        BY <1>1, <2>1
      <3>2. r \in marks /\ ev.rules[r].on
        BY <1>1, <1>4, <2>1 DEF marks
      <3> QED BY <1>2, <1>3, <1>4, <1>5, <1>6, <3>1, <3>2 DEF KnownAsOn
    <2>2. CASE r \notin alerted
      <3>1. r \notin off /\ r \notin resolved /\ told[r] = "breach"
        BY <1>1, <2>2
      <3>2. r \in flagged /\ KnownAsOn(r)
        BY <3>1 DEF ThresholdInv, OpenIsKnown
      <3>3. r \in marks /\ ev.rules[r].on
        BY <1>1, <1>4, <3>1, <3>2 DEF marks, KnownAsOn
      <3> QED BY <1>2, <1>3, <1>5, <1>6, <3>2, <3>3 DEF KnownAsOn
    <2> QED BY <2>1, <2>2
  <1>10. BreachRemembered'
    <2> SUFFICES ASSUME NEW r \in Rules, breach'[r].time # Thresholds!Never
                 PROVE  /\ breach'[r].time <= minute
                        /\ \/ cooldowns'[r] = breach'[r].time
                           \/ cooldowns'[r] = Thresholds!Never /\ minute - breach'[r].time >= 2 * Default + 1
      BY <1>3 DEF BreachRemembered
    <2>1. \/ cooldowns'[r] = cool[r]
          \/ cooldowns'[r] = Thresholds!Never /\ cool[r] < ev.time - 2 * Default
      BY <1>6 DEF KeptOrPruned
    <2>2. /\ breach[r].time \in Int /\ cooldowns[r] \in Int /\ cool[r] \in Int /\ ev.time \in Int /\ minute \in Int
      BY <1>2, <1>4
    <2>3. CASE r \in alerted
      <3>1. breach'[r].time = ev.time /\ cool[r] = ev.time
        BY <1>1, <1>4, <2>3 DEF cool
      <3> QED BY <1>2, <1>4, <2>1, <2>2, <3>1
    <2>4. CASE r \notin alerted
      <3>1. breach'[r] = breach[r] /\ cool[r] = cooldowns[r]
        BY <1>1, <2>4 DEF cool
      <3>2. /\ breach[r].time <= minute
            /\ \/ cooldowns[r] = breach[r].time
               \/ cooldowns[r] = Thresholds!Never /\ minute - breach[r].time >= 2 * Default + 1
        BY <3>1 DEF ThresholdInv, BreachRemembered
      <3> QED BY <1>2, <1>4, <2>1, <2>2, <3>1, <3>2
    <2> QED BY <2>3, <2>4
  <1> QED BY <1>7, <1>8, <1>9, <1>10 DEF ThresholdInv

LEMMA OthersKeep ==
  ASSUME Thresholds!ThresholdAssumption, ThresholdInv,
         \/ \E r \in Rules, rule \in Thresholds!Rule : Thresholds!ChangeRule(r, rule)
         \/ Thresholds!SetMaintenance \/ Thresholds!Restart \/ UNCHANGED Thresholds!vars
  PROVE  ThresholdInv'
  <1>1. ASSUME NEW r \in Rules, NEW rule \in Thresholds!Rule, Thresholds!ChangeRule(r, rule)
        PROVE  ThresholdInv'
    <2>1. Thresholds!TypeOK'
      BY <1>1 DEF ThresholdInv, Thresholds!TypeOK, Thresholds!ChangeRule, Thresholds!state, Thresholds!ThresholdAssumption
    <2>2. EvalsBegan' /\ BreachRemembered'
      BY <1>1 DEF ThresholdInv, EvalsBegan, BreachRemembered, Thresholds!ChangeRule, Thresholds!state
    <2>3. OpenIsKnown'
      BY <1>1 DEF ThresholdInv, Thresholds!TypeOK, OpenIsKnown, KnownAsOn, Thresholds!ChangeRule, Thresholds!state
    <2> QED BY <2>1, <2>2, <2>3 DEF ThresholdInv
  <1>2. CASE Thresholds!SetMaintenance
    BY <1>2 DEF ThresholdInv, Thresholds!TypeOK, EvalsBegan, OpenIsKnown, KnownAsOn, BreachRemembered,
                Thresholds!SetMaintenance, Thresholds!state, Thresholds!history, Thresholds!ThresholdAssumption
  <1>3. CASE Thresholds!Restart
    <2>1. Thresholds!TypeOK'
      BY <1>3, IdleIsTyped DEF ThresholdInv, Thresholds!TypeOK, Thresholds!Restart, Thresholds!Never,
         Thresholds!ThresholdAssumption, Evals
    <2>2. EvalsBegan' /\ BreachRemembered' /\ OpenIsKnown'
      BY <1>3 DEF ThresholdInv, Thresholds!TypeOK, EvalsBegan, BreachRemembered, OpenIsKnown, Thresholds!Restart,
         Thresholds!Never, Thresholds!Idle
    <2> QED BY <2>1, <2>2 DEF ThresholdInv
  <1>4. CASE UNCHANGED Thresholds!vars
    BY <1>4 DEF ThresholdInv, Thresholds!TypeOK, EvalsBegan, OpenIsKnown, KnownAsOn, BreachRemembered,
                Thresholds!vars, Thresholds!state, Thresholds!history
  <1> QED BY <1>1, <1>2, <1>3, <1>4

LEMMA ThresholdNext ==
  ASSUME Thresholds!ThresholdAssumption, ThresholdInv, [Thresholds!Next]_Thresholds!vars
  PROVE  ThresholdInv'
  BY EvaluateKeeps, QueryFailsKeeps, QueryReturnsKeeps, OthersKeep DEF Thresholds!Next

(* A breach told of and not resolved is still marked as firing, so that it *)
(* can be resolved, however evaluations overlap and rules change, unless   *)
(* the rule was off since, or an evaluation that knew it as off was in     *)
(* progress; for any rules, groups and number of evaluations at a time.    *)
LEMMA OpenBreachesAreTracked ==
  ASSUME Thresholds!ThresholdAssumption
  PROVE  Thresholds!Spec => [](Thresholds!TypeOK /\ Thresholds!OpenIsTracked)
  <1>1. ThresholdInv => Thresholds!TypeOK /\ Thresholds!OpenIsTracked
    BY DEF ThresholdInv, OpenIsKnown, Thresholds!OpenIsTracked
  <1> QED BY <1>1, ThresholdInit, ThresholdNext, PTL DEF Thresholds!Spec

LEMMA MinOfTwo ==
  ASSUME NEW a \in Int, NEW b \in Int PROVE Thresholds!Min({a, b}) <= a /\ Thresholds!Min({a, b}) <= b /\ Thresholds!Min({a, b}) \in Int
  <1>1. \E x \in {a, b} : \A y \in {a, b} : x <= y
    OBVIOUS
  <1> QED BY <1>1 DEF Thresholds!Min

(* A breach of a rule is told of no sooner than its cooldown after the     *)
(* evaluation that told of the last one, as far as the evaluator remembers, *)
(* whichever of overlapping evaluations was answered first.                *)
LEMMA CooldownsAreHeld ==
  ASSUME Thresholds!ThresholdAssumption
  PROVE  Thresholds!Spec => Thresholds!CooldownHeld
  <1>1. ASSUME ThresholdInv, [Thresholds!Next]_Thresholds!vars, NEW r \in Rules,
               breach'[r] # breach[r], breach[r].time # Thresholds!Never, breach'[r].time # Thresholds!Never
        PROVE  minute - breach[r].time >= Thresholds!Min({breach'[r].cool, 2 * Default + 1})
    <2>1. PICK e \in Evaluations, breaching \in SUBSET Rules : Thresholds!QueryReturns(e, breaching)
      <3>1. breach' # breach /\ ~Thresholds!Restart
        BY <1>1 DEF Thresholds!Restart
      <3>2. ~UNCHANGED Thresholds!vars /\ ~Thresholds!SetMaintenance
        BY <3>1 DEF Thresholds!vars, Thresholds!history, Thresholds!SetMaintenance
      <3>3. \A q \in Rules, rule \in Thresholds!Rule : ~Thresholds!ChangeRule(q, rule)
        BY <3>1 DEF Thresholds!ChangeRule
      <3>4. \A e \in Evaluations : ~Thresholds!Evaluate(e) /\ ~Thresholds!QueryFails(e)
        BY <3>1 DEF Thresholds!Evaluate, Thresholds!QueryFails, Thresholds!history
      <3> QED BY <1>1, <3>1, <3>2, <3>3, <3>4 DEF Thresholds!Next
    <2>2. /\ breach'[r].cool = Thresholds!CoolOf(evals[e].rules[r])
          /\ ~Thresholds!Cooling(evals[e], r)
      <3>1. PICK alerted \in SUBSET Rules :
          /\ alerted = {q \in breaching : ~Thresholds!Cooling(evals[e], q)}
          /\ breach' = [q \in Rules |-> IF q \in alerted
               THEN [time |-> evals[e].time, cool |-> Thresholds!CoolOf(evals[e].rules[q])] ELSE breach[q]]
        <4>1. ThresholdInv
          BY <1>1
        <4> QED BY <2>1, <4>1, Answering
      <3>2. r \in alerted
        BY <1>1, <3>1
      <3> QED BY <3>1, <3>2
    <2>3. /\ minute \in Int /\ breach[r].time \in Int /\ cooldowns[r] \in Int /\ Default \in Nat
          /\ evals[e].time \in Int /\ evals[e].time <= minute /\ evals[e].rules[r] \in Thresholds!Rule
      BY <1>1 DEF ThresholdInv, Thresholds!TypeOK, EvalsBegan, Thresholds!ThresholdAssumption
    <2>4. Thresholds!CoolOf(evals[e].rules[r]) \in Int
      BY <2>3, CooldownIsTyped
    <2>5. \/ cooldowns[r] = breach[r].time
          \/ cooldowns[r] = Thresholds!Never /\ minute - breach[r].time >= 2 * Default + 1
      BY <1>1 DEF ThresholdInv, BreachRemembered
    <2>6. \/ minute - breach[r].time >= Thresholds!CoolOf(evals[e].rules[r])
          \/ minute - breach[r].time >= 2 * Default + 1
      BY <1>1, <2>2, <2>3, <2>4, <2>5 DEF Thresholds!Cooling
    <2> DEFINE cool  == Thresholds!CoolOf(evals[e].rules[r])
               kept  == 2 * Default + 1
               least == Thresholds!Min({cool, kept})
    <2>7. cool \in Int /\ kept \in Int
      BY <2>3, <2>4
    <2> HIDE DEF cool, kept
    <2>8. least \in Int /\ least <= cool /\ least <= kept
      BY <2>7, MinOfTwo
    <2>9. minute - breach[r].time >= cool \/ minute - breach[r].time >= kept
      BY <2>6 DEF cool, kept
    <2> HIDE DEF least
    <2>10. minute - breach[r].time >= least
      BY <2>3, <2>7, <2>8, <2>9
    <2> QED BY <2>2, <2>10 DEF least, cool, kept
  <1>2. ThresholdInv /\ [Thresholds!Next]_Thresholds!vars =>
          [\A r \in Rules :
             breach'[r] # breach[r] /\ breach[r].time # Thresholds!Never /\ breach'[r].time # Thresholds!Never =>
               minute - breach[r].time >= Thresholds!Min({breach'[r].cool, 2 * Default + 1})]_Thresholds!vars
    BY <1>1
  <1> QED BY <1>2, ThresholdInit, ThresholdNext, PTL DEF Thresholds!Spec, Thresholds!CooldownHeld

(* For any rules, evaluations at a time, cooldowns and changes: a breach   *)
(* that was told is marked as firing until its recovery is told , unless    *)
(* the rule was off or the process exited since, or an evaluation that     *)
(* knew it as off was in progress; and two alerts of a rule are a cooldown *)
(* apart, as long as the evaluator remembers the first.                    *)
THEOREM BreachesAreTracked == Thresholds!Spec => BreachesSound
  BY AlertsAssumption, OpenBreachesAreTracked, CooldownsAreHeld
  DEF BreachesSound, Thresholds!BreachesSound

-----------------------------------------------------------------------------
(* The delivery of alerts.                                                 *)

Elements(s) == Delivery!ToSet(s)
Ascending(s) == \A i, j \in 1..Len(s) : i < j => s[i] < s[j]
Sent == 1..Len(sent)

DeliveryTyped ==
  /\ MaxAlerts \in Nat /\ Len(sent) \in Nat
  /\ Delivery!TypeOK
  /\ queues \in [Slack -> Seq(Delivery!Alerts)]
  /\ tasks \in [Delivery!Alerts -> Seq(Delivery!Channels)]
  /\ got \in [Delivery!Channels -> SUBSET [alert : Delivery!Alerts, by : Delivery!Observers]]

(* What waits was sent, and a task has channels of its alert that Slack    *)
(* does not take.                                                          *)
WaitingKnown ==
  /\ \A a \in Delivery!Alerts : \A c \in Elements(tasks[a]) : a \in Sent /\ c \in sent[a].to \ Slack
  /\ \A u \in Slack : Elements(queues[u]) \subseteq Sent /\ Ascending(queues[u])

(* Who posts to a channel, and in which order to a Slack webhook.          *)
HeardKnown ==
  /\ \A c \in Delivery!Channels : \A g \in got[c] : g.alert \in Sent /\ (g.by = "slack" <=> c \in Slack)
  /\ \A u \in Slack : \A g \in got[u] : \A a \in Elements(queues[u]) : g.alert <= a

Covered(a, c) ==
  \/ c \in Elements(tasks[a])
  \/ c \in Slack /\ a \in Elements(queues[c])
  \/ a \in Delivery!Heard(c) \union failed[c]
  \/ c \in Slack /\ Delivery!Resolves(sent[a].kind)

AllCovered == \A a \in Sent : \A c \in sent[a].to : Covered(a, c)

(* The last alert for an incident, if none was being posted when it came,  *)
(* is the only one that may still be posted.                               *)
IsLast(p, a) == p \in sent[a].to /\ \A b \in Sent : p \in sent[b].to => b <= a

IncidentKnown ==
  \A p \in Pager : \A a \in Sent \ overlapped : IsLast(p, a) =>
    /\ \A b \in Delivery!Alerts \ {a} : p \notin Elements(tasks[b])
    /\ a \in Delivery!Heard(p) => incident[p] = Delivery!Fires(sent[a].kind)

DeliveryInv == DeliveryTyped /\ WaitingKnown /\ HeardKnown /\ AllCovered /\ IncidentKnown

-----------------------------------------------------------------------------
LEMMA ElementsOfTail ==
  ASSUME NEW S, NEW s \in Seq(S), s # << >>
  PROVE  /\ Head(s) \in S /\ Tail(s) \in Seq(S)
         /\ Elements(s) = {Head(s)} \union Elements(Tail(s))
         /\ Ascending(s) => Ascending(Tail(s)) /\ \A x \in Elements(Tail(s)) : Head(s) < x
  <1>1. /\ Head(s) \in S /\ Tail(s) \in Seq(S) /\ Len(Tail(s)) = Len(s) - 1
        /\ \A i \in 1..Len(Tail(s)) : Tail(s)[i] = s[i + 1]
    BY HeadTailProperties
  <1>2. Len(s) \in Nat /\ Len(s) > 0 /\ Head(s) = s[1] /\ DOMAIN s = 1..Len(s)
        /\ DOMAIN Tail(s) = 1..Len(Tail(s))
    BY <1>1
  <1>3. \A i \in 1..Len(s) : i = 1 \/ (i - 1 \in 1..Len(Tail(s)) /\ Tail(s)[i - 1] = s[i])
    BY <1>1, <1>2
  <1>4. Elements(s) = {Head(s)} \union Elements(Tail(s))
    <2>1. ASSUME NEW x \in Elements(s) PROVE x \in {Head(s)} \union Elements(Tail(s))
      <3>1. PICK i \in 1..Len(s) : x = s[i]
        BY <1>2, <2>1 DEF Elements, Delivery!ToSet
      <3> QED BY <1>2, <1>3, <3>1 DEF Elements, Delivery!ToSet
    <2>2. ASSUME NEW x \in Elements(Tail(s)) PROVE x \in Elements(s)
      <3>1. PICK i \in 1..Len(Tail(s)) : x = Tail(s)[i]
        BY <1>2, <2>2 DEF Elements, Delivery!ToSet
      <3>2. i + 1 \in 1..Len(s) /\ x = s[i + 1]
        BY <1>1, <1>2, <3>1
      <3> QED BY <1>2, <3>2 DEF Elements, Delivery!ToSet
    <2>3. Head(s) \in Elements(s)
      BY <1>2 DEF Elements, Delivery!ToSet
    <2> QED BY <2>1, <2>2, <2>3
  <1>5. ASSUME Ascending(s) PROVE Ascending(Tail(s)) /\ \A x \in Elements(Tail(s)) : Head(s) < x
    <2>1. ASSUME NEW i \in 1..Len(Tail(s)) PROVE i + 1 \in 1..Len(s) /\ Tail(s)[i] = s[i + 1] /\ Head(s) < s[i + 1]
      BY <1>1, <1>2, <1>5 DEF Ascending
    <2>2. Ascending(Tail(s))
      BY <1>1, <1>2, <1>5, <2>1 DEF Ascending
    <2>3. \A x \in Elements(Tail(s)) : Head(s) < x
      BY <1>2, <2>1 DEF Elements, Delivery!ToSet
    <2> QED BY <2>2, <2>3
  <1> QED BY <1>1, <1>4, <1>5

LEMMA ElementsOfAppended ==
  ASSUME NEW S, NEW s \in Seq(S), NEW x \in S
  PROVE  /\ Append(s, x) \in Seq(S)
         /\ Elements(Append(s, x)) = Elements(s) \union {x}
         /\ Ascending(s) /\ (\A y \in Elements(s) : y < x) => Ascending(Append(s, x))
  <1>1. /\ Append(s, x) \in Seq(S) /\ Len(Append(s, x)) = Len(s) + 1
        /\ \A i \in 1..Len(s) : Append(s, x)[i] = s[i]
        /\ Append(s, x)[Len(s) + 1] = x
    BY AppendProperties
  <1>2. /\ Len(s) \in Nat /\ DOMAIN s = 1..Len(s) /\ DOMAIN Append(s, x) = 1..Len(s) + 1
    BY <1>1
  <1>3. \A i \in 1..Len(s) + 1 : i \in 1..Len(s) \/ i = Len(s) + 1
    BY <1>2
  <1>4. Elements(Append(s, x)) = Elements(s) \union {x}
    BY <1>1, <1>2, <1>3 DEF Elements, Delivery!ToSet
  <1>5. Ascending(s) /\ (\A y \in Elements(s) : y < x) => Ascending(Append(s, x))
    BY <1>1, <1>2, <1>3 DEF Elements, Delivery!ToSet, Ascending
  <1> QED BY <1>1, <1>4, <1>5

(* The module's notions are those of the library.                          *)
LEMMA SameCardinality == ASSUME NEW S PROVE Delivery!Cardinality(S) = Cardinality(S)
  BY DEF Cardinality, Delivery!Cardinality

LEMMA SameFinite == ASSUME NEW S PROVE Delivery!IsFiniteSet(S) <=> IsFiniteSet(S)
  BY DEF IsFiniteSet, Delivery!IsFiniteSet

LEMMA ElementsOfListed ==
  ASSUME NEW S, IsFiniteSet(S)
  PROVE  Delivery!SetToSeq(S) \in Seq(S) /\ Elements(Delivery!SetToSeq(S)) = S
  <1> DEFINE n == Cardinality(S)
             f == Delivery!SetToSeq(S)
  <1>1. n \in Nat /\ ExistsBijection(1..n, S)
    BY FS_CardinalityType
  <1>2. \E g \in [1..n -> S] : Delivery!IsInjective(g)
    BY <1>1 DEF ExistsBijection, Bijection, Injection, IsInjective, Delivery!IsInjective
  <1>3. f \in [1..n -> S] /\ Delivery!IsInjective(f)
    BY <1>2, SameCardinality DEF Delivery!SetToSeq
  <1>4. f \in Injection(1..n, S)
    BY <1>3 DEF Injection, IsInjective, Delivery!IsInjective
  <1> HIDE DEF f
  <1>5. IsFiniteSet(1..n) /\ Cardinality(1..n) = n
    BY <1>1, FS_Interval
  <1>6. f \in Surjection(1..n, S)
    BY <1>1, <1>4, <1>5, FS_Injection
  <1>7. f \in Seq(S) /\ DOMAIN f = 1..n
    BY <1>1, <1>3
  <1>8. Elements(f) = S
    BY <1>3, <1>6, <1>7 DEF Surjection, Elements, Delivery!ToSet
  <1> QED BY <1>7, <1>8 DEF f

LEMMA ContainsAnElement ==
  ASSUME NEW S, NEW s \in Seq(S), NEW e PROVE Delivery!Contains(s, e) <=> e \in Elements(s)
  BY DEF Delivery!Contains, Elements, Delivery!ToSet

(* What Dispatch appends: alert a, to the channels to.                     *)
Appends(a, to, kind) ==
  /\ a = Len(sent) + 1 /\ a \notin Sent /\ Sent' = Sent \union {a} /\ Len(sent') = a
  /\ sent' \in Seq(Delivery!Alert) /\ \A b \in Sent : sent'[b] = sent[b]
  /\ sent'[a].to = to /\ sent'[a].kind = kind
  /\ queues' \in [Slack -> Seq(Delivery!Alerts)]
  /\ \A u \in Slack :
       IF u \in to /\ ~Delivery!Resolves(kind)
       THEN Elements(queues'[u]) = Elements(queues[u]) \union {a} /\ Ascending(queues'[u])
       ELSE queues'[u] = queues[u]
  /\ tasks' \in [Delivery!Alerts -> Seq(Delivery!Channels)]
  /\ \A b \in Delivery!Alerts \ {a} : tasks'[b] = tasks[b]
  /\ Elements(tasks'[a]) = to \ Slack
  /\ overlapped \subseteq overlapped' /\ overlapped' \subseteq overlapped \union {a}
  /\ a \in overlapped' \/ \A b \in Delivery!Alerts : Elements(tasks[b]) \intersect (to \ Slack) = {}
  /\ UNCHANGED <<tries, got, incident, failed, exits>>

LEMMA DispatchAppends ==
  ASSUME Delivery!DeliveryAssumption, DeliveryTyped, WaitingKnown,
         NEW kind \in AlertKinds, NEW channels \in RuleChannels,
         NEW url \in SUBSET Delivery!Channels, IsFiniteSet(url), Delivery!Dispatch(kind, channels, url)
  PROVE  \E a \in Delivery!Alerts, to \in SUBSET Delivery!Channels : Appends(a, to, kind)
  <1> DEFINE to == Delivery!Targets(kind, channels, url)
             a  == Len(sent) + 1
             alert == [kind |-> kind, to |-> to]
  <1>1. to \in SUBSET Delivery!Channels /\ IsFiniteSet(to \ Slack)
    <2>1. to = channels \/ to = url
      BY DEF Delivery!Targets
    <2>2. channels \in SUBSET Delivery!Channels /\ IsFiniteSet(channels)
      BY SameFinite DEF Delivery!DeliveryAssumption
    <2> QED BY <2>1, <2>2, FS_Subset
  <1> HIDE DEF to
  <1>2. /\ Len(sent) < MaxAlerts /\ sent' = Append(sent, alert)
        /\ queues' = [u \in Slack |->
             IF u \in Delivery!SlackTargets(kind, to) THEN Append(queues[u], a) ELSE queues[u]]
        /\ tasks' = [tasks EXCEPT ![a] = Delivery!SetToSeq(to \ Slack)]
        /\ overlapped' = IF {b \in Delivery!Alerts : Elements(tasks[b]) \intersect (to \ Slack) # {}} = {}
                         THEN overlapped ELSE overlapped \union {a}
        /\ UNCHANGED <<tries, got, incident, failed, exits>>
    BY DEF Delivery!Dispatch, Delivery!WebhookTargets, Elements, to
  <1>3. a \in Delivery!Alerts /\ a \notin Sent /\ alert \in Delivery!Alert /\ sent \in Seq(Delivery!Alert)
    BY <1>1, <1>2 DEF DeliveryTyped, Delivery!TypeOK, Delivery!Alerts, Sent, Delivery!Alert
  <1>4. /\ sent' \in Seq(Delivery!Alert) /\ Len(sent') = a /\ sent'[a] = alert
        /\ \A b \in Sent : sent'[b] = sent[b]
    BY <1>2, <1>3, AppendProperties DEF Sent
  <1>5. Sent' = Sent \union {a}
    BY <1>4 DEF Sent, DeliveryTyped
  <1>6. ASSUME NEW u \in Slack
        PROVE  /\ queues'[u] \in Seq(Delivery!Alerts)
               /\ IF u \in to /\ ~Delivery!Resolves(kind)
                  THEN Elements(queues'[u]) = Elements(queues[u]) \union {a} /\ Ascending(queues'[u])
                  ELSE queues'[u] = queues[u]
    <2>1. queues[u] \in Seq(Delivery!Alerts) /\ Ascending(queues[u]) /\ \A y \in Elements(queues[u]) : y < a
      BY DEF DeliveryTyped, WaitingKnown, Sent
    <2>2. u \in Delivery!SlackTargets(kind, to) <=> u \in to /\ ~Delivery!Resolves(kind)
      BY DEF Delivery!SlackTargets
    <2>3. CASE u \in Delivery!SlackTargets(kind, to)
      <3>1. queues'[u] = Append(queues[u], a)
        BY <1>2, <2>3
      <3> HIDE DEF a
      <3> QED BY <1>3, <2>1, <2>2, <2>3, <3>1, ElementsOfAppended
    <2>4. CASE u \notin Delivery!SlackTargets(kind, to)
      BY <1>2, <2>1, <2>2, <2>4
    <2> QED BY <2>3, <2>4
  <1>7. queues' \in [Slack -> Seq(Delivery!Alerts)]
    BY <1>2, <1>6
  <1>8. Delivery!SetToSeq(to \ Slack) \in Seq(Delivery!Channels) /\ Elements(Delivery!SetToSeq(to \ Slack)) = to \ Slack
    <2> DEFINE listed == Delivery!SetToSeq(to \ Slack)
    <2>1. listed \in Seq(to \ Slack) /\ Elements(listed) = to \ Slack
      BY <1>1, ElementsOfListed
    <2>2. \A x \in to \ Slack : x \in Delivery!Channels
      BY <1>1
    <2> HIDE DEF listed
    <2>3. listed \in Seq(Delivery!Channels)
      BY <2>1, <2>2
    <2> QED BY <2>1, <2>3 DEF listed
  <1>9. /\ tasks' \in [Delivery!Alerts -> Seq(Delivery!Channels)] /\ Elements(tasks'[a]) = to \ Slack
        /\ \A b \in Delivery!Alerts \ {a} : tasks'[b] = tasks[b]
    BY <1>2, <1>3, <1>8 DEF DeliveryTyped
  <1>10. /\ overlapped \subseteq overlapped' /\ overlapped' \subseteq overlapped \union {a}
         /\ a \in overlapped' \/ \A b \in Delivery!Alerts : Elements(tasks[b]) \intersect (to \ Slack) = {}
    BY <1>2
  <1>11. sent'[a].to = to /\ sent'[a].kind = kind
    BY <1>4
  <1> HIDE DEF alert
  <1>12. Appends(a, to, kind)
    BY <1>2, <1>3, <1>4, <1>5, <1>6, <1>7, <1>9, <1>10, <1>11 DEF Appends
  <1> QED BY <1>1, <1>3, <1>12

LEMMA DispatchKeeps ==
  ASSUME Delivery!DeliveryAssumption, DeliveryInv,
         NEW kind \in AlertKinds, NEW channels \in RuleChannels,
         NEW url \in SUBSET Delivery!Channels, IsFiniteSet(url), Delivery!Dispatch(kind, channels, url)
  PROVE  DeliveryInv'
  <1>1. PICK a \in Delivery!Alerts, to \in SUBSET Delivery!Channels : Appends(a, to, kind)
    BY DispatchAppends DEF DeliveryInv
  <1> USE DEF Appends
  <1>2. DeliveryTyped'
    <2>1. Len(sent') <= MaxAlerts /\ Len(sent') \in Nat
      BY <1>1 DEF Delivery!Alerts
    <2>2. (\A u \in Slack : queues'[u] \in Seq(Delivery!Alerts)) /\ \A b \in Delivery!Alerts : tasks'[b] \in Seq(Delivery!Channels)
      BY <1>1
    <2>3. overlapped' \subseteq Delivery!Alerts
      BY <1>1 DEF DeliveryInv, DeliveryTyped, Delivery!TypeOK
    <2> QED BY <1>1, <2>1, <2>2, <2>3 DEF DeliveryInv, DeliveryTyped, Delivery!TypeOK
  <1>3. WaitingKnown'
    <2>1. ASSUME NEW b \in Delivery!Alerts, NEW c \in Elements(tasks'[b])
          PROVE  b \in Sent' /\ c \in sent'[b].to \ Slack
      BY <1>1, <2>1 DEF DeliveryInv, WaitingKnown
    <2>2. ASSUME NEW u \in Slack PROVE Elements(queues'[u]) \subseteq Sent' /\ Ascending(queues'[u])
      BY <1>1 DEF DeliveryInv, WaitingKnown
    <2> QED BY <2>1, <2>2 DEF WaitingKnown
  <1>4. HeardKnown'
    <2>1. \A c \in Delivery!Channels : \A g \in got'[c] : g.alert \in Sent' /\ (g.by = "slack" <=> c \in Slack)
      BY <1>1 DEF DeliveryInv, HeardKnown
    <2>2. ASSUME NEW u \in Slack, NEW g \in got'[u], NEW b \in Elements(queues'[u]) PROVE g.alert <= b
      <3>1. u \in Delivery!Channels /\ g \in got[u] /\ g.alert \in Sent
        BY <1>1 DEF DeliveryInv, HeardKnown, Delivery!Channels
      <3>2. b \in Elements(queues[u]) \/ b = a
        BY <1>1
      <3> QED BY <1>1, <3>1, <3>2 DEF DeliveryInv, DeliveryTyped, HeardKnown, Sent
    <2> QED BY <2>1, <2>2 DEF HeardKnown
  <1>5. AllCovered'
    <2>1. ASSUME NEW b \in Sent, NEW c \in sent'[b].to PROVE Covered(b, c)'
      <3>1. Covered(b, c) /\ b \in Delivery!Alerts /\ b # a /\ sent'[b] = sent[b]
        BY <1>1 DEF DeliveryInv, AllCovered, DeliveryTyped, Delivery!TypeOK, Sent, Delivery!Alerts
      <3>2. c \in Slack /\ b \in Elements(queues[c]) => b \in Elements(queues'[c])
        BY <1>1
      <3> QED BY <1>1, <3>1, <3>2 DEF Covered, Delivery!Heard
    <2>2. ASSUME NEW c \in to PROVE Covered(a, c)'
      BY <1>1 DEF Covered
    <2> QED BY <1>1, <2>1, <2>2 DEF AllCovered
  <1>6. IncidentKnown'
    <2> SUFFICES ASSUME NEW p \in Pager, NEW l \in Sent' \ overlapped', IsLast(p, l)'
                 PROVE  /\ \A b \in Delivery!Alerts \ {l} : p \notin Elements(tasks'[b])
                        /\ l \in Delivery!Heard(p)' => incident'[p] = Delivery!Fires(sent'[l].kind)
      BY DEF IncidentKnown
    <2>1. p \notin Slack /\ p \in Delivery!Channels
      BY DEF Delivery!DeliveryAssumption, Delivery!Channels
    <2>2. CASE p \in to
      <3>1. l = a
        BY <1>1, <2>2 DEF IsLast, Sent, DeliveryInv, DeliveryTyped
      <3>2. \A g \in got[p] : g.alert # a
        BY <1>1, <2>1 DEF DeliveryInv, HeardKnown
      <3>3. a \notin Delivery!Heard(p)'
        BY <1>1, <3>2 DEF Delivery!Heard
      <3>4. \A b \in Delivery!Alerts \ {a} : p \notin Elements(tasks'[b])
        BY <1>1, <2>1, <2>2, <3>1
      <3> QED BY <3>1, <3>3, <3>4
    <2>3. CASE p \notin to
      <3>1. l # a /\ l \in Sent \ overlapped
        BY <1>1, <2>3 DEF IsLast
      <3>2. IsLast(p, l)
        BY <1>1, <3>1 DEF IsLast
      <3>3. /\ \A b \in Delivery!Alerts \ {l} : p \notin Elements(tasks[b])
            /\ l \in Delivery!Heard(p) => incident[p] = Delivery!Fires(sent[l].kind)
        BY <3>1, <3>2 DEF DeliveryInv, IncidentKnown
      <3> QED BY <1>1, <2>3, <3>1, <3>3 DEF Delivery!Heard
    <2> QED BY <2>2, <2>3
  <1> QED BY <1>2, <1>3, <1>4, <1>5, <1>6 DEF DeliveryInv
(* What a post to channel c of alert a, by one of the observers, leaves.   *)
Posted(c, a, by) ==
  /\ \/ Delivery!Reaches(c, a, by)
     \/ UNCHANGED <<got, incident>>
  /\ failed' \in [Delivery!Channels -> SUBSET Delivery!Alerts]
  /\ \A d \in Delivery!Channels : failed[d] \subseteq failed'[d]
  /\ tries' \in [Slack \union Delivery!Alerts -> 0..MaxRetries]
  /\ UNCHANGED <<sent, overlapped, exits>>

Accounted(c, a) == a \in failed'[c] \/ \E g \in got'[c] : g.alert = a

LEMMA SlackPosts ==
  ASSUME Delivery!DeliveryAssumption, DeliveryInv, NEW u \in Slack, Delivery!SlackPost(u)
  PROVE  /\ queues[u] # << >> /\ Posted(u, Head(queues[u]), "slack") /\ tasks' = tasks
         /\ \/ queues' = queues
            \/ queues' = [queues EXCEPT ![u] = Tail(@)] /\ Accounted(u, Head(queues[u]))
  <1> DEFINE a == Head(queues[u])
  <1>1. /\ queues[u] \in Seq(Delivery!Alerts) /\ u \in Delivery!Channels /\ queues[u] # << >>
        /\ tries \in [Slack \union Delivery!Alerts -> 0..MaxRetries]
        /\ failed \in [Delivery!Channels -> SUBSET Delivery!Alerts]
        /\ got \in [Delivery!Channels -> SUBSET [alert : Delivery!Alerts, by : Delivery!Observers]]
        /\ MaxRetries \in Nat
    BY DEF DeliveryInv, DeliveryTyped, Delivery!TypeOK, Delivery!Channels, Delivery!SlackPost, Delivery!DeliveryAssumption
  <1>2. a \in Delivery!Alerts
    BY <1>1, ElementsOfTail
  <1> HIDE DEF a
  <1>3. /\ \/ Delivery!Reaches(u, a, "slack") /\ Delivery!SlackDone(u) /\ UNCHANGED failed
           \/ Delivery!Missed /\ Delivery!SlackDone(u) /\ failed' = [failed EXCEPT ![u] = @ \union {a}]
           \/ /\ Delivery!Reaches(u, a, "slack") \/ Delivery!Missed
              /\ IF tries[u] < MaxRetries THEN Delivery!SlackRetries(u) /\ UNCHANGED failed
                 ELSE Delivery!SlackDone(u) /\ failed' = [failed EXCEPT ![u] = @ \union {a}]
        /\ UNCHANGED <<sent, tasks, overlapped, exits>>
    BY DEF Delivery!SlackPost, a
  <1>4. Delivery!Reaches(u, a, "slack") => \E g \in got'[u] : g.alert = a
    <2>1. Delivery!Reaches(u, a, "slack") => [alert |-> a, by |-> "slack"] \in got'[u]
      BY <1>1 DEF Delivery!Reaches
    <2> QED BY <2>1
  <1>5. /\ failed' \in [Delivery!Channels -> SUBSET Delivery!Alerts]
        /\ \A d \in Delivery!Channels : failed[d] \subseteq failed'[d]
    <2>1. failed' = failed \/ failed' = [failed EXCEPT ![u] = @ \union {a}]
      BY <1>3
    <2> QED BY <1>1, <1>2, <2>1
  <1>6. tries' \in [Slack \union Delivery!Alerts -> 0..MaxRetries]
    <2>1. \/ tries' = [tries EXCEPT ![u] = 0]
          \/ tries[u] < MaxRetries /\ tries' = [tries EXCEPT ![u] = @ + 1]
      BY <1>3 DEF Delivery!SlackDone, Delivery!SlackRetries
    <2> QED BY <1>1, <2>1
  <1>7. \/ queues' = queues
        \/ queues' = [queues EXCEPT ![u] = Tail(@)] /\ (Delivery!Reaches(u, a, "slack") \/ failed' = [failed EXCEPT ![u] = @ \union {a}])
    BY <1>3 DEF Delivery!SlackDone, Delivery!SlackRetries
  <1>8. failed' = [failed EXCEPT ![u] = @ \union {a}] => a \in failed'[u]
    BY <1>1
  <1>9. Delivery!Reaches(u, a, "slack") \/ UNCHANGED <<got, incident>>
    BY <1>3 DEF Delivery!Missed
  <1> QED BY <1>1, <1>3, <1>4, <1>5, <1>6, <1>7, <1>8, <1>9 DEF Posted, Accounted, a

LEMMA WebhookPosts ==
  ASSUME Delivery!DeliveryAssumption, DeliveryInv, NEW a \in Delivery!Alerts, Delivery!WebhookPost(a)
  PROVE  /\ tasks[a] # << >> /\ Posted(Head(tasks[a]), a, "webhook") /\ queues' = queues
         /\ \/ tasks' = tasks
            \/ tasks' = [tasks EXCEPT ![a] = Tail(@)] /\ Accounted(Head(tasks[a]), a)
  <1> DEFINE c == Head(tasks[a])
  <1>1. /\ tasks[a] \in Seq(Delivery!Channels) /\ tasks[a] # << >>
        /\ tries \in [Slack \union Delivery!Alerts -> 0..MaxRetries]
        /\ failed \in [Delivery!Channels -> SUBSET Delivery!Alerts]
        /\ got \in [Delivery!Channels -> SUBSET [alert : Delivery!Alerts, by : Delivery!Observers]]
        /\ MaxRetries \in Nat
    BY DEF DeliveryInv, DeliveryTyped, Delivery!TypeOK, Delivery!WebhookPost, Delivery!DeliveryAssumption
  <1>2. c \in Delivery!Channels
    BY <1>1, ElementsOfTail
  <1> HIDE DEF c
  <1>3. /\ \/ Delivery!Reaches(c, a, "webhook") /\ Delivery!TaskDone(a) /\ UNCHANGED failed
           \/ Delivery!Missed /\ Delivery!TaskDone(a) /\ failed' = [failed EXCEPT ![c] = @ \union {a}]
           \/ /\ Delivery!Reaches(c, a, "webhook") \/ Delivery!Missed
              /\ IF tries[a] < MaxRetries
                 THEN tries' = [tries EXCEPT ![a] = @ + 1] /\ UNCHANGED <<tasks, failed>>
                 ELSE Delivery!TaskDone(a) /\ failed' = [failed EXCEPT ![c] = @ \union {a}]
        /\ UNCHANGED <<sent, queues, overlapped, exits>>
    BY DEF Delivery!WebhookPost, c
  <1>4. Delivery!Reaches(c, a, "webhook") => \E g \in got'[c] : g.alert = a
    <2>1. Delivery!Reaches(c, a, "webhook") => [alert |-> a, by |-> "webhook"] \in got'[c]
      BY <1>1, <1>2 DEF Delivery!Reaches
    <2> QED BY <2>1
  <1>5. /\ failed' \in [Delivery!Channels -> SUBSET Delivery!Alerts]
        /\ \A d \in Delivery!Channels : failed[d] \subseteq failed'[d]
    <2>1. failed' = failed \/ failed' = [failed EXCEPT ![c] = @ \union {a}]
      BY <1>3
    <2> QED BY <1>1, <1>2, <2>1
  <1>6. tries' \in [Slack \union Delivery!Alerts -> 0..MaxRetries]
    <2>1. \/ tries' = [tries EXCEPT ![a] = 0]
          \/ tries[a] < MaxRetries /\ tries' = [tries EXCEPT ![a] = @ + 1]
      BY <1>3 DEF Delivery!TaskDone
    <2> QED BY <1>1, <2>1
  <1>7. \/ tasks' = tasks
        \/ tasks' = [tasks EXCEPT ![a] = Tail(@)] /\ (Delivery!Reaches(c, a, "webhook") \/ failed' = [failed EXCEPT ![c] = @ \union {a}])
    BY <1>3 DEF Delivery!TaskDone
  <1>8. failed' = [failed EXCEPT ![c] = @ \union {a}] => a \in failed'[c]
    BY <1>1, <1>2
  <1>9. Delivery!Reaches(c, a, "webhook") \/ UNCHANGED <<got, incident>>
    BY <1>3 DEF Delivery!Missed
  <1> QED BY <1>1, <1>3, <1>4, <1>5, <1>6, <1>7, <1>8, <1>9 DEF Posted, Accounted, c
LEMMA SentToChannels ==
  ASSUME DeliveryInv, NEW b \in Sent
  PROVE  b \in Delivery!Alerts /\ sent[b].to \subseteq Delivery!Channels
  <1>1. sent[b] \in Delivery!Alert
    BY DEF DeliveryInv, DeliveryTyped, Delivery!TypeOK, Sent
  <1>2. b \in Delivery!Alerts
    BY DEF DeliveryInv, DeliveryTyped, Delivery!TypeOK, Sent, Delivery!Alerts
  <1> QED BY <1>1, <1>2 DEF Delivery!Alert

LEMMA SlackPostKeeps ==
  ASSUME Delivery!DeliveryAssumption, DeliveryInv, NEW u \in Slack, Delivery!SlackPost(u)
  PROVE  DeliveryInv'
  <1>1. /\ queues[u] \in Seq(Delivery!Alerts) /\ u \in Delivery!Channels /\ u \notin Pager
        /\ queues \in [Slack -> Seq(Delivery!Alerts)]
        /\ got \in [Delivery!Channels -> SUBSET [alert : Delivery!Alerts, by : Delivery!Observers]]
    BY DEF DeliveryInv, DeliveryTyped, Delivery!Channels, Delivery!DeliveryAssumption
  <1>2. queues[u] # << >>
    BY SlackPosts
  <1>3. PICK a \in Delivery!Alerts : a = Head(queues[u])
    BY <1>1, <1>2, ElementsOfTail
  <1>4. /\ \/ Delivery!Reaches(u, a, "slack") \/ UNCHANGED <<got, incident>>
        /\ failed' \in [Delivery!Channels -> SUBSET Delivery!Alerts]
        /\ \A d \in Delivery!Channels : failed[d] \subseteq failed'[d]
        /\ tries' \in [Slack \union Delivery!Alerts -> 0..MaxRetries]
        /\ UNCHANGED <<sent, overlapped, exits, tasks>>
        /\ \/ queues' = queues
           \/ queues' = [queues EXCEPT ![u] = Tail(@)] /\ Accounted(u, a)
    BY <1>3, SlackPosts DEF Posted, Accounted, Delivery!Reaches
  <1>5. /\ Tail(queues[u]) \in Seq(Delivery!Alerts) /\ Ascending(queues[u]) /\ Ascending(Tail(queues[u]))
        /\ Elements(queues[u]) = {a} \union Elements(Tail(queues[u]))
        /\ \A x \in Elements(Tail(queues[u])) : a < x
    BY <1>1, <1>2, <1>3, ElementsOfTail DEF DeliveryInv, WaitingKnown
  <1>6. a \in Sent /\ a \in Nat /\ Elements(queues[u]) \subseteq Sent
    BY <1>1, <1>5 DEF DeliveryInv, WaitingKnown, Sent, DeliveryTyped
  <1>7. /\ queues' \in [Slack -> Seq(Delivery!Alerts)]
        /\ \A v \in Slack \ {u} : queues'[v] = queues[v]
        /\ Ascending(queues'[u]) /\ Elements(queues'[u]) \subseteq Elements(queues[u])
        /\ \A x \in Elements(queues[u]) : x \in Elements(queues'[u]) \/ (x = a /\ Accounted(u, a))
    <2>1. CASE queues' = queues
      BY <1>1, <1>5, <2>1
    <2>2. CASE queues' = [queues EXCEPT ![u] = Tail(@)] /\ Accounted(u, a)
      BY <1>1, <1>5, <2>2
    <2> QED BY <1>4, <2>1, <2>2
  <1>8. /\ got' \in [Delivery!Channels -> SUBSET [alert : Delivery!Alerts, by : Delivery!Observers]]
        /\ \A c \in Delivery!Channels : got[c] \subseteq got'[c]
        /\ \A c \in Delivery!Channels \ {u} : got'[c] = got[c]
        /\ \A g \in got'[u] : g \in got[u] \/ g = [alert |-> a, by |-> "slack"]
        /\ \A p \in Pager : incident'[p] = incident[p]
        /\ incident' \in [Pager -> BOOLEAN]
    <2>1. incident \in [Pager -> BOOLEAN]
      BY DEF DeliveryInv, DeliveryTyped, Delivery!TypeOK
    <2>2. CASE Delivery!Reaches(u, a, "slack")
      <3>1. got' = [got EXCEPT ![u] = @ \union {[alert |-> a, by |-> "slack"]}]
        BY <2>2 DEF Delivery!Reaches
      <3>2. \A p \in Pager : p # u
        BY <1>1
      <3>3. incident' = incident
        <4>1. incident' = [p \in Pager |-> IF p = u THEN Delivery!Fires(sent[a].kind) ELSE incident[p]]
          BY <2>2 DEF Delivery!Reaches
        <4> QED BY <2>1, <3>2, <4>1
      <3>4. [alert |-> a, by |-> "slack"] \in [alert : Delivery!Alerts, by : Delivery!Observers]
        BY DEF Delivery!Observers
      <3> QED BY <1>1, <2>1, <3>1, <3>3, <3>4
    <2>3. CASE UNCHANGED <<got, incident>>
      BY <1>1, <2>1, <2>3
    <2> QED BY <1>4, <2>2, <2>3
  <1>9. DeliveryTyped'
    BY <1>4, <1>7, <1>8 DEF DeliveryInv, DeliveryTyped, Delivery!TypeOK
  <1>10. WaitingKnown'
    <2>1. \A b \in Delivery!Alerts : \A c \in Elements(tasks'[b]) : b \in Sent' /\ c \in sent'[b].to \ Slack
      BY <1>4 DEF DeliveryInv, WaitingKnown, Sent
    <2>2. \A v \in Slack : Elements(queues'[v]) \subseteq Sent' /\ Ascending(queues'[v])
      BY <1>4, <1>6, <1>7 DEF DeliveryInv, WaitingKnown, Sent
    <2> QED BY <2>1, <2>2 DEF WaitingKnown
  <1>11. HeardKnown'
    <2>1. ASSUME NEW c \in Delivery!Channels, NEW g \in got'[c]
          PROVE  g.alert \in Sent' /\ (g.by = "slack" <=> c \in Slack)
      <3>1. CASE g \in got[c]
        BY <1>4, <3>1 DEF DeliveryInv, HeardKnown, Sent
      <3>2. CASE g \notin got[c]
        <4>1. c = u /\ g.alert = a /\ g.by = "slack"
          BY <1>8, <2>1, <3>2
        <4> QED BY <1>4, <1>6, <4>1 DEF Sent
      <3> QED BY <3>1, <3>2
    <2>2. ASSUME NEW v \in Slack, NEW g \in got'[v], NEW b \in Elements(queues'[v]) PROVE g.alert <= b
      <3>1. v \in Delivery!Channels /\ b \in Elements(queues[v])
        BY <1>7 DEF Delivery!Channels
      <3>2. CASE g \in got[v]
        BY <3>1, <3>2 DEF DeliveryInv, HeardKnown
      <3>3. CASE g \notin got[v]
        <4>1. v = u /\ g.alert = a
          BY <1>8, <3>1, <3>3
        <4>2. b = a \/ a < b
          BY <1>5, <3>1, <4>1
        <4>3. b \in Nat
          BY <1>6, <3>1, <4>1 DEF Sent
        <4> QED BY <1>6, <4>1, <4>2, <4>3
      <3> QED BY <3>2, <3>3
    <2> QED BY <2>1, <2>2 DEF HeardKnown
  <1>12. AllCovered'
    <2> SUFFICES ASSUME NEW b \in Sent, NEW c \in sent[b].to PROVE Covered(b, c)'
      BY <1>4 DEF AllCovered, Sent
    <2>1. Covered(b, c) /\ c \in Delivery!Channels
      BY SentToChannels DEF DeliveryInv, AllCovered
    <2>2. b \in Delivery!Heard(c) => b \in Delivery!Heard(c)'
      BY <1>8, <2>1 DEF Delivery!Heard
    <2>3. c \in Slack /\ b \in Elements(queues[c]) =>
            b \in Elements(queues'[c]) \/ b \in Delivery!Heard(c)' \union failed'[c]
      BY <1>7, <2>1 DEF Accounted, Delivery!Heard
    <2> QED BY <1>4, <2>1, <2>2, <2>3 DEF Covered
  <1>13. IncidentKnown'
    <2>1. \A p \in Pager : p \in Delivery!Channels /\ p # u
      BY <1>1 DEF Delivery!Channels
    <2> QED BY <1>4, <1>8, <2>1 DEF DeliveryInv, IncidentKnown, IsLast, Sent, Delivery!Heard
  <1> QED BY <1>9, <1>10, <1>11, <1>12, <1>13 DEF DeliveryInv
LEMMA WebhookPostKeeps ==
  ASSUME Delivery!DeliveryAssumption, DeliveryInv, NEW a \in Delivery!Alerts, Delivery!WebhookPost(a)
  PROVE  DeliveryInv'
  <1>1. /\ tasks[a] \in Seq(Delivery!Channels) /\ tasks[a] # << >>
        /\ tasks \in [Delivery!Alerts -> Seq(Delivery!Channels)]
        /\ got \in [Delivery!Channels -> SUBSET [alert : Delivery!Alerts, by : Delivery!Observers]]
    BY WebhookPosts DEF DeliveryInv, DeliveryTyped
  <1>2. PICK c \in Delivery!Channels : c = Head(tasks[a])
    BY <1>1, ElementsOfTail
  <1>3. /\ \/ Delivery!Reaches(c, a, "webhook") \/ UNCHANGED <<got, incident>>
        /\ failed' \in [Delivery!Channels -> SUBSET Delivery!Alerts]
        /\ \A d \in Delivery!Channels : failed[d] \subseteq failed'[d]
        /\ tries' \in [Slack \union Delivery!Alerts -> 0..MaxRetries]
        /\ UNCHANGED <<sent, overlapped, exits, queues>>
        /\ \/ tasks' = tasks
           \/ tasks' = [tasks EXCEPT ![a] = Tail(@)] /\ Accounted(c, a)
    BY <1>2, WebhookPosts DEF Posted, Accounted, Delivery!Reaches
  <1>4. /\ Tail(tasks[a]) \in Seq(Delivery!Channels)
        /\ Elements(tasks[a]) = {c} \union Elements(Tail(tasks[a]))
    BY <1>1, <1>2, ElementsOfTail
  <1>5. a \in Sent /\ c \in sent[a].to /\ c \notin Slack
    BY <1>4 DEF DeliveryInv, WaitingKnown
  <1>6. /\ tasks' \in [Delivery!Alerts -> Seq(Delivery!Channels)]
        /\ \A b \in Delivery!Alerts : Elements(tasks'[b]) \subseteq Elements(tasks[b])
        /\ \A b \in Delivery!Alerts \ {a} : tasks'[b] = tasks[b]
        /\ \A d \in Elements(tasks[a]) : d \in Elements(tasks'[a]) \/ (d = c /\ Accounted(c, a))
    <2>1. CASE tasks' = tasks
      BY <1>1, <2>1
    <2>2. CASE tasks' = [tasks EXCEPT ![a] = Tail(@)] /\ Accounted(c, a)
      BY <1>1, <1>4, <2>2
    <2> QED BY <1>3, <2>1, <2>2
  <1>7. /\ got' \in [Delivery!Channels -> SUBSET [alert : Delivery!Alerts, by : Delivery!Observers]]
        /\ \A d \in Delivery!Channels : got[d] \subseteq got'[d]
        /\ \A d \in Delivery!Channels \ {c} : got'[d] = got[d]
        /\ \A g \in got'[c] : g \in got[c] \/ g = [alert |-> a, by |-> "webhook"]
        /\ \A p \in Pager \ {c} : incident'[p] = incident[p]
        /\ incident' \in [Pager -> BOOLEAN]
        /\ c \in Pager => \/ got'[c] = got[c] /\ incident'[c] = incident[c]
                          \/ incident'[c] = Delivery!Fires(sent[a].kind)
    <2>1. incident \in [Pager -> BOOLEAN]
      BY DEF DeliveryInv, DeliveryTyped, Delivery!TypeOK
    <2>2. CASE Delivery!Reaches(c, a, "webhook")
      <3>1. got' = [got EXCEPT ![c] = @ \union {[alert |-> a, by |-> "webhook"]}]
        BY <2>2 DEF Delivery!Reaches
      <3>2. incident' = [p \in Pager |-> IF p = c THEN Delivery!Fires(sent[a].kind) ELSE incident[p]]
        BY <2>2 DEF Delivery!Reaches
      <3>3. Delivery!Fires(sent[a].kind) \in BOOLEAN
        BY DEF Delivery!Fires
      <3>4. [alert |-> a, by |-> "webhook"] \in [alert : Delivery!Alerts, by : Delivery!Observers]
        BY DEF Delivery!Observers
      <3>5. incident' \in [Pager -> BOOLEAN]
        BY <2>1, <3>2, <3>3
      <3>6. \A p \in Pager : incident'[p] = IF p = c THEN Delivery!Fires(sent[a].kind) ELSE incident[p]
        BY <3>2
      <3> QED BY <1>1, <3>1, <3>4, <3>5, <3>6
    <2>3. CASE UNCHANGED <<got, incident>>
      BY <1>1, <2>1, <2>3
    <2> QED BY <1>3, <2>2, <2>3
  <1>8. DeliveryTyped'
    BY <1>3, <1>6, <1>7 DEF DeliveryInv, DeliveryTyped, Delivery!TypeOK
  <1>9. WaitingKnown'
    BY <1>3, <1>6 DEF DeliveryInv, WaitingKnown, Sent
  <1>10. HeardKnown'
    <2>1. ASSUME NEW d \in Delivery!Channels, NEW g \in got'[d]
          PROVE  g.alert \in Sent' /\ (g.by = "slack" <=> d \in Slack)
      <3>1. CASE g \in got[d]
        BY <1>3, <3>1 DEF DeliveryInv, HeardKnown, Sent
      <3>2. CASE g \notin got[d]
        <4>1. d = c /\ g.alert = a /\ g.by = "webhook"
          BY <1>7, <2>1, <3>2
        <4> QED BY <1>3, <1>5, <4>1 DEF Sent
      <3> QED BY <3>1, <3>2
    <2>2. \A u \in Slack : got'[u] = got[u]
      BY <1>5, <1>7 DEF Delivery!Channels
    <2>3. \A u \in Slack : \A g \in got'[u] : \A b \in Elements(queues'[u]) : g.alert <= b
      BY <1>3, <2>2 DEF DeliveryInv, HeardKnown
    <2> QED BY <2>1, <2>3 DEF HeardKnown
  <1>11. AllCovered'
    <2> SUFFICES ASSUME NEW b \in Sent, NEW d \in sent[b].to PROVE Covered(b, d)'
      BY <1>3 DEF AllCovered, Sent
    <2>1. Covered(b, d) /\ d \in Delivery!Channels /\ b \in Delivery!Alerts
      BY SentToChannels DEF DeliveryInv, AllCovered
    <2>2. b \in Delivery!Heard(d) => b \in Delivery!Heard(d)'
      BY <1>7, <2>1 DEF Delivery!Heard
    <2>3. d \in Elements(tasks[b]) =>
            d \in Elements(tasks'[b]) \/ b \in Delivery!Heard(d)' \union failed'[d]
      BY <1>6, <2>1 DEF Accounted, Delivery!Heard
    <2> QED BY <1>3, <2>1, <2>2, <2>3 DEF Covered
  <1>12. IncidentKnown'
    <2> SUFFICES ASSUME NEW p \in Pager, NEW l \in Sent \ overlapped, IsLast(p, l)
                 PROVE  /\ \A b \in Delivery!Alerts \ {l} : p \notin Elements(tasks'[b])
                        /\ l \in Delivery!Heard(p)' => incident'[p] = Delivery!Fires(sent[l].kind)
      BY <1>3 DEF IncidentKnown, IsLast, Sent
    <2>1. /\ \A b \in Delivery!Alerts \ {l} : p \notin Elements(tasks[b])
          /\ l \in Delivery!Heard(p) => incident[p] = Delivery!Fires(sent[l].kind)
          /\ p \in Delivery!Channels
      BY DEF DeliveryInv, IncidentKnown, Delivery!Channels
    <2>2. \A b \in Delivery!Alerts \ {l} : p \notin Elements(tasks'[b])
      BY <1>6, <2>1
    <2>3. CASE p = c
      <3>1. a = l
        BY <1>4, <2>1, <2>3
      <3>2. CASE got'[c] = got[c] /\ incident'[c] = incident[c]
        BY <2>1, <2>2, <2>3, <3>2 DEF Delivery!Heard
      <3>3. CASE incident'[c] = Delivery!Fires(sent[a].kind)
        BY <2>2, <2>3, <3>1, <3>3
      <3> QED BY <1>7, <2>3, <3>2, <3>3
    <2>4. CASE p # c
      BY <1>7, <2>1, <2>2, <2>4 DEF Delivery!Heard
    <2> QED BY <2>3, <2>4
  <1> QED BY <1>8, <1>9, <1>10, <1>11, <1>12 DEF DeliveryInv

LEMMA DeliveryRestartKeeps ==
  ASSUME Delivery!DeliveryAssumption, DeliveryInv, Delivery!Restart
  PROVE  DeliveryInv'
  <1>1. /\ exits' \in 0..MaxExits
        /\ queues' = [u \in Slack |-> << >>] /\ tasks' = [a \in Delivery!Alerts |-> << >>]
        /\ tries' = [x \in Slack \union Delivery!Alerts |-> 0]
        /\ failed' = [c \in Delivery!Channels |-> failed[c] \union
             {a \in Delivery!Alerts : c \in Elements(tasks[a])
                                        \/ (c \in Slack /\ Delivery!Contains(queues[c], a))}]
        /\ UNCHANGED <<sent, got, incident, overlapped>>
    BY DEF Delivery!Restart, Elements, DeliveryInv, DeliveryTyped, Delivery!TypeOK, Delivery!DeliveryAssumption
  <1>2. Elements(<< >>) = {} /\ Ascending(<< >>)
    BY DEF Elements, Delivery!ToSet, Ascending
  <1>3. DeliveryTyped'
    <2>1. failed' \in [Delivery!Channels -> SUBSET Delivery!Alerts]
      BY <1>1 DEF DeliveryInv, DeliveryTyped, Delivery!TypeOK
    <2>2. tries' \in [Slack \union Delivery!Alerts -> 0..MaxRetries]
      BY <1>1 DEF Delivery!DeliveryAssumption
    <2>3. queues' \in [Slack -> Seq(Delivery!Alerts)] /\ tasks' \in [Delivery!Alerts -> Seq(Delivery!Channels)]
      BY <1>1
    <2> QED BY <1>1, <2>1, <2>2, <2>3 DEF DeliveryInv, DeliveryTyped, Delivery!TypeOK
  <1>4. /\ \A u \in Slack : queues'[u] = << >>
        /\ \A a \in Delivery!Alerts : tasks'[a] = << >>
    BY <1>1
  <1>5. WaitingKnown' /\ HeardKnown'
    BY <1>1, <1>2, <1>4 DEF WaitingKnown, HeardKnown, DeliveryInv, Sent
  <1>6. AllCovered'
    <2> SUFFICES ASSUME NEW b \in Sent, NEW c \in sent[b].to PROVE Covered(b, c)'
      BY <1>1 DEF AllCovered, Sent
    <2>1. Covered(b, c) /\ c \in Delivery!Channels /\ b \in Delivery!Alerts
      BY SentToChannels DEF DeliveryInv, AllCovered
    <2>2. c \in Slack => queues[c] \in Seq(Delivery!Alerts)
      BY DEF DeliveryInv, DeliveryTyped
    <2>3. c \in Slack /\ b \in Elements(queues[c]) => Delivery!Contains(queues[c], b)
      BY <2>2, ContainsAnElement
    <2>4. c \in Elements(tasks[b]) \/ (c \in Slack /\ b \in Elements(queues[c])) \/ b \in failed[c] => b \in failed'[c]
      BY <1>1, <2>1, <2>3
    <2> QED BY <1>1, <2>1, <2>4 DEF Covered, Delivery!Heard
  <1>7. IncidentKnown'
    BY <1>1, <1>2, <1>4 DEF DeliveryInv, IncidentKnown, IsLast, Sent, Delivery!Heard
  <1> QED BY <1>3, <1>5, <1>6, <1>7 DEF DeliveryInv

LEMMA DeliveryInit ==
  ASSUME Delivery!DeliveryAssumption, Delivery!Init PROVE DeliveryInv
  <1>1. Elements(<< >>) = {} /\ Ascending(<< >>)
    BY DEF Elements, Delivery!ToSet, Ascending
  <1>2. /\ sent = << >> /\ Len(sent) = 0 /\ Sent = {}
        /\ \A u \in Slack : queues[u] = << >>
        /\ \A a \in Delivery!Alerts : tasks[a] = << >>
        /\ \A c \in Delivery!Channels : got[c] = {}
    BY DEF Delivery!Init, Sent
  <1>3. DeliveryTyped
    <2>1. /\ queues \in [Slack -> Seq(Delivery!Alerts)] /\ tasks \in [Delivery!Alerts -> Seq(Delivery!Channels)]
          /\ got \in [Delivery!Channels -> SUBSET [alert : Delivery!Alerts, by : Delivery!Observers]]
          /\ failed \in [Delivery!Channels -> SUBSET Delivery!Alerts]
          /\ incident \in [Pager -> BOOLEAN]
      BY DEF Delivery!Init
    <2>2. /\ tries \in [Slack \union Delivery!Alerts -> 0..MaxRetries] /\ exits \in 0..MaxExits
          /\ MaxAlerts \in Nat
      BY DEF Delivery!Init, Delivery!DeliveryAssumption
    <2>3. sent \in Seq(Delivery!Alert) /\ overlapped = {}
      BY DEF Delivery!Init
    <2> QED BY <1>2, <2>1, <2>2, <2>3 DEF DeliveryTyped, Delivery!TypeOK
  <1>4. WaitingKnown /\ HeardKnown /\ AllCovered /\ IncidentKnown
    <2>1. Slack \subseteq Delivery!Channels
      BY DEF Delivery!Channels
    <2> QED BY <1>1, <1>2, <2>1 DEF WaitingKnown, HeardKnown, AllCovered, IncidentKnown
  <1> QED BY <1>3, <1>4 DEF DeliveryInv

LEMMA DeliveryNext ==
  ASSUME Delivery!DeliveryAssumption, DeliveryInv, [Delivery!Next]_Delivery!vars
  PROVE  DeliveryInv'
  <1>1. ASSUME NEW kind \in AlertKinds, NEW channels \in RuleChannels, NEW u \in Delivery!Channels \ Pager,
               Delivery!Dispatch(kind, channels, {}) \/ Delivery!Dispatch(kind, channels, {u})
        PROVE  DeliveryInv'
    <2>1. IsFiniteSet({}) /\ IsFiniteSet({u}) /\ {} \in SUBSET Delivery!Channels /\ {u} \in SUBSET Delivery!Channels
      BY FS_EmptySet, FS_Singleton
    <2> QED BY <1>1, <2>1, DispatchKeeps
  <1>2. CASE UNCHANGED Delivery!vars
    <2>1. UNCHANGED <<sent, queues, tasks, tries, got, incident, failed, overlapped, exits>>
      BY <1>2 DEF Delivery!vars
    <2> QED BY <2>1 DEF DeliveryInv, DeliveryTyped, Delivery!TypeOK, WaitingKnown, HeardKnown, AllCovered, Covered,
                        IncidentKnown, IsLast, Sent, Delivery!Heard
  <1> QED BY <1>1, <1>2, SlackPostKeeps, WebhookPostKeeps, DeliveryRestartKeeps DEF Delivery!Next

(* "The two observers partition each rule's channels with no overlap       *)
(* (double-delivery) and no gaps", whatever is retried, given up or lost   *)
(* with the process; and a PagerDuty incident is as the last alert about   *)
(* it says, once that is delivered, unless it was dispatched while an      *)
(* earlier one was still being posted; for any channels and alerts.        *)
LEMMA DeliveriesArePartitioned ==
  ASSUME Delivery!DeliveryAssumption
  PROVE  Delivery!Spec => [](Delivery!TypeOK /\ Delivery!Partitioned /\ Delivery!IncidentFollows)
  <1>1. ASSUME DeliveryInv PROVE Delivery!Partitioned
    <2>1. ASSUME NEW c \in Delivery!Channels, NEW g \in got[c], NEW h \in got[c] PROVE g.by = h.by
      <3>1. g.by \in {"slack", "webhook"} /\ h.by \in {"slack", "webhook"}
        BY <1>1 DEF DeliveryInv, DeliveryTyped, Delivery!Observers
      <3> QED BY <1>1, <3>1 DEF DeliveryInv, HeardKnown
    <2>2. ASSUME NEW a \in Sent, NEW c \in sent[a].to
          PROVE  \/ Delivery!Pending(c, a) \/ a \in Delivery!Heard(c) \union failed[c]
                 \/ c \in Slack /\ Delivery!Resolves(sent[a].kind)
      <3>1. c \in Slack => queues[c] \in Seq(Delivery!Alerts)
        BY <1>1 DEF DeliveryInv, DeliveryTyped
      <3>2. c \in Slack /\ a \in Elements(queues[c]) => Delivery!Contains(queues[c], a)
        BY <3>1, ContainsAnElement
      <3> QED BY <1>1, <3>2 DEF DeliveryInv, AllCovered, Covered, Delivery!Pending, Elements
    <2>3. DOMAIN sent = Sent
      BY <1>1 DEF DeliveryInv, DeliveryTyped, Delivery!TypeOK, Sent
    <2> QED BY <2>1, <2>2, <2>3 DEF Delivery!Partitioned
  <1>2. ASSUME DeliveryInv PROVE Delivery!IncidentFollows
    <2>1. DOMAIN sent = Sent
      BY <1>2 DEF DeliveryInv, DeliveryTyped, Delivery!TypeOK, Sent
    <2> SUFFICES ASSUME NEW p \in Pager, NEW l \in Sent \ overlapped, p \in sent[l].to,
                        \A a \in {b \in Sent : p \in sent[b].to} : a <= l, l \in Delivery!Heard(p)
                 PROVE  incident[p] = Delivery!Fires(sent[l].kind)
      BY <2>1 DEF Delivery!IncidentFollows, Delivery!FollowsLast
    <2> QED BY <1>2 DEF DeliveryInv, IncidentKnown, IsLast
  <1>3. DeliveryInv => Delivery!TypeOK
    BY DEF DeliveryInv, DeliveryTyped
  <1> QED BY <1>1, <1>2, <1>3, DeliveryInit, DeliveryNext, PTL DEF Delivery!Spec

(* A Slack webhook hears of the alerts in the order they were dispatched,  *)
(* whatever is retried in between: a delivery keeps its place in the queue. *)
LEMMA SlackHearsInOrder ==
  ASSUME Delivery!DeliveryAssumption
  PROVE  Delivery!Spec => Delivery!SlackInOrder
  <1>1. ASSUME DeliveryInv, [Delivery!Next]_Delivery!vars, NEW u \in Slack, NEW g \in got'[u] \ got[u], NEW h \in got[u]
        PROVE  h.alert <= g.alert
    <2>1. u \in Delivery!Channels /\ got'[u] # got[u]
      BY DEF Delivery!Channels
    <2>2. \A kind \in AlertKinds, channels \in RuleChannels, v \in Delivery!Channels \ Pager :
            ~Delivery!Dispatch(kind, channels, {}) /\ ~Delivery!Dispatch(kind, channels, {v})
      BY <2>1 DEF Delivery!Dispatch
    <2>3. ~Delivery!Restart /\ ~UNCHANGED Delivery!vars
      BY <2>1 DEF Delivery!Restart, Delivery!vars
    <2>4. ASSUME NEW a \in Delivery!Alerts, Delivery!WebhookPost(a) PROVE FALSE
      <3>1. Head(tasks[a]) \notin Slack
        <4>1. tasks[a] \in Seq(Delivery!Channels) /\ tasks[a] # << >>
          BY <1>1, <2>4, WebhookPosts DEF DeliveryInv, DeliveryTyped
        <4> QED BY <1>1, <4>1, ElementsOfTail DEF DeliveryInv, WaitingKnown
      <3>2. Delivery!Reaches(Head(tasks[a]), a, "webhook") \/ UNCHANGED got
        BY <2>4 DEF Delivery!WebhookPost, Delivery!Missed
      <3> QED BY <1>1, <2>1, <3>1, <3>2 DEF Delivery!Reaches, DeliveryInv, DeliveryTyped
    <2>5. PICK v \in Slack : Delivery!SlackPost(v)
      BY <1>1, <2>2, <2>3, <2>4 DEF Delivery!Next
    <2>6. v \in Delivery!Channels /\ queues[v] \in Seq(Delivery!Alerts) /\ queues[v] # << >>
      BY <1>1, <2>5, SlackPosts DEF DeliveryInv, DeliveryTyped, Delivery!Channels
    <2>7. got' = [got EXCEPT ![v] = @ \union {[alert |-> Head(queues[v]), by |-> "slack"]}]
      BY <2>1, <2>5 DEF Delivery!SlackPost, Delivery!Reaches, Delivery!Missed
    <2>8. v = u /\ g.alert = Head(queues[u])
      BY <1>1, <2>1, <2>6, <2>7 DEF DeliveryInv, DeliveryTyped
    <2>9. Head(queues[u]) \in Elements(queues[u])
      BY <2>6, <2>8, ElementsOfTail
    <2> QED BY <1>1, <2>8, <2>9 DEF DeliveryInv, HeardKnown
  <1>2. DeliveryInv /\ [Delivery!Next]_Delivery!vars =>
          [\A u \in Slack : \A g \in got'[u] \ got[u], h \in got[u] : h.alert <= g.alert]_Delivery!vars
    BY <1>1
  <1> QED BY <1>2, DeliveryInit, DeliveryNext, PTL DEF Delivery!Spec, Delivery!SlackInOrder

(* For any channels, rules, retries and number of alerts, and across exits *)
(* of the process: a channel hears of an alert from one observer only and  *)
(* none is passed over, an incident follows the last alert for it unless   *)
(* posts of two overlapped, and a Slack webhook hears of the alerts in the *)
(* order they were dispatched.                                             *)
THEOREM DeliveriesAreSound == Delivery!Spec => DeliverySound
  BY AlertsAssumption, DeliveriesArePartitioned, SlackHearsInOrder
  DEF DeliverySound, Delivery!DeliverySound
=============================================================================
