---------------------------- MODULE SettingStores ----------------------------
(***************************************************************************)
(* The write-through stores of one tenant: alert rules                     *)
(* (watches/rule-store.ts, routes/rules.ts), template watches              *)
(* (watches/watch-store.ts, routes/watches.ts) and settings                *)
(* (watches/tenant-settings.ts, routes/settings.ts).  Each changes its     *)
(* memory first, awaits the INSERT, and takes the change back when the     *)
(* INSERT throws.  Every request begins, and ends, in one synchronous      *)
(* step; the row lands in between, and its version is the time of the      *)
(* beginning.  The three never touch each other's state, so a behaviour is *)
(* about one of them.                                                      *)
(***************************************************************************)
EXTENDS Naturals, FiniteSets

CONSTANTS
  Entries,      (* rule ids, template ids                                    *)
  Values,       (* what an entry or a setting holds                          *)
  None,         (* "no such entry"                                           *)
  Requests,     (* requests at a time                                        *)
  MaxPerTenant, (* maxPerTenant                                              *)
  MaxOps,       (* bound: requests in all                                    *)
  MaxFaults,    (* bound: INSERTs that throw                                 *)
  MaxRestarts   (* bound: exits of the API process                           *)

Fields == {"slack", "test", "other", "stamp"}
Keys   == Entries \union Fields

ASSUME StoresAssumption ==
  /\ Entries \intersect Fields = {}
  /\ None \notin Values /\ Values # {} /\ MaxPerTenant \in Nat \ {0}
  /\ MaxOps \in Nat /\ MaxFaults \in Nat /\ MaxRestarts \in Nat

Gens   == 0..(MaxOps + MaxFaults)

VARIABLES
  store,    (* the store this behaviour is about                             *)
  maps, gen, (* the map objects of the tenant, and the one rules.get returns *)
  table,    (* FINAL rows: version and value, None for is_deleted = 1        *)
  req,      (* requests                                                      *)
  stamp,    (* Date.now() of the latest request                              *)
  spoilt,   (* history: keys that met a failure they were not part of        *)
  lost,     (* history: keys whose row landed and whose answer was lost, or  *)
            (* that the load of a start skipped                              *)
  restored, (* history: removals and updates taken back                      *)
  retested, (* history: an outcome was stored next to a change of the webhook *)
  ops, faults, restarts

memory  == <<maps, gen>>
history == <<spoilt, lost, restored, retested>>
bounds  == <<ops, faults, restarts>>
vars    == <<store, memory, table, req, stamp, history, bounds>>

Content == [Keys -> Values \union {None}]
Empty   == [k \in Keys |-> None]
NoRow   == [stamp |-> 0, val |-> None]
Idle    == [kind |-> "none", at |-> "idle", keys |-> {}, val |-> None, gen |-> 0,
            before |-> Empty, stamp |-> 0, met |-> {}]

TypeOK ==
  /\ store \in {"rules", "watches", "settings"}
  /\ maps \in [Gens -> Content] /\ gen \in Gens
  /\ table \in [Keys -> [stamp : 0..MaxOps, val : Values \union {None}]]
  /\ req \in [Requests ->
       [kind : {"none", "add", "update", "remove", "set", "clear"},
        at : {"idle", "testing", "writing", "landed"}, keys : SUBSET Keys,
        val : Values \union {None}, gen : Gens, before : Content, stamp : 0..MaxOps,
        met : SUBSET Keys]]
  /\ stamp \in 0..MaxOps /\ spoilt \subseteq Keys /\ lost \subseteq Keys /\ restored \in 0..MaxFaults
  /\ retested \in BOOLEAN
  /\ ops \in 0..MaxOps /\ faults \in 0..MaxFaults /\ restarts \in 0..MaxRestarts
  /\ store = "settings" => gen = 0
  /\ \A r \in Requests : req[r].kind \in {"update", "remove"} =>
       \A k \in req[r].keys : req[r].before[k] # None

Init ==
  /\ store \in {"rules", "watches", "settings"}
  /\ maps = [g \in Gens |-> Empty] /\ gen = 0
  /\ table = [k \in Keys |-> NoRow]
  /\ req = [r \in Requests |-> Idle]
  /\ stamp = 0 /\ spoilt = {} /\ lost = {} /\ restored = 0 /\ retested = FALSE
  /\ ops = 0 /\ faults = 0 /\ restarts = 0

Present(content) == {k \in Keys : content[k] # None}
Current  == maps[gen]
Testing  == \E r \in Requests : req[r].at = "testing"
InFlight == {r \in Requests : req[r].at \in {"writing", "landed"}}

-----------------------------------------------------------------------------
(* A request begins: it changes the memory and takes the time.             *)

(* The memory is now content; a map that is empty is dropped, and the next *)
(* entry goes into a new one.                                              *)
Store(content) ==
  /\ maps' = [maps EXCEPT ![gen] = content]
  /\ gen'  = IF content = Empty /\ Current # Empty /\ store # "settings" THEN gen + 1 ELSE gen

(* Two requests in the same millisecond write rows of the same version:    *)
(* the one that lands last stays.                                          *)
Begin(r, kind, keys, val) ==
  /\ ops < MaxOps /\ ops' = ops + 1
  /\ stamp' \in {stamp, stamp + 1} /\ stamp' > 0
  /\ req' = [s \in Requests |->
       IF s = r
       THEN [kind |-> kind, at |-> "writing", keys |-> keys, val |-> val, gen |-> gen,
             before |-> Current, stamp |-> stamp',
             met |-> UNION {req[o].keys : o \in InFlight \ {r}}]
       ELSE IF s \in InFlight THEN [req[s] EXCEPT !.met = @ \union keys] ELSE req[s]]
  /\ spoilt' = spoilt \union
       {k \in keys : \E s \in InFlight \ {r} : k \in req[s].keys /\ req[s].stamp = stamp'}
  /\ UNCHANGED <<store, table, lost, restored, faults, restarts>>

(* Mutant: the limit lets one more pass. *)
FitsOneMore(n) == n <= MaxPerTenant

Fits(n) == n < MaxPerTenant

(* RuleStore.add: the id is a new one. *)
AddRule(r, k, v) ==
  /\ Fits(Cardinality(Present(Current)))
  /\ Store([Current EXCEPT ![k] = v])
  /\ Begin(r, "add", {k}, v)

(* POST /rules: the limit is answered with an error, and nothing changes.  *)
CreateRule(r, k, v) ==
  /\ store = "rules" /\ req[r].at = "idle"
  /\ Current[k] = None /\ table[k] = NoRow /\ \A s \in Requests : k \notin req[s].keys
  /\ AddRule(r, k, v)
  /\ UNCHANGED retested

(* POST /watches: a template watched already is left as it is. *)
CreateWatch(r, k, v) ==
  /\ store = "watches" /\ req[r].at = "idle"
  /\ Current[k] = None /\ Fits(Cardinality(Present(Current)))
  /\ Store([Current EXCEPT ![k] = v])
  /\ Begin(r, "add", {k}, v)
  /\ UNCHANGED retested

(* RuleStore.update *)
UpdateRule(r, k, v) ==
  /\ Current[k] # None
  /\ Store([Current EXCEPT ![k] = v])
  /\ Begin(r, "update", {k}, v)

(* PUT /rules/:id *)
ChangeRule(r, k, v) ==
  /\ store = "rules" /\ req[r].at = "idle"
  /\ UpdateRule(r, k, v)
  /\ UNCHANGED retested

(* RuleStore.remove, and WatchStore.remove *)
RemoveEntry(r, k) ==
  /\ Current[k] # None
  /\ Store([Current EXCEPT ![k] = None])
  /\ Begin(r, "remove", {k}, None)

(* DELETE /rules/:id *)
DeleteRule(r, k) ==
  store = "rules" /\ req[r].at = "idle" /\ RemoveEntry(r, k) /\ UNCHANGED retested

(* DELETE /watches/:templateId *)
DeleteWatch(r, k) ==
  store = "watches" /\ req[r].at = "idle" /\ RemoveEntry(r, k) /\ UNCHANGED retested

(* TenantSettingsStore.set: a new record is put in the place of the former. *)
SetField(r, k, v) ==
  /\ Store([Current EXCEPT ![k] = v])
  /\ Begin(r, "set", {k}, v)
  /\ UNCHANGED retested

(* POST /settings/slack *)
SaveSlack(r, v) == store = "settings" /\ req[r].at = "idle" /\ SetField(r, "slack", v)

(* PUT /settings/cost-thresholds; tags, clustering and spike baseline alike *)
SaveOther(r, v) == store = "settings" /\ req[r].at = "idle" /\ SetField(r, "other", v)

(* The first request of an MCP client leaves a time stamp where there is   *)
(* none; dismissing the onboarding does the same.                          *)
StampOnce(r, v) ==
  store = "settings" /\ req[r].at = "idle" /\ Current["stamp"] = None /\ SetField(r, "stamp", v)

(* POST /settings/slack/test: the message is sent, ... *)
Test(r) ==
  /\ store = "settings" /\ req[r].at = "idle" /\ Current["slack"] # None
  /\ req' = [req EXCEPT ![r].at = "testing"]
  /\ UNCHANGED <<store, memory, table, stamp, history, bounds>>

(* ... and the outcome stored, whatever became of the webhook meanwhile.   *)
TestAnswers(r, v) == req[r].at = "testing" /\ SetField(r, "test", v)

WithoutSlack(content) == [content EXCEPT !["slack"] = None, !["test"] = None]

(* DELETE /settings/slack *)
ClearSlack(r) ==
  /\ store = "settings" /\ req[r].at = "idle"
  /\ Store(WithoutSlack(Current))
  /\ Begin(r, "clear", {"slack", "test"}, None)
  /\ retested' = (retested \/ Testing \/ \E s \in InFlight : "test" \in req[s].keys)

-----------------------------------------------------------------------------
(* The INSERT lands, and is answered or throws. *)

Lands(r) ==
  /\ req[r].at = "writing"
  /\ table' = [k \in Keys |-> IF k \in req[r].keys /\ req[r].stamp >= table[k].stamp
                              THEN [stamp |-> req[r].stamp, val |-> req[r].val] ELSE table[k]]
  /\ req' = [req EXCEPT ![r].at = "landed"]
  /\ UNCHANGED <<store, memory, stamp, history, bounds>>

Returns(r) ==
  /\ req[r].at = "landed"
  /\ req' = [req EXCEPT ![r] = Idle]
  /\ UNCHANGED <<store, memory, table, stamp, history, bounds>>

EntryOf(q) == CHOOSE k \in q.keys : TRUE

(* The entry is taken out of the map it was put into; if that is empty now, *)
(* the tenant's map, whichever it is by then, is dropped.                  *)
RollbackAdd(q) ==
  LET left == [maps[q.gen] EXCEPT ![EntryOf(q)] = None]
  IN /\ maps' = [maps EXCEPT ![q.gen] = left]
     /\ gen'  = IF left = Empty /\ Current # Empty THEN gen + 1 ELSE gen

(* The former rule goes back into the map it was taken from. *)
RollbackUpdate(q) ==
  maps' = [maps EXCEPT ![q.gen][EntryOf(q)] = q.before[EntryOf(q)]] /\ UNCHANGED gen

(* Mutant: a removal is not taken back. *)
RollbackNoRemoval(q) == UNCHANGED memory

(* The entry goes back into the map of now. *)
RollbackRemove(q) ==
  maps' = [maps EXCEPT ![gen][EntryOf(q)] = q.before[EntryOf(q)]] /\ UNCHANGED gen

(* The whole former record comes back. *)
RollbackSettings(q) == maps' = [maps EXCEPT ![gen] = q.before] /\ UNCHANGED gen

Rollback(q) ==
  \/ q.kind = "add" /\ RollbackAdd(q)
  \/ q.kind = "update" /\ RollbackUpdate(q)
  \/ q.kind = "remove" /\ RollbackRemove(q)
  \/ q.kind \in {"set", "clear"} /\ RollbackSettings(q)

(* It throws before the row has landed, or its answer is lost. *)
Fails(r) ==
  /\ r \in InFlight /\ faults < MaxFaults /\ faults' = faults + 1
  /\ Rollback(req[r])
  /\ req' = [req EXCEPT ![r] = Idle]
  /\ spoilt' = spoilt \union req[r].met
  /\ lost' = IF req[r].at = "landed" THEN lost \union req[r].keys ELSE lost
  /\ restored' = IF req[r].kind \in {"remove", "update"} THEN restored + 1 ELSE restored
  /\ retested' = (retested \/ req[r].met # {} \/ Testing)
  /\ UNCHANGED <<store, table, stamp, ops, restarts>>

(* RuleStore.loadFromDb, WatchStore.loadFromDb: rows past the limit are    *)
(* skipped, whichever come last.                                           *)
LoadedEntries(rows) ==
  IF Cardinality(rows) <= MaxPerTenant THEN {rows}
  ELSE {kept \in SUBSET rows : Cardinality(kept) = MaxPerTenant}

(* TenantSettingsStore.loadFromDb *)
LoadedSettings(rows) == {rows}

Restart ==
  /\ restarts < MaxRestarts /\ restarts' = restarts + 1
  /\ LET rows == {k \in Keys : table[k].val # None}
     IN \E kept \in IF store = "settings" THEN LoadedSettings(rows) ELSE LoadedEntries(rows) :
          /\ maps' = [g \in Gens |-> [k \in Keys |->
                        IF g = 0 /\ k \in kept THEN table[k].val ELSE None]]
          /\ lost' = rows \ kept
  /\ gen' = 0 /\ spoilt' = {} /\ restored' = 0
  /\ retested' = (retested \/ InFlight # {} \/ "slack" \in spoilt \union lost)
  /\ req' = [r \in Requests |-> Idle]
  /\ UNCHANGED <<store, table, stamp, ops, faults>>

Next ==
  \/ \E r \in Requests, v \in Values :
       \/ \E k \in Entries : CreateRule(r, k, v) \/ ChangeRule(r, k, v) \/ CreateWatch(r, k, v)
       \/ SaveSlack(r, v) \/ SaveOther(r, v) \/ StampOnce(r, v) \/ TestAnswers(r, v)
  \/ \E r \in Requests, k \in Entries : DeleteRule(r, k) \/ DeleteWatch(r, k)
  \/ \E r \in Requests :
       Test(r) \/ ClearSlack(r) \/ Lands(r) \/ Returns(r) \/ Fails(r)
  \/ Restart

Spec == Init /\ [][Next]_vars

-----------------------------------------------------------------------------
(* Memory and table say the same of every key of a set once nothing that   *)
(* writes it is under way.                                                 *)
AgreeOn(keys) ==
  \A k \in keys : (\A r \in InFlight : k \notin req[r].keys) => Current[k] = table[k].val

(* A failed request takes back its own change and no other: memory and     *)
(* table agree, unless the key was written while a request that then       *)
(* failed was under way, or in the millisecond of another write to it, or  *)
(* the answer was lost.                                                    *)
FailureContained == AgreeOn(Keys \ (spoilt \union lost))

(* The limit is passed only by removals, and by updates of an entry that   *)
(* was removed meanwhile, that were taken back.                            *)
LimitHeld ==
  store # "settings" => Cardinality(Present(Current)) <= MaxPerTenant + restored

(* DELETE /settings/slack removes "Slack configuration and test status":   *)
(* the outcome of a test outlives the webhook only if a request that wrote *)
(* one was under way next to the removal, a failure or an exit, or if the  *)
(* webhook was spoilt or lost when the process exited.                     *)
TestHasWebhook == Current["test"] # None => Current["slack"] # None \/ retested

(* "Write-through cached store": only a lost answer sets memory and table  *)
(* at odds, whatever else was under way.                                   *)
WriteThrough == AgreeOn(Keys \ lost)

(* The limit on rules and watches holds but for restored entries, and no   *)
(* test outcome outlives its webhook but for races.                        *)
LimitsSound == TypeOK /\ LimitHeld /\ TestHasWebhook
=============================================================================
