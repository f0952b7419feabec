----------------------------- MODULE Checkpoint -----------------------------
(***************************************************************************)
(* The clusterer's per-tenant miners (drain_service.py) and their          *)
(* checkpoint files (checkpoint.py, pipeline.py).  cluster_messages runs   *)
(* in a thread under the tenant's lock and marks the tenant dirty; the     *)
(* checkpoint cycle snapshots the dirty generations and then, tenant by    *)
(* tenant, serializes, saves and marks clean, each in an await of its own; *)
(* /cluster/reset drops the miner and then the file, in two more awaits.   *)
(* Start-up restores the files; shutdown cancels the loop and flushes.     *)
(*                                                                         *)
(* A miner's tree is the number of the change that produced it, counted    *)
(* per tenant and never reset, so that a larger number is a later tree.    *)
(***************************************************************************)
EXTENDS Naturals, FiniteSets

CONSTANTS
  Tenants,
  MaxTenants,  (* settings.max_tenants                       *)
  None,        (* no miner, no file                          *)
  MaxChanges,  (* bound: changes of a tenant's tree          *)
  MaxResets,   (* bound: /cluster/reset calls                *)
  MaxCrashes,  (* bound: kills                               *)
  MaxStops,    (* bound: graceful shutdowns                  *)
  MaxFaults    (* bound: saves the disk refuses              *)

ASSUME CheckpointAssumption ==
  /\ MaxTenants \in Nat \ {0}
  /\ None \notin Nat /\ None \notin Tenants
  /\ {MaxChanges, MaxResets, MaxCrashes, MaxStops, MaxFaults} \subseteq Nat

VARIABLES
  phase,      (* "up", "stopping" (the final flush) or "down"             *)
  miner,      (* _miners: the tree of each tenant, or None                *)
  dirty,      (* _dirty_generations: 0 when the tenant is clean           *)
  admitted,   (* tenants whose thread passed the cap check, lock held     *)
  file,       (* the .drain3 file of each tenant, or None                 *)
  tmp,        (* its .drain3.tmp file, or None                            *)
  cycle,      (* the checkpoint cycle: where it is and what it holds      *)
  orphan,     (* a save whose coroutine was cancelled; once it is over    *)
              (* (asleep), its tenant is kept until the next start        *)
  resetting,  (* tenants between the two awaits of reset_tenant           *)
  clock,      (* the changes made so far to each tenant's tree            *)
  resetAt,    (* the clock at the last reset of each tenant's miner         *)
  resets, crashes, stops, faults

memory  == <<miner, dirty>>
disk    == <<file, tmp>>
history == <<clock, resetAt>>
bounds  == <<resets, crashes, stops, faults>>
vars    == <<phase, memory, admitted, disk, cycle, orphan, resetting, history, bounds>>

Trees == 0..MaxChanges
Gens  == 0..MaxChanges
Present == {t \in Tenants : miner[t] # None}

Asleep == [pc |-> "asleep", todo |-> {}, gens |-> [t \in Tenants |-> 0],
           tenant |-> None, tree |-> None]
NoSave == [pc |-> "asleep", tenant |-> None, tree |-> None]

TypeOK ==
  /\ phase \in {"up", "stopping", "down"}
  /\ miner \in [Tenants -> Trees \union {None}]
  /\ dirty \in [Tenants -> Gens]
  /\ admitted \subseteq Tenants
  /\ file \in [Tenants -> Trees \union {None}]
  /\ tmp \in [Tenants -> Trees \union {None}]
  /\ cycle \in [pc : {"asleep", "pick", "get", "write", "replace", "clean"},
                todo : SUBSET Tenants, gens : [Tenants -> Gens],
                tenant : Tenants \union {None}, tree : Trees \union {None}]
  /\ orphan \in [pc : {"asleep", "write", "replace"},
                 tenant : Tenants \union {None}, tree : Trees \union {None}]
  /\ resetting \subseteq Tenants
  /\ clock \in [Tenants -> Trees] /\ resetAt \in [Tenants -> Trees]
  /\ resets \in 0..MaxResets /\ crashes \in 0..MaxCrashes
  /\ stops \in 0..MaxStops /\ faults \in 0..MaxFaults

Init ==
  /\ phase = "up"
  /\ miner = [t \in Tenants |-> None]
  /\ dirty = [t \in Tenants |-> 0]
  /\ admitted = {}
  /\ file = [t \in Tenants |-> None]
  /\ tmp = [t \in Tenants |-> None]
  /\ cycle = Asleep
  /\ orphan = NoSave
  /\ resetting = {}
  /\ clock = [t \in Tenants |-> 0]
  /\ resetAt = [t \in Tenants |-> 0]
  /\ resets = 0 /\ crashes = 0 /\ stops = 0 /\ faults = 0

-----------------------------------------------------------------------------
(* cluster_messages, under the tenant's lock *)

LockFree(t) == t \notin admitted

(* A batch changes the tree: the next generation is dirty. *)
Learn(t) ==
  /\ miner' = [miner EXCEPT ![t] = clock[t] + 1]
  /\ clock' = [clock EXCEPT ![t] = @ + 1]
  /\ dirty' = [dirty EXCEPT ![t] = @ + 1]

Cluster(t) ==
  /\ phase = "up"
  /\ clock[t] < MaxChanges
  /\ miner[t] # None /\ LockFree(t)
  /\ Learn(t)
  /\ UNCHANGED <<phase, admitted, disk, cycle, orphan, resetting, resetAt, bounds>>

(* The cap is compared with the miners of all tenants, under the lock of one. *)
Admit(t) ==
  /\ phase = "up"
  /\ clock[t] < MaxChanges
  /\ miner[t] = None /\ LockFree(t)
  /\ Cardinality(Present) < MaxTenants
  /\ admitted' = admitted \union {t}
  /\ UNCHANGED <<phase, memory, disk, cycle, orphan, resetting, history, bounds>>

Create(t) ==
  /\ t \in admitted
  /\ Learn(t)
  /\ admitted' = admitted \ {t}
  /\ UNCHANGED <<phase, disk, cycle, orphan, resetting, resetAt, bounds>>

-----------------------------------------------------------------------------
(* run_checkpoint_cycle *)

(* The dirty snapshot, taken without a lock. *)
CycleBegins ==
  /\ phase \in {"up", "stopping"}
  /\ cycle.pc = "asleep"
  /\ phase = "up" => \E t \in Tenants : dirty[t] > 0
  /\ cycle' = [Asleep EXCEPT !.pc = "pick", !.gens = dirty,
                             !.todo = {t \in Tenants : dirty[t] > 0}]
  /\ UNCHANGED <<phase, memory, admitted, disk, orphan, resetting, history, bounds>>

(* The next tenant, or the end: the final flush is the last thing done. *)
CyclePicks ==
  /\ cycle.pc = "pick"
  /\ \/ \E t \in cycle.todo :
          cycle' = [cycle EXCEPT !.pc = "get", !.tenant = t, !.todo = @ \ {t}]
     \/ cycle.todo = {} /\ cycle' = Asleep
  /\ phase' = IF phase = "stopping" /\ cycle.todo = {} THEN "down" ELSE phase
  /\ UNCHANGED <<memory, admitted, disk, orphan, resetting, history, bounds>>

NextTenant == cycle' = [cycle EXCEPT !.pc = "pick", !.tenant = None, !.tree = None]

(* get_state: a tenant that was reset meanwhile is skipped. *)
CycleGets ==
  /\ cycle.pc = "get"
  /\ LockFree(cycle.tenant)
  /\ IF miner[cycle.tenant] = None
     THEN NextTenant
     ELSE cycle' = [cycle EXCEPT !.pc = "write", !.tree = miner[cycle.tenant]]
  /\ UNCHANGED <<phase, memory, admitted, disk, orphan, resetting, history, bounds>>

(* Mutant: the file itself is opened for writing, which empties it. *)
CycleWritesInPlace ==
  /\ cycle.pc = "write"
  /\ file' = [file EXCEPT ![cycle.tenant] = None]
  /\ tmp' = [tmp EXCEPT ![cycle.tenant] = cycle.tree]
  /\ cycle' = [cycle EXCEPT !.pc = "replace"]
  /\ UNCHANGED <<phase, memory, admitted, orphan, resetting, history, bounds>>

(* save: write_bytes, then os.replace.  A half-written tmp file is never   *)
(* read (start-up removes it), so the write is one step.                   *)
CycleWrites ==
  /\ cycle.pc = "write"
  /\ tmp' = [tmp EXCEPT ![cycle.tenant] = cycle.tree]
  /\ cycle' = [cycle EXCEPT !.pc = "replace"]
  /\ UNCHANGED <<phase, memory, admitted, file, orphan, resetting, history, bounds>>

CycleReplaces ==
  /\ cycle.pc = "replace"
  /\ tmp[cycle.tenant] # None
  /\ file' = [file EXCEPT ![cycle.tenant] = tmp[cycle.tenant]]
  /\ tmp' = [tmp EXCEPT ![cycle.tenant] = None]
  /\ cycle' = [cycle EXCEPT !.pc = "clean"]
  /\ UNCHANGED <<phase, memory, admitted, orphan, resetting, history, bounds>>

(* The disk refuses, or another save took the tmp file: unlink it, skip. *)
CycleFails ==
  /\ \/ cycle.pc \in {"write", "replace"} /\ faults < MaxFaults /\ faults' = faults + 1
     \/ cycle.pc = "replace" /\ tmp[cycle.tenant] = None /\ faults' = faults
  /\ tmp' = [tmp EXCEPT ![cycle.tenant] = None]
  /\ NextTenant
  /\ UNCHANGED <<phase, memory, admitted, file, orphan, resetting, history,
                 resets, crashes, stops>>

(* Mutant: mark_clean clears the mark whatever the generation is now. *)
CycleCleansAlways ==
  /\ cycle.pc = "clean"
  /\ LockFree(cycle.tenant)
  /\ dirty' = [dirty EXCEPT ![cycle.tenant] = 0]
  /\ NextTenant
  /\ UNCHANGED <<phase, miner, admitted, disk, orphan, resetting, history, bounds>>

(* Mutant: mark_clean clears the mark only for an older generation. *)
CycleCleansOlder ==
  /\ cycle.pc = "clean"
  /\ LockFree(cycle.tenant)
  /\ dirty' = [dirty EXCEPT ![cycle.tenant] =
                 IF @ < cycle.gens[cycle.tenant] THEN 0 ELSE @]
  /\ NextTenant
  /\ UNCHANGED <<phase, miner, admitted, disk, orphan, resetting, history, bounds>>

(* mark_clean: only if the generation has not advanced since the snapshot. *)
CycleCleans ==
  /\ cycle.pc = "clean"
  /\ LockFree(cycle.tenant)
  /\ dirty' = [dirty EXCEPT ![cycle.tenant] =
                 IF @ <= cycle.gens[cycle.tenant] THEN 0 ELSE @]
  /\ NextTenant
  /\ UNCHANGED <<phase, miner, admitted, disk, orphan, resetting, history, bounds>>

-----------------------------------------------------------------------------
(* reset_tenant: the miner and its mark, then the file. *)
ResetMiner(t) ==
  /\ phase = "up"
  /\ resets < MaxResets
  /\ t \notin resetting /\ LockFree(t)
  /\ resets' = resets + 1
  /\ miner' = [miner EXCEPT ![t] = None]
  /\ dirty' = [dirty EXCEPT ![t] = 0]
  /\ resetting' = resetting \union {t}
  /\ resetAt' = [resetAt EXCEPT ![t] = clock[t]]
  /\ UNCHANGED <<phase, admitted, disk, cycle, orphan, clock, crashes, stops, faults>>

ResetFile(t) ==
  /\ phase = "up"
  /\ t \in resetting
  /\ file' = [file EXCEPT ![t] = None]
  /\ resetting' = resetting \ {t}
  /\ UNCHANGED <<phase, memory, admitted, tmp, cycle, orphan, history, bounds>>

-----------------------------------------------------------------------------
(* Shutdown: requests are drained, the loop is cancelled at its await (a   *)
(* save whose thread runs goes on) and the final flush begins.             *)
StopBegins ==
  /\ phase = "up"
  /\ stops < MaxStops
  /\ admitted = {} /\ resetting = {}
  /\ stops' = stops + 1
  /\ phase' = "stopping"
  /\ \/ /\ cycle.pc \in {"write", "replace"}
        /\ orphan' = [pc |-> cycle.pc, tenant |-> cycle.tenant, tree |-> cycle.tree]
     \/ cycle.pc # "replace" /\ orphan' = NoSave
  /\ cycle' = [Asleep EXCEPT !.pc = "pick", !.gens = dirty,
                             !.todo = {t \in Tenants : dirty[t] > 0}]
  /\ UNCHANGED <<memory, admitted, disk, resetting, history, resets, crashes, faults>>

OrphanWrites ==
  /\ orphan.pc = "write"
  /\ tmp' = [tmp EXCEPT ![orphan.tenant] = orphan.tree]
  /\ orphan' = [orphan EXCEPT !.pc = "replace"]
  /\ UNCHANGED <<phase, memory, admitted, file, cycle, resetting, history, bounds>>

OrphanReplaces ==
  /\ orphan.pc = "replace"
  /\ LET t == orphan.tenant
     IN  /\ file' = IF tmp[t] = None THEN file ELSE [file EXCEPT ![t] = tmp[t]]
         /\ tmp' = [tmp EXCEPT ![t] = None]
  /\ orphan' = [NoSave EXCEPT !.tenant = orphan.tenant]
  /\ UNCHANGED <<phase, memory, admitted, cycle, resetting, history, bounds>>

(* A kill: what is in memory is lost. *)
Crash ==
  /\ phase # "down"
  /\ crashes < MaxCrashes
  /\ crashes' = crashes + 1
  /\ phase' = "down"
  /\ miner' = [t \in Tenants |-> None]
  /\ dirty' = [t \in Tenants |-> 0]
  /\ admitted' = {} /\ resetting' = {}
  /\ cycle' = Asleep /\ orphan' = NoSave
  /\ UNCHANGED <<disk, history, resets, stops, faults>>

(* Start-up: stale tmp files go; at most MaxTenants files are restored.    *)
(* Which ones is decided by mtime, here by nobody.                         *)
Start ==
  /\ phase = "down" /\ orphan.pc = "asleep"
  /\ phase' = "up" /\ orphan' = NoSave
  /\ tmp' = [t \in Tenants |-> None]
  /\ \E S \in SUBSET {t \in Tenants : file[t] # None} :
       /\ Cardinality(S) <= MaxTenants
       /\ \/ S = {t \in Tenants : file[t] # None}
          \/ Cardinality(S) = MaxTenants
       /\ miner' = [t \in Tenants |-> IF t \in S THEN file[t] ELSE None]
  /\ dirty' = [t \in Tenants |-> 0]
  /\ UNCHANGED <<admitted, file, cycle, resetting, history, bounds>>

-----------------------------------------------------------------------------
Next ==
  \/ \E t \in Tenants :
       Cluster(t) \/ Admit(t) \/ Create(t) \/ ResetMiner(t) \/ ResetFile(t)
  \/ CycleBegins \/ CyclePicks \/ CycleGets \/ CycleWrites \/ CycleReplaces
  \/ CycleFails \/ CycleCleans
  \/ StopBegins \/ OrphanWrites \/ OrphanReplaces
  \/ Crash \/ Start

Spec == Init /\ [][Next]_vars

(* Threads finish, and the loop's next interval comes. *)
Fairness ==
  /\ \A t \in Tenants : WF_vars(Create(t)) /\ WF_vars(ResetFile(t))
  /\ WF_vars(CycleBegins) /\ WF_vars(CyclePicks) /\ WF_vars(CycleGets)
  /\ WF_vars(CycleWrites) /\ WF_vars(CycleReplaces) /\ WF_vars(CycleFails)
  /\ WF_vars(CycleCleans) /\ WF_vars(OrphanWrites) /\ WF_vars(OrphanReplaces)
  /\ WF_vars(Start)

FairSpec == Spec /\ Fairness

-----------------------------------------------------------------------------
(* mark_clean means checkpointed: a tenant that is clean has its tree, as  *)
(* it is, in its file, whatever was learnt while the cycle was saving.     *)
CleanIsSaved ==
  phase = "up" => \A t \in Present : dirty[t] = 0 => file[t] = miner[t]

(* So it is until a tenant is reset, through kills and refused saves.      *)
CleanIsSavedUnlessReset == resets = 0 => CleanIsSaved

(* A checkpoint never replaces a later one, over crashes and failed saves, *)
(* until a tenant is reset or the process is shut down.                    *)
NeverOlder ==
  [][resets' = 0 /\ stops = 0 =>
       \A t \in Tenants : file[t] # None => file'[t] # None /\ file'[t] >= file[t]]_vars

(* Start-up keeps the memory ceiling: right after it no more than          *)
(* MaxTenants miners exist.                                                *)
StartWithinCap == [][phase' = "up" /\ phase = "down" => Cardinality(Present') <= MaxTenants]_vars

(* "Final checkpoint flush - save all dirty tenants": when a shutdown ends *)
(* no save having failed and no tenant having been reset, every tree is in *)
(* its file, but for the tenant whose save the shutdown cancelled.         *)
FlushSavesTheRest ==
  [][phase = "stopping" /\ phase' = "down" /\ crashes' = crashes /\ faults = 0 /\ resets = 0 =>
       \A t \in Present \ {orphan.tenant} : file[t] = miner[t]]_vars

(* What was learnt reaches the disk: a dirty tenant becomes clean, or the  *)
(* process ends.                                                           *)
LearntIsSaved == \A t \in Tenants : dirty[t] > 0 ~> dirty[t] = 0 \/ phase # "up"

(* reset_tenant clears "a tenant's miner state and checkpoint": once it    *)
(* returned, no file from before it comes back.                            *)
ResetIsFinal ==
  \A t \in Tenants \ resetting :
    file[t] = None \/ resetAt[t] = 0 \/ file[t] > resetAt[t]

(* The final flush saves all dirty tenants: after a shutdown in which no   *)
(* save failed, every tree is in its file.                                 *)
FlushIsFinal ==
  phase = "down" /\ orphan.pc = "asleep" /\ faults = 0 =>
    \A t \in Present : file[t] = miner[t]

(* TenantLimitError keeps the number of miners at max_tenants. *)
MinersWithinCap == Cardinality(Present) <= MaxTenants

(* The marks of the registry tell what is on disk, until a reset.          *)
CleanSound == TypeOK /\ CleanIsSavedUnlessReset

(* The directory over cycles, crashes and start-ups: no file is replaced   *)
(* by an older tree, a shutdown leaves nothing unsaved, and start-up       *)
(* restores no more miners than the cap.                                   *)
FilesSound == NeverOlder /\ FlushSavesTheRest /\ StartWithinCap
=============================================================================
