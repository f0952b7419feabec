--------------------------- MODULE CheckpointProofs ---------------------------
(***************************************************************************)
(* Proof that a clean mark means a saved tree (Checkpoint.tla), for any    *)
(* tenants and cap, and any number of changes, kills, shutdowns and        *)
(* refused saves.                                                          *)
(***************************************************************************)
EXTENDS Checkpoint, TLAPS

(* The counters: no more generations than changes, a change is left to a   *)
(* thread that passed the cap check, and a reset under way was counted.    *)
Counted ==
  /\ \A t \in Tenants : dirty[t] <= clock[t] /\ (t \in admitted => clock[t] < MaxChanges)
  /\ resets = 0 => resetting = {}

(* Where the cycle is in a tenant, it names one; so does a cancelled save. *)
Located ==
  /\ cycle.pc \notin {"asleep", "pick"} => cycle.tenant \in Tenants
  /\ cycle.pc = "write" => cycle.tree \in Trees
  /\ orphan.pc # "asleep" => orphan.tenant \in Tenants
  /\ orphan.pc = "write" => orphan.tree \in Trees
  /\ phase = "up" => orphan.pc = "asleep"
  /\ phase = "down" => cycle.pc = "asleep"

(* The cycle still has a tenant before it, or is in it. *)
Ahead(t) == cycle.pc # "asleep" /\ (t \in cycle.todo \/ (cycle.pc # "pick" /\ cycle.tenant = t))

(* Until a reset: what the cycle has ahead is as dirty as when it took the *)
(* snapshot, or dirtier; and unless it is dirtier, the tree the cycle      *)
(* holds, has written or has put in place is the tree of the miner.        *)
UpToDate ==
  /\ \A t \in Tenants : Ahead(t) => cycle.gens[t] > 0 /\ dirty[t] >= cycle.gens[t]
  /\ cycle.pc \notin {"asleep", "pick"} => cycle.tenant \notin cycle.todo
  /\ cycle.pc \in {"write", "replace", "clean"} /\ dirty[cycle.tenant] <= cycle.gens[cycle.tenant] =>
       LET t == cycle.tenant
       IN  /\ cycle.pc = "write" => cycle.tree = miner[t]
           /\ cycle.pc = "replace" => tmp[t] \in {None, miner[t]}
           /\ cycle.pc = "clean" => file[t] = miner[t]
  /\ CleanIsSaved

Inv ==
  /\ TypeOK
  /\ Counted
  /\ Located
  /\ resets = 0 /\ phase = "up" => UpToDate

-----------------------------------------------------------------------------
LEMMA InvInit == Init => Inv
  BY CheckpointAssumption
     DEF Init, Inv, TypeOK, Counted, Located, Ahead, UpToDate, CleanIsSaved, Present, Trees, Gens,
         Asleep, NoSave

(* NextTenant, field by field. *)
LEMMA Leaves ==
  ASSUME TypeOK, NextTenant
  PROVE  /\ cycle'.pc = "pick" /\ cycle'.todo = cycle.todo /\ cycle'.gens = cycle.gens
         /\ cycle' \in [pc : {"asleep", "pick", "get", "write", "replace", "clean"},
                       todo : SUBSET Tenants, gens : [Tenants -> Gens],
                       tenant : Tenants \union {None}, tree : Trees \union {None}]
  BY DEF TypeOK, NextTenant

LEMMA ClusterKeepsInv ==
  ASSUME Inv, NEW t \in Tenants, Cluster(t)
  PROVE  Inv'
  <1> USE CheckpointAssumption DEF Inv, Trees, Gens, Cluster, Learn, LockFree, disk, bounds
  <1>1. TypeOK'
    BY DEF TypeOK, Counted, Located
  <1>2. Counted'
    BY DEF TypeOK, Counted
  <1>3. Located'
    BY DEF TypeOK, Located
  <1>4. ASSUME resets' = 0, phase' = "up" PROVE UpToDate'
    BY <1>4 DEF TypeOK, Counted, Located, Ahead, UpToDate, CleanIsSaved, Present
  <1> QED BY <1>1, <1>2, <1>3, <1>4

LEMMA AdmitKeepsInv ==
  ASSUME Inv, NEW t \in Tenants, Admit(t)
  PROVE  Inv'
  <1> USE CheckpointAssumption DEF Inv, Trees, Gens, Admit, LockFree, memory, disk, history, bounds
  <1>1. TypeOK'
    BY DEF TypeOK, Counted, Located
  <1>2. Counted'
    BY DEF TypeOK, Counted
  <1>3. Located'
    BY DEF TypeOK, Located
  <1>4. ASSUME resets' = 0, phase' = "up" PROVE UpToDate'
    BY <1>4 DEF TypeOK, Counted, Located, Ahead, UpToDate, CleanIsSaved, Present
  <1> QED BY <1>1, <1>2, <1>3, <1>4

LEMMA CreateKeepsInv ==
  ASSUME Inv, NEW t \in Tenants, Create(t)
  PROVE  Inv'
  <1> USE CheckpointAssumption DEF Inv, Trees, Gens, Create, Learn, disk, bounds
  <1>1. TypeOK'
    BY DEF TypeOK, Counted, Located
  <1>2. Counted'
    BY DEF TypeOK, Counted
  <1>3. Located'
    BY DEF TypeOK, Located
  <1>4. ASSUME resets' = 0, phase' = "up" PROVE UpToDate'
    BY <1>4 DEF TypeOK, Counted, Located, Ahead, UpToDate, CleanIsSaved, Present
  <1> QED BY <1>1, <1>2, <1>3, <1>4

LEMMA ResetMinerKeepsInv ==
  ASSUME Inv, NEW t \in Tenants, ResetMiner(t)
  PROVE  Inv'
  <1> USE CheckpointAssumption DEF Inv, Trees, Gens, ResetMiner, LockFree, disk
  <1>1. TypeOK'
    BY DEF TypeOK, Counted, Located
  <1>2. Counted'
    BY DEF TypeOK, Counted
  <1>3. Located'
    BY DEF TypeOK, Located
  <1>4. ASSUME resets' = 0, phase' = "up" PROVE UpToDate'
    BY <1>4 DEF TypeOK, Counted, Located, Ahead, UpToDate, CleanIsSaved, Present
  <1> QED BY <1>1, <1>2, <1>3, <1>4

LEMMA ResetFileKeepsInv ==
  ASSUME Inv, NEW t \in Tenants, ResetFile(t)
  PROVE  Inv'
  <1> USE CheckpointAssumption DEF Inv, Trees, Gens, ResetFile, memory, history, bounds
  <1>1. TypeOK'
    BY DEF TypeOK, Counted, Located
  <1>2. Counted'
    BY DEF TypeOK, Counted
  <1>3. Located'
    BY DEF TypeOK, Located
  <1>4. ASSUME resets' = 0, phase' = "up" PROVE UpToDate'
    BY <1>4 DEF TypeOK, Counted, Located, Ahead, UpToDate, CleanIsSaved, Present
  <1> QED BY <1>1, <1>2, <1>3, <1>4

LEMMA CycleBeginsKeepsInv ==
  ASSUME Inv, CycleBegins
  PROVE  Inv'
  <1> USE CheckpointAssumption DEF Inv, Trees, Gens, CycleBegins, Asleep, memory, disk, history, bounds
  <1>1. TypeOK'
    BY DEF TypeOK, Counted, Located
  <1>2. Counted'
    BY DEF TypeOK, Counted
  <1>3. Located'
    BY DEF TypeOK, Located
  <1>4. ASSUME resets' = 0, phase' = "up" PROVE UpToDate'
    BY <1>4 DEF TypeOK, Counted, Located, Ahead, UpToDate, CleanIsSaved, Present
  <1> QED BY <1>1, <1>2, <1>3, <1>4

LEMMA CyclePicksKeepsInv ==
  ASSUME Inv, CyclePicks
  PROVE  Inv'
  <1> USE CheckpointAssumption DEF Inv, Trees, Gens, memory, disk, history, bounds
  <1>a. /\ cycle.pc = "pick" /\ phase' \in {phase, "down"}
        /\ phase' = "down" => phase = "down" \/ cycle.todo = {}
        /\ UNCHANGED <<memory, admitted, disk, orphan, resetting, history, bounds>>
    BY DEF CyclePicks
  <1>b. CASE cycle' = Asleep
    <2>1. /\ cycle'.pc = "asleep"
          /\ cycle' \in [pc : {"asleep", "pick", "get", "write", "replace", "clean"},
                    todo : SUBSET Tenants, gens : [Tenants -> Gens],
                    tenant : Tenants \union {None}, tree : Trees \union {None}]
      BY <1>b DEF Asleep
    <2>2. TypeOK'
      BY <1>a, <2>1 DEF TypeOK
    <2>3. Counted'
      BY <1>a DEF Counted
    <2>4. Located'
      BY <1>a, <2>1 DEF TypeOK, Located
    <2>5. ASSUME resets' = 0, phase' = "up" PROVE UpToDate'
      BY <1>a, <2>1, <2>5 DEF TypeOK, Located, Ahead, UpToDate, CleanIsSaved, Present
    <2> QED BY <2>2, <2>3, <2>4, <2>5
  <1>c. ASSUME NEW t \in cycle.todo,
               cycle' = [cycle EXCEPT !.pc = "get", !.tenant = t, !.todo = @ \ {t}]
        PROVE  Inv'
    <2>1. /\ cycle'.pc = "get" /\ cycle'.tenant = t /\ cycle'.todo = cycle.todo \ {t}
          /\ cycle'.gens = cycle.gens /\ t \in Tenants
          /\ cycle' \in [pc : {"asleep", "pick", "get", "write", "replace", "clean"},
                    todo : SUBSET Tenants, gens : [Tenants -> Gens],
                    tenant : Tenants \union {None}, tree : Trees \union {None}]
      BY <1>c DEF TypeOK
    <2>2. TypeOK'
      BY <1>a, <2>1 DEF TypeOK
    <2>3. Counted'
      BY <1>a DEF Counted
    <2>4. Located'
      BY <1>a, <1>c, <2>1 DEF TypeOK, Located
    <2>5. ASSUME resets' = 0, phase' = "up" PROVE UpToDate'
      BY <1>a, <2>1, <2>5 DEF TypeOK, Located, Ahead, UpToDate, CleanIsSaved, Present
    <2> QED BY <2>2, <2>3, <2>4, <2>5
  <1> QED BY <1>b, <1>c DEF CyclePicks

LEMMA CycleGetsKeepsInv ==
  ASSUME Inv, CycleGets
  PROVE  Inv'
  <1> USE CheckpointAssumption DEF Inv, Trees, Gens, memory, disk, history, bounds
  <1>a. cycle.pc = "get" /\ UNCHANGED <<phase, memory, admitted, disk, orphan, resetting, history, bounds>>
    BY DEF CycleGets
  <1>b. CASE miner[cycle.tenant] = None
    <2>1. /\ cycle'.pc = "pick" /\ cycle'.todo = cycle.todo /\ cycle'.gens = cycle.gens
          /\ cycle' \in [pc : {"asleep", "pick", "get", "write", "replace", "clean"},
                    todo : SUBSET Tenants, gens : [Tenants -> Gens],
                    tenant : Tenants \union {None}, tree : Trees \union {None}]
      BY <1>b, Leaves DEF CycleGets
    <2>2. TypeOK'
      BY <1>a, <2>1 DEF TypeOK
    <2>3. Counted'
      BY <1>a DEF Counted
    <2>4. Located'
      BY <1>a, <2>1 DEF TypeOK, Located
    <2>5. ASSUME resets' = 0, phase' = "up" PROVE UpToDate'
      BY <1>a, <2>1, <2>5 DEF TypeOK, Located, Ahead, UpToDate, CleanIsSaved, Present
    <2> QED BY <2>2, <2>3, <2>4, <2>5
  <1>c. CASE miner[cycle.tenant] # None
    <2>1. /\ cycle'.pc = "write" /\ cycle'.todo = cycle.todo /\ cycle'.gens = cycle.gens
          /\ cycle'.tenant = cycle.tenant /\ cycle'.tree = miner[cycle.tenant]
          /\ cycle.tenant \in Tenants /\ cycle'.tree \in Trees
          /\ cycle' \in [pc : {"asleep", "pick", "get", "write", "replace", "clean"},
                    todo : SUBSET Tenants, gens : [Tenants -> Gens],
                    tenant : Tenants \union {None}, tree : Trees \union {None}]
      <3>1. cycle.tenant \in Tenants
        BY <1>a DEF Located
      <3>2. miner[cycle.tenant] \in Trees
        BY <1>c, <3>1 DEF TypeOK
      <3>3. cycle' = [cycle EXCEPT !.pc = "write", !.tree = miner[cycle.tenant]]
        BY <1>c DEF CycleGets
      <3> HIDE DEF Trees
      <3> QED BY <3>1, <3>2, <3>3 DEF TypeOK
    <2>2. TypeOK'
      BY <1>a, <2>1 DEF TypeOK
    <2>3. Counted'
      BY <1>a DEF Counted
    <2>4. Located'
      BY <1>a, <2>1 DEF TypeOK, Located
    <2>5. ASSUME resets' = 0, phase' = "up" PROVE UpToDate'
      BY <1>a, <2>1, <2>5 DEF TypeOK, Located, Ahead, UpToDate, CleanIsSaved, Present
    <2> QED BY <2>2, <2>3, <2>4, <2>5
  <1> QED BY <1>b, <1>c

LEMMA CycleWritesKeepsInv ==
  ASSUME Inv, CycleWrites
  PROVE  Inv'
  <1> USE CheckpointAssumption DEF Inv, Trees, Gens, CycleWrites, memory, history, bounds
  <1>1. TypeOK'
    BY DEF TypeOK, Counted, Located
  <1>2. Counted'
    BY DEF TypeOK, Counted
  <1>3. Located'
    BY DEF TypeOK, Located
  <1>4. ASSUME resets' = 0, phase' = "up" PROVE UpToDate'
    BY <1>4 DEF TypeOK, Counted, Located, Ahead, UpToDate, CleanIsSaved, Present
  <1> QED BY <1>1, <1>2, <1>3, <1>4

LEMMA CycleReplacesKeepsInv ==
  ASSUME Inv, CycleReplaces
  PROVE  Inv'
  <1> USE CheckpointAssumption DEF Inv, Trees, Gens, CycleReplaces, memory, history, bounds
  <1>1. TypeOK'
    BY DEF TypeOK, Counted, Located
  <1>2. Counted'
    BY DEF TypeOK, Counted
  <1>3. Located'
    BY DEF TypeOK, Located
  <1>4. ASSUME resets' = 0, phase' = "up" PROVE UpToDate'
    BY <1>4 DEF TypeOK, Counted, Located, Ahead, UpToDate, CleanIsSaved, Present
  <1> QED BY <1>1, <1>2, <1>3, <1>4

LEMMA CycleFailsKeepsInv ==
  ASSUME Inv, CycleFails
  PROVE  Inv'
  <1> USE CheckpointAssumption DEF Inv, Trees, Gens, CycleFails, memory, history
  <1>0. /\ cycle'.pc = "pick" /\ cycle'.todo = cycle.todo /\ cycle'.gens = cycle.gens
        /\ cycle' \in [pc : {"asleep", "pick", "get", "write", "replace", "clean"},
                      todo : SUBSET Tenants, gens : [Tenants -> Gens],
                      tenant : Tenants \union {None}, tree : Trees \union {None}]
    BY Leaves
  <1>1. TypeOK'
    BY <1>0 DEF TypeOK, Counted, Located
  <1>2. Counted'
    BY <1>0 DEF TypeOK, Counted
  <1>3. Located'
    BY <1>0 DEF TypeOK, Located
  <1>4. ASSUME resets' = 0, phase' = "up" PROVE UpToDate'
    BY <1>0, <1>4 DEF TypeOK, Counted, Located, Ahead, UpToDate, CleanIsSaved, Present
  <1> QED BY <1>1, <1>2, <1>3, <1>4

LEMMA CycleCleansKeepsInv ==
  ASSUME Inv, CycleCleans
  PROVE  Inv'
  <1> USE CheckpointAssumption DEF Inv, Trees, Gens, CycleCleans, LockFree, disk, history, bounds
  <1>0. /\ cycle'.pc = "pick" /\ cycle'.todo = cycle.todo /\ cycle'.gens = cycle.gens
        /\ cycle' \in [pc : {"asleep", "pick", "get", "write", "replace", "clean"},
                      todo : SUBSET Tenants, gens : [Tenants -> Gens],
                      tenant : Tenants \union {None}, tree : Trees \union {None}]
    BY Leaves
  <1>1. TypeOK'
    BY <1>0 DEF TypeOK, Counted, Located
  <1>2. Counted'
    BY <1>0 DEF TypeOK, Counted
  <1>3. Located'
    BY <1>0 DEF TypeOK, Located
  <1>4. ASSUME resets' = 0, phase' = "up" PROVE UpToDate'
    BY <1>0, <1>4 DEF TypeOK, Counted, Located, Ahead, UpToDate, CleanIsSaved, Present
  <1> QED BY <1>1, <1>2, <1>3, <1>4

LEMMA StopBeginsKeepsInv ==
  ASSUME Inv, StopBegins
  PROVE  Inv'
  <1> USE CheckpointAssumption DEF Inv, Trees, Gens, StopBegins, Asleep, NoSave, memory, disk, history
  <1>1. TypeOK'
    <2>1. cycle' \in [pc : {"asleep", "pick", "get", "write", "replace", "clean"},
                    todo : SUBSET Tenants, gens : [Tenants -> Gens],
                    tenant : Tenants \union {None}, tree : Trees \union {None}]
      BY DEF TypeOK
    <2>2. orphan' \in [pc : {"asleep", "write", "replace"},
                     tenant : Tenants \union {None}, tree : Trees \union {None}]
      BY DEF TypeOK
    <2>3. stops' \in 0..MaxStops
      BY DEF TypeOK
    <2>4. phase' = "stopping" /\ UNCHANGED <<memory, admitted, disk, resetting, history, resets, crashes, faults>>
      OBVIOUS
    <2> HIDE DEF StopBegins, Asleep, NoSave
    <2> QED BY <2>1, <2>2, <2>3, <2>4 DEF TypeOK
  <1>2. Counted'
    BY DEF TypeOK, Counted
  <1>3. Located'
    BY DEF TypeOK, Located
  <1>4. ASSUME resets' = 0, phase' = "up" PROVE UpToDate'
    BY <1>4 DEF TypeOK, Counted, Located, Ahead, UpToDate, CleanIsSaved, Present
  <1> QED BY <1>1, <1>2, <1>3, <1>4

LEMMA OrphanWritesKeepsInv ==
  ASSUME Inv, OrphanWrites
  PROVE  Inv'
  <1> USE CheckpointAssumption DEF Inv, Trees, Gens, OrphanWrites, memory, history, bounds
  <1>1. TypeOK'
    BY DEF TypeOK, Counted, Located
  <1>2. Counted'
    BY DEF TypeOK, Counted
  <1>3. Located'
    BY DEF TypeOK, Located
  <1>4. ASSUME resets' = 0, phase' = "up" PROVE UpToDate'
    BY <1>4 DEF TypeOK, Counted, Located, Ahead, UpToDate, CleanIsSaved, Present
  <1> QED BY <1>1, <1>2, <1>3, <1>4

LEMMA OrphanReplacesKeepsInv ==
  ASSUME Inv, OrphanReplaces
  PROVE  Inv'
  <1> USE CheckpointAssumption DEF Inv, Trees, Gens, OrphanReplaces, NoSave, memory, history, bounds
  <1>1. TypeOK'
    BY DEF TypeOK, Counted, Located
  <1>2. Counted'
    BY DEF TypeOK, Counted
  <1>3. Located'
    BY DEF TypeOK, Located
  <1>4. ASSUME resets' = 0, phase' = "up" PROVE UpToDate'
    BY <1>4 DEF TypeOK, Counted, Located, Ahead, UpToDate, CleanIsSaved, Present
  <1> QED BY <1>1, <1>2, <1>3, <1>4

LEMMA CrashKeepsInv ==
  ASSUME Inv, Crash
  PROVE  Inv'
  <1> USE CheckpointAssumption DEF Inv, Trees, Gens, Crash, Asleep, NoSave, disk, history
  <1>1. TypeOK'
    BY DEF TypeOK, Counted, Located
  <1>2. Counted'
    BY DEF TypeOK, Counted
  <1>3. Located'
    BY DEF TypeOK, Located
  <1>4. ASSUME resets' = 0, phase' = "up" PROVE UpToDate'
    BY <1>4 DEF TypeOK, Counted, Located, Ahead, UpToDate, CleanIsSaved, Present
  <1> QED BY <1>1, <1>2, <1>3, <1>4

LEMMA StartKeepsInv ==
  ASSUME Inv, Start
  PROVE  Inv'
  <1> USE CheckpointAssumption DEF Inv, Trees, Gens, Start, NoSave, Asleep, history, bounds
  <1>1. TypeOK'
    BY DEF TypeOK, Counted, Located
  <1>2. Counted'
    BY DEF TypeOK, Counted
  <1>3. Located'
    BY DEF TypeOK, Located
  <1>4. ASSUME resets' = 0, phase' = "up" PROVE UpToDate'
    BY <1>4 DEF TypeOK, Counted, Located, Ahead, UpToDate, CleanIsSaved, Present
  <1> QED BY <1>1, <1>2, <1>3, <1>4

LEMMA InvNext == Inv /\ [Next]_vars => Inv'
  <1> SUFFICES ASSUME Inv, [Next]_vars PROVE Inv'
    OBVIOUS
  <1>1. ASSUME NEW t \in Tenants,
               Cluster(t) \/ Admit(t) \/ Create(t) \/ ResetMiner(t) \/ ResetFile(t)
        PROVE  Inv'
    BY <1>1, ClusterKeepsInv, AdmitKeepsInv, CreateKeepsInv, ResetMinerKeepsInv, ResetFileKeepsInv
  <1>2. CASE \/ CycleBegins \/ CyclePicks \/ CycleGets \/ CycleWrites \/ CycleReplaces
             \/ CycleFails \/ CycleCleans
    BY <1>2, CycleBeginsKeepsInv, CyclePicksKeepsInv, CycleGetsKeepsInv, CycleWritesKeepsInv,
       CycleReplacesKeepsInv, CycleFailsKeepsInv, CycleCleansKeepsInv
  <1>3. CASE StopBegins \/ OrphanWrites \/ OrphanReplaces \/ Crash \/ Start
    BY <1>3, StopBeginsKeepsInv, OrphanWritesKeepsInv, OrphanReplacesKeepsInv, CrashKeepsInv,
       StartKeepsInv
  <1>4. CASE UNCHANGED vars
    BY <1>4 DEF vars, memory, disk, history, bounds, Inv, TypeOK, Counted, Located, Ahead, UpToDate,
                CleanIsSaved, Present
  <1> QED BY <1>1, <1>2, <1>3, <1>4 DEF Next

-----------------------------------------------------------------------------
(* mark_clean means checkpointed: until a tenant is reset, a clean tenant  *)
(* of a running clusterer has its tree in its file, whatever was learnt    *)
(* while the cycle saved, whatever was refused, and whichever process      *)
(* wrote the file.                                                         *)
THEOREM CleanTenantsAreSaved == Spec => []CleanSound
  <1>1. Inv => CleanSound
    BY DEF Inv, UpToDate, CleanSound, CleanIsSavedUnlessReset, CleanIsSaved
  <1> QED BY <1>1, InvInit, InvNext, PTL DEF Spec

-----------------------------------------------------------------------------
(* The directory over cycles, kills and starts.                            *)

Precedes(x, y) == x # None /\ y # None => x <= y

(* Until a reset or a shutdown there is one writer, and on its way to the  *)
(* file a tree only meets older ones: file, tree held or written, miner.   *)
Ordered ==
  stops = 0 /\ resets = 0 =>
    /\ phase # "stopping" /\ orphan.pc = "asleep"
    /\ \A t \in Tenants :
         Precedes(file[t], clock[t]) /\ Precedes(file[t], miner[t]) /\ Precedes(miner[t], clock[t])
    /\ cycle.pc = "write" => LET t == cycle.tenant IN
         Precedes(file[t], cycle.tree) /\ Precedes(cycle.tree, miner[t]) /\ cycle.tree <= clock[t]
    /\ cycle.pc = "replace" => LET t == cycle.tenant IN
         Precedes(file[t], tmp[t]) /\ Precedes(tmp[t], miner[t]) /\ Precedes(tmp[t], clock[t])

(* During the final flush nothing is learnt, and a miner's tree is in its  *)
(* file unless the flush has the tenant before it or is in it.             *)
FlushKnows ==
  phase = "stopping" =>
    /\ admitted = {} /\ cycle.pc # "asleep"
    /\ faults = 0 /\ resets = 0 => \A t \in Present \ {orphan.tenant} :
         /\ cycle.tenant = t /\ cycle.pc = "write" => cycle.tree = miner[t]
         /\ cycle.tenant = t /\ cycle.pc = "replace" => tmp[t] = miner[t]
         /\ \/ file[t] = miner[t] \/ t \in cycle.todo
            \/ cycle.tenant = t /\ cycle.pc \in {"get", "write", "replace"}

FilesInv == Inv /\ Ordered /\ FlushKnows

(* Resets, shutdowns and kills are counted up, one at a time; a shutdown   *)
(* ends with the flush, and a process starts after it ended.               *)
LEMMA CountedUp ==
  ASSUME TypeOK, [Next]_vars
  PROVE  /\ resets <= resets' /\ stops <= stops'
         /\ phase = "stopping" /\ phase' = "down" /\ crashes' = crashes =>
              CyclePicks /\ cycle.todo = {} /\ cycle.pc = "pick"
         /\ phase = "down" /\ phase' = "up" => Start
  <1> USE CheckpointAssumption DEF bounds
  <1>0. resets \in Nat /\ stops \in Nat /\ crashes \in Nat
    BY DEF TypeOK
  <1>1. ASSUME NEW t \in Tenants,
               Cluster(t) \/ Admit(t) \/ Create(t) \/ ResetMiner(t) \/ ResetFile(t)
        PROVE  phase' = phase /\ resets <= resets' /\ stops <= stops'
    BY <1>0, <1>1 DEF Cluster, Admit, Create, ResetMiner, ResetFile
  <1>2. CASE CycleBegins \/ CycleGets \/ CycleWrites \/ CycleReplaces \/ CycleFails \/ CycleCleans
    <2>1. phase' = phase /\ resets' = resets /\ stops' = stops
      BY <1>2 DEF CycleBegins, CycleGets, CycleWrites, CycleReplaces, CycleFails, CycleCleans
    <2> QED BY <1>0, <2>1
  <1>3. CASE CyclePicks
    <2>1. cycle.pc = "pick" /\ resets' = resets /\ stops' = stops
      BY <1>3 DEF CyclePicks
    <2>2. phase' = IF phase = "stopping" /\ cycle.todo = {} THEN "down" ELSE phase
      BY <1>3 DEF CyclePicks
    <2> QED BY <1>0, <1>3, <2>1, <2>2
  <1>4. CASE StopBegins \/ OrphanWrites \/ OrphanReplaces \/ Crash \/ Start
    BY <1>0, <1>4 DEF StopBegins, OrphanWrites, OrphanReplaces, Crash, Start
  <1>5. CASE UNCHANGED vars
    BY <1>0, <1>5 DEF vars
  <1> QED BY <1>1, <1>2, <1>3, <1>4, <1>5 DEF Next

LEMMA OrderedNext == Inv /\ Ordered /\ [Next]_vars => Ordered'
  <1> SUFFICES ASSUME Inv, Ordered, [Next]_vars, stops' = 0, resets' = 0
               PROVE  Ordered'
    BY DEF Ordered
  <1> USE CheckpointAssumption DEF Inv, TypeOK, Located, Ordered, Precedes, Trees, memory, disk, history, bounds
  <1>0. stops = 0 /\ resets = 0
    BY CountedUp
  <1>1. ASSUME NEW t \in Tenants, Cluster(t) PROVE Ordered'
    BY <1>0, <1>1 DEF Cluster, Learn
  <1>2. ASSUME NEW t \in Tenants, Admit(t) PROVE Ordered'
    BY <1>0, <1>2 DEF Admit
  <1>3. ASSUME NEW t \in Tenants, Create(t) PROVE Ordered'
    BY <1>0, <1>3 DEF Create, Learn
  <1>4. ASSUME NEW t \in Tenants, ResetMiner(t) \/ ResetFile(t) PROVE Ordered'
    BY <1>0, <1>4 DEF ResetMiner, ResetFile, Counted
  <1>5. CASE CycleBegins
    BY <1>0, <1>5 DEF CycleBegins, Asleep
  <1>6. CASE CyclePicks
    <2>1. cycle'.pc \in {"get", "asleep"}
      <3>1. ASSUME NEW t \in cycle.todo,
                   cycle' = [cycle EXCEPT !.pc = "get", !.tenant = t, !.todo = @ \ {t}]
            PROVE  cycle'.pc = "get"
        BY <3>1
      <3>2. cycle' = Asleep => cycle'.pc = "asleep"
        BY DEF Asleep
      <3> QED BY <1>6, <3>1, <3>2 DEF CyclePicks
    <2> QED BY <1>0, <1>6, <2>1 DEF CyclePicks
  <1>7. CASE CycleGets
    <2>1. \/ cycle'.pc = "pick"
          \/ /\ cycle'.pc = "write" /\ cycle'.tenant = cycle.tenant
             /\ cycle'.tree = miner[cycle.tenant] /\ miner[cycle.tenant] # None
      BY <1>7 DEF CycleGets, NextTenant
    <2>2. cycle.tenant \in Tenants
      BY <1>7 DEF CycleGets
    <2> QED BY <1>0, <1>7, <2>1, <2>2 DEF CycleGets
  <1>8. CASE CycleWrites
    BY <1>0, <1>8 DEF CycleWrites
  <1>9. CASE CycleReplaces
    BY <1>0, <1>9 DEF CycleReplaces
  <1>10. CASE CycleFails \/ CycleCleans
    BY <1>0, <1>10 DEF CycleFails, CycleCleans, NextTenant
  <1>11. CASE StopBegins \/ OrphanWrites \/ OrphanReplaces
    BY <1>0, <1>11 DEF StopBegins, OrphanWrites, OrphanReplaces
  <1>12. CASE Crash
    BY <1>0, <1>12 DEF Crash, Asleep, NoSave
  <1>13. CASE Start
    BY <1>0, <1>13 DEF Start, NoSave
  <1>14. CASE UNCHANGED vars
    BY <1>0, <1>14 DEF vars
  <1> QED BY <1>1, <1>2, <1>3, <1>4, <1>5, <1>6, <1>7, <1>8, <1>9, <1>10, <1>11, <1>12, <1>13, <1>14
             DEF Next

LEMMA FlushNext == Inv /\ FlushKnows /\ [Next]_vars => FlushKnows'
  <1> SUFFICES ASSUME Inv, FlushKnows, [Next]_vars, phase' = "stopping"
               PROVE  FlushKnows'
    BY DEF FlushKnows
  <1> USE CheckpointAssumption DEF Inv, TypeOK, Located, FlushKnows, Present, memory, disk, history, bounds
  <1>1. ASSUME NEW t \in Tenants,
               Cluster(t) \/ Admit(t) \/ Create(t) \/ ResetMiner(t) \/ ResetFile(t)
        PROVE  FlushKnows'
    BY <1>1 DEF Cluster, Admit, Create, ResetMiner, ResetFile
  <1>2. CASE CycleBegins
    BY <1>2 DEF CycleBegins
  <1>3. CASE CyclePicks
    <2>1. cycle.pc = "pick" /\ UNCHANGED <<memory, admitted, disk, orphan, bounds>>
      BY <1>3 DEF CyclePicks
    <2>2. phase = "stopping" /\ cycle.todo # {}
      BY <1>3 DEF CyclePicks
    <2>3. PICK u \in cycle.todo :
            cycle'.pc = "get" /\ cycle'.tenant = u /\ cycle'.todo = cycle.todo \ {u}
      BY <1>3, <2>2 DEF CyclePicks
    <2> QED BY <2>1, <2>2, <2>3
  <1>4. CASE CycleGets
    <2>1. cycle'.todo = cycle.todo /\ UNCHANGED <<phase, memory, admitted, disk, orphan, bounds>>
      BY <1>4 DEF CycleGets, NextTenant
    <2>2. \/ cycle'.pc = "pick" /\ miner[cycle.tenant] = None
          \/ cycle'.pc = "write" /\ cycle'.tenant = cycle.tenant /\ cycle'.tree = miner[cycle.tenant]
      BY <1>4 DEF CycleGets, NextTenant
    <2>3. cycle.pc = "get" /\ cycle.tenant \in Tenants
      BY <1>4 DEF CycleGets
    <2> QED BY <2>1, <2>2, <2>3
  <1>5. CASE CycleWrites
    BY <1>5 DEF CycleWrites
  <1>6. CASE CycleReplaces
    BY <1>6 DEF CycleReplaces
  <1>7. CASE CycleFails
    BY <1>7 DEF CycleFails, NextTenant
  <1>8. CASE CycleCleans
    BY <1>8 DEF CycleCleans, NextTenant
  <1>9. CASE StopBegins
    BY <1>9 DEF StopBegins, Asleep, NoSave, UpToDate, CleanIsSaved, Gens
  <1>10. CASE OrphanWrites
    BY <1>10 DEF OrphanWrites
  <1>11. CASE OrphanReplaces
    BY <1>11 DEF OrphanReplaces, NoSave
  <1>12. CASE Crash \/ Start
    BY <1>12 DEF Crash, Start
  <1>13. CASE UNCHANGED vars
    BY <1>13 DEF vars
  <1> QED BY <1>1, <1>2, <1>3, <1>4, <1>5, <1>6, <1>7, <1>8, <1>9, <1>10, <1>11, <1>12, <1>13 DEF Next

(* A step of a process that is not shut down changes a file by putting     *)
(* what the cycle has written in place.                                    *)
LEMMA FilesStep ==
  ASSUME FilesInv, [Next]_vars
  PROVE  /\ resets' = 0 /\ stops = 0 =>
              \A t \in Tenants : file[t] # None => file'[t] # None /\ file'[t] >= file[t]
         /\ phase = "stopping" /\ phase' = "down" /\ crashes' = crashes /\ faults = 0 /\ resets = 0 =>
              \A t \in Present \ {orphan.tenant} : file[t] = miner[t]
         /\ phase' = "up" /\ phase = "down" => Cardinality(Present') <= MaxTenants
  <1> USE CheckpointAssumption DEF FilesInv, Inv, TypeOK, Located, Trees, memory, disk, history, bounds
  <1>1. ASSUME resets' = 0, stops = 0, NEW t \in Tenants, file[t] # None
        PROVE  file'[t] # None /\ file'[t] >= file[t]
    <2>1. CASE CycleReplaces
      <3>1. resets = 0
        BY <1>1, <2>1 DEF CycleReplaces
      <3> QED BY <1>1, <2>1, <3>1 DEF CycleReplaces, Ordered, Precedes
    <2>2. CASE OrphanReplaces
      BY <1>1, <2>2 DEF OrphanReplaces, Ordered
    <2>3. CASE \E u \in Tenants : ResetFile(u)
      BY <1>1, <2>3 DEF ResetFile, Counted
    <2>4. CASE UNCHANGED file
      BY <1>1, <2>4
    <2> QED BY <2>1, <2>2, <2>3, <2>4
            DEF Next, Cluster, Admit, Create, Learn, ResetMiner, CycleBegins, CyclePicks,
                CycleGets, CycleWrites, CycleFails, CycleCleans, StopBegins, OrphanWrites, Crash, Start, vars
  <1>2. ASSUME phase = "stopping", phase' = "down", crashes' = crashes, faults = 0, resets = 0,
               NEW t \in Present \ {orphan.tenant}
        PROVE  file[t] = miner[t]
    <2>1. CyclePicks /\ cycle.todo = {} /\ cycle.pc = "pick"
      BY <1>2, CountedUp
    <2> QED BY <1>2, <2>1 DEF FlushKnows
  <1>3. ASSUME phase' = "up", phase = "down" PROVE Cardinality(Present') <= MaxTenants
    <2>1. Start
      BY <1>3, CountedUp
    <2>2. PICK S \in SUBSET {t \in Tenants : file[t] # None} :
            /\ Cardinality(S) <= MaxTenants
            /\ miner' = [t \in Tenants |-> IF t \in S THEN file[t] ELSE None]
      BY <2>1 DEF Start
    <2>3. Present' = S
      BY <2>2 DEF Present
    <2> QED BY <2>2, <2>3
  <1> QED BY <1>1, <1>2, <1>3

(* Over cycles, kills and starts no file is replaced by an older tree or   *)
(* removed, until a reset or a shutdown; the final flush saves every tree  *)
(* but that of a save it cancelled, unless a save failed or a tenant was   *)
(* reset; and start-up restores no more miners than the cap.               *)
THEOREM FilesAreKept == Spec => FilesSound
  <1>1. Init => FilesInv
    BY InvInit, CheckpointAssumption DEF Init, FilesInv, Ordered, Precedes, FlushKnows, NoSave, Asleep
  <1>2. FilesInv /\ [Next]_vars => FilesInv'
    BY InvNext, OrderedNext, FlushNext DEF FilesInv
  <1> QED BY <1>1, <1>2, FilesStep, PTL DEF Spec, FilesSound, NeverOlder, FlushSavesTheRest, StartWithinCap
=============================================================================
