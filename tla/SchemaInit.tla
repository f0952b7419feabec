----------------------------- MODULE SchemaInit -----------------------------
(***************************************************************************)
(* How an API process brings the ClickHouse schema up to date before it    *)
(* serves (db/schema.ts): statements that are harmless to repeat, then the *)
(* migrations, each gated on a ledger of those that were applied, because  *)
(* some drop a materialized view and what is inserted before it is created *)
(* again is missing from the aggregates.  Processes may start while others *)
(* migrate or serve, and exit or lose a call at any await.                 *)
(***************************************************************************)
EXTENDS Naturals, FiniteSets, Sequences, SequencesExt

CONSTANTS
  Boots,        (* API processes                                             *)
  MaxAttempts,  (* MAX_RETRIES                                               *)
  MaxStarts, MaxFailedCalls  (* bounds: processes started; calls that throw *)

ASSUME SchemaAssumption ==
  MaxAttempts \in Nat \ {0} /\ MaxStarts \in Nat /\ MaxFailedCalls \in Nat

VARIABLES
  engine,   (* of log_metadata: none, replacing, or the legacy one           *)
  views,    (* materialized view -> none, or which text made it              *)
  columns,  (* views whose table has the column the latest text fills        *)
  ledger,   (* schema_migrations                                             *)
  boots,    (* process -> where initSchema is in it                          *)
  torn,     (* history: an attempt ended next to another process's           *)
  starts, schemaFaults

database == <<engine, views, columns, ledger>>
schema   == <<database, boots, torn, starts, schemaFaults>>

Template == "template_stats_mv"
Service  == "service_stats_mv"
FiveMin  == "service_stats_5m_mv"
Daily    == "template_daily_summary_mv"
Views    == {Template, Service, FiveMin, Daily}

Create(v, text) == [do |-> "create", on |-> v, text |-> text]
Drop(v)         == [do |-> "drop", on |-> v, text |-> ""]
AddColumn(v)    == [do |-> "column", on |-> v, text |-> ""]

(* DDL_STATEMENTS, as far as views go: IF NOT EXISTS all of them.          *)
Ddl == <<Create(Template, "new"), Create(Service, "new")>>

(* MIGRATIONS, as far as views go.                                         *)
Migrations == <<
  Drop(Template), AddColumn(Template), Create(Template, "new"),
  Drop(Service), AddColumn(Service), Create(Service, "new"),
  Create(FiveMin, "old"), Drop(FiveMin), AddColumn(FiveMin), Create(FiveMin, "new"),
  Create(Daily, "new") >>

(* A migration is recorded under a hash of its text. *)
MigrationId(statement) == statement

All == {MigrationId(m) : m \in ToSet(Migrations)}
Down == [at |-> "down", next |-> 1, ran |-> FALSE, applied |-> {}, attempt |-> 0, late |-> FALSE]

SchemaTypeOK ==
  /\ engine \in {"none", "replacing", "legacy"}
  /\ views \in [Views -> {"none", "old", "new"}] /\ columns \subseteq Views /\ ledger \subseteq All
  /\ boots \in [Boots -> [at : {"down", "ddl", "migrating", "serving"}, next : 1..Len(Ddl) + 1,
                          ran : BOOLEAN, applied : SUBSET All, attempt : 0..MaxAttempts,
                          late : BOOLEAN]]
  /\ torn \in BOOLEAN /\ starts \in 0..MaxStarts /\ schemaFaults \in 0..MaxFailedCalls

(* An empty server, one of before the level was a dimension, or one whose  *)
(* log_metadata is a MergeTree.                                            *)
SchemaBegins ==
  /\ \/ engine = "none" /\ views = [v \in Views |-> "none"]
     \/ engine \in {"replacing", "legacy"}
        /\ views = [v \in Views |-> IF v \in {Template, Service} THEN "old" ELSE "none"]
  /\ columns = {} /\ ledger = {}
  /\ boots = [b \in Boots |-> Down] /\ torn = FALSE /\ starts = 0 /\ schemaFaults = 0

-----------------------------------------------------------------------------
(* What a statement does to the database: the tables of an empty one are   *)
(* created with all their columns but the one that is added later.         *)
Fresh == IF engine = "none" THEN {Template, Service} ELSE {}

Execute(s) ==
  /\ views' = IF s.do = "drop" THEN [views EXCEPT ![s.on] = "none"]
              ELSE IF s.do = "create" /\ views[s.on] = "none" THEN [views EXCEPT ![s.on] = s.text]
              ELSE views
  /\ columns' = columns \union Fresh
                  \union (IF s.do = "column" \/ s = Create(Daily, "new") THEN {s.on} ELSE {})
  /\ engine' = IF engine = "none" THEN "replacing" ELSE engine

Start(b) ==
  /\ boots[b].at = "down" /\ starts < MaxStarts /\ starts' = starts + 1
  /\ boots' = [boots EXCEPT ![b] = [Down EXCEPT !.at = "ddl", !.attempt = 1]]
  /\ UNCHANGED <<database, torn, schemaFaults>>

(* assertLogMetadataEngine, then the statements of DDL_STATEMENTS. *)
RunDdl(b) ==
  /\ boots[b].at = "ddl" /\ engine # "legacy" /\ boots[b].next <= Len(Ddl)
  /\ Execute(Ddl[boots[b].next])
  /\ boots' = [boots EXCEPT ![b].next = @ + 1]
  /\ UNCHANGED <<ledger, torn, starts, schemaFaults>>

(* Mutant: what was applied before is not asked for. *)
ReadNothing(b) ==
  /\ boots[b].at = "ddl" /\ boots[b].next > Len(Ddl)
  /\ boots' = [boots EXCEPT ![b].at = "migrating", ![b].late = (ledger = All)]
  /\ UNCHANGED <<database, torn, starts, schemaFaults>>

ReadLedger(b) ==
  /\ boots[b].at = "ddl" /\ boots[b].next > Len(Ddl)
  /\ boots' = [boots EXCEPT ![b].at = "migrating", ![b].applied = ledger, ![b].late = (ledger = All)]
  /\ UNCHANGED <<database, torn, starts, schemaFaults>>

(* The first migration that is not applied, as far as this process knows.  *)
Pending(b) == {i \in DOMAIN Migrations : MigrationId(Migrations[i]) \notin boots[b].applied}
CurrentMigration(b) == Migrations[Min(Pending(b))]

Migrate(b) ==
  /\ boots[b].at = "migrating" /\ Pending(b) # {} /\ ~boots[b].ran
  /\ Execute(CurrentMigration(b))
  /\ boots' = [boots EXCEPT ![b].ran = TRUE]
  /\ UNCHANGED <<ledger, torn, starts, schemaFaults>>

Record(b) ==
  /\ boots[b].ran
  /\ ledger' = ledger \union {MigrationId(CurrentMigration(b))}
  /\ boots' = [boots EXCEPT ![b].ran = FALSE,
                            ![b].applied = @ \union {MigrationId(CurrentMigration(b))}]
  /\ UNCHANGED <<engine, views, columns, torn, starts, schemaFaults>>

(* The server listens after initSchema has returned. *)
Serve(b) ==
  /\ boots[b].at = "migrating" /\ Pending(b) = {}
  /\ boots' = [boots EXCEPT ![b].at = "serving"]
  /\ UNCHANGED <<database, torn, starts, schemaFaults>>

Migrating(b) == boots[b].at = "migrating"
Torn(b) ==
  torn \/ (Migrating(b)
            /\ (ledger \ boots[b].applied # {} \/ \E o \in Boots \ {b} : Migrating(o)))

(* A call throws, though the statement or the row may have landed; or the  *)
(* engine is refused.  All is tried again, MAX_RETRIES times in all.       *)
AttemptFails(b) ==
  /\ boots[b].at \in {"ddl", "migrating"}
  /\ \/ engine = "legacy" /\ UNCHANGED <<database, schemaFaults>>
     \/ /\ engine # "legacy" /\ schemaFaults < MaxFailedCalls /\ schemaFaults' = schemaFaults + 1
        /\ \/ UNCHANGED database
           \/ Migrating(b) /\ Pending(b) # {} /\ ~boots[b].ran /\ Execute(CurrentMigration(b))
              /\ UNCHANGED ledger
           \/ boots[b].ran /\ ledger' = ledger \union {MigrationId(CurrentMigration(b))}
              /\ UNCHANGED <<engine, views, columns>>
  /\ boots' = [boots EXCEPT ![b] = IF boots[b].attempt < MaxAttempts
                          THEN [Down EXCEPT !.at = "ddl", !.attempt = boots[b].attempt + 1] ELSE Down]
  /\ torn' = Torn(b)
  /\ UNCHANGED starts

(* The process is killed. *)
Killed(b) ==
  /\ boots[b].at # "down"
  /\ boots' = [boots EXCEPT ![b] = Down]
  /\ torn' = Torn(b)
  /\ UNCHANGED <<database, starts, schemaFaults>>

SchemaNext ==
  \E b \in Boots :
    Start(b) \/ RunDdl(b) \/ ReadLedger(b) \/ Migrate(b) \/ Record(b) \/ Serve(b)
    \/ AttemptFails(b) \/ Killed(b)

SchemaSpec == SchemaBegins /\ [][SchemaNext]_schema

-----------------------------------------------------------------------------
(* "The ledger makes each statement run exactly once", so that no row is   *)
(* lost from the aggregates: while a process serves, every view is there,  *)
(* made by its latest text over a table that has its columns, whatever     *)
(* failed or was killed before and whoever starts now, unless a process    *)
(* that began before the migrations were done is still at them, or ended   *)
(* amid those of another.                                                  *)
ViewsCurrent ==
  (\E b \in Boots : boots[b].at = "serving") /\ ~torn
    /\ (\A b \in Boots : Migrating(b) => boots[b].late)
  => views = [v \in Views |-> "new"] /\ columns = Views

(* A table of the legacy engine is left alone, and nothing is served.      *)
LegacyRefused ==
  engine = "legacy" => ledger = {} /\ \A b \in Boots : boots[b].at \in {"down", "ddl"}

SchemaSound == SchemaTypeOK /\ ViewsCurrent /\ LegacyRefused

(* The views need no such condition.                                       *)
AlwaysCurrent ==
  (\E b \in Boots : boots[b].at = "serving") /\ (\A b \in Boots : ~Migrating(b))
  => views = [v \in Views |-> "new"]
=============================================================================
