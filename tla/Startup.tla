----------------------------- MODULE Startup -----------------------------
(***************************************************************************)
(* The life of a project: its user edits it and runs commands, the indexer *)
(* starts, checks what it finds in the database against the project and    *)
(* the chain, configures Hasura, indexes, and stops at any step            *)
(* (dipdup.py:757-812 and 891-905, dipdup.py:394-443, index.py:223-245,    *)
(* tezos_tzkt.py:1344-1387).                                               *)
(***************************************************************************)
EXTENDS Inventory

CONSTANTS
  Circumstances,   \* what may happen besides, by name
  MaxEdits,        \* edits of the project, reorgs and changes in Hasura
  MaxCommands,     \* `schema` and `hasura` commands
  MaxStops,        \* crashes, interrupts and rows that cannot be saved
  MaxLevel         \* levels an index goes through

(* half_created: models are edited after a start that has created tables    *)
(*   but not the row that says so.                                          *)
(* in_handler: a handler asks for reindexing where that is to raise, inside *)
(*   the transaction of its level.                                          *)
(* ignored_models: models are edited while a modified schema is ignored and *)
(*   another reason raises.                                                 *)
(* edit_approved: models are edited before the hash of an approval is taken,*)
(*   or not migrated for it; or an index is edited again after it.          *)
(* migrated_back: models are edited back to what the stored hash is of,     *)
(*   after the tables were migrated.                                        *)
(* edit_template: the definition of a templated index is edited.            *)
(* template_removed: a template is removed from the config where that is    *)
(*   ignored, or approved without it.                                       *)
(* spawned_again: a reorg takes back a level whose handler has added        *)
(*   something.                                                             *)
(* reorg_approved: the user approves after a reorg during an outage.        *)
(* edit_hasura: what Hasura is configured from is edited, and the hash of   *)
(*   its metadata stays, or it is configured before an edit is noticed.     *)
(* wipe_sqlite: reindexing wipes a SQLite database.                         *)
(* unsaved_row: the row of dipdup_schema cannot be saved where a modified   *)
(*   schema is ignored.                                                     *)
CircumstanceNames ==
  {"half_created", "migrated_back", "in_handler", "ignored_models", "edit_approved", "edit_template",
   "template_removed", "spawned_again", "reorg_approved", "edit_hasura", "wipe_sqlite",
   "unsaved_row"}

ASSUME CircumstancesAssumption ==
  /\ Circumstances \subseteq CircumstanceNames
  /\ {MaxEdits, MaxCommands, MaxStops, MaxLevel} \subseteq Nat

VARIABLES
  pc,        \* where the process is
  command,   \* "run", "init" or "configure"
  known,     \* DipDup._schema, the row as it was read
  edits, commands, stops,
  demanded,  \* the user was told that reindexing is required
  approved,  \* `schema approve` was the last that happened to the project
  since      \* what the rows of each part were built from

processVars == <<pc, command, known, inventoryVars>>
budgets == <<edits, commands, stops>>
history == <<demanded, approved, since>>
vars == <<databaseVars, metadata, migrations, processVars, budgets, history>>

Nothing == [p \in Parts |-> NoHash]

Init ==
  /\ DatabaseInit /\ MetadataInit /\ MigrationsInit
  /\ (\E r \in Reasons : Action(r) = "wipe") /\ database = "sqlite"
       => "wipe_sqlite" \in Circumstances
  /\ pc = "down" /\ command = "run" /\ known = NoRow
  /\ inventory = {} /\ state = [i \in Indexes |-> NoRow]
  /\ edits = 0 /\ commands = 0 /\ stops = 0
  /\ demanded = FALSE /\ approved = FALSE /\ since = Nothing

project == <<database, policy, version, chain>>

Goto(step) == pc' = step

(* What a stopped process leaves in memory is gone.                         *)
Down ==
  /\ pc' = "down" /\ known' = NoRow
  /\ inventory' = {} /\ state' = [i \in Indexes |-> NoRow]

(* DipDupContext.reindex, after which an ignored reason lets the caller go  *)
(* on at `next` (context.py:195-244).  In the transaction of a handler what *)
(* it writes is lost with the process.  Without the row of dipdup_schema    *)
(* `exception` fails before it has told the user anything.                  *)
Reindexed(reason, next, inHandler) ==
  /\ \/ /\ Action(reason) = "ignore"
        /\ db' = Ignored(reason) /\ Goto(next)
        /\ UNCHANGED <<known, inventoryVars, demanded, since>>
        /\ UNCHANGED migrations
     \/ /\ Action(reason) = "exception"
        /\ db' = IF inHandler \/ db.schema = NoRow THEN db ELSE Flagged(reason)
        /\ demanded' = (demanded \/ db.schema # NoRow)
        /\ Down
        /\ UNCHANGED <<since, migrations>>
     \/ /\ Action(reason) = "wipe"
        /\ LET wiped == ~inHandler /\ database # "sqlite"
           IN /\ db' = IF inHandler THEN db ELSE WipedByReindex
              /\ since' = IF wiped THEN Nothing ELSE since
              /\ demanded' = (demanded /\ ~wiped)
        /\ MigrationsWiped
        /\ Down
  /\ UNCHANGED <<project, metadata, command, approved>>

Reindex(reason, next, inHandler) == Reindexed(reason, next, inHandler) /\ UNCHANGED budgets

-----------------------------------------------------------------------------
(* `run` and `schema init`: _initialize_schema (dipdup.py:757-812).         *)

(* The row is read if there is a table for it, and without failing.         *)
ReadSchema ==
  /\ pc = "down" /\ command \in {"run", "init"}
  /\ known' = db.schema /\ Goto("generate")
  /\ UNCHANGED <<databaseVars, metadata, migrations, command, inventoryVars, budgets, history>>

(* Missing tables are created, which may fail when those that are there     *)
(* were made of other models.                                               *)
GenerateSchema ==
  /\ pc = "generate"
  /\ \/ /\ db' = IF db.tables = NoHash
                 THEN [db EXCEPT !.tables = version[Models], !.immune = TRUE]
                 ELSE db
        /\ Goto("schema")
        /\ UNCHANGED <<project, metadata, migrations, command, known, inventoryVars, budgets, history>>
     \/ /\ db.tables \notin {NoHash, version[Models]}
        /\ Reindex("schema_modified", "schema", FALSE)

(* Mutant of FireOnReindex: the row is saved first.                         *)
FireOnReindexWithRow ==
  /\ pc = "schema" /\ known = NoRow
  /\ IF db.schema = NoRow
     THEN db' = [db EXCEPT !.schema = [hash |-> version[Models], reindex |-> NoReason]]
          /\ Goto("schema")
     ELSE db' = [db EXCEPT !.prepared = TRUE] /\ Goto("save_schema")
  /\ UNCHANGED <<project, metadata, migrations, command, known, inventoryVars, budgets, history>>

(* A database without the row is new: on_reindex runs, and the row says so  *)
(* only after it (dipdup.py:781-795).                                       *)
FireOnReindex ==
  /\ pc = "schema" /\ known = NoRow
  /\ db' = [db EXCEPT !.prepared = TRUE] /\ Goto("save_schema")
  /\ UNCHANGED <<project, metadata, migrations, command, known, inventoryVars, budgets, history>>

Row(hash) == [hash |-> hash, reindex |-> NoReason]

SaveSchema ==
  /\ pc = "save_schema"
  /\ db' = [db EXCEPT !.schema = Row(version[Models])] /\ Goto("restart")
  /\ UNCHANGED <<project, metadata, migrations, command, known, inventoryVars, budgets, history>>

(* The row cannot be saved; nothing sees to it that there is one if that is *)
(* ignored.                                                                 *)
SaveSchemaFails ==
  /\ pc = "save_schema" /\ stops < MaxStops
  /\ Action("schema_modified") = "ignore" => "unsaved_row" \in Circumstances
  /\ Reindexed("schema_modified", "restart", FALSE)
  /\ stops' = stops + 1 /\ UNCHANGED <<edits, commands>>

(* A hash that was reset is computed anew, and a flag is not looked at      *)
(* (dipdup.py:797-799).                                                     *)
SaveHash ==
  /\ pc = "schema" /\ known # NoRow /\ known.hash = NoHash
  /\ db' = [db EXCEPT !.schema = [known EXCEPT !.hash = version[Models]]]
  /\ Goto("restart")
  /\ UNCHANGED <<project, metadata, migrations, command, known, inventoryVars, budgets, history>>

CheckHash ==
  /\ pc = "schema" /\ known # NoRow /\ known.hash \notin {NoHash, version[Models]}
  /\ Reindex("schema_modified", "restart", FALSE)

CheckFlag ==
  /\ pc = "schema" /\ known # NoRow /\ known.hash = version[Models]
  /\ IF known.reindex = NoReason
     THEN /\ Goto("restart")
          /\ UNCHANGED <<databaseVars, metadata, migrations, command, known, inventoryVars, budgets, history>>
     ELSE Reindex(known.reindex, "restart", FALSE)

FireOnRestart ==
  /\ pc = "restart" /\ Goto("migrations")
  /\ UNCHANGED <<databaseVars, metadata, migrations, command, known, inventoryVars, budgets, history>>

(* After this `schema init` is done, `run` goes on.                         *)
SetUpMigrations ==
  /\ pc = "migrations" /\ InitializeMigrations
  /\ IF command = "init"
     THEN Down /\ command' = "run"
     ELSE Goto("datasources") /\ UNCHANGED <<command, known, inventoryVars>>
  /\ UNCHANGED <<project, metadata, budgets, history>>

(* The block of the stored head is compared with that of the chain          *)
(* (late_tzkt_initialization, tezos_tzkt.py:1369-1387).                     *)
InitializeDatasources ==
  /\ pc = "datasources"
  /\ IF db.head \in {NoHash, chain}
     THEN /\ Goto("hasura")
          /\ UNCHANGED <<databaseVars, metadata, migrations, command, known, inventoryVars, budgets, history>>
     ELSE Reindex("rollback", "hasura", FALSE)

-----------------------------------------------------------------------------
(* HasuraGateway.configure, for `run` and `hasura configure`                *)
(* (dipdup.py:723-725, cli.py:536-566).                                     *)

Metadata(value, next) ==
  /\ metadata' = value /\ Goto(next)
  /\ UNCHANGED <<databaseVars, migrations, command, known, inventoryVars, budgets, history>>

(* Hasura needs PostgreSQL.  `hasura configure` does not create tables;     *)
(* --force skips the comparison.                                            *)
HasHasura == database # "sqlite"
CheckMetadata ==
  /\ \/ pc = "hasura"
     \/ pc = "down" /\ command = "configure" /\ db.tables # NoHash
  /\ \/ (UpToDate \/ ~HasHasura) /\ Metadata(metadata, "configured")
     \/ HasHasura /\ ~UpToDate /\ Metadata(metadata, "source")
     \/ HasHasura /\ command = "configure" /\ Metadata(metadata, "source")

ConfigureFails ==
  /\ pc = "down" /\ command = "configure" /\ db.tables = NoHash
  /\ command' = "run"
  /\ UNCHANGED <<databaseVars, metadata, migrations, pc, known, inventoryVars, budgets, history>>

CreateSource == pc = "source" /\ Metadata(SourceCreated, "tables")
ReplaceTables == pc = "tables" /\ Metadata(TablesReplaced, "names")
ApplyCustomization == pc = "names" /\ Metadata(SectionAdded("names"), "queries")
ReplaceQueries == pc = "queries" /\ Metadata(SectionAdded("queries"), "custom")
ApplyCustomMetadata == pc = "custom" /\ Metadata(SectionAdded("custom"), "save_hash")

SaveMetadataHash ==
  /\ pc = "save_hash"
  /\ db' = [db EXCEPT !.hasura = metadata] /\ Goto("configured")
  /\ UNCHANGED <<project, metadata, migrations, command, known, inventoryVars, budgets, history>>

HasuraDone ==
  /\ pc = "configured"
  /\ IF command = "configure"
     THEN Down /\ command' = "run"
     ELSE Goto("spawn") /\ UNCHANGED <<command, known, inventoryVars>>
  /\ UNCHANGED <<databaseVars, metadata, migrations, budgets, history>>

-----------------------------------------------------------------------------
(* Indexes.                                                                 *)

(* _spawn_index of every index of the config, which reads or creates its    *)
(* row (dipdup.py:729-730, context.py:334-441).                             *)
SpawnIndexes ==
  /\ pc = "spawn"
  /\ db' = [db EXCEPT !.index = [i \in Indexes |->
                IF i \in Configured THEN RowOf(i) ELSE db.index[i]]]
  /\ state' = [i \in Indexes |-> IF i \in Configured THEN RowOf(i) ELSE NoRow]
  /\ Goto("contracts")
  /\ UNCHANGED <<project, metadata, migrations, command, known, inventory, budgets, history>>

FetchContracts ==
  /\ pc = "contracts" /\ Goto("load")
  /\ inventory' = fetch_contracts
  /\ UNCHANGED <<databaseVars, metadata, migrations, command, known, state, budgets, history>>

(* Mutant of LoadIndexState: a hash that differs is replaced.               *)
LoadIndexStateSavingHash ==
  /\ pc = "load"
  /\ db' = [db EXCEPT !.index = [i \in Indexes |->
                IF i \in Configured THEN [db.index[i] EXCEPT !.hash = version[i]]
                                    ELSE db.index[i]]]
  /\ Goto("templates")
  /\ UNCHANGED <<project, metadata, migrations, command, known, inventoryVars, budgets, history>>

(* _load_index_state, which reads the rows once more: a hash that was reset *)
(* is computed anew and saved, though not in the row that Index._state is;  *)
(* one that differs asks for reindexing (dipdup.py:394-420).                *)
LoadIndexState ==
  /\ pc = "load"
  /\ \/ /\ \E i \in Configured : db.index[i].hash \notin {NoHash, version[i]}
        /\ Reindex("config_modified", "templates", FALSE)
     \/ /\ \A i \in Configured : db.index[i].hash \in {NoHash, version[i]}
        /\ db' = [db EXCEPT !.index = [i \in Indexes |->
                     IF i \in Configured THEN [db.index[i] EXCEPT !.hash = version[i]]
                                         ELSE db.index[i]]]
        /\ Goto("templates")
        /\ UNCHANGED <<project, metadata, migrations, command, known, inventoryVars, budgets, history>>

(* Its other branch, for an index added from a template: that is looked     *)
(* for, but the hash is not compared.  If a missing template is ignored,    *)
(* and if a contract is missing, add_index fails (dipdup.py:422-436).       *)
AddTemplated ==
  /\ pc = "templates"
  /\ LET missing == \E i \in AddedBefore : ~InTemplates(i)
         unresolved == AddedBefore # {} /\ Contract \notin inventory
     IN IF missing /\ Action("config_modified") # "ignore"
          THEN Reindex("config_modified", "running", FALSE)
        ELSE IF missing \/ unresolved
          THEN /\ db' = IF missing THEN Ignored("config_modified") ELSE db
               /\ Down
               /\ UNCHANGED <<project, metadata, migrations, command, budgets, history>>
        ELSE /\ state' = [i \in Indexes |-> IF i \in AddedBefore THEN RowOf(i) ELSE state[i]]
             /\ inventory' = inventory \cup AddedBefore
             /\ Goto("running")
             /\ UNCHANGED <<databaseVars, metadata, migrations, command, known, budgets, history>>

(* A level is processed: its handler may add a contract and indexes, in its *)
(* transaction, or fail because they are there.  _update_state saves every  *)
(* field of the row it holds (index.py:302-314).                            *)
ProcessLevel(i) ==
  /\ pc = "running" /\ state[i] # NoRow /\ state[i].level < MaxLevel
  /\ LET added == SpawnedBy(i) IN
     IF added \cap inventory # {}
       THEN /\ Down
            /\ UNCHANGED <<db, since, approved>>
       ELSE /\ state' = [j \in Indexes |-> IF j = i THEN [state[i] EXCEPT !.level = @ + 1]
                                            ELSE IF j \in added THEN RowOf(j) ELSE state[j]]
            /\ inventory' = inventory \cup added
            /\ db' = [db EXCEPT !.contract = @ \/ Contract \in added,
                               !.index = [j \in Indexes |->
                                 IF j \in added \cup {i} THEN state'[j] ELSE db.index[j]]]
            /\ since' = [p \in Parts |-> IF p \in {i, Models} /\ since[p] = NoHash
                                         THEN version[p] ELSE since[p]]
            /\ approved' = FALSE
            /\ UNCHANGED <<pc, known>>
  /\ UNCHANGED <<project, metadata, migrations, command, budgets, demanded>>

(* A reorg takes a level back; contracts and indexes are no models of the   *)
(* project, and what the level has added stays (context.py:571-624).        *)
RollbackLevel(i) ==
  /\ pc = "running" /\ state[i] # NoRow /\ state[i].level > 0
  /\ i = Factory /\ state[i].level = FactoryLevel => "spawned_again" \in Circumstances
  /\ state' = [state EXCEPT ![i].level = @ - 1]
  /\ db' = [db EXCEPT !.index[i] = state'[i]]
  /\ approved' = FALSE
  /\ UNCHANGED <<project, metadata, migrations, pc, command, known, inventory, budgets, demanded, since>>

(* _on_rollback reads the rows of all indexes anew (dipdup.py:594).         *)
RefreshState ==
  /\ pc = "running"
  /\ state' = [i \in Indexes |-> IF state[i] = NoRow THEN NoRow ELSE db.index[i]]
  /\ state' # state
  /\ UNCHANGED <<databaseVars, metadata, migrations, pc, command, known, inventory, budgets, history>>

(* _on_tzkt_head and its like store the head (dipdup.py:465-476).           *)
StoreHead ==
  /\ pc = "running" /\ db.head = NoHash
  /\ db' = [db EXCEPT !.head = chain]
  /\ UNCHANGED <<project, metadata, migrations, processVars, budgets, history>>

(* What else asks for reindexing: a rollback that is too deep               *)
(* (context.py:582-592), and callbacks with ctx.reindex.                    *)
Request(step) ==
  /\ pc = "running" /\ edits < MaxEdits
  /\ Goto(step) /\ edits' = edits + 1 /\ approved' = FALSE
  /\ UNCHANGED <<databaseVars, metadata, migrations, command, known, inventoryVars, commands, stops, demanded, since>>

RequestOfHook == Request("asked_by_hook")
RequestOfHandler ==
  /\ Action("manual") = "exception" => "in_handler" \in Circumstances
  /\ Request("asked_by_handler")
RollbackTooDeep == Request("too_deep")

Requested ==
  \/ pc = "asked_by_hook" /\ Reindex("manual", "running", FALSE)
  \/ pc = "asked_by_handler" /\ Reindex("manual", "running", TRUE)
  \/ pc = "too_deep" /\ Reindex("rollback", "running", FALSE)

-----------------------------------------------------------------------------
(* The user.                                                                *)

Command ==
  /\ pc = "down" /\ command = "run" /\ commands < MaxCommands
  /\ commands' = commands + 1

(* The models are those that the indexer has seen.                          *)
Accepted ==
  IF db.schema = NoRow THEN db.tables = NoHash ELSE db.schema.hash = version[Models]

(* Commands that start the indexer up to some point.                        *)
StartCommand ==
  /\ Command
  /\ command' \in {"init", "configure"}
  /\ command' = "configure" /\ ~Accepted => "edit_hasura" \in Circumstances
  /\ UNCHANGED <<databaseVars, metadata, migrations, pc, known, inventoryVars, edits, stops, history>>

(* The tables are altered to fit the models, by scripts of the user         *)
(* (docs/12.faq.md:57-100).                                                 *)
Migrate ==
  /\ pc = "down" /\ db.tables \notin {NoHash, version[Models]}
  /\ db' = [db EXCEPT !.tables = version[Models]]
  /\ UNCHANGED <<project, metadata, migrations, processVars, budgets, history>>

(* `schema migrate` of aerich.                                              *)
MakeMigration ==
  /\ pc = "down" /\ command = "run" /\ migrations # version[Models]
  /\ SchemaMigrate
  /\ UNCHANGED <<databaseVars, metadata, processVars, budgets, history>>

(* What the user should have looked at before an approval.                  *)
Approve(d) ==
  /\ Command /\ d.schema # NoRow
  /\ d.tables # version[Models] => "edit_approved" \in Circumstances
  /\ d.hasura # NoHash /\ ~Complete => "edit_hasura" \in Circumstances
  /\ d.head \notin {NoHash, chain} => "reorg_approved" \in Circumstances
  /\ (\E i \in AddedBefore : ~InTemplates(i)) => "template_removed" \in Circumstances
  /\ db' = Approved(d)
  /\ demanded' = FALSE /\ approved' = (d.tables = version[Models]) /\ since' = Nothing
  /\ UNCHANGED <<project, metadata, migrations, processVars, edits, stops>>

(* `schema approve`, or dipdup_approve in SQL, which forgets the head and   *)
(* the hash of Hasura's metadata as well (sql/dipdup_approve.sql).          *)
SchemaApprove ==
  \/ Approve(db)
  \/ Approve([db EXCEPT !.head = NoHash, !.hasura = NoHash])

(* `schema upgrade`, which approves whatever it did (cli.py:608-621).       *)
SchemaUpgrade == Upgradable /\ Approve(Upgraded)

SchemaWipe ==
  /\ Command
  /\ \E withImmune \in BOOLEAN : db' = WipedByCommand(withImmune)
  /\ MigrationsWiped
  /\ demanded' = FALSE /\ approved' = FALSE /\ since' = Nothing
  /\ UNCHANGED <<project, metadata, processVars, edits, stops>>

Edit ==
  /\ pc = "down" /\ command = "run" /\ edits < MaxEdits
  /\ edits' = edits + 1 /\ approved' = FALSE
  /\ UNCHANGED <<database, policy, db, processVars, commands, stops,
                 demanded, since>>

(* What an edit of a part needs to be harmless.                             *)
Raises == \E r \in Reasons : Action(r) = "exception"
Reset(row) == IF row = NoRow THEN FALSE ELSE row.hash = NoHash
MayEdit(p) ==
  \/ /\ p = Models
     /\ Action("schema_modified") = "ignore" /\ Raises
          => "ignored_models" \in Circumstances
     /\ Action("schema_modified") = "ignore" /\ db.hasura # NoHash
          => "edit_hasura" \in Circumstances
     /\ db.tables # NoHash /\ db.schema = NoRow => "half_created" \in Circumstances
     /\ Reset(db.schema) => "edit_approved" \in Circumstances
     /\ db.schema # NoRow /\ db.tables = version[Models] /\ db.tables # db.schema.hash
          => "migrated_back" \in Circumstances
  \/ p = HasuraPart /\ (db.hasura = NoHash \/ "edit_hasura" \in Circumstances)
  \/ p \in Configured /\ (~Reset(db.index[p]) \/ "edit_approved" \in Circumstances)

EditPart ==
  /\ Edit
  /\ \E p \in Parts :
       MayEdit(p) /\ version' = [version EXCEPT ![p] = 1 - @]
  /\ UNCHANGED <<chain, metadata, migrations>>

EditTemplate ==
  /\ Edit
  /\ \E i \in Templated, new \in Versions \cup {NoHash} :
       /\ new # version[i] /\ version' = [version EXCEPT ![i] = new]
       /\ IF new = NoHash
            THEN Action("config_modified") = "ignore" /\ db.index[i] # NoRow
                   => "template_removed" \in Circumstances
            ELSE since[i] \notin {NoHash, new} => "edit_template" \in Circumstances
  /\ UNCHANGED <<chain, metadata, migrations>>

Reorg ==
  /\ Edit
  /\ chain' = 1 - chain
  /\ UNCHANGED <<version, metadata, migrations>>

(* Somebody else changes the metadata, or Hasura loses it.                  *)
ChangeMetadata ==
  /\ Edit
  /\ metadata' \in {[metadata EXCEPT !.foreign = 1], Unconfigured}
  /\ UNCHANGED migrations
  /\ UNCHANGED <<version, chain>>

(* A crash, an interrupt or a request that fails for good.                  *)
Stop ==
  /\ pc # "down" /\ stops < MaxStops
  /\ stops' = stops + 1 /\ Down /\ command' = "run"
  /\ UNCHANGED <<databaseVars, metadata, migrations, edits, commands, history>>

-----------------------------------------------------------------------------
Run ==
  \/ ReadSchema \/ GenerateSchema \/ FireOnReindex \/ SaveSchema \/ SaveHash
  \/ CheckHash \/ CheckFlag \/ FireOnRestart \/ SetUpMigrations \/ InitializeDatasources
  \/ CheckMetadata \/ ConfigureFails \/ CreateSource \/ ReplaceTables
  \/ ApplyCustomization \/ ReplaceQueries \/ ApplyCustomMetadata
  \/ SaveMetadataHash \/ HasuraDone
  \/ SpawnIndexes \/ FetchContracts \/ LoadIndexState \/ AddTemplated \/ StoreHead \/ Requested
  \/ \E i \in Indexes : ProcessLevel(i)

User ==
  \/ StartCommand \/ Migrate \/ MakeMigration \/ SchemaUpgrade \/ SchemaApprove
  \/ SchemaWipe \/ EditPart \/ EditTemplate \/ Reorg
  \/ ChangeMetadata \/ Stop

Next ==
  \/ Run \/ User \/ SaveSchemaFails
  \/ RefreshState \/ (\E i \in Indexes : RollbackLevel(i)) \/ RequestOfHook \/ RequestOfHandler \/ RollbackTooDeep

Spec == Init /\ [][Next]_vars

(* A process goes on as long as it is not stopped, and is started again     *)
(* after it has stopped (docs/1.getting-started/3.config.md:109).           *)
FairSpec == Spec /\ WF_vars(Run)

-----------------------------------------------------------------------------
(* Properties.                                                              *)

(* Once the user was told that reindexing is required no index moves until  *)
(* the database was approved or wiped: ReindexingRequiredError is "unable   *)
(* to continue indexing with existing database" (exceptions.py:155-157).    *)
RefusesUntilSettled ==
  [][demanded => \A i \in Indexes : state'[i] # state[i] => pc # "running"]_vars

(* The rows of an index, and those of all, come from one version of its     *)
(* definition and of the models since they were wiped or approved, unless   *)
(* the user ignores such changes (docs/1.getting-started/2.core-concepts.md *)
(* :29).                                                                    *)
OneDefinition ==
  pc = "running" =>
    /\ \A i \in Indexes : Action("config_modified") # "ignore" =>
         since[i] \in {NoHash, version[i]}
    /\ Action("schema_modified") # "ignore" =>
         since[Models] \in {NoHash, version[Models]}

(* An approved database is not refused again as long as nothing changes     *)
(* (cli.py:647).                                                            *)
ApprovalHolds == approved => ~demanded

(* Before any index has rows on_reindex has run on these tables, also when  *)
(* the process that was to run it has stopped (dipdup.py:781-787), and the  *)
(* tables are those of the models: migrated, or made anew.                  *)
PreparedFirst ==
  pc = "running" =>
    /\ db.prepared /\ db.schema # NoRow
    /\ Action("schema_modified") # "ignore" => db.tables = version[Models]

(* An indexer that runs has Hasura configured, all of it from the project   *)
(* as it is and nothing of anyone else's, wherever an earlier attempt has   *)
(* stopped (hasura.py:134-207).                                             *)
HasuraConfigured ==
  pc = "running" /\ HasHasura => Complete

(* Unless the user is asked for, the indexer runs in the end                *)
(* (context.py:231-241: a wipe is followed by a restart).                   *)
Resumes == <>[](pc = "running" \/ demanded)
=============================================================================
