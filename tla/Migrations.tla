----------------------------- MODULE Migrations -----------------------------
(***************************************************************************)
(* Migrations of the tables by aerich, an optional tool (PostgreSQL only,  *)
(* DIPDUP_MIGRATIONS): a directory of the project with a file per          *)
(* migration, and a table that says which of them were applied.  DipDup    *)
(* initializes both, removes the directory when it wipes the database, and *)
(* lends its command line to aerich (dipdup.py:960-986, cli.py:568-630).   *)
(***************************************************************************)
EXTENDS HasuraMetadata

VARIABLE migrations   \* the models the last file leads to, NoHash without a directory

UsesMigrations == database = "postgres with migrations"

MigrationsInit == migrations = NoHash

(* init_db: without a directory there is a first file, applied already as   *)
(* the tables are there; FileExistsError means that this has been done.     *)
InitializeMigrations ==
  IF UsesMigrations /\ migrations = NoHash
    THEN /\ migrations' = version[Models]
         /\ db' = [db EXCEPT !.migrated = version[Models]]
    ELSE UNCHANGED <<migrations, db>>

(* wipe_schema removes the directory, also if the transaction it is called  *)
(* in is rolled back.                                                       *)
MigrationsWiped == migrations' = NoHash

(* `schema migrate`: a file that leads from what was applied last to the    *)
(* models.  Without a directory it is refused.                              *)
SchemaMigrate ==
  /\ UsesMigrations /\ migrations # NoHash
  /\ migrations' = version[Models]

(* What `schema upgrade` makes of the tables: the last file alters those it *)
(* was made for, unless it has been applied.                                *)
Upgradable ==
  /\ UsesMigrations /\ migrations # NoHash
  /\ db.migrated \in {migrations, db.tables}
Upgraded ==
  IF db.migrated = migrations THEN db
  ELSE [db EXCEPT !.tables = migrations, !.migrated = migrations]
=============================================================================
