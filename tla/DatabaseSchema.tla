------------------------- MODULE DatabaseSchema -------------------------
(***************************************************************************)
(* The database of a project between the starts of its indexer: the hashes *)
(* by which DipDup notices that models, index definitions or the chain are *)
(* no longer those its rows were built from, and what it does then         *)
(* (context.py:195-244, dipdup.py:757-812, database.py:294-382,            *)
(* cli.py:643-748).                                                        *)
(*                                                                         *)
(* A project has parts that its user edits: the models, the definition of  *)
(* every index, what Hasura is configured from.  A hash is the version of  *)
(* the part it was computed from.                                          *)
(***************************************************************************)
EXTENDS Naturals, FiniteSets

CONSTANTS
  Indexes,      \* the indexes of the config
  Templated,    \* those added at run time from a template (add_index)
  Policies,     \* the values of `advanced.reindex` considered
  Databases,    \* the kinds of databases considered
  NoHash,       \* instead of a hash
  NoRow         \* instead of a row

Models == "models"
HasuraPart == "hasura"
Parts == Indexes \cup {Models, HasuraPart}
Versions == 0 .. 1
NoReason == "no reason"

(* ReindexingReason (models/__init__.py:83-97); nothing asks for reindexing *)
(* because of a migration.                                                  *)
Reasons == {"manual", "rollback", "config_modified", "schema_modified"}

(* ReindexingAction (models/__init__.py:100-110).                           *)
ReindexingActions == {"exception", "wipe", "ignore"}

ASSUME PoliciesAssumption == Policies \subseteq [Reasons -> ReindexingActions]

(* What a row of dipdup_schema and one of dipdup_index keep.                *)
Hashes == Versions \cup {NoHash}
SchemaRows == [hash : Hashes, reindex : Reasons \cup {NoReason}]
IndexRows == [hash : Hashes, level : Nat]

ASSUME NamesAssumption ==
  /\ Models \notin Indexes /\ HasuraPart \notin Indexes
  /\ NoHash \notin Versions /\ NoRow \notin SchemaRows \cup IndexRows

VARIABLES
  database,     \* "postgres", "postgres with migrations" or "sqlite"
  policy,       \* advanced.reindex
  version,      \* the version of every part
  chain,        \* the branch of the chain the stored head is looked up on
  db            \* what is committed to the database

databaseVars == <<database, policy, version, chain, db>>

(* A database nobody has used: no tables at all.  `immune` stands for the   *)
(* immune tables and those that are always immune (cli.py:52,               *)
(* context.py:234), `hasura` for the row of dipdup_schema that Hasura's     *)
(* hash is kept in, `prepared` for what on_reindex has done, `migrated` for *)
(* aerich's table, `contract` for the row of a contract found at run time.  *)
Empty ==
  [tables |-> NoHash, schema |-> NoRow, index |-> [i \in Indexes |-> NoRow],
   head |-> NoHash, hasura |-> NoHash, prepared |-> FALSE, immune |-> FALSE,
   migrated |-> NoHash, contract |-> FALSE]

DatabaseInit ==
  /\ database \in Databases
  /\ policy \in Policies
  /\ version = [p \in Parts |-> 0]
  /\ chain = 0
  /\ db = Empty

-----------------------------------------------------------------------------
(* Wiping.                                                                  *)

(* wipe_schema with the immune tables kept (_pg_wipe_schema, dipdup_wipe):  *)
(* they are moved to another schema and back in the transaction that drops  *)
(* everything else.                                                         *)
Wiped == [Empty EXCEPT !.immune = db.immune]

(* wipe_schema as reindex() calls it.  For SQLite the path it is given is   *)
(* schema_name, which is always `public`: the immune tables are copied to   *)
(* `public.immune`, and what should put that file in place of the database  *)
(* is registered with atexit, which the os.execl of restart() leaves out.   *)
(* The next time the copy fails: the tables are there already.              *)
(* Always immune is aerich's table.                                         *)
WipedByReindex ==
  IF database = "sqlite" THEN db ELSE [Wiped EXCEPT !.migrated = db.migrated]

-----------------------------------------------------------------------------
(* DipDupContext.reindex.                                                   *)

Action(reason) == policy[reason]

(* `ignore` resets the checksums that the reason is about.                  *)
Ignored(reason) ==
  CASE reason = "schema_modified" /\ db.schema # NoRow ->
         [db EXCEPT !.schema.hash = NoHash]
    [] reason = "config_modified" ->
         [db EXCEPT !.index = [i \in Indexes |->
            IF db.index[i] = NoRow THEN NoRow
                                   ELSE [db.index[i] EXCEPT !.hash = NoHash]]]
    [] reason = "rollback" -> [db EXCEPT !.head = NoHash]
    [] OTHER -> db

(* Mutant of Flagged: the reason is not saved.                              *)
FlaggedInMemory(reason) == db

(* `exception` keeps the first reason it was raised for.                    *)
Flagged(reason) ==
  IF db.schema.reindex = NoReason THEN [db EXCEPT !.schema.reindex = reason] ELSE db

-----------------------------------------------------------------------------
(* Commands, of which none needs the indexer to be up.                      *)

(* Mutant of Approved: the flag stays.                                      *)
ApprovedHashes(d) ==
  [d EXCEPT !.schema.hash = NoHash,
            !.index = [i \in Indexes |->
              IF d.index[i] = NoRow THEN NoRow
                                    ELSE [d.index[i] EXCEPT !.hash = NoHash]]]

(* `schema approve` (cli.py:634-670).                                       *)
Approved(d) ==
  [d EXCEPT !.schema = [hash |-> NoHash, reindex |-> NoReason],
            !.index = [i \in Indexes |->
              IF d.index[i] = NoRow THEN NoRow
                                    ELSE [d.index[i] EXCEPT !.hash = NoHash]]]

(* `schema wipe`, with --immune or without (cli.py:678-745).  Immune tables *)
(* of SQLite need `unsafe_sqlite`, which is not set here: the file that is  *)
(* swapped in at exit is empty.                                             *)
WipedByCommand(withImmune) ==
  IF withImmune \/ database = "sqlite" THEN Empty ELSE Wiped
=============================================================================
