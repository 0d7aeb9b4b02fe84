----------------------------- MODULE Inventory -----------------------------
(***************************************************************************)
(* What is added to a config at run time: a handler that sees a contract   *)
(* originated adds it, and an index of it from a template.  Both are in    *)
(* memory and, by the transaction of the handler's level, in the database, *)
(* from where the next start adds them again (context.py:246-367,          *)
(* dipdup.py:358-443).                                                     *)
(***************************************************************************)
EXTENDS Migrations

CONSTANTS
  Contract,       \* the contract
  Factory,        \* the index whose handler adds it
  FactoryLevel    \* the level it is originated on

Configured == Indexes \ Templated

ASSUME FactoryAssumption ==
  /\ Templated \subseteq Indexes /\ Contract \notin Indexes
  /\ Factory \in Configured /\ FactoryLevel \in Nat \ {0}

VARIABLES
  inventory,  \* what config.contracts and config.indexes have besides the file
  state       \* Index._state of every index: the row it was read as

inventoryVars == <<inventory, state>>

NewRow(i) == [hash |-> version[i], level |-> 0]

(* get_or_create of initialize_state.                                       *)
RowOf(i) == IF db.index[i] = NoRow THEN NewRow(i) ELSE db.index[i]

(* A template whose version is NoHash is no longer in the config.  The      *)
(* user's handler goes with it.                                             *)
InTemplates(i) == version[i] # NoHash

(* What the handler adds to: names that are there already are refused       *)
(* (ContractAlreadyExistsError, IndexAlreadyExistsError).                   *)
SpawnedBy(i) ==
  IF i = Factory /\ state[i].level + 1 = FactoryLevel
    THEN {Contract} \cup {j \in Templated : InTemplates(j)}
    ELSE {}

(* Mutant of fetch_contracts: contracts are not fetched.                    *)
fetch_no_contracts == {}

(* _fetch_contracts.                                                        *)
fetch_contracts == IF db.contract THEN {Contract} ELSE {}

(* The indexes that _load_index_state adds again.  Their values name the    *)
(* contract, so it has to be there.                                         *)
AddedBefore == {i \in Templated : db.index[i] # NoRow}
=============================================================================
