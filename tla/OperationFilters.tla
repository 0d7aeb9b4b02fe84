-------------------------- MODULE OperationFilters --------------------------
(***************************************************************************)
(* Which operations of the Tezos chain reach an index of operations: the   *)
(* filters of the historical fetchers, the SignalR subscriptions, and the  *)
(* filter applied to every batch before matching.  An item of a pattern is *)
(* [type, source, destination, entrypoint, optional, alias], its           *)
(* destination the originated contract of an origination; a contract is    *)
(* referred to by address, code hash or both, and None stands for a field  *)
(* left out.                                                               *)
(***************************************************************************)
EXTENDS Integers, Sequences, SequencesExt, FiniteSets

CONSTANTS
  None,       \* no address, no code hash, no entrypoint
  Rollups,    \* addresses that start with sr1
  CodeHash    \* [address -> code hash or None]

Anything == [address |-> None, hash |-> None]   \* the item sets no such filter

(* The items of a config's handlers that are of a type.                     *)
Items(config, type) ==
  {item \in UNION {Range(config.handlers[h]) : h \in DOMAIN config.handlers} :
     item.type = type}

(* from_json, whose operations the filters and the matcher see: TzKT leaves *)
(* the default entrypoint of a contract out.                                *)
OperationData(op) ==
  [op EXCEPT !.entrypoint =
     IF /\ op.type = "transaction" /\ @ = None
        /\ op.target \in DOMAIN CodeHash /\ CodeHash[op.target] # None
       THEN "default" ELSE @]

Addresses(refs) == {r.address : r \in refs} \ {None}
Hashes(refs) == {r.hash : r \in refs} \ {None}
Sources(items) == {item.source : item \in items}
Destinations(items) == {item.destination : item \in items}

Parties(op) == {op.sender, op.target}
PartyHashes(op) == {CodeHash[a] : a \in Parties(op)}

-----------------------------------------------------------------------------
(* History.                                                                 *)

(* TzKT's endpoints answer with the operations of their type where a field  *)
(* is one of the addresses or of the hashes, or with all of them without.   *)
Answers(addresses, hashes, address) ==
  \/ addresses = {} /\ hashes = {}
  \/ address \in addresses
  \/ CodeHash[address] \in hashes \ {None}

get_transactions(field, addresses, hashes, op) ==
  op.type = "transaction" /\ Answers(addresses, hashes, op[field])
get_originations(addresses, hashes, op) ==
  op.type = "origination" /\ Answers(addresses, hashes, op.target)
get_sr_execute(field, addresses, op) ==
  op.type = "sr_execute" /\ Answers(addresses, {}, op[field])
get_migration_originations(op) == op.type = "migration"

(* The contracts an address ever originated, a page after another.          *)
get_originated_contracts(addresses, op) ==
  IF op.type = "origination" /\ op.sender \in addresses THEN {op.target}
                                                        ELSE {}

(* Mutant of TransactionFilters: explicit contracts are added to the ones   *)
(* of the handlers only by address.                                         *)
TransactionFiltersByAddress(config) ==
  LET items == Items(config, "transaction") IN
  IF config.contracts # {} THEN config.contracts \ {r \in config.contracts : r.address = None}
                           ELSE Sources(items) \cup Destinations(items)

(* get_transaction_filters: explicit contracts, else those the handlers     *)
(* name.  An explicit contract with an address is not looked up by hash.    *)
TransactionFilters(config) ==
  LET items == Items(config, "transaction") IN
  IF config.contracts # {}
    THEN {IF r.address = None THEN r ELSE [r EXCEPT !.hash = None] : r \in config.contracts}
    ELSE Sources(items) \cup Destinations(items)

(* get_origination_filters: by originated contract, and for a source by all *)
(* the contracts it ever originated.                                        *)
OriginationAddresses(config, op) ==
  LET items == Items(config, "origination")
  IN Addresses(Destinations(items))
       \cup get_originated_contracts(Addresses(Sources(items)), op)
OriginationHashes(config) == Hashes(Destinations(Items(config, "origination")))

(* get_sr_execute_filters: rollups among the contracts, the sources and the *)
(* destinations.                                                            *)
RollupFilters(config) ==
  LET items == Items(config, "sr_execute")
  IN Rollups \cap Addresses(config.contracts \cup Sources(items) \cup Destinations(items))

(* The channels of OperationsFetcher.  One without a filter is done before  *)
(* it asks: the endpoint would answer with everything.                      *)
TransactionAddressChannel(config, field, op) ==
  LET filter == Addresses(TransactionFilters(config))
  IN filter # {} /\ get_transactions(field, filter, {}, op)
TransactionHashChannel(config, field, op) ==
  LET filter == Hashes(TransactionFilters(config))
  IN filter # {} /\ get_transactions(field, {}, filter, op)
OriginationAddressChannel(config, op) ==
  LET filter == OriginationAddresses(config, op)
  IN filter # {} /\ get_originations(filter, {}, op)
OriginationHashChannel(config, op) ==
  LET filter == OriginationHashes(config)
  IN filter # {} /\ get_originations({}, filter, op)
RollupChannel(config, field, op) ==
  LET filter == RollupFilters(config)
  IN filter # {} /\ get_sr_execute(field, filter, op)
MigrationChannel(op) == get_migration_originations(op)

(* The channel of OperationsUnfilteredFetcher for one of its types.         *)
UnfilteredChannel(type, op) ==
  CASE type = "transaction" -> get_transactions("target", {}, {}, op)
    [] type = "origination" -> get_originations({}, {}, op)
    [] type = "sr_execute" -> get_sr_execute("target", {}, op)

(* OperationsFetcher.create: no filters for a type the index has not.       *)
FilteredFetched(config, op) ==
  /\ op.type \in config.types
  /\ \/ \E field \in {"sender", "target"} :
          \/ TransactionAddressChannel(config, field, op)
          \/ TransactionHashChannel(config, field, op)
          \/ RollupChannel(config, field, op)
     \/ OriginationAddressChannel(config, op)
     \/ OriginationHashChannel(config, op)

(* OperationsUnfilteredFetcher: a channel for each type it knows.           *)
UnfilteredFetched(config, op) ==
  \/ \E type \in config.types \cap {"transaction", "origination"} :
       UnfilteredChannel(type, op)
  \/ "migration" \in config.types /\ MigrationChannel(op)

(* Neither has a channel for sr_cement, nor the latter for sr_execute.      *)
Fetched(config, op) ==
  IF config.kind = "unfiltered" THEN UnfilteredFetched(config, op)
                                ELSE FilteredFetched(config, op)

-----------------------------------------------------------------------------
(* Realtime.                                                                *)

(* get_subscriptions: everything of a type when subscriptions are merged,   *)
(* else what concerns each explicit contract, which for a contract known by *)
(* hash is everything; all originations; rollups by address only.  An index *)
(* of unfiltered operations subscribes to transactions, whatever its types. *)
Subscriptions(config) ==
  LET PerContract(type) ==
        IF config.merge THEN {None}
        ELSE IF type = "transaction" THEN {r.address : r \in config.contracts}
        ELSE IF type = "origination" THEN {None}
        ELSE Addresses(config.contracts) \cap Rollups
  IN IF config.kind = "unfiltered"
       THEN {[type |-> "transaction", address |-> None]}
       ELSE UNION {{[type |-> t, address |-> a] : a \in PerContract(t)} : t \in config.types}

(* TzKT sends what at least one subscription asks for.                      *)
Sent(subscriptions, op) ==
  \E s \in subscriptions :
    s.type = op.type /\ (s.address = None \/ s.address \in Parties(op))

-----------------------------------------------------------------------------
(* The filter before matching.                                              *)

(* entrypoint_filter: an item without entrypoint stands for the default.    *)
Entrypoints(config) ==
  {IF item.entrypoint = None THEN "default" ELSE item.entrypoint :
     item \in Items(config, "transaction")}

(* address_filter and code_hash_filter: any field, the source only of a     *)
(* transaction, hashes of transactions and originations.                    *)
Contracts(config) ==
  LET OfType(t) == Items(config, t)
  IN Sources(OfType("transaction"))
       \cup Destinations(OfType("transaction") \cup OfType("origination"))
       \cup {[r EXCEPT !.hash = None] :
               r \in Destinations(OfType("sr_execute") \cup OfType("sr_cement"))}

(* Mutant of Kept: an operation is dropped for a wrong address or for a     *)
(* wrong hash, rather than for both.                                        *)
KeptByBoth(configs, op) ==
  LET entrypoints == UNION {Entrypoints(c) : c \in configs}
      refs == UNION {Contracts(c) : c \in configs}
  IN op.type = "transaction" =>
       /\ entrypoints = {}
            \/ (IF op.entrypoint = None THEN "default" ELSE op.entrypoint) \in entrypoints
       /\ Addresses(refs) = {} \/ Parties(op) \cap Addresses(refs) # {}
       /\ Hashes(refs) = {} \/ PartyHashes(op) \cap Hashes(refs) # {}

(* extract_operation_subgroups under the filters of one index, or of all    *)
(* indexes that _apply_filters merged.  Only transactions are filtered; an  *)
(* empty filter passes everything, and then so does the other one.          *)
Kept(configs, op) ==
  LET entrypoints == UNION {Entrypoints(c) : c \in configs}
      refs == UNION {Contracts(c) : c \in configs}
  IN op.type = "transaction" =>
       /\ entrypoints = {}
            \/ (IF op.entrypoint = None THEN "default" ELSE op.entrypoint) \in entrypoints
       /\ \/ Addresses(refs) = {} \/ Parties(op) \cap Addresses(refs) # {}
          \/ Hashes(refs) = {} \/ PartyHashes(op) \cap Hashes(refs) # {}

(* What an index sees of a sequence of operations, as positions in it.      *)
InHistory(config, ops) ==
  SelectSeq([i \in DOMAIN ops |-> i],
            LAMBDA i : Fetched(config, ops[i]) /\ Kept({config}, ops[i]))
InRealtime(config, configs, ops) ==
  LET subscriptions == UNION {Subscriptions(c) : c \in configs}
  IN SelectSeq([i \in DOMAIN ops |-> i],
               LAMBDA i : Sent(subscriptions, ops[i]) /\ Kept(configs, ops[i]))
=============================================================================
