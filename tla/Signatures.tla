----------------------------- MODULE Signatures -----------------------------
(***************************************************************************)
(* The signature of a handler: its arguments and their classes, with the   *)
(* types of the package that these are made of, as the config of an index  *)
(* has them and `init` writes them into the stub of the handler; the types *)
(* that `init` makes; and the classes of what the matcher passes.          *)
(***************************************************************************)
EXTENDS OperationFilters, ItemMatchers

Class(name, types) == [name |-> name, types |-> types]
Parameter(name, class, optional) == [name |-> name, class |-> class, optional |-> optional]

-----------------------------------------------------------------------------
(* The arguments of an index of operations, one for each item of a pattern. *)

(* Types have the name of the contract, one for each way to refer to it.    *)
StorageType(contract) == <<"tezos_storage", contract>>
ParameterType(contract, entrypoint) == <<"tezos_parameters", contract, entrypoint>>

(* typed_contract: without an entrypoint there is no type of the parameter. *)
TypedContract(i) ==
  IF i.type = "transaction" /\ i.entrypoint = None THEN Anything ELSE i.destination

(* iter_arguments: without an alias, an argument is called after the        *)
(* entrypoint, the contract, or the type of operation and its place.        *)
ArgumentName(i, otherwise) == IF i.alias = None THEN otherwise ELSE <<i.alias>>
Untyped(i, k, class) == Parameter(ArgumentName(i, <<i.type, k>>), Class(class, <<>>), i.optional)

TransactionArgument(i, k) ==
  LET contract == TypedContract(i) IN
  IF contract = Anything THEN Untyped(i, k, "TezosOperationData")
  ELSE Parameter(ArgumentName(i, <<i.entrypoint>>),
                 Class("TezosTransaction",
                       <<ParameterType(contract, i.entrypoint), StorageType(contract)>>),
                 i.optional)
OriginationArgument(i, k) ==
  LET contract == TypedContract(i) IN
  IF contract = Anything THEN Untyped(i, k, "TezosOperationData")
  ELSE Parameter(ArgumentName(i, <<"origination_of", contract>>),
                 Class("TezosOrigination", <<StorageType(contract)>>), i.optional)
ExecuteArgument(i, k) == Untyped(i, k, "TezosSmartRollupExecute")
CementArgument(i, k) == Untyped(i, k, "TezosSmartRollupCement")

PatternArgument(i, k) ==
  CASE i.type = "transaction" -> TransactionArgument(i, k)
    [] i.type = "origination" -> OriginationArgument(i, k)
    [] i.type = "sr_execute" -> ExecuteArgument(i, k)
    [] i.type = "sr_cement" -> CementArgument(i, k)

PatternArguments(pattern) == [k \in DOMAIN pattern |-> PatternArgument(pattern[k], k)]

(* `init` refuses a pattern with two arguments of one name.                 *)
PatternAmbiguous(pattern) ==
  \E m, n \in DOMAIN pattern :
    m # n /\ PatternArguments(pattern)[m].name = PatternArguments(pattern)[n].name

UnfilteredArguments == <<Parameter(<<"operation">>, Class("TezosOperationData", <<>>), FALSE)>>

-----------------------------------------------------------------------------
(* The argument of the other kinds.                                         *)

(* A contract without an address has a name nevertheless, that of its ABI.  *)
ModuleName(h) == IF "contract" \in DOMAIN h THEN h.contract ELSE None

EvmEventClass(h) == Class("EvmEvent", << <<"evm_events", ModuleName(h), h.name>> >>)

(* typed_contract: by method or signature of a receiver.                    *)
EvmTransactionClass(h) ==
  IF TypedMethod(h) THEN Class("EvmTransaction", << <<"evm_transactions", h.to, h.name>> >>)
                    ELSE Class("EvmTransactionData", <<>>)
StarknetEventClass(h) == Class("StarknetEvent", << <<"starknet_events", ModuleName(h), h.name>> >>)
SubstrateEventClass(h) == Class("SubstrateEvent", << <<"substrate_events", h.name>> >>)
TezosEventClass(h) ==
  IF "name" \in DOMAIN h THEN Class("TezosEvent", << <<"tezos_events", h.contract, h.name>> >>)
                         ELSE Class("TezosUnknownEvent", <<>>)
BigMapTypes(h) ==
  << <<"tezos_big_maps", h.contract, h.name, "key">>,
     <<"tezos_big_maps", h.contract, h.name, "value">> >>

(* The stub calls it by a name that it does not import.                     *)
BigMapClass(h, asGenerated) ==
  Class(IF asGenerated THEN "BigMapDiff" ELSE "TezosBigMapDiff", BigMapTypes(h))
TokenTransferClass == Class("TezosTokenTransferData", <<>>)
TokenBalanceClass == Class("TezosTokenBalanceData", <<>>)

ItemClass(kind, h, asGenerated) ==
  CASE kind = "evm.events" -> EvmEventClass(h)
    [] kind = "evm.transactions" -> EvmTransactionClass(h)
    [] kind = "starknet.events" -> StarknetEventClass(h)
    [] kind = "substrate.events" -> SubstrateEventClass(h)
    [] kind = "tezos.events" -> TezosEventClass(h)
    [] kind = "tezos.big_maps" -> BigMapClass(h, asGenerated)
    [] kind = "tezos.token_transfers" -> TokenTransferClass
    [] kind = "tezos.token_balances" -> TokenBalanceClass

(* The signature of a handler, as `init` wrote it or edited since.          *)
Signature(config, h, asGenerated) ==
  CASE config.kind = "operations" -> PatternArguments(config.handlers[h])
    [] config.kind = "unfiltered" -> UnfilteredArguments
    [] OTHER ->
         <<Parameter(<<"item">>, ItemClass(config.kind, config.handlers[h], asGenerated), FALSE)>>

-----------------------------------------------------------------------------
(* The types that `init` makes: one for each schema it finds.               *)

(* _fetch_operation_pattern_schema: a rollup has a storage as well.         *)
OperationSchemas(i) ==
  LET contract == TypedContract(i) IN
  IF contract = Anything THEN {}
  ELSE {StorageType(contract)} \cup
       IF i.type = "transaction" THEN {ParameterType(contract, i.entrypoint)} ELSE {}
BigMapSchemas(h) == Range(BigMapTypes(h))
TezosEventSchemas(h) == IF "name" \in DOMAIN h THEN Range(TezosEventClass(h).types) ELSE {}

(* By the names of all handlers, from the ABI of each contract.             *)
EvmEventSchemas(config) ==
  {<<"evm_events", module, name>> :
     module \in {ModuleName(h) : h \in Handlers(config)}, name \in Fixed(config, "name")}
EvmTransactionSchemas(config) ==
  LET typed == {h \in Handlers(config) : TypedMethod(h)}
  IN {<<"evm_transactions", module, name>> :
        module \in {h.to : h \in typed}, name \in {h.name : h \in typed}}
StarknetSchemas(config) ==
  {<<"starknet_events", module, name>> :
     module \in {ModuleName(h) : h \in Handlers(config)}, name \in Fixed(config, "name")}
SubstrateSchemas(config) == {<<"substrate_events", name>> : name \in Fixed(config, "name")}

GeneratedTypes(config) ==
  CASE config.kind = "operations" ->
         UNION {UNION {OperationSchemas(i) : i \in Range(pattern)} : pattern \in Handlers(config)}
    [] config.kind = "tezos.big_maps" -> UNION {BigMapSchemas(h) : h \in Handlers(config)}
    [] config.kind = "tezos.events" -> UNION {TezosEventSchemas(h) : h \in Handlers(config)}
    [] config.kind = "evm.events" -> EvmEventSchemas(config)
    [] config.kind = "evm.transactions" -> EvmTransactionSchemas(config)
    [] config.kind = "starknet.events" -> StarknetSchemas(config)
    [] config.kind = "substrate.events" -> SubstrateSchemas(config)
    [] OTHER -> {}

-----------------------------------------------------------------------------
(* What the matcher passes.                                                 *)

Nothing == Class("None", <<>>)

(* prepare_operation_handler_args: an item of a pattern that gives its      *)
(* contract, and an entrypoint for a transaction, is typed.                 *)
Typed(i) ==
  \/ i.type = "transaction" /\ i.entrypoint # None /\ i.destination # Anything
  \/ i.type = "origination" /\ i.destination # Anything

(* The wrapper of an operation that matched an item.                        *)
Wrapper(i) ==
  CASE i.type = "transaction" /\ Typed(i) ->
         Class("TezosTransaction",
               <<ParameterType(i.destination, i.entrypoint), StorageType(i.destination)>>)
    [] i.type = "origination" /\ Typed(i) ->
         Class("TezosOrigination", <<StorageType(i.destination)>>)
    [] i.type = "sr_execute" -> Class("TezosSmartRollupExecute", <<>>)
    [] i.type = "sr_cement" -> Class("TezosSmartRollupCement", <<>>)
    [] OTHER -> Class("TezosOperationData", <<>>)

(* Of the arguments of a call to handler h: positions, or 0 where an        *)
(* optional item was passed over; there can be more items than arguments.   *)
(* The matchers of the other kinds wrap an item as the config says.         *)
PassedClasses(config, h, args) ==
  CASE config.kind = "operations" ->
         [k \in DOMAIN args |-> IF args[k] = 0 THEN Nothing ELSE Wrapper(config.handlers[h][k])]
    [] config.kind = "unfiltered" -> <<Class("TezosOperationData", <<>>)>>
    [] OTHER -> <<ItemClass(config.kind, config.handlers[h], FALSE)>>

(* A call goes through: there is an argument of its class for every         *)
(* parameter; for an optional one None, or no argument where the parameter  *)
(* was given a default, which `init` does not.                              *)
Accepted(signature, passed, asGenerated) ==
  /\ Len(passed) <= Len(signature)
  /\ \A k \in DOMAIN signature :
       IF k \in DOMAIN passed
         THEN passed[k] = signature[k].class \/ (passed[k] = Nothing /\ signature[k].optional)
         ELSE signature[k].optional /\ ~asGenerated

(* The types that a call needs: the stub imports them, the matcher parses   *)
(* with them.                                                               *)
TypesOf(signature, passed) ==
  UNION {Range(signature[k].class.types) : k \in DOMAIN signature}
    \cup UNION {Range(passed[k].types) : k \in DOMAIN passed}
=============================================================================
