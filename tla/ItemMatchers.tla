---------------------------- MODULE ItemMatchers ----------------------------
(***************************************************************************)
(* The indexes of everything but operations: events of EVM, Starknet and   *)
(* Tezos contracts and of Substrate pallets, EVM transactions, big maps,   *)
(* token transfers and token balances.  A level's data is a sequence of    *)
(* items, and a handler fixes some fields of an item:                      *)
(*   contract  that emitted, holds or issued it                            *)
(*   name      of the event, its tag, the path of the big map, the token   *)
(*             id, the method called                                       *)
(*   from, to  of the transfer or transaction                              *)
(* and for an EVM transaction `overload`, when the method is given by its   *)
(* signature: which of the methods of that name it is.  Without a receiver  *)
(* a method is always given so.                                             *)
(* The payload of a Tezos event fits what the handler's type says, or it   *)
(* does not, or it is empty; a transaction is applied or failed.  What     *)
(* else an item holds is its content (see Payloads).                       *)
(***************************************************************************)
EXTENDS Payloads

Fields == {"contract", "name", "from", "to"}
ItemKinds == {"evm.events", "evm.transactions", "starknet.events", "substrate.events",
              "tezos.big_maps", "tezos.events", "tezos.token_transfers", "tezos.token_balances"}

(* Every field a handler fixes is the item's.                               *)
Agrees(h, i) == \A f \in Fields \cap DOMAIN h : h[f] = i[f]

Handlers(config) == Range(config.handlers)
Fixed(config, field) == {h[field] : h \in {h \in Handlers(config) : field \in DOMAIN h}}
Among(config, field, i) == i[field] \in Fixed(config, field)
FixedByAll(config, field) == \A h \in Handlers(config) : field \in DOMAIN h
Asked(config, i) == \E h \in Handlers(config) : Agrees(h, i)

-----------------------------------------------------------------------------
(* History: the items the fetcher of a kind asks for.                       *)

(* By address and topic from Subsquid; from a node by address, or all if a  *)
(* handler has none.                                                        *)
EvmEventFetched(config, i) ==
  IF config.source = "subsquid" THEN Asked(config, i)
  ELSE (\E h \in Handlers(config) : "contract" \notin DOMAIN h) \/ Among(config, "contract", i)

(* By sender, receiver and method from Subsquid, where those that failed    *)
(* are left out; a node is asked for whole blocks.                          *)
EvmTransactionFetched(config, i) ==
  config.source = "subsquid" => Asked(config, i) /\ i.payload # "failed"

(* By the names of each address.                                            *)
StarknetEventFetched(config, i) == Asked(config, i)

(* By name from Subsquid; a node is asked for whole blocks.                 *)
SubstrateEventFetched(config, i) == config.source = "subsquid" => Among(config, "name", i)

(* TzKT's endpoints, asked for some values of some fields; an empty list of *)
(* values filters nothing out.                                              *)
Answer(values, value) == values = {} \/ value \in values
get_big_maps(addresses, paths, i) ==
  Answer(addresses, i.contract) /\ Answer(paths, i.name)
get_events(addresses, tags, i) ==
  Answer(addresses, i.contract) /\ Answer(tags, i.name)
get_token_transfers(token_addresses, token_ids, from_addresses, to_addresses, i) ==
  /\ Answer(token_addresses, i.contract) /\ Answer(token_ids, i.name)
  /\ Answer(from_addresses, i.from) /\ Answer(to_addresses, i.to)
get_token_balances(token_addresses, token_ids, i) ==
  Answer(token_addresses, i.contract) /\ Answer(token_ids, i.name)

(* By any of the addresses and any of the paths.                            *)
BigMapFetched(config, i) ==
  get_big_maps(Fixed(config, "contract"), Fixed(config, "name"), i)

(* By any of the addresses and any of the tags; the fallback handler has    *)
(* none.                                                                    *)
TezosEventFetched(config, i) ==
  get_events(Fixed(config, "contract"), Fixed(config, "name"), i)

(* By any value of each field that some handler fixes.                      *)
TokenTransferFetched(config, i) ==
  get_token_transfers(Fixed(config, "contract"), Fixed(config, "name"),
                      Fixed(config, "from"), Fixed(config, "to"), i)
TokenBalanceFetched(config, i) ==
  get_token_balances(Fixed(config, "contract"), Fixed(config, "name"), i)

ItemFetched(config, i) ==
  CASE config.kind = "evm.events" -> EvmEventFetched(config, i)
    [] config.kind = "evm.transactions" -> EvmTransactionFetched(config, i)
    [] config.kind = "starknet.events" -> StarknetEventFetched(config, i)
    [] config.kind = "substrate.events" -> SubstrateEventFetched(config, i)
    [] config.kind = "tezos.big_maps" -> BigMapFetched(config, i)
    [] config.kind = "tezos.events" -> TezosEventFetched(config, i)
    [] config.kind = "tezos.token_transfers" -> TokenTransferFetched(config, i)
    [] config.kind = "tezos.token_balances" -> TokenBalanceFetched(config, i)

(* A handler the fetcher cannot do without a filter for.                    *)
Unfetchable(config) ==
  \/ config.kind = "evm.transactions" /\ config.source = "subsquid"
       /\ \E h \in Handlers(config) : DOMAIN h = {}
  \/ config.kind = "starknet.events" /\ \E h \in Handlers(config) : "contract" \notin DOMAIN h

(* The events of a level that a Starknet node gave are sorted by a string   *)
(* of level and transaction index, which puts 10 before 8 and 9.            *)
InFetchedOrder(config, positions) ==
  IF config.kind = "starknet.events" /\ config.source = "node"
    THEN SortSeq(positions, LAMBDA i, j : StringBefore(config.first + i - 1, config.first + j - 1))
    ELSE positions

(* _synchronize_level: with skip_history, the keys of the big maps the      *)
(* handlers name, one pair of address and path after another.               *)
Snapshot(config, items, positions) ==
  FlattenSeq([n \in DOMAIN config.handlers |->
    SelectSeq(positions,
              LAMBDA i : Agrees(config.handlers[n], items[i]) /\ items[i].content.key # Absent)])

ItemsInHistory(config, items) ==
  LET positions == [i \in DOMAIN items |-> i]
  IN IF config.source = "snapshot" THEN Snapshot(config, items, positions)
     ELSE InFetchedOrder(config, SelectSeq(positions, LAMBDA i : ItemFetched(config, items[i])))

-----------------------------------------------------------------------------
(* Realtime: what the subscriptions of an index bring.                      *)

(* Logs of the addresses its handlers have.                                 *)
EvmEventSent(config, i) == Among(config, "contract", i)

(* The transactions of every new head; the events of every finalized one.   *)
EvmTransactionSent(config, i) == TRUE
SubstrateEventSent(config, i) == TRUE

(* All of them if subscriptions are merged, or what each handler asks for.  *)
BigMapSent(config, i) == config.merge \/ Asked(config, i)
TezosEventSent(config, i) == config.merge \/ Among(config, "contract", i)
TokenTransferSent(config, i) == config.merge \/ Asked(config, i)

(* The datasource emits balances to callbacks nobody registers.             *)
TokenBalanceSent(config, i) == FALSE

ItemSent(config, i) ==
  CASE config.kind = "evm.events" -> EvmEventSent(config, i)
    [] config.kind = "evm.transactions" -> EvmTransactionSent(config, i)
    [] config.kind = "substrate.events" -> SubstrateEventSent(config, i)
    [] config.kind = "tezos.big_maps" -> BigMapSent(config, i)
    [] config.kind = "tezos.events" -> TezosEventSent(config, i)
    [] config.kind = "tezos.token_transfers" -> TokenTransferSent(config, i)
    [] config.kind = "tezos.token_balances" -> TokenBalanceSent(config, i)

(* A Starknet node is polled for its head, so new levels are history too;   *)
(* everything else is pushed to all indexes of the kind.                    *)
ItemsInRealtime(config, configs, items) ==
  IF config.kind = "starknet.events" THEN ItemsInHistory(config, items)
  ELSE SelectSeq([i \in DOMAIN items |-> i],
                 LAMBDA i : \E c \in configs : c.kind = config.kind /\ ItemSent(c, items[i]))

(* Logs of different addresses come on different subscriptions.             *)
Arrivals(config, items, positions) ==
  IF config.kind # "evm.events" THEN {positions}
  ELSE {order \in SetToSeqs(Range(positions)) :
          \A m, n \in DOMAIN order :
            m < n /\ items[order[m]].contract = items[order[n]].contract => order[m] < order[n]}

-----------------------------------------------------------------------------
(* Matching.                                                                *)

ItemCall(h, i) == [handler |-> h, args |-> <<i>>]

(* Event by topic and number of topics; method of a receiver by selector,   *)
(* which is unknown where the ABI has two of that name.                     *)
EvmEventMatches(h, i) == Agrees(h, i) /\ EvmEventFits(i)
TypedMethod(h) == {"name", "to"} \subseteq DOMAIN h
EvmTransactionMatches(h, i) ==
  /\ Agrees(h, i)
  /\ TypedMethod(h) => sighash_from_abi(h.name, get_method_abi(h)) = Selector(i)
EvmTransactionUnknown(h, i) ==
  /\ TypedMethod(h) /\ NotUnique(h.name) /\ ~BySignature(h)
  /\ \A f \in (Fields \cap DOMAIN h) \ {"name"} : h[f] = i[f]
StarknetEventMatches(h, i) == Agrees(h, i)
SubstrateEventMatches(h, i) == Agrees(h, i)
BigMapMatches(h, i) == Agrees(h, i)
TezosEventMatches(h, i) == Agrees(h, i)
TokenTransferMatches(h, i) == Agrees(h, i)
TokenBalanceMatches(h, i) == Agrees(h, i)

(* A typed handler does not take an event that its type does not fit.       *)
TezosEventTaken(h, i) == TezosEventMatches(h, i) /\ ("name" \in DOMAIN h => i.payload = "fits")

ItemMatches(config, h, i) ==
  CASE config.kind = "evm.events" -> EvmEventMatches(h, i)
    [] config.kind = "evm.transactions" -> EvmTransactionMatches(h, i)
    [] config.kind = "starknet.events" -> StarknetEventMatches(h, i)
    [] config.kind = "substrate.events" -> SubstrateEventMatches(h, i)
    [] config.kind = "tezos.big_maps" -> BigMapMatches(h, i)
    [] config.kind = "tezos.events" -> TezosEventTaken(h, i)
    [] config.kind = "tezos.token_transfers" -> TokenTransferMatches(h, i)
    [] config.kind = "tezos.token_balances" -> TokenBalanceMatches(h, i)

MatchingHandlers(config, item) ==
  {h \in DOMAIN config.handlers : ItemMatches(config, config.handlers[h], item)}

(* Item by item, the first handler that matches.                            *)
FirstHandlers(config, items, seen) ==
  LET matched == SelectSeq(seen, LAMBDA i : MatchingHandlers(config, items[i]) # {})
  IN [n \in DOMAIN matched |-> ItemCall(Min(MatchingHandlers(config, items[matched[n]])), matched[n])]

(* Item by item, every handler that matches.                                *)
EveryHandler(config, items, seen) ==
  FlattenSeq([n \in DOMAIN seen |->
    LET hs == SetToSortSeq(MatchingHandlers(config, items[seen[n]]), <)
    IN [m \in DOMAIN hs |-> ItemCall(hs[m], seen[n])]])

(* Handler by handler, every item that matches.                             *)
EveryItem(config, items, seen) ==
  FlattenSeq([h \in DOMAIN config.handlers |->
    LET mine == SelectSeq(seen, LAMBDA i : h \in MatchingHandlers(config, items[i]))
    IN [n \in DOMAIN mine |-> ItemCall(h, mine[n])]])

(* Handler by handler, every item that matches and was not taken before.    *)
EveryItemLeft(config, items, seen) ==
  FlattenSeq([h \in DOMAIN config.handlers |->
    LET mine == SelectSeq(seen, LAMBDA i : LET hs == MatchingHandlers(config, items[i])
                                           IN hs # {} /\ Min(hs) = h)
    IN [n \in DOMAIN mine |-> ItemCall(h, mine[n])]])

(* _match_level_data of each kind of index.                                 *)
ItemCalls(config, items, seen) ==
  CASE config.kind \in {"evm.events", "evm.transactions", "starknet.events", "substrate.events"} ->
         FirstHandlers(config, items, seen)
    [] config.kind = "tezos.big_maps" -> EveryItem(config, items, seen)
    [] config.kind = "tezos.events" -> EveryItemLeft(config, items, seen)
    [] config.kind \in {"tezos.token_transfers", "tezos.token_balances"} ->
         EveryHandler(config, items, seen)

-----------------------------------------------------------------------------
(* Arguments: what is decoded for the handler of an item, from the source   *)
(* that brought it, and what was emitted.                                   *)

ItemArgument(config, source, h, i) ==
  CASE config.kind = "evm.events" -> decode_event_data(i)
    [] config.kind = "evm.transactions" ->
         [input |-> IF TypedMethod(h) THEN Values(i.content) ELSE <<>>,
          data |-> EvmTransactionData(source, i)]
    [] config.kind = "starknet.events" -> StarknetPayload(i)
    [] config.kind = "substrate.events" -> SubstratePayload(source, i)
    [] config.kind = "tezos.big_maps" -> BigMapDiff(source, i)
    [] config.kind = "tezos.events" -> TezosEventData(i)
    [] config.kind = "tezos.token_transfers" -> TokenData(i)
    [] config.kind = "tezos.token_balances" -> TokenBalanceData(i)

ItemEmitted(config, h, i) ==
  CASE config.kind \in {"evm.events", "starknet.events"} -> Values(i.content)
    [] config.kind = "evm.transactions" ->
         [input |-> IF TypedMethod(h) THEN Values(i.content) ELSE <<>>,
          data |-> EvmTransactionEmitted(i)]
    [] config.kind = "substrate.events" -> SubstrateEmitted(i)
    [] config.kind = "tezos.big_maps" -> BigMapEmitted(i)
    [] OTHER -> i.content

(* Decoding raises, of a typed EVM transaction by signature whatever it is; *)
(* the payload of a Substrate event is decoded as soon as the handler reads *)
(* it.                                                                      *)
ItemUnreadable(config, source, h, i) ==
  CASE config.kind = "evm.events" -> EvmEventUnreadable(i)
    [] config.kind = "evm.transactions" ->
         TypedMethod(h) /\ (BySignature(h) \/ EvmTransactionUnreadable(i))
    [] config.kind = "substrate.events" -> SubstrateUnreadable(source, i)
    [] OTHER -> FALSE

(* A typed handler of Tezos events raises when it is to take one without    *)
(* payload.                                                                 *)
EventTypedEmpty(config, i) ==
  LET mine == {h \in DOMAIN config.handlers : TezosEventMatches(config.handlers[h], i)}
      typed == {h \in mine : "name" \in DOMAIN config.handlers[h]}
  IN i.payload = "empty" /\ typed # {} /\ \A h \in mine \ typed : Min(typed) < h

(* Matching the items raises.                                               *)
Unmatchable(config, source, items, seen) ==
  \E n \in DOMAIN seen :
    LET i == items[seen[n]]
        mine == MatchingHandlers(config, i)
    IN \/ config.kind = "tezos.events" /\ EventTypedEmpty(config, i)
       \/ mine # {} /\ ItemUnreadable(config, source, config.handlers[Min(mine)], i)
       \/ /\ config.kind = "evm.transactions"
          /\ \E h \in DOMAIN config.handlers :
               EvmTransactionUnknown(config.handlers[h], i) /\ \A m \in mine : h <= m
=============================================================================
