---------------------------- MODULE IndexMatcher ----------------------------
(***************************************************************************)
(* The data of one level on its way to the handlers of an index: once as   *)
(* history, fetched and filtered, and once as the realtime message that    *)
(* would have carried it, sent to the subscriptions and filtered for all   *)
(* the indexes of the datasource; and both times through the matcher.  For *)
(* an index of operations the data is a subgroup, a contract call with its *)
(* internal calls, and the matcher is match_operation_subgroup, step by    *)
(* step; for the other kinds of index it is a sequence of items, matched   *)
(* in one step.                                                            *)
(***************************************************************************)
EXTENDS Signatures

CONSTANTS
  Configs,     \* configurations of the index
  Neighbours,  \* those among them of a second index of its datasource
  Operations,  \* operations a subgroup is made of
  Emitted,     \* [kind -> items a level is made of]
  Hazards,     \* circumstances that are otherwise ruled out
  MaxSubgroup, \* bound: operations of a subgroup
  MaxCalls     \* bound: calls made for it, which only "only_optional" reaches

Circumstances ==
  {"guessed", "beyond", "any_entrypoint", "any_contract", "cemented", "untracked_type",
   "optional_first", "only_optional", "surplus", "mixed_kinds", "alt",
   "untracked", "uneven", "balances", "twins", "reordered", "failed", "tenth",
   "empty_query", "empty_payload", "aliased", "interleaved", "undecodable",
   "overloaded", "tuples", "indexed_elsewhere", "keys_last", "no_args", "options",
   "structures", "long_bytes", "versions", "receipts",
   "as_generated", "signatures", "removed"}

ASSUME MatcherAssumption ==
  /\ Hazards \subseteq Circumstances /\ Neighbours \subseteq Configs
  /\ MaxSubgroup \in Nat \ {0} /\ MaxCalls \in Nat \ {0}

VARIABLES
  config,    \* configuration of the index
  indexes,   \* those of all indexes of its datasource
  subgroup,  \* the operations or items as they are on chain
  pipeline,  \* "history", then "realtime", then "over"
  phase,     \* "waiting" for the subgroup, "matching", "failed" by an exception
  seen,      \* [pipeline -> positions in subgroup the matcher is given]
  calls,     \* [pipeline -> matched_handlers: a handler, and positions or 0]
  handler,   \* handler_config of the outer loop
  operation, \* subgroup_index, counted from 1
  item,      \* pattern_index, counted from 1
  matched    \* matched_operations

chainVars == <<config, indexes, subgroup>>
loopVars == <<handler, operation, item, matched>>
vars == <<chainVars, pipeline, phase, seen, calls, loopVars>>

Pipelines == {"history", "realtime"}
OperationKinds == {"operations", "unfiltered"}
SameData(c, o) == c.kind = o.kind \/ {c.kind, o.kind} \subseteq OperationKinds

(* Where the items of a pipeline come from.                                 *)
Source(p) ==
  IF p = "realtime" /\ config.kind \in {"evm.events", "evm.transactions", "substrate.events"}
    THEN "node" ELSE config.source

Data(c) == IF c.kind \in OperationKinds THEN Operations ELSE Emitted[c.kind]

-----------------------------------------------------------------------------
(* Matching a single item.                                                  *)

(* A contract, where the item names one: by address, by hash, or by both.   *)
Refers(ref, address) ==
  /\ ref.address \in {address, None}
  /\ ref.hash \in {CodeHash[address], None}

(* match_transaction, match_origination, match_sr_execute and               *)
(* match_sr_cement, each for operations of its type only.                   *)
Matches(i, op) ==
  /\ i.type = op.type
  /\ i.entrypoint \in {OperationData(op).entrypoint, None}
  /\ Refers(i.destination, op.target)
  /\ Refers(i.source, op.sender)

(* The storage of a typed operation is deserialized, whatever handler it is *)
(* for, in place, as all the handlers will see it, those of other indexes   *)
(* included where they share the message.                                   *)
TypedFor(c, position) ==
  c.kind = "operations" /\ \E i \in UNION {Range(c.handlers[h]) : h \in DOMAIN c.handlers} :
                             Typed(i) /\ Matches(i, subgroup[position])
TypedIn(p, position) ==
  \E n \in DOMAIN calls[p] : \E k \in DOMAIN calls[p][n].args :
    calls[p][n].args[k] = position /\ Typed(config.handlers[calls[p][n].handler][k])
Deserialized(p, position) ==
  \/ config.kind = "operations" /\ TypedIn(p, position)
  \/ p = "realtime" /\ \E c \in indexes \ {config} : TypedFor(c, position)

(* The storage that an operation given to a handler shows.                  *)
StorageArgument(p, position) ==
  LET content == subgroup[position].content
  IN IF Deserialized(p, position) THEN Processed(content) ELSE Pointers(content)
StorageExpected(c, k) ==
  LET content == subgroup[c.args[k]].content
  IN IF config.kind = "operations" /\ Typed(config.handlers[c.handler][k])
       THEN StorageEmitted(content) ELSE Pointers(content)

-----------------------------------------------------------------------------
(* What is ruled out of a configuration unless a hazard lets it in.         *)

Refs(c) == UNION {{i.source, i.destination} : i \in UNION {Range(c.handlers[h]) : h \in DOMAIN c.handlers}}
             \ {Anything}
AllItems(c) == UNION {Range(c.handlers[h]) : h \in DOMAIN c.handlers}
Optional(c) == \E i \in AllItems(c) : i.optional

Excused(circumstance, ruledOut) == ruledOut => circumstance \in Hazards

(* The stubs of handlers were edited: optional arguments have a default, and*)
(* big maps the class that is imported.                                     *)
AsGenerated == "as_generated" \in Hazards

(* Of one index: contracts guessed from handlers, which no subscription is  *)
(* made for; contracts that do not cover the handlers; items that leave out *)
(* the entrypoint or the contracts; a type there is no fetcher for;         *)
(* optional items before required ones, or no others; operations that come  *)
(* in realtime only, between those of a pattern with optional items; and    *)
(* the alternative algorithm for such a pattern.                            *)
OrdinaryOperations(c) ==
  /\ Excused("guessed", c.kind = "operations" /\ c.contracts = {} /\ ~c.merge)
  /\ Excused("beyond", c.contracts # {} /\ ~(Refs(c) \subseteq c.contracts))
  /\ Excused("any_entrypoint", \E i \in Items(c, "transaction") : i.entrypoint = None)
  /\ Excused("any_contract", \E i \in AllItems(c) : i.source = Anything /\ i.destination = Anything)
  /\ Excused("cemented", "sr_cement" \in c.types)
  /\ Excused("optional_first", \E h \in DOMAIN c.handlers : \E i, j \in DOMAIN c.handlers[h] :
                                 i < j /\ c.handlers[h][i].optional /\ ~c.handlers[h][j].optional)
  /\ Excused("only_optional", \E h \in DOMAIN c.handlers : \A i \in DOMAIN c.handlers[h] :
                                c.handlers[h][i].optional)
  /\ Excused("surplus", Optional(c) /\ (c.merge \/ Hashes(Refs(c)) # {} \/ "origination" \in c.types))
  /\ Excused("alt", c.alt /\ Optional(c))

(* Of one index of items: handlers of EVM events at any address, which no   *)
(* subscription is made for; handlers that fix different fields, where each *)
(* field is fetched by on its own; token balances, which no callback is     *)
(* registered for; two handlers of the same big map, which skip_history     *)
(* then reads twice; handlers that leave the fetcher without a filter; and  *)
(* typed handlers of EVM transactions by signature.                         *)
OrdinaryItems(c) ==
  /\ Excused("untracked", c.kind = "evm.events" /\ ~FixedByAll(c, "contract"))
  /\ Excused("uneven", /\ c.kind \in {"tezos.events", "tezos.token_transfers", "tezos.token_balances"}
                       /\ \E f \in Fields : Fixed(c, f) # {} /\ ~FixedByAll(c, f))
  /\ Excused("balances", c.kind = "tezos.token_balances")
  /\ Excused("twins", c.source = "snapshot" /\ Cardinality(Handlers(c)) < Len(c.handlers))
  /\ Excused("empty_query", Unfetchable(c))
  /\ Excused("overloaded", c.kind = "evm.transactions" /\
       \E h \in Handlers(c) : "name" \in DOMAIN h /\ ~BySignature(h) /\ NotUnique(h.name))
  /\ Excused("signatures", c.kind = "evm.transactions" /\ \E h \in Handlers(c) : BySignature(h))
  /\ Excused("receipts", c.kind = "evm.transactions" /\
       FieldsRead \cap (ReceiptFields \cup {"y_parity", "access_list"}) # {})

(* What is refused, a pattern of two arguments of one name by `init` and two*)
(* typed handlers of EVM methods of one name by the config.                 *)
Valid(c) ==
  /\ c.kind = "operations" => \A h \in DOMAIN c.handlers : ~PatternAmbiguous(c.handlers[h])
  /\ c.kind = "evm.transactions" =>
       \A m, n \in DOMAIN c.handlers :
         m < n /\ TypedMethod(c.handlers[m]) /\ "name" \in DOMAIN c.handlers[n] =>
           c.handlers[m].name # c.handlers[n].name

Ordinary(c) ==
  Valid(c) /\ IF c.kind \in OperationKinds THEN OrdinaryOperations(c) ELSE OrdinaryItems(c)

(* An operation that one handler takes with typed storage, another as it is.*)
Aliased(c, others) ==
  \E op \in Operations, i \in AllItems(c), o \in {c} \cup others :
    /\ ~Typed(i) /\ Matches(i, op)
    /\ \E j \in AllItems(o) : Typed(j) /\ Matches(j, op)

(* Of the indexes of a datasource together: the same surplus, an index of   *)
(* unfiltered operations, which the filters of the others apply to, and     *)
(* handlers that share operations of which some deserialize the storage.    *)
Compatible(c, others) ==
  /\ Excused("surplus", c.kind = "operations" /\ others # {} /\ Optional(c))
  /\ Excused("mixed_kinds", \E o \in others : o.kind # c.kind)
  /\ Excused("aliased", c.kind = "operations" /\ Aliased(c, others))

(* Of an index that goes on to realtime: types of unfiltered operations     *)
(* there is no subscription for.                                            *)
OrdinaryRealtime(c) ==
  Excused("untracked_type", c.kind = "unfiltered" /\ c.types # {"transaction"})

(* Of operations: one that goes from one big map to another and back.       *)
Interleaved(content) ==
  \E k, m, n \in DOMAIN content.diffs :
    k < m /\ m < n /\ content.diffs[k].map = content.diffs[n].map
                   /\ content.diffs[k].map # content.diffs[m].map

OrdinarySubgroup(data) == Excused("interleaved", \E op \in Range(data) : Interleaved(op.content))

(* Of EVM items: inputs that the typeclasses have no place for or that were *)
(* hashed; events of a name that others have, or with as many indexed       *)
(* inputs as in the ABI, but other ones; tuples, which selectors are not    *)
(* computed with; failed transactions, which Subsquid leaves out and a node *)
(* does not tell.                                                           *)
OrdinaryEvent(i) ==
  /\ Excused("undecodable", EvmEventUnreadable(i))
  /\ Excused("overloaded", Len(Abi.events[i.name]) > 1)
  /\ Excused("indexed_elsewhere",
       EvmEventFits(i) /\ \E n \in DOMAIN i.content :
                            i.content[n].indexed # get_event_abi(i.name)[n].indexed)
OrdinaryTransaction(c, i) ==
  /\ Excused("undecodable", EvmTransactionUnreadable(i))
  /\ Excused("tuples", "tuple" \in Range(Types(i.content)))
  /\ Excused("failed", i.payload = "failed" /\ (c.source = "subsquid" \/ "status" \in FieldsRead))

(* Of Starknet items: members of the key after members of the data.  Of     *)
(* Substrate items: events without arguments; and from Subsquid, options    *)
(* anywhere in a list of arguments but absent at its end, values within the *)
(* fields of a kind that have to be decoded, bytes longer than 63, and a    *)
(* version with more digits than an older one it falls back to.             *)
OrdinaryMembers(i) ==
  Excused("keys_last", \E m, n \in DOMAIN i.content :
                         m < n /\ ~i.content[m].key /\ i.content[n].key)
OrdinaryArgs(c, i) ==
  LET args == i.content.args
  IN /\ Excused("no_args", args = <<>>)
     /\ c.source = "subsquid" =>
          /\ Excused("options", i.content.form = "list" /\ \E n \in DOMAIN args :
                        args[n].type = "option" /\ (n # Len(args) \/ args[n].value # Absent))
          /\ Excused("structures", \E n \in DOMAIN args : ~Regular(args[n]))
          /\ Excused("long_bytes", \E n \in DOMAIN args : Unparsable(args[n]))
          /\ Excused("versions", i.content.version \notin Metadata /\
               \E v, w \in KnownBefore(i.content.version) : Len(Decimals(v)) # Len(Decimals(w)))

(* Of the data: events of transactions on both sides of the tenth of a      *)
(* Starknet block, events without payload, what became of a big map other   *)
(* than added keys before skip_history reads it, and the above.             *)
OrdinaryData(c, data) ==
  /\ Excused("tenth", /\ c.kind = "starknet.events" /\ c.source = "node"
                      /\ 10 \in c.first + 1 .. c.first + Len(data) - 1)
  /\ Excused("empty_payload", c.kind = "tezos.events" /\ \E i \in Range(data) : i.payload = "empty")
  /\ Excused("removed", c.kind = "tezos.big_maps" /\ c.source = "snapshot"
                         /\ \E i \in Range(data) : i.content.action # "add_key")
  /\ c.kind = "operations" => OrdinarySubgroup(data)
  /\ c.kind = "evm.events" => \A i \in Range(data) : OrdinaryEvent(i)
  /\ c.kind = "evm.transactions" => \A i \in Range(data) : OrdinaryTransaction(c, i)
  /\ c.kind = "starknet.events" => \A i \in Range(data) : OrdinaryMembers(i)
  /\ c.kind = "substrate.events" => \A i \in Range(data) : OrdinaryArgs(c, i)

Init ==
  /\ config \in {c \in Configs : Ordinary(c)}
  /\ indexes \in {{config, o} : o \in {config} \cup {c \in Neighbours : Ordinary(c) /\ SameData(config, c)}}
  /\ Compatible(config, indexes \ {config})
  /\ subgroup \in UNION {[1 .. n -> Data(config)] : n \in 1 .. MaxSubgroup}
  /\ OrdinaryData(config, subgroup)
  /\ pipeline = "history" /\ phase = "waiting"
  /\ seen = [p \in Pipelines |-> <<>>] /\ calls = [p \in Pipelines |-> <<>>]
  /\ handler = 1 /\ operation = 1 /\ item = 1 /\ matched = <<>>

-----------------------------------------------------------------------------
(* The loop.                                                                *)

Pattern == config.handlers[handler]
Operation == seen[pipeline][operation]
Matching == phase = "matching" /\ config.kind = "operations" /\ handler \in DOMAIN config.handlers
InLoop == Matching /\ operation <= Len(seen[pipeline]) /\ Len(calls[pipeline]) < MaxCalls

Call(args) == calls' = [calls EXCEPT ![pipeline] = Append(@, [handler |-> handler, args |-> args])]

(* The item is dealt with; after the last one the handler is called.        *)
Advance(args) ==
  IF item = Len(Pattern)
    THEN Call(args) /\ matched' = <<>> /\ item' = 1
    ELSE matched' = args /\ item' = item + 1 /\ UNCHANGED calls

(* The operation matches: both go on.                                       *)
MatchItem ==
  /\ InLoop /\ Matches(Pattern[item], subgroup[Operation])
  /\ Advance(Append(matched, Operation))
  /\ operation' = operation + 1
  /\ UNCHANGED <<chainVars, pipeline, phase, seen, handler>>

(* An optional item the operation does not match is passed over.            *)
SkipItem ==
  /\ InLoop /\ ~Matches(Pattern[item], subgroup[Operation]) /\ Pattern[item].optional
  /\ Advance(Append(matched, 0))
  /\ UNCHANGED <<chainVars, pipeline, phase, seen, handler, operation>>

(* A required item waits for the next operation.                            *)
SkipOperation ==
  /\ InLoop /\ ~Matches(Pattern[item], subgroup[Operation]) /\ ~Pattern[item].optional
  /\ operation' = operation + 1
  /\ UNCHANGED <<chainVars, pipeline, phase, seen, calls, handler, item, matched>>

(* Mutant of EndHandler: one required item may be missing.                  *)
EndHandlerOneShort ==
  /\ Matching /\ operation > Len(seen[pipeline])
  /\ IF matched # <<>> /\ Len(matched) + 1 >= Cardinality({i \in DOMAIN Pattern : ~Pattern[i].optional})
       THEN Call(matched) ELSE UNCHANGED calls
  /\ handler' = handler + 1 /\ operation' = 1 /\ item' = 1 /\ matched' = <<>>
  /\ UNCHANGED <<chainVars, pipeline, phase, seen>>

(* The operations are used up: the handler is called once more if it has as *)
(* many of them as there are required items, which after a complete match   *)
(* and for a pattern with required items it has not.                        *)
EndHandler ==
  /\ Matching /\ operation > Len(seen[pipeline])
  /\ IF Len(matched) >= Cardinality({i \in DOMAIN Pattern : ~Pattern[i].optional})
       THEN Call(matched) ELSE UNCHANGED calls
  /\ handler' = handler + 1 /\ operation' = 1 /\ item' = 1 /\ matched' = <<>>
  /\ UNCHANGED <<chainVars, pipeline, phase, seen>>

(* match_operation_unfiltered_subgroup: a call for every operation of the   *)
(* types.                                                                   *)
MatchUnfiltered ==
  /\ phase = "matching" /\ config.kind = "unfiltered" /\ handler = 1
  /\ LET ofType == SelectSeq(seen[pipeline], LAMBDA i : subgroup[i].type \in config.types)
     IN calls' = [calls EXCEPT ![pipeline] =
                    [n \in DOMAIN ofType |-> [handler |-> 1, args |-> <<ofType[n]>>]]]
  /\ handler' = 2
  /\ UNCHANGED <<chainVars, pipeline, phase, seen, operation, item, matched>>

(* _match_level_data of the other kinds of index.                           *)
MatchLevel ==
  /\ phase = "matching" /\ config.kind \notin OperationKinds /\ handler = 1
  /\ IF Unmatchable(config, Source(pipeline), subgroup, seen[pipeline])
       THEN phase' = "failed" /\ UNCHANGED <<calls, handler>>
       ELSE /\ calls' = [calls EXCEPT ![pipeline] = ItemCalls(config, subgroup, seen[pipeline])]
            /\ handler' = Len(config.handlers) + 1 /\ UNCHANGED phase
  /\ UNCHANGED <<chainVars, pipeline, seen, operation, item, matched>>

(* All handlers have been tried.  The branch of alt_operation_matcher is    *)
(* taken for at most one call, so there is nothing for it to sort, but it   *)
(* raises when the last argument of that call is not an operation it knows. *)
Return ==
  /\ phase = "matching"
  /\ handler > IF config.kind = "unfiltered" THEN 1 ELSE Len(config.handlers)
  /\ LET args == calls[pipeline][1].args IN
     IF config.kind = "operations" /\ config.alt /\ Len(calls[pipeline]) = 1
          /\ (args[Len(args)] = 0 \/ subgroup[args[Len(args)]].type = "sr_cement")
       THEN phase' = "failed" /\ UNCHANGED <<pipeline, loopVars>>
       ELSE /\ phase' = "waiting"
            /\ pipeline' = IF pipeline = "history" THEN "realtime" ELSE "over"
            /\ handler' = 1 /\ UNCHANGED <<operation, item, matched>>
  /\ UNCHANGED <<chainVars, seen, calls>>

(* What may come in a pipeline, as positions.                               *)
Received ==
  IF config.kind \in OperationKinds
    THEN {IF pipeline = "history" THEN InHistory(config, subgroup)
                                  ELSE InRealtime(config, indexes, subgroup)}
  ELSE IF pipeline = "history" THEN {ItemsInHistory(config, subgroup)}
  ELSE LET positions == ItemsInRealtime(config, indexes, subgroup)
       IN IF "reordered" \in Hazards THEN Arrivals(config, subgroup, positions) ELSE {positions}

(* The data arrives: fetched by Index._synchronize, unless no fetcher can   *)
(* be created, or sent to the callback of the datasource and pushed to      *)
(* every index of the kind.  An empty batch goes nowhere.                   *)
Receive ==
  /\ phase = "waiting" /\ pipeline # "over"
  /\ pipeline = "realtime" => OrdinaryRealtime(config)
  /\ IF pipeline = "history" /\ config.kind \notin OperationKinds /\ Unfetchable(config)
       THEN phase' = "failed" /\ UNCHANGED <<pipeline, seen>>
       ELSE \E positions \in Received :
              /\ seen' = [seen EXCEPT ![pipeline] = positions]
              /\ IF positions = <<>>
                   THEN pipeline' = (IF pipeline = "history" THEN "realtime" ELSE "over")
                        /\ UNCHANGED phase
                   ELSE phase' = "matching" /\ UNCHANGED pipeline
  /\ UNCHANGED <<chainVars, calls, loopVars>>

Next == \/ Receive \/ MatchItem \/ SkipItem \/ SkipOperation
        \/ EndHandler \/ MatchUnfiltered \/ MatchLevel \/ Return

Spec == Init /\ [][Next]_vars

(* A loop in Python goes on.                                                *)
FairSpec == Spec /\ WF_vars(Next)
-----------------------------------------------------------------------------
(* Properties.                                                              *)

TypeOK ==
  /\ config \in Configs /\ indexes \subseteq Configs
  /\ subgroup \in BoundedSeq(Data(config), MaxSubgroup)
  /\ pipeline \in Pipelines \cup {"over"} /\ phase \in {"waiting", "matching", "failed"}
  /\ DOMAIN seen = Pipelines /\ DOMAIN calls = Pipelines
  /\ \A p \in Pipelines :
       /\ seen[p] \in BoundedSeq(DOMAIN subgroup, MaxSubgroup)
       /\ Len(calls[p]) <= MaxCalls
  /\ handler \in 1 .. Len(config.handlers) + 2
  /\ operation \in 1 .. MaxSubgroup + 1
  /\ config.kind = "operations" /\ handler \in DOMAIN config.handlers => item \in DOMAIN Pattern /\ Len(matched) = item - 1

CallsOf(p, h) == SelectSeq(calls[p], LAMBDA c : c.handler = h)
Over(p) == pipeline = "over" \/ (p = "history" /\ pipeline = "realtime")

(* An event has the inputs that the ABI has for its name.                   *)
OfAbi(i) ==
  \E n \in DOMAIN Abi.events[i.name] :
    LET abi == Abi.events[i.name][n]
    IN DOMAIN abi = DOMAIN i.content /\ \A k \in DOMAIN abi :
         abi[k].type = i.content[k].type /\ abi[k].indexed = i.content[k].indexed

(* A handler is for an item: it fixes nothing that the item does not have,  *)
(* and the type of its event is the item's; of several handlers it is for   *)
(* the first one alone, except for big maps and tokens.                     *)
MeantFor(h, i) ==
  /\ Agrees(h, i)
  /\ config.kind = "evm.events" => OfAbi(i)
  /\ BySignature(h) => Types(i.content) = Types(get_method_abi(h))
  /\ config.kind = "tezos.events" /\ "name" \in DOMAIN h => i.payload = "fits"
ForEvery == {"tezos.big_maps", "tezos.token_transfers", "tezos.token_balances"}
Expected(i) ==
  LET hs == {h \in DOMAIN config.handlers : MeantFor(config.handlers[h], subgroup[i])}
  IN IF config.kind \in ForEvery \/ hs = {} THEN hs ELSE {Min(hs)}

(* What the handler of a call is given, and what was emitted for it.        *)
Argument(p, c) ==
  IF config.kind \in OperationKinds
    THEN [k \in DOMAIN c.args |-> IF c.args[k] = 0 THEN <<>> ELSE StorageArgument(p, c.args[k])]
    ELSE ItemArgument(config, Source(p), config.handlers[c.handler], subgroup[c.args[1]])
Emission(c) ==
  IF config.kind \in OperationKinds
    THEN [k \in DOMAIN c.args |-> IF c.args[k] = 0 THEN <<>> ELSE StorageExpected(c, k)]
    ELSE ItemEmitted(config, config.handlers[c.handler], subgroup[c.args[1]])

(* Every call hands a handler operations that match the items of its        *)
(* pattern, in the order of the chain, none twice, a missing one only for   *)
(* an optional item; and its calls come one after another in the operations.*)
(* Of items, it hands each to a handler it is meant for, to one handler in  *)
(* the order of the chain, and where an item is for one handler only, to    *)
(* all of them in this order, but for the handlers of Tezos events, which   *)
(* take their events one handler after another.  And what a handler is      *)
(* given is what was emitted: the same payload, input, keys, values and     *)
(* storage, whatever source they were decoded from, in the classes that its *)
(* signature says, made of types that the package has.                      *)
CallsAreMatches ==
  \A p \in Pipelines, h \in DOMAIN config.handlers :
    LET pattern == config.handlers[h]
        mine == CallsOf(p, h)
        Found(args) == SelectSeq(args, LAMBDA i : i # 0)
        all == FlattenSeq([n \in DOMAIN mine |-> Found(mine[n].args)])
    IN /\ \A m, n \in DOMAIN all : m < n => all[m] < all[n]
       /\ \A n \in DOMAIN mine :
            LET signature == Signature(config, h, AsGenerated)
                passed == PassedClasses(config, h, mine[n].args)
            IN /\ Accepted(signature, passed, AsGenerated)
               /\ TypesOf(signature, passed) \subseteq GeneratedTypes(config)
       /\ IF config.kind = "operations"
            THEN \A n \in DOMAIN mine : LET args == mine[n].args IN
                   /\ Found(args) # <<>>
                   /\ \A i \in DOMAIN pattern :
                        IF i <= Len(args) /\ args[i] # 0 THEN Matches(pattern[i], subgroup[args[i]])
                                                         ELSE pattern[i].optional
            ELSE /\ \A n \in DOMAIN all : h \in Expected(all[n])
                 /\ config.kind \in ForEvery \cup {"tezos.events"} \/
                      \A m, n \in DOMAIN calls[p] :
                        m < n => calls[p][m].args[1] < calls[p][n].args[1]
       /\ Over(p) => \A n \in DOMAIN mine : Argument(p, mine[n]) = Emission(mine[n])

(* A pattern occurs in the operations: an order-preserving choice of an     *)
(* operation for every item.                                                *)
Occurs(pattern) ==
  \E choice \in [DOMAIN pattern -> DOMAIN subgroup] :
    /\ \A i, j \in DOMAIN pattern : i < j => choice[i] < choice[j]
    /\ \A i \in DOMAIN pattern : Matches(pattern[i], subgroup[choice[i]])
Repeated(pattern, k) == [i \in 1 .. k * Len(pattern) |-> pattern[((i - 1) % Len(pattern)) + 1]]
Required(pattern) == SelectSeq(pattern, LAMBDA i : ~i.optional)

(* No match on the chain is missed, by the filters or by the greedy loop:   *)
(* a handler is called as many times as its pattern can occur one after     *)
(* another in the operations as they are on chain, and at least once where  *)
(* the required items of a pattern with optional ones occur; an index of    *)
(* unfiltered operations is called for each of its types; the handlers an   *)
(* item is meant for are called with it once.  An exception is a match      *)
(* missed.                                                                  *)
EveryMatchCalls ==
  /\ phase # "failed"
  /\ \A p \in Pipelines : Over(p) =>
    IF config.kind \notin OperationKinds
      THEN \A i \in DOMAIN subgroup, h \in DOMAIN config.handlers :
             Cardinality({n \in DOMAIN calls[p] : calls[p][n] = [handler |-> h, args |-> <<i>>]})
               = IF h \in Expected(i) THEN 1 ELSE 0
    ELSE IF config.kind = "unfiltered"
      THEN Len(calls[p]) = Cardinality({i \in DOMAIN subgroup : subgroup[i].type \in config.types})
      ELSE \A h \in DOMAIN config.handlers :
             LET pattern == config.handlers[h]
                 n == Len(CallsOf(p, h))
             IN IF Required(pattern) = pattern
                  THEN \A k \in 1 .. MaxSubgroup \div Len(pattern) :
                         n >= k <=> Occurs(Repeated(pattern, k))
                  ELSE n >= 1 <=> Occurs(Required(pattern))

(* Whatever came between the operations of an index in either pipeline, its *)
(* handlers are called with the same operations in the same order, and given*)
(* the same data of them, so it is of no consequence when the index was     *)
(* synchronized.                                                            *)
HistoryMatchesRealtime ==
  pipeline = "over" =>
    /\ calls["history"] = calls["realtime"]
    /\ \A n \in DOMAIN calls["history"] :
         Argument("history", calls["history"][n]) = Argument("realtime", calls["history"][n])

(* Matching comes to an end, without an exception.                          *)
Terminates == <>(pipeline = "over")
=============================================================================
