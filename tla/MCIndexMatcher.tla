--------------------------- MODULE MCIndexMatcher ---------------------------
(***************************************************************************)
(* Instances of IndexMatcher: a user, a smart rollup and three             *)
(* contracts, two of them with the same code; and two contracts that emit   *)
(* events, hold big maps and issue tokens.                                 *)
(***************************************************************************)
EXTENDS IndexMatcher

CONSTANTS user, A, B, C, rollup, h, g

CodeHashes == [a \in {user, A, B, C, rollup} |->
                 CASE a \in {A, B} -> h [] a = C -> g [] OTHER -> None]

Diff(map, action, key, value) == [map |-> map, action |-> action, key |-> key, value |-> value]
Storage(maps, diffs) == [maps |-> maps, diffs |-> diffs]
NoStorage == Storage(<<>>, <<>>)

Op(type, sender, target, entrypoint, content) ==
  [type |-> type, sender |-> sender, target |-> target, entrypoint |-> entrypoint,
   content |-> content]

Chain == {
  Op("transaction", user, A, "mint",
     Storage(<<1, 2>>, <<Diff(1, "add_key", "k", 1), Diff(1, "update_key", "k", 2),
                         Diff(2, "add_key", "k", 3)>>)),
  Op("transaction", A, B, "transfer",
     Storage(<<3>>, <<Diff(3, "remove_key", "k", 1), Diff(3, "update_key", "l", 2),
                      Diff(3, "remove_key", "m", 4)>>)),
  Op("transaction", A, B, None, Storage(<<3>>, <<>>)),
  Op("transaction", user, C, "transfer",
     Storage(<<4, 5>>, <<Diff(4, "add_key", "k", 1), Diff(5, "add_key", "k", 2),
                         Diff(4, "add_key", "l", 3)>>)),
  Op("transaction", A, user, None, NoStorage),
  Op("origination", user, B, None, Storage(<<3>>, <<Diff(3, "allocate", "k", 0), Diff(3, "add_key", "k", 1)>>)),
  Op("migration", None, C, None, Storage(<<4>>, <<>>)),
  Op("sr_execute", user, rollup, None, NoStorage),
  Op("sr_cement", user, rollup, None, NoStorage)}

ByAddress(a) == [address |-> a, hash |-> None]
ByHash(x) == [address |-> None, hash |-> x]

Item(type, source, destination, entrypoint) ==
  [type |-> type, source |-> source, destination |-> destination,
   entrypoint |-> entrypoint, optional |-> FALSE, alias |-> None]
Maybe(i) == [i EXCEPT !.optional = TRUE]
Called(i, alias) == [i EXCEPT !.alias = alias]

MintA == Item("transaction", Anything, ByAddress(A), "mint")
TransferB == Item("transaction", ByAddress(A), ByAddress(B), "transfer")
TransferH == Item("transaction", Anything, ByHash(h), "transfer")
TransferC == Item("transaction", ByAddress(user), ByAddress(C), "transfer")
AnyToB == Item("transaction", Anything, ByAddress(B), None)
FromA == Item("transaction", ByAddress(A), Anything, "default")
OriginationH == Item("origination", Anything, ByHash(h), None)
OriginationByUser == Item("origination", ByAddress(user), Anything, None)
MintAny == Item("transaction", Anything, Anything, "mint")
Cement == Item("sr_cement", Anything, ByAddress(rollup), None)
Execute == Item("sr_execute", Anything, ByAddress(rollup), None)

(* The handlers of an index, one pattern each.                              *)
HandlerLists == {
  << <<MintA>>, <<TransferB>> >>,
  << <<MintA, TransferB>> >>,
  << <<MintA, Maybe(TransferB)>> >>,
  << <<TransferB, TransferB>> >>,
  << <<TransferB, Called(TransferB, "again")>> >>,
  << <<TransferH>>, <<FromA>> >>,
  << <<TransferC>>, <<TransferH>> >>,
  << <<OriginationH, MintA>> >>,
  << <<OriginationByUser, TransferH>> >>,
  << <<Execute>>, <<MintA>> >>,
  << <<Maybe(TransferB), MintA>> >>,
  << <<Maybe(TransferB)>> >>,
  << <<MintAny>> >>,
  << <<Cement>> >>,
  << <<AnyToB>> >>}

ItemsOf(hs) == UNION {Range(hs[n]) : n \in DOMAIN hs}
NamedIn(hs) == UNION {{i.source, i.destination} : i \in ItemsOf(hs)} \ {Anything}

(* The contracts are left out, those of the handlers, or one of them.       *)
Operational == UNION {
  {[kind |-> "operations", handlers |-> hs, merge |-> merge, alt |-> alt,
    types |-> {i.type : i \in ItemsOf(hs)}, contracts |-> contracts] :
     merge \in BOOLEAN,
     contracts \in {{}, NamedIn(hs), {ByAddress(A)}},
     alt \in IF \E i \in ItemsOf(hs) : i.optional THEN BOOLEAN ELSE {TRUE}} :
  hs \in HandlerLists}

Unfiltered == {
  [kind |-> "unfiltered", handlers |-> <<>>, merge |-> FALSE, alt |-> FALSE,
   types |-> types, contracts |-> {}] :
     types \in {{"transaction"}, {"origination"}, {"transaction", "migration"}}}

(* A second index: the one with code hashes, merged or not, or one that     *)
(* takes all transactions.                                                  *)
SecondIndexes ==
  {c \in Operational : c.handlers = << <<TransferH>>, <<FromA>> >>} \cup Unfiltered

-----------------------------------------------------------------------------
(* Indexes of the other kinds.                                              *)

CONSTANTS x, y, e, f, o, q

Input(type, indexed, value) == [type |-> type, indexed |-> indexed, value |-> value]
Arg(type, value) == [type |-> type, value |-> value]
Args(form, version, args) == [form |-> form, version |-> version, args |-> args]

(* Event e has an indexed input between two others; of o there are two; and *)
(* methods of the same names.                                               *)
Abis == [
  events |-> e :> << <<Input("uint", FALSE, 0), Input("address", TRUE, 0), Input("uint", FALSE, 0)>> >>
          @@ f :> << <<Input("tuple", FALSE, 0)>> >>
          @@ o :> << <<Input("uint", FALSE, 0)>>, <<Input("string", FALSE, 0)>> >>
          @@ q :> << <<Input("address", FALSE, 0)>> >>,
  methods |-> e :> << <<Input("address", FALSE, 0), Input("uint", FALSE, 0)>> >>
           @@ f :> << <<Input("tuple", FALSE, 0)>> >>
           @@ o :> << <<Input("uint", FALSE, 0)>>, <<Input("string", FALSE, 0)>> >>
           @@ q :> << <<Input("array", FALSE, 0)>> >>]

Thing(contract, name, from, to, payload, content) ==
  [contract |-> contract, name |-> name, from |-> from, to |-> to, payload |-> payload,
   content |-> content]
Event(contract, name, content) == Thing(contract, name, user, user, "fits", content)
Transaction(contract, name, from, to, content) == Thing(contract, name, from, to, "applied", content)
Token(name, contract, from, to, metadata) ==
  Thing(contract, name, from, to, "fits", [amount |-> 1, metadata |-> metadata])
MapDiff(contract, name, action, key, value) ==
  Event(contract, name, [action |-> action, key |-> key, value |-> value])

One(field, value) == [k \in {field} |-> value]
Here == Kind("Here", <<>>)
X2 == Kind("X2", One("value", Listing(<<Kind("Parachain", One("value", Number(1))),
                                        Kind("AccountKey20", One("key", Number(2)))>>)))
GeneralKey == Kind("GeneralKey", [k \in {"data", "length"} |-> Number(3)])
Wrapped == Kind("Wrapped", One("id", Number(3)))
Place(interior) ==
  Object([k \in {"parents", "interior"} |-> IF k = "parents" THEN Number(1) ELSE interior])

Things == [kind \in ItemKinds |->
  CASE kind = "evm.events" ->
         {Event(x, e, <<Input("uint", FALSE, 1), Input("address", TRUE, 2), Input("uint", FALSE, 3)>>),
          Event(x, e, <<Input("uint", FALSE, 1), Input("address", FALSE, 2), Input("uint", FALSE, 3)>>),
          Event(x, e, <<Input("uint", TRUE, 1), Input("address", FALSE, 2), Input("uint", FALSE, 3)>>),
          Event(x, f, <<Input("tuple", FALSE, 1)>>),
          Event(y, e, <<Input("uint", FALSE, 0), Input("address", TRUE, 2), Input("uint", FALSE, 0)>>),
          Event(y, o, <<Input("string", FALSE, 1)>>), Event(y, q, <<Input("address", FALSE, 0)>>)}
    [] kind = "tezos.events" ->
         {Event(x, e, 1), [Event(x, e, 2) EXCEPT !.payload = "differs"], Event(x, f, 3),
          Event(y, e, 4), [Event(x, f, 0) EXCEPT !.payload = "empty"]}
    [] kind = "evm.transactions" ->
         {Transaction(x, e, user, x, <<Input("address", FALSE, 1), Input("uint", FALSE, 0)>>),
          Transaction(x, f, user, x, <<Input("tuple", FALSE, 1)>>),
          Transaction(x, o, user, x, <<Input("string", FALSE, 1)>>),
          Transaction(x, q, user, x, <<Input("array", FALSE, 1)>>),
          Transaction(y, e, user, y, <<Input("address", FALSE, 2), Input("uint", FALSE, 3)>>),
          [Transaction(x, e, y, x, <<Input("address", FALSE, 1), Input("uint", FALSE, 2)>>)
             EXCEPT !.payload = "failed"]}
    [] kind = "starknet.events" ->
         {Event(x, e, <<[key |-> TRUE, value |-> 1], [key |-> FALSE, value |-> 2]>>),
          Event(x, f, <<[key |-> FALSE, value |-> 1]>>),
          Event(y, e, <<[key |-> TRUE, value |-> 3], [key |-> FALSE, value |-> 4]>>),
          Event(y, f, <<[key |-> FALSE, value |-> 1], [key |-> TRUE, value |-> 2]>>)}
    [] kind = "substrate.events" ->
         {Event(x, e, Args("object", 9, <<Arg("u128", Digits(7)), Arg("struct", Place(X2)), Arg("option", Absent)>>)),
          Event(x, e, Args("list", 10, <<Arg("vec", Hex(63)), Arg("vec", Listing(<<Digits(1), Number(2)>>)),
                                         Arg("option", Absent)>>)),
          Event(x, f, Args("list", 8, <<Arg("struct", Here), Arg("struct", GeneralKey), Arg("account", Hex(64))>>)),
          Event(x, e, Args("list", 9, <<Arg("option", Number(1)), Arg("u128", Number(2))>>)),
          Event(x, f, Args("object", 8, <<Arg("struct", Wrapped)>>)),
          Event(x, f, Args("object", 8, <<Arg("struct", Kind("V3", One("value", Place(X2))))>>)),
          Event(x, f, Args("object", 8, <<Arg("vec", Hex(64))>>)),
          Event(x, f, Args("object", 13, <<Arg("u128", Number(1))>>)),
          Event(x, f, Args("object", 8, <<>>))}
    [] kind = "tezos.big_maps" ->
         {MapDiff(x, e, "add_key", Number(1), Number(2)), MapDiff(x, e, "remove_key", Number(1), Absent),
          MapDiff(x, f, "update_key", Number(1), Number(3)), MapDiff(y, e, "add_key", Number(4), Number(1)),
          MapDiff(y, e, "remove", Absent, Absent)}
    [] kind \in {"tezos.token_transfers", "tezos.token_balances"} ->
         {Token(e, x, user, A, Object(<<>>)), Token(f, x, user, A, Object(One("name", Number(1)))),
          Token(e, y, A, user, Object(<<>>))}]

X == [contract |-> x]
XE == [contract |-> x, name |-> e]
XF == [contract |-> x, name |-> f]
YE == [contract |-> y, name |-> e]
YF == [contract |-> y, name |-> f]
E == [name |-> e]

ItemHandlers == [kind \in ItemKinds |->
  CASE kind = "evm.events" ->
         {<<XE>>, <<XF, YE>>, <<YF, XE, XE>>, <<E, XE>>,
          <<[contract |-> y, name |-> o], [contract |-> y, name |-> q]>>}
    [] kind = "starknet.events" -> {<<XE>>, <<XF, YE>>, <<YF, XE, XE>>, <<E, XE>>}
    [] kind = "tezos.events" -> {<<XF, XE>>, <<YE, XE, XE>>, <<X>>, <<XE, X>>, <<X, XE>>}
    [] kind = "evm.transactions" ->
         {<<[name |-> e, to |-> x], [from |-> user]>>, <<[from |-> user], [from |-> user, to |-> y]>>,
          <<[to |-> x]>>, <<[from |-> user, name |-> e], <<>> >>,
          <<[name |-> f, to |-> x], [name |-> q, to |-> x]>>, <<[name |-> o, to |-> x]>>,
          <<[name |-> e, to |-> x], [name |-> e, to |-> y]>>,
          <<[name |-> o, to |-> x, overload |-> 2]>>}
    [] kind = "substrate.events" -> {<<E>>, <<E, [name |-> f], E>>}
    [] kind = "tezos.big_maps" -> {<<XE>>, <<XF, YE>>, <<YF, XE>>, <<YE, YE>>}
    [] kind = "tezos.token_transfers" ->
         {<<X>>, <<XE, YE>>, <<[from |-> user, to |-> A], [from |-> A, to |-> A]>>, <<XE, [from |-> A]>>}
    [] kind = "tezos.token_balances" -> {<<XE, X>>, <<YE>>}]

ItemSources == [kind \in ItemKinds |->
  CASE kind \in {"evm.events", "evm.transactions", "starknet.events", "substrate.events"} ->
         {"subsquid", "node"}
    [] kind = "tezos.big_maps" -> {"tzkt", "snapshot"}
    [] OTHER -> {"tzkt"}]

ItemIndexes == UNION {
  {[kind |-> kind, handlers |-> hs, source |-> source, merge |-> merge, first |-> first] :
     hs \in ItemHandlers[kind], source \in ItemSources[kind],
     first \in IF kind = "starknet.events" THEN {8, 12} ELSE {0},
     merge \in IF "tzkt" \in ItemSources[kind] THEN BOOLEAN ELSE {FALSE}} :
  kind \in ItemKinds}

(* A second index of the kind, of the other contract or of all items.       *)
SecondItemIndexes == {c \in ItemIndexes : c.handlers[1] \in {YE, YF, X}}

AllConfigs == Operational \cup Unfiltered \cup ItemIndexes
AllNeighbours == SecondIndexes \cup SecondItemIndexes
=============================================================================
