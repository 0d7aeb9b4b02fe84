------------------------------ MODULE Payloads ------------------------------
(***************************************************************************)
(* What the handler of an item is given: the payload of an event, the      *)
(* input of a transaction, the key and value of a big map, the storage of  *)
(* a contract.  A datasource carries it in a form of its own and the       *)
(* matcher decodes it.  The content of an item is                          *)
(*   EVM        its inputs [type, indexed, value] in the order of the ABI  *)
(*   Starknet   its members [key, value] in the order of the ABI           *)
(*   Substrate  [form, version, args], each argument [type, value]; the    *)
(*              form that Subsquid gives them in is a list or an object,   *)
(*              the version that of the runtime                            *)
(*   big map    [action, key, value]                                       *)
(*   token      [amount, metadata]                                         *)
(*   operation  [maps, diffs]: the big maps its storage points to, and     *)
(*              what it did to them, each diff [map, action, key, value]   *)
(* and that of a Tezos event its payload.                                  *)
(***************************************************************************)
EXTENDS Integers, Sequences, SequencesExt, FiniteSets, FiniteSetsExt

CONSTANTS
  Abi,        \* [events, methods]: [name -> inputs, one sequence for each of that name]
  Metadata,   \* versions of a Substrate runtime whose metadata the package has
  FieldsRead  \* fields that handlers read of an EVM transaction

Absent == [is |-> "absent"]
Values(inputs) == [n \in DOMAIN inputs |-> inputs[n].value]
Types(inputs) == [n \in DOMAIN inputs |-> inputs[n].type]

-----------------------------------------------------------------------------
(* EVM events.                                                              *)

Indexed(inputs) == SelectSeq(inputs, LAMBDA i : i.indexed)
Plain(inputs) == SelectSeq(inputs, LAMBDA i : ~i.indexed)

(* The log of an event as EvmEventData has it, from a node or Subsquid.  Of *)
(* data that is all zeros, nodes leave nothing.                             *)
EvmEventData(i) ==
  [topic0 |-> <<i.name, Types(i.content)>>,
   topics |-> Values(Indexed(i.content)),
   data |-> IF \A n \in DOMAIN Plain(i.content) :
                 Plain(i.content)[n].value = 0 /\ Plain(i.content)[n].type \in {"uint", "address"}
              THEN <<>> ELSE Values(Plain(i.content))]

(* The first of that name.                                                  *)
get_event_abi(name) == Head(Abi.events[name])

EvmEventFits(i) ==
  LET abi == get_event_abi(i.name)
  IN /\ EvmEventData(i).topic0 = <<i.name, Types(abi)>>
     /\ Len(EvmEventData(i).topics) = Len(Indexed(abi))

(* The n-th input is the next one of its sort, or zero.                     *)
decode_event_data(i) ==
  LET abi == get_event_abi(i.name)
      Place(n) == Cardinality({m \in 1 .. n : abi[m].indexed = abi[n].indexed})
  IN [n \in DOMAIN abi |->
        IF abi[n].indexed THEN EvmEventData(i).topics[Place(n)]
        ELSE IF EvmEventData(i).data = <<>> THEN 0 ELSE EvmEventData(i).data[Place(n)]]

(* The topic of a string, an array or a tuple is a hash that does not       *)
(* decode; the typeclass has no type for an array and none for zero where   *)
(* an address is.                                                           *)
EvmEventUnreadable(i) ==
  LET abi == get_event_abi(i.name)
  IN \E n \in DOMAIN abi :
       \/ abi[n].type = "array"
       \/ abi[n].indexed /\ abi[n].type \in {"string", "tuple"}
       \/ ~abi[n].indexed /\ abi[n].type = "address" /\ EvmEventData(i).data = <<>>

-----------------------------------------------------------------------------
(* EVM transactions.                                                        *)

(* The first four bytes of the input are a hash of the method with the      *)
(* components of its tuples, which sighash_from_abi leaves out.             *)
Selector(i) ==
  <<i.name, [n \in DOMAIN i.content |->
               IF i.content[n].type = "tuple" THEN "(uint,uint)" ELSE i.content[n].type]>>
sighash_from_abi(name, inputs) == <<name, Types(inputs)>>

(* Methods of one name need the filter by signature, which tells which of   *)
(* them it is.                                                              *)
NotUnique(name) == Len(Abi.methods[name]) > 1
BySignature(h) == "overload" \in DOMAIN h
get_method_abi(h) == Abi.methods[h.name][IF BySignature(h) THEN h.overload ELSE 1]

(* EvmTransactionData: what a receipt holds is not in a node's block, the   *)
(* status is taken for granted; Subsquid's access lists are left out.       *)
ReceiptFields ==
  {"contract_address", "cumulative_gas_used", "effective_gas_price", "gas_used"}
from_node_json(field) ==
  IF field \in ReceiptFields \cup {"y_parity"} THEN "absent"
  ELSE IF field = "status" THEN "applied" ELSE "as emitted"
from_subsquid_json(field, status) ==
  IF field = "access_list" THEN "absent"
  ELSE IF field = "status" THEN status ELSE "as emitted"

EvmTransactionData(source, i) ==
  [f \in FieldsRead |-> IF source = "node" THEN from_node_json(f) ELSE from_subsquid_json(f, i.payload)]
EvmTransactionEmitted(i) ==
  [f \in FieldsRead |-> IF f = "status" THEN i.payload ELSE "as emitted"]

(* The typeclass of a method has no type for an array either.               *)
EvmTransactionUnreadable(i) == "array" \in Range(Types(i.content))

-----------------------------------------------------------------------------
(* Starknet events: keys and then data, read in the order of the members.   *)

Felts(i) == Values(SelectSeq(i.content, LAMBDA m : m.key))
              \o Values(SelectSeq(i.content, LAMBDA m : ~m.key))
StarknetPayload(i) == [n \in DOMAIN i.content |-> Felts(i)[n]]

-----------------------------------------------------------------------------
(* Substrate events.  A value is a number, a number in digits, bytes in     *)
(* hexadecimal, a list of values, or an object of a kind, its fields those  *)
(* of the kind: none, `value`, `key`, or by name.                           *)

Number(n) == [is |-> "number", n |-> n]
Digits(n) == [is |-> "digits", n |-> n]
Hex(bytes) == [is |-> "hex", n |-> bytes]
Bytes(bytes) == [is |-> "bytes", n |-> bytes]
Text(t) == [is |-> "text", t |-> t]
Listing(items) == [is |-> "list", items |-> items]
Object(fields) == [is |-> "object", fields |-> fields]
Kind(kind, fields) == [is |-> "kind", kind |-> kind, fields |-> fields]
Variant(kind, value) == Object([k \in {kind} |-> value])

(* What the interface of a node decodes it to.                              *)
RECURSIVE NodeForm(_)
NodeForm(v) ==
  CASE v.is = "digits" -> Number(v.n)
    [] v.is = "hex" -> Bytes(v.n)
    [] v.is = "list" -> Listing([n \in DOMAIN v.items |-> NodeForm(v.items[n])])
    [] v.is = "object" -> Object([k \in DOMAIN v.fields |-> NodeForm(v.fields[k])])
    [] v.is = "kind" ->
         IF DOMAIN v.fields = {} THEN Text(v.kind)
         ELSE Variant(v.kind,
                IF DOMAIN v.fields = {"value"} THEN NodeForm(v.fields["value"])
                ELSE IF DOMAIN v.fields = {"key"} THEN NodeForm(v.fields["key"])
                ELSE Object([k \in DOMAIN v.fields |-> NodeForm(v.fields[k])]))
    [] OTHER -> v

(* The fields of a kind are looked into where they are one list; one named  *)
(* field is lost.                                                           *)
RECURSIVE extract_subsquid_payload(_)
extract_subsquid_payload(v) ==
  LET Each(items) == [n \in DOMAIN items |-> extract_subsquid_payload(items[n])]
  IN CASE v.is = "list" -> Listing(Each(v.items))
       [] v.is = "object" -> Object([k \in DOMAIN v.fields |-> extract_subsquid_payload(v.fields[k])])
       [] v.is = "kind" ->
            IF Cardinality(DOMAIN v.fields) > 1 THEN Variant(v.kind, Object(v.fields))
            ELSE IF "value" \in DOMAIN v.fields THEN
              LET value == v.fields["value"]
              IN Variant(v.kind, IF value.is = "list" THEN Listing(Each(value.items)) ELSE value)
            ELSE IF "key" \in DOMAIN v.fields THEN Variant(v.kind, v.fields["key"])
            ELSE Text(v.kind)
       [] OTHER -> v

(* Values that come out the same: what has to be decoded is neither within  *)
(* the fields of a kind nor a named field alone.                            *)
RECURSIVE Simple(_)
Simple(v) ==
  CASE v.is = "list" -> \A n \in DOMAIN v.items : Simple(v.items[n])
    [] v.is = "object" -> \A k \in DOMAIN v.fields : Simple(v.fields[k])
    [] OTHER -> v.is \in {"number", "absent"}
RECURSIVE RegularWithin(_)
RegularWithin(v) ==
  CASE v.is = "list" -> \A n \in DOMAIN v.items : RegularWithin(v.items[n])
    [] v.is = "object" -> \A k \in DOMAIN v.fields : RegularWithin(v.fields[k])
    [] v.is = "kind" ->
         IF "value" \in DOMAIN v.fields /\ v.fields["value"].is = "list"
           THEN Cardinality(DOMAIN v.fields) = 1 /\ RegularWithin(v.fields["value"])
           ELSE /\ \A k \in DOMAIN v.fields : Simple(v.fields[k])
                /\ Cardinality(DOMAIN v.fields) = 1 => DOMAIN v.fields \subseteq {"value", "key"}
    [] OTHER -> Simple(v)
Regular(arg) ==
  LET Top(v) == v.is \in {"digits", "hex"} \/ RegularWithin(v)
  IN IF arg.type \in {"vec", "tuple"} /\ arg.value.is = "list"
       THEN \A n \in DOMAIN arg.value.items : Top(arg.value.items[n]) ELSE Top(arg.value)

(* An argument as Subsquid gives it: the length that the SCALE decoder      *)
(* wants before a vector fits into one byte up to 63.                       *)
parse(v, type) ==
  CASE v.is = "digits" -> Number(v.n)
    [] v.is = "hex" -> Bytes(v.n)
    [] v.is = "list" /\ type \in {"vec", "tuple"} ->
         Listing([n \in DOMAIN v.items |-> IF v.items[n].is = "digits" THEN Number(v.items[n].n)
                                           ELSE IF v.items[n].is = "hex" THEN Bytes(v.items[n].n)
                                           ELSE v.items[n]])
    [] OTHER -> v
Unparsable(arg) == arg.type = "vec" /\ arg.value.is = "hex" /\ arg.value.n > 63

(* A list is read without its options, which are taken for absent.          *)
NamedArgs(form, args) ==
  IF form = "object" THEN Values(args)
  ELSE [n \in DOMAIN args |->
          IF args[n].type = "option" THEN Absent
          ELSE args[Cardinality({m \in 1 .. n : args[m].type # "option"})].value]

(* Names that differ in a number are in the order of texts: 10 before 9.    *)
Decimals(n) == IF n < 10 THEN <<n>> ELSE <<n \div 10, n % 10>>
StringBefore(m, n) ==
  LET a == Decimals(m)  b == Decimals(n)
  IN a[1] < b[1] \/ (a[1] = b[1] /\ (Len(a) < Len(b) \/ (Len(a) = 2 /\ Len(b) = 2 /\ a[2] < b[2])))

(* Metadata of the version, or the last in the order of names that is not   *)
(* newer; while the events of a version are those of the newest known one.  *)
KnownBefore(version) == {v \in Metadata : v <= version}
get_spec_version(version) ==
  IF version \in Metadata THEN version
  ELSE CHOOSE v \in KnownBefore(version) :
         \A w \in KnownBefore(version) \ {v} : StringBefore(w, v)
InForce(version) == Max(KnownBefore(version))

SubstrateEmitted(i) ==
  [abi |-> InForce(i.content.version),
   args |-> [n \in DOMAIN i.content.args |-> NodeForm(i.content.args[n].value)]]
decode_event_args(i) ==
  LET args == NamedArgs(i.content.form, i.content.args)
  IN [abi |-> get_spec_version(i.content.version),
      args |-> [n \in DOMAIN args |->
                  extract_subsquid_payload(parse(args[n], i.content.args[n].type))]]

(* SubstrateEvent.payload.                                                  *)
SubstratePayload(source, i) == IF source = "node" THEN SubstrateEmitted(i) ELSE decode_event_args(i)
SubstrateUnreadable(source, i) ==
  \/ i.content.args = <<>>
  \/ source = "subsquid" /\ \E n \in DOMAIN i.content.args : Unparsable(i.content.args[n])

-----------------------------------------------------------------------------
(* Tezos.                                                                   *)

BigMapActions == {"allocate", "add_key", "update_key", "remove_key", "remove"}
HasKey(action) == action \in {"add_key", "update_key", "remove_key"}
HasValue(action) == action \in {"add_key", "update_key"}

(* from_json; and for skip_history a key of the big map, which is taken for *)
(* added, whatever became of it.                                            *)
TezosBigMapData(i) ==
  [action |-> i.content.action, active |-> i.content.action \notin {"remove", "remove_key"},
   key |-> i.content.key, value |-> i.content.value]
TezosBigMapKey(i) == [TezosBigMapData(i) EXCEPT !.action = "add_key"]

BigMapDiff(source, i) ==
  LET data == IF source = "snapshot" THEN TezosBigMapKey(i) ELSE TezosBigMapData(i)
  IN [data EXCEPT !.key = IF HasKey(data.action) THEN @ ELSE Absent,
                  !.value = IF HasValue(data.action) THEN @ ELSE Absent]
BigMapEmitted(i) ==
  [action |-> i.content.action, active |-> i.content.action \in {"allocate", "add_key", "update_key"},
   key |-> i.content.key, value |-> i.content.value]

(* Metadata that is not an object is left out, of transfers and balances.   *)
TokenData(i) ==
  [i.content EXCEPT !.metadata = IF @.is = "object" THEN @ ELSE Object(<<>>)]
TokenBalanceData(i) ==
  [i.content EXCEPT !.metadata = IF @.is = "object" THEN @ ELSE Object(<<>>)]

(* The payload of an event as TzKT has it, if there is one.                 *)
TezosEventData(i) == i.content

(* _preprocess_bigmap_diffs: grouped while they follow each other; a later  *)
(* group of the same big map replaces an earlier one.                       *)
BigMapDiffs(diffs, map) ==
  LET set == SelectSeq(diffs, LAMBDA d : d.action \in {"add_key", "update_key"})
      last == {n \in DOMAIN set : \A m \in n .. Len(set) : set[m].map = map \/
                                    \A k \in m .. Len(set) : set[k].map # map}
  IN SelectSeq(SubSeq(set, IF last = {} THEN Len(set) + 1 ELSE Min(last), Len(set)),
               LAMBDA d : d.map = map)

(* _apply_bigmap_diffs: the last value of each key.                         *)
Applied(diffs) ==
  [k \in {diffs[n].key : n \in DOMAIN diffs} |->
     diffs[Max({n \in DOMAIN diffs : diffs[n].key = k})].value]

Pointers(content) == [n \in DOMAIN content.maps |-> [k \in {"pointer"} |-> content.maps[n]]]

(* _process_storage: every pointer to a big map gives way to what was set.  *)
Processed(content) ==
  [n \in DOMAIN content.maps |-> Applied(BigMapDiffs(content.diffs, content.maps[n]))]

(* What an operation has set of the big maps of its storage.                *)
StorageEmitted(content) ==
  [n \in DOMAIN content.maps |->
     Applied(SelectSeq(content.diffs,
               LAMBDA d : d.map = content.maps[n] /\ d.action \in {"add_key", "update_key"}))]
=============================================================================
