---------------------------- MODULE BlockFetcher ----------------------------
(***************************************************************************)
(* Indexes with Subsquid and node datasources: SubsquidIndex._synchronize  *)
(* picks one of the two and a target.  A worker of Subsquid answers a part *)
(* of what is missing, in blocks; an EVM node is asked for ranges of       *)
(* blocks, a Starknet node in channels (ChannelFetcher), a Substrate node  *)
(* by a pipeline (SubstrateFetcher).                                       *)
(***************************************************************************)
EXTENDS Fetcher

SubsquidKinds == {"evm_events", "evm_transactions", "starknet", "substrate"}

CONSTANTS
  LastMile,  \* NODE_LAST_MILE
  MaxBatch   \* bound: largest batch_size of get_next_batch_size

ASSUME BlockAssumption == LastMile \in Nat /\ MaxBatch \in Nat \ {0}

VARIABLES
  source,   \* "node" or "subsquid"
  reach,    \* the head it reported
  position  \* batch_first_level, current_level

blockVars == <<source, reach, position>>

ItemsIn(from, to) == InOrder({i \in Items : content[i] \in from .. to})

(* _get_node_sync_level and its use: the last mile comes from the node, and *)
(* nobody is asked for more than the head it reported.  A node without      *)
(* blocks counts as none; both are a nodeHead of 0, as an index without     *)
(* Subsquid has a squidHead of 0.                                           *)
Choose(to, squidHead, nodeHead) ==
  IF squidHead - level <= LastMile /\ nodeHead # 0
    THEN [source |-> "node", reach |-> nodeHead, target |-> Min({to, nodeHead})]
    ELSE [source |-> "subsquid", reach |-> squidHead, target |-> Min({to, squidHead})]

(* SubsquidIndex._synchronize.  Heads that are not above the index make a   *)
(* sync without effect, a fault here.  It needs the hazard if the node is   *)
(* behind the index, which _exit_sync_state then takes back, and if it is   *)
(* of Substrate, whose pipeline has no end when it has no beginning.        *)
StartBlocks ==
  /\ status = "idle"
  /\ \E choice \in {Choose(to, squidHead, nodeHead) :
                     to \in level + 1 .. MaxLevel, squidHead, nodeHead \in 0 .. MaxLevel} :
       /\ IF choice.target > level
            THEN UNCHANGED faults
            ELSE /\ faults < MaxFaults /\ faults' = faults + 1
                 /\ \/ choice.target = level /\ kind # "substrate"
                    \/ "lagging_head" \in Hazards
       /\ StartFetcher(choice.target)
       /\ source' = choice.source /\ reach' = choice.reach
       /\ exhausted' = (choice.target <= level /\ kind # "substrate")
  /\ position' = level + 1

-----------------------------------------------------------------------------
(* EVM nodes.                                                               *)

(* Up to where a random node has the blocks it is asked for: no less than   *)
(* was reported, unless it lags behind the node that did.                   *)
NodeHas(last) ==
  IF "lagging_node" \in Hazards THEN position .. last ELSE Min({last, reach}) .. last

(* get_next_batch_size grows and shrinks with the time requests take; the   *)
(* range includes both of its ends.                                         *)
BatchLasts == {Min({position + size, target}) : size \in 1 .. MaxBatch}

(* get_blocks_batch asks for blocks concurrently and fails with the first   *)
(* of them; one the node does not have is null, which is not expected.      *)
BlocksThere(blockLevels, has) == \A l \in blockLevels : l <= has

(* One range of EvmNodeEventFetcher: a node returns the logs it has, and    *)
(* another one the blocks their timestamps are taken from.                  *)
FetchLogs ==
  /\ kind = "evm_events" /\ source = "node" /\ Wanted
  /\ \E last \in BatchLasts :
       /\ \E hasLogs, hasBlocks \in NodeHas(last) :
            LET logs == ItemsIn(position, hasLogs) IN
            IF BlocksThere({content[i] : i \in Range(logs)}, hasBlocks)
              THEN Receive(logs, last = target) /\ UNCHANGED failure
              ELSE Raise("request")
       /\ position' = last + 1
  /\ Answered /\ UNCHANGED <<source, reach>>

(* One range of EvmNodeTransactionFetcher: every block of it, from one node.*)
FetchBlocks ==
  /\ kind = "evm_transactions" /\ source = "node" /\ Wanted
  /\ \E last \in BatchLasts :
       /\ \E has \in NodeHas(last) :
            IF BlocksThere(position .. last, has)
              THEN Receive(ItemsIn(position, last), last = target) /\ UNCHANGED failure
              ELSE Raise("request")
       /\ position' = last + 1
  /\ Answered /\ UNCHANGED <<source, reach>>

-----------------------------------------------------------------------------
(* Subsquid.                                                                *)

(* query_worker, and the blocks of its answer one by one: those found up to *)
(* a level of the worker's choice, the last of which is named even if       *)
(* nothing in it matches.                                                   *)
FromWorker ==
  /\ source = "subsquid" /\ Wanted
  /\ \E last \in position .. target :
       /\ Receive(ItemsIn(position, last), last = target)
       /\ position' = last + 1
  /\ Answered /\ UNCHANGED <<failure, source, reach>>

IterEvmEvents == kind = "evm_events" /\ FromWorker
IterEvmTransactions == kind = "evm_transactions" /\ FromWorker
IterSubstrateEvents == kind = "substrate" /\ FromWorker

(* Events of Starknet are paired with the transactions of their block in    *)
(* one pass over both: the hazard is a block that lists them in another     *)
(* order, which ends in an IndexError.                                      *)
IterStarknetEvents ==
  /\ kind = "starknet"
  /\ \/ FromWorker
     \/ /\ "unordered_block" \in Hazards
        /\ source = "subsquid" /\ Wanted /\ ItemsIn(position, target) # <<>>
        /\ Raise("assertion")
        /\ Answered /\ UNCHANGED blockVars

FromSubsquid ==
  IterEvmEvents \/ IterEvmTransactions \/ IterStarknetEvents \/ IterSubstrateEvents
=============================================================================
