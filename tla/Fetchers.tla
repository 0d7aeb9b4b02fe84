------------------------------ MODULE Fetchers ------------------------------
(***************************************************************************)
(* Historical synchronization of one index of any kind, in as many syncs   *)
(* as it takes, over failing requests and restarts: the shared pipeline of *)
(* Fetcher composed with the iterator of the kind, shown to implement the  *)
(* in-order, exactly-once stream of levels of LevelStream.                 *)
(***************************************************************************)
EXTENDS PageFetcher, BlockFetcher, ChannelFetcher, SubstrateFetcher

vars == <<fetcherVars, offset, blockVars, channelVars, substrateVars>>
othersThanPages == <<blockVars, channelVars, substrateVars>>
othersThanBlocks == <<offset, channelVars, substrateVars>>
othersThanChannels == <<offset, blockVars, substrateVars>>
othersThanSubstrate == <<offset, blockVars, channelVars>>

Init ==
  /\ FetcherInit
  /\ routes \in IF kind \in MergedKinds
                  THEN [Items -> (SUBSET Channels) \ {{}}] ELSE {[i \in Items |-> {1}]}
  /\ Items # {} => 1 \in routes[1]   \* channels are alike
  /\ kind = "starknet" => \A i \in Items : Cardinality(routes[i]) = 1
  /\ kind = "events" /\ "many_events" \notin Hazards => Len(content) < PageSize
  /\ kind \in MergedKinds /\ "torn_level" \notin Hazards => LevelsFitPages
  /\ offset = 0 /\ source = "node" /\ reach = 0 /\ position = 1
  /\ heads = [c \in Channels |-> 0] /\ offsets = heads
  /\ buffer = {} /\ mergedHead = 0
  /\ queues = <<<<>>, <<>>, <<>>, <<>>>> /\ batch = [s \in Stages |-> <<>>]
  /\ loop = [s \in Stages |-> "done"]

(* _synchronize_node, _synchronize_subsquid of EvmEventsIndex.              *)
SynchronizeEvmEvents ==
  kind = "evm_events" /\ StartBlocks /\ UNCHANGED othersThanBlocks

(* Those of EvmTransactionsIndex.                                           *)
SynchronizeEvmTransactions ==
  kind = "evm_transactions" /\ StartBlocks /\ UNCHANGED othersThanBlocks

(* Those of StarknetEventsIndex.                                            *)
SynchronizeStarknet ==
  /\ kind = "starknet" /\ StartBlocks
  /\ OpenChannels   \* those of a node's fetcher
  /\ UNCHANGED <<offset, substrateVars>>

(* Those of SubstrateEventsIndex.                                           *)
SynchronizeSubstrate ==
  /\ kind = "substrate" /\ StartBlocks
  /\ IF source' = "node" THEN QueueLevels ELSE NoPipeline
  /\ UNCHANGED <<offset, channelVars>>

(* Index._synchronize of the kind.                                          *)
Synchronize ==
  /\ level < MaxLevel
  /\ \/ StartPages /\ UNCHANGED othersThanPages
     \/ StartOperations /\ UNCHANGED othersThanChannels
     \/ SynchronizeEvmEvents \/ SynchronizeEvmTransactions
     \/ SynchronizeStarknet \/ SynchronizeSubstrate

(* The kind's iterator is resumed.                                          *)
Fetch ==
  \/ FetchPage /\ UNCHANGED othersThanPages
  \/ (FetchLogs \/ FetchBlocks \/ FromSubsquid) /\ UNCHANGED othersThanBlocks
  \/ FetchChannel /\ (kind = "starknet" => source = "node") /\ UNCHANGED othersThanChannels
  \/ TakeEvents /\ source = "node" /\ UNCHANGED othersThanSubstrate

(* The three tasks of SubstrateNodeEventFetcher.                            *)
Pipeline(s) == (Collect(s) \/ Answer(s)) /\ UNCHANGED othersThanSubstrate

ReadaheadTask ==
  (RequestFails \/ SplitLevel \/ ReadaheadDone)
    /\ UNCHANGED <<offset, blockVars, channelVars, substrateVars>>

IndexTask ==
  (ProcessLevel \/ Synchronized \/ Crash \/ Restart)
    /\ UNCHANGED <<offset, blockVars, channelVars, substrateVars>>

(* The whole chain is indexed; new blocks are IndexLifecycle's subject.     *)
Finished ==
  /\ status = "idle" /\ level = MaxLevel
  /\ UNCHANGED vars

Next ==
  \/ Synchronize \/ Fetch \/ (\E s \in Stages : Pipeline(s))
  \/ ReadaheadTask \/ IndexTask \/ Finished

Spec == Init /\ [][Next]_vars

(* Coroutines are resumed once what they await is there, requests end by    *)
(* their timeout, and the process is restarted by its supervisor.           *)
Fairness ==
  /\ WF_vars(Synchronize) /\ WF_vars(Fetch) /\ WF_vars(ReadaheadTask) /\ WF_vars(IndexTask)
  /\ \A s \in Stages : WF_vars(Pipeline(s))

FairSpec == Spec /\ Fairness

-----------------------------------------------------------------------------
(* fetch_by_level is the stream its docstrings promise: no level is lost,   *)
(* repeated, out of order, split, or processed in part, across pages,       *)
(* channels, retries, syncs and restarts.                                   *)
Stream == INSTANCE LevelStream
ImplementsStream == Stream!StreamSpec

(* None of the exceptions that guard the pipeline is ever raised: `Batch    *)
(* level is lower than index level' (_process_level_data), `Invalid buffer  *)
(* state' and `Items left in queue' (_merged_iter).                         *)
NeverRaises == failure # "assertion"

(* A task of the Substrate pipeline that has ended has left nothing behind  *)
(* that only it could take: fetch_events would wait for the queues to drain *)
(* for ever.                                                                *)
NothingStranded ==
  status = "syncing" /\ task = "running" =>
    \A s \in Stages : loop[s] = "done" => queues[s] = <<>>

(* Once requests stop failing the index gets to the head of the chain: the  *)
(* bounded read-ahead queue never leaves task and loop waiting for each     *)
(* other.                                                                   *)
CatchesUp == <>[](level = MaxLevel)
=============================================================================
