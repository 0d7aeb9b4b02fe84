----------------------------- MODULE NodeFeeds -----------------------------
(***************************************************************************)
(* An indexer of one datasource: an EVM node, a Substrate node, or one     *)
(* that is polled.                                                         *)
(***************************************************************************)
EXTENDS EvmNode, SubstrateNode, PolledDatasource

vars == <<nodeVars, evmVars, polledVars>>

Init == NodeInit /\ EvmInit /\ PolledInit

(* The dispatcher processes indexes for which nothing is polled.            *)
Process(k) == Websockets /\ Index(k) /\ UNCHANGED <<evmVars, polledVars>>

Next ==
  \/ EvmNext /\ UNCHANGED polledVars
  \/ SubstrateNext /\ UNCHANGED <<evmVars, polledVars>>
  \/ PolledNext /\ UNCHANGED evmVars
  \/ \E k \in kinds : Process(k)

Spec == Init /\ [][Next]_vars

(* The tasks of the event loop run for ever; the transport reconnects and   *)
(* the dispatcher subscribes again.                                         *)
FairSpec ==
  /\ Spec
  /\ WF_vars(Subscribe /\ UNCHANGED polledVars)
  /\ WF_vars(StoreSubscription /\ UNCHANGED polledVars) /\ WF_vars(SetLevel /\ UNCHANGED polledVars)
  /\ WF_vars(ReceiveLog /\ UNCHANGED polledVars)
  /\ \A k \in EvmKinds : WF_vars(ReceiveHead(k) /\ UNCHANGED polledVars)
  /\ WF_vars(Emitter /\ UNCHANGED polledVars)
  /\ WF_vars(SubstrateTasks /\ UNCHANGED <<evmVars, polledVars>>)
  /\ WF_vars(SubstrateEmitter /\ UNCHANGED <<evmVars, polledVars>>)
  /\ WF_vars(PolledTasks /\ UNCHANGED evmVars)
  /\ \A k \in Kinds : WF_vars(Process(k))

-----------------------------------------------------------------------------
(* Properties.                                                              *)

TypeOK ==
  /\ Range(chain) \subseteq Blocks /\ \A l \in DOMAIN chain : blocks[chain[l]].level = l
  /\ kinds \subseteq Kinds /\ subscribed \in {"no", "asked", "stored", "torn", "yes", "deaf"}
  /\ failure \in {"none", "timeout", "unknown_subscription", "key_error", "no_block",
                  "empty_message", "connection_failed", "watchdog", "not_ready"}
  /\ \A o \in Range(objects) : o.block \in Blocks /\ o.events \subseteq Logs /\ o.fetch \in BOOLEAN
  /\ \A b \in Blocks : levelData[b] # 0 => objects[levelData[b]].block = b
  /\ Range(emitter) \subseteq (IF ofSubstrate THEN Blocks ELSE DOMAIN objects)
  /\ pc \in {"head", "data", "transactions", "forget", "events"}
  /\ pc # "head" => current \in (IF ofSubstrate THEN Blocks ELSE DOMAIN objects)
  /\ {known, askedAt, syncLevel} \subseteq 0 .. MaxLevel /\ attempts \in 0 .. RetryCount
  /\ \A k \in Kinds : level[k] \in 0 .. MaxLevel
  /\ spawned \in BOOLEAN /\ started \in BOOLEAN

(* Nothing is on its way, and indexes that are polled for have got to the   *)
(* head.                                                                    *)
Quiet ==
  /\ Running /\ logs = <<>> /\ emitter = <<>> /\ pc = "head"
  /\ IF Websockets THEN subscribed = "yes" ELSE \A k \in kinds : level[k] = Len(chain)
  /\ \A k \in kinds : heads[k] = <<>> /\ queue[k] = <<>> /\ level[k] >= syncLevel

(* When everything has been handled the rows of every index are those of    *)
(* the canonical chain: each block once, all its logs, no replaced one.     *)
CanonicalWhenQuiet == Quiet => \A k \in kinds, l \in Levels : rows[k][l] = Canonical(k, l)

(* The message of a rollback reaches up to the level of the index, so no    *)
(* rows above the target are left behind with updates nobody reverts.       *)
RollbackCoversIndex ==
  \A k \in kinds : AtQueue(k) /\ Head(queue[k]).kind = "rollback" => level[k] <= Head(queue[k]).from

(* The emitter, the Websocket task and the indexes get through without an   *)
(* exception.  That of the watchdog, when nothing is heard of the node, is  *)
(* what it is there for.                                                    *)
NeverFails == failure \in {"none", "watchdog"}

(* Heads, logs and messages are worked off whatever is lost in between, and *)
(* new heads are asked for.                                                 *)
Settles == []<>(Quiet \/ ~Running)
=============================================================================
