--------------------------- MODULE NodeDatasource ---------------------------
(***************************************************************************)
(* What the datasources of nodes share: a chain, the SubscriptionManager   *)
(* with its sync level, messages on their way to the datasource, the queue *)
(* of an emitter task, and the indexes it feeds.  An index is reduced to   *)
(* its queue, its level and the origin of its rows: IndexLifecycle has the *)
(* steps of Index.process.                                                 *)
(***************************************************************************)
EXTENDS Integers, Sequences, SequencesExt, FiniteSetsExt

CONSTANTS
  Hazards,     \* circumstances that are otherwise ruled out
  MaxLevel,    \* bound: height of the chain
  MaxBlocks,   \* bound: blocks over all forks
  MaxReorgs,   \* bound
  MaxFaults,   \* bound: lost connections and crashes
  RetryCount   \* http.retry_count

(* An index is of events or transactions of an EVM node, of the finalized   *)
(* heads of a Substrate node, or of a node or Subsquid that is polled.      *)
EvmKinds == {"events", "transactions"}
Kinds == EvmKinds \cup {"finalized", "polled", "subsquid"}
LogCount == 2  \* logs of a block that has any
Logs == 1 .. LogCount

Circumstances ==
  {"both_kinds", "backlog", "early_message", "late_logs", "lost_logs", "lost_rollback",
   "offline", "stale_known", "early_notification", "shorter", "genesis", "lost_answer",
   "retries", "gaps", "eventless", "torn_answer", "unnoticed", "caught_up", "not_ready"}

ASSUME NodeAssumption ==
  /\ Hazards \subseteq Circumstances
  /\ MaxLevel \in Nat \ {0} /\ MaxBlocks \in Nat \ {0} /\ MaxReorgs \in Nat /\ MaxFaults \in Nat
  /\ RetryCount \in Nat \ {0}

VARIABLES
  blocks,     \* all blocks ever: their level, and whether they have data for us
  chain,      \* the canonical ones, by level
  reorgs, faults,
  kinds,      \* kinds of the indexes of the datasource
  subscribed, \* "no", "asked" (the answer is on its way), "stored" (the id is there, the
              \* head asked for), "yes"; "torn", "deaf": the connection was lost at
              \* "stored", which the task that waits for the head has not noticed
  heads,      \* [kind -> blocks announced on its subscription]
  syncLevel,  \* of the subscriptions, 0 if unset
  attempts,   \* iterations of _ws_loop that ended in a ConnectionError
  failure,    \* the exception that ended the process, or "none"
  emitter,    \* _emitter_queue
  pc, current,\* the emitter loop and the element it is at
  queue,      \* [kind -> Index._queue]
  draining,   \* [kind -> whether _process_queue is at work]
  level,      \* [kind -> level of the index]
  rows        \* [kind -> [level -> what its rows were made of]]

chainVars == <<blocks, chain, reorgs, faults, kinds>>
feedVars == <<subscribed, heads, syncLevel, attempts>>
emitterVars == <<emitter, pc, current>>
indexVars == <<queue, draining, level, rows>>
nodeVars == <<chainVars, feedVars, failure, emitterVars, indexVars>>

Blocks == 1 .. Len(blocks)
Levels == 1 .. MaxLevel
Running == failure = "none"
Websockets == kinds \intersect {"polled", "subsquid"} = {}

(* What an index makes of a block: all its logs, or its transactions.       *)
NoRows == [block |-> 0, logs |-> {}]
RowsOf(kind, b) ==
  IF blocks[b].full THEN [block |-> b, logs |-> IF kind = "events" THEN Logs ELSE {}] ELSE NoRows
Canonical(kind, l) == IF l \in DOMAIN chain THEN RowsOf(kind, chain[l]) ELSE NoRows

(* What is pushed to an index: rows of a block, no rows, or a rollback.      *)
DataMsg(b, found) ==
  [kind |-> "data", level |-> blocks[b].level, rows |-> [block |-> b, logs |-> found]]
EmptyMsg(b) == [kind |-> "empty", level |-> blocks[b].level, rows |-> NoRows]
RollbackMsg(from, to) == [kind |-> "rollback", from |-> from, to |-> to]

-----------------------------------------------------------------------------
(* The chain and the connection.                                            *)

(* New canonical blocks on top of `to'.                                     *)
NewBlocks(contents) == [n \in DOMAIN contents |-> Len(blocks) + n]
Mint(to, contents) ==
  /\ to + Len(contents) <= MaxLevel /\ Len(blocks) + Len(contents) <= MaxBlocks
  /\ blocks' = blocks \o [n \in DOMAIN contents |-> [level |-> to + n, full |-> contents[n]]]
  /\ chain' = SubSeq(chain, 1, to) \o NewBlocks(contents)
  /\ UNCHANGED <<faults, kinds, subscribed, syncLevel, attempts, failure, emitterVars, indexVars>>

(* A request is sent and its answer waited for.                             *)
Requested ==
  /\ Running /\ subscribed = "no" /\ \A k \in kinds : ~draining[k]
  /\ subscribed' = "asked"
  /\ UNCHANGED <<chainVars, heads, syncLevel, attempts, failure, emitterVars, indexVars>>

(* The node has the subscription.                                           *)
Announcing == subscribed \in {"asked", "stored", "yes"}

(* A notification: for an id not stored yet it is an error, which without   *)
(* that hazard comes later than the id.                                     *)
Notified ==
  /\ Running /\ Announcing
  /\ "early_notification" \in Hazards \/ subscribed # "asked"
  /\ failure' = IF subscribed = "asked" THEN "unknown_subscription" ELSE "none"
  /\ UNCHANGED <<chainVars, subscribed, syncLevel, attempts, indexVars, pc, current>>

Fault == faults < MaxFaults /\ faults' = faults + 1

(* _on_disconnected resets the subscriptions; what the datasource and the   *)
(* indexes have queued stays.  The dispatcher does not get over an answer   *)
(* that does not come in time (lost_answer).  While a task waits for the    *)
(* head, the subscriptions are reset first and the level is set then        *)
(* (torn_answer).                                                           *)
Disconnected ==
  /\ Running /\ Fault /\ subscribed # "no"
  /\ "lost_answer" \in Hazards \/ subscribed # "asked"
  /\ "torn_answer" \in Hazards \/ subscribed # "stored"
  /\ failure' = IF subscribed = "asked" THEN "timeout" ELSE "none"
  /\ subscribed' = IF subscribed \in {"stored", "torn"} THEN "torn" ELSE "no"
  /\ syncLevel' = 0 /\ heads' = [k \in Kinds |-> <<>>]
  /\ UNCHANGED <<blocks, chain, reorgs, kinds, attempts, emitterVars, indexVars>>

(* _ws_loop: a connection that cannot be established takes one of the       *)
(* attempts, of which there are no more after a while (retries).            *)
Refuse ==
  /\ Running /\ Fault /\ subscribed = "no"
  /\ "retries" \in Hazards \/ attempts + 1 < RetryCount
  /\ attempts' = attempts + 1
  /\ failure' = IF attempts + 1 = RetryCount THEN "connection_failed" ELSE "none"
  /\ UNCHANGED <<blocks, chain, reorgs, kinds, subscribed, heads, syncLevel>>
  /\ UNCHANGED <<emitterVars, indexVars>>

(* The process is killed and starts again: initialize() takes the head as   *)
(* the sync level.                                                          *)
Restarted ==
  /\ Running /\ Fault
  /\ subscribed' = "no" /\ syncLevel' = Len(chain) /\ attempts' = 0
  /\ heads' = [k \in Kinds |-> <<>>]
  /\ emitter' = <<>> /\ pc' = "head" /\ current' = 0
  /\ queue' = [k \in Kinds |-> <<>>] /\ draining' = [k \in Kinds |-> FALSE]
  /\ UNCHANGED <<blocks, chain, reorgs, kinds, failure, level, rows>>

-----------------------------------------------------------------------------
(* The indexes.                                                             *)

(* An index that is about to synchronize clears its queue (early_message).  *)
Push(k, msg) ==
  /\ "early_message" \in Hazards \/ level[k] >= syncLevel \/ msg.level <= syncLevel
  /\ queue' = [queue EXCEPT ![k] = Append(@, msg)]

(* The dispatcher's task is in subscribe().                                  *)
Waiting == subscribed \in {"asked", "stored", "torn"}

(* Index.process of an index that is behind its subscriptions: the queue is *)
(* cleared and the rows are fetched from the node, level by level.          *)
Synchronize(k) ==
  /\ Running /\ ~Waiting /\ k \in kinds /\ ~draining[k] /\ level[k] < syncLevel
  /\ queue' = [queue EXCEPT ![k] = <<>>]
  /\ rows' = [rows EXCEPT ![k] = [l \in Levels |->
                  IF level[k] < l /\ l <= syncLevel THEN Canonical(k, l) ELSE rows[k][l]]]
  /\ level' = [level EXCEPT ![k] = syncLevel]
  /\ UNCHANGED <<chainVars, feedVars, failure, emitterVars, draining>>

(* The dispatcher processes an index that has a sync level: that of its     *)
(* subscription, or at first the one of initialize().  _process_queue goes  *)
(* on until the queue is empty, also when a rollback has taken the index    *)
(* below that level.                                                        *)
AtQueue(k) ==
  /\ Running /\ ~Waiting /\ k \in kinds /\ queue[k] # <<>>
  /\ draining[k] \/ (syncLevel > 0 /\ level[k] >= syncLevel)

(* The next message is taken from the queue.                                *)
Pop(k) ==
  /\ queue' = [queue EXCEPT ![k] = Tail(@)]
  /\ draining' = [draining EXCEPT ![k] = Tail(queue[k]) # <<>>]

(* _process_queue: data of a level already passed is skipped; a message     *)
(* without data is an error.                                                *)
ProcessData(k) ==
  /\ AtQueue(k) /\ Head(queue[k]).kind # "rollback"
  /\ LET m == Head(queue[k]) IN
     /\ failure' = IF m.kind = "empty" THEN "empty_message" ELSE "none"
     /\ IF m.kind = "empty" \/ m.level <= level[k] THEN UNCHANGED <<level, rows>>
        ELSE level' = [level EXCEPT ![k] = m.level] /\ rows' = [rows EXCEPT ![k][m.level] = m.rows]
  /\ Pop(k)
  /\ UNCHANGED <<chainVars, feedVars, emitterVars>>

(* The rows of the levels of the message are reverted and the level moves;  *)
(* level 0 is no level to _update_state.                                    *)
ProcessRollback(k) ==
  /\ AtQueue(k) /\ Head(queue[k]).kind = "rollback"
  /\ LET m == Head(queue[k]) IN
     /\ level' = [level EXCEPT ![k] = IF m.to = 0 THEN @ ELSE m.to]
     /\ rows' = [rows EXCEPT ![k] = [l \in Levels |->
                     IF m.to < l /\ l <= m.from THEN NoRows ELSE rows[k][l]]]
  /\ Pop(k)
  /\ UNCHANGED <<chainVars, feedVars, failure, emitterVars>>

-----------------------------------------------------------------------------
(* At first the indexes have nothing, and initialize() has asked for the    *)
(* head.                                                                    *)
NodeInit ==
  /\ kinds \in ((SUBSET EvmKinds) \ {{}}) \cup {{k} : k \in Kinds \ EvmKinds}
  /\ "both_kinds" \in Hazards \/ kinds # EvmKinds
  /\ blocks = <<[level |-> 1, full |-> TRUE]>> /\ chain = <<1>>
  /\ reorgs = 0 /\ faults = 0
  /\ subscribed = "no" /\ heads = [k \in Kinds |-> <<>>] /\ syncLevel = 1 /\ attempts = 0
  /\ failure = "none"
  /\ emitter = <<>> /\ pc = "head" /\ current = 0
  /\ queue = [k \in Kinds |-> <<>>] /\ draining = [k \in Kinds |-> FALSE]
  /\ level = [k \in Kinds |-> 0]
  /\ rows = [k \in Kinds |-> [l \in Levels |-> NoRows]]

Index(k) == Synchronize(k) \/ ProcessData(k) \/ ProcessRollback(k)
=============================================================================
