------------------------------ MODULE EvmNode ------------------------------
(***************************************************************************)
(* An EVM node and its datasource.  Heads and logs come on subscriptions   *)
(* of their own; the Websocket task gathers what belongs to a block in a   *)
(* LevelData, the emitter task waits a moment for its logs, tells the      *)
(* indexes of a rollback when the level is not a new one, and hands out    *)
(* events and transactions.                                                *)
(***************************************************************************)
EXTENDS NodeDatasource

VARIABLES
  logs,       \* notifications of the logs subscription: block, and removed or not
  objects,    \* LevelData ever created; the emitter's queue holds their numbers
  levelData,  \* _level_data: [block -> its LevelData, 0 if there is none]
  known,      \* known_level of the emitter loop
  askedAt     \* the height when the head was asked for, 0 if no answer is waited for

evmVars == <<logs, objects, levelData, known, askedAt>>
ofEvm == kinds \subseteq EvmKinds

-----------------------------------------------------------------------------
(* The node.                                                                *)

(* The notifications of the logs of a block, or that they are removed.      *)
LogsOf(b, removed) == [i \in 1 .. LogCount |-> [block |-> b, log |-> i, removed |-> removed]]

(* New canonical blocks on top of `to': the node announces each of them on  *)
(* every newHeads subscription, takes back the logs of those replaced and   *)
(* sends the new ones.                                                      *)
Announced(new) ==
  /\ heads' = [k \in Kinds |-> IF k \in kinds /\ Announcing THEN heads[k] \o new ELSE heads[k]]
  /\ logs' = IF "events" \in kinds /\ Announcing
       THEN logs \o FlattenSeq([n \in 1 .. Len(chain) |->
                      IF n > Len(chain') - Len(new) /\ blocks[chain[n]].full
                        THEN LogsOf(chain[n], TRUE) ELSE <<>>])
                 \o FlattenSeq([n \in 1 .. Len(new) |->
                      IF blocks'[new[n]].full THEN LogsOf(new[n], FALSE) ELSE <<>>])
       ELSE logs

MintEvm(to, contents) ==
  /\ ofEvm
  /\ Mint(to, contents) /\ Announced(NewBlocks(contents))
  /\ UNCHANGED <<objects, levelData, known, askedAt>>

Extend ==
  /\ \E full \in BOOLEAN : MintEvm(Len(chain), <<full>>)
  /\ UNCHANGED reorgs

(* The highest level the emitter knows of or is about to.                   *)
Evidence ==
  Max({known} \cup {blocks[b].level : b \in UNION {Range(heads[k]) : k \in kinds}}
              \cup {blocks[objects[o].block].level : o \in Range(emitter)})

(* The blocks above `to' are replaced.  Unless a hazard lets it happen, not *)
(* when nobody listens, or not with a sync level yet (offline), when        *)
(* indexes are above the emitter's known_level (stale_known), by a branch   *)
(* that is not as high (shorter), or down to level 0 (genesis).             *)
Reorg(to) ==
  /\ ofEvm /\ reorgs < MaxReorgs /\ to < Len(chain)
  /\ "genesis" \in Hazards \/ to > 0
  /\ "offline" \in Hazards \/ subscribed = "yes"
  /\ "stale_known" \in Hazards \/ \A k \in kinds : Evidence >= Max({level[k], syncLevel})
  /\ \E contents \in BoundedSeq(BOOLEAN, MaxLevel) \ {<<>>} :
       /\ "shorter" \in Hazards \/ to + Len(contents) >= Len(chain)
       /\ MintEvm(to, contents)
  /\ reorgs' = reorgs + 1

-----------------------------------------------------------------------------
(* The connection and the Websocket task.                                   *)

(* eth_subscribe is sent for what is missing; the node notifies from now on.*)
Subscribe == ofEvm /\ Requested /\ UNCHANGED evmVars

(* The id of the subscription is stored, and the head asked for: the        *)
(* dispatcher waits for it, the Websocket task does not.                    *)
StoreSubscription ==
  /\ Running /\ ofEvm /\ subscribed = "asked"
  /\ subscribed' = "stored" /\ askedAt' = Len(chain)
  /\ UNCHANGED <<chainVars, heads, syncLevel, attempts, failure, emitterVars, indexVars>>
  /\ UNCHANGED <<logs, objects, levelData, known>>

(* The next process() of an index clears no message the answer leaves out.  *)
Covered(k, answer) ==
  level[k] < answer => \A m \in Range(queue[k]) : m.kind = "data" /\ m.level <= answer

(* The head, as it was at some moment since, is the sync level of the       *)
(* subscription, whatever has become of the connection.  What comes in the  *)
(* meantime is queued, and cleared with the queue (early_message).          *)
SetLevel ==
  /\ Running /\ ofEvm /\ subscribed \in {"stored", "torn"}
  /\ \E answer \in (askedAt .. Len(chain)) \cup {Len(chain)} :
       /\ "early_message" \in Hazards \/ \A k \in kinds : Covered(k, answer)
       /\ syncLevel' = answer
  /\ subscribed' = (IF subscribed = "stored" THEN "yes" ELSE "deaf") /\ askedAt' = 0
  /\ UNCHANGED <<chainVars, heads, attempts, failure, emitterVars, indexVars>>
  /\ UNCHANGED <<logs, objects, levelData, known>>

(* _level_data is a defaultdict.                                            *)
LevelDataOf(b) == IF levelData[b] = 0 THEN Len(objects) + 1 ELSE levelData[b]
Stored(b) == IF levelData[b] = 0 THEN [block |-> b, events |-> {}, fetch |-> FALSE]
                                 ELSE objects[levelData[b]]
Store(b, object) ==
  /\ objects' = IF levelData[b] = 0 THEN Append(objects, object)
                                    ELSE [objects EXCEPT ![levelData[b]] = object]
  /\ levelData' = [levelData EXCEPT ![b] = LevelDataOf(b)]

(* A head: its LevelData is queued for the emitter.                         *)
ReceiveHead(k) ==
  /\ k \in EvmKinds /\ heads[k] # <<>> /\ Notified
  /\ LET b == Head(heads[k]) IN
     /\ Store(b, [Stored(b) EXCEPT !.fetch = @ \/ k = "transactions"])
     /\ emitter' = Append(emitter, LevelDataOf(b))
  /\ heads' = [heads EXCEPT ![k] = Tail(@)]
  /\ UNCHANGED <<logs, known, askedAt>>

(* What a notification adds to the events: the emitter leaves out logs that *)
(* are removed.                                                             *)
Added(log) == IF log.removed THEN {} ELSE {log.log}

(* Mutant of ReceiveLog: the LevelData is queued, as it is for a head.      *)
ReceiveLogAndQueue ==
  /\ logs # <<>> /\ Notified
  /\ LET b == Head(logs).block IN
     /\ Store(b, [Stored(b) EXCEPT !.events = @ \cup Added(Head(logs))])
     /\ emitter' = Append(emitter, LevelDataOf(b))
  /\ logs' = Tail(logs)
  /\ UNCHANGED <<heads, known, askedAt>>

(* A log, of a block whose head may not have come.                          *)
ReceiveLog ==
  /\ logs # <<>> /\ Notified
  /\ LET b == Head(logs).block
     IN Store(b, [Stored(b) EXCEPT !.events = @ \cup Added(Head(logs))])
  /\ logs' = Tail(logs)
  /\ UNCHANGED <<heads, emitter, known, askedAt>>

(* Blocks that are on their way to the indexes.                             *)
DataIn(messages) == {m \in Range(messages) : m.kind = "data"}
Held == {objects[o].block : o \in Range(emitter) \cup (IF pc = "head" THEN {} ELSE {current})}
          \cup UNION {{m.rows.block : m \in DataIn(queue[k])} : k \in kinds}

(* No announcement is lost (lost_rollback) of blocks that replace some the  *)
(* indexes or the emitter have passed or are about to, or that follow a     *)
(* rollback still in a queue.                                               *)
UpToDate(k) == \A l \in 1 .. level[k] : rows[k][l] = Canonical(k, l)
NoneReplaced ==
  /\ Held \subseteq Range(chain)
  /\ \A k \in kinds : /\ UpToDate(k)
                      /\ \A m \in Range(queue[k]) : m.kind = "data"
                      /\ \A b \in Range(heads[k]) : blocks[b].level > known

(* Nor some of the logs of a block (lost_logs).  And indexes do not         *)
(* synchronize further before the emitter comes to a rollback it has in its *)
(* queue (stale_known).                                                     *)
Disconnect ==
  /\ ofEvm
  /\ "lost_rollback" \in Hazards \/ NoneReplaced
  /\ "lost_logs" \in Hazards \/ \A i \in DOMAIN logs : logs[i].block \notin Held
  /\ "stale_known" \in Hazards \/ \A o \in Range(emitter) : blocks[objects[o].block].level > known
  /\ Disconnected
  /\ logs' = <<>>
  /\ UNCHANGED <<objects, levelData, known, askedAt>>

(* The third task of run(): no message has come for connection_timeout, be  *)
(* it that there is none, that the connection is lost or that nobody has    *)
(* subscribed.                                                              *)
Watchdog ==
  /\ Running /\ ofEvm
  /\ subscribed # "asked" /\ logs = <<>> /\ \A k \in kinds : heads[k] = <<>>
  /\ failure' = "watchdog"
  /\ UNCHANGED <<chainVars, feedVars, emitterVars, indexVars, evmVars>>

(* The process is killed, no rollback being on its way (lost_rollback).     *)
Crash ==
  /\ ofEvm /\ Restarted
  /\ "lost_rollback" \in Hazards \/ \A k \in kinds : UpToDate(k)
  /\ logs' = <<>> /\ objects' = <<>> /\ levelData' = [b \in 1 .. MaxBlocks |-> 0] /\ known' = 0
  /\ askedAt' = 0

-----------------------------------------------------------------------------
(* The emitter task.                                                        *)

(* Messages a rollback should not have to wait behind.                      *)
Overtakes(to, messages) ==
  \E m \in Range(messages) : \/ m.kind = "data" /\ m.level > to
                             \/ m.kind = "rollback" /\ m.to < to

(* Mutant of RollsBack: only a lower level is one that was known.           *)
RollsBackBelow(l) == l < known

RollsBack(l) == l <= known

RollbackTo(l) == l - 1

(* Mutant of RollbackFrom: known_level has been moved before.               *)
RollbackFromHead(l) == l

RollbackFrom(l) == known

(* The next head, NODE_LEVEL_TIMEOUT after its LevelData was created.       *)
(* emit_rollback for a level that is not a new one: _on_rollback skips the  *)
(* indexes at or below the target, by the level they have stored, though    *)
(* they may have data above it, or a rollback to below it, in their queues  *)
(* (backlog); an index about to synchronize clears its queue, the message   *)
(* included (early_message).                                                *)
EmitHead ==
  /\ Running /\ ofEvm /\ pc = "head" /\ emitter # <<>>
  /\ LET o == Head(emitter)
         l == blocks[objects[o].block].level
         Affected(k) == RollsBack(l) /\ RollbackTo(l) < level[k]
     IN /\ "backlog" \in Hazards
          \/ (RollsBack(l) => \A k \in kinds : ~Overtakes(RollbackTo(l), queue[k]))
        /\ "early_message" \in Hazards \/ \A k \in kinds : Affected(k) => level[k] >= syncLevel
        /\ queue' = [k \in Kinds |-> IF k \in kinds /\ Affected(k)
                       THEN Append(queue[k], RollbackMsg(RollbackFrom(l), RollbackTo(l)))
                       ELSE queue[k]]
        /\ known' = l /\ current' = o
  /\ emitter' = Tail(emitter) /\ pc' = "data"
  /\ UNCHANGED <<chainVars, feedVars, failure, logs, objects, levelData, askedAt>>
  /\ UNCHANGED <<draining, level, rows>>

(* The events gathered so far; later ones are never emitted (late_logs).    *)
EmitEvents ==
  /\ Running /\ pc = "data"
  /\ LET o == objects[current] IN
     /\ "late_logs" \in Hazards
        \/ ~ \E i \in DOMAIN logs : logs[i].block = o.block /\ ~logs[i].removed
     /\ IF o.events # {} /\ "events" \in kinds THEN Push("events", DataMsg(o.block, o.events))
                                              ELSE UNCHANGED queue
     /\ pc' = IF o.fetch THEN "transactions" ELSE "forget"
  /\ UNCHANGED <<chainVars, feedVars, failure, emitter, current, draining, level, rows, evmVars>>

(* The transactions of the block the node has at that level by now, if any. *)
EmitTransactions ==
  /\ Running /\ pc = "transactions"
  /\ LET l == blocks[objects[current].block].level IN
     IF l > Len(chain) THEN failure' = "no_block" /\ UNCHANGED <<pc, queue>>
     ELSE /\ IF blocks[chain[l]].full THEN Push("transactions", DataMsg(chain[l], {}))
                                      ELSE UNCHANGED queue
          /\ pc' = "forget" /\ UNCHANGED failure
  /\ UNCHANGED <<chainVars, feedVars, emitter, current, draining, level, rows, evmVars>>

(* del _level_data[head.hash]: a KeyError if it has been deleted before.    *)
Forget ==
  /\ Running /\ pc = "forget"
  /\ LET b == objects[current].block IN
     IF levelData[b] = 0 THEN failure' = "key_error" /\ UNCHANGED levelData
                         ELSE levelData' = [levelData EXCEPT ![b] = 0] /\ UNCHANGED failure
  /\ pc' = "head"
  /\ UNCHANGED <<chainVars, feedVars, emitter, current, indexVars, logs, objects, known, askedAt>>

-----------------------------------------------------------------------------
EvmInit ==
  /\ logs = <<>> /\ objects = <<>> /\ levelData = [b \in 1 .. MaxBlocks |-> 0] /\ known = 0
  /\ askedAt = 0

Websocket ==
  Subscribe \/ StoreSubscription \/ SetLevel \/ ReceiveLog \/ \E k \in kinds : ReceiveHead(k)
Emitter == EmitHead \/ EmitEvents \/ EmitTransactions \/ Forget

EvmNext ==
  \/ Extend \/ (\E to \in 0 .. MaxLevel : Reorg(to))
  \/ Disconnect \/ Crash \/ Watchdog \/ Websocket \/ Emitter
=============================================================================
