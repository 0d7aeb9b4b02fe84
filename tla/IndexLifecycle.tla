--------------------------- MODULE IndexLifecycle ---------------------------
(***************************************************************************)
(* One index between a reorganising chain and its database: the Websocket  *)
(* datasource (TzKT flavour), the dispatcher loop and the Index object with *)
(* its queue.                                                              *)
(*                                                                         *)
(* Two tasks interleave at every await.  The Websocket task turns messages *)
(* into queue items; the dispatcher task subscribes, then runs             *)
(* Index.process(), which either synchronizes over REST or works the queue *)
(* off.  The database is seen through `applied': the block whose data each *)
(* level's rows come from; ModelVersioning covers how rows are reverted.   *)
(***************************************************************************)
EXTENDS Integers, Sequences, SequencesExt, FiniteSetsExt

CONSTANTS
  Depth,     \* advanced.rollback_depth of an indexer without a buffer
  BufferSizes, \* values the datasource's buffer_size may have
  Hazards,   \* circumstances the environment may bring about, see Reorg, Drop
  MaxLevel,  \* bound: highest level of the chain
  MaxBlocks, \* bound: blocks with data for the index, over all forks
  MaxReorgs, \* bound
  MaxFaults  \* bound: lost connections and crashes

Circumstances == {"backlog", "near_sync", "offline", "stale_channel",
                  "above_rollback", "lost_rollback", "early_drop",
                  "lost_answer", "early_message", "at_head"}

ASSUME LifecycleAssumption ==
  /\ Depth \in Nat /\ BufferSizes \subseteq Nat
  /\ MaxLevel \in Nat \ {0} /\ MaxBlocks \in Nat \ {0}
  /\ MaxReorgs \in Nat /\ MaxFaults \in Nat
  /\ Hazards \subseteq Circumstances

Levels == 0 .. MaxLevel
Blocks == 0 .. MaxBlocks     \* 0: a block, or no block, without data for us
NoLevel == -1

VARIABLES
  bufferSize, \* of the datasource
  chain,      \* canonical blocks, by level
  minted,     \* blocks with data produced so far
  reorgs, faults,
  connected,  \* the Websocket is up
  subscribed, \* our channel is subscribed on it
  feed,       \* messages sent and not handled yet
  channel,    \* TezosTzktDatasource._channel_levels
  buffer,     \* MessageBuffer: [level -> our messages of it]
  syncLevel,  \* SubscriptionManager's level for us, NoLevel if unset
  spawned,    \* spawn_datasources_event
  pc,         \* where the dispatcher task is
  queue,      \* Index._queue
  current,    \* the RollbackMessage being processed
  position,   \* next level the fetcher asks for
  target,     \* sync_level argument of _synchronize
  fetched,    \* level data received over REST and not processed yet
  state,      \* Index._state: level and status in memory
  stored,     \* the dipdup_index row
  rolledBack, \* the index is in DipDupContext._rolled_back_indexes
  applied     \* [level -> block its rows were derived from]

environment == <<chain, minted, reorgs, faults, bufferSize>>
datasource == <<connected, subscribed, feed, channel, buffer, syncLevel>>
fetcher == <<position, target, fetched>>
vars == <<environment, datasource, spawned, pc, queue, current, fetcher, state,
          stored, rolledBack, applied>>

DataMsg(l, b) == [kind |-> "data", level |-> l, block |-> b]
ReorgMsg(l) == [kind |-> "reorg", level |-> l, block |-> 0]

(* models.RollbackMessage.                                                  *)
RollbackMsg(from, to) == [kind |-> "rollback", from |-> from, to |-> to]
NoRollback == RollbackMsg(0, 0)

(* A buffer takes the place of versioned models.                            *)
RollbackDepth == IF bufferSize = 0 THEN Depth ELSE 0

Elements(s) == {s[n] : n \in DOMAIN s}
HeadLevel == Len(chain)
BlockAt(l) == IF l \in 1 .. HeadLevel THEN chain[l] ELSE 0

-----------------------------------------------------------------------------
(* The chain and the connection.                                            *)

(* A block is added.  Our channel only carries blocks with data for us, but *)
(* the channel of heads carries all of them: a level without data counts in *)
(* the buffer, though for nothing else.                                     *)
Extend(b) ==
  /\ HeadLevel < MaxLevel
  /\ b \in {0, minted + 1} \cap Blocks
  /\ chain' = Append(chain, b)
  /\ minted' = IF b = 0 THEN minted ELSE b
  /\ feed' = IF subscribed /\ (b # 0 \/ bufferSize > 0)
             THEN Append(feed, DataMsg(HeadLevel + 1, b)) ELSE feed
  /\ UNCHANGED <<reorgs, faults, bufferSize, connected, subscribed, channel,
                 buffer, syncLevel, spawned, pc, queue, current, fetcher, state,
                 stored, rolledBack, applied>>

DataAbove(l, s) == \E m \in Elements(s) : m.kind = "data" /\ m.level > l
HoldsRollback(s) == \E m \in Elements(s) : m.kind \in {"reorg", "rollback"}
RollingBack == pc \in {"rollback", "move", "save"}

(* The levels that announced reorgs and rollbacks still lead to.            *)
Destinations ==
  {m.level : m \in {r \in Elements(feed) : r.kind = "reorg"}}
    \cup {m.to : m \in {r \in Elements(queue) : r.kind = "rollback"}}
    \cup (IF RollingBack THEN {current.to} ELSE {})

(* Levels that blocks were announced of.                                    *)
Announced == DOMAIN buffer \cup {m.level : m \in Elements(feed)}

(* The blocks above `to' are replaced, as deep as the database or the       *)
(* buffer is for, counted from the highest block seen.  The circumstances a *)
(* run may allow:                                                           *)
(*   backlog        a replaced block's data is still queued or fetched      *)
(*   near_sync      the target is below the sync level, or the index is     *)
(*   offline        the channel is not subscribed                           *)
(*   stale_channel  the channel level is below the index level              *)
(*   above_rollback a rollback to a lower level is still on its way         *)
Reorg(to) ==
  /\ reorgs < MaxReorgs
  /\ 1 <= to /\ to < HeadLevel
  /\ IF bufferSize = 0
     THEN HeadLevel - to <= Depth
     ELSE \A l \in {HeadLevel} \cup Announced : l - to <= bufferSize
  /\ \/ "backlog" \in Hazards \/ bufferSize > 0
     \/ ~\E s \in {feed, queue, fetched} : DataAbove(to, s)
  /\ "near_sync" \in Hazards \/ (syncLevel <= to /\ syncLevel <= stored.level
                                   /\ pc # "sync")
  /\ "offline" \in Hazards \/ subscribed
  /\ "stale_channel" \in Hazards \/ channel = NoLevel \/ channel >= stored.level
  /\ "above_rollback" \in Hazards \/ \A l \in Destinations : to <= l
  /\ chain' = SubSeq(chain, 1, to)
  /\ reorgs' = reorgs + 1
  /\ feed' = IF subscribed THEN Append(feed, ReorgMsg(to)) ELSE feed
  /\ UNCHANGED <<minted, faults, bufferSize, connected, subscribed, channel,
                 buffer, syncLevel, spawned, pc, queue, current, fetcher, state,
                 stored, rolledBack, applied>>

Connect ==
  /\ spawned /\ ~connected
  /\ connected' = TRUE
  /\ UNCHANGED <<environment, subscribed, feed, channel, buffer, syncLevel,
                 spawned, pc, queue, current, fetcher, state, stored,
                 rolledBack, applied>>

(* Losing the connection or the process loses what was in flight.           *)
MayLose == "lost_rollback" \in Hazards
             \/ ~(HoldsRollback(feed) \/ HoldsRollback(queue) \/ RollingBack)

(* _on_disconnected: subscriptions are reset, the queue, the buffer and the *)
(* channel levels are not.  A dispatcher waiting for the answer to a        *)
(* subscription waits for ever: nothing sets its event.                     *)
Disconnect ==
  /\ connected /\ faults < MaxFaults
  /\ MayLose
  /\ "early_drop" \in Hazards \/ pc \notin {"process", "refresh"}
  /\ "lost_answer" \in Hazards \/ pc # "subscribe"
  /\ faults' = faults + 1
  /\ connected' = FALSE /\ subscribed' = FALSE
  /\ syncLevel' = NoLevel
  /\ feed' = <<>>
  /\ pc' = IF pc = "subscribe" THEN "hung" ELSE pc
  /\ UNCHANGED <<chain, minted, reorgs, bufferSize, channel, buffer, spawned,
                 queue, current, fetcher, state, stored, rolledBack, applied>>

-----------------------------------------------------------------------------
(* The Websocket task: TezosTzktDatasource._on_message and the dispatcher's *)
(* callbacks.                                                               *)

(* Mutant of Yielded: a level too many is kept.                             *)
YieldedLate(held) ==
  {l \in held : Cardinality({k \in held : k > l}) > bufferSize}

(* MessageBuffer.yield_from: the lowest levels, up to the index of a slice. *)
(* Of fewer levels than the size the index is negative and counts from the  *)
(* end.                                                                     *)
Yielded(held) ==
  LET surplus == Cardinality(held) - bufferSize
      count == IF surplus >= 0 THEN surplus ELSE surplus + Cardinality(held)
  IN {l \in held : Cardinality({k \in held : k < l}) < count}

(* The messages of the levels that leave the buffer go to the index.        *)
Emitted(held) ==
  LET upTo[l \in Levels] ==
        LET below == IF l = 0 THEN <<>> ELSE upTo[l - 1]
        IN IF l \in Yielded(DOMAIN held) THEN below \o held[l] ELSE below
  IN upTo[MaxLevel]
Kept(held) == [l \in DOMAIN held \ Yielded(DOMAIN held) |-> held[l]]

(* MessageBuffer.add                                                        *)
Added(m) ==
  LET before == IF m.level \in DOMAIN buffer THEN buffer[m.level] ELSE <<>>
  IN [l \in DOMAIN buffer \cup {m.level} |->
        IF l # m.level THEN buffer[l]
        ELSE IF m.block = 0 THEN before ELSE Append(before, m)]

(* `early_message' lets a message through that the next Process, which      *)
(* synchronizes, throws away with the queue.                                *)
ReceiveData ==
  /\ feed # <<>> /\ Head(feed).kind = "data"
  /\ \/ "early_message" \in Hazards
     \/ pc = "sync" \/ state.level >= syncLevel \/ Head(feed).level <= syncLevel
  /\ feed' = Tail(feed)
  /\ channel' = IF Head(feed).block = 0 THEN channel ELSE Head(feed).level
  /\ LET held == Added(Head(feed))
     IN buffer' = Kept(held) /\ queue' = queue \o Emitted(held)
  /\ UNCHANGED <<environment, connected, subscribed, syncLevel, spawned, pc,
                 current, fetcher, state, stored, rolledBack, applied>>

(* get_channel_level                                                        *)
ChannelLevel == IF channel = NoLevel THEN syncLevel ELSE channel

(* Mutant of Affected: off by one.                                          *)
AffectedDeep(to) == to + 1 < stored.level

(* The rollback target is below the index, whose state is read afresh.      *)
Affected(to) == to < stored.level

(* MessageBuffer.rollback: our messages are dropped level by level from the *)
(* top, as far as the buffer goes.                                          *)
Dropped(from, to) ==
  LET missing == {l \in to + 1 .. from : l \notin DOMAIN buffer}
      reach == IF missing = {} THEN to ELSE Max(missing)
  IN [l \in DOMAIN buffer |-> IF l \in reach + 1 .. from THEN <<>> ELSE buffer[l]]
Buffered(from, to) == to + 1 .. from \subseteq DOMAIN buffer

(* What was sent and is not buffered any more, _on_rollback takes back: it  *)
(* refreshes the index state and queues the rollback for an index above it. *)
ReceiveReorg ==
  /\ feed # <<>> /\ Head(feed).kind = "reorg"
  /\ LET to == Head(feed).level
         from == ChannelLevel
     IN /\ channel' = to
        /\ buffer' = Dropped(from, to)
        /\ IF Buffered(from, to)
           THEN UNCHANGED <<state, queue>>
           ELSE /\ state' = stored
                /\ queue' = IF Affected(to)
                            THEN Append(queue, RollbackMsg(from, to)) ELSE queue
  /\ feed' = Tail(feed)
  /\ UNCHANGED <<environment, connected, subscribed, syncLevel, spawned, pc,
                 current, fetcher, stored, rolledBack, applied>>

-----------------------------------------------------------------------------
(* The dispatcher task.                                                     *)

(* Index._update_state: a level of 0 is taken for `not given'.              *)
Updated(s, status, level) ==
  [status |-> status, level |-> IF level = 0 THEN s.level ELSE level]

(* Datasources are spawned once every index is realtime, or at once with    *)
(* early_realtime.                                                          *)
Spawn ==
  /\ pc = "loop" /\ ~spawned /\ state.status = "realtime"
  /\ spawned' = TRUE
  /\ UNCHANGED <<environment, datasource, pc, queue, current, fetcher, state,
                 stored, rolledBack, applied>>

(* subscribe() sends what is missing once the transport is up and waits.    *)
Subscribe ==
  /\ pc = "loop" /\ spawned /\ ~subscribed /\ connected
  /\ pc' = "subscribe"
  /\ UNCHANGED <<environment, datasource, spawned, queue, current, fetcher,
                 state, stored, rolledBack, applied>>

(* The answer is the current level; it becomes the sync level.              *)
Answer ==
  /\ pc = "subscribe"
  /\ subscribed' = TRUE
  /\ syncLevel' = HeadLevel
  /\ pc' = "loop"
  /\ UNCHANGED <<environment, connected, feed, channel, buffer, spawned, queue,
                 current, fetcher, state, stored, rolledBack, applied>>

(* Subscriptions are complete: process() is scheduled with gather().        *)
Schedule ==
  /\ pc = "loop"
  /\ state.status = "realtime" => spawned
  /\ spawned => subscribed
  /\ pc' = "process"
  /\ UNCHANGED <<environment, datasource, spawned, queue, current, fetcher,
                 state, stored, rolledBack, applied>>

(* Mutants of Behind: off by one; any difference.                           *)
FarBehind(s) == s.level + 1 < syncLevel
ElsewhereThan(s) == s.level # syncLevel

(* The index needs to be synchronized over REST.                            *)
Behind(s) == s.level < syncLevel

(* Mutant of FirstLevel: off by one.                                        *)
LastLevel(s) == s.level

(* Where a synchronization of the index starts.                             *)
FirstLevel(s) == s.level + 1

(* The rest of Index.process once the state is fresh.                       *)
Decide(s) ==
  IF syncLevel = NoLevel
  THEN /\ pc' = "failed"
       /\ state' = s
       /\ UNCHANGED <<queue, stored, position, target>>
  ELSE IF Behind(s)
  THEN /\ pc' = "sync"
       /\ queue' = <<>>
       /\ state' = Updated(s, "syncing", s.level)
       /\ stored' = Updated(s, "syncing", s.level)
       /\ position' = FirstLevel(s)
       /\ target' = syncLevel
  ELSE /\ pc' = IF queue # <<>> THEN "queue" ELSE "loop"
       /\ state' = s
       /\ UNCHANGED <<queue, stored, position, target>>

(* process() of an index no rollback has touched: no await before Decide.   *)
Process ==
  /\ pc = "process"
  /\ IF rolledBack
     THEN pc' = "refresh" /\ UNCHANGED <<queue, state, stored, position, target>>
     ELSE Decide(state)
  /\ UNCHANGED <<environment, datasource, spawned, current, fetched,
                 rolledBack, applied>>

Refresh ==
  /\ pc = "refresh"
  /\ rolledBack' = FALSE
  /\ Decide([state EXCEPT !.level = stored.level])
  /\ UNCHANGED <<environment, datasource, spawned, current, fetched, applied>>

(* The fetcher has not reached the sync level yet.                          *)
MoreToFetch == position <= target

(* One level over REST, as the node knows it now.                           *)
Fetch ==
  /\ pc = "sync" /\ fetched = <<>> /\ MoreToFetch
  /\ fetched' = IF BlockAt(position) # 0
                THEN <<DataMsg(position, BlockAt(position))>> ELSE <<>>
  /\ position' = position + 1
  /\ UNCHANGED <<environment, datasource, spawned, pc, queue, current, target,
                 state, stored, rolledBack, applied>>

(* _process_level_data: rows and index level commit together.               *)
Index(m) ==
  /\ applied' = [applied EXCEPT ![m.level] = m.block]
  /\ state' = Updated(state, state.status, m.level)
  /\ stored' = Updated(state, state.status, m.level)

ProcessFetched ==
  /\ pc = "sync" /\ fetched # <<>>
  /\ fetched' = <<>>
  /\ IF Head(fetched).level <= state.level
     THEN pc' = "failed" /\ UNCHANGED <<state, stored, applied>>
     ELSE Index(Head(fetched)) /\ UNCHANGED pc
  /\ UNCHANGED <<environment, datasource, spawned, queue, current, position,
                 target, rolledBack>>

ExitSync ==
  /\ pc = "sync" /\ fetched = <<>> /\ ~MoreToFetch
  /\ state' = Updated(state, "realtime", target)
  /\ stored' = state'
  /\ pc' = "loop"
  /\ UNCHANGED <<environment, datasource, spawned, queue, current, fetcher,
                 rolledBack, applied>>

(* _process_queue, one item.                                                *)
QueueEmpty ==
  /\ pc = "queue" /\ queue = <<>>
  /\ pc' = "loop"
  /\ UNCHANGED <<environment, datasource, spawned, queue, current, fetcher,
                 state, stored, rolledBack, applied>>

ProcessData ==
  /\ pc = "queue" /\ queue # <<>> /\ Head(queue).kind = "data"
  /\ queue' = Tail(queue)
  /\ IF Head(queue).level <= state.level
     THEN UNCHANGED <<state, stored, applied>>
     ELSE Index(Head(queue))
  /\ UNCHANGED <<environment, datasource, spawned, pc, current, fetcher,
                 rolledBack>>

StartRollback ==
  /\ pc = "queue" /\ queue # <<>> /\ Head(queue).kind = "rollback"
  /\ queue' = Tail(queue)
  /\ current' = Head(queue)
  /\ pc' = "rollback"
  /\ UNCHANGED <<environment, datasource, spawned, fetcher, state, stored,
                 rolledBack, applied>>

(* Mutant of Reverted: `level__lt=from_level'.                              *)
RevertedBelow(l) == current.to < l /\ l < current.from

(* The levels whose updates a rollback reverts.                             *)
Reverted(l) == current.to < l /\ l <= current.from

(* ctx.rollback from the on_index_rollback hook: the updates of the levels  *)
(* from `from' down are reverted, then the level moves, then the index      *)
(* object follows.                                                          *)
RevertRows ==
  /\ pc = "rollback"
  /\ IF current.from - current.to > RollbackDepth
     THEN pc' = "failed" /\ UNCHANGED applied
     ELSE /\ pc' = "move"
          /\ applied' = [l \in Levels |->
               IF Reverted(l) THEN 0 ELSE applied[l]]
  /\ UNCHANGED <<environment, datasource, spawned, queue, current, fetcher,
                 state, stored, rolledBack>>

MoveLevel ==
  /\ pc = "move"
  /\ stored' = [stored EXCEPT !.level = current.to]
  /\ rolledBack' = TRUE
  /\ pc' = "save"
  /\ UNCHANGED <<environment, datasource, spawned, queue, current, fetcher,
                 state, applied>>

SaveState ==
  /\ pc = "save"
  /\ state' = Updated(state, state.status, current.to)
  /\ stored' = state'
  /\ current' = NoRollback
  /\ pc' = "queue"
  /\ UNCHANGED <<environment, datasource, spawned, queue, fetcher,
                 rolledBack, applied>>

(* The process is killed and restarted: datasource.initialize() takes the   *)
(* current head for a sync level.  `at_head': when it comes back the index  *)
(* has left nothing to synchronize, and yet is not in realtime.             *)
Crash ==
  /\ faults < MaxFaults /\ MayLose
  /\ \/ "at_head" \in Hazards
     \/ stored.status = "realtime" \/ stored.level < HeadLevel
  /\ faults' = faults + 1
  /\ connected' = FALSE /\ subscribed' = FALSE
  /\ feed' = <<>> /\ channel' = NoLevel /\ buffer' = <<>>
  /\ syncLevel' = HeadLevel
  /\ spawned' \in BOOLEAN
  /\ pc' = "loop" /\ queue' = <<>> /\ current' = NoRollback /\ fetched' = <<>>
  /\ state' = stored /\ rolledBack' = FALSE
  /\ UNCHANGED <<chain, minted, reorgs, bufferSize, position, target, stored, applied>>

-----------------------------------------------------------------------------
Init ==
  /\ bufferSize \in BufferSizes
  /\ chain = <<1>> /\ minted = 1 /\ reorgs = 0 /\ faults = 0
  /\ connected = FALSE /\ subscribed = FALSE
  /\ feed = <<>> /\ channel = NoLevel /\ buffer = <<>>
  /\ syncLevel = HeadLevel
  /\ spawned \in BOOLEAN
  /\ pc = "loop" /\ queue = <<>> /\ current = NoRollback
  /\ position = 0 /\ target = 0 /\ fetched = <<>>
  /\ state = [status |-> "new", level |-> 0]
  /\ stored = state
  /\ rolledBack = FALSE
  /\ applied = [l \in Levels |-> 0]

Environment ==
  \/ \E b \in Blocks : Extend(b)
  \/ \E to \in Levels : Reorg(to)
  \/ Disconnect
  \/ Crash

Websocket == Connect \/ Answer \/ ReceiveData \/ ReceiveReorg

Dispatcher ==
  \/ Spawn \/ Subscribe \/ Schedule \/ Process \/ Refresh
  \/ Fetch \/ ProcessFetched \/ ExitSync
  \/ QueueEmpty \/ ProcessData \/ StartRollback
  \/ RevertRows \/ MoveLevel \/ SaveState

Next == Environment \/ Websocket \/ Dispatcher

Spec == Init /\ [][Next]_vars

(* The event loop runs both tasks for ever, and the transport reconnects.   *)
FairSpec == Spec /\ WF_vars(Websocket) /\ WF_vars(Dispatcher)

-----------------------------------------------------------------------------
Messages == [kind : {"data", "reorg"}, level : Levels, block : Blocks]
Rollbacks == [kind : {"rollback"}, from : Levels, to : Levels]
States == [status : {"new", "syncing", "realtime"}, level : Levels]

(* Every variable holds what the code can put in it.                        *)
TypeOK ==
  /\ chain \in Seq(Blocks) /\ HeadLevel \in Levels
  /\ minted \in Blocks
  /\ reorgs \in 0 .. MaxReorgs /\ faults \in 0 .. MaxFaults
  /\ connected \in BOOLEAN /\ subscribed \in BOOLEAN /\ spawned \in BOOLEAN
  /\ subscribed => connected /\ syncLevel # NoLevel
  /\ feed \in Seq(Messages)
  /\ bufferSize \in BufferSizes
  /\ DOMAIN buffer \subseteq Levels
  /\ \A l \in DOMAIN buffer : buffer[l] \in Seq(Messages)
  /\ channel \in Levels \cup {NoLevel} /\ syncLevel \in Levels \cup {NoLevel}
  /\ pc \in {"loop", "subscribe", "process", "refresh", "sync", "queue",
             "rollback", "move", "save", "failed", "hung"}
  /\ queue \in Seq(Messages \cup Rollbacks)
  /\ current \in Rollbacks
  /\ position \in 0 .. MaxLevel + 1 /\ target \in Levels
  /\ fetched \in Seq(Messages)
  /\ state \in States /\ stored \in States
  /\ rolledBack \in BOOLEAN
  /\ applied \in [Levels -> Blocks]

(* Nothing is on its way and the index has reached its sync level.          *)
Quiet ==
  /\ pc \in {"loop", "process"}
  /\ subscribed /\ feed = <<>> /\ queue = <<>>
  /\ stored.level >= syncLevel

(* A level has the data of the canonical chain, or none yet and the buffer  *)
(* is about to give it.                                                     *)
Canonical(l) ==
  \/ applied[l] = BlockAt(l)
  \/ /\ applied[l] = 0 /\ l \in DOMAIN buffer /\ buffer[l] # <<>>
     /\ Last(buffer[l]).block = BlockAt(l)

(* An index with nothing left to do holds the data of the canonical chain,  *)
(* every level of it and nothing else, but for the last levels, which are   *)
(* buffered (dipdup.py:593-610, index.py:97-115, 262-276,                   *)
(* tezos_tzkt.py:186-205).                                                  *)
CanonicalWhenQuiet ==
  Quiet => \A l \in Levels : Canonical(l)

(* No exception reaches the dispatcher: there is always a sync level when   *)
(* an index is processed, synchronization never meets a level twice and no  *)
(* rollback is deeper than the reorg it stands for (index.py:130, 217,      *)
(* context.py:585).                                                         *)
NeverFails == pc # "failed"

(* A rollback starts from the index level or above, or rows of the levels   *)
(* in between would stay: what ModelVersioning assumes of the callers of    *)
(* ctx.rollback() (tezos_tzkt.py:343-353, context.py:597).                  *)
RollbackFromHead ==
  pc = "rollback" => current.from >= stored.level /\ current.to < current.from

(* A level is never indexed over rows of another block: what is there is    *)
(* rolled back first (index.py:110-113, 128-130).                           *)
NeverIndexedTwice ==
  [][\A l \in Levels : applied[l] # 0 => applied'[l] \in {0, applied[l]}]_vars

(* The committed index level goes back in a rollback only                   *)
(* (context.py:608).                                                        *)
LevelOnlyRollsBack ==
  [][stored'.level < stored.level =>
       pc = "move" /\ stored'.level = current.to]_vars

(* Whatever happened before, the index ends up subscribed, in realtime and  *)
(* with every message handled (dipdup.py:140-193).                          *)
Settles ==
  <>[](subscribed /\ feed = <<>> /\ queue = <<>>
         /\ state.status = "realtime" /\ stored.level >= syncLevel)

(* And the chain it stopped at is indexed, but for as many levels as are    *)
(* buffered.                                                                *)
CatchesUp ==
  <>[](\A l \in Levels :
         \/ applied[l] = BlockAt(l)
         \/ applied[l] = 0 /\ l > HeadLevel - bufferSize)
=============================================================================
