----------------------- MODULE NodeFeedsCanonical_proofs -----------------------
(***************************************************************************)
(* What NodeFeeds promises when nothing is left to do, for every value of   *)
(* its other constants: the rows of the index are those of the chain.       *)
(***************************************************************************)
EXTENDS NodeFeeds_proofs

-----------------------------------------------------------------------------
(* An EVM node: canonical rows.                                             *)

Faithful ==
  /\ {"both_kinds", "early_message", "late_logs", "lost_logs", "genesis", "torn_answer"}
       \intersect Hazards = {}
  /\ Attended

(* The rows an index should have of a level, and the levels the emitter     *)
(* will roll back.                                                          *)
Truth(l) == Canonical(Ix, l)
Undone(l) ==
  \E i \in 1 .. PathLength : \E j \in 1 .. PathLength : i < j /\ Path[i] >= l /\ l >= Path[j]
Cleared(l) == \E q \in 1 .. Len(Queue) : IsRollback(Queue[q]) /\ Queue[q].to < l
Beyond(l) == \A j \in 1 .. PathLength : Path[j] < l

(* A block that is still to be emitted.                                     *)
ToEmit == pc = "data" \/ (pc = "transactions" /\ Ix = "transactions")
Emits(b) == ToEmit /\ BlockOf(current) = b

(* Whether a level will be undone depends on the path alone,                *)
LEMMA UndoneStays ==
  ASSUME Path' = Path
  PROVE  \A l : (Undone(l)' <=> Undone(l)) /\ (Beyond(l)' <=> Beyond(l))
  BY DEF Undone, Beyond, PathLength

(* and stays so as that grows; a branch undoes what is above its root.      *)
LEMMA UndoneGrows ==
  ASSUME PathFacts, NEW to \in Nat, NEW c \in Nat \ {0}, AheadGrows(to, c), NEW l \in Int
  PROVE  /\ Undone(l) => Undone(l)'
         /\ \A j \in 1 .. PathLength : Path[j] >= l /\ l >= to + 1 => Undone(l)'
<1>1. PICK N \in Nat \ {0} : N = PathLength
  BY DEF PathFacts
<1>2. PathLength' = N + c /\ \A j \in 1 .. N : Path'[j] = Path[j] /\ j \in 1 .. N + c
  BY <1>1 DEF AheadGrows, PathLength
<1>3. Path'[N + 1] = to + 1 /\ N + 1 \in 1 .. N + c
  BY <1>1 DEF AheadGrows, PathLength
<1>4. ASSUME Undone(l) PROVE Undone(l)'
  <2>1. PICK i \in 1 .. N, j \in 1 .. N : i < j /\ Path[i] >= l /\ l >= Path[j]
    BY <1>1, <1>4 DEF Undone
  <2>2. i \in 1 .. N + c /\ j \in 1 .. N + c /\ Path'[i] = Path[i] /\ Path'[j] = Path[j]
    BY <1>2
  <2> QED
    BY <1>2, <2>1, <2>2 DEF Undone
<1>5. ASSUME NEW j \in 1 .. N, Path[j] >= l, l >= to + 1 PROVE Undone(l)'
  <2>1. j \in 1 .. N + c /\ Path'[j] = Path[j] /\ j < N + 1
    BY <1>2
  <2> QED
    BY <1>2, <1>3, <1>5, <2>1 DEF Undone
<1> QED
  BY <1>1, <1>4, <1>5

(* The emitter leaves behind what it is about to roll back.                 *)
LEMMA UndoneMoves ==
  ASSUME PathFacts, AheadMoves, NEW l \in Int, Undone(l)
  PROVE  Undone(l)' \/ (known' <= l /\ l <= known)
<1>1. PICK N \in Nat \ {0} : N = PathLength /\ PathLength' = N - 1
  BY DEF PathFacts, AheadMoves, PathLength
<1>2. \A j \in 2 .. N : j - 1 \in 1 .. N - 1 /\ Path'[j - 1] = Path[j] /\ Path[j] \in Nat
  <2>1. \A j \in 2 .. N : j - 1 \in 1 .. N - 1 /\ (j - 1) + 1 = j /\ j \in 1 .. N
    BY <1>1
  <2>2. \A n \in 1 .. N - 1 : Path'[n] = Path[n + 1]
    BY <1>1 DEF AheadMoves, PathLength
  <2>3. \A j \in 1 .. N : Path[j] \in Nat
    BY <1>1 DEF PathFacts
  <2> QED
    BY <2>1, <2>2, <2>3
<1>3. PICK i \in 1 .. N, j \in 1 .. N : i < j /\ Path[i] >= l /\ l >= Path[j]
  BY <1>1 DEF Undone
<1>4. j \in 2 .. N /\ 2 \in 2 .. N
  BY <1>3
<1>5. Path[1] = known /\ Path[2] = known' /\ Path[2] \in Nat
  BY <1>2, <1>4 DEF PathFacts, AheadMoves
<1>6. CASE i # 1
  <2>1. i \in 2 .. N /\ i - 1 < j - 1
    BY <1>3, <1>6
  <2> QED
    BY <1>1, <1>2, <1>3, <1>4, <2>1 DEF Undone
<1>7. CASE i = 1 /\ Path[2] >= l
  <2>1. CASE j = 2
    BY <1>3, <1>5, <1>7, <2>1
  <2>2. CASE j # 2
    <3>1. 2 - 1 < j - 1 /\ Path'[2 - 1] >= l /\ l >= Path'[j - 1]
      BY <1>2, <1>3, <1>4, <1>7, <2>2
    <3> QED
      BY <1>1, <1>2, <1>4, <3>1 DEF Undone
  <2> QED
    BY <2>1, <2>2
<1>8. CASE i = 1 /\ Path[2] < l
  BY <1>3, <1>5, <1>8 DEF PathFacts
<1> QED
  BY <1>2, <1>4, <1>6, <1>7, <1>8

(* The canonical rows stay as long as the chain does,                       *)
LEMMA TruthStays ==
  ASSUME UNCHANGED <<blocks, chain>>, Ix' = Ix
  PROVE  \A l : Truth(l)' = Truth(l)
  BY DEF Truth, Canonical, RowsOf

(* below the root of a branch; above the chain there are none.              *)
LEMMA TruthBranch ==
  ASSUME EvmTypes, EvmTypes', Ix' = Ix, NEW to \in 0 .. Len(chain), NEW c \in Nat \ {0},
         Len(chain') = to + c, \A l \in 1 .. to : chain'[l] = chain[l],
         \A b \in Blocks : blocks'[b] = blocks[b]
  PROVE  /\ \A l \in 1 .. to : Truth(l)' = Truth(l)
         /\ \A l : l \notin 1 .. Len(chain) => Truth(l) = NoRows
<1>1. Len(chain) \in Nat /\ to \in Nat /\ to <= Len(chain) /\ DOMAIN chain = 1 .. Len(chain)
  BY BlocksAre DEF EvmTypes, ChainTypes
<1>2. DOMAIN chain' = 1 .. Len(chain')
  BY DEF EvmTypes, ChainTypes
<1>3. ASSUME NEW l \in 1 .. to PROVE Truth(l)' = Truth(l)
  <2>1. l \in DOMAIN chain /\ l \in DOMAIN chain' /\ chain'[l] = chain[l] /\ chain[l] \in Blocks
    BY <1>1, <1>2 DEF EvmTypes, ChainTypes
  <2>2. blocks'[chain[l]] = blocks[chain[l]]
    BY <2>1
  <2> QED
    BY <2>1, <2>2 DEF Truth, Canonical, RowsOf
<1> QED
  BY <1>1, <1>3 DEF Truth, Canonical

-----------------------------------------------------------------------------
(* An EVM node: the steps, by what they do to the rows and what they are    *)
(* made of.                                                                 *)

(* No connection is lost while the head is waited for.                      *)
Unbroken == subscribed \in {"no", "asked", "stored", "yes"}

Still == AheadStays /\ UNCHANGED <<blocks, chain, known>>
AsIs == QStays /\ UNCHANGED <<draining, level, rows>>

Branched(to, contents) ==
  /\ to \in 0 .. Len(chain) /\ contents \in Seq(BOOLEAN) /\ Len(contents) \in Nat \ {0}
  /\ Minted(to, contents) /\ Told(to, contents) /\ AsIs
  /\ UNCHANGED <<subscribed, syncLevel, emitter, pc, current, objects, levelData, known>>
  /\ IF subscribed = "no" THEN AheadStays ELSE AheadGrows(to, Len(contents))
  /\ \/ to = Len(chain)
     \/ /\ subscribed = "yes" /\ to > 0 /\ to + Len(contents) >= Len(chain)
        /\ level[Ix] <= Path[PathLength] /\ syncLevel <= Path[PathLength]
Lost ==
  /\ AheadCut /\ AsIs
  /\ UNCHANGED <<blocks, chain, known, emitter, objects, levelData, pc, current>>
  /\ subscribed' = "no" /\ syncLevel' = 0 /\ Len(logs') = 0
  /\ \A n \in 1 .. Len(emitter) : chain[Lv(Ahead[n])] = Ahead[n]
  /\ \A i \in 1 .. Len(emitter) + 1 : \A j \in 1 .. Len(emitter) + 1 : i < j => Path[i] < Path[j]
  /\ pc # "head" => chain[known] = BlockOf(current)
  /\ \A l \in 1 .. level[Ix] : rows[Ix][l] = Truth(l)
  /\ \A p \in 1 .. Len(Queue) : IsData(Queue[p]) /\ Queue[p].rows.block \in Range(chain)
  /\ \A n \in Len(emitter) + 1 .. Len(Ahead) : Lv(Ahead[n]) > known
  /\ \A b \in Range(logs) :
       /\ \A n \in 1 .. Len(emitter) : b.block # Ahead[n]
       /\ pc # "head" => b.block # BlockOf(current)
Restart ==
  /\ Len(Ahead') = 0 /\ Len(Path') = 1 /\ Path'[1] = 0 /\ known' = 0
  /\ QCleared /\ ~draining'[Ix] /\ UNCHANGED <<blocks, chain, level, rows>>
  /\ subscribed' = "no" /\ syncLevel' = Len(chain) /\ pc' = "head" /\ Len(emitter') = 0
  /\ Len(logs') = 0 /\ \A b \in 1 .. MaxBlocks : levelData'[b] = 0
  /\ \A l \in 1 .. level[Ix] : rows[Ix][l] = Truth(l)
Asked ==
  /\ Still /\ AsIs /\ subscribed = "no" /\ subscribed' = "asked" /\ ~draining[Ix]
  /\ UNCHANGED <<syncLevel, emitter, pc, current, objects, levelData, logs>>
Identified ==
  /\ Still /\ AsIs /\ subscribed = "asked" /\ subscribed' = "stored" /\ askedAt' = Len(chain)
  /\ UNCHANGED <<syncLevel, emitter, pc, current, objects, levelData, logs>>
Answered ==
  /\ Still /\ AsIs /\ subscribed = "stored" /\ subscribed' = "yes"
  /\ syncLevel' \in (askedAt .. Len(chain)) \cup {Len(chain)}
  /\ level[Ix] < syncLevel' =>
       \A p \in 1 .. Len(Queue) : IsData(Queue[p]) /\ Queue[p].level <= syncLevel'
  /\ UNCHANGED <<emitter, pc, current, objects, levelData, logs>>

(* The height at which the head was asked for is remembered.                *)
Recalled ==
  \/ askedAt' = askedAt
  \/ askedAt' \in {0, Len(chain)} /\ ~(subscribed = "stored" /\ subscribed' = "stored")

(* Nothing that concerns the rows.                                          *)
Idle ==
  /\ Still /\ AsIs /\ UNCHANGED <<subscribed, syncLevel>> /\ CurrentStays
  /\ ToEmit' <=> ToEmit
  /\ ReceiveLog \/ ReceiveHead(Ix) \/ Forgotten \/ UNCHANGED <<emitter, objects, levelData, logs>>

(* A connection is lost with nothing that matters.                          *)
LEMMA LostIs ==
  ASSUME Covering, Faithful, Unbroken, Disconnect, AheadCut
  PROVE  Lost
<1>1. /\ AheadFacts /\ PathFacts /\ EvmTypes /\ kinds = {Ix} /\ emitter \in Seq(Nat)
      /\ chain \in Seq(Nat) /\ logs \in Seq(Notices)
  BY AheadIs, PathIs DEF Covering, EvmTypes, EmitterTypes, ChainTypes, FeedTypes
<1>2. /\ NoneReplaced /\ logs' = <<>> /\ subscribed' = "no" /\ syncLevel' = 0
      /\ UNCHANGED <<blocks, chain, known, emitter, objects, levelData, pc, current>>
      /\ UNCHANGED <<queue, draining, level, rows>>
      /\ \A i \in DOMAIN logs : logs[i].block \notin Held
  BY DEF Disconnect, Disconnected, Faithful, Attended, Unbroken, emitterVars, indexVars
<1>3. /\ \A n \in 1 .. Len(emitter) : chain[Lv(Ahead[n])] = Ahead[n]
      /\ \A i \in 1 .. Len(emitter) + 1 : \A j \in 1 .. Len(emitter) + 1 :
           i < j => Path[i] < Path[j]
  BY CutAscends DEF Covering, Faithful, Attended
<1>4. \A b \in Range(chain) : b \in Blocks /\ chain[Lv(b)] = b
  <2>1. ASSUME NEW b \in Range(chain) PROVE b \in Blocks /\ chain[Lv(b)] = b
    <3>1. PICK l \in 1 .. Len(chain) : chain[l] = b
      BY <1>1, RangeIs
    <3> QED
      BY <1>1, <3>1 DEF EvmTypes, ChainTypes
  <2> QED
    BY <2>1
<1>5. pc # "head" => BlockOf(current) \in Held
  BY DEF Held, BlockOf
<1>6. pc # "head" => chain[known] = BlockOf(current)
  BY <1>2, <1>4, <1>5 DEF NoneReplaced, Covering, Knows
<1>7. \A n \in 1 .. Len(emitter) : Ahead[n] \in Held
  <2>1. \A n \in 1 .. Len(emitter) : emitter[n] \in Range(emitter) /\ Ahead[n] = BlockOf(emitter[n])
    BY <1>1, RangeIs DEF AheadFacts
  <2> QED
    BY <2>1 DEF Held, BlockOf
<1>8. \A l \in 1 .. level[Ix] : rows[Ix][l] = Truth(l)
  BY <1>1, <1>2 DEF NoneReplaced, UpToDate, Truth
<1>9. ASSUME NEW p \in 1 .. Len(Queue)
      PROVE  IsData(Queue[p]) /\ Queue[p].rows.block \in Range(chain)
  <2>1. Queue \in Seq(Messages)
    BY <1>1 DEF EvmTypes, IndexTypes, Queue, Kinds
  <2>2. Queue[p] \in Range(Queue)
    BY <2>1, RangeIs
  <2>3. Queue[p].kind = "data"
    BY <1>1, <1>2, <2>2 DEF NoneReplaced, Queue
  <2>4. Queue[p].rows.block \in Held
    BY <1>1, <2>2, <2>3 DEF Held, DataIn, Queue
  <2> QED
    BY <1>2, <2>3, <2>4 DEF NoneReplaced, IsData
<1>10. ASSUME NEW n \in Len(emitter) + 1 .. Len(Ahead) PROVE Lv(Ahead[n]) > known
  <2>1. PICK e \in Nat, h \in Nat : e = Len(emitter) /\ h = Len(heads[Ix]) /\ Len(Ahead) = e + h
    BY <1>1 DEF AheadFacts
  <2>2. n - e \in 1 .. h /\ n = e + (n - e)
    BY <1>10, <2>1
  <2>3. Ahead[n] = heads[Ix][n - e] /\ n - e \in 1 .. Len(heads[Ix])
    BY <1>1, <2>1, <2>2 DEF AheadFacts
  <2>4. heads[Ix][n - e] \in Range(heads[Ix])
    BY <1>1, <2>3, RangeIs DEF AheadFacts
  <2> QED
    BY <1>1, <1>2, <2>3, <2>4 DEF NoneReplaced, Lv
<1>11. ASSUME NEW b \in Range(logs)
       PROVE  /\ \A n \in 1 .. Len(emitter) : b.block # Ahead[n]
              /\ pc # "head" => b.block # BlockOf(current)
  <2>1. PICK i \in 1 .. Len(logs) : logs[i] = b
    BY <1>1, RangeIs
  <2>2. b.block \in Blocks /\ i \in DOMAIN logs
    BY <1>1, <2>1 DEF EvmTypes, FeedTypes
  <2> QED
    BY <1>2, <1>5, <1>7, <2>1, <2>2
<1>12. Len(logs') = 0
  BY <1>2
<1>13. AsIs
  BY <1>1, <1>2 DEF AsIs, QStays, Queue, Ix, Disconnect, Disconnected
<1> QED
  BY <1>2, <1>3, <1>6, <1>8, <1>9, <1>10, <1>11, <1>12, <1>13 DEF Lost

(* A step is one of these.                                                  *)
Indexing ==
  Still /\ UNCHANGED <<objects, levelData, logs>> /\ (Synced \/ DataTaken \/ RollbackTaken)
Forms ==
  \/ \E to \in 0 .. Len(chain), contents \in Seq(BOOLEAN) : Branched(to, contents)
  \/ Lost \/ Restart \/ Asked \/ Identified \/ Answered \/ Idle
  \/ HeadEmitted /\ AheadMoves
  \/ Still /\ (EventsEmitted \/ TransactionsEmitted)
  \/ Indexing

(* A branch starts above everything the index has or is about to have.      *)
LEMMA BranchedIs ==
  ASSUME Covering, Faithful, Ix' = Ix, NEW to \in 0 .. Len(chain), NEW contents \in Seq(BOOLEAN),
         Branch(to, contents),
         Unbroken, IF Announcing THEN AheadGrows(to, Len(contents)) ELSE AheadStays
  PROVE  Branched(to, contents)
<1>1. /\ Minted(to, contents) /\ Told(to, contents) /\ Len(contents) \in Nat \ {0}
      /\ UNCHANGED <<subscribed, syncLevel, emitter, pc, current, queue, draining, level, rows>>
      /\ UNCHANGED <<objects, levelData, known>>
  BY BranchFacts DEF Covering
<1>2. AsIs
  BY <1>1 DEF AsIs, QStays, Queue
<1>3. PathFacts
  BY PathIs DEF Covering
<1>4. Evidence <= Path[PathLength] /\ Evidence \in Int /\ Path[PathLength] \in Int
  <2>1. Path[PathLength] \in Int /\ \A i \in 1 .. PathLength : Path[i] <= Path[PathLength]
    BY <1>3 DEF PathFacts, Covering, Turns
  <2> QED
    BY <2>1, EvidenceIs DEF Covering
<1>5. /\ Max({level[Ix], syncLevel}) >= level[Ix] /\ Max({level[Ix], syncLevel}) >= syncLevel
      /\ Max({level[Ix], syncLevel}) \in Int /\ level[Ix] \in Int /\ syncLevel \in Int
  BY <1>3, MaxOfTwo DEF PathFacts
<1>6. \/ to = Len(chain)
      \/ /\ to > 0 /\ subscribed = "yes" /\ Evidence >= Max({level[Ix], syncLevel})
         /\ to + Len(contents) >= Len(chain)
  BY DEF Branch, Faithful, Attended
<1>7. \/ to = Len(chain)
      \/ /\ subscribed = "yes" /\ to > 0 /\ to + Len(contents) >= Len(chain)
         /\ level[Ix] <= Path[PathLength] /\ syncLevel <= Path[PathLength]
  BY <1>4, <1>5, <1>6
<1>8. IF subscribed = "no" THEN AheadStays ELSE AheadGrows(to, Len(contents))
  BY DEF Unbroken, Announcing
<1> QED
  BY <1>1, <1>2, <1>7, <1>8 DEF Branched

(* Nothing is left after a restart.                                         *)
LEMMA RestartIs ==
  ASSUME EvmTypes, Faithful, Ix' = Ix, Crash, QCleared,
         Len(Ahead') = 0, Len(Path') = 1, Path'[1] = 0
  PROVE  Restart
<1>1. kinds = {Ix} /\ Ix \in Kinds
  BY DEF EvmTypes, Kinds
<1>2. /\ UNCHANGED <<blocks, chain, level, rows>> /\ known' = 0
      /\ subscribed' = "no" /\ syncLevel' = Len(chain) /\ pc' = "head" /\ emitter' = <<>>
      /\ logs' = <<>> /\ levelData' = [b \in 1 .. MaxBlocks |-> 0]
      /\ draining' = [k \in Kinds |-> FALSE] /\ UpToDate(Ix)
  BY <1>1 DEF Crash, Restarted, Faithful, Attended
<1>3. \A l \in 1 .. level[Ix] : rows[Ix][l] = Truth(l)
  BY <1>2 DEF UpToDate, Truth
<1>4. Len(emitter') = 0 /\ Len(logs') = 0 /\ ~draining'[Ix]
  BY <1>1, <1>2, NoElements
<1> QED
  BY <1>2, <1>3, <1>4 DEF Restart

(* The subscription, asked for and answered, and what waits for messages.   *)
LEMMA AskedIs ==
  ASSUME EvmTypes, Unbroken, Faithful, Ix' = Ix, AheadStays, UNCHANGED <<blocks, chain, known>>
  PROVE  /\ Subscribe => Asked
         /\ StoreSubscription => Identified
         /\ SetLevel => Answered
         /\ Watchdog => Idle
<1>1. kinds = {Ix} /\ Ix \in kinds
  BY DEF EvmTypes
<1>2. ASSUME Subscribe PROVE Asked
  BY <1>1, <1>2 DEF Subscribe, Requested, Asked, Still, AsIs, QStays, Queue, emitterVars,
     indexVars, evmVars
<1>3. ASSUME StoreSubscription PROVE Identified
  BY <1>3 DEF StoreSubscription, Identified, Still, AsIs, QStays, Queue, emitterVars, indexVars
<1>4. ASSUME SetLevel PROVE Answered
  <2>1. "early_message" \notin Hazards
    BY DEF Faithful
  <2>2. /\ subscribed = "stored" /\ subscribed' = "yes"
        /\ syncLevel' \in (askedAt .. Len(chain)) \cup {Len(chain)} /\ Covered(Ix, syncLevel')
    BY <1>1, <1>4, <2>1 DEF SetLevel, Unbroken
  <2>3. Queue \in Seq(Messages)
    BY DEF EvmTypes, IndexTypes, Queue, EvmKinds, Kinds
  <2>4. ASSUME level[Ix] < syncLevel', NEW p \in 1 .. Len(Queue)
        PROVE  IsData(Queue[p]) /\ Queue[p].level <= syncLevel'
    <3>1. Queue[p] \in Range(queue[Ix])
      BY <2>3, RangeIs DEF Queue
    <3> QED
      BY <2>2, <2>4, <3>1 DEF Covered, IsData
  <2>5. /\ UNCHANGED <<emitter, pc, current, objects, levelData, logs>>
        /\ UNCHANGED <<queue, draining, level, rows>>
    BY <1>4 DEF SetLevel, emitterVars, indexVars
  <2> QED
    BY <2>2, <2>4, <2>5 DEF Answered, Still, AsIs, QStays, Queue
<1>5. ASSUME Watchdog PROVE Idle
  <2>1. UNCHANGED <<feedVars, emitterVars, indexVars, evmVars>>
    BY <1>5 DEF Watchdog
  <2>2. CurrentStays
    BY <2>1 DEF EvmTypes, ObjectTypes, CurrentStays, BlockOf, Lv, emitterVars, evmVars
  <2> QED
    BY <2>1, <2>2 DEF Idle, Still, AsIs, QStays, Queue, ToEmit, feedVars, emitterVars, indexVars,
       evmVars
<1> QED
  BY <1>2, <1>3, <1>4, <1>5

(* What only concerns the LevelDatas.                                       *)
LEMMA IdleIs ==
  ASSUME EvmTypes, Ix' = Ix, AheadStays, UNCHANGED <<blocks, chain, known>>,
         ReceiveLog \/ ReceiveHead(Ix) \/ (Forget /\ Forgotten) \/ UNCHANGED <<nodeVars, evmVars>>
  PROVE  Idle
<1>1. \A o \in 1 .. Len(objects) : BlockOf(o) \in Blocks
  BY DEF EvmTypes, ObjectTypes
<1>2. \A b \in Blocks : Lv(b)' = Lv(b)
  BY DEF Lv
<1>3. Still
  BY DEF Still
<1>4. CASE ReceiveLog
  <2>1. UNCHANGED <<subscribed, syncLevel, draining, level, rows, queue, pc, current>>
    BY <1>4 DEF ReceiveLog, Notified, chainVars, indexVars
  <2>2. PICK b \in Blocks, object \in LevelDatas : LogReceived(b, object)
    BY <1>4, ReceiveLogIs
  <2>3. CurrentStays
    BY <1>1, <1>2, <2>1, <2>2 DEF CurrentStays, LogReceived, Filed, BlockOf
  <2> QED
    BY <1>3, <1>4, <2>1, <2>3 DEF Idle, AsIs, QStays, Queue, ToEmit
<1>5. CASE ReceiveHead(Ix)
  <2>1. UNCHANGED <<subscribed, syncLevel, draining, level, rows, queue, pc, current>>
    BY <1>5 DEF ReceiveHead, Notified, chainVars, indexVars
  <2>2. PICK b \in Blocks, object \in LevelDatas : HeadReceived(b, object)
    BY <1>5, ReceiveHeadIs
  <2>3. CurrentStays
    BY <1>1, <1>2, <2>1, <2>2 DEF CurrentStays, HeadReceived, Filed, BlockOf
  <2> QED
    BY <1>3, <1>5, <2>1, <2>3 DEF Idle, AsIs, QStays, Queue, ToEmit
<1>6. CASE Forgotten
  <2>1. /\ UNCHANGED <<subscribed, syncLevel, draining, level, rows, objects>> /\ QStays
        /\ pc = "forget" /\ pc' = "head"
    BY <1>6 DEF Forgotten, Emitting
  <2>2. CurrentStays
    BY <1>1, <1>2, <2>1 DEF CurrentStays, BlockOf
  <2> QED
    BY <1>3, <1>6, <2>1, <2>2 DEF Idle, AsIs, ToEmit
<1>7. CASE UNCHANGED <<nodeVars, evmVars>>
  <2>1. /\ UNCHANGED <<subscribed, syncLevel, draining, level, rows, queue, pc, current, objects>>
        /\ UNCHANGED <<emitter, levelData, logs>>
    BY <1>7 DEF nodeVars, evmVars, feedVars, emitterVars, indexVars
  <2>2. CurrentStays
    BY <1>1, <1>2, <2>1 DEF CurrentStays, BlockOf
  <2> QED
    BY <1>3, <2>1, <2>2 DEF Idle, AsIs, QStays, Queue, ToEmit
<1> QED
  BY <1>4, <1>5, <1>6, <1>7

(* There are no others.                                                     *)
LEMMA FormsAre ==
  ASSUME Covering, Faithful, Unbroken, Ix' = Ix, StepKinds
  PROVE  Forms
<1>1. EvmTypes /\ IndexTypes /\ Ix \in Kinds
  BY DEF Covering, EvmTypes, Kinds
<1>2. CASE \E to \in 0 .. Len(chain), contents \in Seq(BOOLEAN) :
             /\ Branch(to, contents)
             /\ IF Announcing THEN AheadGrows(to, Len(contents)) ELSE AheadStays
  <2>1. \E to \in 0 .. Len(chain), contents \in Seq(BOOLEAN) : Branched(to, contents)
    BY <1>2, BranchedIs
  <2> QED
    BY <2>1 DEF Forms
<1>3. CASE EmitHead /\ AheadMoves
  BY <1>1, <1>3, EmitHeadIs DEF Forms
<1>4. CASE Disconnect /\ AheadCut
  BY <1>4, LostIs DEF Forms
<1>5. CASE Crash /\ Len(Ahead') = 0 /\ Len(Path') = 1 /\ Path'[1] = 0
  <2>1. QCleared
    BY <1>1, <1>5, NoElements DEF Crash, Restarted, QCleared, Queue
  <2> QED
    BY <1>1, <1>5, <2>1, RestartIs DEF Forms
<1>6. CASE (Feeding \/ Handling) /\ AheadStays /\ UNCHANGED <<blocks, chain, known>>
  <2>1. CASE Asking
    BY <1>1, <1>6, <2>1, AskedIs DEF Forms, Asking
  <2>2. CASE ReceiveLog \/ ReceiveHead(Ix) \/ UNCHANGED <<nodeVars, evmVars>>
    BY <1>1, <1>6, <2>2, IdleIs DEF Forms
  <2>3. CASE Forget
    BY <1>1, <1>6, <2>3, IdleIs, ForgetIs DEF Forms
  <2>4. CASE EmitEvents \/ EmitTransactions
    BY <1>1, <1>6, <2>4, EmitEventsIs, EmitTransactionsIs DEF Forms, Still
  <2>5. CASE (Synchronize(Ix) \/ ProcessData(Ix) \/ ProcessRollback(Ix)) /\ UNCHANGED evmVars
    <3>1. Synced \/ DataTaken \/ RollbackTaken
      BY <1>1, <2>5, IndexSteps
    <3>2. UNCHANGED <<objects, levelData, logs>> /\ Still
      BY <1>6, <2>5 DEF evmVars, Still
    <3> QED
      BY <3>1, <3>2 DEF Forms, Indexing
  <2> QED
    BY <1>6, <2>1, <2>2, <2>3, <2>4, <2>5 DEF Feeding, Handling
<1> QED
  BY <1>2, <1>3, <1>4, <1>5, <1>6 DEF StepKinds

(* The height at which the head was asked for is one of the chain.          *)
LEMMA RecalledIs ==
  ASSUME EvmTypes, StepKinds
  PROVE  Recalled
<1>1. CASE \E to \in 0 .. Len(chain), contents \in Seq(BOOLEAN) : Branch(to, contents)
  BY <1>1 DEF Branch, MintEvm, Recalled
<1>2. CASE EmitHead \/ Disconnect \/ Crash
  BY <1>2 DEF EmitHead, Disconnect, Crash, Restarted, Recalled
<1>3. CASE Feeding
  <2>1. CASE Asking
    BY <2>1 DEF Asking, Subscribe, StoreSubscription, SetLevel, Watchdog, evmVars, Recalled
  <2> QED
    BY <1>3, <2>1 DEF Feeding, ReceiveLog, ReceiveHead, Recalled
<1>4. CASE Handling \/ UNCHANGED <<nodeVars, evmVars>>
  BY <1>4 DEF Handling, EmitEvents, EmitTransactions, Forget, evmVars, Recalled
<1> QED
  BY <1>1, <1>2, <1>3, <1>4 DEF StepKinds

-----------------------------------------------------------------------------
(* An EVM node: what is ahead is canonical, or will be undone.              *)

(* Whoever is at work goes on with the element it is at.                    *)
Stands == Still /\ (pc' # "head" => pc # "head" /\ BlockOf(current)' = BlockOf(current))

(* Most steps do.                                                           *)
LEMMA StandsIs ==
  ASSUME EvmTypes, Forms
  PROVE  \/ \E to \in 0 .. Len(chain), contents \in Seq(BOOLEAN) : Branched(to, contents)
         \/ Lost \/ Restart \/ (HeadEmitted /\ AheadMoves) \/ Stands
<1>1. CASE Asked \/ Identified \/ Answered
  BY <1>1 DEF Asked, Identified, Answered, Stands, BlockOf
<1>2. CASE Idle
  <2>1. pc # "head" => current \in 1 .. Len(objects)
    BY DEF EvmTypes, EmitterTypes
  <2>2. ASSUME pc' # "head" PROVE pc # "head" /\ objects'[current'].block = BlockOf(current)
    <3>1. pc # "head" /\ current' = current
      BY <1>2, <2>2 DEF Idle, CurrentStays
    <3>2. objects'[current].block = BlockOf(current)
      BY <1>2, <2>1, <3>1 DEF Idle, CurrentStays, BlockOf
    <3> QED
      BY <3>1, <3>2
  <2> QED
    BY <1>2, <2>2 DEF Idle, Stands, BlockOf
<1>3. CASE Still /\ (EventsEmitted \/ TransactionsEmitted)
  BY <1>3 DEF EventsEmitted, TransactionsEmitted, Stands, BlockOf
<1>4. CASE Indexing
  BY <1>4 DEF Indexing, Synced, DataTaken, RollbackTaken, Taken, Untouched, Stands, BlockOf
<1> QED
  BY <1>1, <1>2, <1>3, <1>4 DEF Forms

(* What is ahead is canonical, or will be undone.                           *)
Heralded ==
  /\ \A n \in 1 .. Len(Ahead) : Lv(Ahead[n]) >= 2
  /\ \A n \in 1 .. Len(Ahead) :
       \/ chain[Lv(Ahead[n])] = Ahead[n]
       \/ \E m \in n + 1 .. Len(Ahead) : Lv(Ahead[m]) <= Lv(Ahead[n])
  /\ pc # "head" => chain[known] = BlockOf(current) \/ Undone(known)

(* A branch, in numbers.                                                    *)
Grows(to, c, A) ==
  /\ A = Len(Ahead) /\ PathLength = A + 1 /\ to \in Nat /\ to > 0 /\ to <= Len(chain)
  /\ Len(chain') = to + c /\ Len(chain) <= to + c /\ Len(Ahead') = A + c /\ PathLength' = A + 1 + c
  /\ \A l \in 1 .. to : chain'[l] = chain[l]
  /\ \A n \in 1 .. c : chain'[to + n] = Len(blocks) + n
  /\ \A n \in 1 .. A : Ahead'[n] = Ahead[n] /\ Ahead[n] \in Blocks
  /\ \A n \in 1 .. c : Ahead'[A + n] = Len(blocks) + n
  /\ \A j \in 1 .. A + 1 : Path'[j] = Path[j] /\ Path[j] \in Nat
  /\ \A n \in 1 .. c : Path'[A + 1 + n] = to + n
  /\ \A b \in Blocks : b \in Blocks' /\ blocks'[b] = blocks[b] /\ Lv(b)' = Lv(b)
  /\ \A n \in 1 .. c : blocks'[Len(blocks) + n].level = to + n
  /\ \A n \in 1 .. A + c : n \in 1 .. A \/ \E k \in 1 .. c : n = A + k
  /\ \A j \in 1 .. A + 1 + c : j \in 1 .. A + 1 \/ \E k \in 1 .. c : j = A + 1 + k

(* That is a branch while somebody listens.                                 *)
LEMMA BranchGrows ==
  ASSUME EvmTypes, NEW to \in 0 .. Len(chain), NEW contents \in Seq(BOOLEAN),
         Branched(to, contents), subscribed # "no"
  PROVE  \E c \in Nat \ {0}, A \in Nat : c = Len(contents) /\ Grows(to, c, A)
<1>1. PathFacts /\ AheadFacts
  BY PathIs, AheadIs
<1>2. PICK c \in Nat \ {0}, A \in Nat : c = Len(contents) /\ A = Len(Ahead) /\ PathLength = A + 1
  BY <1>1 DEF PathFacts, Branched
<1>3. Minted(to, contents) /\ AheadGrows(to, c)
  BY <1>2 DEF Branched
<1>4. Len(chain) \in Nat \ {0} /\ Len(blocks) \in Nat
  BY BlocksAre DEF EvmTypes, ChainTypes
<1>5. to \in Nat /\ to > 0 /\ to <= Len(chain) /\ Len(chain) <= to + c
  <2>1. to = Len(chain) \/ (to > 0 /\ to + c >= Len(chain))
    BY <1>2 DEF Branched
  <2> QED
    BY <1>2, <1>4, <2>1
<1>6. /\ Len(chain') = to + c /\ \A l \in 1 .. to : chain'[l] = chain[l]
      /\ \A n \in 1 .. c : chain'[to + n] = Len(blocks) + n
      /\ \A n \in 1 .. c : blocks'[Len(blocks) + n].level = to + n
      /\ \A b \in 1 .. Len(blocks) : blocks'[b] = blocks[b]
  BY <1>2, <1>3 DEF Minted
<1>7. /\ Len(Ahead') = A + c /\ PathLength' = A + 1 + c
      /\ \A n \in 1 .. A : Ahead'[n] = Ahead[n] /\ Ahead[n] \in Blocks
      /\ \A n \in 1 .. c : Ahead'[A + n] = Len(blocks) + n
  BY <1>1, <1>2, <1>3 DEF AheadGrows, AheadFacts, PathLength
<1>8. \A j \in 1 .. A + 1 : Path'[j] = Path[j] /\ Path[j] \in Nat
  <2>1. \A j \in 1 .. A + 1 : Path[j] \in Nat
    BY <1>1, <1>2 DEF PathFacts
  <2>2. \A j \in 1 .. A + 1 : Path'[j] = Path[j]
    BY <1>2, <1>3 DEF AheadGrows, PathLength
  <2> QED
    BY <2>1, <2>2
<1>9. \A n \in 1 .. c : Path'[A + 1 + n] = to + n
  BY <1>2, <1>3 DEF AheadGrows, PathLength
<1>10. \A b \in Blocks : b \in Blocks' /\ blocks'[b] = blocks[b] /\ Lv(b)' = Lv(b)
  <2>1. Len(blocks') = Len(blocks) + c
    BY <1>2, <1>3 DEF Minted
  <2> QED
    BY <1>2, <1>4, <1>6, <2>1 DEF Lv, Blocks
<1>11. ASSUME NEW a \in Nat
       PROVE  \A n \in 1 .. a + c : n \in 1 .. a \/ \E k \in 1 .. c : n = a + k
  <2>1. \A n \in 1 .. a + c : n \notin 1 .. a => n - a \in 1 .. c /\ n = a + (n - a)
    BY <1>2
  <2> QED
    BY <2>1
<1>12. /\ \A n \in 1 .. A + c : n \in 1 .. A \/ \E k \in 1 .. c : n = A + k
       /\ \A j \in 1 .. A + 1 + c : j \in 1 .. A + 1 \/ \E k \in 1 .. c : j = A + 1 + k
  <2>1. A + 1 \in Nat
    BY <1>2
  <2> QED
    BY <1>2, <1>11, <2>1
<1> QED
  <2>1. Grows(to, c, A)
    BY <1>2, <1>5, <1>6, <1>7, <1>8, <1>9, <1>10, <1>12, Zenon DEF Grows
  <2> QED
    BY <1>2, <2>1

(* While nobody listens there is but a block more.                          *)
LEMMA BranchUnheard ==
  ASSUME EvmTypes, NEW to \in 0 .. Len(chain), NEW contents \in Seq(BOOLEAN),
         Branched(to, contents), subscribed = "no"
  PROVE  /\ AheadStays /\ to = Len(chain) /\ Len(contents) \in Nat \ {0}
         /\ Len(chain') = Len(chain) + Len(contents)
         /\ \A l \in 1 .. Len(chain) : chain'[l] = chain[l]
         /\ \A b \in Blocks : b \in Blocks' /\ blocks'[b] = blocks[b] /\ Lv(b)' = Lv(b)
<1>1. /\ to = Len(chain) /\ Minted(to, contents) /\ AheadStays /\ Len(contents) \in Nat \ {0}
      /\ Len(blocks) \in Nat
  BY BlocksAre DEF Branched, EvmTypes
<1>2. Len(blocks') = Len(blocks) + Len(contents)
  BY <1>1 DEF Minted
<1>3. \A b \in Blocks : b \in Blocks' /\ blocks'[b] = blocks[b]
  BY <1>1, <1>2 DEF Minted, Blocks
<1> QED
  BY <1>1, <1>3 DEF Minted, Lv

(* Every step keeps that: a branch,                                         *)
LEMMA HeraldedGrows ==
  ASSUME EvmTypes, Knows, Heralded, NEW to \in 0 .. Len(chain), NEW contents \in Seq(BOOLEAN),
         Branched(to, contents), subscribed # "no"
  PROVE  Heralded'
<1>1. PICK c \in Nat \ {0}, A \in Nat : c = Len(contents) /\ Grows(to, c, A)
  BY BranchGrows
<1>2. PathFacts /\ UNCHANGED <<pc, current, objects, known>> /\ AheadGrows(to, c)
  BY <1>1, PathIs DEF Branched
<1>3. to \in Nat /\ to > 0 /\ to <= Len(chain) /\ Len(chain') = to + c /\ Len(chain) \in Nat
  BY <1>1, <1>2 DEF Grows, PathFacts
<1>4. ASSUME NEW n \in 1 .. A
      PROVE  n \in 1 .. Len(Ahead) /\ Ahead'[n] = Ahead[n] /\ Ahead[n] \in Blocks
             /\ blocks'[Ahead'[n]].level = Lv(Ahead[n]) /\ Lv(Ahead[n]) \in 1 .. MaxLevel
  <2>1. Ahead'[n] = Ahead[n] /\ Ahead[n] \in Blocks /\ n \in 1 .. Len(Ahead)
    BY <1>1 DEF Grows
  <2>2. blocks'[Ahead[n]] = blocks[Ahead[n]]
    BY <1>1, <2>1 DEF Grows
  <2> QED
    BY <2>1, <2>2 DEF Lv, EvmTypes, ChainTypes
<1>5. ASSUME NEW n \in 1 .. c
      PROVE  /\ Ahead'[A + n] = Len(blocks) + n /\ blocks'[Ahead'[A + n]].level = to + n
             /\ chain'[to + n] = Ahead'[A + n]
  BY <1>1, SMTT(20) DEF Grows
<1>6. ASSUME NEW n \in 1 .. A + c PROVE Lv(Ahead[n])' >= 2
  <2>1. CASE n \in 1 .. A
    BY <1>4, <2>1 DEF Heralded, Lv
  <2>2. CASE n \notin 1 .. A
    <3>1. PICK k \in 1 .. c : n = A + k
      BY <1>1, <2>2 DEF Grows
    <3>2. blocks'[Ahead'[n]].level = to + k
      BY <1>5, <3>1
    <3> QED
      BY <1>1, <1>3, <3>1, <3>2 DEF Lv
  <2> QED
    BY <2>1, <2>2
<1>7. ASSUME NEW n \in 1 .. A + c
      PROVE  \/ chain'[Lv(Ahead[n])'] = Ahead'[n]
             \/ \E m \in n + 1 .. A + c : Lv(Ahead[m])' <= Lv(Ahead[n])'
  <2>1. CASE n \in 1 .. A
    <3>1. PICK l \in 1 .. MaxLevel : l = Lv(Ahead[n]) /\ blocks'[Ahead'[n]].level = l
      BY <1>4, <2>1
    <3>2. CASE \E m \in n + 1 .. Len(Ahead) : Lv(Ahead[m]) <= l
      <4>1. PICK m \in n + 1 .. A : Lv(Ahead[m]) <= l
        BY <1>1, <3>2 DEF Grows
      <4>2. m \in 1 .. A /\ m \in n + 1 .. A + c
        BY <1>1, <2>1
      <4>3. blocks'[Ahead'[m]].level <= l
        BY <1>4, <4>1, <4>2
      <4> QED
        BY <3>1, <4>2, <4>3 DEF Lv
    <3>3. CASE chain[l] = Ahead[n] /\ l <= to
      <4>1. l \in 1 .. to
        BY <3>1, <3>3
      <4>2. \A i \in 1 .. to : chain'[i] = chain[i]
        BY <1>1 DEF Grows
      <4>3. chain'[l] = chain[l]
        BY <4>1, <4>2
      <4> QED
        BY <1>4, <2>1, <3>1, <3>3, <4>3 DEF Lv
    <3>4. CASE l > to
      <4>1. 1 \in 1 .. c /\ A + 1 \in n + 1 .. A + c
        BY <1>1, <2>1
      <4>2. blocks'[Ahead'[A + 1]].level = to + 1 /\ to + 1 <= l
        BY <1>3, <1>5, <3>1, <3>4, <4>1
      <4> QED
        BY <3>1, <4>1, <4>2 DEF Lv
    <3>5. chain[l] = Ahead[n] \/ \E m \in n + 1 .. Len(Ahead) : Lv(Ahead[m]) <= l
      BY <1>4, <2>1, <3>1 DEF Heralded
    <3> QED
      BY <1>3, <3>1, <3>2, <3>3, <3>4, <3>5
  <2>2. CASE n \notin 1 .. A
    <3>1. PICK k \in 1 .. c : n = A + k
      BY <1>1, <2>2 DEF Grows
    <3> QED
      BY <1>5, <3>1 DEF Lv
  <2> QED
    BY <2>1, <2>2
<1>8. ASSUME pc # "head" PROVE chain'[known] = BlockOf(current) \/ Undone(known)'
  <2>0. known \in Nat /\ 1 \in 1 .. PathLength /\ Path[1] = known
    BY <1>2 DEF PathFacts
  <2>1. CASE Undone(known)
    <3>1. Undone(known)'
      BY <1>2, <2>0, <2>1, UndoneGrows
    <3> QED
      BY <3>1
  <2>2. CASE known > to
    <3>1. known >= to + 1 /\ Path[1] >= known
      BY <1>3, <2>0, <2>2
    <3>2. Undone(known)'
      BY <1>2, <2>0, <3>1, UndoneGrows
    <3> QED
      BY <3>2
  <2>3. CASE known <= to /\ chain[known] = BlockOf(current)
    <3>1. known \in 1 .. to
      <4>1. Lv(BlockOf(current)) = known
        BY <1>8 DEF Knows
      <4>2. BlockOf(current) \in Blocks
        BY <1>8 DEF EvmTypes, EmitterTypes, ObjectTypes
      <4>3. known \in 1 .. MaxLevel
        BY <4>1, <4>2 DEF EvmTypes, ChainTypes
      <4> QED
        BY <1>3, <2>0, <2>3, <4>3
    <3> QED
      BY <1>1, <2>3, <3>1 DEF Grows
  <2> QED
    BY <1>3, <1>8, <2>0, <2>1, <2>2, <2>3 DEF Heralded
<1>9. Len(Ahead') = A + c
  BY <1>1 DEF Grows
<1>10. pc' # "head" => pc # "head" /\ BlockOf(current)' = BlockOf(current) /\ known' = known
  BY <1>2 DEF BlockOf
<1> QED
  BY <1>6, <1>7, <1>8, <1>9, <1>10, <1>2 DEF Heralded

(* one that nobody listens to,                                              *)
LEMMA HeraldedUnheard ==
  ASSUME EvmTypes, Fits, Knows, Heralded, NEW to \in 0 .. Len(chain),
         NEW contents \in Seq(BOOLEAN), Branched(to, contents), subscribed = "no"
  PROVE  Heralded'
<1>1. /\ Ahead' = Ahead /\ Path' = Path /\ UNCHANGED <<pc, current, objects, known>>
      /\ \A l \in 1 .. Len(chain) : chain'[l] = chain[l]
      /\ \A b \in Blocks : Lv(b)' = Lv(b)
  BY BranchUnheard DEF AheadStays, Branched
<1>2. \A n \in 1 .. Len(Ahead) : Ahead[n] \in Blocks
  BY AheadIs DEF AheadFacts
<1>3. \A b \in Blocks : Lv(b) \in 1 .. Len(chain)
  BY BlocksAre DEF Fits, EvmTypes
<1>4. \A n \in 1 .. Len(Ahead) : Lv(Ahead[n])' = Lv(Ahead[n])
  <2>1. \A n \in 1 .. Len(Ahead) : blocks'[Ahead[n]].level = Lv(Ahead[n])
    BY <1>1, <1>2 DEF Lv
  <2> QED
    BY <1>1, <2>1 DEF Lv
<1>5. ASSUME NEW n \in 1 .. Len(Ahead)
      PROVE  \/ chain'[Lv(Ahead[n])] = Ahead[n]
             \/ \E m \in n + 1 .. Len(Ahead) : Lv(Ahead[m]) <= Lv(Ahead[n])
  <2>1. chain'[Lv(Ahead[n])] = chain[Lv(Ahead[n])]
    BY <1>1, <1>2, <1>3
  <2> QED
    BY <2>1 DEF Heralded
<1>6. \A n \in 1 .. Len(Ahead) : \A m \in n + 1 .. Len(Ahead) : m \in 1 .. Len(Ahead)
  BY AheadIs DEF AheadFacts
<1>7. \A n \in 1 .. Len(Ahead) :
        \/ chain'[Lv(Ahead[n])'] = Ahead'[n]
        \/ \E m \in n + 1 .. Len(Ahead) : Lv(Ahead[m])' <= Lv(Ahead[n])'
  BY <1>1, <1>4, <1>5, <1>6
<1>8. ASSUME pc # "head" PROVE chain'[known] = BlockOf(current) \/ Undone(known)'
  <2>1. CASE Undone(known)
    BY <1>1, <2>1 DEF Undone, PathLength
  <2>2. CASE chain[known] = BlockOf(current)
    <3>1. Lv(BlockOf(current)) = known /\ BlockOf(current) \in Blocks
      BY <1>8 DEF Knows, EvmTypes, EmitterTypes, ObjectTypes
    <3> QED
      BY <1>1, <1>3, <2>2, <3>1
  <2> QED
    BY <1>8, <2>1, <2>2 DEF Heralded
<1>9. \A n \in 1 .. Len(Ahead) : Lv(Ahead[n])' >= 2
  BY <1>4 DEF Heralded
<1>10. BlockOf(current)' = BlockOf(current) /\ Len(Ahead') = Len(Ahead)
  BY <1>1 DEF BlockOf
<1> QED
  BY <1>1, <1>7, <1>8, <1>9, <1>10 DEF Heralded

(* the emitter's next head,                                                 *)
LEMMA HeraldedMoves ==
  ASSUME EvmTypes, Heralded, HeadEmitted, AheadMoves
  PROVE  Heralded'
<1>1. AheadFacts /\ PathFacts
  BY AheadIs, PathIs
<1>2. PICK A \in Nat \ {0} :
        /\ A = Len(Ahead) /\ Len(Ahead') = A - 1 /\ PathLength = A + 1 /\ PathLength' = A
  <2>1. Len(Ahead) \in Nat \ {0} /\ Len(Ahead') = Len(Ahead) - 1
    BY <1>1 DEF AheadMoves, AheadFacts
  <2>2. PathLength = Len(Ahead) + 1 /\ PathLength' = PathLength - 1
    BY <1>1 DEF AheadMoves, PathFacts, PathLength
  <2> QED
    BY <2>1, <2>2
<1>3. /\ UNCHANGED <<chain, blocks>> /\ known' = Lv(Ahead[1]) /\ known' = Path[2]
      /\ BlockOf(current)' = Ahead[1]
  BY DEF HeadEmitted, Emitting, AheadMoves, BlockOf
<1>4. ASSUME NEW n \in 1 .. A - 1
      PROVE  n + 1 \in 1 .. A /\ Ahead'[n] = Ahead[n + 1] /\ Lv(Ahead[n])' = Lv(Ahead[n + 1])
  <2>1. n + 1 \in 1 .. A /\ Ahead'[n] = Ahead[n + 1]
    BY <1>2 DEF AheadMoves
  <2> QED
    BY <1>3, <2>1 DEF Lv
<1>5. ASSUME NEW n \in 1 .. A - 1
      PROVE  /\ Lv(Ahead[n])' >= 2
             /\ \/ chain'[Lv(Ahead[n])'] = Ahead'[n]
                \/ \E m \in n + 1 .. A - 1 : Lv(Ahead[m])' <= Lv(Ahead[n])'
  <2>1. Lv(Ahead[n + 1]) >= 2
    BY <1>2, <1>4 DEF Heralded
  <2>2. CASE chain[Lv(Ahead[n + 1])] = Ahead[n + 1]
    BY <1>3, <1>4, <2>1, <2>2
  <2>3. CASE \E m \in (n + 1) + 1 .. A : Lv(Ahead[m]) <= Lv(Ahead[n + 1])
    <3>1. PICK m \in (n + 1) + 1 .. A : Lv(Ahead[m]) <= Lv(Ahead[n + 1])
      BY <2>3
    <3>2. m - 1 \in n + 1 .. A - 1 /\ m - 1 \in 1 .. A - 1 /\ (m - 1) + 1 = m
      BY <1>2
    <3>3. Lv(Ahead[m - 1])' = Lv(Ahead[m])
      BY <1>4, <3>2
    <3> QED
      BY <1>4, <2>1, <3>1, <3>2, <3>3
  <2> QED
    BY <1>2, <1>4, <2>2, <2>3 DEF Heralded
<1>6. chain'[known'] = BlockOf(current)' \/ Undone(known)'
  <2>1. 1 \in 1 .. A /\ (chain[Lv(Ahead[1])] = Ahead[1]
          \/ \E m \in 1 + 1 .. A : Lv(Ahead[m]) <= Lv(Ahead[1]))
    BY <1>2 DEF Heralded
  <2>2. CASE chain[Lv(Ahead[1])] = Ahead[1]
    BY <1>3, <2>2
  <2>3. CASE \E m \in 2 .. A : Lv(Ahead[m]) <= Lv(Ahead[1])
    <3>1. PICK m \in 2 .. A : Lv(Ahead[m]) <= Lv(Ahead[1])
      BY <2>3
    <3>2. m \in 1 .. A /\ 1 \in 1 .. A /\ 1 < m
      BY <1>2, <3>1
    <3>3. Path'[m] = Path[m + 1] /\ Path'[1] = Path[1 + 1]
      BY <1>2, <3>2 DEF AheadMoves, PathLength
    <3>4. Path[m + 1] = Lv(Ahead[m]) /\ Lv(Ahead[1]) \in Nat
      <4>1. Path[m + 1] = Lv(Ahead[m])
        BY <1>1, <1>2, <3>2 DEF PathFacts
      <4>2. 2 \in 1 .. PathLength
        BY <1>2
      <4>3. Path[2] \in Nat
        BY <1>1, <4>2 DEF PathFacts
      <4> QED
        BY <1>3, <4>1, <4>3
    <3>5. Path'[m] <= known' /\ Path'[1] = known' /\ known' \in Nat
      BY <1>3, <3>1, <3>3, <3>4
    <3> QED
      BY <1>2, <3>2, <3>5 DEF Undone
  <2> QED
    BY <2>1, <2>2, <2>3
<1> QED
  BY <1>2, <1>5, <1>6 DEF Heralded

(* and everything else.                                                     *)
LEMMA HeraldedKept ==
  ASSUME EvmTypes, Fits, Knows, Heralded, Forms
  PROVE  Heralded'
<1>1. AheadFacts
  BY AheadIs
<1>2. CASE \E to \in 0 .. Len(chain), contents \in Seq(BOOLEAN) : Branched(to, contents)
  BY <1>2, HeraldedUnheard, HeraldedGrows
<1>3. CASE HeadEmitted /\ AheadMoves
  BY <1>3, HeraldedMoves
<1>4. CASE Lost
  <2>1. PICK E \in Nat : E = Len(emitter) /\ Len(Ahead') = E /\ E <= Len(Ahead)
    BY <1>1, <1>4 DEF Lost, AheadCut, AheadFacts
  <2>2. UNCHANGED <<blocks, chain, known, pc, current, objects>>
    BY <1>4 DEF Lost
  <2>3. ASSUME NEW n \in 1 .. E
        PROVE  /\ Ahead'[n] = Ahead[n] /\ n \in 1 .. Len(Ahead) /\ Lv(Ahead[n])' = Lv(Ahead[n])
               /\ chain[Lv(Ahead[n])] = Ahead[n]
    <3>1. Ahead'[n] = Ahead[n] /\ chain[Lv(Ahead[n])] = Ahead[n]
      BY <1>4, <2>1 DEF Lost, AheadCut
    <3>2. n \in 1 .. Len(Ahead)
      BY <1>1, <2>1 DEF AheadFacts
    <3> QED
      BY <2>2, <3>1, <3>2 DEF Lv
  <2>4. \A n \in 1 .. E : Lv(Ahead[n])' >= 2 /\ chain'[Lv(Ahead[n])'] = Ahead'[n]
    BY <2>2, <2>3 DEF Heralded
  <2>5. pc' # "head" => chain'[known'] = BlockOf(current)'
    BY <1>4, <2>2 DEF Lost, BlockOf
  <2> QED
    BY <2>1, <2>4, <2>5 DEF Heralded
<1>5. CASE Restart
  <2>1. Len(Ahead') = 0 /\ pc' = "head"
    BY <1>5 DEF Restart
  <2> QED
    BY <2>1 DEF Heralded
<1>6. CASE Stands
  <2>1. /\ Ahead' = Ahead /\ Path' = Path /\ blocks' = blocks /\ chain' = chain /\ known' = known
        /\ pc' # "head" => pc # "head" /\ BlockOf(current)' = BlockOf(current)
    BY <1>6 DEF Stands, Still, AheadStays
  <2>2. \A n : Lv(Ahead[n])' = Lv(Ahead[n])
    BY <2>1 DEF Lv
  <2>3. Undone(known)' <=> Undone(known)
    BY <2>1 DEF Undone, PathLength
  <2>4. \A n \in 1 .. Len(Ahead) : Lv(Ahead[n])' >= 2
    BY <2>2 DEF Heralded
  <2>5. \A n \in 1 .. Len(Ahead) :
          \/ chain'[Lv(Ahead[n])'] = Ahead'[n]
          \/ \E m \in n + 1 .. Len(Ahead) : Lv(Ahead[m])' <= Lv(Ahead[n])'
    BY <2>1, <2>2 DEF Heralded
  <2>6. Len(Ahead') = Len(Ahead)
    BY <2>1
  <2>7. pc' # "head" => chain'[known'] = BlockOf(current)' \/ Undone(known)'
    BY <2>1, <2>3 DEF Heralded
  <2> QED
    BY <2>4, <2>5, <2>6, <2>7 DEF Heralded
<1> QED
  BY <1>2, <1>3, <1>4, <1>5, <1>6, StandsIs

(* Where levels turn the canonical blocks follow.                           *)
Follows(l, j) == \E m \in j .. PathLength : m > 1 /\ Ahead[m - 1] = chain[l]
Returns ==
  \A i \in 1 .. PathLength : \A j \in 1 .. PathLength : \A l \in 1 .. Len(chain) :
    i < j /\ Path[j] <= l /\ l <= Path[i] => Follows(l, j)

(* That stays so: a branch follows itself.                                  *)
LEMMA ReturnsGrow ==
  ASSUME EvmTypes, Returns, NEW to \in 0 .. Len(chain), NEW contents \in Seq(BOOLEAN),
         Branched(to, contents), subscribed # "no"
  PROVE  Returns'
<1>1. PICK c \in Nat \ {0}, A \in Nat : c = Len(contents) /\ Grows(to, c, A)
  BY BranchGrows
<1>2. /\ to \in Nat /\ to <= Len(chain) /\ Len(chain) \in Nat /\ Len(chain') = to + c
      /\ PathLength = A + 1 /\ PathLength' = A + 1 + c
  BY <1>1, PathIs DEF Grows, PathFacts
<1> SUFFICES ASSUME NEW i \in 1 .. A + 1 + c, NEW j \in 1 .. A + 1 + c, i < j,
                    NEW l \in 1 .. to + c, Path'[j] <= l, l <= Path'[i]
             PROVE  Follows(l, j)'
  BY <1>2 DEF Returns
<1>3. CASE l > to
  <2>1. PICK n \in 1 .. c : l = to + n
    <3>1. l - to \in 1 .. c /\ l = to + (l - to)
      BY <1>2, <1>3
    <3> QED
      BY <3>1
  <2>2. j <= A + 1 + n
    <3>1. CASE j \in 1 .. A + 1
      BY <3>1
    <3>2. CASE j \notin 1 .. A + 1
      <4>1. PICK k \in 1 .. c : j = A + 1 + k
        BY <1>1, <3>2 DEF Grows
      <4>2. Path'[j] = to + k
        BY <1>1, <4>1 DEF Grows
      <4> QED
        BY <1>2, <2>1, <4>1, <4>2
    <3> QED
      BY <3>1, <3>2
  <2>3. A + 1 + n \in j .. A + 1 + c /\ A + 1 + n > 1 /\ (A + 1 + n) - 1 = A + n
    BY <2>1, <2>2
  <2>4. Ahead'[A + n] = Len(blocks) + n /\ chain'[to + n] = Len(blocks) + n
    BY <1>1 DEF Grows
  <2> QED
    BY <1>2, <2>1, <2>3, <2>4 DEF Follows
<1>4. CASE l <= to
  <2>1. j \in 1 .. A + 1
    <3>1. ASSUME NEW k \in 1 .. c, j = A + 1 + k PROVE FALSE
      <4>1. Path'[j] = to + k
        BY <1>1, <3>1 DEF Grows
      <4> QED
        BY <1>2, <1>4, <4>1
    <3> QED
      BY <1>1, <3>1 DEF Grows
  <2>2. i \in 1 .. A + 1
    BY <2>1
  <2>3. Path'[i] = Path[i] /\ Path'[j] = Path[j]
    BY <1>1, <2>1, <2>2 DEF Grows
  <2>4. l \in 1 .. to /\ l \in 1 .. Len(chain)
    BY <1>2, <1>4
  <2>5. PICK m \in j .. A + 1 : m > 1 /\ Ahead[m - 1] = chain[l]
    <3>1. Follows(l, j)
      BY <1>2, <2>1, <2>2, <2>3, <2>4 DEF Returns
    <3> QED
      BY <1>2, <3>1 DEF Follows
  <2>6. m \in j .. A + 1 + c /\ m - 1 \in 1 .. A
    BY <2>1, <2>5, SMTT(20)
  <2>7. Ahead'[m - 1] = Ahead[m - 1] /\ chain'[l] = chain[l]
    BY <1>1, <2>4, <2>6 DEF Grows
  <2> QED
    BY <1>2, <2>5, <2>6, <2>7 DEF Follows
<1> QED
  BY <1>2, <1>3, <1>4

(* A block more that nobody is told of is above every level.                *)
LEMMA ReturnsUnheard ==
  ASSUME EvmTypes, Turns, Returns, NEW to \in 0 .. Len(chain), NEW contents \in Seq(BOOLEAN),
         Branched(to, contents), subscribed = "no"
  PROVE  Returns'
<1>1. /\ Ahead' = Ahead /\ Path' = Path
      /\ \A l \in 1 .. Len(chain) : chain'[l] = chain[l]
  BY BranchUnheard DEF AheadStays
<1>2. PathFacts /\ PathLength' = PathLength
  BY <1>1, PathIs DEF PathLength
<1> SUFFICES ASSUME NEW i \in 1 .. PathLength, NEW j \in 1 .. PathLength, i < j,
                    NEW l \in 1 .. Len(chain'), Path[j] <= l, l <= Path[i]
             PROVE  Follows(l, j)'
  BY <1>1, <1>2 DEF Returns
<1>3. Path[i] <= Len(chain) /\ Path[i] \in Nat /\ Len(chain) \in Nat
  BY <1>2 DEF Turns, PathFacts
<1>4. l \in 1 .. Len(chain)
  BY <1>3
<1>5. Follows(l, j)
  BY <1>1, <1>4 DEF Returns
<1> QED
  BY <1>1, <1>2, <1>4, <1>5 DEF Follows

(* The emitter goes on to its next head.                                    *)
LEMMA ReturnsMove ==
  ASSUME EvmTypes, Returns, AheadMoves, chain' = chain
  PROVE  Returns'
<1>1. PICK N \in Nat \ {0} : N = PathLength /\ PathLength' = N - 1 /\ Len(Ahead) = N - 1
  <2>1. PathLength \in Nat \ {0} /\ PathLength' = PathLength - 1 /\ PathLength = Len(Ahead) + 1
        /\ Len(Ahead) \in Nat
    BY PathIs DEF AheadMoves, PathFacts, PathLength
  <2> QED
    BY <2>1
<1> SUFFICES ASSUME NEW i \in 1 .. N - 1, NEW j \in 1 .. N - 1, i < j,
                    NEW l \in 1 .. Len(chain), Path'[j] <= l, l <= Path'[i]
             PROVE  Follows(l, j)'
  BY <1>1 DEF Returns
<1>2. i + 1 \in 1 .. N /\ j + 1 \in 1 .. N /\ i + 1 < j + 1
  BY <1>1
<1>3. Path'[i] = Path[i + 1] /\ Path'[j] = Path[j + 1]
  BY <1>1 DEF AheadMoves, PathLength
<1>4. PICK m \in j + 1 .. N : m > 1 /\ Ahead[m - 1] = chain[l]
  <2>1. Follows(l, j + 1)
    BY <1>1, <1>2, <1>3 DEF Returns
  <2> QED
    BY <1>1, <2>1 DEF Follows
<1>5. /\ m - 1 \in j .. N - 1 /\ m - 1 > 1
      /\ (m - 1) - 1 \in 1 .. (N - 1) - 1 /\ ((m - 1) - 1) + 1 = m - 1
  BY <1>1, <1>4
<1>6. Ahead'[(m - 1) - 1] = Ahead[m - 1]
  BY <1>1, <1>5 DEF AheadMoves
<1> QED
  BY <1>1, <1>4, <1>5, <1>6 DEF Follows

(* Every step keeps it.                                                     *)
LEMMA ReturnsKept ==
  ASSUME EvmTypes, EvmTypes', Turns, Returns, Forms
  PROVE  Returns'
<1>1. CASE \E to \in 0 .. Len(chain), contents \in Seq(BOOLEAN) : Branched(to, contents)
  BY <1>1, ReturnsUnheard, ReturnsGrow
<1>2. CASE HeadEmitted /\ AheadMoves
  BY <1>2, ReturnsMove DEF HeadEmitted, Emitting
<1>3. CASE Lost
  <2>1. AheadFacts /\ PathFacts
    BY AheadIs, PathIs
  <2>2. PICK M \in Nat : M = Len(emitter) + 1 /\ PathLength' = M /\ M <= PathLength
    <3>1. /\ Len(emitter) \in Nat /\ PathLength' = Len(emitter) + 1 /\ Len(emitter) <= Len(Ahead)
          /\ PathLength = Len(Ahead) + 1 /\ Len(Ahead) \in Nat
      BY <1>3, <2>1 DEF Lost, AheadCut, AheadFacts, PathLength
    <3> QED
      BY <3>1
  <2>3. \A i \in 1 .. M : \A j \in 1 .. M : i < j => Path'[i] < Path'[j]
    BY <1>3, <2>2 DEF Lost, AheadCut
  <2>4. \A i \in 1 .. M : Path'[i] \in Nat
    <3>1. \A i \in 1 .. M : Path'[i] = Path[i]
      BY <1>3, <2>2 DEF Lost, AheadCut
    <3>2. \A i \in 1 .. M : i \in 1 .. PathLength
      BY <2>1, <2>2 DEF PathFacts
    <3> QED
      BY <2>1, <3>1, <3>2 DEF PathFacts
  <2>5. ASSUME NEW i \in 1 .. M, NEW j \in 1 .. M, i < j, NEW l \in Int,
               Path'[j] <= l, l <= Path'[i]
        PROVE  FALSE
    BY <2>3, <2>4, <2>5
  <2>6. Len(chain') \in Nat
    <3>1. PathFacts'
      BY PathIs, PTL
    <3> QED
      BY <3>1 DEF PathFacts
  <2> QED
    BY <2>2, <2>5, <2>6 DEF Returns
<1>4. CASE Restart
  <2>1. PathLength' = 1
    BY <1>4 DEF Restart, PathLength
  <2> QED
    BY <2>1 DEF Returns
<1>5. CASE Stands
  <2>1. Ahead' = Ahead /\ Path' = Path /\ chain' = chain
    BY <1>5 DEF Stands, Still, AheadStays
  <2>2. PathLength' = PathLength /\ \A l, j : Follows(l, j)' <=> Follows(l, j)
    BY <2>1 DEF PathLength, Follows
  <2> QED
    BY <2>1, <2>2 DEF Returns
<1> QED
  BY <1>1, <1>2, <1>3, <1>4, <1>5, StandsIs

-----------------------------------------------------------------------------
(* An EVM node: what belongs to a block is gathered.                        *)

(* Only full blocks have logs.                                              *)
Honest ==
  /\ \A b \in 1 .. MaxBlocks : levelData[b] # 0 /\ objects[levelData[b]].events # {} =>
       blocks[b].full
  /\ \A x \in Range(logs) : blocks[x.block].full

(* What is filed elsewhere is left alone.                                   *)
Apart(b, object) ==
  /\ \A c \in 1 .. MaxBlocks : c # b =>
       /\ levelData'[c] = levelData[c]
       /\ levelData[c] # 0 => objects'[levelData[c]] = objects[levelData[c]]
  /\ levelData'[b] # 0 /\ objects'[levelData'[b]] = object
  /\ levelData[b] # 0 => Stored(b) = objects[levelData[b]] /\ LevelDataOf(b) = levelData[b]
  /\ levelData[b] = 0 =>
       /\ Stored(b).events = {} /\ Stored(b).fetch = FALSE
       /\ LevelDataOf(b) \notin 1 .. Len(objects)

(* That is what filing does.                                                *)
LEMMA FiledElsewhere ==
  ASSUME ObjectTypes, ChainTypes, NEW b \in Blocks, NEW object, Filed(b, object)
  PROVE  Apart(b, object)
<1>1. Len(objects) \in Nat /\ b \in 1 .. MaxBlocks
  BY BlocksAre DEF Filed
<1>2. ASSUME NEW c \in 1 .. MaxBlocks, c # b
      PROVE  /\ levelData'[c] = levelData[c]
             /\ levelData[c] # 0 => objects'[levelData[c]] = objects[levelData[c]]
  <2>1. levelData'[c] = levelData[c]
    BY <1>2 DEF Filed
  <2>2. ASSUME levelData[c] # 0 PROVE objects'[levelData[c]] = objects[levelData[c]]
    <3>1. levelData[c] \in 1 .. Len(objects) /\ BlockOf(levelData[c]) = c
      BY <2>2 DEF ObjectTypes
    <3>2. levelData[b] # 0 => BlockOf(levelData[b]) = b
      BY <1>1 DEF ObjectTypes
    <3>3. levelData[c] # LevelDataOf(b)
      BY <1>1, <1>2, <3>1, <3>2 DEF LevelDataOf
    <3> QED
      BY <3>1, <3>3 DEF Filed
  <2> QED
    BY <2>1, <2>2
<1>3. levelData'[b] = LevelDataOf(b) /\ objects'[LevelDataOf(b)] = object
  BY DEF Filed
<1>4. LevelDataOf(b) # 0
  <2>1. levelData[b] = 0 => LevelDataOf(b) = Len(objects) + 1
    BY DEF LevelDataOf
  <2>2. levelData[b] # 0 => LevelDataOf(b) = levelData[b]
    BY DEF LevelDataOf
  <2> QED
    BY <1>1, <2>1, <2>2
<1>5. levelData[b] # 0 => Stored(b) = objects[levelData[b]] /\ LevelDataOf(b) = levelData[b]
  BY DEF Stored, LevelDataOf
<1>6. levelData[b] = 0 =>
        /\ Stored(b).events = {} /\ Stored(b).fetch = FALSE
        /\ LevelDataOf(b) \notin 1 .. Len(objects)
  BY <1>1 DEF Stored, LevelDataOf
<1> QED
  BY <1>2, <1>3, <1>4, <1>5, <1>6 DEF Apart

(* A notification is taken: the first one.                                  *)
LEMMA LogTaken ==
  ASSUME EvmTypes, NEW b, NEW object, LogReceived(b, object)
  PROVE  /\ Head(logs) \in Range(logs) /\ Head(logs).block = b /\ Head(logs) \in Notices
         /\ Range(logs') \subseteq Range(logs)
         /\ \A x \in Range(logs) : x = Head(logs) \/ x \in Range(logs')
<1>1. logs \in Seq(Notices) /\ logs # <<>> /\ logs' = Tail(logs)
  BY DEF EvmTypes, FeedTypes, LogReceived
<1>2. /\ Head(logs) = logs[1] /\ Head(logs) \in Notices /\ Tail(logs) \in Seq(Notices)
      /\ Len(logs) \in Nat \ {0} /\ Len(Tail(logs)) = Len(logs) - 1
      /\ \A n \in 1 .. Len(logs) - 1 : Tail(logs)[n] = logs[n + 1]
  BY <1>1, HeadTail
<1>0. \A s \in Seq(Notices) : \A x : x \in Range(s) <=> \E n \in 1 .. Len(s) : s[n] = x
  BY RangeIs
<1>3. Head(logs) \in Range(logs)
  BY <1>1, <1>2, RangeIs
<1>4. ASSUME NEW x \in Range(Tail(logs)) PROVE x \in Range(logs)
  <2>1. PICK n \in 1 .. Len(Tail(logs)) : Tail(logs)[n] = x
    BY <1>0, <1>2
  <2>2. n + 1 \in 1 .. Len(logs) /\ x = logs[n + 1]
    BY <1>2, <2>1
  <2> QED
    BY <1>0, <1>1, <2>2
<1>5. ASSUME NEW x \in Range(logs) PROVE x = Head(logs) \/ x \in Range(Tail(logs))
  <2>1. PICK n \in 1 .. Len(logs) : logs[n] = x
    BY <1>1, RangeIs
  <2>2. CASE n = 1
    BY <1>2, <2>1, <2>2
  <2>3. CASE n # 1
    <3>1. n - 1 \in 1 .. Len(Tail(logs)) /\ (n - 1) + 1 = n
      BY <1>2, <2>3
    <3>2. Tail(logs)[n - 1] = x
      BY <1>2, <2>1, <3>1
    <3> QED
      BY <1>0, <1>2, <3>1, <3>2
  <2> QED
    BY <2>2, <2>3
<1> QED
  BY <1>1, <1>2, <1>3, <1>4, <1>5 DEF LogReceived

(* So every step leaves it.                                                 *)
LEMMA HonestKept ==
  ASSUME EvmTypes, EvmTypes', Ix' = Ix, Honest, Forms
  PROVE  Honest'
<1>1. /\ ObjectTypes /\ ChainTypes /\ logs \in Seq(Notices) /\ logs' \in Seq(Notices)
      /\ \A n \in 1 .. Len(logs) : logs[n].block \in Blocks
      /\ \A b \in Blocks : b \in 1 .. MaxBlocks
  BY BlocksAre DEF EvmTypes, FeedTypes
<1>2. \A b \in 1 .. MaxBlocks : levelData[b] # 0 => b \in Blocks
  BY <1>1 DEF ObjectTypes
<1>3. \A x \in Range(logs) : x.block \in Blocks
  BY <1>1, RangeIs
<1>4. CASE UNCHANGED <<blocks, objects, levelData>> /\ Range(logs') \subseteq Range(logs)
  BY <1>4 DEF Honest
<1>5. CASE \E to \in 0 .. Len(chain), contents \in Seq(BOOLEAN) : Branched(to, contents)
  <2>1. PICK to \in 0 .. Len(chain), contents \in Seq(BOOLEAN) : Branched(to, contents)
    BY <1>5
  <2>2. Minted(to, contents) /\ Told(to, contents) /\ UNCHANGED <<objects, levelData>>
    BY <2>1 DEF Branched
  <2>3. \A b \in Blocks : blocks'[b] = blocks[b]
    BY <2>2 DEF Minted, Blocks
  <2>4. ASSUME NEW x \in Range(logs') PROVE blocks'[x.block].full
    BY <1>3, <2>2, <2>3 DEF Told, Honest
  <2> QED
    BY <1>2, <2>2, <2>3, <2>4 DEF Honest
<1>6. CASE Lost \/ Restart
  <2>1. Len(logs') = 0
    BY <1>6 DEF Lost, Restart
  <2>2. Range(logs') = {}
    <3>1. ASSUME NEW s \in Seq(Notices), Len(s) = 0 PROVE Range(s) = {}
      <4>1. \A x : x \in Range(s) <=> \E n \in 1 .. Len(s) : s[n] = x
        BY RangeIs
      <4>2. 1 .. Len(s) = {}
        BY <3>1
      <4> QED
        BY <4>1, <4>2
    <3> QED
      BY <1>1, <2>1, <3>1
  <2>3. CASE Lost
    BY <1>4, <2>2, <2>3 DEF Lost
  <2>4. CASE Restart
    BY <2>2, <2>4 DEF Restart, Honest
  <2> QED
    BY <1>6, <2>3, <2>4
<1>7. CASE \/ Asked \/ Identified \/ Answered \/ HeadEmitted \/ Indexing
           \/ Still /\ (EventsEmitted \/ TransactionsEmitted)
  BY <1>4, <1>7 DEF Asked, Identified, Answered, HeadEmitted, Indexing, EventsEmitted, TransactionsEmitted,
     Still, Emitting
<1>8. CASE Idle
  <2>1. blocks' = blocks
    BY <1>8 DEF Idle, Still
  <2>2. CASE UNCHANGED <<emitter, objects, levelData, logs>>
    BY <1>4, <2>1, <2>2
  <2>3. CASE Forgotten
    <3>1. /\ UNCHANGED <<objects, logs>>
          /\ \A b \in 1 .. MaxBlocks : levelData'[b] \in {0, levelData[b]}
      BY <1>1, <2>3 DEF Forgotten, Emitting, ObjectTypes
    <3> QED
      BY <2>1, <3>1 DEF Honest
  <2>4. ASSUME NEW b \in Blocks, NEW object, Filed(b, object), Range(logs') \subseteq Range(logs),
               object.events # {} => Stored(b).events # {} \/ blocks[b].full
        PROVE  Honest'
    <3>0. Apart(b, object)
      BY <1>1, <2>4, FiledElsewhere
    <3>1. ASSUME NEW c \in 1 .. MaxBlocks, levelData'[c] # 0, objects'[levelData'[c]].events # {}
          PROVE  blocks[c].full
      <4>1. CASE c = b
        <5>1. objects'[levelData'[b]] = object
          BY <3>0 DEF Apart
        <5>2. object.events # {}
          BY <3>1, <4>1, <5>1
        <5>3. blocks[b].full \/ (levelData[b] # 0 /\ objects[levelData[b]].events # {})
          BY <2>4, <3>0, <5>2 DEF Apart
        <5> QED
          BY <3>1, <4>1, <5>3 DEF Honest
      <4>2. CASE c # b
        <5>1. levelData'[c] = levelData[c] /\ objects'[levelData[c]] = objects[levelData[c]]
          BY <3>0, <3>1, <4>2 DEF Apart
        <5> QED
          BY <3>1, <5>1 DEF Honest
      <4> QED
        BY <4>1, <4>2
    <3> QED
      BY <2>1, <2>4, <3>1 DEF Honest
  <2>5. CASE ReceiveHead(Ix)
    <3>1. PICK b \in Blocks, object \in LevelDatas : HeadReceived(b, object)
      BY <2>5, ReceiveHeadIs
    <3>2. logs' = logs
      BY <2>5 DEF ReceiveHead
    <3> QED
      BY <2>4, <3>1, <3>2 DEF HeadReceived
  <2>6. CASE ReceiveLog
    <3>1. PICK b \in Blocks, object \in LevelDatas : LogReceived(b, object)
      BY <2>6, ReceiveLogIs
    <3>2. blocks[b].full /\ Range(logs') \subseteq Range(logs)
      BY <3>1, LogTaken DEF Honest
    <3> QED
      BY <2>4, <3>1, <3>2 DEF LogReceived
  <2> QED
    BY <1>8, <2>2, <2>3, <2>5, <2>6 DEF Idle
<1> QED
  BY <1>5, <1>6, <1>7, <1>8 DEF Forms

(* All logs of a block that is still to be emitted are gathered or on their *)
(* way,                                                                     *)
Gathers(b) ==
  blocks[b].full => \A i \in Logs :
    \/ Notice(b, i) \in Range(logs)
    \/ levelData[b] # 0 /\ i \in objects[levelData[b]].events
Gathered ==
  Ix = "events" => /\ \A n \in 1 .. Len(Ahead) : Gathers(Ahead[n])
                   /\ pc = "data" => Gathers(BlockOf(current))

(* and its transactions will be fetched.                                    *)
Fetches ==
  Ix = "transactions" => /\ \A n \in 1 .. Len(emitter) : objects[emitter[n]].fetch
                         /\ pc # "head" => objects[current].fetch

(* What is gathered of a block stays gathered.                              *)
LEMMA GathersStay ==
  ASSUME EvmTypes, NEW b \in Blocks, Gathers(b), blocks'[b] = blocks[b],
         \/ UNCHANGED <<objects, levelData>> /\ Range(logs) \subseteq Range(logs')
         \/ UNCHANGED <<objects, levelData>> /\ \A x \in Range(logs) : x.block # b
         \/ ReceiveLog \/ ReceiveHead(Ix)
         \/ Forgotten /\ b # BlockOf(current)
  PROVE  Gathers(b)'
<1>1. ObjectTypes /\ ChainTypes /\ b \in 1 .. MaxBlocks
  BY BlocksAre DEF EvmTypes
<1>2. CASE UNCHANGED <<objects, levelData>> /\ Range(logs) \subseteq Range(logs')
  BY <1>2 DEF Gathers
<1>3. CASE UNCHANGED <<objects, levelData>> /\ \A x \in Range(logs) : x.block # b
  <2>1. \A i \in Logs : Notice(b, i).block = b
    BY DEF Notice
  <2> QED
    BY <1>3, <2>1 DEF Gathers
<1>4. CASE Forgotten /\ b # BlockOf(current)
  <2>1. UNCHANGED <<objects, logs>> /\ levelData'[b] = levelData[b]
    BY <1>1, <1>4 DEF Forgotten, Emitting, ObjectTypes
  <2> QED
    BY <2>1 DEF Gathers
<1>5. ASSUME NEW c \in Blocks, NEW object \in LevelDatas, Filed(c, object),
             Stored(c).events \subseteq object.events, NEW i \in Logs, levelData[b] # 0,
             i \in objects[levelData[b]].events
      PROVE  levelData'[b] # 0 /\ i \in objects'[levelData'[b]].events
  <2>1. Apart(c, object)
    BY <1>1, <1>5, FiledElsewhere
  <2>2. CASE b = c
    BY <1>5, <2>1, <2>2 DEF Apart
  <2>3. CASE b # c
    BY <1>1, <1>5, <2>1, <2>3 DEF Apart
  <2> QED
    BY <2>2, <2>3
<1>6. CASE ReceiveHead(Ix)
  <2>1. PICK c \in Blocks, object \in LevelDatas : HeadReceived(c, object)
    BY <1>6, ReceiveHeadIs
  <2>2. logs' = logs /\ Filed(c, object) /\ Stored(c).events \subseteq object.events
    BY <1>6, <2>1 DEF ReceiveHead, HeadReceived
  <2>3. \A i \in Logs : levelData[b] # 0 /\ i \in objects[levelData[b]].events =>
          levelData'[b] # 0 /\ i \in objects'[levelData'[b]].events
    BY <1>5, <2>1, <2>2
  <2> QED
    BY <2>2, <2>3 DEF Gathers
<1>7. CASE ReceiveLog
  <2>1. PICK c \in Blocks, object \in LevelDatas : LogReceived(c, object)
    BY <1>7, ReceiveLogIs
  <2>2. /\ Filed(c, object) /\ Stored(c).events \subseteq object.events
        /\ Added(Head(logs)) \subseteq object.events
    BY <2>1 DEF LogReceived
  <2>3. \A i \in Logs : levelData[b] # 0 /\ i \in objects[levelData[b]].events =>
          levelData'[b] # 0 /\ i \in objects'[levelData'[b]].events
    BY <1>5, <2>1, <2>2
  <2>4. ASSUME NEW i \in Logs, Notice(b, i) \in Range(logs)
        PROVE  \/ Notice(b, i) \in Range(logs')
               \/ levelData'[b] # 0 /\ i \in objects'[levelData'[b]].events
    <3>1. CASE Notice(b, i) = Head(logs)
      <4>1. Head(logs).block = c /\ Notice(b, i).block = b /\ Added(Notice(b, i)) = {i}
        BY <2>1, LogTaken DEF Notice, Added
      <4>2. Apart(c, object)
        BY <1>1, <2>2, FiledElsewhere
      <4> QED
        BY <2>2, <3>1, <4>1, <4>2 DEF Apart
    <3>2. CASE Notice(b, i) # Head(logs)
      BY <2>1, <2>4, <3>2, LogTaken
    <3> QED
      BY <3>1, <3>2
  <2> QED
    BY <2>3, <2>4 DEF Gathers
<1> QED
  BY <1>2, <1>3, <1>4, <1>6, <1>7

(* So a branch leaves it,                                                   *)
LEMMA GatheredGrows ==
  ASSUME EvmTypes, Ix' = Ix, Unbroken, Gathered, Ix = "events", NEW to \in 0 .. Len(chain),
         NEW contents \in Seq(BOOLEAN), Branched(to, contents)
  PROVE  Gathered'
<1>1. /\ Told(to, contents) /\ UNCHANGED <<pc, current, objects, levelData>>
      /\ Minted(to, contents) /\ Len(blocks) \in Nat
  BY BlocksAre DEF Branched, EvmTypes
<1>2. \A b \in Blocks : blocks'[b] = blocks[b]
  BY <1>1 DEF Minted, Blocks
<1>3. Range(logs) \subseteq Range(logs')
  BY <1>1 DEF Told
<1>4. ASSUME NEW b \in Blocks, Gathers(b) PROVE Gathers(b)'
  BY <1>1, <1>2, <1>3, <1>4, GathersStay
<1>5. \A n \in 1 .. Len(Ahead) : Ahead[n] \in Blocks /\ Gathers(Ahead[n])
  BY AheadIs DEF AheadFacts, Gathered
<1>6. pc = "data" => BlockOf(current) \in Blocks /\ Gathers(BlockOf(current))
  BY DEF Gathered, EvmTypes, EmitterTypes, ObjectTypes
<1>7. pc' = "data" => Gathers(BlockOf(current))'
  <2>1. ASSUME pc = "data" PROVE Gathers(BlockOf(current))'
    <3>1. PICK b \in Blocks : b = BlockOf(current)
      BY <1>6, <2>1
    <3>2. Gathers(b)' /\ objects'[current'].block = b
      BY <1>1, <1>4, <1>6, <2>1, <3>1 DEF BlockOf
    <3> QED
      BY <3>2 DEF BlockOf
  <2> QED
    BY <1>1, <2>1
<1>8. CASE subscribed = "no"
  <2>1. Ahead' = Ahead
    BY <1>8 DEF Branched, AheadStays
  <2>2. ASSUME NEW n \in 1 .. Len(Ahead) PROVE Gathers(Ahead[n])'
    <3>1. PICK b \in Blocks : b = Ahead[n]
      BY <1>5
    <3>2. Gathers(b)' /\ Ahead'[n] = b
      BY <1>4, <1>5, <2>1, <3>1
    <3> QED
      BY <3>2
  <2> QED
    BY <1>7, <2>1, <2>2 DEF Gathered
<1>9. CASE subscribed # "no"
  <2>1. PICK c \in Nat \ {0}, A \in Nat : c = Len(contents) /\ Grows(to, c, A)
    BY <1>9, BranchGrows
  <2>2. ASSUME NEW n \in 1 .. A + c PROVE Gathers(Ahead[n])'
    <3>1. CASE n \in 1 .. A
      <4>1. Ahead'[n] = Ahead[n] /\ n \in 1 .. Len(Ahead)
        BY <2>1, <3>1 DEF Grows
      <4>2. PICK b \in Blocks : b = Ahead[n]
        BY <1>5, <4>1
      <4>3. Gathers(b)'
        BY <1>4, <1>5, <4>1, <4>2
      <4> QED
        BY <4>1, <4>2, <4>3
    <3>2. CASE n \notin 1 .. A
      <4>1. PICK k \in 1 .. c : n = A + k
        BY <2>1, <3>2 DEF Grows
      <4>2. PICK b \in Nat : b = Len(blocks) + k
        BY <1>1
      <4>3. Ahead'[n] = b /\ blocks'[b].full = contents[k]
        BY <1>1, <2>1, <4>1, <4>2 DEF Grows, Minted
      <4>4. contents[k] => \A i \in Logs : Notice(b, i) \in Range(logs')
        BY <1>1, <1>9, <2>1, <4>2 DEF Told, Unbroken, Announcing
      <4>5. Gathers(b)'
        BY <4>3, <4>4 DEF Gathers, Notice
      <4> QED
        BY <4>3, <4>5
    <3> QED
      BY <3>1, <3>2
  <2>3. Len(Ahead') = A + c
    BY <2>1 DEF Grows
  <2> QED
    BY <1>7, <2>2, <2>3 DEF Gathered
<1> QED
  BY <1>8, <1>9

(* as does every other step.                                                *)
LEMMA GatheredKept ==
  ASSUME EvmTypes, Ix' = Ix, Unbroken, Rising, Gathered, Forms
  PROVE  Gathered'
<1> SUFFICES ASSUME Ix = "events" PROVE Gathered'
  BY DEF Gathered
<1>1. /\ AheadFacts
      /\ \A n \in 1 .. Len(Ahead) : Ahead[n] \in Blocks /\ Gathers(Ahead[n])
      /\ pc = "data" => BlockOf(current) \in Blocks /\ Gathers(BlockOf(current))
  <2>1. AheadFacts
    BY AheadIs
  <2>2. pc = "data" => BlockOf(current) \in Blocks
    BY DEF EvmTypes, EmitterTypes, ObjectTypes
  <2> QED
    BY <2>1, <2>2 DEF AheadFacts, Gathered
<1>2. CASE \E to \in 0 .. Len(chain), contents \in Seq(BOOLEAN) : Branched(to, contents)
  BY <1>2, GatheredGrows
<1>3. CASE HeadEmitted /\ AheadMoves
  <2>1. /\ UNCHANGED <<blocks, objects, levelData, logs>> /\ BlockOf(current)' = Ahead[1]
    BY <1>3 DEF HeadEmitted, Emitting, AheadMoves, BlockOf
  <2>2. ASSUME NEW b \in Blocks, Gathers(b) PROVE Gathers(b)'
    BY <2>1, <2>2 DEF Gathers
  <2>3. PICK A \in Nat \ {0} : A = Len(Ahead) /\ Len(Ahead') = A - 1
    BY <1>1, <1>3, SMTT(20) DEF AheadFacts, AheadMoves
  <2>4. ASSUME NEW n \in 1 .. A - 1 PROVE Gathers(Ahead[n])'
    <3>1. n + 1 \in 1 .. A /\ Ahead'[n] = Ahead[n + 1]
      BY <1>3, <2>3 DEF AheadMoves
    <3>2. PICK b \in Blocks : b = Ahead[n + 1] /\ Gathers(b)
      BY <1>1, <2>3, <3>1
    <3>3. Gathers(b)'
      BY <2>2, <3>2
    <3> QED
      BY <3>1, <3>2, <3>3
  <2>5. Gathers(BlockOf(current))'
    <3>1. PICK b \in Blocks : b = Ahead[1] /\ Gathers(b)
      BY <1>1, <2>3
    <3>2. Gathers(b)'
      BY <2>2, <3>1
    <3> QED
      BY <2>1, <3>1, <3>2
  <2> QED
    BY <2>3, <2>4, <2>5 DEF Gathered
<1>4. CASE Lost
  <2>1. /\ UNCHANGED <<blocks, objects, levelData, pc, current>>
        /\ \A n \in 1 .. Len(emitter) : \A x \in Range(logs) : x.block # Ahead[n]
        /\ pc # "head" => \A x \in Range(logs) : x.block # BlockOf(current)
    BY <1>4 DEF Lost
  <2>2. ASSUME NEW b \in Blocks, Gathers(b), \A x \in Range(logs) : x.block # b
        PROVE  Gathers(b)'
    BY <2>1, <2>2, GathersStay
  <2>3. PICK E \in Nat : E = Len(emitter) /\ Len(Ahead') = E /\ E <= Len(Ahead)
    BY <1>1, <1>4 DEF Lost, AheadCut, AheadFacts
  <2>4. ASSUME NEW n \in 1 .. E PROVE Gathers(Ahead[n])'
    <3>1. Ahead'[n] = Ahead[n] /\ n \in 1 .. Len(Ahead)
      BY <1>1, <1>4, <2>3 DEF Lost, AheadCut, AheadFacts
    <3>2. PICK b \in Blocks : b = Ahead[n] /\ Gathers(b)
      BY <1>1, <3>1
    <3>3. \A x \in Range(logs) : x.block # b
      BY <2>1, <2>3, <3>2
    <3>4. Gathers(b)'
      BY <2>2, <3>2, <3>3
    <3> QED
      BY <3>1, <3>2, <3>4
  <2>5. ASSUME pc = "data" PROVE Gathers(BlockOf(current))'
    <3>1. PICK b \in Blocks : b = BlockOf(current) /\ Gathers(b)
      BY <1>1, <2>5
    <3>2. \A x \in Range(logs) : x.block # b
      BY <2>1, <2>5, <3>1
    <3>3. Gathers(b)' /\ objects'[current'].block = b
      BY <2>1, <2>2, <3>1, <3>2 DEF BlockOf
    <3> QED
      BY <3>3 DEF BlockOf
  <2> QED
    BY <2>1, <2>3, <2>4, <2>5 DEF Gathered
<1>5. CASE Restart
  <2>1. Len(Ahead') = 0 /\ pc' = "head"
    BY <1>5 DEF Restart
  <2> QED
    BY <2>1 DEF Gathered
<1>6. CASE /\ Stands
           /\ \/ Asked \/ Identified \/ Answered \/ Idle \/ Indexing
              \/ Still /\ (EventsEmitted \/ TransactionsEmitted)
  <2>1. blocks' = blocks /\ Ahead' = Ahead
    BY <1>6 DEF Stands, Still, AheadStays
  <2>2. pc' = "data" => pc = "data" /\ BlockOf(current)' = BlockOf(current)
    <3>1. pc' = "data" => pc = "data"
      BY <1>6 DEF Asked, Identified, Answered, Idle, Indexing, Synced, DataTaken, RollbackTaken, Taken,
         Untouched, EventsEmitted, TransactionsEmitted, ToEmit
    <3> QED
      BY <1>6, <3>1 DEF Stands
  <2>3. ASSUME NEW b \in Blocks, Gathers(b), pc = "forget" => b # BlockOf(current)
        PROVE  Gathers(b)'
    <3>1. CASE UNCHANGED <<objects, levelData, logs>>
      BY <2>1, <2>3, <3>1 DEF Gathers
    <3>2. CASE ReceiveLog \/ ReceiveHead(Ix)
      BY <2>1, <2>3, <3>2, GathersStay
    <3>3. CASE Forgotten
      <4>1. pc = "forget"
        BY <3>3 DEF Forgotten
      <4> QED
        BY <2>1, <2>3, <3>3, <4>1, GathersStay
    <3>4. \/ UNCHANGED <<objects, levelData, logs>> \/ ReceiveLog \/ ReceiveHead(Ix)
          \/ Forgotten
      BY <1>6 DEF Asked, Identified, Answered, Idle, Indexing, EventsEmitted, TransactionsEmitted, Emitting
    <3> QED
      BY <3>1, <3>2, <3>3, <3>4
  <2>4. ASSUME NEW n \in 1 .. Len(Ahead) PROVE Gathers(Ahead[n])'
    <3>1. PICK b \in Blocks : b = Ahead[n] /\ Gathers(b) /\ b \in Nat
      BY <1>1, BlocksAre DEF EvmTypes
    <3>2. pc = "forget" => b # BlockOf(current)
      <4>1. ASSUME pc = "forget" PROVE BlockOf(current) < b /\ BlockOf(current) \in Nat
        <5>1. BlockOf(current) \in Blocks
          BY <4>1 DEF EvmTypes, EmitterTypes, ObjectTypes
        <5> QED
          BY <3>1, <4>1, <5>1, BlocksAre DEF Rising, EvmTypes
      <4> QED
        BY <3>1, <4>1
    <3>3. Gathers(b)' /\ Ahead'[n] = b
      BY <2>1, <2>3, <3>1, <3>2
    <3> QED
      BY <3>3
  <2>5. ASSUME pc' = "data" PROVE Gathers(BlockOf(current))'
    <3>1. PICK b \in Blocks : b = BlockOf(current) /\ Gathers(b)
      BY <1>1, <2>2, <2>5
    <3>2. Gathers(b)' /\ BlockOf(current)' = b
      BY <2>2, <2>3, <2>5, <3>1
    <3> QED
      BY <3>2
  <2> QED
    BY <2>1, <2>4, <2>5 DEF Gathered
<1> QED
  BY <1>2, <1>3, <1>4, <1>5, <1>6, StandsIs DEF Forms

(* And the transactions will be fetched.                                    *)
LEMMA FetchesKept ==
  ASSUME EvmTypes, Ix' = Ix, Fetches, Forms
  PROVE  Fetches'
<1> SUFFICES ASSUME Ix = "transactions" PROVE Fetches'
  BY DEF Fetches
<1>1. /\ emitter \in Seq(Nat) /\ ObjectTypes /\ ChainTypes
      /\ \A n \in 1 .. Len(emitter) : emitter[n] \in 1 .. Len(objects)
      /\ pc # "head" => current \in 1 .. Len(objects)
      /\ \A n \in 1 .. Len(emitter) : objects[emitter[n]].fetch
      /\ pc # "head" => objects[current].fetch
  BY DEF EvmTypes, EmitterTypes, Fetches
<1>2. CASE UNCHANGED <<emitter, objects>> /\ (pc' # "head" => pc # "head" /\ current' = current)
  BY <1>1, <1>2 DEF Fetches
<1>3. CASE \E to \in 0 .. Len(chain), contents \in Seq(BOOLEAN) : Branched(to, contents)
  BY <1>2, <1>3 DEF Branched
<1>4. CASE HeadEmitted
  <2>1. /\ objects' = objects /\ emitter # <<>> /\ emitter' = Tail(emitter)
        /\ current' = Head(emitter)
    BY <1>4 DEF HeadEmitted
  <2>2. /\ Len(emitter) \in Nat \ {0} /\ current' = emitter[1] /\ Len(emitter') = Len(emitter) - 1
        /\ \A n \in 1 .. Len(emitter) - 1 : emitter'[n] = emitter[n + 1]
    BY <1>1, <2>1, HeadTail
  <2>3. \A n \in 1 .. Len(emitter) - 1 : n + 1 \in 1 .. Len(emitter)
    BY <2>2
  <2>4. \A n \in 1 .. Len(emitter') : objects[emitter'[n]].fetch
    BY <1>1, <2>2, <2>3
  <2>5. objects[current'].fetch
    BY <1>1, <2>2
  <2> QED
    BY <2>1, <2>4, <2>5 DEF Fetches
<1>5. CASE Lost \/ Asked \/ Identified \/ Answered
  BY <1>2, <1>5 DEF Lost, Asked, Identified, Answered
<1>6. CASE Restart
  BY <1>6 DEF Restart, Fetches
<1>7. CASE Indexing \/ (Still /\ (EventsEmitted \/ TransactionsEmitted))
  BY <1>2, <1>7 DEF Indexing, Synced, DataTaken, RollbackTaken, Taken, Untouched,
     EventsEmitted, TransactionsEmitted
<1>8. CASE Idle
  <2>1. pc' # "head" => pc # "head" /\ current' = current
    BY <1>8 DEF Idle, CurrentStays
  <2>2. CASE UNCHANGED <<emitter, objects, levelData, logs>>
    BY <1>2, <2>1, <2>2
  <2>3. CASE Forgotten
    BY <1>2, <2>1, <2>3 DEF Forgotten
  <2>4. ASSUME NEW b \in Blocks, NEW object, Filed(b, object), Stored(b).fetch => object.fetch,
               NEW o \in 1 .. Len(objects), objects[o].fetch
        PROVE  objects'[o].fetch
    <3>1. Apart(b, object)
      BY <1>1, <2>4, FiledElsewhere
    <3>2. CASE o = LevelDataOf(b)
      <4>1. levelData[b] # 0 /\ Stored(b) = objects[o]
        BY <2>4, <3>1, <3>2 DEF Apart
      <4>2. objects'[o] = object
        BY <2>4, <3>2 DEF Filed
      <4> QED
        BY <2>4, <4>1, <4>2
    <3>3. CASE o # LevelDataOf(b)
      BY <2>4, <3>3 DEF Filed
    <3> QED
      BY <3>2, <3>3
  <2>5. CASE ReceiveLog
    <3>1. PICK b \in Blocks, object \in LevelDatas : LogReceived(b, object)
      BY <2>5, ReceiveLogIs
    <3>2. Filed(b, object) /\ (Stored(b).fetch => object.fetch) /\ emitter' = emitter
      BY <2>5, <3>1 DEF ReceiveLog, LogReceived
    <3>3. \A o \in 1 .. Len(objects) : objects[o].fetch => objects'[o].fetch
      BY <2>4, <3>1, <3>2
    <3> QED
      BY <1>1, <2>1, <3>2, <3>3 DEF Fetches
  <2>6. CASE ReceiveHead(Ix)
    <3>1. PICK b \in Blocks, object \in LevelDatas : HeadReceived(b, object)
      BY <2>6, ReceiveHeadIs
    <3>2. Filed(b, object) /\ object.fetch /\ emitter' = Append(emitter, LevelDataOf(b))
      BY <2>6, <3>1 DEF HeadReceived
    <3>a. objects'[LevelDataOf(b)] = object /\ LevelDataOf(b) \in Nat
      BY <3>2 DEF Filed
    <3>3. \A o \in 1 .. Len(objects) : objects[o].fetch => objects'[o].fetch
      BY <2>4, <3>1, <3>2
    <3>4. /\ Len(emitter) \in Nat /\ Len(emitter') = Len(emitter) + 1
          /\ \A n \in 1 .. Len(emitter) : emitter'[n] = emitter[n]
          /\ emitter'[Len(emitter) + 1] = LevelDataOf(b)
      BY <1>1, <3>2, <3>a, AppendAt
    <3>5. ASSUME NEW n \in 1 .. Len(emitter') PROVE objects'[emitter'[n]].fetch
      <4>1. CASE n \in 1 .. Len(emitter)
        BY <1>1, <3>3, <3>4, <4>1
      <4>2. CASE n = Len(emitter) + 1
        BY <3>2, <3>a, <3>4, <4>2
      <4> QED
        BY <3>4, <4>1, <4>2
    <3> QED
      BY <1>1, <2>1, <3>3, <3>5 DEF Fetches
  <2> QED
    BY <1>8, <2>2, <2>3, <2>5, <2>6 DEF Idle
<1> QED
  BY <1>3, <1>4, <1>5, <1>6, <1>7, <1>8 DEF Forms

-----------------------------------------------------------------------------
(* An EVM node: what is in the queue of the index.                          *)

(* The messages that go in and come out.                                    *)
Emission ==
  /\ Still /\ UNCHANGED <<subscribed, syncLevel, draining, level, rows>> /\ pc # "head"
  /\ QStays \/ \E b \in Blocks, found \in SUBSET Logs : Given(b, found) /\ Lv(b) = known

(* Events and transactions are given for the level the emitter knows.       *)
LEMMA EmissionIs ==
  ASSUME EvmTypes, Knows, Still, EventsEmitted \/ TransactionsEmitted
  PROVE  Emission
<1>1. UNCHANGED <<subscribed, syncLevel, draining, level, rows>> /\ pc # "head"
  BY DEF EventsEmitted, TransactionsEmitted, Emitting
<1>2. CASE Queue' = Queue
  BY <1>1, <1>2 DEF Emission, QStays
<1>3. CASE Queue' # Queue /\ EventsEmitted
  <2>1. Given(BlockOf(current), objects[current].events) /\ Lv(BlockOf(current)) = known
    BY <1>1, <1>3, GivenLevel
  <2>2. BlockOf(current) \in Blocks /\ objects[current].events \in SUBSET Logs
    BY <2>1 DEF Given
  <2> QED
    BY <1>1, <2>1, <2>2 DEF Emission
<1>4. CASE Queue' # Queue /\ TransactionsEmitted
  <2>1. Given(chain[known], {}) /\ Lv(chain[known]) = known
    BY <1>1, <1>4, GivenLevel
  <2>2. chain[known] \in Blocks /\ {} \in SUBSET Logs
    BY <2>1 DEF Given
  <2> QED
    BY <1>1, <2>1, <2>2 DEF Emission
<1> QED
  BY <1>2, <1>3, <1>4

(* What the index has, and the level of its subscription, is on the chain.  *)
(* It is not at work while the subscription or the head is asked for; where *)
(* it starts nothing is on its way.                                         *)
Bounded ==
  /\ Unbroken
  /\ level[Ix] \in 0 .. Len(chain) /\ {syncLevel, askedAt} \subseteq 0 .. Len(chain)
  /\ Waiting => ~draining[Ix]
  /\ subscribed = "no" /\ syncLevel > 0 => Len(Queue) = 0 /\ Len(Ahead) = 0 /\ pc = "head"

(* Rollbacks in the queue are for the index at work; what an index about to *)
(* synchronize would clear it is about to fetch.                            *)
Heeded ==
  /\ \A p \in 1 .. Len(Queue) : IsRollback(Queue[p]) =>
       subscribed = "yes" /\ (draining[Ix] \/ level[Ix] >= syncLevel) /\ Queue[p].to >= 1
  /\ subscribed = "yes" /\ ~draining[Ix] /\ level[Ix] < syncLevel =>
       \A p \in 1 .. Len(Queue) : IsData(Queue[p]) => Queue[p].level <= syncLevel

(* The first message, if the index takes it.                                *)
LEMMA FirstIs ==
  ASSUME EvmTypes, Backed, Turns, QPopped
  PROVE  /\ 1 \in 1 .. Len(Queue) /\ Len(chain) \in Nat
         /\ IsData(Queue[1]) => Queue[1].level \in Int /\ Queue[1].level <= Len(chain)
         /\ IsRollback(Queue[1]) =>
              /\ Queue[1].to \in Int /\ Queue[1].to <= level[Ix]
              /\ Queue[1].from \in Int /\ Queue[1].from >= level[Ix]
         /\ Queue[1].kind \in {"data", "empty", "rollback"}
<1>1. QueueFacts /\ Numbers /\ PathFacts
  BY EvmQueueIs, PathIs
<1>2. 1 \in 1 .. Len(Queue)
  BY <1>1 DEF QPopped, QueueFacts
<1>3. known <= Len(chain) /\ known \in Int /\ Len(chain) \in Nat
  BY <1>1 DEF Turns, PathFacts
<1>4. IsData(Queue[1]) => Queue[1].level <= known
  BY <1>2 DEF Backed
<1>5. IsRollback(Queue[1]) => Queue[1].from >= level[Ix] /\ Queue[1].to <= level[Ix]
  BY <1>2 DEF Backed
<1>6. /\ IsData(Queue[1]) => Queue[1].level \in Int
      /\ IsRollback(Queue[1]) => Queue[1].to \in Int /\ Queue[1].from \in Int
      /\ Queue[1].kind \in {"data", "empty", "rollback"}
  BY <1>1, <1>2 DEF QueueFacts
<1> QED
  BY <1>2, <1>3, <1>4, <1>5, <1>6

(* Where the index is after a message.                                      *)
LEMMA BoundedTaken ==
  ASSUME EvmTypes, Backed, Turns, Bounded, Heeded, DataTaken \/ RollbackTaken
  PROVE  level'[Ix] \in 0 .. Len(chain)
<1>1. QPopped
  BY DEF DataTaken, RollbackTaken, Taken
<1>2. level[Ix] \in 0 .. Len(chain) /\ Len(chain) \in Nat
  BY <1>1, FirstIs DEF Bounded
<1>3. CASE DataTaken
  <2>1. CASE level'[Ix] = level[Ix]
    BY <1>2, <2>1
  <2>2. CASE level'[Ix] # level[Ix]
    <3>1. /\ ~IsRollback(Queue[1]) /\ Queue[1].kind # "empty"
          /\ Queue[1].level > level[Ix] /\ level'[Ix] = Queue[1].level
      BY <1>3, <2>2 DEF DataTaken
    <3>2. IsData(Queue[1])
      BY <1>1, <3>1, FirstIs DEF IsData, IsRollback
    <3>3. Queue[1].level \in Int /\ Queue[1].level <= Len(chain)
      BY <1>1, <3>2, FirstIs
    <3> QED
      BY <1>2, <3>1, <3>3
  <2> QED
    BY <2>1, <2>2
<1>4. CASE RollbackTaken
  <2>1. /\ IsRollback(Queue[1])
        /\ level'[Ix] = IF Queue[1].to = 0 THEN level[Ix] ELSE Queue[1].to
    BY <1>4 DEF RollbackTaken
  <2>2. Queue[1].to \in Int /\ Queue[1].to <= level[Ix] /\ 1 \in 1 .. Len(Queue)
    BY <1>1, <2>1, FirstIs
  <2>3. Queue[1].to >= 1
    BY <2>1, <2>2 DEF Heeded
  <2> QED
    BY <1>2, <2>1, <2>2, <2>3
<1> QED
  BY <1>3, <1>4

(* Every step keeps the bounds.                                             *)
LEMMA BoundedKept ==
  ASSUME Covering, Ix' = Ix, Bounded, Heeded, Forms, Recalled
  PROVE  Bounded'
<1>1. Len(chain) \in Nat /\ PathFacts /\ AheadFacts /\ EvmTypes /\ Backed /\ Turns /\ Knows
  BY PathIs, AheadIs DEF Covering, PathFacts
<1>0. /\ Unbroken /\ askedAt \in 0 .. Len(chain) /\ askedAt' \in 0 .. Len(chain)
      /\ (Waiting => ~draining[Ix]) /\ syncLevel \in 0 .. Len(chain)
  BY <1>1 DEF Bounded, Recalled
<1> SUFFICES /\ subscribed' \in {"no", "asked", "stored", "yes"} /\ Len(chain') \in Nat
             /\ Len(chain') >= Len(chain)
             /\ level'[Ix] \in 0 .. Len(chain') /\ syncLevel' \in 0 .. Len(chain')
             /\ Waiting' => ~draining'[Ix]
             /\ subscribed' = "no" /\ syncLevel' > 0 =>
                  Len(Queue') = 0 /\ Len(Ahead') = 0 /\ pc' = "head"
  BY <1>0, <1>1 DEF Bounded, Unbroken
<1>2. CASE \E to \in 0 .. Len(chain), contents \in Seq(BOOLEAN) : Branched(to, contents)
  <2>1. PICK to \in 0 .. Len(chain), contents \in Seq(BOOLEAN) : Branched(to, contents)
    BY <1>2
  <2>2. UNCHANGED <<subscribed, syncLevel, pc, level, draining>> /\ Queue' = Queue
    BY <2>1 DEF Branched, AsIs, QStays
  <2>3. subscribed = "no" => Ahead' = Ahead
    BY <2>1 DEF Branched, AheadStays
  <2>4. Len(chain') \in Nat /\ Len(chain') >= Len(chain)
    <3>1. Len(chain') = to + Len(contents) /\ Len(contents) \in Nat \ {0}
      BY <2>1 DEF Branched, Minted
    <3>2. to = Len(chain) \/ to + Len(contents) >= Len(chain)
      BY <2>1 DEF Branched
    <3> QED
      BY <1>1, <3>1, <3>2
  <2> QED
    BY <1>0, <1>1, <2>2, <2>3, <2>4 DEF Bounded, Unbroken, Waiting
<1>3. CASE Lost
  <2>1. /\ subscribed' = "no" /\ syncLevel' = 0 /\ chain' = chain /\ level' = level
    BY <1>3 DEF Lost, AsIs
  <2> QED
    BY <1>0, <1>1, <2>1 DEF Bounded, Unbroken, Waiting
<1>4. CASE Restart
  <2>1. /\ subscribed' = "no" /\ syncLevel' = Len(chain) /\ chain' = chain /\ level' = level
        /\ Len(Queue') = 0 /\ Len(Ahead') = 0 /\ pc' = "head"
    BY <1>4 DEF Restart, QCleared
  <2> QED
    BY <1>0, <1>1, <2>1 DEF Bounded, Unbroken, Waiting
<1>5. CASE Asked
  <2>1. /\ subscribed' = "asked" /\ syncLevel' = syncLevel /\ chain' = chain /\ level' = level
        /\ ~draining[Ix] /\ draining' = draining
    BY <1>5 DEF Asked, AsIs, Still
  <2> QED
    BY <1>0, <1>1, <2>1 DEF Bounded, Unbroken, Waiting
<1>6. CASE Identified \/ Answered
  <2>1. /\ subscribed' \in {"stored", "yes"} /\ syncLevel' \in 0 .. Len(chain)
        /\ UNCHANGED <<chain, level, draining>> /\ Waiting
    BY <1>0, <1>1, <1>6 DEF Identified, Answered, AsIs, Still, Waiting
  <2> QED
    BY <1>0, <1>1, <2>1 DEF Bounded, Unbroken, Waiting
<1>7. CASE Idle
  <2>1. /\ UNCHANGED <<subscribed, syncLevel, chain, level, draining>> /\ Queue' = Queue
        /\ Ahead' = Ahead /\ (pc = "head" => pc' = "head")
    BY <1>7 DEF Idle, AsIs, Still, QStays, AheadStays, CurrentStays
  <2> QED
    BY <1>0, <1>1, <2>1 DEF Bounded, Unbroken, Waiting
<1>8. CASE HeadEmitted /\ AheadMoves
  <2>1. /\ UNCHANGED <<subscribed, syncLevel, chain, level, draining>> /\ Len(Ahead) >= 1
    BY <1>8 DEF HeadEmitted, Emitting, AheadMoves
  <2> QED
    BY <1>0, <1>1, <2>1 DEF Bounded, Unbroken, Waiting
<1>9. CASE Still /\ (EventsEmitted \/ TransactionsEmitted)
  <2>1. /\ UNCHANGED <<subscribed, syncLevel, chain, level, draining>> /\ pc # "head"
    BY <1>1, <1>9, EmissionIs DEF Emission, Still
  <2> QED
    BY <1>0, <1>1, <2>1 DEF Bounded, Unbroken, Waiting
<1>10. CASE Indexing
  <2>1. UNCHANGED <<subscribed, syncLevel, chain, pc>> /\ Ahead' = Ahead
    BY <1>10 DEF Indexing, Still, AheadStays, Synced, DataTaken, RollbackTaken, Taken, Untouched
  <2>2. CASE Synced
    <3>1. level'[Ix] = syncLevel /\ Len(Queue') = 0 /\ draining' = draining
      BY <2>2 DEF Synced, QCleared
    <3> QED
      BY <1>0, <1>1, <2>1, <3>1 DEF Bounded, Unbroken, Waiting
  <2>3. CASE DataTaken \/ RollbackTaken
    <3>1. level'[Ix] \in 0 .. Len(chain)
      BY <1>1, <2>3, BoundedTaken
    <3>2. ~Waiting /\ Len(Queue) >= 1
      BY <2>3 DEF DataTaken, RollbackTaken, Taken, QPopped
    <3> QED
      BY <1>0, <1>1, <2>1, <3>1, <3>2 DEF Bounded, Unbroken, Waiting
  <2> QED
    BY <1>10, <2>2, <2>3 DEF Indexing
<1> QED
  BY <1>2, <1>3, <1>4, <1>5, <1>6, <1>7, <1>8, <1>9, <1>10 DEF Forms

(* The emitter's next head, as the index sees it.                           *)
Heading ==
  /\ AheadMoves /\ UNCHANGED <<blocks, chain, subscribed, syncLevel, draining, level, rows>>
  /\ pc = "head" /\ pc' = "data" /\ known' \in Nat /\ known' >= 2
  /\ known' <= known =>
       /\ subscribed = "yes" /\ level[Ix] <= known /\ syncLevel <= known
       /\ \A p \in 1 .. Len(Queue) : /\ IsData(Queue[p]) => Queue[p].level <= known' - 1
                                     /\ IsRollback(Queue[p]) => Queue[p].to >= known' - 1
  /\ \/ QStays /\ (known' > known \/ known' - 1 >= level[Ix])
     \/ /\ known' <= known /\ known' - 1 < level[Ix] /\ level[Ix] >= syncLevel
        /\ QPushed(RollbackMsg(known, known' - 1))

(* That is what it is.                                                      *)
LEMMA HeadingIs ==
  ASSUME Covering, Faithful, Heralded, HeadEmitted, AheadMoves
  PROVE  Heading
<1>1. /\ UNCHANGED <<blocks, chain, subscribed, syncLevel, draining, level, rows>>
      /\ pc = "head" /\ pc' = "data"
  BY DEF HeadEmitted, Emitting
<1>2. PathFacts /\ 1 \in 1 .. Len(Ahead) /\ 1 \in 1 .. PathLength - 1 /\ Turns
  <2>1. PathFacts /\ Len(Ahead) >= 1 /\ Turns
    BY PathIs DEF Covering, AheadMoves
  <2> QED
    BY <2>1 DEF PathFacts
<1>3. /\ known \in Nat /\ Path[1] = known /\ known' = Path[2] /\ Path[2] = Lv(Ahead[1])
      /\ Path[2] \in Nat
  <2>1. 2 \in 1 .. PathLength
    BY <1>2 DEF PathFacts
  <2> QED
    BY <1>2, <2>1 DEF PathFacts, AheadMoves
<1>4. known' >= 2
  BY <1>2, <1>3 DEF Heralded
<1>5. ASSUME known' <= known
      PROVE  /\ subscribed = "yes" /\ level[Ix] <= known /\ syncLevel <= known
             /\ \A p \in 1 .. Len(Queue) :
                  /\ IsData(Queue[p]) => Queue[p].level <= known' - 1
                  /\ IsRollback(Queue[p]) => Queue[p].to >= known' - 1
  <2>1. Falls(1)
    BY <1>3, <1>5 DEF Falls
  <2>2. subscribed = "yes" /\ level[Ix] <= Path[1] /\ syncLevel <= Path[1]
    BY <1>2, <2>1 DEF Turns
  <2>3. "backlog" \notin Hazards
    BY DEF Faithful, Attended
  <2>4. ~(known' > known)
    BY <1>3, <1>5
  <2> QED
    BY <1>3, <2>2, <2>3, <2>4 DEF HeadEmitted
<1>6. CASE known' <= known /\ known' - 1 < level[Ix]
  <2>1. "early_message" \notin Hazards
    BY DEF Faithful
  <2>2. level[Ix] >= syncLevel /\ QPushed(RollbackMsg(known, known' - 1))
    BY <1>6, <2>1 DEF HeadEmitted
  <2> QED
    BY <1>1, <1>3, <1>4, <1>5, <1>6, <2>2 DEF Heading
<1>7. CASE ~(known' <= known /\ known' - 1 < level[Ix])
  <2>1. QStays
    BY <1>7 DEF HeadEmitted
  <2>2. known' > known \/ known' - 1 >= level[Ix]
    BY <1>2, <1>3, <1>7 DEF PathFacts
  <2> QED
    BY <1>1, <1>3, <1>4, <1>5, <2>1, <2>2 DEF Heading
<1> QED
  BY <1>6, <1>7

(* Every step keeps the rollbacks, and what an index may clear.             *)
LEMMA HeededKept ==
  ASSUME Covering, Faithful, Ix' = Ix, Heralded, Bounded, Heeded, Forms
  PROVE  Heeded'
<1>1. /\ Len(chain) \in Nat /\ PathFacts /\ QueueFacts /\ Numbers /\ EvmTypes /\ Backed /\ Turns
      /\ Knows
  BY PathIs, EvmQueueIs DEF Covering, PathFacts
<1>2. CASE \E to \in 0 .. Len(chain), contents \in Seq(BOOLEAN) : Branched(to, contents)
  <2>1. PICK to \in 0 .. Len(chain), contents \in Seq(BOOLEAN) : Branched(to, contents)
    BY <1>2
  <2>2. UNCHANGED <<subscribed, syncLevel, level, draining>> /\ Queue' = Queue
    BY <2>1 DEF Branched, AsIs, QStays
  <2> QED
    BY <2>2 DEF Heeded
<1>3. CASE Lost
  <2>1. subscribed' = "no" /\ Queue' = Queue /\ \A p \in 1 .. Len(Queue) : IsData(Queue[p])
    BY <1>3 DEF Lost, AsIs, QStays
  <2>2. \A p \in 1 .. Len(Queue) : ~IsRollback(Queue[p])
    BY <1>1, <2>1 DEF QueueFacts
  <2> QED
    BY <2>1, <2>2 DEF Heeded
<1>4. CASE Restart
  <2>1. Len(Queue') = 0 /\ subscribed' = "no"
    BY <1>4 DEF Restart, QCleared
  <2> QED
    BY <2>1 DEF Heeded
<1>5. CASE Asked
  <2>1. subscribed' = "asked" /\ Queue' = Queue /\ subscribed = "no"
    BY <1>5 DEF Asked, AsIs, QStays
  <2> QED
    BY <2>1 DEF Heeded
<1>11. CASE Identified
  <2>1. subscribed' = "stored" /\ Queue' = Queue /\ subscribed = "asked"
    BY <1>11 DEF Identified, AsIs, QStays
  <2> QED
    BY <2>1 DEF Heeded
<1>6. CASE Answered
  <2>1. /\ subscribed' = "yes" /\ Queue' = Queue /\ subscribed = "stored" /\ level' = level
        /\ level[Ix] < syncLevel' =>
             \A p \in 1 .. Len(Queue) : IsData(Queue[p]) /\ Queue[p].level <= syncLevel'
    BY <1>6 DEF Answered, AsIs, QStays
  <2>2. \A p \in 1 .. Len(Queue) : ~IsRollback(Queue[p])
    BY <2>1 DEF Heeded
  <2> QED
    BY <2>1, <2>2 DEF Heeded
<1>7. CASE Idle
  <2>1. UNCHANGED <<subscribed, syncLevel, level, draining>> /\ Queue' = Queue
    BY <1>7 DEF Idle, AsIs, QStays
  <2> QED
    BY <2>1 DEF Heeded
<1>8. CASE HeadEmitted /\ AheadMoves
  <2>1. Heading
    BY <1>8, HeadingIs
  <2>2. UNCHANGED <<subscribed, syncLevel, level, draining>>
    BY <2>1 DEF Heading
  <2>3. CASE QStays
    BY <2>2, <2>3 DEF Heeded, QStays
  <2>4. CASE ~QStays
    <3>1. /\ subscribed = "yes" /\ level[Ix] >= syncLevel
          /\ QPushed(RollbackMsg(known, known' - 1)) /\ known' \in Nat /\ known' >= 2
      BY <2>1, <2>4 DEF Heading
    <3>2. PICK N \in Nat : N = Len(Queue) /\ Len(Queue') = N + 1
      BY <1>1, <3>1 DEF QueueFacts, QPushed
    <3>3. \A p \in 1 .. N : Queue'[p] = Queue[p]
      BY <3>1, <3>2 DEF QPushed
    <3>4. Queue'[N + 1].to >= 1
      BY <3>1, <3>2 DEF QPushed, RollbackMsg
    <3>5. ASSUME NEW p \in 1 .. N + 1, IsRollback(Queue'[p]) PROVE Queue'[p].to >= 1
      BY <3>2, <3>3, <3>4, <3>5 DEF Heeded
    <3>6. level[Ix] < syncLevel => FALSE
      BY <1>1, <3>1 DEF Numbers
    <3> QED
      BY <2>2, <3>1, <3>2, <3>5, <3>6 DEF Heeded
  <2> QED
    BY <2>3, <2>4
<1>9. CASE Still /\ (EventsEmitted \/ TransactionsEmitted)
  <2>1. Emission
    BY <1>1, <1>9, EmissionIs
  <2>2. UNCHANGED <<subscribed, syncLevel, level, draining>>
    BY <2>1 DEF Emission
  <2>3. CASE QStays
    BY <2>2, <2>3 DEF Heeded, QStays
  <2>4. CASE ~QStays
    <3>1. PICK b \in Blocks, found \in SUBSET Logs : Given(b, found) /\ Lv(b) = known
      BY <2>1, <2>4 DEF Emission
    <3>2. QPushed(DataMsg(b, found)) /\ (level[Ix] >= syncLevel \/ Lv(b) <= syncLevel)
      BY <3>1 DEF Given, Faithful
    <3>3. PICK N \in Nat : N = Len(Queue) /\ Len(Queue') = N + 1
      BY <1>1, <3>2 DEF QueueFacts, QPushed
    <3>4. \A p \in 1 .. N : Queue'[p] = Queue[p]
      BY <3>2, <3>3 DEF QPushed
    <3>5. Queue'[N + 1].level = Lv(b) /\ ~IsRollback(Queue'[N + 1])
      BY <3>2, <3>3 DEF QPushed, DataMsg, IsRollback, Lv
    <3>6. ASSUME NEW p \in 1 .. N + 1, IsRollback(Queue'[p]) PROVE p \in 1 .. N
      BY <3>5, <3>6
    <3>7. level[Ix] < syncLevel => Lv(b) <= syncLevel
      BY <1>1, <3>2 DEF Numbers
    <3>8. \A p \in 1 .. N + 1 : p \in 1 .. N \/ p = N + 1
      BY <3>3
    <3> QED
      BY <2>2, <3>3, <3>4, <3>5, <3>6, <3>7, <3>8 DEF Heeded
  <2> QED
    BY <2>3, <2>4
<1>10. CASE Indexing
  <2>1. UNCHANGED <<subscribed, syncLevel>>
    BY <1>10 DEF Indexing, Synced, DataTaken, RollbackTaken, Taken, Untouched
  <2>2. CASE Synced
    BY <2>2 DEF Synced, QCleared, Heeded
  <2>3. CASE DataTaken \/ RollbackTaken
    <3>1. QPopped /\ (draining'[Ix] <=> Len(Queue) # 1)
      BY <2>3 DEF DataTaken, RollbackTaken, Taken
    <3>2. PICK N \in Nat \ {0} : N = Len(Queue) /\ Len(Queue') = N - 1
      BY <1>1, <3>1 DEF QueueFacts, QPopped
    <3>3. CASE N = 1
      BY <3>2, <3>3 DEF Heeded
    <3>4. CASE N # 1
      <4>1. draining'[Ix]
        BY <3>1, <3>2, <3>4
      <4>2. \A p \in 1 .. N - 1 : Queue'[p] = Queue[p + 1] /\ p + 1 \in 1 .. N
        BY <3>1, <3>2 DEF QPopped
      <4> QED
        BY <2>1, <3>2, <4>1, <4>2 DEF Heeded
    <3> QED
      BY <3>3, <3>4
  <2> QED
    BY <1>10, <2>2, <2>3 DEF Indexing
<1> QED
  BY <1>2, <1>3, <1>4, <1>5, <1>6, <1>7, <1>8, <1>9, <1>10, <1>11 DEF Forms

(* Data go in with their levels ascending, and a rollback after the data    *)
(* below its target; what is still to be emitted is above all data.         *)
Ordered ==
  /\ \A p \in 1 .. Len(Queue) : \A q \in 1 .. Len(Queue) : q < p =>
       /\ IsData(Queue[p]) /\ IsData(Queue[q]) => Queue[q].level < Queue[p].level
       /\ IsRollback(Queue[p]) /\ IsData(Queue[q]) => Queue[q].level <= Queue[p].to
  /\ ToEmit => \A p \in 1 .. Len(Queue) : IsData(Queue[p]) => Queue[p].level < known

(* A block is given once.                                                   *)
LEMMA EmissionOnce ==
  ASSUME Ix' = Ix, EventsEmitted \/ TransactionsEmitted
  PROVE  /\ ToEmit' => ToEmit
         /\ ~QStays => ToEmit /\ ~ToEmit'
<1>1. CASE EventsEmitted
  <2>1. pc = "data" /\ pc' \in {"transactions", "forget"}
    BY <1>1 DEF EventsEmitted
  <2>2. ~QStays => Ix = "events"
    BY <1>1 DEF EventsEmitted
  <2> QED
    BY <2>1, <2>2 DEF ToEmit
<1>2. CASE TransactionsEmitted
  <2>1. pc = "transactions" /\ pc' \in {"transactions", "forget"}
    BY <1>2 DEF TransactionsEmitted
  <2>2. ~QStays => Ix = "transactions" /\ pc' = "forget"
    BY <1>2 DEF TransactionsEmitted
  <2> QED
    BY <2>1, <2>2 DEF ToEmit
<1> QED
  BY <1>1, <1>2

(* The order stays when a message is taken,                                 *)
LEMMA OrderedPopped ==
  ASSUME QueueFacts, Ordered, QPopped, known' = known, ToEmit' => ToEmit
  PROVE  Ordered'
<1>1. PICK N \in Nat \ {0} : N = Len(Queue) /\ Len(Queue') = N - 1
  BY DEF QueueFacts, QPopped
<1>2. \A p \in 1 .. N - 1 : Queue'[p] = Queue[p + 1] /\ p + 1 \in 1 .. N
  BY <1>1 DEF QPopped
<1>3. ASSUME NEW p \in 1 .. N - 1, NEW q \in 1 .. N - 1, q < p
      PROVE  /\ IsData(Queue'[p]) /\ IsData(Queue'[q]) => Queue'[q].level < Queue'[p].level
             /\ IsRollback(Queue'[p]) /\ IsData(Queue'[q]) => Queue'[q].level <= Queue'[p].to
  <2>1. q + 1 < p + 1
    BY <1>3
  <2>2. /\ IsData(Queue[p + 1]) /\ IsData(Queue[q + 1]) =>
             Queue[q + 1].level < Queue[p + 1].level
        /\ IsRollback(Queue[p + 1]) /\ IsData(Queue[q + 1]) =>
             Queue[q + 1].level <= Queue[p + 1].to
    BY <1>1, <1>2, <2>1 DEF Ordered
  <2> QED
    BY <1>2, <2>2
<1>4. ToEmit' => \A p \in 1 .. N - 1 : IsData(Queue'[p]) => Queue'[p].level < known'
  BY <1>1, <1>2 DEF Ordered
<1> QED
  BY <1>1, <1>3, <1>4 DEF Ordered

(* or a message is added.                                                   *)
LEMMA OrderedPushed ==
  ASSUME QueueFacts, Ordered, NEW m, QPushed(m), ~(IsData(m) /\ IsRollback(m)),
         IsData(m) =>
           \A p \in 1 .. Len(Queue) : IsData(Queue[p]) => Queue[p].level < m.level,
         IsRollback(m) =>
           \A p \in 1 .. Len(Queue) : IsData(Queue[p]) => Queue[p].level <= m.to,
         ToEmit' => /\ ~IsData(m)
                    /\ \A p \in 1 .. Len(Queue) : IsData(Queue[p]) => Queue[p].level < known'
  PROVE  Ordered'
<1>1. PICK N \in Nat : N = Len(Queue) /\ Len(Queue') = N + 1
  BY DEF QueueFacts, QPushed
<1>2. /\ \A p \in 1 .. N : Queue'[p] = Queue[p]
      /\ Queue'[N + 1] = m
      /\ \A p \in 1 .. N + 1 : p \in 1 .. N \/ p = N + 1
  BY <1>1 DEF QPushed
<1>3. ASSUME NEW p \in 1 .. N + 1, NEW q \in 1 .. N + 1, q < p
      PROVE  /\ IsData(Queue'[p]) /\ IsData(Queue'[q]) => Queue'[q].level < Queue'[p].level
             /\ IsRollback(Queue'[p]) /\ IsData(Queue'[q]) => Queue'[q].level <= Queue'[p].to
  <2>1. q \in 1 .. N
    BY <1>3
  <2>2. CASE p \in 1 .. N
    BY <1>1, <1>2, <1>3, <2>1, <2>2 DEF Ordered
  <2>3. CASE p = N + 1
    BY <1>1, <1>2, <2>1, <2>3
  <2> QED
    BY <1>2, <2>2, <2>3
<1>4. ToEmit' => \A p \in 1 .. N + 1 : IsData(Queue'[p]) => Queue'[p].level < known'
  BY <1>1, <1>2
<1> QED
  BY <1>1, <1>3, <1>4 DEF Ordered

(* Every step keeps the order.                                              *)
LEMMA OrderedKept ==
  ASSUME Covering, Faithful, Ix' = Ix, Heralded, Ordered, Forms
  PROVE  Ordered'
<1>1. EvmTypes /\ QueueFacts /\ Numbers /\ Backed /\ Knows
  BY EvmQueueIs DEF Covering
<1>2. CASE Queue' = Queue /\ known' = known /\ (ToEmit' => ToEmit)
  BY <1>2 DEF Ordered
<1>3. CASE \E to \in 0 .. Len(chain), contents \in Seq(BOOLEAN) : Branched(to, contents)
  BY <1>2, <1>3 DEF Branched, AsIs, QStays, ToEmit
<1>4. CASE Lost
  BY <1>2, <1>4 DEF Lost, AsIs, QStays, ToEmit
<1>5. CASE Restart
  <2>1. Len(Queue') = 0
    BY <1>5 DEF Restart, QCleared
  <2> QED
    BY <2>1 DEF Ordered
<1>6. CASE Asked \/ Identified \/ Answered
  BY <1>2, <1>6 DEF Asked, Identified, Answered, AsIs, Still, QStays, ToEmit
<1>7. CASE Idle
  BY <1>2, <1>7 DEF Idle, AsIs, Still, QStays
<1>8. CASE HeadEmitted /\ AheadMoves
  <2>1. Heading
    BY <1>8, HeadingIs
  <2>2. ToEmit' /\ known' \in Nat
    BY <2>1 DEF Heading, ToEmit
  <2>3. \A p \in 1 .. Len(Queue) : IsData(Queue[p]) => Queue[p].level < known'
    <3>1. CASE known' <= known
      <4>1. \A p \in 1 .. Len(Queue) : IsData(Queue[p]) => Queue[p].level <= known' - 1
        BY <2>1, <3>1 DEF Heading
      <4> QED
        BY <1>1, <2>2, <4>1 DEF QueueFacts
    <3>2. CASE known' > known
      <4>1. \A p \in 1 .. Len(Queue) : IsData(Queue[p]) => Queue[p].level <= known
        BY <1>1 DEF Backed
      <4> QED
        BY <1>1, <2>2, <3>2, <4>1 DEF QueueFacts, Numbers
    <3> QED
      BY <1>1, <2>2, <3>1, <3>2 DEF Numbers
  <2>4. CASE QStays
    BY <2>3, <2>4 DEF QStays, Ordered
  <2>5. CASE ~QStays
    <3> DEFINE m == RollbackMsg(known, known' - 1)
    <3>1. QPushed(m) /\ known' <= known
      BY <2>1, <2>5 DEF Heading
    <3>2. ~IsData(m) /\ m.to = known' - 1
      BY DEF RollbackMsg, IsData
    <3>3. \A p \in 1 .. Len(Queue) : IsData(Queue[p]) => Queue[p].level <= m.to
      BY <2>1, <3>1, <3>2 DEF Heading
    <3> HIDE DEF m
    <3> QED
      BY <1>1, <2>3, <3>1, <3>2, <3>3, OrderedPushed
  <2> QED
    BY <2>4, <2>5
<1>9. CASE Still /\ (EventsEmitted \/ TransactionsEmitted)
  <2>1. Emission /\ known' = known
    BY <1>1, <1>9, EmissionIs DEF Still
  <2>2. CASE QStays
    BY <1>2, <1>9, <2>1, <2>2, EmissionOnce DEF QStays
  <2>3. CASE ~QStays
    <3>1. PICK b \in Blocks, found \in SUBSET Logs : Given(b, found) /\ Lv(b) = known
      BY <2>1, <2>3 DEF Emission
    <3> DEFINE m == DataMsg(b, found)
    <3>2. QPushed(m) /\ ~IsRollback(m) /\ m.level = known
      BY <3>1 DEF Given, DataMsg, IsRollback, Lv
    <3>3. ToEmit /\ ~ToEmit'
      BY <1>9, <2>3, EmissionOnce
    <3>4. \A p \in 1 .. Len(Queue) : IsData(Queue[p]) => Queue[p].level < m.level
      BY <3>2, <3>3 DEF Ordered
    <3> HIDE DEF m
    <3> QED
      BY <1>1, <3>2, <3>3, <3>4, OrderedPushed
  <2> QED
    BY <2>2, <2>3
<1>10. CASE Indexing
  <2>1. UNCHANGED <<pc, known>> /\ (ToEmit' => ToEmit)
    BY <1>10 DEF Indexing, Still, Synced, DataTaken, RollbackTaken, Taken, Untouched, ToEmit
  <2>2. CASE Synced
    <3>1. Len(Queue') = 0
      BY <2>2 DEF Synced, QCleared
    <3> QED
      BY <3>1 DEF Ordered
  <2>3. CASE DataTaken \/ RollbackTaken
    <3>1. QPopped
      BY <2>3 DEF DataTaken, RollbackTaken, Taken
    <3> QED
      BY <1>1, <2>1, <3>1, OrderedPopped
  <2> QED
    BY <1>10, <2>2, <2>3 DEF Indexing
<1> QED
  BY <1>3, <1>4, <1>5, <1>6, <1>7, <1>8, <1>9, <1>10 DEF Forms

(* What the data are made of: all logs of a block, or its transactions; of  *)
(* a canonical one, or of a level that will be undone.                      *)
Carries(m) ==
  /\ m.rows.block \in Blocks /\ m.level = Lv(m.rows.block) /\ m.rows = RowsOf(Ix, m.rows.block)
  /\ m.rows = Truth(m.level) \/ Undone(m.level)
Carried == \A p \in 1 .. Len(Queue) : IsData(Queue[p]) => Carries(Queue[p])

(* What is carried stays what it is, as long as the chain does              *)
LEMMA CarriesStays ==
  ASSUME Ix' = Ix, UNCHANGED <<blocks, chain>>, NEW m, Carries(m), Undone(m.level) =>
         Undone(m.level)' \/ m.rows = Truth(m.level)
  PROVE  Carries(m)'
<1>1. /\ Blocks' = Blocks /\ Lv(m.rows.block)' = Lv(m.rows.block)
      /\ RowsOf(Ix, m.rows.block)' = RowsOf(Ix, m.rows.block)
  BY DEF Blocks, Lv, RowsOf
<1>2. Truth(m.level)' = Truth(m.level)
  BY TruthStays
<1>3. /\ m.rows.block \in Blocks /\ m.level = Lv(m.rows.block)
      /\ m.rows = RowsOf(Ix, m.rows.block)
      /\ m.rows = Truth(m.level) \/ Undone(m.level)
  BY DEF Carries
<1>4. m.rows = Truth(m.level)' \/ Undone(m.level)'
  BY <1>2, <1>3
<1>5. /\ m.rows.block \in Blocks' /\ m.level = Lv(m.rows.block)'
      /\ m.rows = RowsOf(Ix, m.rows.block)'
  BY <1>1, <1>3
<1> QED
  BY <1>4, <1>5 DEF Carries

(* and a branch undoes it.                                                  *)
LEMMA CarriesBranched ==
  ASSUME EvmTypes, EvmTypes', Ix' = Ix, Turns, NEW to \in 0 .. Len(chain),
         NEW contents \in Seq(BOOLEAN), Branched(to, contents), NEW m, Carries(m),
         m.level \in Int, m.level <= known
  PROVE  Carries(m)'
<1>1. /\ Minted(to, contents) /\ Len(contents) \in Nat \ {0} /\ PathFacts /\ to \in Nat
  BY PathIs DEF Branched, PathFacts
<1>2. /\ Len(chain') = to + Len(contents) /\ \A l \in 1 .. to : chain'[l] = chain[l]
      /\ \A b \in Blocks : b \in Blocks' /\ blocks'[b] = blocks[b]
  <2>1. Len(blocks') = Len(blocks) + Len(contents) /\ Len(blocks) \in Nat
    BY <1>1, BlocksAre DEF Minted, EvmTypes
  <2> QED
    BY <1>1, <2>1 DEF Minted, Blocks
<1>3. \A l \in 1 .. to : Truth(l)' = Truth(l)
  BY <1>1, <1>2, TruthBranch
<1>4. /\ m.rows.block \in Blocks /\ m.level = Lv(m.rows.block)
      /\ m.rows = RowsOf(Ix, m.rows.block)
      /\ m.rows = Truth(m.level) \/ Undone(m.level)
  BY DEF Carries
<1>5. /\ m.rows.block \in Blocks' /\ m.level = Lv(m.rows.block)'
      /\ m.rows = RowsOf(Ix, m.rows.block)'
  BY <1>2, <1>4 DEF Lv, RowsOf
<1>6. m.level >= 1
  BY <1>4, BlocksAre DEF EvmTypes
<1>7. m.rows = Truth(m.level)' \/ Undone(m.level)'
  <2>1. CASE subscribed = "no"
    <3>1. Path' = Path /\ to = Len(chain)
      BY <2>1, BranchUnheard DEF AheadStays
    <3>2. m.level \in 1 .. to
      BY <1>1, <1>6, <3>1 DEF Turns, PathFacts
    <3>3. Undone(m.level)' <=> Undone(m.level)
      BY <3>1, UndoneStays
    <3> QED
      BY <1>3, <1>4, <3>2, <3>3
  <2>2. CASE subscribed # "no"
    <3>1. AheadGrows(to, Len(contents))
      BY <2>2 DEF Branched
    <3>2. /\ Undone(m.level) => Undone(m.level)'
          /\ \A j \in 1 .. PathLength : Path[j] >= m.level /\ m.level >= to + 1 =>
               Undone(m.level)'
      BY <1>1, <3>1, UndoneGrows
    <3>3. CASE m.level <= to
      BY <1>1, <1>3, <1>4, <1>6, <3>2, <3>3
    <3>4. CASE m.level >= to + 1
      <4>1. 1 \in 1 .. PathLength /\ Path[1] >= m.level
        BY <1>1 DEF PathFacts
      <4> QED
        BY <3>2, <3>4, <4>1
    <3> QED
      BY <1>1, <3>3, <3>4
  <2> QED
    BY <2>1, <2>2
<1> QED
  BY <1>5, <1>7 DEF Carries

(* The logs are all there when events are emitted.                          *)
LEMMA AllLogs ==
  ASSUME EvmTypes, Faithful, Kept, Honest, Gathered, EventsEmitted, Ix = "events",
         objects[current].events # {}
  PROVE  DataMsg(BlockOf(current), objects[current].events).rows = RowsOf(Ix, BlockOf(current))
<1>1. pc = "data" /\ levelData[BlockOf(current)] = current /\ current \in 1 .. Len(objects)
  BY DEF EventsEmitted, Kept, EvmTypes, EmitterTypes
<1>2. BlockOf(current) \in 1 .. MaxBlocks /\ current # 0 /\ objects[current].events \subseteq Logs
  <2>1. BlockOf(current) \in Blocks /\ ChainTypes /\ objects \in Seq(LevelDatas)
    BY <1>1 DEF EvmTypes, ObjectTypes
  <2>2. objects[current] \in LevelDatas
    BY <1>1, <2>1
  <2>3. objects[current].events \subseteq Logs
    BY <2>2 DEF LevelDatas
  <2> QED
    BY <1>1, <2>1, <2>3, BlocksAre
<1>3. blocks[BlockOf(current)].full
  BY <1>1, <1>2 DEF Honest
<1>4. ASSUME NEW i \in Logs PROVE i \in objects[current].events
  <2>1. Gathers(BlockOf(current))
    BY <1>1 DEF Gathered
  <2>2. \/ Notice(BlockOf(current), i) \in Range(logs)
        \/ i \in objects[current].events
    BY <1>1, <1>3, <2>1 DEF Gathers
  <2>3. Notice(BlockOf(current), i) \notin Range(logs)
    <3>1. ASSUME Notice(BlockOf(current), i) \in Range(logs) PROVE FALSE
      <4>1. PICK n \in 1 .. Len(logs) : logs[n] = Notice(BlockOf(current), i)
        BY <3>1, RangeIs DEF EvmTypes, FeedTypes
      <4>2. logs[n].block = BlockOf(current) => logs[n].removed
        BY DEF EventsEmitted, Faithful
      <4> QED
        BY <4>1, <4>2 DEF Notice
    <3> QED
      BY <3>1
  <2> QED
    BY <2>2, <2>3
<1>5. objects[current].events = Logs
  BY <1>2, <1>4
<1> QED
  BY <1>3, <1>5 DEF DataMsg, RowsOf

(* What is emitted is made as said.                                         *)
LEMMA EmittedCarries ==
  ASSUME EvmTypes, Faithful, Fits, Knows, Kept, Honest, Heralded, Gathered,
         EventsEmitted \/ TransactionsEmitted, ~QStays
  PROVE  \E b \in Blocks, found \in SUBSET Logs :
           /\ QPushed(DataMsg(b, found)) /\ Lv(b) = known /\ Carries(DataMsg(b, found))
<1>1. Queue' # Queue /\ Len(chain) \in Nat
  BY BlocksAre DEF QStays, EvmTypes
<1>2. CASE EventsEmitted
  <2>1. objects[current].events # {} /\ Ix = "events"
    BY <1>2 DEF EventsEmitted
  <2>2. Given(BlockOf(current), objects[current].events) /\ Lv(BlockOf(current)) = known
    BY <1>1, <1>2, GivenLevel DEF EventsEmitted
  <2>3. PICK b \in Blocks, found \in SUBSET Logs :
          b = BlockOf(current) /\ found = objects[current].events /\ QPushed(DataMsg(b, found))
    BY <2>2 DEF Given
  <2> DEFINE m == DataMsg(b, found)
  <2>4. m.rows = RowsOf(Ix, b)
    BY <1>2, <2>1, <2>3, AllLogs
  <2>5. m.rows.block = b /\ m.level = Lv(b)
    BY DEF DataMsg, Lv
  <2>6. m.rows = Truth(known) \/ Undone(known)
    <3>1. chain[known] = b \/ Undone(known)
      BY <1>2, <2>3 DEF Heralded, EventsEmitted
    <3>2. known \in DOMAIN chain
      <4>1. known \in 1 .. Len(chain)
        BY <1>1, <2>2, <2>3, BlocksAre DEF Fits, EvmTypes
      <4>2. chain \in Seq(Nat)
        BY DEF EvmTypes, ChainTypes
      <4> QED
        BY <4>1, <4>2
    <3>3. Truth(known) = RowsOf(Ix, chain[known])
      BY <3>2 DEF Truth, Canonical
    <3> QED
      BY <2>4, <3>1, <3>3
  <2> HIDE DEF m
  <2>7. Carries(m) /\ Lv(b) = known
    BY <2>2, <2>3, <2>4, <2>5, <2>6 DEF Carries
  <2> QED
    BY <2>3, <2>7 DEF m
<1>3. CASE TransactionsEmitted
  <2>1. Given(chain[known], {}) /\ known \in 1 .. Len(chain)
    BY <1>1, <1>3, GivenLevel
  <2>2. Lv(BlockOf(current)) = known /\ Lv(chain[known]) = known
    BY <1>3, <2>1, GivenLevel DEF TransactionsEmitted
  <2>3. blocks[chain[known]].full /\ Ix = "transactions"
    BY <1>3, <2>2 DEF TransactionsEmitted
  <2>4. PICK b \in Blocks, found \in SUBSET Logs :
          b = chain[known] /\ found = {} /\ QPushed(DataMsg(b, found))
    BY <2>1 DEF Given
  <2> DEFINE m == DataMsg(b, found)
  <2>5. m.rows = RowsOf(Ix, b)
    BY <2>3, <2>4 DEF DataMsg, RowsOf
  <2>6. m.rows.block = b /\ m.level = Lv(b)
    BY DEF DataMsg, Lv
  <2>7. Truth(known) = RowsOf(Ix, chain[known])
    <3>1. known \in DOMAIN chain
      BY <2>1 DEF EvmTypes, ChainTypes
    <3> QED
      BY <3>1 DEF Truth, Canonical
  <2> HIDE DEF m
  <2>8. Carries(m) /\ Lv(b) = known
    BY <2>2, <2>4, <2>5, <2>6, <2>7 DEF Carries
  <2> QED
    BY <2>4, <2>8 DEF m
<1> QED
  BY <1>2, <1>3

(* Every step keeps what the data are made of.                              *)
LEMMA CarriedKept ==
  ASSUME Covering, EvmTypes', Faithful, Ix' = Ix, Kept, Honest, Heralded, Gathered, Carried, Forms
  PROVE  Carried'
<1>1. EvmTypes /\ QueueFacts /\ Numbers /\ Backed /\ Knows /\ Fits /\ Turns /\ PathFacts
  BY EvmQueueIs, PathIs DEF Covering
<1>2. CASE Still /\ \A p \in 1 .. Len(Queue') :
                      \/ p \in 1 .. Len(Queue) /\ Queue'[p] = Queue[p]
                      \/ p + 1 \in 1 .. Len(Queue) /\ Queue'[p] = Queue[p + 1]
                      \/ IsData(Queue'[p]) => Carries(Queue'[p])
  <2>1. UNCHANGED <<blocks, chain>> /\ \A l : Undone(l)' <=> Undone(l)
    BY <1>2, UndoneStays DEF Still, AheadStays
  <2>2. ASSUME NEW m, Carries(m) PROVE Carries(m)'
    BY <2>1, <2>2, CarriesStays
  <2>3. ASSUME NEW p \in 1 .. Len(Queue'), IsData(Queue'[p]) PROVE Carries(Queue[p])'
    <3>1. PICK m : m = Queue'[p]
      OBVIOUS
    <3>2. Carries(m)
      BY <1>2, <2>3, <3>1 DEF Carried
    <3>3. Carries(m)'
      BY <2>2, <3>2
    <3> QED
      BY <3>1, <3>3 DEF Carries
  <2> QED
    BY <2>3 DEF Carried
<1>3. CASE Still /\ QStays
  BY <1>2, <1>3 DEF QStays
<1>4. CASE \E to \in 0 .. Len(chain), contents \in Seq(BOOLEAN) : Branched(to, contents)
  <2>1. PICK to \in 0 .. Len(chain), contents \in Seq(BOOLEAN) : Branched(to, contents)
    BY <1>4
  <2>2. Queue' = Queue
    BY <2>1 DEF Branched, AsIs, QStays
  <2>3. ASSUME NEW p \in 1 .. Len(Queue), IsData(Queue[p]) PROVE Carries(Queue[p])'
    <3>1. PICK m : m = Queue[p]
      OBVIOUS
    <3>2. Carries(m) /\ m.level \in Int /\ m.level <= known
      BY <1>1, <2>3, <3>1 DEF Carried, QueueFacts, Backed
    <3>3. Carries(m)'
      BY <1>1, <2>1, <3>2, CarriesBranched
    <3>4. Queue'[p] = m
      BY <2>2, <3>1
    <3> QED
      BY <3>3, <3>4 DEF Carries
  <2> QED
    BY <2>2, <2>3 DEF Carried
<1>5. CASE Lost
  <2>1. /\ Queue' = Queue /\ UNCHANGED <<blocks, chain>>
        /\ \A p \in 1 .. Len(Queue) : Queue[p].rows.block \in Range(chain)
    BY <1>5 DEF Lost, AsIs, QStays
  <2>2. ASSUME NEW p \in 1 .. Len(Queue), IsData(Queue[p]) PROVE Carries(Queue[p])'
    <3>1. PICK m : m = Queue[p]
      OBVIOUS
    <3>2. Carries(m) /\ m.rows.block \in Range(chain)
      BY <2>1, <2>2, <3>1 DEF Carried
    <3>3. PICK l \in 1 .. Len(chain) : chain[l] = m.rows.block
      <4>1. chain \in Seq(Nat)
        BY <1>1 DEF EvmTypes, ChainTypes
      <4> QED
        BY <3>2, <4>1, RangeIs
    <3>4. Lv(chain[l]) = l /\ l \in DOMAIN chain
      BY <1>1, <3>3 DEF EvmTypes, ChainTypes
    <3>5. m.level = l /\ m.rows = RowsOf(Ix, chain[l])
      BY <3>2, <3>3, <3>4 DEF Carries
    <3>6. m.rows = Truth(m.level)
      BY <3>4, <3>5 DEF Truth, Canonical
    <3>7. Carries(m)'
      BY <2>1, <3>2, <3>6, CarriesStays
    <3>8. Queue'[p] = m
      BY <2>1, <3>1
    <3> QED
      BY <3>7, <3>8 DEF Carries
  <2> QED
    BY <2>1, <2>2 DEF Carried
<1>6. CASE Restart
  <2>1. Len(Queue') = 0
    BY <1>6 DEF Restart, QCleared
  <2> QED
    BY <2>1 DEF Carried
<1>7. CASE Asked \/ Identified \/ Answered \/ Idle
  BY <1>3, <1>7 DEF Asked, Identified, Answered, Idle, AsIs
<1>8. CASE HeadEmitted /\ AheadMoves
  <2>1. Heading /\ UNCHANGED <<blocks, chain>>
    BY <1>8, HeadingIs DEF Heading
  <2>2. ASSUME NEW p \in 1 .. Len(Queue), IsData(Queue[p]), NEW m, m = Queue[p]
        PROVE  Carries(m)'
    <3>1. Carries(m) /\ m.level \in Int /\ m.level <= known
      BY <1>1, <2>2 DEF Carried, QueueFacts, Backed
    <3>2. ASSUME Undone(m.level) PROVE Undone(m.level)'
      <4>1. Undone(m.level)' \/ (known' <= m.level /\ m.level <= known)
        BY <1>1, <1>8, <3>1, <3>2, UndoneMoves
      <4>2. ASSUME known' <= m.level, m.level <= known PROVE FALSE
        <5>1. known' \in Nat /\ known \in Int
          BY <1>1, <2>1 DEF Heading, Numbers
        <5>2. known' <= known
          BY <3>1, <4>2, <5>1
        <5>3. m.level <= known' - 1
          BY <2>1, <2>2, <5>2 DEF Heading
        <5> QED
          BY <3>1, <4>2, <5>1, <5>3
      <4> QED
        BY <4>1, <4>2
    <3> QED
      BY <2>1, <3>1, <3>2, CarriesStays
  <2>3. \A p \in 1 .. Len(Queue') : IsData(Queue'[p]) =>
          p \in 1 .. Len(Queue) /\ Queue'[p] = Queue[p]
    <3>1. CASE QStays
      BY <3>1 DEF QStays
    <3>2. CASE ~QStays
      <4>1. QPushed(RollbackMsg(known, known' - 1))
        BY <2>1, <3>2 DEF Heading
      <4>2. PICK N \in Nat : N = Len(Queue) /\ Len(Queue') = N + 1
        BY <1>1, <4>1 DEF QueueFacts, QPushed
      <4>3. ~IsData(Queue'[N + 1]) /\ \A p \in 1 .. N : Queue'[p] = Queue[p]
        BY <4>1, <4>2 DEF QPushed, RollbackMsg, IsData
      <4>4. \A p \in 1 .. N + 1 : p \in 1 .. N \/ p = N + 1
        BY <4>2
      <4> QED
        BY <4>2, <4>3, <4>4
    <3> QED
      BY <3>1, <3>2
  <2>4. ASSUME NEW p \in 1 .. Len(Queue'), IsData(Queue'[p]) PROVE Carries(Queue[p])'
    <3>1. PICK m : m = Queue'[p]
      OBVIOUS
    <3>2. p \in 1 .. Len(Queue) /\ m = Queue[p]
      BY <2>3, <2>4, <3>1
    <3>3. Carries(m)'
      BY <2>2, <2>4, <3>1, <3>2
    <3> QED
      BY <3>1, <3>3 DEF Carries
  <2> QED
    BY <2>4 DEF Carried
<1>9. CASE Still /\ (EventsEmitted \/ TransactionsEmitted)
  <2>1. CASE QStays
    BY <1>3, <1>9, <2>1
  <2>2. CASE ~QStays
    <3>1. PICK b \in Blocks, found \in SUBSET Logs :
            QPushed(DataMsg(b, found)) /\ Carries(DataMsg(b, found))
      BY <1>1, <1>9, <2>2, EmittedCarries
    <3>2. PICK N \in Nat : N = Len(Queue) /\ Len(Queue') = N + 1
      BY <1>1, <3>1 DEF QueueFacts, QPushed
    <3>3. Carries(Queue'[N + 1]) /\ \A p \in 1 .. N : Queue'[p] = Queue[p]
      BY <3>1, <3>2 DEF QPushed
    <3>4. \A p \in 1 .. N + 1 : p \in 1 .. N \/ p = N + 1
      BY <3>2
    <3> QED
      BY <1>2, <1>9, <3>2, <3>3, <3>4
  <2> QED
    BY <2>1, <2>2
<1>10. CASE Indexing
  <2>1. CASE Synced
    <3>1. Len(Queue') = 0
      BY <2>1 DEF Synced, QCleared
    <3> QED
      BY <3>1 DEF Carried
  <2>2. CASE DataTaken \/ RollbackTaken
    <3>1. QPopped
      BY <2>2 DEF DataTaken, RollbackTaken, Taken
    <3>2. PICK N \in Nat \ {0} : N = Len(Queue) /\ Len(Queue') = N - 1
      BY <1>1, <3>1 DEF QueueFacts, QPopped
    <3>3. \A p \in 1 .. N - 1 : Queue'[p] = Queue[p + 1] /\ p + 1 \in 1 .. N
      BY <3>1, <3>2 DEF QPopped
    <3> QED
      BY <1>2, <1>10, <3>2, <3>3 DEF Indexing
  <2> QED
    BY <1>10, <2>1, <2>2 DEF Indexing
<1> QED
  BY <1>4, <1>5, <1>6, <1>7, <1>8, <1>9, <1>10 DEF Forms

-----------------------------------------------------------------------------
(* An EVM node: the rows, and what is still to come.                        *)

(* The rows of a level are canonical, or it will be rolled back; there are  *)
(* none above the index.                                                    *)
Indexed ==
  \A l \in Levels :
    /\ l <= level[Ix] => rows[Ix][l] = Truth(l) \/ Cleared(l) \/ Undone(l)
    /\ l > level[Ix] => rows[Ix][l] = NoRows

(* The canonical rows of a level are still to come: its block is ahead, or  *)
(* at the emitter, or its data in the queue; or the index has got there, or *)
(* will synchronize.                                                        *)
Comes(l) ==
  \/ \E n \in 1 .. Len(Ahead) : Ahead[n] = chain[l]
  \/ Emits(chain[l])
  \/ \E p \in 1 .. Len(Queue) : IsData(Queue[p]) /\ Queue[p].level = l
  \/ l <= level[Ix] /\ ~Cleared(l)
  \/ subscribed = "yes" /\ ~draining[Ix] /\ level[Ix] < l /\ l <= syncLevel
  \/ subscribed = "asked" /\ l > level[Ix]
  \/ subscribed = "stored" /\ level[Ix] < l /\ l <= askedAt
  \/ subscribed = "no" /\ l > level[Ix] /\ (~draining[Ix] \/ Beyond(l))
Expected == \A l \in 1 .. Len(chain) : Truth(l) # NoRows => Comes(l)

(* Levels that are cleared, as the queue changes.                           *)
LEMMA ClearedIs ==
  ASSUME QueueFacts, NEW l
  PROVE  /\ QStays => (Cleared(l)' <=> Cleared(l))
         /\ \A m : QPushed(m) =>
              (Cleared(l)' <=> Cleared(l) \/ (IsRollback(m) /\ m.to < l))
         /\ QPopped => (Cleared(l) <=> Cleared(l)' \/ (IsRollback(Queue[1]) /\ Queue[1].to < l))
<1>1. QStays => (Cleared(l)' <=> Cleared(l))
  BY DEF QStays, Cleared
<1>2. ASSUME NEW m, QPushed(m)
      PROVE  Cleared(l)' <=> Cleared(l) \/ (IsRollback(m) /\ m.to < l)
  <2>1. PICK N \in Nat : N = Len(Queue) /\ Len(Queue') = N + 1
    BY <1>2 DEF QueueFacts, QPushed
  <2>2. /\ \A p \in 1 .. N : Queue'[p] = Queue[p] /\ p \in 1 .. N + 1
        /\ Queue'[N + 1] = m /\ N + 1 \in 1 .. N + 1
        /\ \A p \in 1 .. N + 1 : p \in 1 .. N \/ p = N + 1
    BY <1>2, <2>1 DEF QPushed
  <2>3. Cleared(l)' <=> \E p \in 1 .. N + 1 : IsRollback(Queue'[p]) /\ Queue'[p].to < l
    BY <2>1 DEF Cleared
  <2>4. Cleared(l) <=> \E p \in 1 .. N : IsRollback(Queue[p]) /\ Queue[p].to < l
    BY <2>1 DEF Cleared
  <2>5. ASSUME Cleared(l)' PROVE Cleared(l) \/ (IsRollback(m) /\ m.to < l)
    BY <2>2, <2>3, <2>4, <2>5
  <2>6. ASSUME Cleared(l) PROVE Cleared(l)'
    BY <2>2, <2>3, <2>4, <2>6
  <2>7. ASSUME IsRollback(m) /\ m.to < l PROVE Cleared(l)'
    BY <2>2, <2>3, <2>7
  <2> QED
    BY <2>5, <2>6, <2>7
<1>3. ASSUME QPopped
      PROVE  Cleared(l) <=> Cleared(l)' \/ (IsRollback(Queue[1]) /\ Queue[1].to < l)
  <2>1. PICK N \in Nat \ {0} : N = Len(Queue) /\ Len(Queue') = N - 1
    BY <1>3 DEF QueueFacts, QPopped
  <2>2. /\ \A p \in 1 .. N - 1 : Queue'[p] = Queue[p + 1] /\ p + 1 \in 1 .. N
        /\ \A p \in 1 .. N : p = 1 \/ (p - 1 \in 1 .. N - 1 /\ (p - 1) + 1 = p)
        /\ 1 \in 1 .. N
    BY <1>3, <2>1 DEF QPopped
  <2>3. Cleared(l)' <=> \E p \in 1 .. N - 1 : IsRollback(Queue'[p]) /\ Queue'[p].to < l
    BY <2>1 DEF Cleared
  <2>4. Cleared(l) <=> \E p \in 1 .. N : IsRollback(Queue[p]) /\ Queue[p].to < l
    BY <2>1 DEF Cleared
  <2>5. ASSUME Cleared(l) PROVE Cleared(l)' \/ (IsRollback(Queue[1]) /\ Queue[1].to < l)
    <3>1. PICK p \in 1 .. N : IsRollback(Queue[p]) /\ Queue[p].to < l
      BY <2>4, <2>5
    <3>2. CASE p = 1
      BY <3>1, <3>2
    <3>3. CASE p # 1
      <4>1. PICK k \in 1 .. N - 1 : k + 1 = p
        BY <2>2, <3>3
      <4> QED
        BY <2>2, <2>3, <3>1, <4>1
    <3> QED
      BY <3>2, <3>3
  <2>6. ASSUME Cleared(l)' PROVE Cleared(l)
    BY <2>2, <2>3, <2>4, <2>6
  <2>7. ASSUME IsRollback(Queue[1]) /\ Queue[1].to < l PROVE Cleared(l)
    BY <2>2, <2>4, <2>7
  <2> QED
    BY <2>5, <2>6, <2>7
<1> QED
  BY <1>1, <1>2, <1>3

(* The index passes over no rows that will stay.                            *)
LEMMA PassedOver ==
  ASSUME Covering, Bounded, Heeded, Ordered, Expected, Taken, IsData(Queue[1]),
         NEW l \in 1 .. Len(chain), level[Ix] < l, l < Queue[1].level
  PROVE  Truth(l) = NoRows \/ Undone(l)
<1> SUFFICES ASSUME Truth(l) # NoRows PROVE Undone(l)
  OBVIOUS
<1>1. /\ EvmTypes /\ QueueFacts /\ Numbers /\ Backed /\ Knows /\ PathFacts /\ AheadFacts
      /\ QPopped /\ Len(chain) \in Nat
  BY EvmQueueIs, PathIs, AheadIs DEF Covering, Taken, PathFacts
<1>2. 1 \in 1 .. Len(Queue) /\ Queue[1].level \in Int /\ Queue[1].level <= known
  <2>1. 1 \in 1 .. Len(Queue)
    BY <1>1 DEF QueueFacts, QPopped
  <2> QED
    BY <1>1, <2>1 DEF QueueFacts, Backed
<1>3. l < known /\ known \in Nat
  BY <1>1, <1>2 DEF PathFacts
<1>4. Comes(l)
  BY DEF Expected
<1>5. CASE \E n \in 1 .. Len(Ahead) : Ahead[n] = chain[l]
  <2>1. PICK n \in 1 .. Len(Ahead) : Ahead[n] = chain[l]
    BY <1>5
  <2>2. Path[n + 1] = l
    BY <1>1, <2>1 DEF PathFacts, EvmTypes, ChainTypes
  <2>3. 1 \in 1 .. PathLength /\ n + 1 \in 1 .. PathLength /\ 1 < n + 1 /\ Path[1] = known
    BY <1>1 DEF PathFacts
  <2> QED
    BY <1>3, <2>2, <2>3 DEF Undone
<1>6. CASE Emits(chain[l])
  <2>1. ToEmit /\ BlockOf(current) = chain[l] /\ pc # "head"
    BY <1>6 DEF Emits, ToEmit
  <2>2. known = l
    BY <1>1, <2>1 DEF Knows, EvmTypes, ChainTypes
  <2> QED
    BY <1>3, <2>2
<1>7. ASSUME NEW p \in 1 .. Len(Queue), IsData(Queue[p]), Queue[p].level = l PROVE FALSE
  <2>1. p # 1 /\ 1 < p
    BY <1>2, <1>7
  <2>2. Queue[1].level < Queue[p].level
    BY <1>2, <1>7, <2>1 DEF Ordered
  <2> QED
    BY <1>2, <1>7, <2>2
<1>8. ~(l <= level[Ix])
  BY <1>1 DEF Numbers
<1>9. ~Waiting /\ (draining[Ix] \/ (syncLevel > 0 /\ level[Ix] >= syncLevel))
  BY DEF Taken
<1>10. CASE subscribed = "yes" /\ ~draining[Ix] /\ level[Ix] < l /\ l <= syncLevel
  BY <1>1, <1>9, <1>10 DEF Numbers
<1>11. CASE subscribed \in {"asked", "stored"}
  BY <1>9, <1>11 DEF Waiting
<1>12. CASE subscribed = "no" /\ l > level[Ix] /\ (~draining[Ix] \/ Beyond(l))
  <2>1. ~Beyond(l)
    <3>1. 1 \in 1 .. PathLength /\ Path[1] = known /\ ~(known < l)
      BY <1>1, <1>3 DEF PathFacts
    <3> QED
      BY <3>1 DEF Beyond
  <2>2. Len(Queue) = 0
    BY <1>9, <1>12, <2>1 DEF Bounded
  <2> QED
    BY <1>2, <2>2
<1> QED
  BY <1>4, <1>5, <1>6, <1>7, <1>8, <1>10, <1>11, <1>12 DEF Comes

(* What the index takes from its queue leaves the rows as said: data,       *)
LEMMA IndexedData ==
  ASSUME Covering, Ix' = Ix, Bounded, Heeded, Ordered, Carried, Expected, Indexed,
         Still, DataTaken
  PROVE  Indexed'
<1>1. /\ EvmTypes /\ QueueFacts /\ Numbers /\ Backed /\ Turns /\ PathFacts
      /\ Taken /\ QPopped /\ Len(chain) \in Nat /\ ~IsRollback(Queue[1])
  BY EvmQueueIs, PathIs DEF Covering, DataTaken, Taken, PathFacts
<1>2. 1 \in 1 .. Len(Queue)
  BY <1>1, FirstIs
<1>3. ASSUME NEW l \in Levels
      PROVE  /\ Truth(l)' = Truth(l) /\ (Undone(l)' <=> Undone(l)) /\ (Cleared(l)' <=> Cleared(l))
             /\ l \in Int
  <2>1. UNCHANGED <<blocks, chain>> /\ Path' = Path
    BY DEF Still, AheadStays
  <2> QED
    BY <1>1, <2>1, TruthStays, UndoneStays, ClearedIs DEF Levels
<1>4. CASE level'[Ix] = level[Ix] /\ rows'[Ix] = rows[Ix]
  BY <1>3, <1>4 DEF Indexed
<1>5. CASE /\ Queue[1].kind # "empty" /\ Queue[1].level > level[Ix]
           /\ level'[Ix] = Queue[1].level
           /\ \A l \in Levels :
                rows'[Ix][l] = IF l = Queue[1].level THEN Queue[1].rows ELSE rows[Ix][l]
  <2>1. IsData(Queue[1])
    BY <1>1, <1>5, FirstIs DEF IsData, IsRollback
  <2>2. Queue[1].level \in Int /\ Queue[1].level <= Len(chain) /\ Carries(Queue[1])
        /\ level[Ix] \in Int
    BY <1>1, <1>2, <2>1, FirstIs DEF Carried, Numbers
  <2>3. ASSUME NEW l \in Levels, l <= Queue[1].level
        PROVE  rows'[Ix][l] = Truth(l) \/ Cleared(l) \/ Undone(l)
    <3>1. CASE l = Queue[1].level
      BY <1>5, <2>2, <3>1 DEF Carries
    <3>2. CASE l <= level[Ix]
      <4>1. l # Queue[1].level
        BY <1>3, <1>5, <2>2, <3>2
      <4> QED
        BY <1>5, <3>2, <4>1 DEF Indexed
    <3>3. CASE l > level[Ix] /\ l < Queue[1].level
      <4>1. l \in 1 .. Len(chain)
        BY <1>1, <1>3, <2>2, <3>3 DEF Levels
      <4>2. Truth(l) = NoRows \/ Undone(l)
        BY <1>1, <2>1, <3>3, <4>1, PassedOver
      <4>3. rows'[Ix][l] = NoRows
        BY <1>3, <1>5, <2>2, <3>3 DEF Indexed
      <4> QED
        BY <4>2, <4>3
    <3> QED
      BY <1>3, <2>2, <2>3, <3>1, <3>2, <3>3
  <2>4. ASSUME NEW l \in Levels, l > Queue[1].level PROVE rows'[Ix][l] = NoRows
    <3>1. l # Queue[1].level /\ l > level[Ix]
      BY <1>3, <1>5, <2>2, <2>4
    <3> QED
      BY <1>5, <3>1 DEF Indexed
  <2> QED
    BY <1>3, <1>5, <2>3, <2>4 DEF Indexed
<1> QED
  BY <1>4, <1>5 DEF DataTaken

(* a rollback,                                                              *)
LEMMA IndexedRollback ==
  ASSUME Covering, Ix' = Ix, Heeded, Indexed, Still, RollbackTaken
  PROVE  Indexed'
<1>1. /\ EvmTypes /\ QueueFacts /\ Numbers /\ Backed /\ Turns
      /\ QPopped /\ IsRollback(Queue[1])
  BY EvmQueueIs DEF Covering, RollbackTaken, Taken
<1>2. 1 \in 1 .. Len(Queue)
  BY <1>1, FirstIs
<1>3. PICK to \in Int, from \in Int : to = Queue[1].to /\ from = Queue[1].from
  BY <1>1, FirstIs
<1>4. to >= 1 /\ to <= level[Ix] /\ level[Ix] <= from /\ level[Ix] \in Int
  <2>1. Queue[1].to >= 1
    BY <1>1, <1>2 DEF Heeded
  <2>2. Queue[1].to <= level[Ix] /\ Queue[1].from >= level[Ix]
    BY <1>1, FirstIs
  <2> QED
    BY <1>1, <1>3, <2>1, <2>2 DEF Numbers
<1>5. level'[Ix] = to
  BY <1>3, <1>4 DEF RollbackTaken
<1>6. \A l \in Levels : rows'[Ix][l] = IF to < l /\ l <= from THEN NoRows ELSE rows[Ix][l]
  BY <1>3 DEF RollbackTaken
<1>7. ASSUME NEW l \in Levels
      PROVE  /\ Truth(l)' = Truth(l) /\ (Undone(l)' <=> Undone(l)) /\ l \in Int
             /\ Cleared(l) <=> Cleared(l)' \/ to < l
  <2>1. UNCHANGED <<blocks, chain>> /\ Path' = Path
    BY DEF Still, AheadStays
  <2> QED
    BY <1>1, <1>3, <2>1, TruthStays, UndoneStays, ClearedIs DEF Levels
<1>8. ASSUME NEW l \in Levels, l <= to
      PROVE  rows'[Ix][l] = Truth(l)' \/ Cleared(l)' \/ Undone(l)'
  <2>1. l <= level[Ix] /\ ~(to < l)
    BY <1>4, <1>7, <1>8
  <2>2. rows'[Ix][l] = rows[Ix][l]
    BY <1>6, <2>1
  <2>3. rows[Ix][l] = Truth(l) \/ Cleared(l) \/ Undone(l)
    BY <2>1 DEF Indexed
  <2> QED
    BY <1>7, <2>1, <2>2, <2>3
<1>9. ASSUME NEW l \in Levels, l > to PROVE rows'[Ix][l] = NoRows
  <2>1. CASE l <= from
    BY <1>3, <1>6, <1>7, <1>9, <2>1
  <2>2. CASE ~(l <= from)
    <3>1. l > level[Ix]
      BY <1>3, <1>4, <1>7, <2>2
    <3> QED
      BY <1>6, <2>2, <3>1 DEF Indexed
  <2> QED
    BY <2>1, <2>2
<1> QED
  BY <1>5, <1>8, <1>9 DEF Indexed

(* or what it synchronizes.                                                 *)
LEMMA IndexedSynced ==
  ASSUME EvmTypes, Ix' = Ix, Heeded, Indexed, Still, Synced
  PROVE  Indexed'
<1>1. QueueFacts /\ Numbers
  BY EvmQueueIs
<1>2. ~draining[Ix] /\ level[Ix] < syncLevel /\ level'[Ix] = syncLevel
  BY DEF Synced
<1>3. ASSUME NEW p \in 1 .. Len(Queue), IsRollback(Queue[p]) PROVE FALSE
  <2>1. level[Ix] >= syncLevel
    BY <1>2, <1>3 DEF Heeded
  <2> QED
    BY <1>1, <1>2, <2>1 DEF Numbers
<1>4. ASSUME NEW l \in Levels
      PROVE  /\ Truth(l)' = Truth(l) /\ (Undone(l)' <=> Undone(l)) /\ ~Cleared(l) /\ l \in Int
  <2>1. UNCHANGED <<blocks, chain>> /\ Path' = Path
    BY DEF Still, AheadStays
  <2>2. ~Cleared(l)
    BY <1>3 DEF Cleared
  <2> QED
    BY <2>1, <2>2, TruthStays, UndoneStays DEF Levels
<1>5. \A l \in Levels :
        rows'[Ix][l] = IF level[Ix] < l /\ l <= syncLevel THEN Truth(l) ELSE rows[Ix][l]
  BY DEF Synced, Truth
<1>6. ASSUME NEW l \in Levels
      PROVE  /\ l <= syncLevel => rows'[Ix][l] = Truth(l) \/ Undone(l)
             /\ l > syncLevel => rows'[Ix][l] = NoRows
  <2>1. CASE l <= level[Ix]
    <3>1. ~(level[Ix] < l) /\ ~(l > syncLevel)
      BY <1>1, <1>2, <1>4, <2>1 DEF Numbers
    <3>2. rows[Ix][l] = Truth(l) \/ Undone(l)
      BY <1>4, <2>1 DEF Indexed
    <3> QED
      BY <1>5, <3>1, <3>2
  <2>2. CASE ~(l <= level[Ix]) /\ l <= syncLevel
    <3>1. level[Ix] < l /\ ~(l > syncLevel)
      BY <1>1, <1>4, <2>2 DEF Numbers
    <3> QED
      BY <1>5, <2>2, <3>1
  <2>3. CASE ~(l <= syncLevel)
    <3>1. l > level[Ix]
      BY <1>1, <1>2, <1>4, <2>3 DEF Numbers
    <3>2. rows[Ix][l] = NoRows
      BY <3>1 DEF Indexed
    <3> QED
      BY <1>5, <2>3, <3>2
  <2> QED
    BY <2>1, <2>2, <2>3
<1> QED
  BY <1>2, <1>4, <1>6 DEF Indexed

(* Every step keeps them: a branch,                                         *)
LEMMA IndexedBranched ==
  ASSUME EvmTypes, EvmTypes', Ix' = Ix, Bounded, Indexed, NEW to \in 0 .. Len(chain),
         NEW contents \in Seq(BOOLEAN), Branched(to, contents)
  PROVE  Indexed'
<1>1. /\ Minted(to, contents) /\ Len(contents) \in Nat \ {0} /\ PathFacts /\ to \in Nat
      /\ QueueFacts /\ QStays /\ UNCHANGED <<level, rows>> /\ level[Ix] \in 0 .. Len(chain)
  BY PathIs, EvmQueueIs DEF Branched, PathFacts, AsIs, Bounded
<1>2. /\ Len(chain') = to + Len(contents) /\ \A l \in 1 .. to : chain'[l] = chain[l]
      /\ \A b \in Blocks : blocks'[b] = blocks[b]
  BY <1>1 DEF Minted, Blocks
<1>3. \A l \in 1 .. to : Truth(l)' = Truth(l)
  BY <1>1, <1>2, TruthBranch
<1>4. ASSUME NEW l \in Levels, l <= level[Ix], rows[Ix][l] = Truth(l) \/ Undone(l)
      PROVE  rows[Ix][l] = Truth(l)' \/ Undone(l)'
  <2>1. l \in 1 .. Len(chain) /\ l \in Int
    BY <1>1, <1>4 DEF Levels, PathFacts
  <2>2. CASE subscribed = "no"
    <3>1. Path' = Path /\ to = Len(chain)
      BY <2>2, BranchUnheard DEF AheadStays
    <3> QED
      BY <1>3, <1>4, <2>1, <3>1, UndoneStays
  <2>3. CASE subscribed # "no"
    <3>1. AheadGrows(to, Len(contents))
      BY <2>3 DEF Branched
    <3>2. /\ Undone(l) => Undone(l)'
          /\ \A j \in 1 .. PathLength : Path[j] >= l /\ l >= to + 1 => Undone(l)'
      BY <1>1, <2>1, <3>1, UndoneGrows
    <3>3. CASE l <= to
      <4>1. Truth(l)' = Truth(l)
        BY <1>1, <1>3, <2>1, <3>3
      <4> QED
        BY <1>4, <3>2, <4>1
    <3>4. CASE ~(l <= to)
      <4>1. level[Ix] <= Path[PathLength]
        BY <1>1, <2>1, <3>4 DEF Branched
      <4>2. PathLength \in 1 .. PathLength /\ Path[PathLength] >= l /\ l >= to + 1
        BY <1>1, <1>4, <2>1, <3>4, <4>1 DEF PathFacts
      <4> QED
        BY <3>2, <4>2
    <3> QED
      BY <3>3, <3>4
  <2> QED
    BY <2>2, <2>3
<1>5. \A l : Cleared(l)' <=> Cleared(l)
  BY <1>1, ClearedIs
<1> QED
  BY <1>1, <1>4, <1>5 DEF Indexed

(* and everything else.                                                     *)
LEMMA IndexedKept ==
  ASSUME Covering, EvmTypes', Faithful, Ix' = Ix, Heralded, Bounded, Heeded, Ordered, Carried,
         Expected, Indexed, Forms
  PROVE  Indexed'
<1>1. EvmTypes /\ QueueFacts /\ Numbers /\ Knows /\ PathFacts /\ \A l \in Levels : l \in Int
  BY EvmQueueIs, PathIs DEF Covering, Levels
<1>2. CASE /\ Still /\ UNCHANGED <<level, rows>> /\ \A l \in Levels : Cleared(l) => Cleared(l)'
  <2>1. UNCHANGED <<blocks, chain>> /\ Path' = Path
    BY <1>2 DEF Still, AheadStays
  <2>2. \A l : Truth(l)' = Truth(l) /\ (Undone(l)' <=> Undone(l))
    BY <2>1, TruthStays, UndoneStays
  <2> QED
    BY <1>2, <2>2 DEF Indexed
<1>3. CASE Still /\ UNCHANGED <<level, rows>> /\ QStays
  BY <1>1, <1>2, <1>3, ClearedIs
<1>4. CASE \E to \in 0 .. Len(chain), contents \in Seq(BOOLEAN) : Branched(to, contents)
  BY <1>1, <1>4, IndexedBranched
<1>5. CASE /\ UNCHANGED <<blocks, chain, level, rows>>
           /\ \A l \in 1 .. level[Ix] : rows[Ix][l] = Truth(l)
  <2>1. \A l : Truth(l)' = Truth(l)
    BY <1>5, TruthStays
  <2>2. \A l \in Levels : l <= level[Ix] => l \in 1 .. level[Ix]
    BY <1>1 DEF Levels, Numbers
  <2> QED
    BY <1>5, <2>1, <2>2 DEF Indexed
<1>6. CASE Lost \/ Restart
  BY <1>5, <1>6 DEF Lost, Restart, AsIs
<1>7. CASE Asked \/ Identified \/ Answered \/ Idle
  BY <1>3, <1>7 DEF Asked, Identified, Answered, Idle, AsIs
<1>8. CASE HeadEmitted /\ AheadMoves
  <2>1. Heading /\ UNCHANGED <<blocks, chain, level, rows>>
    BY <1>8, HeadingIs DEF Heading
  <2>2. \A l : Truth(l)' = Truth(l)
    BY <2>1, TruthStays
  <2>3. \A l : Cleared(l) => Cleared(l)'
    <3>1. CASE QStays
      BY <1>1, <3>1, ClearedIs
    <3>2. CASE ~QStays
      <4>1. QPushed(RollbackMsg(known, known' - 1))
        BY <2>1, <3>2 DEF Heading
      <4> QED
        BY <1>1, <4>1, ClearedIs
    <3> QED
      BY <3>1, <3>2
  <2>4. ASSUME NEW l \in Levels, l <= level[Ix], Undone(l) PROVE Undone(l)' \/ Cleared(l)'
    <3>1. Undone(l)' \/ (known' <= l /\ l <= known)
      BY <1>1, <1>8, <2>4, UndoneMoves
    <3>2. ASSUME known' <= l, l <= known PROVE Cleared(l)'
      <4>1. known' \in Nat /\ known \in Int /\ level[Ix] \in Int /\ l \in Int
        BY <1>1, <2>1 DEF Heading, Numbers
      <4>2. known' <= known /\ known' - 1 < level[Ix] /\ known' - 1 < l
        <5>1. PICK a \in Int, b \in Int, c \in Int, d \in Int :
                a = known' /\ b = l /\ c = level[Ix] /\ d = known
          BY <4>1
        <5>2. a <= b /\ b <= d /\ b <= c
          BY <2>4, <3>2, <5>1
        <5>3. a <= d /\ a - 1 < c /\ a - 1 < b
          BY <5>2
        <5> QED
          BY <5>1, <5>3
      <4> DEFINE m == RollbackMsg(known, known' - 1)
      <4>3. IsRollback(m) /\ m.to < l
        BY <4>2 DEF RollbackMsg, IsRollback
      <4>4. QPushed(m)
        BY <2>1, <4>1, <4>2 DEF Heading
      <4> HIDE DEF m
      <4> QED
        BY <1>1, <4>3, <4>4, ClearedIs
    <3> QED
      BY <3>1, <3>2
  <2> QED
    BY <2>1, <2>2, <2>3, <2>4 DEF Indexed
<1>9. CASE Still /\ (EventsEmitted \/ TransactionsEmitted)
  <2>1. Emission /\ UNCHANGED <<level, rows>>
    BY <1>1, <1>9, EmissionIs DEF Emission
  <2>2. CASE QStays
    BY <1>3, <1>9, <2>1, <2>2
  <2>3. CASE ~QStays
    <3>1. PICK b \in Blocks, found \in SUBSET Logs : QPushed(DataMsg(b, found))
      BY <2>1, <2>3 DEF Emission, Given
    <3>2. \A l : Cleared(l) => Cleared(l)'
      BY <1>1, <3>1, ClearedIs
    <3> QED
      BY <1>2, <1>9, <2>1, <3>2
  <2> QED
    BY <2>2, <2>3
<1>10. CASE Indexing
  <2>1. Still /\ (Synced \/ DataTaken \/ RollbackTaken)
    BY <1>10 DEF Indexing
  <2> QED
    BY <1>1, <2>1, IndexedSynced, IndexedData, IndexedRollback
<1> QED
  BY <1>4, <1>6, <1>7, <1>8, <1>9, <1>10 DEF Forms

(* What comes still comes: a branch follows itself, and what is below it    *)
(* stays;                                                                   *)
LEMMA ExpectedBranched ==
  ASSUME Covering, EvmTypes', Ix' = Ix, Bounded, Expected, Recalled,
         NEW to \in 0 .. Len(chain), NEW contents \in Seq(BOOLEAN), Branched(to, contents)
  PROVE  Expected'
<1>0. subscribed' = subscribed /\ subscribed = "stored" => askedAt' = askedAt
  BY DEF Recalled
<1>1. /\ Minted(to, contents) /\ Len(contents) \in Nat \ {0} /\ PathFacts /\ to \in Nat
      /\ QueueFacts /\ QStays /\ Queue' = Queue /\ EvmTypes /\ Turns /\ Len(chain) \in Nat
      /\ UNCHANGED <<level, draining, subscribed, syncLevel, pc, current, objects>>
      /\ level[Ix] \in 0 .. Len(chain) /\ to <= Len(chain)
  BY PathIs, EvmQueueIs DEF Branched, PathFacts, AsIs, QStays, Bounded, Covering
<1>2. /\ Len(chain') = to + Len(contents) /\ \A l \in 1 .. to : chain'[l] = chain[l]
      /\ \A b \in Blocks : blocks'[b] = blocks[b]
      /\ \A n \in 1 .. Len(contents) : chain'[to + n] = Len(blocks) + n
  BY <1>1 DEF Minted, Blocks
<1>3. \A l \in 1 .. to : Truth(l)' = Truth(l) /\ l \in 1 .. Len(chain)
  <2>1. \A l \in 1 .. to : Truth(l)' = Truth(l)
    BY <1>1, <1>2, TruthBranch
  <2>2. \A l \in 1 .. to : l \in 1 .. Len(chain)
    BY <1>1
  <2> QED
    BY <2>1, <2>2
<1>4. \A l : Cleared(l)' <=> Cleared(l)
  BY <1>1, ClearedIs
<1>5. \A l \in 1 .. to : Emits(chain[l])' <=> Emits(chain[l])
  BY <1>1, <1>2 DEF Emits, ToEmit, BlockOf
<1>6. CASE subscribed = "no"
  <2>1. Ahead' = Ahead /\ Path' = Path /\ to = Len(chain)
    BY <1>1, <1>6, BranchUnheard DEF AheadStays
  <2>2. \A l : Beyond(l)' <=> Beyond(l)
    BY <2>1, UndoneStays
  <2>3. ASSUME NEW l \in 1 .. to, Comes(l) PROVE Comes(l)'
    BY <1>1, <1>2, <1>4, <1>5, <1>6, <2>1, <2>2, <2>3 DEF Comes
  <2>4. ASSUME NEW l \in 1 .. to + Len(contents), l > to PROVE Comes(l)'
    <3>1. l > level[Ix]
      BY <1>1, <2>1, <2>4
    <3>2. \A j \in 1 .. PathLength : Path[j] <= Len(chain) /\ Path[j] \in Nat
      BY <1>1 DEF Turns, PathFacts
    <3>3. Beyond(l)
      BY <1>1, <2>1, <2>4, <3>2 DEF Beyond
    <3> QED
      BY <1>1, <1>6, <2>2, <3>1, <3>3 DEF Comes
  <2>5. ASSUME NEW l \in 1 .. to + Len(contents) PROVE l \in 1 .. to \/ l > to
    BY <1>1
  <2> QED
    <3>1. \A l \in 1 .. to : Truth(l)' # NoRows => Comes(l)'
      BY <1>3, <2>3 DEF Expected
    <3>2. \A l \in 1 .. to + Len(contents) : Truth(l)' # NoRows => Comes(l)'
      BY <2>4, <2>5, <3>1
    <3> QED
      BY <1>2, <3>2 DEF Expected
<1>7. CASE subscribed # "no"
  <2>1. PICK c \in Nat \ {0}, A \in Nat : c = Len(contents) /\ Grows(to, c, A)
    BY <1>1, <1>7, BranchGrows
  <2>2. /\ A = Len(Ahead) /\ Len(Ahead') = A + c
        /\ \A n \in 1 .. A : Ahead'[n] = Ahead[n] /\ n \in 1 .. A + c
        /\ \A n \in 1 .. c : Ahead'[A + n] = Len(blocks) + n /\ A + n \in 1 .. A + c
    <3>1. /\ A = Len(Ahead) /\ Len(Ahead') = A + c
          /\ \A n \in 1 .. A : Ahead'[n] = Ahead[n]
          /\ \A n \in 1 .. c : Ahead'[A + n] = Len(blocks) + n
      BY <2>1, Zenon DEF Grows
    <3>2. /\ \A n \in 1 .. A : n \in 1 .. A + c
          /\ \A n \in 1 .. c : A + n \in 1 .. A + c
      OBVIOUS
    <3> QED
      BY <3>1, <3>2
  <2>3. ASSUME NEW l \in 1 .. to, Comes(l) PROVE Comes(l)'
    <3>1. CASE \E n \in 1 .. Len(Ahead) : Ahead[n] = chain[l]
      BY <1>2, <2>2, <3>1 DEF Comes
    <3>2. CASE ~ \E n \in 1 .. Len(Ahead) : Ahead[n] = chain[l]
      <4>1. CASE Emits(chain[l])
        BY <1>5, <4>1 DEF Comes
      <4>2. CASE ~Emits(chain[l])
        BY <1>0, <1>1, <1>4, <1>7, <2>3, <3>2, <4>2 DEF Comes
      <4> QED
        BY <4>1, <4>2
    <3> QED
      BY <3>1, <3>2
  <2>4. ASSUME NEW l \in 1 .. to + c, l > to PROVE Comes(l)'
    <3>1. PICK n \in 1 .. c : l = to + n
      <4>1. l - to \in 1 .. c /\ l = to + (l - to)
        BY <1>1, <2>4
      <4> QED
        BY <4>1
    <3>2. Ahead'[A + n] = chain'[l] /\ A + n \in 1 .. Len(Ahead')
      BY <1>2, <2>1, <2>2, <3>1
    <3> QED
      BY <3>2 DEF Comes
  <2>5. ASSUME NEW l \in 1 .. to + c PROVE l \in 1 .. to \/ l > to
    BY <1>1
  <2> QED
    BY <1>2, <1>3, <2>1, <2>3, <2>4, <2>5 DEF Expected
<1> QED
  BY <1>6, <1>7

(* a lost connection takes nothing the index has not to fetch;              *)
LEMMA ExpectedLost ==
  ASSUME Covering, Ix' = Ix, Bounded, Expected, Lost
  PROVE  Expected'
<1>1. /\ EvmTypes /\ QueueFacts /\ Numbers /\ AheadFacts /\ PathFacts /\ Rising /\ Fits
      /\ Queue' = Queue /\ UNCHANGED <<blocks, chain, level, draining, pc, current, objects>>
      /\ AheadCut /\ subscribed' = "no" /\ known \in Nat
  BY EvmQueueIs, AheadIs, PathIs DEF Covering, Lost, AsIs, QStays, PathFacts
<1>2. PICK E \in Nat : E = Len(emitter) /\ E <= Len(Ahead)
  BY <1>1 DEF AheadFacts, AheadCut
<1>3. /\ Len(Ahead') = E /\ Len(Path') = E + 1
      /\ \A n \in 1 .. E : Ahead'[n] = Ahead[n] /\ n \in 1 .. Len(Ahead)
      /\ \A n \in 1 .. E + 1 : Path'[n] = Path[n] /\ n \in 1 .. PathLength
  BY <1>1, <1>2, SMTT(20) DEF AheadCut, PathFacts
<1>4. \A l : Truth(l)' = Truth(l) /\ ~Cleared(l)'
  <2>1. \A p \in 1 .. Len(Queue) : ~IsRollback(Queue[p])
    BY <1>1 DEF Lost, QueueFacts
  <2>2. \A l : Truth(l)' = Truth(l)
    BY <1>1, TruthStays
  <2> QED
    BY <1>1, <2>1, <2>2 DEF Cleared
<1>5. ASSUME NEW l \in 1 .. Len(chain), Comes(l) PROVE Comes(l)'
  <2>1. CASE l <= level[Ix]
    BY <1>1, <1>4, <2>1 DEF Comes
  <2>2. CASE ~draining[Ix] /\ l > level[Ix]
    BY <1>1, <2>2 DEF Comes
  <2>3. CASE draining[Ix] /\ ~(l <= level[Ix])
    <3>0. l > level[Ix] /\ l \in Int
      BY <1>1, <2>3 DEF Numbers
    <3>1. CASE \E n \in 1 .. Len(Ahead) : Ahead[n] = chain[l]
      <4>1. PICK n \in 1 .. Len(Ahead) : Ahead[n] = chain[l]
        BY <3>1
      <4>2. CASE n <= E
        BY <1>1, <1>2, <1>3, <4>1, <4>2 DEF Comes
      <4>3. CASE ~(n <= E)
        <5>1. Lv(Ahead[n]) = l /\ Len(chain) \in Nat
          BY <1>1, <4>1 DEF EvmTypes, ChainTypes, PathFacts
        <5>2. known < l
          <6>1. n \in Len(emitter) + 1 .. Len(Ahead)
            BY <1>1, <1>2, <4>3
          <6>2. Lv(Ahead[n]) > known
            BY <6>1 DEF Lost
          <6> QED
            BY <1>1, <3>0, <5>1, <6>2
        <5>3. ASSUME NEW j \in 1 .. E + 1 PROVE Path'[j] < l
          <6>1. CASE j = 1
            BY <1>1, <1>3, <5>2, <6>1 DEF PathFacts
          <6>2. CASE j # 1
            <7>1. PICK k \in 1 .. E : k + 1 = j
              <8>1. j - 1 \in 1 .. E /\ (j - 1) + 1 = j
                BY <6>2
              <8> QED
                BY <8>1
            <7>2. /\ k \in 1 .. Len(Ahead) /\ k < n /\ Path'[j] = Lv(Ahead[k])
                  /\ Ahead[k] \in Blocks
              <8>1. k \in 1 .. Len(Ahead)
                BY <1>3
              <8>2. k < n
                BY <4>3
              <8>3. Path'[j] = Path[k + 1]
                BY <1>3, <7>1
              <8>4. Path[k + 1] = Lv(Ahead[k]) /\ Ahead[k] \in Blocks
                BY <1>1, <8>1 DEF PathFacts
              <8> QED
                BY <8>1, <8>2, <8>3, <8>4
            <7>3. Ahead[k] < Ahead[n] /\ chain[Lv(Ahead[k])] = Ahead[k]
              BY <1>1, <1>2, <7>1, <7>2 DEF Rising, Lost
            <7>4. PICK h \in 1 .. Len(chain) : h = Lv(Ahead[k])
              BY <1>1, <7>2, BlocksAre DEF Fits, EvmTypes
            <7>5. chain[h] < chain[l] /\ chain[h] \in Nat /\ chain[l] \in Nat
              BY <1>1, <4>1, <7>3, <7>4, BlocksAre DEF EvmTypes, ChainTypes
            <7>6. ~(l < h)
              <8>1. l < h => chain[l] < chain[h]
                BY <1>1 DEF Fits
              <8> QED
                BY <7>5, <8>1
            <7>7. h # l
              BY <7>5
            <7> QED
              BY <5>1, <7>2, <7>4, <7>6, <7>7
          <6> QED
            BY <6>1, <6>2
        <5>4. Beyond(l)'
          BY <1>3, <5>3 DEF Beyond, PathLength
        <5> QED
          BY <1>1, <3>0, <5>4 DEF Comes
      <4> QED
        BY <4>2, <4>3
    <3>2. CASE Emits(chain[l])
      <4>1. Emits(chain[l])'
        BY <1>1, <3>2 DEF Emits, ToEmit, BlockOf
      <4> QED
        BY <4>1 DEF Comes
    <3>3. CASE \E p \in 1 .. Len(Queue) : IsData(Queue[p]) /\ Queue[p].level = l
      BY <1>1, <3>3 DEF Comes
    <3>4. CASE subscribed \in {"asked", "stored"}
      BY <2>3, <3>4 DEF Bounded, Waiting
    <3>5. CASE Beyond(l)
      <4>1. Beyond(l)'
        BY <1>3, <3>5 DEF Beyond, PathLength
      <4> QED
        BY <1>1, <3>0, <4>1 DEF Comes
    <3> QED
      BY <1>5, <2>3, <3>1, <3>2, <3>3, <3>4, <3>5 DEF Comes
  <2> QED
    BY <1>1, <2>1, <2>2, <2>3 DEF Numbers
<1> QED
  BY <1>1, <1>4, <1>5 DEF Expected

(* the subscription is asked for and answered;                              *)
LEMMA ExpectedFed ==
  ASSUME Covering, Ix' = Ix, Bounded, Expected, Recalled,
         Restart \/ Asked \/ Identified \/ Answered \/ Idle
  PROVE  Expected'
<1>0. subscribed' = subscribed /\ subscribed = "stored" => askedAt' = askedAt
  BY DEF Recalled
<1>1. /\ EvmTypes /\ QueueFacts /\ Numbers /\ PathFacts
      /\ \A l \in 1 .. Len(chain) : l <= level[Ix] \/ l > level[Ix]
  BY EvmQueueIs, PathIs DEF Covering, Numbers, PathFacts
<1>2. UNCHANGED <<blocks, chain>>
  BY DEF Restart, Asked, Identified, Answered, Idle, Still
<1>3. \A l : Truth(l)' = Truth(l)
  BY <1>2, TruthStays
<1> SUFFICES ASSUME NEW l \in 1 .. Len(chain), Comes(l) PROVE Comes(l)'
  BY <1>2, <1>3 DEF Expected
<1>4. CASE Restart
  <2>1. ~draining'[Ix] /\ level' = level /\ subscribed' = "no" /\ ~Cleared(l)'
    BY <1>4 DEF Restart, QCleared, Cleared
  <2>2. CASE l <= level[Ix]
    BY <2>1, <2>2 DEF Comes
  <2>3. CASE l > level[Ix]
    BY <2>1, <2>3 DEF Comes
  <2> QED
    BY <1>1, <2>2, <2>3
<1>5. CASE Asked \/ Identified \/ Answered \/ Idle
  <2>1. Queue' = Queue /\ Ahead' = Ahead /\ Path' = Path /\ UNCHANGED <<level, draining>>
    BY <1>5 DEF Asked, Identified, Answered, Idle, AsIs, Still, QStays, AheadStays
  <2>2. (Cleared(l)' <=> Cleared(l)) /\ (Beyond(l)' <=> Beyond(l))
    BY <2>1, UndoneStays DEF Cleared
  <2>3. CASE \/ \E n \in 1 .. Len(Ahead) : Ahead[n] = chain[l]
             \/ \E p \in 1 .. Len(Queue) : IsData(Queue[p]) /\ Queue[p].level = l
             \/ l <= level[Ix] /\ ~Cleared(l)
    BY <1>2, <2>1, <2>2, <2>3 DEF Comes
  <2>4. CASE Emits(chain[l])
    <3>1. ToEmit /\ BlockOf(current) = chain[l] /\ pc # "head" /\ current \in 1 .. Len(objects)
      BY <1>1, <2>4 DEF Emits, ToEmit, EvmTypes, EmitterTypes
    <3>2. CASE Asked \/ Identified \/ Answered
      BY <1>2, <2>4, <3>2 DEF Asked, Identified, Answered, Emits, ToEmit, BlockOf, Comes
    <3>3. CASE Idle
      <4>1. ToEmit' /\ CurrentStays /\ pc' # "head"
        BY <3>1, <3>3 DEF Idle, ToEmit
      <4>2. BlockOf(current)' = BlockOf(current)
        BY <3>1, <4>1 DEF CurrentStays, BlockOf
      <4> QED
        BY <1>2, <3>1, <4>1, <4>2 DEF Emits, Comes
    <3> QED
      BY <1>5, <3>2, <3>3
  <2>5. CASE \/ subscribed = "yes" /\ ~draining[Ix] /\ level[Ix] < l /\ l <= syncLevel
             \/ subscribed = "asked" /\ l > level[Ix]
             \/ subscribed = "stored" /\ level[Ix] < l /\ l <= askedAt
             \/ subscribed = "no" /\ l > level[Ix] /\ (~draining[Ix] \/ Beyond(l))
    <3>1. CASE Asked
      <4>1. subscribed = "no" /\ subscribed' = "asked"
        BY <3>1 DEF Asked
      <4> QED
        BY <2>1, <2>5, <4>1 DEF Comes
    <3>2. CASE Answered
      <4>1. subscribed = "stored" /\ ~draining[Ix] /\ level[Ix] < l /\ l <= askedAt
        BY <2>5, <3>2 DEF Answered, Bounded, Waiting
      <4>2. /\ askedAt \in Int /\ askedAt <= Len(chain) /\ Len(chain) \in Nat /\ l \in Int
        BY <1>1 DEF Bounded, PathFacts
      <4>3. subscribed' = "yes" /\ l <= syncLevel'
        BY <3>2, <4>1, <4>2 DEF Answered
      <4> QED
        BY <2>1, <4>1, <4>3 DEF Comes
    <3>3. CASE Identified
      <4>1. subscribed = "asked" /\ subscribed' = "stored" /\ askedAt' = Len(chain) /\ level[Ix] < l
        BY <1>1, <2>5, <3>3 DEF Identified, Numbers, PathFacts
      <4>2. l <= Len(chain)
        BY <1>1 DEF PathFacts
      <4> QED
        BY <2>1, <4>1, <4>2 DEF Comes
    <3>4. CASE Idle
      BY <1>0, <2>1, <2>2, <2>5, <3>4 DEF Idle, Comes
    <3> QED
      BY <1>5, <3>1, <3>2, <3>3, <3>4
  <2> QED
    BY <2>3, <2>4, <2>5 DEF Comes
<1> QED
  BY <1>4, <1>5

(* the emitter takes a head, and what it rolls back follows;                *)
LEMMA ExpectedHeading ==
  ASSUME Covering, Ix' = Ix, Returns, Expected, Recalled, Heading
  PROVE  Expected'
<1>0. subscribed' = subscribed /\ subscribed = "stored" => askedAt' = askedAt
  BY DEF Recalled
<1>1. /\ EvmTypes /\ QueueFacts /\ Numbers /\ PathFacts /\ AheadMoves
      /\ UNCHANGED <<blocks, chain, level, draining, subscribed, syncLevel>>
  BY EvmQueueIs, PathIs DEF Covering, Heading
<1>2. \A l : Truth(l)' = Truth(l)
  BY <1>1, TruthStays
<1> SUFFICES ASSUME NEW l \in 1 .. Len(chain), Comes(l) PROVE Comes(l)'
  BY <1>1, <1>2 DEF Expected
<1>3. PICK A \in Nat \ {0} : A = Len(Ahead) /\ Len(Ahead') = A - 1
  BY <1>1 DEF PathFacts, AheadMoves
<1>4. \A n \in 1 .. A - 1 : Ahead'[n] = Ahead[n + 1]
  BY <1>1, <1>3 DEF AheadMoves
<1>5. ASSUME NEW n \in 1 .. A, Ahead[n] = chain[l] PROVE Comes(l)'
  <2>1. CASE n = 1
    <3>1. BlockOf(current)' = Ahead[1] /\ ToEmit'
      BY <1>1 DEF AheadMoves, BlockOf, ToEmit, Heading
    <3> QED
      BY <1>1, <1>5, <2>1, <3>1 DEF Emits, Comes
  <2>2. CASE n # 1
    <3>1. PICK k \in 1 .. A - 1 : k + 1 = n
      <4>1. n - 1 \in 1 .. A - 1 /\ (n - 1) + 1 = n
        BY <2>2
      <4> QED
        BY <4>1
    <3>2. Ahead'[k] = chain'[l]
      BY <1>1, <1>4, <1>5, <3>1
    <3> QED
      BY <1>3, <3>2 DEF Comes
  <2> QED
    BY <2>1, <2>2
<1>6. CASE Emits(chain[l])
  BY <1>6 DEF Emits, ToEmit, Heading
<1>7. ASSUME NEW p \in 1 .. Len(Queue), IsData(Queue[p]), Queue[p].level = l PROVE Comes(l)'
  <2>1. CASE QStays
    BY <1>7, <2>1 DEF QStays, Comes
  <2>2. CASE ~QStays
    <3>1. QPushed(RollbackMsg(known, known' - 1))
      BY <2>2 DEF Heading
    <3>2. Len(Queue) \in Nat /\ Len(Queue') = Len(Queue) + 1 /\ Queue'[p] = Queue[p]
      BY <1>1, <3>1 DEF QueueFacts, QPushed
    <3>3. p \in 1 .. Len(Queue')
      BY <3>2
    <3> QED
      BY <1>7, <3>2, <3>3 DEF Comes
  <2> QED
    BY <2>1, <2>2
<1>8. CASE l <= level[Ix] /\ ~Cleared(l)
  <2>1. CASE ~Cleared(l)'
    BY <1>1, <1>8, <2>1 DEF Comes
  <2>2. CASE Cleared(l)'
    <3>1. ~QStays
      BY <1>1, <1>8, <2>2, ClearedIs
    <3>2. QPushed(RollbackMsg(known, known' - 1)) /\ known' <= known /\ level[Ix] <= known
      BY <3>1 DEF Heading
    <3> DEFINE m == RollbackMsg(known, known' - 1)
    <3>3. m.to = known' - 1
      BY DEF RollbackMsg
    <3>4. QPushed(m)
      BY <3>2
    <3> HIDE DEF m
    <3>5. m.to < l
      BY <1>1, <1>8, <2>2, <3>4, ClearedIs
    <3>6. PICK a \in Int, b \in Int, c \in Int : a = known' /\ b = known /\ c = level[Ix]
      BY <1>1 DEF Heading, Numbers
    <3>7. a <= l /\ l <= b
      <4>1. PICK d \in Int : d = l
        BY <1>1 DEF PathFacts
      <4>2. a - 1 < d /\ d <= c /\ c <= b
        BY <1>8, <3>2, <3>3, <3>5, <3>6, <4>1
      <4>3. a <= d /\ d <= b
        BY <4>2
      <4> QED
        BY <4>1, <4>3
    <3>8. /\ 1 \in 1 .. PathLength /\ 2 \in 1 .. PathLength
          /\ Path[2] <= l /\ l <= Path[1] /\ PathLength = A + 1
      <4>1. Path[1] = b /\ Path[2] = a
        BY <1>1, <3>6 DEF PathFacts, AheadMoves
      <4>2. PathLength = A + 1
        BY <1>1, <1>3 DEF PathFacts
      <4> QED
        BY <3>7, <4>1, <4>2
    <3>9. PICK k \in 2 .. A + 1 : Ahead[k - 1] = chain[l]
      <4>1. Follows(l, 2)
        BY <3>8 DEF Returns
      <4> QED
        BY <3>8, <4>1 DEF Follows
    <3>10. PICK n \in 1 .. A : Ahead[n] = chain[l]
      <4>1. k - 1 \in 1 .. A
        OBVIOUS
      <4> QED
        BY <3>9, <4>1
    <3> QED
      BY <1>5, <3>10
  <2> QED
    BY <2>1, <2>2
<1>9. CASE \/ subscribed = "yes" /\ ~draining[Ix] /\ level[Ix] < l /\ l <= syncLevel
           \/ subscribed = "asked" /\ l > level[Ix]
           \/ subscribed = "stored" /\ level[Ix] < l /\ l <= askedAt
           \/ subscribed = "no" /\ l > level[Ix] /\ (~draining[Ix] \/ Beyond(l))
  <2>1. Beyond(l) => Beyond(l)'
    <3>1. PathLength = A + 1 /\ Len(Path') = A
      BY <1>1, <1>3 DEF PathFacts, AheadMoves, PathLength
    <3>2. \A j \in 1 .. A : Path'[j] = Path[j + 1] /\ j + 1 \in 1 .. A + 1
      BY <1>1, <3>1 DEF AheadMoves, PathLength
    <3> QED
      BY <3>1, <3>2 DEF Beyond, PathLength
  <2> QED
    BY <1>0, <1>1, <1>9, <2>1 DEF Comes
<1> QED
  BY <1>3, <1>5, <1>6, <1>7, <1>8, <1>9 DEF Comes

(* what it emits is in the queue;                                           *)
LEMMA ExpectedEmitted ==
  ASSUME Covering, Faithful, Ix' = Ix, Kept, Honest, Heralded, Gathered, Fetches, Expected, Still,
         Recalled, EventsEmitted \/ TransactionsEmitted
  PROVE  Expected'
<1>0. subscribed' = subscribed /\ subscribed = "stored" => askedAt' = askedAt
  BY DEF Recalled
<1>1. /\ EvmTypes /\ QueueFacts /\ Numbers /\ PathFacts /\ Fits /\ Knows /\ Emission
      /\ UNCHANGED <<blocks, chain, known, level, draining, subscribed, syncLevel>>
      /\ UNCHANGED <<current, objects>>
      /\ Ahead' = Ahead /\ Path' = Path
  BY EvmQueueIs, PathIs, EmissionIs
     DEF Covering, Still, AheadStays, EventsEmitted, TransactionsEmitted, Emitting
<1>2. \A l : Truth(l)' = Truth(l) /\ (Beyond(l)' <=> Beyond(l))
  BY <1>1, TruthStays, UndoneStays
<1> SUFFICES ASSUME NEW l \in 1 .. Len(chain), Truth(l) # NoRows, Comes(l) PROVE Comes(l)'
  BY <1>1, <1>2 DEF Expected
<1>3. CASE QStays
  <2>1. Queue' = Queue /\ (Cleared(l)' <=> Cleared(l))
    BY <1>1, <1>3, ClearedIs DEF QStays
  <2>2. CASE Emits(chain[l])
    <3>1. /\ ToEmit /\ BlockOf(current) = chain[l] /\ known = l /\ Lv(BlockOf(current)) = l
          /\ current \in 1 .. Len(objects) /\ pc # "head"
      BY <1>1, <2>2 DEF Emits, ToEmit, Knows, EvmTypes, ChainTypes, EmitterTypes
    <3>2. blocks[chain[l]].full
      <4>1. l \in DOMAIN chain
        BY <1>1 DEF EvmTypes, ChainTypes
      <4> QED
        BY <4>1 DEF Truth, Canonical, RowsOf
    <3>3. CASE EventsEmitted
      <4>1. pc = "data" /\ pc' = IF objects[current].fetch THEN "transactions" ELSE "forget"
        BY <3>3 DEF EventsEmitted
      <4>2. CASE Ix = "events"
        <5>2. objects[current].events # {}
          <6>1. Gathers(BlockOf(current)) /\ levelData[BlockOf(current)] = current
            BY <3>1, <4>1, <4>2 DEF Gathered, Kept
          <6>2. \/ Notice(BlockOf(current), 1) \in Range(logs)
                \/ 1 \in objects[current].events
            BY <3>1, <3>2, <6>1 DEF Gathers, Logs, LogCount
          <6>3. Notice(BlockOf(current), 1) \notin Range(logs)
            <7>1. ASSUME Notice(BlockOf(current), 1) \in Range(logs) PROVE FALSE
              <8>1. PICK n \in 1 .. Len(logs) : logs[n] = Notice(BlockOf(current), 1)
                BY <1>1, <7>1, RangeIs DEF EvmTypes, FeedTypes
              <8>2. logs[n].block = BlockOf(current) => logs[n].removed
                BY <3>3 DEF EventsEmitted, Faithful
              <8> QED
                BY <8>1, <8>2 DEF Notice
            <7> QED
              BY <7>1
          <6> QED
            BY <6>2, <6>3
        <5>3. Given(BlockOf(current), objects[current].events)
          BY <3>3, <4>2, <5>2 DEF EventsEmitted
        <5>4. Len(Queue') = Len(Queue) + 1 /\ Len(Queue) \in Nat
          BY <1>1, <5>3 DEF Given, QPushed, QueueFacts
        <5> QED
          BY <2>1, <5>4
      <4>3. CASE Ix = "transactions"
        <5>1. objects[current].fetch
          BY <3>1, <4>3 DEF Fetches
        <5>2. ToEmit' /\ BlockOf(current)' = BlockOf(current)
          BY <1>1, <4>1, <4>3, <5>1 DEF ToEmit, BlockOf
        <5> QED
          BY <1>1, <3>1, <5>2 DEF Emits, Comes
      <4> QED
        BY <1>1, <4>2, <4>3 DEF EvmTypes, EvmKinds
    <3>4. CASE TransactionsEmitted
      <4>1. pc = "transactions" /\ Ix = "transactions"
        BY <3>1, <3>4 DEF TransactionsEmitted, ToEmit
      <4>2. ~(l > Len(chain))
        BY <1>1 DEF PathFacts
      <4>3. Given(chain[l], {})
        BY <3>1, <3>2, <3>4, <4>1, <4>2 DEF TransactionsEmitted
      <4>4. Len(Queue') = Len(Queue) + 1 /\ Len(Queue) \in Nat
        BY <1>1, <4>3 DEF Given, QPushed, QueueFacts
      <4> QED
        BY <2>1, <4>4
    <3> QED
      BY <3>3, <3>4
  <2>3. CASE ~Emits(chain[l])
    BY <1>0, <1>1, <1>2, <2>1, <2>3 DEF Comes
  <2> QED
    BY <2>2, <2>3
<1>4. CASE ~QStays
  <2>1. PICK b \in Blocks, found \in SUBSET Logs : Given(b, found) /\ Lv(b) = known
    BY <1>1, <1>4 DEF Emission
  <2> DEFINE m == DataMsg(b, found)
  <2>2. QPushed(m) /\ IsData(m) /\ ~IsRollback(m) /\ m.level = known
    BY <2>1 DEF Given, DataMsg, IsData, IsRollback, Lv
  <2> HIDE DEF m
  <2>3. Cleared(l)' <=> Cleared(l)
    BY <1>1, <2>2, ClearedIs
  <2>4. PICK N \in Nat : N = Len(Queue) /\ Len(Queue') = N + 1
    BY <1>1, <2>2 DEF QueueFacts, QPushed
  <2>5. Queue'[N + 1] = m /\ \A p \in 1 .. N : Queue'[p] = Queue[p] /\ p \in 1 .. N + 1
    BY <2>2, <2>4 DEF QPushed
  <2>6. CASE Emits(chain[l])
    <3>1. known = l
      BY <1>1, <2>6 DEF Emits, ToEmit, Knows, EvmTypes, ChainTypes
    <3>2. N + 1 \in 1 .. Len(Queue') /\ IsData(Queue'[N + 1]) /\ Queue'[N + 1].level = l
      BY <2>2, <2>4, <2>5, <3>1
    <3> QED
      BY <3>2 DEF Comes
  <2>7. ASSUME NEW p \in 1 .. Len(Queue), IsData(Queue[p]), Queue[p].level = l PROVE Comes(l)'
    BY <2>4, <2>5, <2>7 DEF Comes
  <2>8. CASE /\ ~Emits(chain[l])
             /\ ~ \E p \in 1 .. Len(Queue) : IsData(Queue[p]) /\ Queue[p].level = l
    BY <1>0, <1>1, <1>2, <2>3, <2>8 DEF Comes
  <2> QED
    BY <2>6, <2>7, <2>8
<1> QED
  BY <1>3, <1>4

(* and what the index clears it fetches, what it takes it has.              *)
LEMMA ExpectedIndexing ==
  ASSUME Covering, Ix' = Ix, Bounded, Heeded, Ordered, Expected, Indexing
  PROVE  Expected'
<1>1. /\ EvmTypes /\ QueueFacts /\ Numbers /\ PathFacts /\ Backed /\ Turns
      /\ UNCHANGED <<blocks, chain, known, subscribed, syncLevel, current, objects, pc>>
      /\ Ahead' = Ahead /\ Path' = Path
  BY EvmQueueIs, PathIs
     DEF Covering, Indexing, Still, AheadStays, Synced, DataTaken, RollbackTaken, Taken, Untouched
<1>2. \A l : /\ Truth(l)' = Truth(l) /\ (Beyond(l)' <=> Beyond(l))
             /\ Emits(chain[l])' <=> Emits(chain[l])
  BY <1>1, TruthStays, UndoneStays DEF Emits, ToEmit, BlockOf
<1> SUFFICES ASSUME NEW l \in 1 .. Len(chain), Comes(l) PROVE Comes(l)'
  BY <1>1, <1>2 DEF Expected
<1>3. l \in Int /\ level[Ix] \in Int /\ syncLevel \in Int
  BY <1>1 DEF Numbers, PathFacts
<1>4. CASE (\E n \in 1 .. Len(Ahead) : Ahead[n] = chain[l]) \/ Emits(chain[l])
  BY <1>1, <1>2, <1>4 DEF Comes
<1>5. CASE Synced
  <2>1. /\ level'[Ix] = syncLevel /\ draining' = draining /\ ~draining[Ix] /\ ~Waiting
        /\ level[Ix] < syncLevel /\ ~Cleared(l)'
    BY <1>5 DEF Synced, QCleared, Cleared
  <2>2. CASE l <= syncLevel
    BY <2>1, <2>2 DEF Comes
  <2>3. CASE ~(l <= syncLevel)
    <3>1. ~(l <= level[Ix])
      BY <1>3, <2>1, <2>3
    <3>2. CASE subscribed = "yes"
      <4>1. ASSUME NEW p \in 1 .. Len(Queue), IsData(Queue[p]), Queue[p].level = l PROVE FALSE
        BY <2>1, <2>3, <3>2, <4>1 DEF Heeded
      <4> QED
        BY <1>4, <2>3, <3>1, <3>2, <4>1 DEF Comes
    <3>3. CASE subscribed = "no"
      <4>1. syncLevel > 0
        BY <1>3, <2>1 DEF Bounded
      <4>2. Len(Queue) = 0
        BY <3>3, <4>1 DEF Bounded
      <4>3. l > syncLevel
        BY <1>3, <2>3
      <4> QED
        BY <1>1, <2>1, <3>3, <4>3 DEF Comes
    <3>4. CASE subscribed \in {"asked", "stored"}
      BY <2>1, <3>4 DEF Waiting
    <3> QED
      BY <3>2, <3>3, <3>4 DEF Bounded, Unbroken
  <2> QED
    BY <2>2, <2>3
<1>6. ASSUME Taken
      PROVE  /\ subscribed \notin {"asked", "stored"} /\ (subscribed = "no" => draining[Ix])
             /\ ~(~draining[Ix] /\ level[Ix] < l /\ l <= syncLevel)
  <2>1. ~Waiting /\ (draining[Ix] \/ (syncLevel > 0 /\ level[Ix] >= syncLevel))
    BY <1>6 DEF Taken
  <2>2. 1 \in 1 .. Len(Queue) /\ Len(Queue) # 0
    BY <1>1, <1>6, FirstIs DEF Taken
  <2>3. ~(subscribed = "no" /\ syncLevel > 0)
    BY <2>2 DEF Bounded
  <2>4. ~(level[Ix] < l /\ l <= syncLevel /\ level[Ix] >= syncLevel)
    BY <1>3
  <2> QED
    BY <2>1, <2>3, <2>4 DEF Waiting
<1>7. CASE DataTaken
  <2>1. /\ Taken /\ QPopped /\ ~IsRollback(Queue[1]) /\ 1 \in 1 .. Len(Queue)
    BY <1>1, <1>7, FirstIs DEF DataTaken, Taken
  <2>2. Cleared(l)' <=> Cleared(l)
    BY <1>1, <2>1, ClearedIs
  <2>3. /\ level'[Ix] \in Int /\ level[Ix] <= level'[Ix]
        /\ IsData(Queue[1]) => Queue[1].level \in Int /\ Queue[1].level <= level'[Ix]
        /\ level'[Ix] = level[Ix] \/ level'[Ix] <= known
    <3>1. IsData(Queue[1]) => Queue[1].level \in Int /\ Queue[1].level <= known
      BY <1>1, <2>1 DEF QueueFacts, Backed
    <3>2. IsData(Queue[1]) \/ Queue[1].kind = "empty"
      BY <1>1, <2>1, FirstIs DEF IsData, IsRollback
    <3>3. ~(IsData(Queue[1]) /\ Queue[1].kind = "empty")
      BY DEF IsData
    <3> QED
      BY <1>3, <1>7, <3>1, <3>2, <3>3 DEF DataTaken
  <2>4. ASSUME NEW p \in 1 .. Len(Queue), IsData(Queue[p]), Queue[p].level = l PROVE Comes(l)'
    <3>1. PICK N \in Nat \ {0} : N = Len(Queue) /\ Len(Queue') = N - 1
      BY <1>1, <2>1 DEF QueueFacts, QPopped
    <3>2. CASE p = 1
      <4>1. l <= level'[Ix]
        BY <2>3, <2>4, <3>2
      <4>2. ~Cleared(l)
        <5>1. ASSUME NEW q \in 1 .. Len(Queue), IsRollback(Queue[q]), Queue[q].to < l
              PROVE  FALSE
          <6>1. q # 1 /\ 1 < q
            BY <2>1, <3>1, <5>1
          <6>2. l <= Queue[q].to
            BY <2>1, <2>4, <3>2, <5>1, <6>1 DEF Ordered
          <6>3. Queue[q].to \in Int
            BY <1>1, <5>1 DEF QueueFacts
          <6> QED
            BY <1>3, <5>1, <6>2, <6>3
        <5> QED
          BY <5>1 DEF Cleared
      <4> QED
        BY <1>1, <2>2, <4>1, <4>2 DEF Comes
    <3>3. CASE p # 1
      <4>1. PICK k \in 1 .. N - 1 : k + 1 = p
        <5>1. p - 1 \in 1 .. N - 1 /\ (p - 1) + 1 = p
          BY <3>1, <3>3
        <5> QED
          BY <5>1
      <4>2. Queue'[k] = Queue[p]
        BY <2>1, <3>1, <4>1 DEF QPopped
      <4> QED
        BY <2>4, <3>1, <4>2 DEF Comes
    <3> QED
      BY <3>2, <3>3
  <2>5. CASE l <= level[Ix] /\ ~Cleared(l)
    <3>1. l <= level'[Ix]
      BY <1>3, <2>3, <2>5
    <3> QED
      BY <1>1, <2>2, <2>5, <3>1 DEF Comes
  <2>6. CASE subscribed = "no" /\ l > level[Ix] /\ Beyond(l)
    <3>1. known < l /\ known \in Int
      <4>1. 1 \in 1 .. PathLength /\ Path[1] = known /\ known \in Nat
        BY <1>1 DEF PathFacts
      <4> QED
        BY <2>6, <4>1 DEF Beyond
    <3>2. l > level'[Ix]
      BY <1>3, <2>3, <2>6, <3>1
    <3> QED
      BY <1>1, <1>2, <2>6, <3>2 DEF Comes
  <2> QED
    BY <1>4, <1>6, <2>1, <2>4, <2>5, <2>6 DEF Comes
<1>8. CASE RollbackTaken
  <2>1. /\ Taken /\ QPopped /\ IsRollback(Queue[1]) /\ 1 \in 1 .. Len(Queue)
    BY <1>1, <1>8, FirstIs DEF RollbackTaken, Taken
  <2>2. Cleared(l) <=> Cleared(l)' \/ Queue[1].to < l
    BY <1>1, <2>1, ClearedIs
  <2>3. subscribed = "yes" /\ Queue[1].to >= 1 /\ Queue[1].to \in Int
    BY <1>1, <2>1 DEF Heeded, QueueFacts
  <2>4. level'[Ix] = Queue[1].to
    BY <1>8, <2>3 DEF RollbackTaken
  <2>5. ASSUME NEW p \in 1 .. Len(Queue), IsData(Queue[p]), Queue[p].level = l PROVE Comes(l)'
    <3>1. PICK N \in Nat \ {0} : N = Len(Queue) /\ Len(Queue') = N - 1
      BY <1>1, <2>1 DEF QueueFacts, QPopped
    <3>2. p # 1
      BY <2>1, <2>5 DEF IsData, IsRollback
    <3>3. PICK k \in 1 .. N - 1 : k + 1 = p
      <4>1. p - 1 \in 1 .. N - 1 /\ (p - 1) + 1 = p
        BY <3>1, <3>2
      <4> QED
        BY <4>1
    <3>4. Queue'[k] = Queue[p]
      BY <2>1, <3>1, <3>3 DEF QPopped
    <3> QED
      BY <2>5, <3>1, <3>4 DEF Comes
  <2>6. CASE l <= level[Ix] /\ ~Cleared(l)
    <3>1. ~Cleared(l)' /\ ~(Queue[1].to < l)
      BY <2>2, <2>6
    <3>2. l <= level'[Ix]
      BY <1>3, <2>3, <2>4, <3>1
    <3> QED
      BY <1>1, <3>1, <3>2 DEF Comes
  <2> QED
    BY <1>4, <1>6, <2>1, <2>3, <2>5, <2>6 DEF Comes
<1> QED
  BY <1>5, <1>7, <1>8 DEF Indexing

(* So every step keeps it.                                                  *)
LEMMA ExpectedKept ==
  ASSUME Covering, EvmTypes', Faithful, Ix' = Ix, Kept, Honest, Heralded, Returns, Gathered,
         Fetches, Bounded, Heeded, Ordered, Expected, Forms, Recalled
  PROVE  Expected'
<1>1. CASE \E to \in 0 .. Len(chain), contents \in Seq(BOOLEAN) : Branched(to, contents)
  BY <1>1, ExpectedBranched
<1>2. CASE HeadEmitted /\ AheadMoves
  BY <1>2, HeadingIs, ExpectedHeading
<1> QED
  BY <1>1, <1>2, ExpectedLost, ExpectedFed, ExpectedEmitted, ExpectedIndexing DEF Forms

(* All of that together.                                                    *)
Canonized ==
  /\ Covering /\ Kept /\ Heralded /\ Returns /\ Honest /\ Gathered /\ Fetches
  /\ Bounded /\ Heeded /\ Ordered /\ Carried /\ Indexed /\ Expected

(* It stays so,                                                             *)
LEMMA CanonizedKept ==
  ASSUME Canonized, Faithful, [Next]_vars
  PROVE  Canonized'
<1>1. /\ Covering /\ Kept /\ Heralded /\ Returns /\ Honest /\ Gathered /\ Fetches
      /\ Bounded /\ Heeded /\ Ordered /\ Carried /\ Indexed /\ Expected
  BY DEF Canonized
<1>2. EvmTypes /\ Fits /\ Rising /\ Knows /\ Turns
  BY <1>1 DEF Covering
<1>3. Covering'
  BY <1>1, CoveringKept DEF Faithful
<1>4. EvmTypes' /\ Ix' = Ix /\ StepKinds
  BY <1>2, StepsAhead
<1>5. Forms
  BY <1>1, <1>4, FormsAre DEF Bounded
<1>9. Recalled
  BY <1>4, <1>2, RecalledIs
<1>6. Kept' /\ Heralded' /\ Returns' /\ Honest' /\ Gathered' /\ Fetches'
  BY <1>1, <1>2, <1>4, <1>5, KeptKept, HeraldedKept, ReturnsKept, HonestKept, GatheredKept,
     FetchesKept DEF Bounded
<1>7. Bounded' /\ Heeded' /\ Ordered' /\ Carried'
  BY <1>1, <1>4, <1>5, <1>9, BoundedKept, HeededKept, OrderedKept, CarriedKept
<1>8. Indexed' /\ Expected'
  BY <1>1, <1>4, <1>5, <1>9, IndexedKept, ExpectedKept
<1> QED
  BY <1>3, <1>6, <1>7, <1>8 DEF Canonized

(* is so at first,                                                          *)
LEMMA CanonizedStart ==
  ASSUME Init, Single, ofEvm
  PROVE  Canonized
<1>1. Covering /\ EvmTypes
  BY CoveringStart DEF Covering
<1>2. /\ blocks = <<[level |-> 1, full |-> TRUE]>> /\ chain = <<1>> /\ syncLevel = 1
      /\ subscribed = "no" /\ heads = [k \in Kinds |-> <<>>]
      /\ emitter = <<>> /\ pc = "head"
      /\ queue = [k \in Kinds |-> <<>>] /\ draining = [k \in Kinds |-> FALSE]
      /\ level = [k \in Kinds |-> 0]
      /\ rows = [k \in Kinds |-> [l \in Levels |-> NoRows]]
      /\ askedAt = 0 /\ logs = <<>> /\ levelData = [b \in 1 .. MaxBlocks |-> 0]
  BY DEF Init, NodeInit, EvmInit
<1>3. Ix \in Kinds
  BY <1>1 DEF EvmTypes, EvmKinds, Kinds
<1>4. /\ Len(emitter) = 0 /\ Len(Queue) = 0 /\ Len(heads[Ix]) = 0 /\ draining[Ix] = FALSE
      /\ level[Ix] = 0 /\ \A l \in Levels : rows[Ix][l] = NoRows
  BY <1>2, <1>3, NoElements DEF Queue
<1>5. Len(Ahead) = 0 /\ PathLength = 1 /\ Len(chain) = 1
  <2>1. Len(Ahead) = 0
    BY <1>1, <1>4, AheadIs DEF AheadFacts
  <2>2. PathLength = 1
    BY <1>1, <2>1, PathIs DEF PathFacts
  <2> QED
    BY <1>2, <2>1, <2>2
<1>6. Range(logs) = {}
  BY <1>2, NoElements
<1>7. Kept /\ Heralded /\ Returns
  BY <1>2, <1>4, <1>5 DEF Kept, Heralded, Returns
<1>8. Honest /\ Gathered /\ Fetches
  BY <1>2, <1>4, <1>5, <1>6 DEF Honest, Gathered, Fetches
<1>9. Bounded
  BY <1>2, <1>4, <1>5 DEF Bounded, Unbroken, Waiting
<1>10. Heeded /\ Carried
  BY <1>2, <1>4, <1>5 DEF Heeded, Carried
<1>11. Ordered
  BY <1>2, <1>4, <1>5 DEF Ordered, ToEmit
<1>12. Indexed
  <2>1. \A l \in Levels : ~(l <= level[Ix])
    BY <1>4 DEF Levels
  <2> QED
    BY <1>4, <2>1 DEF Indexed
<1>13. Expected
  <2>1. ASSUME NEW l \in 1 .. 1 PROVE Comes(l)
    BY <1>2, <1>4 DEF Comes
  <2> QED
    BY <1>5, <2>1 DEF Expected
<1> QED
  BY <1>1, <1>7, <1>8, <1>9, <1>10, <1>11, <1>12, <1>13 DEF Canonized

(* and leaves the canonical rows when everything has been handled.          *)
LEMMA CanonizedQuiet ==
  ASSUME Canonized
  PROVE  CanonicalWhenQuiet
<1> SUFFICES ASSUME Quiet, NEW l \in Levels PROVE rows[Ix][l] = Canonical(Ix, l)
  BY DEF CanonicalWhenQuiet, Canonized, Covering, EvmTypes
<1>1. /\ EvmTypes /\ Bounded /\ Indexed /\ Expected /\ Numbers /\ PathFacts /\ AheadFacts
      /\ kinds = {Ix} /\ Ix \in EvmKinds
  BY EvmQueueIs, PathIs, AheadIs DEF Canonized, Covering, EvmTypes
<1>2. /\ emitter = <<>> /\ pc = "head" /\ heads[Ix] = <<>> /\ queue[Ix] = <<>>
      /\ level[Ix] >= syncLevel
  BY <1>1 DEF Quiet
<1>3. subscribed = "yes"
  <2>1. Websockets
    BY <1>1 DEF Websockets, EvmKinds
  <2> QED
    BY <2>1 DEF Quiet
<1>4. Len(Ahead) = 0 /\ PathLength = 1 /\ Len(Queue) = 0
  BY <1>1, <1>2, NoElements DEF AheadFacts, PathFacts, Queue
<1>5. ~Cleared(l) /\ ~Undone(l) /\ l \in Int /\ level[Ix] \in Int /\ syncLevel \in Int
  BY <1>1, <1>4 DEF Cleared, Undone, Levels, Numbers
<1>6. CASE l <= level[Ix]
  BY <1>1, <1>5, <1>6 DEF Indexed, Truth
<1>7. CASE l > level[Ix]
  <2>1. rows[Ix][l] = NoRows
    BY <1>1, <1>7 DEF Indexed
  <2>2. CASE l \in 1 .. Len(chain)
    <3>1. ~Comes(l)
      <4>1. ~(l <= level[Ix]) /\ ~(level[Ix] < l /\ l <= syncLevel)
        BY <1>2, <1>5, <1>7
      <4> QED
        BY <1>2, <1>3, <1>4, <4>1 DEF Comes, Emits, ToEmit
    <3> QED
      BY <1>1, <2>1, <2>2, <3>1 DEF Expected, Truth
  <2>3. CASE l \notin 1 .. Len(chain)
    <3>1. l \notin DOMAIN chain
      BY <1>1, <2>3 DEF EvmTypes, ChainTypes
    <3> QED
      BY <2>1, <3>1 DEF Canonical
  <2> QED
    BY <2>2, <2>3
<1> QED
  BY <1>5, <1>6, <1>7

-----------------------------------------------------------------------------
(* A Substrate node: canonical rows.                                        *)

Timely == {"early_message", "gaps", "torn_answer"} \intersect Hazards = {}

(* The level up to which announcements have been received, or were missed.  *)
Heard == Len(chain) - Len(heads[Ix])

(* All blocks are canonical; those announced are the last ones.             *)
Straight ==
  /\ Len(blocks) = Len(chain) /\ \A l \in 1 .. Len(chain) : chain[l] = l
  /\ Heard \in Nat /\ \A n \in 1 .. Len(heads[Ix]) : heads[Ix][n] = Heard + n
  /\ subscribed \in {"no", "asked", "stored", "yes"}
  /\ subscribed = "no" => Len(heads[Ix]) = 0

(* A step is one of these: blocks are finalized;                            *)
Elsewhere == AsIs /\ UNCHANGED <<emitter, pc, current>>
Grown ==
  /\ Elsewhere /\ UNCHANGED <<subscribed, syncLevel>> /\ Len(chain') > Len(chain)
  /\ \A l \in Int : l <= Len(chain) => Truth(l)' = Truth(l)
  /\ IF subscribed = "no" THEN Heard = Len(chain) /\ Heard' = Len(chain') ELSE Heard' = Heard

(* the connection is lost, or the process starts again;                     *)
Fixed == UNCHANGED <<blocks, chain>>
Severed ==
  /\ Fixed /\ Elsewhere /\ Heard' = Len(chain)
  /\ subscribed \in {"asked", "yes"} /\ subscribed' = "no" /\ syncLevel' = 0
Rebooted ==
  /\ Fixed /\ UNCHANGED <<level, rows>> /\ Heard' = Len(chain)
  /\ subscribed' = "no" /\ syncLevel' = Len(chain)
  /\ QCleared /\ ~draining'[Ix] /\ Len(emitter') = 0 /\ pc' = "head"

(* the subscription is asked for and answered;                              *)
Steady == Fixed /\ Heard' = Heard
Sought ==
  /\ Steady /\ Elsewhere /\ syncLevel' = syncLevel
  /\ \/ subscribed' = subscribed
     \/ subscribed = "no" /\ ~draining[Ix] /\ subscribed' = "asked"
     \/ subscribed = "asked" /\ subscribed' = "stored"
Levelled ==
  /\ Steady /\ Elsewhere /\ subscribed = "stored" /\ subscribed' = "yes"
  /\ syncLevel' \in Heard .. Len(chain)

(* a head is received, its block handed to the index, and it processes it.  *)
Informed == UNCHANGED <<subscribed, syncLevel>>
Obtained ==
  /\ Fixed /\ Informed /\ AsIs /\ UNCHANGED <<pc, current>> /\ subscribed = "yes"
  /\ Heard' = Heard + 1
  /\ Len(emitter') = Len(emitter) + 1 /\ emitter'[Len(emitter) + 1] = Heard + 1
  /\ \A n \in 1 .. Len(emitter) : emitter'[n] = emitter[n]
Turned ==
  /\ Steady /\ Informed /\ AsIs /\ pc = "head" /\ pc' = "events"
  /\ Len(emitter) >= 1 /\ Len(emitter') = Len(emitter) - 1 /\ current' = emitter[1]
  /\ \A n \in 1 .. Len(emitter) - 1 : emitter'[n] = emitter[n + 1]
Handed(m) ==
  /\ Steady /\ Informed /\ UNCHANGED <<emitter, current, draining, level, rows>>
  /\ pc = "events" /\ pc' = "head"
  /\ QPushed(m) /\ ~IsRollback(m) /\ m.level = current
  /\ IsData(m) => m.rows = Truth(current)
  /\ level[Ix] >= syncLevel \/ current <= syncLevel
Advanced == Steady /\ (Synced \/ (DataTaken /\ Queue[1].kind # "empty"))
Ways ==
  \/ Grown \/ Severed \/ Rebooted \/ Sought \/ Levelled \/ Obtained \/ Turned
  \/ (\E m : Handed(m)) \/ Advanced

(* Below what is new the canonical rows stay.                               *)
LEMMA TruthBelow ==
  ASSUME ChainTypes, ChainTypes', Ix' = Ix, Len(chain') >= Len(chain),
         \A l \in 1 .. Len(chain) : chain'[l] = chain[l],
         \A b \in Blocks : blocks'[b] = blocks[b]
  PROVE  \A l \in Int : l <= Len(chain) => Truth(l)' = Truth(l)
<1>1. Len(chain) \in Nat /\ Len(chain') \in Nat /\ DOMAIN chain = 1 .. Len(chain)
  BY BlocksAre DEF ChainTypes
<1>2. DOMAIN chain' = 1 .. Len(chain')
  BY DEF ChainTypes
<1> SUFFICES ASSUME NEW l \in Int, l <= Len(chain) PROVE Truth(l)' = Truth(l)
  OBVIOUS
<1>3. CASE l >= 1
  <2>1. l \in 1 .. Len(chain) /\ l \in 1 .. Len(chain')
    BY <1>1, <1>3
  <2>2. l \in DOMAIN chain /\ l \in DOMAIN chain' /\ chain'[l] = chain[l] /\ chain[l] \in Blocks
    BY <1>1, <1>2, <2>1 DEF ChainTypes
  <2>3. blocks'[chain[l]] = blocks[chain[l]]
    BY <2>2
  <2> QED
    BY <2>2, <2>3 DEF Truth, Canonical, RowsOf
<1>4. CASE l < 1
  <2>1. l \notin DOMAIN chain /\ l \notin DOMAIN chain'
    BY <1>1, <1>2, <1>4
  <2> QED
    BY <2>1 DEF Truth, Canonical
<1> QED
  BY <1>3, <1>4

(* Blocks are finalized.                                                    *)
LEMMA GrownIs ==
  ASSUME SubstrateTypes, Straight, Timely, Ix' = Ix, Finalize
  PROVE  Straight' /\ Grown
<1>1. PICK contents \in Seq(BOOLEAN) : Finalized(contents)
  BY FinalizeIs
<1>2. ChainTypes /\ ChainTypes' /\ Ix \in Kinds /\ Len(chain) \in Nat /\ Len(blocks) \in Nat
      /\ heads \in [Kinds -> Seq(Nat)] /\ Len(heads[Ix]) \in Nat
  <2>1. heads[Ix] \in Seq(Nat)
    BY DEF SubstrateTypes, Kinds
  <2> QED
    BY <2>1, FinalizeIs, BlocksAre DEF SubstrateTypes, Kinds
<1>3. PICK c \in Nat \ {0}, L \in Nat, h \in Nat :
        c = Len(contents) /\ L = Len(chain) /\ h = Len(heads[Ix])
  BY <1>1, <1>2 DEF Finalized
<1>4. /\ Len(blocks) = L /\ \A l \in 1 .. L : chain[l] = l
      /\ h <= L /\ \A n \in 1 .. h : heads[Ix][n] = (L - h) + n
      /\ subscribed \in {"no", "asked", "stored", "yes"} /\ (subscribed = "no" => h = 0)
  <2>1. Heard = L - h /\ Heard \in Nat
    BY <1>3 DEF Straight, Heard
  <2>2. h <= L
    BY <2>1
  <2>3. \A n \in 1 .. h : heads[Ix][n] = (L - h) + n
    BY <1>3, <2>1 DEF Straight
  <2> QED
    BY <1>3, <2>2, <2>3 DEF Straight
<1>5. /\ Len(blocks') = L + c /\ Len(chain') = L + c
      /\ \A b \in 1 .. L : blocks'[b] = blocks[b]
      /\ \A l \in 1 .. L : chain'[l] = chain[l]
      /\ \A n \in 1 .. c : chain'[L + n] = L + n
  BY <1>1, <1>3, <1>4 DEF Finalized, Minted
<1>6. \A l \in 1 .. L + c : l \in 1 .. L \/ \E n \in 1 .. c : l = L + n
  <2>1. \A l \in 1 .. L + c : l \in 1 .. L \/ (l - L \in 1 .. c /\ l = L + (l - L))
    OBVIOUS
  <2> QED
    BY <2>1
<1>7. \A l \in 1 .. L + c : chain'[l] = l
  BY <1>4, <1>5, <1>6
<1>8. UNCHANGED <<subscribed, syncLevel, emitter, pc, current, queue, draining, level, rows>>
  BY <1>1 DEF Finalized, emitterVars, indexVars
<1>9. Elsewhere
  BY <1>8 DEF Elsewhere, AsIs, QStays, Queue
<1>10. \A l \in Int : l <= Len(chain) => Truth(l)' = Truth(l)
  <2>1. Len(chain') >= Len(chain) /\ Blocks = 1 .. L
    BY <1>3, <1>4, <1>5 DEF Blocks
  <2>2. \A l \in 1 .. Len(chain) : chain'[l] = chain[l]
    BY <1>3, <1>5
  <2>3. \A b \in Blocks : blocks'[b] = blocks[b]
    BY <1>5, <2>1
  <2> QED
    BY <1>2, <2>1, <2>2, <2>3, TruthBelow
<1>11. CASE subscribed = "no"
  <2>1. heads' = heads
    BY <1>1, <1>11 DEF Finalized, Announcing
  <2>2. h = 0 /\ Len(heads'[Ix]) = 0 /\ Len(heads[Ix]) = 0
    BY <1>3, <1>4, <1>11, <2>1
  <2>3. Heard' = L + c /\ Heard = L
    BY <1>3, <1>5, <2>2 DEF Heard
  <2>4. Straight'
    BY <1>4, <1>5, <1>7, <1>8, <2>2, <2>3 DEF Straight
  <2> QED
    BY <1>3, <1>5, <1>8, <1>9, <1>10, <1>11, <2>3, <2>4 DEF Grown
<1>12. CASE subscribed # "no"
  <2>1. /\ Len(heads'[Ix]) = h + c
        /\ \A n \in 1 .. h : heads'[Ix][n] = heads[Ix][n]
        /\ \A n \in 1 .. c : heads'[Ix][h + n] = L + n
    BY <1>1, <1>3, <1>4, <1>12 DEF Finalized, Announcing, Timely
  <2>2. Heard' = L - h /\ Heard = L - h
    BY <1>3, <1>5, <2>1 DEF Heard
  <2>3. ASSUME NEW n \in 1 .. h + c PROVE heads'[Ix][n] = (L - h) + n
    <3>1. CASE n \in 1 .. h
      BY <1>4, <2>1, <3>1
    <3>2. CASE n \notin 1 .. h
      <4>1. PICK i \in 1 .. c : n = h + i
        <5>1. n - h \in 1 .. c /\ n = h + (n - h)
          BY <3>2
        <5> QED
          BY <5>1
      <4>2. heads'[Ix][n] = L + i /\ i \in Int
        BY <2>1, <4>1
      <4> QED
        BY <4>1, <4>2
    <3> QED
      BY <3>1, <3>2
  <2>4. Straight'
    <3>1. \A n \in 1 .. Len(heads'[Ix]) : heads'[Ix][n] = Heard' + n
      BY <2>1, <2>2, <2>3
    <3>2. Heard' \in Nat /\ \A l \in 1 .. Len(chain') : chain'[l] = l
      BY <1>4, <1>5, <1>7, <2>2
    <3> QED
      BY <1>4, <1>5, <1>8, <1>12, <3>1, <3>2 DEF Straight
  <2> QED
    BY <1>3, <1>5, <1>8, <1>9, <1>10, <1>12, <2>2, <2>4 DEF Grown
<1> QED
  BY <1>11, <1>12

(* Nothing new on the chain: what has been heard of it.                     *)
LEMMA StraightStays ==
  ASSUME SubstrateTypes, Straight, Ix' = Ix, Fixed,
         subscribed' \in {"no", "asked", "stored", "yes"},
         \/ heads' = heads /\ (subscribed' = "no" => subscribed = "no")
         \/ Len(heads'[Ix]) = 0
  PROVE  /\ Straight'
         /\ heads' = heads => Heard' = Heard
         /\ Len(heads'[Ix]) = 0 => Heard' = Len(chain)
<1>1. Len(chain) \in Nat
  BY BlocksAre DEF SubstrateTypes
<1>2. Len(chain') = Len(chain) /\ Len(blocks') = Len(blocks)
      /\ \A l \in 1 .. Len(chain) : chain'[l] = l
  BY DEF Fixed, Straight
<1>3. CASE heads' = heads /\ (subscribed' = "no" => subscribed = "no")
  <2>1. Heard' = Heard
    BY <1>2, <1>3 DEF Heard
  <2>2. Straight'
    BY <1>2, <1>3, <2>1 DEF Straight
  <2>3. Len(heads'[Ix]) = 0 => Heard' = Len(chain)
    BY <1>1, <1>2 DEF Heard
  <2> QED
    BY <2>1, <2>2, <2>3
<1>4. CASE Len(heads'[Ix]) = 0
  <2>1. Heard' = Len(chain)
    BY <1>1, <1>2, <1>4 DEF Heard
  <2>2. heads' = heads => Heard' = Heard
    BY <1>2, <1>4 DEF Heard
  <2> QED
    BY <1>1, <1>2, <1>4, <2>1, <2>2 DEF Straight
<1> QED
  BY <1>3, <1>4

(* What the events of a block are.                                          *)
LEMMA EventsAre ==
  ASSUME SubstrateTypes, Straight, NEW b \in Blocks
  PROVE  /\ ~IsRollback(EventsOf(b)) /\ EventsOf(b).level = b
         /\ IsData(EventsOf(b)) => EventsOf(b).rows = Truth(b)
<1>1. b \in 1 .. Len(chain) /\ chain[b] = b /\ Ix = "finalized" /\ ChainTypes
  BY DEF Blocks, Straight, SubstrateTypes
<1>2. blocks[b].level = b
  BY <1>1 DEF ChainTypes, Lv
<1>3. Truth(b) = RowsOf("finalized", b)
  BY <1>1 DEF Truth, Canonical, ChainTypes
<1>4. CASE blocks[b].full
  <2>1. EventsOf(b) = DataMsg(b, {})
    BY <1>4 DEF EventsOf
  <2> QED
    BY <1>2, <1>3, <1>4, <2>1 DEF DataMsg, IsRollback, RowsOf
<1>5. CASE ~blocks[b].full
  <2>1. EventsOf(b) = EmptyMsg(b) \/ EventsOf(b) = [EmptyMsg(b) EXCEPT !.kind = "data"]
    BY <1>5 DEF EventsOf
  <2> QED
    BY <1>2, <1>3, <1>5, <2>1 DEF EmptyMsg, IsRollback, RowsOf
<1> QED
  BY <1>4, <1>5

(* The steps of the node and the Websocket task are among those said,       *)
LEMMA FeedWays ==
  ASSUME SubstrateTypes, Straight, Timely, Ix' = Ix, Running, Running',
         \/ Finalize \/ DisconnectSubstrate \/ CrashSubstrate \/ RefuseSubstrate
         \/ SubscribeFinalized \/ StoreId \/ SetSyncLevel \/ ReceiveFinalized
         \/ UNCHANGED <<nodeVars, evmVars>>
  PROVE  Straight' /\ Ways
<1>0. /\ Ix \in Kinds /\ Ix = "finalized" /\ kinds = {Ix} /\ Len(chain) \in Nat
      /\ heads \in [Kinds -> Seq(Nat)] /\ heads[Ix] \in Seq(Nat) /\ Len(heads[Ix]) \in Nat
      /\ emitter \in Seq(Nat)
  BY BlocksAre DEF SubstrateTypes, Kinds
<1>1. CASE Finalize
  BY <1>1, GrownIs DEF Ways
<1>2. CASE DisconnectSubstrate
  <2>1. /\ UNCHANGED <<blocks, chain, emitter, pc, current, queue, draining, level, rows>>
        /\ syncLevel' = 0 /\ heads' = [k \in Kinds |-> <<>>]
        /\ subscribed # "stored" /\ subscribed' = "no" /\ subscribed # "no"
        /\ failure' = IF subscribed = "asked" THEN "timeout" ELSE "none"
    BY <1>2 DEF DisconnectSubstrate, Disconnected, emitterVars, indexVars, Timely, Straight
  <2>2. Len(heads'[Ix]) = 0
    BY <1>0, <2>1, NoElements
  <2>3. Straight' /\ Heard' = Len(chain)
    BY <2>1, <2>2, StraightStays DEF Fixed
  <2>4. subscribed \in {"asked", "yes"}
    BY <2>1 DEF Straight
  <2>5. Severed
    BY <2>1, <2>3, <2>4 DEF Severed, Fixed, Elsewhere, AsIs, QStays, Queue
  <2> QED
    BY <2>3, <2>5 DEF Ways
<1>3. CASE CrashSubstrate
  <2>1. /\ UNCHANGED <<blocks, chain, level, rows>>
        /\ subscribed' = "no" /\ syncLevel' = Len(chain) /\ heads' = [k \in Kinds |-> <<>>]
        /\ emitter' = <<>> /\ pc' = "head"
        /\ queue' = [k \in Kinds |-> <<>>] /\ draining' = [k \in Kinds |-> FALSE]
    BY <1>3 DEF CrashSubstrate, Restarted
  <2>2. Len(heads'[Ix]) = 0 /\ QCleared /\ Len(emitter') = 0 /\ ~draining'[Ix]
    BY <1>0, <2>1, NoElements DEF QCleared, Queue
  <2>3. Straight' /\ Heard' = Len(chain)
    BY <2>1, <2>2, StraightStays DEF Fixed
  <2>4. Rebooted
    BY <2>1, <2>2, <2>3 DEF Rebooted, Fixed
  <2> QED
    BY <2>3, <2>4 DEF Ways
<1>4. CASE RefuseSubstrate \/ UNCHANGED <<nodeVars, evmVars>>
  <2>1. UNCHANGED <<blocks, chain, subscribed, heads, syncLevel, emitter, pc, current,
                    queue, draining, level, rows>>
    BY <1>4 DEF RefuseSubstrate, Refuse, nodeVars, chainVars, feedVars, emitterVars, indexVars
  <2>2. Straight' /\ Heard' = Heard
    <3>1. subscribed' \in {"no", "asked", "stored", "yes"}
      BY <2>1 DEF Straight
    <3> QED
      BY <2>1, <3>1, StraightStays DEF Fixed
  <2>3. Sought
    BY <2>1, <2>2 DEF Sought, Steady, Fixed, Elsewhere, AsIs, QStays, Queue
  <2> QED
    BY <2>2, <2>3 DEF Ways
<1>5. CASE SubscribeFinalized \/ StoreId
  <2>1. /\ UNCHANGED <<blocks, chain, heads, syncLevel, emitter, pc, current,
                       queue, draining, level, rows>>
        /\ \/ subscribed = "no" /\ ~draining[Ix] /\ subscribed' = "asked"
           \/ subscribed = "asked" /\ subscribed' = "stored"
    BY <1>0, <1>5 DEF SubscribeFinalized, Requested, StoreId, chainVars, emitterVars, indexVars
  <2>2. Straight' /\ Heard' = Heard
    BY <2>1, StraightStays DEF Fixed
  <2>3. Sought
    BY <2>1, <2>2 DEF Sought, Steady, Fixed, Elsewhere, AsIs, QStays, Queue
  <2> QED
    BY <2>2, <2>3 DEF Ways
<1>6. CASE SetSyncLevel
  <2>1. /\ UNCHANGED <<blocks, chain, heads, emitter, pc, current, queue, draining, level, rows>>
        /\ subscribed = "stored" /\ subscribed' = "yes"
    BY <1>6 DEF SetSyncLevel, chainVars, emitterVars, indexVars, Straight
  <2>2. PICK unseen \in 0 .. Len(heads[Ix]) : syncLevel' = Len(chain) - unseen
    BY <1>0, <1>6 DEF SetSyncLevel
  <2>3. Straight' /\ Heard' = Heard
    BY <2>1, StraightStays DEF Fixed
  <2>4. syncLevel' \in Heard .. Len(chain)
    <3>1. Heard = Len(chain) - Len(heads[Ix])
      BY DEF Heard
    <3> QED
      BY <1>0, <2>2, <3>1
  <2>5. Levelled
    BY <2>1, <2>3, <2>4 DEF Levelled, Steady, Fixed, Elsewhere, AsIs, QStays, Queue
  <2> QED
    BY <2>3, <2>5 DEF Ways
<1>7. CASE ReceiveFinalized
  <2>1. /\ heads[Ix] # <<>> /\ subscribed \in {"asked", "yes"}
        /\ failure' = IF subscribed = "asked" THEN "unknown_subscription" ELSE "none"
        /\ UNCHANGED <<blocks, chain, subscribed, syncLevel, pc, current,
                       queue, draining, level, rows>>
        /\ emitter' = Append(emitter, Head(heads[Ix]))
        /\ heads' = [heads EXCEPT ![Ix] = Tail(@)]
    BY <1>0, <1>7 DEF ReceiveFinalized, Notified, Announcing, chainVars, indexVars
  <2>2. subscribed = "yes"
    BY <2>1 DEF Running
  <2>3. /\ Head(heads[Ix]) = heads[Ix][1] /\ heads'[Ix] = Tail(heads[Ix])
        /\ Head(heads[Ix]) \in Nat /\ Len(heads[Ix]) \in Nat \ {0}
        /\ Len(heads'[Ix]) = Len(heads[Ix]) - 1
        /\ \A n \in 1 .. Len(heads[Ix]) - 1 : heads'[Ix][n] = heads[Ix][n + 1]
    BY <1>0, <2>1, HeadTail
  <2>4. PICK h \in Nat \ {0}, H \in Nat : h = Len(heads[Ix]) /\ H = Heard
    BY <2>3 DEF Straight
  <2>5. Heard' = H + 1 /\ Len(chain') = Len(chain)
    <3>1. H = Len(chain) - h /\ Len(heads'[Ix]) = h - 1
      BY <2>3, <2>4 DEF Heard
    <3>2. Len(chain') = Len(chain)
      BY <2>1
    <3>3. Heard' = Len(chain) - (h - 1)
      BY <3>1, <3>2 DEF Heard
    <3> QED
      BY <1>0, <3>1, <3>2, <3>3
  <2>6. \A n \in 1 .. h : heads[Ix][n] = H + n
    BY <2>4 DEF Straight
  <2>7. \A n \in 1 .. h - 1 : heads'[Ix][n] = (H + 1) + n
    <3>1. \A n \in 1 .. h - 1 : n + 1 \in 1 .. h /\ H + (n + 1) = (H + 1) + n
      OBVIOUS
    <3> QED
      BY <2>3, <2>4, <2>6, <3>1
  <2>8. Head(heads[Ix]) = H + 1
    BY <2>3, <2>4, <2>6
  <2>9. Straight'
    <3>1. \A n \in 1 .. Len(heads'[Ix]) : heads'[Ix][n] = Heard' + n
      BY <2>3, <2>4, <2>5, <2>7
    <3>2. Heard' \in Nat
      BY <2>5
    <3> QED
      BY <2>1, <2>2, <3>1, <3>2 DEF Straight
  <2>10. /\ Len(emitter') = Len(emitter) + 1 /\ emitter'[Len(emitter) + 1] = Heard + 1
         /\ \A n \in 1 .. Len(emitter) : emitter'[n] = emitter[n]
    BY <1>0, <2>1, <2>3, <2>4, <2>8, AppendAt
  <2>11. Obtained
    BY <2>1, <2>2, <2>4, <2>5, <2>10 DEF Obtained, Fixed, Informed, AsIs, QStays, Queue
  <2> QED
    BY <2>9, <2>11 DEF Ways
<1> QED
  BY <1>1, <1>2, <1>3, <1>4, <1>5, <1>6, <1>7

(* and so are those of the emitter and the index.                           *)
LEMMA HandWays ==
  ASSUME SubstrateTypes, Straight, Timely, Ix' = Ix, Running, Running', NoRollbacks,
         \/ EmitFinalized \/ EmitBlockEvents
         \/ Synchronize(Ix) \/ ProcessData(Ix) \/ ProcessRollback(Ix)
  PROVE  Straight' /\ Ways
<1>0. /\ Ix \in Kinds /\ Ix = "finalized" /\ IndexTypes /\ emitter \in Seq(Nat)
      /\ Len(Queue) \in Nat
  BY QueueIs DEF SubstrateTypes, Kinds, QueueFacts
<1>1. ASSUME UNCHANGED <<blocks, chain, heads, subscribed>> PROVE Straight' /\ Steady
  <2>1. subscribed' \in {"no", "asked", "stored", "yes"}
    BY <1>1 DEF Straight
  <2> QED
    BY <1>1, <2>1, StraightStays DEF Fixed, Steady
<1>2. CASE EmitFinalized
  <2>1. /\ UNCHANGED <<blocks, chain, heads, subscribed, syncLevel, queue, draining, level, rows>>
        /\ emitter # <<>> /\ pc = "head" /\ pc' = "events"
        /\ current' = Head(emitter) /\ emitter' = Tail(emitter)
    BY <1>2 DEF EmitFinalized, chainVars, feedVars, indexVars
  <2>2. /\ Len(emitter) >= 1 /\ Len(emitter') = Len(emitter) - 1 /\ current' = emitter[1]
        /\ \A n \in 1 .. Len(emitter) - 1 : emitter'[n] = emitter[n + 1]
    BY <1>0, <2>1, HeadTail
  <2>3. Straight' /\ Steady
    BY <1>1, <2>1
  <2>4. Turned
    BY <2>1, <2>2, <2>3 DEF Turned, Informed, AsIs, QStays, Queue
  <2> QED
    BY <2>3, <2>4 DEF Ways
<1>3. CASE EmitBlockEvents
  <2>1. /\ UNCHANGED <<blocks, chain, heads, subscribed, syncLevel, emitter, current,
                       draining, level, rows>>
        /\ pc = "events" /\ pc' = "head" /\ Push("finalized", EventsOf(current))
    BY <1>3 DEF EmitBlockEvents, OnSubstrateEvents, chainVars, feedVars
  <2>2. current \in Blocks
    BY <2>1 DEF SubstrateTypes
  <2>3. PICK m \in Messages : m = EventsOf(current)
    <3>1. DataMsg(current, {}) \in Messages /\ EmptyMsg(current) \in Messages
      BY <2>2, MessagesAre DEF SubstrateTypes
    <3>2. [EmptyMsg(current) EXCEPT !.kind = "data"] \in Messages
      BY <3>1 DEF EmptyMsg, Messages
    <3> QED
      BY <3>1, <3>2 DEF EventsOf
  <2>4. /\ queue' = [queue EXCEPT ![Ix] = Append(@, m)]
        /\ level[Ix] >= syncLevel \/ m.level <= syncLevel
    BY <1>0, <2>1, <2>3 DEF Push, Timely
  <2>5. QPushed(m)
    BY <1>0, <2>3, <2>4, PushIs
  <2>6. /\ ~IsRollback(m) /\ m.level = current
        /\ IsData(m) => m.rows = Truth(current)
    BY <2>2, <2>3, EventsAre
  <2>7. Straight' /\ Steady
    BY <1>1, <2>1
  <2>8. Handed(m)
    BY <2>1, <2>4, <2>5, <2>6, <2>7 DEF Handed, Informed
  <2> QED
    BY <2>7, <2>8 DEF Ways
<1>4. CASE Synchronize(Ix) \/ ProcessData(Ix) \/ ProcessRollback(Ix)
  <2>1. Synced \/ DataTaken \/ RollbackTaken
    BY <1>0, <1>4, IndexSteps
  <2>2. ~RollbackTaken
    <3>1. Taken => 1 \in 1 .. Len(Queue)
      BY <1>0 DEF Taken, QPopped
    <3> QED
      BY <3>1 DEF RollbackTaken, NoRollbacks
  <2>3. DataTaken => Queue[1].kind # "empty"
    BY DEF DataTaken, Running
  <2>4. Straight' /\ Steady
    BY <1>1, <2>1, <2>2 DEF Synced, DataTaken, Taken, Untouched
  <2>5. Advanced
    BY <2>1, <2>2, <2>3, <2>4 DEF Advanced
  <2> QED
    BY <2>4, <2>5 DEF Ways
<1> QED
  BY <1>2, <1>3, <1>4

(* There are no others.                                                     *)
LEMMA WaysAre ==
  ASSUME SubstrateTypes, Straight, Timely, Running, Running', NoRollbacks, [Next]_vars
  PROVE  SubstrateTypes' /\ Ix' = Ix /\ Straight' /\ Ways
<1>1. /\ SubstrateTypes' /\ Ix' = Ix
      /\ SubstrateStep \/ UNCHANGED <<nodeVars, evmVars>>
  BY SubstrateTypesKept
<1>2. \/ \/ Finalize \/ DisconnectSubstrate \/ CrashSubstrate \/ RefuseSubstrate
         \/ SubscribeFinalized \/ StoreId \/ SetSyncLevel \/ ReceiveFinalized
         \/ UNCHANGED <<nodeVars, evmVars>>
      \/ \/ EmitFinalized \/ EmitBlockEvents
         \/ Synchronize(Ix) \/ ProcessData(Ix) \/ ProcessRollback(Ix)
  BY <1>1 DEF SubstrateStep
<1> QED
  BY <1>1, <1>2, FeedWays, HandWays

(* A process that has ended does nothing more.                              *)
LEMMA StaysEnded ==
  ASSUME SubstrateTypes, ~Running, [Next]_vars
  PROVE  ~Running'
<1>1. SubstrateStep \/ UNCHANGED <<nodeVars, evmVars>>
  BY SubstrateSteps
<1>2. CASE UNCHANGED <<nodeVars, evmVars>>
  BY <1>2 DEF nodeVars, Running
<1>3. CASE Finalize
  <2>1. Ix' = Ix
    BY KindsStay
  <2>2. failure' = failure
    BY <1>3, <2>1, FinalizeIs DEF Finalized
  <2> QED
    BY <2>2 DEF Running
<1>4. ~ \/ DisconnectSubstrate \/ CrashSubstrate \/ RefuseSubstrate
        \/ SubscribeFinalized \/ StoreId \/ SetSyncLevel \/ ReceiveFinalized
        \/ EmitFinalized \/ EmitBlockEvents
        \/ Synchronize(Ix) \/ ProcessData(Ix) \/ ProcessRollback(Ix)
  BY DEF DisconnectSubstrate, Disconnected, CrashSubstrate, Restarted, RefuseSubstrate, Refuse,
     SubscribeFinalized, Requested, StoreId, SetSyncLevel, ReceiveFinalized, Notified,
     EmitFinalized, EmitBlockEvents, Synchronize, ProcessData, ProcessRollback, AtQueue
<1> QED
  BY <1>1, <1>2, <1>3, <1>4 DEF SubstrateStep

(* The queue, the block being emitted and those to be emitted ascend.       *)
Lined ==
  /\ \A p \in 1 .. Len(Queue) : Queue[p].level \in 1 .. Heard
  /\ \A p \in 1 .. Len(Queue) : \A q \in 1 .. Len(Queue) :
       q < p => Queue[q].level < Queue[p].level
  /\ pc = "events" => /\ current \in 1 .. Heard
                      /\ \A p \in 1 .. Len(Queue) : Queue[p].level < current
                      /\ \A n \in 1 .. Len(emitter) : current < emitter[n]
  /\ \A n \in 1 .. Len(emitter) : /\ emitter[n] \in 1 .. Heard
                                  /\ \A p \in 1 .. Len(Queue) : Queue[p].level < emitter[n]
  /\ \A n \in 1 .. Len(emitter) : \A m \in 1 .. Len(emitter) : m < n => emitter[m] < emitter[n]

(* The data in the queue are those of the chain.                            *)
Genuine(m) == ~IsRollback(m) /\ (IsData(m) => m.rows = Truth(m.level))
Authentic == \A p \in 1 .. Len(Queue) : Genuine(Queue[p])

Counts ==
  /\ Len(Queue) \in Nat /\ Len(emitter) \in Nat /\ Len(chain) \in Nat /\ Heard \in Nat
  /\ Heard <= Len(chain) /\ level[Ix] \in Int /\ syncLevel \in Int
  /\ pc \in {"head", "events"}

(* The numbers that are compared.                                           *)
LEMMA CountsAre ==
  ASSUME SubstrateTypes, Straight
  PROVE  Counts
<1>1. Ix \in Kinds /\ IndexTypes /\ ChainTypes /\ emitter \in Seq(Nat) /\ pc \in {"head", "events"}
  BY DEF SubstrateTypes, Kinds
<1>2. Len(Queue) \in Nat /\ Len(chain) \in Nat /\ level[Ix] \in Int /\ syncLevel \in Int
      /\ Len(emitter) \in Nat
  BY <1>1, QueueIs, BlocksAre DEF QueueFacts, IndexTypes
<1>3. Len(heads[Ix]) \in Nat
  BY DEF SubstrateTypes, Kinds
<1>4. Heard \in Nat /\ Heard <= Len(chain)
  BY <1>2, <1>3 DEF Straight, Heard
<1> QED
  BY <1>1, <1>2, <1>4 DEF Counts

(* The canonical rows stay wherever rows may be.                            *)
LEMMA TruthHeld ==
  ASSUME Ways, Ix' = Ix, Counts
  PROVE  /\ \A l \in Int : l <= Len(chain) => Truth(l)' = Truth(l)
         /\ Len(chain') >= Len(chain)
<1>1. CASE Grown
  BY <1>1 DEF Grown, Counts
<1>2. CASE Fixed
  BY <1>2, TruthStays DEF Fixed, Counts
<1> QED
  BY <1>1, <1>2 DEF Ways, Severed, Rebooted, Sought, Levelled, Obtained, Turned, Handed, Advanced,
     Steady

(* Every step keeps the order.                                              *)
LEMMA LinedKept ==
  ASSUME Lined, Counts, Counts', Ways, Ix' = Ix
  PROVE  Lined'
<1>2. CASE Elsewhere /\ Heard' >= Heard
  <2>1. /\ Queue' = Queue /\ UNCHANGED <<emitter, pc, current>>
    BY <1>2 DEF Elsewhere, AsIs, QStays
  <2>2. \A l \in 1 .. Heard : l \in 1 .. Heard'
    BY <1>2 DEF Counts
  <2> QED
    BY <2>1, <2>2 DEF Lined
<1>3. CASE Rebooted
  BY <1>3 DEF Rebooted, QCleared, Lined
<1>4. CASE Obtained
  <2>1. /\ Queue' = Queue /\ UNCHANGED <<pc, current>> /\ Heard' = Heard + 1
        /\ Len(emitter') = Len(emitter) + 1 /\ emitter'[Len(emitter) + 1] = Heard + 1
        /\ \A n \in 1 .. Len(emitter) : emitter'[n] = emitter[n]
    BY <1>4 DEF Obtained, AsIs, QStays
  <2>2. \A l \in 1 .. Heard : l \in 1 .. Heard' /\ l < Heard + 1
    BY <2>1 DEF Counts
  <2>3. \A n \in 1 .. Len(emitter') : n \in 1 .. Len(emitter) \/ n = Len(emitter) + 1
    BY <2>1 DEF Counts
  <2>4. /\ Heard + 1 \in 1 .. Heard'
        /\ \A n \in 1 .. Len(emitter) : ~(Len(emitter) + 1 < n)
        /\ ~(Len(emitter) + 1 < Len(emitter) + 1)
    BY <2>1 DEF Counts
  <2>5. \A n \in 1 .. Len(emitter') : /\ emitter'[n] \in 1 .. Heard'
                                      /\ \A p \in 1 .. Len(Queue) : Queue[p].level < emitter'[n]
    BY <2>1, <2>2, <2>3, <2>4 DEF Lined
  <2>6. \A n \in 1 .. Len(emitter') : \A m \in 1 .. Len(emitter') :
          m < n => emitter'[m] < emitter'[n]
    BY <2>1, <2>2, <2>3, <2>4 DEF Lined
  <2>7. pc' = "events" => \A n \in 1 .. Len(emitter') : current < emitter'[n]
    BY <2>1, <2>2, <2>3 DEF Lined
  <2> QED
    BY <2>1, <2>2, <2>5, <2>6, <2>7 DEF Lined
<1>5. CASE Turned
  <2>1. /\ Queue' = Queue /\ pc' = "events" /\ Heard' = Heard
        /\ Len(emitter) >= 1 /\ Len(emitter') = Len(emitter) - 1 /\ current' = emitter[1]
        /\ \A n \in 1 .. Len(emitter) - 1 : emitter'[n] = emitter[n + 1]
    BY <1>5 DEF Turned, AsIs, QStays, Steady
  <2>2. \A n \in 1 .. Len(emitter') : /\ n + 1 \in 1 .. Len(emitter) /\ 1 < n + 1
                                      /\ emitter'[n] = emitter[n + 1]
    BY <2>1 DEF Counts
  <2>3. 1 \in 1 .. Len(emitter)
    BY <2>1 DEF Counts
  <2>4. \A n \in 1 .. Len(emitter') : \A m \in 1 .. Len(emitter') : m < n => m + 1 < n + 1
    BY <2>1 DEF Counts
  <2>6. \A n \in 1 .. Len(emitter') : /\ emitter'[n] \in 1 .. Heard /\ current' < emitter'[n]
                                      /\ \A p \in 1 .. Len(Queue) : Queue[p].level < emitter'[n]
    BY <2>1, <2>2, <2>3 DEF Lined
  <2>7. \A n \in 1 .. Len(emitter') : \A m \in 1 .. Len(emitter') :
          m < n => emitter'[m] < emitter'[n]
    BY <2>2, <2>4 DEF Lined
  <2>8. current' \in 1 .. Heard /\ \A p \in 1 .. Len(Queue) : Queue[p].level < current'
    BY <2>1, <2>3 DEF Lined
  <2> QED
    BY <2>1, <2>6, <2>7, <2>8 DEF Lined
<1>6. ASSUME NEW m, Handed(m) PROVE Lined'
  <2>1. /\ Heard' = Heard /\ UNCHANGED <<emitter, current>> /\ pc = "events" /\ pc' = "head"
        /\ Len(Queue') = Len(Queue) + 1 /\ Queue'[Len(Queue) + 1] = m
        /\ \A n \in 1 .. Len(Queue) : Queue'[n] = Queue[n]
        /\ m.level = current
    BY <1>6 DEF Handed, Steady, QPushed
  <2>3. \A p \in 1 .. Len(Queue') : p \in 1 .. Len(Queue) \/ p = Len(Queue) + 1
    BY <2>1 DEF Counts
  <2>4. /\ \A p \in 1 .. Len(Queue) : ~(Len(Queue) + 1 < p)
        /\ ~(Len(Queue) + 1 < Len(Queue) + 1)
    BY DEF Counts
  <2>5. \A p \in 1 .. Len(Queue') : Queue'[p].level \in 1 .. Heard
    BY <2>1, <2>3 DEF Lined
  <2>6. \A p \in 1 .. Len(Queue') : \A q \in 1 .. Len(Queue') :
          q < p => Queue'[q].level < Queue'[p].level
    BY <2>1, <2>3, <2>4 DEF Lined
  <2>7. \A n \in 1 .. Len(emitter) : \A p \in 1 .. Len(Queue') : Queue'[p].level < emitter[n]
    BY <2>1, <2>3 DEF Lined
  <2> QED
    BY <2>1, <2>5, <2>6, <2>7 DEF Lined
<1>7. CASE Advanced /\ Synced
  <2>1. Len(Queue') = 0 /\ UNCHANGED <<emitter, pc, current>> /\ Heard' = Heard
    BY <1>7 DEF Advanced, Steady, Synced, QCleared, Untouched
  <2> QED
    BY <2>1 DEF Lined
<1>8. CASE Advanced /\ DataTaken
  <2>1. /\ Len(Queue) >= 1 /\ Len(Queue') = Len(Queue) - 1
        /\ \A n \in 1 .. Len(Queue) - 1 : Queue'[n] = Queue[n + 1]
        /\ UNCHANGED <<emitter, pc, current>> /\ Heard' = Heard
    BY <1>8 DEF Advanced, Steady, DataTaken, Taken, QPopped, Untouched
  <2>2. \A p \in 1 .. Len(Queue') : p + 1 \in 1 .. Len(Queue) /\ Queue'[p] = Queue[p + 1]
    BY <2>1, SMTT(20) DEF Counts
  <2>3. \A p \in 1 .. Len(Queue') : \A q \in 1 .. Len(Queue') : q < p => q + 1 < p + 1
    BY <2>1 DEF Counts
  <2>5. \A p \in 1 .. Len(Queue') : Queue'[p].level \in 1 .. Heard
    BY <2>2 DEF Lined
  <2>6. \A p \in 1 .. Len(Queue') : \A q \in 1 .. Len(Queue') :
          q < p => Queue'[q].level < Queue'[p].level
    BY <2>2, <2>3 DEF Lined
  <2> QED
    BY <2>1, <2>2, <2>5, <2>6 DEF Lined
<1>9. CASE Grown \/ Severed \/ Sought \/ Levelled
  <2>1. Elsewhere /\ Heard' >= Heard
    BY <1>9 DEF Grown, Severed, Sought, Levelled, Steady, Counts
  <2> QED
    BY <1>2, <2>1
<1> QED
  BY <1>3, <1>4, <1>5, <1>6, <1>7, <1>8, <1>9 DEF Ways, Advanced

(* Every step keeps the data what they are.                                 *)
LEMMA AuthenticKept ==
  ASSUME Lined, Authentic, Counts, Ways, Ix' = Ix
  PROVE  Authentic'
<1>1. \A l \in Int : l <= Heard => Truth(l)' = Truth(l)
  BY TruthHeld DEF Counts
<1>2. ASSUME NEW p \in 1 .. Len(Queue')
      PROVE  \/ \E q \in 1 .. Len(Queue) : Queue'[p] = Queue[q]
             \/ pc = "events" /\ Queue'[p].level = current /\ Genuine(Queue'[p])
  <2>1. CASE QStays \/ QCleared
    BY <1>2, <2>1 DEF QStays, QCleared
  <2>2. CASE QPopped
    <3>1. p + 1 \in 1 .. Len(Queue) /\ Queue'[p] = Queue[p + 1]
      BY <1>2, <2>2 DEF QPopped, Counts
    <3> QED
      BY <3>1
  <2>3. CASE \E m : Handed(m)
    <3>1. PICK m : Genuine(m) /\ pc = "events" /\ m.level = current /\ QPushed(m)
      BY <2>3 DEF Handed, Genuine
    <3>2. p \in 1 .. Len(Queue) \/ p = Len(Queue) + 1
      BY <1>2, <3>1 DEF QPushed, Counts
    <3> QED
      BY <3>1, <3>2 DEF QPushed
  <2> QED
    BY <2>1, <2>2, <2>3 DEF Ways, Grown, Severed, Rebooted, Sought, Levelled, Obtained, Turned,
       Elsewhere, AsIs, Advanced, Synced, DataTaken, Taken
<1>3. ASSUME NEW p \in 1 .. Len(Queue') PROVE Genuine(Queue[p])'
  <2>1. PICK m : m = Queue'[p]
    OBVIOUS
  <2>2. Genuine(m) /\ m.level \in 1 .. Heard
    BY <1>2, <2>1 DEF Authentic, Lined
  <2>3. Truth(m.level)' = Truth(m.level)
    BY <1>1, <2>2 DEF Counts
  <2> QED
    BY <2>1, <2>2, <2>3 DEF Genuine, IsData, IsRollback
<1> QED
  BY <1>3 DEF Authentic

(* What the index has, and the level of its subscription, is on the chain,  *)
(* as with an EVM node.                                                     *)
Ranged ==
  /\ level[Ix] \in 0 .. Len(chain) /\ syncLevel \in 0 .. Len(chain)
  /\ subscribed \in {"asked", "stored"} => ~draining[Ix]
  /\ subscribed = "no" /\ syncLevel > 0 => Len(Queue) = 0 /\ Len(emitter) = 0 /\ pc = "head"
  /\ subscribed = "yes" /\ ~draining[Ix] /\ level[Ix] < syncLevel =>
       \A p \in 1 .. Len(Queue) : Queue[p].level <= syncLevel

(* A message is taken, one of data.                                         *)
Drawn ==
  /\ Steady /\ Informed /\ UNCHANGED <<emitter, pc, current>>
  /\ Len(Queue) >= 1 /\ Len(Queue') = Len(Queue) - 1
  /\ \A n \in 1 .. Len(Queue) - 1 : n + 1 \in 1 .. Len(Queue) /\ Queue'[n] = Queue[n + 1]
  /\ \A n \in 2 .. Len(Queue) : n - 1 \in 1 .. Len(Queue') /\ Queue'[n - 1] = Queue[n]
  /\ 1 \in 1 .. Len(Queue) /\ Queue[1].level \in 1 .. Heard /\ Queue[1].rows = Truth(Queue[1].level)
  /\ subscribed \in {"no", "yes"}
  /\ draining[Ix] \/ (syncLevel > 0 /\ level[Ix] >= syncLevel)
  /\ subscribed = "no" => draining[Ix]
  /\ draining'[Ix] <=> Len(Queue) # 1
  /\ \/ Queue[1].level <= level[Ix] /\ level'[Ix] = level[Ix] /\ rows'[Ix] = rows[Ix]
     \/ /\ Queue[1].level > level[Ix] /\ level'[Ix] = Queue[1].level
        /\ \A l \in Levels :
             rows'[Ix][l] = IF l = Queue[1].level THEN Queue[1].rows ELSE rows[Ix][l]

(* That is what taking one is.                                              *)
LEMMA DrawnIs ==
  ASSUME Straight, Lined, Authentic, Ranged, Counts, Steady, DataTaken, Queue[1].kind # "empty",
         QueueFacts
  PROVE  Drawn
<1>1. /\ Taken /\ ~IsRollback(Queue[1]) /\ QPopped
  BY DEF DataTaken, Taken
<1>2. 1 \in 1 .. Len(Queue) /\ Len(Queue') = Len(Queue) - 1 /\ Len(Queue) >= 1
  BY <1>1 DEF QPopped, Counts
<1>3. IsData(Queue[1])
  BY <1>1, <1>2 DEF QueueFacts, IsData, IsRollback
<1>4. Queue[1].level \in 1 .. Heard /\ Queue[1].rows = Truth(Queue[1].level)
  BY <1>2, <1>3 DEF Lined, Authentic, Genuine
<1>5. \A n \in 1 .. Len(Queue) - 1 : n + 1 \in 1 .. Len(Queue) /\ Queue'[n] = Queue[n + 1]
  BY <1>1 DEF QPopped, Counts
<1>6. \A n \in 2 .. Len(Queue) : n - 1 \in 1 .. Len(Queue') /\ Queue'[n - 1] = Queue[n]
  <2>1. \A n \in 2 .. Len(Queue) : n - 1 \in 1 .. Len(Queue) - 1 /\ (n - 1) + 1 = n
    BY DEF Counts
  <2> QED
    BY <1>2, <1>5, <2>1
<1>7. /\ Informed /\ UNCHANGED <<emitter, pc, current>> /\ ~Waiting
      /\ draining[Ix] \/ (syncLevel > 0 /\ level[Ix] >= syncLevel)
      /\ draining'[Ix] <=> Len(Queue) # 1
  BY <1>1 DEF Taken, Untouched, Informed
<1>8. subscribed \in {"no", "yes"} /\ (subscribed = "no" => draining[Ix])
  <2>1. subscribed \in {"no", "yes"}
    BY <1>7 DEF Waiting, Straight
  <2>2. subscribed = "no" /\ syncLevel > 0 => Len(Queue) = 0
    BY DEF Ranged
  <2> QED
    BY <1>2, <1>7, <2>1, <2>2
<1>9. \/ Queue[1].level <= level[Ix] /\ level'[Ix] = level[Ix] /\ rows'[Ix] = rows[Ix]
      \/ /\ Queue[1].level > level[Ix] /\ level'[Ix] = Queue[1].level
         /\ \A l \in Levels :
              rows'[Ix][l] = IF l = Queue[1].level THEN Queue[1].rows ELSE rows[Ix][l]
  BY DEF DataTaken
<1> QED
  BY <1>2, <1>4, <1>5, <1>6, <1>7, <1>8, <1>9 DEF Drawn

(* Every step keeps the bounds.                                             *)
LEMMA RangedKept ==
  ASSUME Straight, Straight', Lined, Authentic, Ranged, Counts, Counts', QueueFacts, Ways, Ix' = Ix
  PROVE  Ranged'
<1>1. Len(chain') >= Len(chain)
  BY TruthHeld
<1>2. \A p \in 1 .. Len(Queue) : Queue[p].level \in 1 .. Heard
  BY DEF Lined
<1>3. CASE Grown \/ Sought
  <2>1. /\ Queue' = Queue /\ UNCHANGED <<emitter, pc, current, syncLevel, level, draining>>
        /\ \/ subscribed' = subscribed
           \/ subscribed = "no" /\ ~draining[Ix] /\ subscribed' = "asked"
           \/ subscribed = "asked" /\ subscribed' = "stored"
    BY <1>3 DEF Grown, Sought, Elsewhere, AsIs, QStays
  <2>2. level'[Ix] \in 0 .. Len(chain') /\ syncLevel' \in 0 .. Len(chain')
    BY <1>1, <2>1 DEF Ranged, Counts
  <2> QED
    BY <2>1, <2>2 DEF Ranged
<1>4. CASE Severed \/ Rebooted
  <2>1. /\ level' = level /\ subscribed' = "no" /\ Len(chain') = Len(chain)
        /\ \/ syncLevel' = 0
           \/ syncLevel' = Len(chain) /\ Len(Queue') = 0 /\ Len(emitter') = 0 /\ pc' = "head"
    BY <1>4 DEF Severed, Rebooted, Elsewhere, AsIs, QCleared, Fixed
  <2>2. level'[Ix] \in 0 .. Len(chain') /\ syncLevel' \in 0 .. Len(chain')
    BY <2>1 DEF Ranged, Counts
  <2>3. syncLevel' > 0 => Len(Queue') = 0 /\ Len(emitter') = 0 /\ pc' = "head"
    BY <2>1
  <2> QED
    BY <2>1, <2>2, <2>3 DEF Ranged
<1>5. CASE Levelled
  <2>1. /\ Queue' = Queue /\ subscribed' = "yes" /\ syncLevel' \in Heard .. Len(chain)
        /\ level' = level /\ Len(chain') = Len(chain)
    BY <1>5 DEF Levelled, Steady, Fixed, Elsewhere, AsIs, QStays
  <2>2. level'[Ix] \in 0 .. Len(chain') /\ syncLevel' \in 0 .. Len(chain')
    BY <2>1 DEF Ranged, Counts
  <2>3. \A p \in 1 .. Len(Queue') : Queue'[p].level <= syncLevel'
    BY <1>2, <2>1 DEF Counts
  <2> QED
    BY <2>1, <2>2, <2>3 DEF Ranged
<1>6. CASE Obtained
  <2>1. /\ Queue' = Queue /\ Len(chain') = Len(chain) /\ subscribed = "yes"
        /\ UNCHANGED <<subscribed, syncLevel, level, draining>>
    BY <1>6 DEF Obtained, Fixed, Informed, AsIs, QStays
  <2> QED
    BY <2>1 DEF Ranged
<1>7. CASE Turned
  <2>1. /\ Queue' = Queue /\ Len(chain') = Len(chain) /\ Len(emitter) # 0
        /\ UNCHANGED <<subscribed, syncLevel, level, draining>>
    BY <1>7 DEF Turned, Steady, Fixed, Informed, AsIs, QStays, Counts
  <2> QED
    BY <2>1 DEF Ranged
<1>8. ASSUME NEW m, Handed(m) PROVE Ranged'
  <2>1. /\ Len(Queue') = Len(Queue) + 1 /\ Queue'[Len(Queue) + 1] = m
        /\ \A n \in 1 .. Len(Queue) : Queue'[n] = Queue[n]
        /\ m.level = current /\ pc = "events" /\ Len(chain') = Len(chain)
        /\ UNCHANGED <<subscribed, syncLevel, level, draining>>
        /\ level[Ix] >= syncLevel \/ current <= syncLevel
    BY <1>8 DEF Handed, Steady, Fixed, Informed, QPushed
  <2>2. \A p \in 1 .. Len(Queue') : p \in 1 .. Len(Queue) \/ p = Len(Queue) + 1
    BY <2>1 DEF Counts
  <2>3. ~(level[Ix] >= syncLevel /\ level[Ix] < syncLevel)
    BY DEF Counts
  <2>4. subscribed = "yes" /\ ~draining[Ix] /\ level[Ix] < syncLevel =>
          \A p \in 1 .. Len(Queue') : Queue'[p].level <= syncLevel
    BY <2>1, <2>2, <2>3 DEF Ranged
  <2>5. ~(subscribed = "no" /\ syncLevel > 0)
    BY <2>1 DEF Ranged
  <2> QED
    BY <2>1, <2>4, <2>5 DEF Ranged
<1>9. CASE Advanced /\ Synced
  <2>1. /\ Len(Queue') = 0 /\ UNCHANGED <<emitter, pc, draining, subscribed, syncLevel>>
        /\ level'[Ix] = syncLevel /\ Len(chain') = Len(chain)
    BY <1>9 DEF Advanced, Steady, Fixed, Synced, QCleared, Untouched
  <2> QED
    BY <2>1 DEF Ranged
<1>10. CASE Steady /\ DataTaken /\ Queue[1].kind # "empty"
  <2>1. Drawn
    BY <1>10, DrawnIs
  <2>2. /\ UNCHANGED <<emitter, pc, subscribed, syncLevel>> /\ Len(chain') = Len(chain)
        /\ Len(Queue') = Len(Queue) - 1 /\ Len(Queue) >= 1 /\ subscribed \in {"no", "yes"}
        /\ draining'[Ix] <=> Len(Queue) # 1
        /\ Queue[1].level \in 1 .. Heard
        /\ level'[Ix] = level[Ix] \/ level'[Ix] = Queue[1].level
    BY <2>1 DEF Drawn, Steady, Fixed, Informed
  <2>3. level'[Ix] \in 0 .. Len(chain)
    BY <2>2 DEF Counts, Ranged
  <2>4. ~draining'[Ix] => Len(Queue') = 0
    BY <2>2 DEF Counts
  <2>5. ~(subscribed = "no" /\ syncLevel > 0)
    BY <2>2 DEF Counts, Ranged
  <2>6. syncLevel \in 0 .. Len(chain)
    BY DEF Ranged
  <2> QED
    BY <2>2, <2>3, <2>4, <2>5, <2>6 DEF Ranged
<1> QED
  BY <1>3, <1>4, <1>5, <1>6, <1>7, <1>8, <1>9, <1>10 DEF Ways, Advanced

(* Nothing that is on its way is as high.                                   *)
Above(l) ==
  /\ \A p \in 1 .. Len(Queue) : Queue[p].level < l
  /\ pc = "events" => current < l
  /\ \A n \in 1 .. Len(emitter) : emitter[n] < l

(* Every level is still to be announced, to be emitted, at the emitter or   *)
(* in the queue; or the index has got there, or will synchronize.           *)
OnTheWay(l) ==
  \/ \E n \in 1 .. Len(emitter) : emitter[n] = l
  \/ pc = "events" /\ current = l
  \/ \E p \in 1 .. Len(Queue) : Queue[p].level = l
Reached(l) ==
  \/ l <= level[Ix]
  \/ subscribed = "yes" /\ ~draining[Ix] /\ l <= syncLevel
  \/ subscribed \in {"asked", "stored"}
  \/ subscribed = "no" /\ (~draining[Ix] \/ Above(l))
Awaited == \A l \in 1 .. Len(chain) : l > Heard \/ OnTheWay(l) \/ Reached(l)

(* Every step keeps that.                                                   *)
LEMMA AwaitedKept ==
  ASSUME Straight, Straight', Lined, Authentic, Ranged, Awaited, Counts, Counts', QueueFacts,
         Ways, Ix' = Ix
  PROVE  Awaited'
<1>1. Len(chain') >= Len(chain)
  BY TruthHeld
<1>2. CASE Grown
  <2>1. /\ Queue' = Queue
        /\ UNCHANGED <<emitter, pc, current, subscribed, syncLevel, level, draining>>
        /\ IF subscribed = "no" THEN Heard = Len(chain) /\ Heard' = Len(chain') ELSE Heard' = Heard
    BY <1>2 DEF Grown, Elsewhere, AsIs, QStays
  <2>2. ASSUME NEW l \in Int PROVE (OnTheWay(l)' <=> OnTheWay(l)) /\ (Reached(l)' <=> Reached(l))
    BY <2>1 DEF OnTheWay, Reached, Above
  <2>3. ASSUME NEW l \in 1 .. Len(chain') PROVE l > Heard' \/ OnTheWay(l)' \/ Reached(l)'
    <3>1. CASE l <= Len(chain) /\ (l <= Heard' \/ subscribed # "no")
      <4>1. l \in 1 .. Len(chain) /\ l \in Int
        BY <3>1 DEF Counts
      <4>2. l > Heard => l > Heard'
        BY <2>1, <4>1 DEF Counts
      <4> QED
        BY <2>2, <4>1, <4>2 DEF Awaited
    <3>2. CASE l > Len(chain) /\ subscribed # "no"
      BY <2>1, <3>2 DEF Counts
    <3>3. CASE l > Len(chain) /\ subscribed = "no"
      <4>1. \A n \in 1 .. Heard : n < l
        BY <3>3 DEF Counts
      <4>2. Above(l)
        BY <4>1 DEF Above, Lined
      <4> QED
        BY <2>1, <2>2, <3>3, <4>2 DEF Reached
    <3>4. l <= Heard' \/ subscribed # "no"
      BY <2>1 DEF Counts
    <3> QED
      BY <3>1, <3>2, <3>3, <3>4 DEF Counts
  <2> QED
    BY <2>3 DEF Awaited
<1>3. CASE Severed
  <2>1. /\ Queue' = Queue /\ UNCHANGED <<emitter, pc, current, level, draining>>
        /\ subscribed' = "no" /\ Len(chain') = Len(chain) /\ subscribed \in {"asked", "yes"}
    BY <1>3 DEF Severed, Fixed, Elsewhere, AsIs, QStays
  <2>2. ASSUME NEW l \in 1 .. Len(chain) PROVE OnTheWay(l)' \/ Reached(l)'
    <3>1. CASE l > Heard
      <4>1. \A n \in 1 .. Heard : n < l
        BY <3>1 DEF Counts
      <4>2. Above(l)
        BY <4>1 DEF Above, Lined
      <4>3. Above(l)'
        BY <2>1, <4>2 DEF Above
      <4> QED
        BY <2>1, <4>3 DEF Reached
    <3>2. CASE OnTheWay(l)
      BY <2>1, <3>2 DEF OnTheWay
    <3>3. CASE Reached(l)
      <4>1. l <= level[Ix] \/ ~draining[Ix]
        BY <2>1, <3>3 DEF Reached, Ranged
      <4> QED
        BY <2>1, <4>1 DEF Reached
    <3> QED
      BY <3>1, <3>2, <3>3 DEF Awaited
  <2> QED
    BY <2>1, <2>2 DEF Awaited
<1>4. CASE Rebooted
  BY <1>4 DEF Rebooted, Awaited, Reached
<1>5. CASE Sought \/ Levelled
  <2>1. /\ Queue' = Queue /\ UNCHANGED <<emitter, pc, current, level, draining>>
        /\ Heard' = Heard /\ Len(chain') = Len(chain)
        /\ \/ UNCHANGED <<subscribed, syncLevel>> \/ subscribed' \in {"asked", "stored"}
           \/ subscribed' = "yes" /\ subscribed = "stored" /\ syncLevel' \in Heard .. Len(chain)
    BY <1>5 DEF Sought, Levelled, Steady, Fixed, Elsewhere, AsIs, QStays
  <2>2. ASSUME NEW l \in 1 .. Len(chain) PROVE l > Heard \/ OnTheWay(l)' \/ Reached(l)'
    <3>1. CASE UNCHANGED <<subscribed, syncLevel>>
      BY <2>1, <3>1 DEF Awaited, OnTheWay, Reached, Above
    <3>2. CASE subscribed' \in {"asked", "stored"}
      BY <3>2 DEF Reached
    <3>3. CASE subscribed' = "yes" /\ subscribed = "stored" /\ syncLevel' \in Heard .. Len(chain)
      <4>1. ~draining'[Ix]
        BY <2>1, <3>3 DEF Ranged
      <4>2. l > Heard \/ l <= syncLevel'
        BY <3>3 DEF Counts
      <4> QED
        BY <3>3, <4>1, <4>2 DEF Reached
    <3> QED
      BY <2>1, <3>1, <3>2, <3>3
  <2> QED
    BY <2>1, <2>2 DEF Awaited
<1>6. CASE Obtained
  <2>1. /\ Queue' = Queue /\ UNCHANGED <<pc, current, subscribed, syncLevel, level, draining>>
        /\ Len(chain') = Len(chain) /\ Heard' = Heard + 1 /\ subscribed = "yes"
        /\ Len(emitter') = Len(emitter) + 1 /\ emitter'[Len(emitter) + 1] = Heard + 1
        /\ \A n \in 1 .. Len(emitter) : emitter'[n] = emitter[n]
    BY <1>6 DEF Obtained, Fixed, Informed, AsIs, QStays
  <2>2. /\ Len(emitter) + 1 \in 1 .. Len(emitter')
        /\ \A n \in 1 .. Len(emitter) : n \in 1 .. Len(emitter')
    BY <2>1 DEF Counts
  <2>3. ASSUME NEW l \in 1 .. Len(chain) PROVE l > Heard + 1 \/ OnTheWay(l)' \/ Reached(l)'
    <3>1. CASE l > Heard
      <4>1. l > Heard + 1 \/ l = Heard + 1
        BY <3>1 DEF Counts
      <4> QED
        BY <2>1, <2>2, <4>1 DEF OnTheWay
    <3>2. CASE OnTheWay(l)
      BY <2>1, <2>2, <3>2 DEF OnTheWay
    <3>3. CASE Reached(l)
      BY <2>1, <3>3 DEF Reached
    <3> QED
      BY <3>1, <3>2, <3>3 DEF Awaited
  <2> QED
    BY <2>1, <2>3 DEF Awaited
<1>7. CASE Turned
  <2>1. /\ Queue' = Queue /\ UNCHANGED <<subscribed, syncLevel, level, draining>>
        /\ Len(chain') = Len(chain) /\ Heard' = Heard /\ pc = "head" /\ pc' = "events"
        /\ Len(emitter) >= 1 /\ Len(emitter') = Len(emitter) - 1 /\ current' = emitter[1]
        /\ \A n \in 1 .. Len(emitter) - 1 : emitter'[n] = emitter[n + 1]
    BY <1>7 DEF Turned, Steady, Fixed, Informed, AsIs, QStays
  <2>2. /\ \A n \in 1 .. Len(emitter) : n = 1 \/ (n - 1 \in 1 .. Len(emitter') /\ (n - 1) + 1 = n)
        /\ \A n \in 1 .. Len(emitter') : n + 1 \in 1 .. Len(emitter) /\ n \in 1 .. Len(emitter) - 1
        /\ 1 \in 1 .. Len(emitter)
    BY <2>1 DEF Counts
  <2>3. \A n \in 1 .. Len(emitter) :
          emitter[n] = current' \/ \E i \in 1 .. Len(emitter') : emitter'[i] = emitter[n]
    BY <2>1, <2>2
  <2>4. ASSUME NEW l \in 1 .. Len(chain) PROVE l > Heard \/ OnTheWay(l)' \/ Reached(l)'
    <3>1. CASE OnTheWay(l)
      BY <2>1, <2>3, <3>1 DEF OnTheWay
    <3>2. CASE Reached(l)
      <4>1. Above(l) => Above(l)'
        BY <2>1, <2>2 DEF Above
      <4> QED
        BY <2>1, <3>2, <4>1 DEF Reached
    <3> QED
      BY <3>1, <3>2 DEF Awaited
  <2> QED
    BY <2>1, <2>4 DEF Awaited
<1>8. ASSUME NEW m, Handed(m) PROVE Awaited'
  <2>1. /\ Len(Queue') = Len(Queue) + 1 /\ Queue'[Len(Queue) + 1] = m
        /\ \A n \in 1 .. Len(Queue) : Queue'[n] = Queue[n]
        /\ m.level = current /\ pc = "events" /\ pc' = "head"
        /\ Len(chain') = Len(chain) /\ Heard' = Heard
        /\ UNCHANGED <<emitter, subscribed, syncLevel, level, draining>>
    BY <1>8 DEF Handed, Steady, Fixed, Informed, QPushed
  <2>2. /\ \A p \in 1 .. Len(Queue') : p \in 1 .. Len(Queue) \/ p = Len(Queue) + 1
        /\ Len(Queue) + 1 \in 1 .. Len(Queue') /\ \A p \in 1 .. Len(Queue) : p \in 1 .. Len(Queue')
    BY <2>1 DEF Counts
  <2>3. ASSUME NEW l \in 1 .. Len(chain) PROVE l > Heard \/ OnTheWay(l)' \/ Reached(l)'
    <3>1. CASE OnTheWay(l)
      BY <2>1, <2>2, <3>1 DEF OnTheWay
    <3>2. CASE Reached(l)
      <4>1. Above(l) => Above(l)'
        BY <2>1, <2>2 DEF Above
      <4> QED
        BY <2>1, <3>2, <4>1 DEF Reached
    <3> QED
      BY <3>1, <3>2 DEF Awaited
  <2> QED
    BY <2>1, <2>3 DEF Awaited
<1>9. CASE Advanced /\ Synced
  <2>1. /\ Len(Queue') = 0 /\ UNCHANGED <<emitter, pc, current, draining, subscribed, syncLevel>>
        /\ level'[Ix] = syncLevel /\ Len(chain') = Len(chain) /\ Heard' = Heard
        /\ ~draining[Ix] /\ level[Ix] < syncLevel /\ ~Waiting
    BY <1>9 DEF Advanced, Steady, Fixed, Synced, QCleared, Untouched
  <2>2. subscribed \in {"no", "yes"} /\ (subscribed = "no" => Len(Queue) = 0)
    <3>1. level[Ix] \in Nat
      BY DEF Ranged
    <3>2. syncLevel > 0
      BY <2>1, <3>1 DEF Counts
    <3> QED
      BY <2>1, <3>2 DEF Waiting, Straight, Ranged
  <2>3. ASSUME NEW l \in 1 .. Len(chain) PROVE l > Heard \/ OnTheWay(l)' \/ Reached(l)'
    <3>1. CASE OnTheWay(l)
      <4>1. CASE \E p \in 1 .. Len(Queue) : Queue[p].level = l
        <5>1. subscribed = "yes"
          BY <2>2, <4>1
        <5> QED
          BY <2>1, <4>1, <5>1 DEF Ranged, Reached
      <4>2. CASE ~ \E p \in 1 .. Len(Queue) : Queue[p].level = l
        BY <2>1, <3>1, <4>2 DEF OnTheWay
      <4> QED
        BY <4>1, <4>2
    <3>2. CASE Reached(l)
      <4>1. l <= level[Ix] => l <= syncLevel
        BY <2>1 DEF Counts
      <4> QED
        BY <2>1, <2>2, <3>2, <4>1 DEF Reached
    <3> QED
      BY <3>1, <3>2 DEF Awaited
  <2> QED
    BY <2>1, <2>3 DEF Awaited
<1>10. CASE Steady /\ DataTaken /\ Queue[1].kind # "empty"
  <2>1. Drawn
    BY <1>10, DrawnIs
  <2>2. /\ UNCHANGED <<emitter, pc, current, subscribed, syncLevel>> /\ Len(chain') = Len(chain)
        /\ Heard' = Heard /\ subscribed \in {"no", "yes"} /\ Queue[1].level \in 1 .. Heard
        /\ \A n \in 1 .. Len(Queue) - 1 : n + 1 \in 1 .. Len(Queue) /\ Queue'[n] = Queue[n + 1]
        /\ \A n \in 2 .. Len(Queue) : n - 1 \in 1 .. Len(Queue') /\ Queue'[n - 1] = Queue[n]
        /\ draining[Ix] \/ (syncLevel > 0 /\ level[Ix] >= syncLevel)
        /\ subscribed = "no" => draining[Ix]
        /\ Len(Queue') = Len(Queue) - 1
        /\ \/ Queue[1].level <= level[Ix] /\ level'[Ix] = level[Ix]
           \/ Queue[1].level > level[Ix] /\ level'[Ix] = Queue[1].level
    BY <2>1 DEF Drawn, Steady, Fixed, Informed
  <2>3. level'[Ix] >= level[Ix] /\ level'[Ix] >= Queue[1].level /\ level'[Ix] \in Int
    BY <2>2 DEF Counts
  <2>4. \A p \in 1 .. Len(Queue) : p = 1 \/ p \in 2 .. Len(Queue)
    BY DEF Counts
  <2>5. ASSUME NEW l \in 1 .. Len(chain) PROVE l > Heard \/ OnTheWay(l)' \/ Reached(l)'
    <3>1. CASE OnTheWay(l)
      BY <2>2, <2>3, <2>4, <3>1 DEF OnTheWay, Reached
    <3>2. CASE Reached(l)
      <4>1. l <= level[Ix] => l <= level'[Ix]
        BY <2>3 DEF Counts
      <4>2. subscribed = "yes" /\ ~draining[Ix] /\ l <= syncLevel => l <= level[Ix]
        BY <2>2 DEF Counts
      <4>3. Above(l) => Above(l)'
        BY <2>2 DEF Above
      <4> QED
        BY <2>2, <3>2, <4>1, <4>2, <4>3 DEF Reached
    <3> QED
      BY <3>1, <3>2 DEF Awaited
  <2> QED
    BY <2>2, <2>5 DEF Awaited
<1> QED
  BY <1>2, <1>3, <1>4, <1>5, <1>6, <1>7, <1>8, <1>9, <1>10 DEF Ways, Advanced

(* The rows are canonical up to the level of the index; there are none      *)
(* above.                                                                   *)
Filled ==
  \A l \in Levels : rows[Ix][l] = IF l <= level[Ix] THEN Truth(l) ELSE NoRows

(* The index passes over no rows.                                           *)
LEMMA PassesNone ==
  ASSUME Lined, Awaited, Ranged, Counts, Drawn, NEW l \in 1 .. Len(chain),
         level[Ix] < l, l < Queue[1].level
  PROVE  FALSE
<1>1. Queue[1].level \in 1 .. Heard /\ 1 \in 1 .. Len(Queue)
      /\ \A p \in 1 .. Len(Queue) : p = 1 \/ 1 < p
  BY DEF Drawn, Counts
<1>2. \A x \in 1 .. Heard : Queue[1].level <= x => x # l
  BY <1>1 DEF Counts
<1>3. ~OnTheWay(l)
  <2>1. \A n \in 1 .. Len(emitter) : emitter[n] \in 1 .. Heard /\ Queue[1].level <= emitter[n]
    BY <1>1 DEF Lined
  <2>2. pc = "events" => current \in 1 .. Heard /\ Queue[1].level <= current
    BY <1>1 DEF Lined
  <2>3. \A p \in 1 .. Len(Queue) : Queue[p].level \in 1 .. Heard /\ Queue[1].level <= Queue[p].level
    BY <1>1 DEF Lined
  <2> QED
    BY <1>2, <2>1, <2>2, <2>3 DEF OnTheWay
<1>4. ~Reached(l)
  <2>1. ~(l <= level[Ix]) /\ ~(Queue[1].level < l)
    BY <1>1 DEF Counts
  <2>2. ~(subscribed = "yes" /\ ~draining[Ix] /\ l <= syncLevel)
    BY DEF Drawn, Counts
  <2>3. ~Above(l)
    BY <1>1, <2>1 DEF Above
  <2> QED
    BY <2>1, <2>2, <2>3 DEF Reached, Drawn
<1>5. ~(l > Heard)
  BY <1>1 DEF Counts
<1> QED
  BY <1>3, <1>4, <1>5 DEF Awaited

(* Every step keeps the rows.                                               *)
LEMMA FilledKept ==
  ASSUME Straight, Lined, Authentic, Ranged, Awaited, Filled, Counts, QueueFacts, Ways, Ix' = Ix
  PROVE  Filled'
<1>1. /\ \A l \in Int : l <= Len(chain) => Truth(l)' = Truth(l)
      /\ Levels \subseteq Int /\ level[Ix] \in 0 .. Len(chain)
  BY TruthHeld DEF Levels, Ranged
<1>2. CASE UNCHANGED <<level, rows>>
  <2>1. ASSUME NEW l \in Levels, l <= level[Ix] PROVE Truth(l)' = Truth(l)
    BY <1>1, <2>1 DEF Counts
  <2>2. level'[Ix] = level[Ix] /\ rows'[Ix] = rows[Ix]
    BY <1>2
  <2>3. ASSUME NEW l \in Levels
        PROVE  rows'[Ix][l] = IF l <= level'[Ix] THEN Truth(l)' ELSE NoRows
    <3>1. CASE l <= level[Ix]
      BY <2>1, <2>2, <3>1 DEF Filled
    <3>2. CASE ~(l <= level[Ix])
      BY <2>2, <3>2 DEF Filled
    <3> QED
      BY <3>1, <3>2
  <2> QED
    BY <2>3 DEF Filled
<1>3. CASE Advanced /\ Synced
  <2>1. /\ level[Ix] < syncLevel /\ level'[Ix] = syncLevel
        /\ \A l \in Levels : rows'[Ix][l] = IF level[Ix] < l /\ l <= syncLevel THEN Truth(l)
                                            ELSE rows[Ix][l]
    BY <1>3 DEF Synced, Truth
  <2>2. \A l : Truth(l)' = Truth(l)
    BY <1>3, TruthStays DEF Advanced, Steady, Fixed
  <2>3. ASSUME NEW l \in Levels
        PROVE  rows'[Ix][l] = IF l <= level'[Ix] THEN Truth(l)' ELSE NoRows
    <3>1. CASE level[Ix] < l /\ l <= syncLevel
      BY <2>1, <2>2, <3>1
    <3>2. CASE ~(level[Ix] < l /\ l <= syncLevel)
      <4>1. l <= level[Ix] <=> l <= syncLevel
        BY <1>1, <2>1, <3>2 DEF Counts
      <4>2. rows'[Ix][l] = IF l <= level[Ix] THEN Truth(l) ELSE NoRows
        BY <2>1, <3>2 DEF Filled
      <4> QED
        BY <2>1, <2>2, <4>1, <4>2
    <3> QED
      BY <3>1, <3>2
  <2> QED
    BY <2>3 DEF Filled
<1>4. CASE Steady /\ DataTaken /\ Queue[1].kind # "empty"
  <2>1. Drawn
    BY <1>4, DrawnIs
  <2>2. \A l : Truth(l)' = Truth(l)
    BY <1>4, TruthStays DEF Steady, Fixed
  <2>3. CASE level'[Ix] = level[Ix] /\ rows'[Ix] = rows[Ix]
    BY <2>2, <2>3 DEF Filled
  <2>4. CASE /\ Queue[1].level > level[Ix] /\ level'[Ix] = Queue[1].level
             /\ \A l \in Levels :
                  rows'[Ix][l] = IF l = Queue[1].level THEN Queue[1].rows ELSE rows[Ix][l]
    <3>1. Queue[1].level \in 1 .. Heard /\ Queue[1].rows = Truth(Queue[1].level)
      BY <2>1 DEF Drawn
    <3>2. ASSUME NEW l \in Levels
          PROVE  rows'[Ix][l] = IF l <= level'[Ix] THEN Truth(l) ELSE NoRows
      <4>1. CASE l = Queue[1].level
        <5>1. l <= level'[Ix]
          BY <2>4, <3>1, <4>1 DEF Counts
        <5> QED
          BY <2>4, <3>1, <4>1, <5>1
      <4>2. CASE l # Queue[1].level
        <5>1. l <= level[Ix] <=> l <= level'[Ix]
          <6>1. ~(level[Ix] < l /\ l < Queue[1].level)
            <7> SUFFICES ASSUME level[Ix] < l, l < Queue[1].level PROVE FALSE
              OBVIOUS
            <7>1. l \in 1 .. Len(chain)
              BY <1>1, <3>1 DEF Counts, Levels
            <7> QED
              BY <2>1, <7>1, PassesNone
          <6> QED
            BY <1>1, <2>4, <3>1, <4>2, <6>1 DEF Counts
        <5>2. rows'[Ix][l] = IF l <= level[Ix] THEN Truth(l) ELSE NoRows
          BY <2>4, <4>2 DEF Filled
        <5> QED
          BY <5>1, <5>2
      <4> QED
        BY <4>1, <4>2
    <3> QED
      BY <2>2, <3>2 DEF Filled
  <2> QED
    BY <2>1, <2>3, <2>4 DEF Drawn
<1> QED
  BY <1>2, <1>3, <1>4 DEF Ways, Grown, Severed, Rebooted, Sought, Levelled, Obtained, Turned,
     Handed, Elsewhere, AsIs, Advanced

(* The numbers are such in every state.                                     *)
LEMMA CountsAlways ==
  SubstrateTypes /\ Straight => Counts
BY CountsAre

(* All of that together, while the process runs.                            *)
Filling == Straight /\ Lined /\ Authentic /\ Ranged /\ Awaited /\ Filled
SubstrateCanonized == SubstrateTypes /\ NoRollbacks /\ (Running => Filling)

(* It stays so,                                                             *)
LEMMA SubstrateCanonizedKept ==
  ASSUME SubstrateCanonized, Timely, [Next]_vars
  PROVE  SubstrateCanonized'
<1>1. SubstrateTypes' /\ NoRollbacks' /\ SubstrateTypes /\ NoRollbacks
  BY SubstrateTypesKept, NoRollbacksKept DEF SubstrateCanonized
<1>2. ASSUME Running' PROVE Filling'
  <2>1. Running
    BY <1>1, <1>2, StaysEnded
  <2>2. Straight /\ Lined /\ Authentic /\ Ranged /\ Awaited /\ Filled
    BY <2>1 DEF SubstrateCanonized, Filling
  <2>3. Ix' = Ix /\ Straight' /\ Ways
    BY <1>1, <1>2, <2>1, <2>2, WaysAre
  <2>4. Counts /\ QueueFacts
    BY <1>1, <2>2, CountsAre, QueueIs DEF SubstrateTypes, Kinds
  <2>5. Counts'
    BY <1>1, <2>3, CountsAlways, PTL
  <2>6. Lined'
    BY <2>2, <2>3, <2>4, <2>5, LinedKept
  <2>7. Authentic'
    BY <2>2, <2>3, <2>4, AuthenticKept
  <2>8. Ranged'
    BY <2>2, <2>3, <2>4, <2>5, RangedKept
  <2>9. Awaited'
    BY <2>2, <2>3, <2>4, <2>5, AwaitedKept
  <2>10. Filled'
    BY <2>2, <2>3, <2>4, FilledKept
  <2> QED
    BY <2>3, <2>6, <2>7, <2>8, <2>9, <2>10 DEF Filling
<1> QED
  BY <1>1, <1>2 DEF SubstrateCanonized

(* is so at first,                                                          *)
LEMMA SubstrateCanonizedStart ==
  ASSUME Init, ofSubstrate
  PROVE  SubstrateCanonized
<1>1. SubstrateTypes /\ Ix \in Kinds
  BY SubstrateTypesStart DEF SubstrateTypes, Kinds
<1>2. /\ Len(Queue) = 0 /\ Len(emitter) = 0 /\ Len(heads[Ix]) = 0
      /\ pc = "head" /\ subscribed = "no" /\ syncLevel = 1 /\ level[Ix] = 0 /\ ~draining[Ix]
      /\ rows[Ix] = [l \in Levels |-> NoRows]
  BY <1>1, NoElements DEF Init, NodeInit, Queue
<1>3. Len(blocks) = 1 /\ Len(chain) = 1 /\ chain[1] = 1
  BY DEF Init, NodeInit
<1>4. Heard = 1
  BY <1>2, <1>3 DEF Heard
<1>5. Straight
  BY <1>2, <1>3, <1>4 DEF Straight
<1>6. Lined /\ Authentic /\ NoRollbacks
  BY <1>2 DEF Lined, Authentic, NoRollbacks
<1>7. Ranged
  BY <1>2, <1>3 DEF Ranged
<1>8. Awaited
  BY <1>2 DEF Awaited, Reached
<1>9. Filled
  <2>1. \A l \in Levels : ~(l <= level[Ix])
    BY <1>2 DEF Levels
  <2> QED
    BY <1>2, <2>1 DEF Filled
<1> QED
  BY <1>1, <1>5, <1>6, <1>7, <1>8, <1>9 DEF SubstrateCanonized, Filling

(* and leaves the canonical rows when everything has been handled.          *)
LEMMA SubstrateQuiet ==
  ASSUME SubstrateCanonized
  PROVE  CanonicalWhenQuiet
<1>1. kinds = {Ix} /\ Ix = "finalized" /\ Ix \in Kinds /\ SubstrateTypes
  BY DEF SubstrateCanonized, SubstrateTypes, Kinds
<1> SUFFICES ASSUME Quiet, NEW l \in Levels PROVE rows[Ix][l] = Canonical(Ix, l)
  BY <1>1 DEF CanonicalWhenQuiet
<1>2. Straight /\ Awaited /\ Filled /\ Ranged
  BY DEF Quiet, SubstrateCanonized, Filling
<1>3. Counts
  BY <1>1, <1>2, CountsAre
<1>4. /\ emitter = <<>> /\ pc = "head" /\ heads[Ix] = <<>> /\ queue[Ix] = <<>>
      /\ level[Ix] >= syncLevel /\ subscribed = "yes"
  <2>1. Websockets
    BY <1>1 DEF Websockets
  <2> QED
    BY <1>1, <2>1 DEF Quiet
<1>5. Len(emitter) = 0 /\ Len(heads[Ix]) = 0 /\ Len(Queue) = 0
  BY <1>4, NoElements DEF Queue
<1>6. Heard = Len(chain)
  BY <1>3, <1>5 DEF Heard, Counts
<1>7. CASE l <= level[Ix]
  BY <1>2, <1>7 DEF Filled, Truth
<1>8. CASE l > level[Ix]
  <2>1. l \in Nat /\ rows[Ix][l] = NoRows
    BY <1>2, <1>3, <1>8 DEF Filled, Levels, Counts
  <2>2. l \notin 1 .. Len(chain)
    <3> SUFFICES ASSUME l \in 1 .. Len(chain) PROVE FALSE
      OBVIOUS
    <3>1. ~(l > Heard) /\ ~(l <= level[Ix]) /\ ~(l <= syncLevel)
      BY <1>3, <1>4, <1>6, <1>8, <2>1 DEF Counts
    <3>2. ~OnTheWay(l)
      BY <1>4, <1>5 DEF OnTheWay
    <3>3. ~Reached(l)
      BY <1>4, <3>1 DEF Reached
    <3> QED
      BY <1>2, <3>1, <3>2, <3>3 DEF Awaited
  <2>3. l \notin DOMAIN chain
    BY <1>1, <2>2 DEF SubstrateTypes, ChainTypes
  <2> QED
    BY <2>1, <2>3 DEF Canonical
<1> QED
  BY <1>3, <1>7, <1>8 DEF Counts, Levels

-----------------------------------------------------------------------------
(* A datasource that is polled: canonical rows.                             *)

PolledCanonized ==
  /\ PolledTypes /\ Filled
  /\ level[Ix] \in 0 .. Len(chain) /\ syncLevel \in 0 .. Len(chain)

(* The rows stay canonical: blocks are only replaced above the index.       *)
LEMMA PolledCanonizedKept ==
  ASSUME PolledCanonized, "unnoticed" \notin Hazards, [Next]_vars
  PROVE  PolledCanonized'
<1>1. /\ PolledTypes /\ PolledTypes' /\ Ix' = Ix /\ ChainTypes /\ ChainTypes'
      /\ IndexTypes /\ Ix \in Kinds /\ Len(chain) \in Nat
  BY PolledTypesKept, BlocksAre DEF PolledCanonized, PolledTypes, Kinds
<1>2. CASE \E to \in 0 .. MaxLevel : Change(to)
  <2>1. PICK to \in 0 .. MaxLevel : Change(to)
    BY <1>2
  <2>2. PICK full \in BOOLEAN : Minted(to, <<full>>)
    BY <1>1, <2>1, ChangeIs
  <2>3. /\ to \in 0 .. Len(chain) /\ UNCHANGED <<syncLevel, level, rows>>
        /\ to = Len(chain) \/ to >= Max({level[Ix], syncLevel})
    BY <1>1, <2>1, ChangeIs DEF indexVars
  <2>4. level[Ix] <= to /\ syncLevel <= to /\ level[Ix] \in Nat /\ syncLevel \in Nat
    <3>1. level[Ix] \in Int /\ syncLevel \in Int
      BY DEF PolledCanonized
    <3>2. Max({level[Ix], syncLevel}) >= level[Ix] /\ Max({level[Ix], syncLevel}) >= syncLevel
          /\ Max({level[Ix], syncLevel}) \in Int
      BY <3>1, MaxOfTwo
    <3> QED
      BY <1>1, <2>3, <3>1, <3>2 DEF PolledCanonized
  <2>5. /\ Len(chain') = to + 1 /\ \A l \in 1 .. to : chain'[l] = chain[l]
        /\ \A b \in Blocks : blocks'[b] = blocks[b]
    <3>1. Len(<<full>>) = 1
      OBVIOUS
    <3> QED
      BY <2>2, <3>1 DEF Minted, Blocks
  <2>6. ASSUME NEW l \in Levels, l <= level[Ix] PROVE Truth(l)' = Truth(l)
    <3>1. l \in 1 .. to /\ l \in 1 .. Len(chain) /\ l \in 1 .. Len(chain')
      BY <1>1, <2>3, <2>4, <2>5, <2>6 DEF Levels
    <3>2. l \in DOMAIN chain /\ l \in DOMAIN chain' /\ chain'[l] = chain[l] /\ chain[l] \in Blocks
      BY <1>1, <2>5, <3>1 DEF ChainTypes
    <3>3. blocks'[chain[l]] = blocks[chain[l]]
      BY <2>5, <3>2
    <3> QED
      BY <1>1, <3>2, <3>3 DEF Truth, Canonical, RowsOf
  <2>7. ASSUME NEW l \in Levels
        PROVE  rows'[Ix][l] = IF l <= level'[Ix] THEN Truth(l)' ELSE NoRows
    <3>1. CASE l <= level[Ix]
      BY <2>3, <2>6, <3>1 DEF PolledCanonized, Filled
    <3>2. CASE ~(l <= level[Ix])
      BY <2>3, <3>2 DEF PolledCanonized, Filled
    <3> QED
      BY <3>1, <3>2
  <2>8. Filled'
    BY <1>1, <2>7 DEF Filled
  <2>9. level'[Ix] \in 0 .. Len(chain') /\ syncLevel' \in 0 .. Len(chain')
    BY <2>3, <2>4, <2>5
  <2> QED
    BY <1>1, <2>8, <2>9 DEF PolledCanonized
<1>3. CASE CrashPolled \/ Spawn \/ Poll \/ UNCHANGED nodeVars
  <2>1. /\ UNCHANGED <<blocks, chain, level, rows>>
        /\ syncLevel' = syncLevel \/ syncLevel' \in 0 .. Len(chain)
    <3>1. CASE CrashPolled
      BY <1>1, <3>1 DEF CrashPolled, Restarted
    <3>2. CASE Spawn \/ Poll \/ UNCHANGED nodeVars
      BY <3>2 DEF Spawn, Poll, nodeVars, chainVars, feedVars, indexVars
    <3> QED
      BY <1>3, <3>1, <3>2
  <2>2. \A l : Truth(l)' = Truth(l)
    BY <1>1, <2>1, TruthStays
  <2>3. Filled'
    BY <1>1, <2>1, <2>2 DEF PolledCanonized, Filled
  <2>4. level'[Ix] \in 0 .. Len(chain') /\ syncLevel' \in 0 .. Len(chain')
    BY <2>1 DEF PolledCanonized
  <2> QED
    BY <1>1, <2>3, <2>4 DEF PolledCanonized
<1>4. CASE SynchronizePolled(Ix)
  <2>1. Synced
    BY <1>1, <1>4, IndexSteps DEF SynchronizePolled
  <2>2. /\ UNCHANGED <<blocks, chain, syncLevel>> /\ level[Ix] < syncLevel
        /\ level'[Ix] = syncLevel
        /\ \A l \in Levels : rows'[Ix][l] = IF level[Ix] < l /\ l <= syncLevel THEN Truth(l)
                                            ELSE rows[Ix][l]
    BY <2>1 DEF Synced, Untouched, Truth
  <2>3. \A l : Truth(l)' = Truth(l)
    BY <1>1, <2>2, TruthStays
  <2>4. ASSUME NEW l \in Levels
        PROVE  rows'[Ix][l] = IF l <= level'[Ix] THEN Truth(l)' ELSE NoRows
    <3>1. CASE level[Ix] < l /\ l <= syncLevel
      BY <2>2, <2>3, <3>1
    <3>2. CASE ~(level[Ix] < l /\ l <= syncLevel)
      <4>1. l <= level[Ix] <=> l <= syncLevel
        BY <2>2, <3>2 DEF PolledCanonized, Levels
      <4>2. rows'[Ix][l] = IF l <= level[Ix] THEN Truth(l) ELSE NoRows
        BY <2>2, <3>2 DEF PolledCanonized, Filled
      <4> QED
        BY <2>2, <2>3, <4>1, <4>2
    <3> QED
      BY <3>1, <3>2
  <2>5. Filled'
    BY <1>1, <2>4 DEF Filled
  <2>6. level'[Ix] \in 0 .. Len(chain') /\ syncLevel' \in 0 .. Len(chain')
    BY <2>2 DEF PolledCanonized
  <2> QED
    BY <1>1, <2>5, <2>6 DEF PolledCanonized
<1> QED
  BY <1>1, <1>2, <1>3, <1>4, PolledSteps

(* They are at first,                                                       *)
LEMMA PolledCanonizedStart ==
  ASSUME Init, ofPolled
  PROVE  PolledCanonized
<1>1. PolledTypes /\ Ix \in Kinds
  BY PolledTypesStart DEF PolledTypes, Kinds
<1>2. /\ level[Ix] = 0 /\ syncLevel = 1 /\ Len(chain) = 1
      /\ rows[Ix] = [l \in Levels |-> NoRows]
  BY <1>1 DEF Init, NodeInit
<1>3. \A l \in Levels : ~(l <= level[Ix])
  BY <1>2 DEF Levels
<1>4. Filled
  BY <1>2, <1>3 DEF Filled
<1> QED
  BY <1>1, <1>2, <1>4 DEF PolledCanonized

(* and are all there when the index has got to the head.                    *)
LEMMA PolledQuiet ==
  ASSUME PolledCanonized
  PROVE  CanonicalWhenQuiet
<1>1. kinds = {Ix} /\ PolledTypes /\ Filled /\ level[Ix] \in Int
  BY DEF PolledCanonized, PolledTypes
<1> SUFFICES ASSUME Quiet, NEW l \in Levels PROVE rows[Ix][l] = Canonical(Ix, l)
  BY <1>1 DEF CanonicalWhenQuiet
<1>2. level[Ix] = Len(chain)
  <2>1. ~Websockets
    BY <1>1 DEF Websockets, PolledTypes
  <2> QED
    BY <1>1, <2>1 DEF Quiet
<1>3. CASE l <= level[Ix]
  BY <1>1, <1>3 DEF Filled, Truth
<1>4. CASE ~(l <= level[Ix])
  <2>1. rows[Ix][l] = NoRows
    BY <1>1, <1>4 DEF Filled
  <2>2. l \notin DOMAIN chain
    BY <1>1, <1>2, <1>4 DEF PolledTypes, ChainTypes, Levels
  <2> QED
    BY <2>1, <2>2 DEF Canonical
<1> QED
  BY <1>3, <1>4

-----------------------------------------------------------------------------
(* Canonical rows in the end, whatever the system.                          *)

Canonicalized ==
  /\ ofEvm \/ ofSubstrate \/ ofPolled
  /\ ofEvm => Canonized
  /\ ofSubstrate => SubstrateCanonized
  /\ ofPolled => PolledCanonized

(* When everything has been handled the rows of every index are those of    *)
(* the canonical chain: of each block once, with all its logs, none of a    *)
(* block that has been replaced; in between connections may be lost, the    *)
(* process be killed, and blocks be replaced.                               *)
THEOREM EndsCanonical ==
  ASSUME {"both_kinds", "shorter", "stale_known", "backlog", "offline", "lost_rollback",
          "early_message", "late_logs", "lost_logs", "genesis", "gaps", "torn_answer",
          "unnoticed"} \intersect Hazards = {}
  PROVE  Spec => []CanonicalWhenQuiet
<1>1. Single /\ Faithful /\ Timely /\ "unnoticed" \notin Hazards
  BY DEF Single, Faithful, Attended, Timely
<1>2. Init => Canonicalized
  <2> SUFFICES ASSUME Init PROVE Canonicalized
    OBVIOUS
  <2>1. ofEvm \/ ofSubstrate \/ ofPolled
    BY Systems
  <2>2. ofEvm => Canonized
    BY <1>1, CanonizedStart
  <2>3. ofSubstrate => SubstrateCanonized
    BY SubstrateCanonizedStart
  <2>4. ofPolled => PolledCanonized
    BY PolledCanonizedStart
  <2> QED
    BY <2>1, <2>2, <2>3, <2>4 DEF Canonicalized
<1>3. Canonicalized /\ [Next]_vars => Canonicalized'
  <2> SUFFICES ASSUME Canonicalized, [Next]_vars PROVE Canonicalized'
    OBVIOUS
  <2>1. ofEvm' = ofEvm /\ ofSubstrate' = ofSubstrate /\ ofPolled' = ofPolled
    BY Systems
  <2>2. ofEvm => Canonized'
    BY <1>1, CanonizedKept DEF Canonicalized
  <2>3. ofSubstrate => SubstrateCanonized'
    BY <1>1, SubstrateCanonizedKept DEF Canonicalized
  <2>4. ofPolled => PolledCanonized'
    BY <1>1, PolledCanonizedKept DEF Canonicalized
  <2> QED
    BY <2>1, <2>2, <2>3, <2>4 DEF Canonicalized
<1>4. Canonicalized => CanonicalWhenQuiet
  BY CanonizedQuiet, SubstrateQuiet, PolledQuiet DEF Canonicalized
<1> QED
  BY <1>2, <1>3, <1>4, PTL DEF Spec

=============================================================================
