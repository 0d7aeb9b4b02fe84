----------------------- MODULE ModelVersioning_proofs -----------------------
(***************************************************************************)
(* Theorems about ModelVersioning, for every value of its constants.       *)
(***************************************************************************)
EXTENDS ModelVersioning, TLAPS

(* A DELETE update holds a whole row: reverting it puts the row back.       *)
DeletesHoldRows == \A u \in log \cup pending : u.action = "DELETE" => u.data \in Row

(* Only an open transaction has queued or reverted anything.                *)
IdleForgets == Idle => pending = {} /\ reverted = {}

TypeInv == TypeOK /\ DeletesHoldRows /\ IdleForgets

LEMMA LevelsNat == Levels \subseteq Nat /\ 0 \in Levels /\ NoLevel \notin Levels
  BY ConstantsAssumption DEF Levels, NoLevel

LEMMA NoTxType == NoTx \in Txs /\ NoTx.kind = "none"
  <1>1. (CHOOSE i \in Indexes : TRUE) \in Indexes
    BY ConstantsAssumption
  <1> QED
    BY <1>1, LevelsNat DEF NoTx, Txs

LEMMA DiffType ==
  ASSUME NEW orig \in Row, NEW cur \in Row
  PROVE  Diff(orig, cur) \in Data
  <1> DEFINE D == {g \in Fields : orig[g] # cur[g]}
  <1>1. D \in SUBSET Fields /\ Diff(orig, cur) \in [D -> Vals]
    BY DEF Diff, Row
  <1> QED
    BY <1>1 DEF Data

LEMMA RowIsData == Row \subseteq Data
  BY DEF Row, Data

LEMMA NoDataType == NoData \in Data
  <1>1. NoData \in [{} -> Vals]
    BY DEF NoData
  <1> QED
    BY <1>1 DEF Data

(* Queueing an update keeps the type of the queue and of the counter.       *)
LEMMA RecordType ==
  ASSUME TypeInv, NEW k \in Keys, NEW action \in Actions, NEW data \in Data,
         action = "DELETE" => data \in Row,
         tx.kind = "level", tx' = tx, log' = log,
         Record(k, action, data)
  PROVE  /\ pending' \subseteq Updates /\ nextId' \in 0 .. MaxUpdates
         /\ DeletesHoldRows'
  <1>1. CASE Recorded(k, action, data)
    <2> DEFINE u == NewUpdate(k, action, data)
    <2>1. nextId \in Nat /\ nextId + 1 \in 0 .. MaxUpdates
      BY <1>1, ConstantsAssumption DEF Record, TypeInv, TypeOK
    <2>2. u \in Updates
      BY <2>1 DEF NewUpdate, Updates, TypeInv, TypeOK, Txs
    <2>3. pending' = pending \cup {u} /\ nextId' = nextId + 1
      BY <1>1 DEF Record
    <2> HIDE DEF u
    <2>4. u.action = action /\ u.data = data
      BY DEF u, NewUpdate
    <2> QED
      BY <2>1, <2>2, <2>3, <2>4 DEF TypeInv, TypeOK, DeletesHoldRows
  <1>2. CASE ~Recorded(k, action, data)
    BY <1>2 DEF Record, TypeInv, TypeOK, DeletesHoldRows
  <1> QED
    BY <1>1, <1>2

LEMMA TypeInit == Init => TypeInv
  <1> SUFFICES ASSUME Init PROVE TypeInv
    OBVIOUS
  <1>1. nextId \in 0 .. MaxUpdates
    BY ConstantsAssumption DEF Init
  <1>2. tx \in Txs /\ Idle
    BY NoTxType DEF Init, Idle
  <1> QED
    BY <1>1, <1>2, LevelsNat DEF Init, TypeInv, TypeOK, DeletesHoldRows, IdleForgets

(* Steps of a handler: rows, queue, counter and originals change.           *)
LEMMA TypeHandler ==
  ASSUME TypeInv, HandlerStep
  PROVE  TypeInv'
  <1> PICK k \in Keys :
         \/ Load(k)
         \/ \E o \in Row, f \in Fields, v \in Vals : MutateInPlace(k, o, f, v)
         \/ \E r \in Row : Create(k, r)
         \/ \E o, r \in Row, W \in SUBSET Fields : Save(k, o, r, W)
         \/ \E r \in Row : Delete(k, r)
         \/ \E f \in Fields, v \in Vals : QueryUpdate(k, f, v)
         \/ QueryDelete(k)
         \/ \E r \in Row : BulkConflict(k, r)
    BY DEF HandlerStep
  <1> DEFINE Rest == /\ rows' = rows /\ log' = log /\ level' = level /\ tx' = tx
                     /\ reverted' = reverted /\ rolling' = rolling
                     /\ cutoff' = cutoff /\ seen' = seen /\ snap' = snap
                     /\ tx.kind = "level"
             Queue == /\ pending' \subseteq Updates /\ nextId' \in 0 .. MaxUpdates
                      /\ DeletesHoldRows'
             Tab == trows' \in [Keys -> Row \cup {NoRow}]
             Orig == originals' \in [Keys -> SUBSET Row]
  <1>0. ASSUME Rest, Queue, Tab, Orig
        PROVE  TypeInv'
    BY <1>0 DEF TypeInv, TypeOK, IdleForgets, Idle
  <1>1. CASE Load(k)
    <2>1. Rest
      BY <1>1 DEF Load, Tables, Writable
    <2>2. Queue
      BY <1>1 DEF Load, Tables, TypeInv, TypeOK, DeletesHoldRows
    <2>3. Tab /\ Orig
      BY <1>1 DEF Load, TypeInv, TypeOK
    <2> QED
      BY <1>0, <2>1, <2>2, <2>3
  <1>2. CASE \E o \in Row, f \in Fields, v \in Vals : MutateInPlace(k, o, f, v)
    <2> PICK o \in Row, f \in Fields, v \in Vals : MutateInPlace(k, o, f, v)
      BY <1>2
    <2>1. Rest
      BY DEF MutateInPlace, Tables, Writable
    <2>2. Queue
      BY DEF MutateInPlace, Tables, TypeInv, TypeOK, DeletesHoldRows
    <2>3. [o EXCEPT ![f] = v] \in Row
      BY DEF Row
    <2>4. Tab /\ Orig
      BY <2>3 DEF MutateInPlace, TypeInv, TypeOK
    <2> QED
      BY <1>0, <2>1, <2>2, <2>4
  <1>3. CASE \E r \in Row : Create(k, r)
    <2> PICK r \in Row : Create(k, r)
      BY <1>3
    <2>1. Rest
      BY DEF Create, Tables, Writable
    <2>2. Queue
      BY <2>1, RecordType, NoDataType DEF Create, Actions
    <2>3. Tab /\ Orig
      BY DEF Create, TypeInv, TypeOK
    <2> QED
      BY <1>0, <2>1, <2>2, <2>3
  <1>4. CASE \E o, r \in Row, W \in SUBSET Fields : Save(k, o, r, W)
    <2> PICK o \in Row, r \in Row, W \in SUBSET Fields : Save(k, o, r, W)
      BY <1>4
    <2>1. Rest
      BY DEF Save, Tables, Writable
    <2>2. Queue
      BY <2>1, RecordType, DiffType DEF Save, Actions
    <2>3. trows[k] \in Row
      BY DEF Save, TypeInv, TypeOK
    <2>4. [f \in Fields |-> IF f \in W THEN r[f] ELSE trows[k][f]] \in Row
      BY <2>3 DEF Row
    <2>5. Tab /\ Orig
      BY <2>4 DEF Save, TypeInv, TypeOK
    <2> QED
      BY <1>0, <2>1, <2>2, <2>5
  <1>5. CASE \E r \in Row : Delete(k, r)
    <2> PICK r \in Row : Delete(k, r)
      BY <1>5
    <2>1. Rest
      BY DEF Delete, Tables, Writable
    <2>2. Queue
      BY <2>1, RecordType, RowIsData DEF Delete, Actions
    <2>3. Tab /\ Orig
      BY DEF Delete, TypeInv, TypeOK
    <2> QED
      BY <1>0, <2>1, <2>2, <2>3
  <1>6. CASE \E f \in Fields, v \in Vals : QueryUpdate(k, f, v)
    <2> PICK f \in Fields, v \in Vals : QueryUpdate(k, f, v)
      BY <1>6
    <2> DEFINE new == [trows[k] EXCEPT ![f] = v]
    <2>1. Rest
      BY DEF QueryUpdate, Tables, Writable
    <2>2. trows[k] \in Row /\ new \in Row
      BY DEF QueryUpdate, TypeInv, TypeOK, Row
    <2>3. Queue
      BY <2>1, <2>2, RecordType, DiffType DEF QueryUpdate, Actions
    <2>4. Tab /\ Orig
      BY <2>2 DEF QueryUpdate, TypeInv, TypeOK
    <2> QED
      BY <1>0, <2>1, <2>3, <2>4
  <1>7. CASE QueryDelete(k)
    <2>1. Rest
      BY <1>7 DEF QueryDelete, Tables, Writable
    <2>2. trows[k] \in Row
      BY <1>7 DEF QueryDelete, TypeInv, TypeOK
    <2>3. Queue
      BY <1>7, <2>1, <2>2, RecordType, RowIsData DEF QueryDelete, Actions
    <2>4. Tab /\ Orig
      BY <1>7 DEF QueryDelete, TypeInv, TypeOK
    <2> QED
      BY <1>0, <2>1, <2>3, <2>4
  <1>8. CASE \E r \in Row : BulkConflict(k, r)
    <2> PICK r \in Row : BulkConflict(k, r)
      BY <1>8
    <2>1. Rest
      BY DEF BulkConflict, Tables, Writable
    <2>2. Queue
      BY <2>1, RecordType, NoDataType DEF BulkConflict, Actions
    <2>3. Tab /\ Orig
      BY DEF BulkConflict, TypeInv, TypeOK
    <2> QED
      BY <1>0, <2>1, <2>2, <2>3
  <1> QED
    BY <1>1, <1>2, <1>3, <1>4, <1>5, <1>6, <1>7, <1>8

LEMMA CloseTxType ==
  ASSUME TypeInv, CloseTx
  PROVE  /\ tx' \in Txs /\ tx'.kind = "none"
         /\ pending' = {} /\ reverted' = {}
         /\ originals' \in [Keys -> SUBSET Row]
  BY NoTxType DEF CloseTx, TypeInv, TypeOK

LEMMA RememberType ==
  ASSUME TypeInv, NEW i \in Indexes, NEW l \in Levels,
         NEW r \in [Keys -> Row \cup {NoRow}], Remember(i, l, r)
  PROVE  snap' \in [Keys -> [Levels -> Row \cup {NoRow}]]
  BY DEF Remember, TypeInv, TypeOK

LEMMA SeenType ==
  ASSUME TypeInv, NEW i \in Indexes, NEW sync \in Levels,
         seen' = [seen EXCEPT ![Chain[i]] = Max2(@, sync)]
  PROVE  seen' \in [Chains -> Levels]
  BY ConstantsAssumption DEF TypeInv, TypeOK, Max2

(* Steps of the dispatcher that process a level.                            *)
LEMMA TypeIndex ==
  ASSUME TypeInv, IndexStep
  PROVE  TypeInv'
  <1>1. ASSUME NEW i \in Indexes, NEW l \in Levels, NEW s \in Levels, BeginLevel(i, l, s)
        PROVE  TypeInv'
    <2>1. tx' \in Txs /\ ~Idle'
      BY <1>1, LevelsNat DEF BeginLevel, Txs, Versioned, Idle
    <2>2. seen' \in [Chains -> Levels]
      BY <1>1, SeenType DEF BeginLevel
    <2> QED
      BY <1>1, <2>1, <2>2 DEF BeginLevel, TypeInv, TypeOK, DeletesHoldRows, IdleForgets
  <1>2. ASSUME NEW i \in Indexes, NEW l \in Levels, NEW s \in Levels, SkipLevel(i, l, s)
        PROVE  TypeInv'
    <2>1. rows \in [Keys -> Row \cup {NoRow}]
      BY DEF TypeInv, TypeOK
    <2>2. snap' \in [Keys -> [Levels -> Row \cup {NoRow}]]
      BY <1>2, <2>1, RememberType DEF SkipLevel
    <2>3. seen' \in [Chains -> Levels]
      BY <1>2, SeenType DEF SkipLevel
    <2> QED
      BY <1>2, <2>2, <2>3
      DEF SkipLevel, TypeInv, TypeOK, DeletesHoldRows, IdleForgets, Idle
  <1>3. ASSUME CommitLevel
        PROVE  TypeInv'
    <2>1. tx.index \in Indexes /\ tx.level \in Levels
      BY DEF TypeInv, TypeOK, Txs
    <2>2. trows \in [Keys -> Row \cup {NoRow}]
      BY DEF TypeInv, TypeOK
    <2>3. snap' \in [Keys -> [Levels -> Row \cup {NoRow}]]
      BY <1>3, <2>1, <2>2, RememberType DEF CommitLevel
    <2>4. level' \in [Indexes -> Levels]
      BY <1>3, <2>1 DEF CommitLevel, TypeInv, TypeOK
    <2>5. DeletesHoldRows' /\ log' \subseteq Updates
      BY <1>3, CloseTxType DEF CommitLevel, TypeInv, TypeOK, DeletesHoldRows
    <2> QED
      BY <1>3, <2>2, <2>3, <2>4, <2>5, CloseTxType
      DEF CommitLevel, TypeInv, TypeOK, IdleForgets
  <1> QED
    BY <1>1, <1>2, <1>3 DEF IndexStep

LEMMA UndoneType ==
  ASSUME TypeInv, NEW u \in log, NEW row \in Row \cup {NoRow}
  PROVE  Undone(u, row) \in Row \cup {NoRow}
  <1>1. u.action \in Actions /\ u.data \in Data
    BY DEF TypeInv, TypeOK, Updates
  <1>2. CASE u.action = "INSERT"
    BY <1>2 DEF Undone
  <1>3. CASE u.action = "DELETE"
    BY <1>3 DEF Undone, TypeInv, DeletesHoldRows
  <1>4. CASE u.action = "UPDATE" /\ row = NoRow
    BY <1>4 DEF Undone
  <1>5. CASE u.action = "UPDATE" /\ row # NoRow
    <2>1. PICK D \in SUBSET Fields : u.data \in [D -> Vals]
      BY <1>1 DEF Data
    <2>2. row \in [Fields -> Vals]
      BY <1>5 DEF Row
    <2>3. [f \in Fields |-> IF f \in DOMAIN u.data THEN u.data[f] ELSE row[f]]
             \in [Fields -> Vals]
      BY <2>1, <2>2
    <2> QED
      BY <1>5, <2>3 DEF Undone, Row
  <1> QED
    BY <1>1, <1>2, <1>3, <1>4, <1>5 DEF Actions

LEMMA TypeRollback ==
  ASSUME TypeInv, RollbackStep
  PROVE  TypeInv'
  <1>1. ASSUME NEW i \in Indexes, NEW from \in Levels, NEW to \in Levels,
               BeginRollback(i, from, to)
        PROVE  TypeInv'
    <2>1. tx' \in Txs /\ ~Idle'
      BY <1>1 DEF BeginRollback, Txs, Idle
    <2> QED
      BY <1>1, <2>1 DEF BeginRollback, TypeInv, TypeOK, DeletesHoldRows, IdleForgets
  <1>2. ASSUME NEW i \in Indexes, NEW from \in Levels, NEW to \in Levels,
               Reindex(i, from, to)
        PROVE  TypeInv'
    <2>1. rows' \in [Keys -> Row \cup {NoRow}]
      BY <1>2 DEF Reindex, TypeInv, TypeOK
    <2>2. snap' \in [Keys -> [Levels -> Row \cup {NoRow}]]
      BY <1>2, <2>1 DEF Reindex
    <2>3. Idle /\ pending = {} /\ reverted = {}
      BY <1>2 DEF Reindex, RollbackAsked, TypeInv, IdleForgets
    <2> QED
      BY <1>2, <2>1, <2>2, <2>3, LevelsNat
      DEF Reindex, TypeInv, TypeOK, DeletesHoldRows, IdleForgets, Idle
  <1>3. ASSUME RevertOne
        PROVE  TypeInv'
    <2> PICK u \in ToRevert : /\ trows' = [trows EXCEPT ![u.key] = Undone(u, @)]
                              /\ reverted' = reverted \cup {u}
      BY <1>3 DEF RevertOne
    <2>1. u \in log
      BY DEF ToRevert
    <2>2. u.key \in Keys
      BY <2>1 DEF TypeInv, TypeOK, Updates
    <2>3. trows[u.key] \in Row \cup {NoRow}
      BY <2>2 DEF TypeInv, TypeOK
    <2>4. trows' \in [Keys -> Row \cup {NoRow}]
      BY <2>1, <2>3, UndoneType DEF TypeInv, TypeOK
    <2> QED
      BY <1>3, <2>1, <2>4
      DEF RevertOne, TypeInv, TypeOK, DeletesHoldRows, IdleForgets, Idle
  <1>4. ASSUME CommitRollback
        PROVE  TypeInv'
    <2>1. rolling' \in [Indexes -> Levels \cup {NoLevel}]
      BY <1>4 DEF CommitRollback, TypeInv, TypeOK, Txs
    <2> QED
      BY <1>4, <2>1, CloseTxType
      DEF CommitRollback, TypeInv, TypeOK, DeletesHoldRows, IdleForgets
  <1>5. ASSUME NEW i \in Indexes, MoveLevel(i)
        PROVE  TypeInv'
    BY <1>5 DEF MoveLevel, TypeInv, TypeOK, DeletesHoldRows, IdleForgets, Idle
  <1> QED
    BY <1>1, <1>2, <1>3, <1>4, <1>5 DEF RollbackStep

LEMMA TypeCleanup ==
  ASSUME TypeInv, CleanupStep
  PROVE  TypeInv'
  <1>1. CASE CleanupRead
    <2>1. cutoff' \in Levels
      <3> PICK i \in Indexes : level[i] > Depth /\ cutoff' = level[i] - Depth
        BY <1>1 DEF CleanupRead
      <3>1. level[i] \in 0 .. MaxLevel
        BY DEF TypeInv, TypeOK, Levels
      <3> QED
        BY <3>1, ConstantsAssumption DEF Levels
    <2> QED
      BY <1>1, <2>1 DEF CleanupRead, TypeInv, TypeOK, DeletesHoldRows, IdleForgets, Idle
  <1>2. CASE CleanupDelete
    BY <1>2 DEF CleanupDelete, TypeInv, TypeOK, DeletesHoldRows, IdleForgets, Idle
  <1> QED
    BY <1>1, <1>2 DEF CleanupStep

LEMMA TypeCrash ==
  ASSUME TypeInv, Crash
  PROVE  TypeInv'
  BY NoTxType DEF Crash, TypeInv, TypeOK, DeletesHoldRows, IdleForgets

LEMMA TypeStep == TypeInv /\ [Next]_vars => TypeInv'
  <1>1. ASSUME TypeInv, UNCHANGED vars
        PROVE  TypeInv'
    BY <1>1 DEF vars, TypeInv, TypeOK, DeletesHoldRows, IdleForgets, Idle
  <1> QED
    BY <1>1, TypeHandler, TypeIndex, TypeRollback, TypeCleanup, TypeCrash DEF Next

(* Type correctness: rows, model updates, transactions and levels are       *)
(* always what the code can store in them.                                  *)
THEOREM TypeCorrect == Spec => []TypeOK
  <1>1. TypeInv => TypeOK
    BY DEF TypeInv
  <1> QED
    BY <1>1, TypeInit, TypeStep, PTL DEF Spec

-----------------------------------------------------------------------------
(* The plain case: handlers use none of the idioms the code does not        *)
(* version, rollback messages start from the index level, the process does  *)
(* not die between the two halves of a rollback and every index follows the *)
(* same chain.  The README says what TLC finds without each of these.       *)
Plain ==
  /\ Unsafe = {} /\ Cached = {}
  /\ HeadLag = 0 /\ TooDeep # "ignore"
  /\ "reverted" \notin CrashPoints
  /\ \A i, j \in Indexes : Chain[i] = Chain[j]

Known == log \cup pending

(* What one update says about itself.                                       *)
UpdatesFit ==
  /\ \A u \in Known : /\ u.id < nextId
                      /\ u.index = Owner[u.key] /\ u.key \notin Immune
                      /\ u.action = "INSERT" => u.data = NoData
  /\ \A u \in log : u.level <= At(u.index)
  /\ \A u \in pending : /\ tx.kind = "level" /\ tx.versioned
                        /\ u.index = tx.index /\ u.level = tx.level

(* Ids order the updates, and higher levels of an index have higher ids.    *)
IdsOrder ==
  \A u, v \in Known : /\ u.id = v.id => u = v
                      /\ u.index = v.index /\ u.level < v.level => u.id < v.id

(* What the open transaction may hold.                                      *)
TxFits ==
  /\ tx.kind = "none" => trows = rows
  /\ tx.kind # "level" => pending = {} /\ originals = [k \in Keys |-> {}]
  /\ tx.kind # "rollback" => reverted = {}
  /\ tx.kind # "none" =>
       /\ rolling[tx.index] = NoLevel
       /\ \A k \in Keys : Owner[k] # tx.index => trows[k] = rows[k]
  /\ tx.kind = "level" =>
       /\ level[tx.index] < tx.level /\ tx.level <= seen[Chain[tx.index]]
       /\ tx.versioned \/ Depth = 0 \/ tx.level < seen[Chain[tx.index]] - Depth
  /\ tx.kind = "rollback" =>
       /\ tx.level < level[tx.index] /\ level[tx.index] <= tx.from
       /\ seen[Chain[tx.index]] - Depth <= tx.level
       /\ \A u \in reverted : u.index = tx.index /\ tx.level < u.level
       /\ \A k \in Immune : trows[k] = rows[k]

(* No level is above the highest head seen, no cutoff reaches a level that  *)
(* may still be rolled back to.                                             *)
LevelsFit ==
  \A i \in Indexes :
    /\ level[i] <= seen[Chain[i]]
    /\ rolling[i] # NoLevel => rolling[i] < level[i]
    /\ cutoff # NoLevel => cutoff <= seen[Chain[i]] - Depth

(* The levels a row can be taken back to: where it stands and every level   *)
(* below that the chain may return to.                                      *)
Reverts(i, l) == l = At(i) \/ Reachable(i, l)

CommittedReverts ==
  \A k \in Keys \ Immune : \A l \in Levels :
    Reverts(Owner[k], l) => Undoes(log, k, l, rows[k])

(* What a handler remembers of a field no update mentions is its old value. *)
Remembers(U, k, l) ==
  \A o \in originals[k] : \A f \in Fields :
    snap[k][l] # NoRow /\ Untouched(After(U, k, l), f) => o[f] = snap[k][l][f]

LevelReverts ==
  tx.kind = "level" /\ tx.versioned =>
    \A k \in Keys \ Immune : Owner[k] = tx.index =>
      \A l \in Levels : Reverts(tx.index, l) =>
        Undoes(Known, k, l, trows[k]) /\ Remembers(Known, k, l)

RollbackReverts ==
  tx.kind = "rollback" =>
    \A k \in Keys \ Immune : Owner[k] = tx.index =>
      \A l \in Levels : l <= tx.level /\ Reachable(tx.index, l) =>
        Undoes(log \ reverted, k, l, trows[k])

(* The inductive invariant.                                                 *)
Inv ==
  /\ TypeInv
  /\ UpdatesFit /\ IdsOrder /\ TxFits /\ LevelsFit
  /\ CommittedReverts /\ LevelReverts /\ RollbackReverts

-----------------------------------------------------------------------------
(* The algebra of TakesBack: recording a change, making one that needs no   *)
(* record, reverting the newest update.                                     *)

(* A change recorded by the newest update u.                                *)
LEMMA TakesBackRecorded ==
  ASSUME NEW S \in SUBSET Updates, NEW u \in Updates,
         NEW row, NEW new, NEW old,
         TakesBack(S, row, old),
         \A v \in S : v.id < u.id,
         u.action = "INSERT" <=> row = NoRow,
         u.action = "DELETE" => DOMAIN u.data = Fields,
         u.action = "UPDATE" => new # NoRow,
         old # NoRow => \A f \in Fields : Untouched(S, f) =>
           IF Touches(u, f) THEN u.data[f] = old[f]
           ELSE u.action = "UPDATE" => new[f] = old[f]
  PROVE  TakesBack(S \cup {u}, new, old)
  <1> DEFINE R == S \cup {u}
  <1>0. /\ \A v \in R : v.id \in Nat /\ v.action \in Actions
        /\ u \in R /\ u \notin S
    BY DEF Updates
  <1>1. R # {}
    OBVIOUS
  <1>2. ASSUME NEW v \in R, Oldest(v, R)
        PROVE  v.action = "INSERT" <=> old = NoRow
    <2>1. CASE v = u
      <3>1. S = {}
        BY <1>0, <1>2, <2>1 DEF Oldest
      <3> QED
        BY <2>1, <3>1 DEF TakesBack
    <2>2. CASE v \in S
      BY <1>2, <2>2 DEF Oldest, TakesBack
    <2> QED
      BY <2>1, <2>2
  <1>3. ASSUME old # NoRow, \A v \in R : v.action # "DELETE"
        PROVE  new # NoRow /\ \A v \in R : v.action # "INSERT"
    <2>1. row # NoRow /\ \A v \in S : v.action # "INSERT"
      BY <1>3 DEF TakesBack
    <2>2. u.action = "UPDATE"
      BY <1>0, <1>3, <2>1 DEF Actions
    <2> QED
      BY <2>1, <2>2
  <1>4. ASSUME old # NoRow, NEW v \in R, v.action = "INSERT"
        PROVE  \E w \in R : w.action = "DELETE" /\ w.id < v.id
    <2>1. CASE v = u
      <3>1. \E w \in S : w.action = "DELETE"
        BY <1>4, <2>1 DEF TakesBack
      <3> QED
        BY <2>1, <3>1
    <2>2. CASE v \in S
      BY <1>4, <2>2 DEF TakesBack
    <2> QED
      BY <2>1, <2>2
  <1>5. ASSUME old # NoRow, NEW f \in Fields, Untouched(R, f)
        PROVE  new # NoRow /\ new[f] = old[f]
    <2>1. Untouched(S, f) /\ ~Touches(u, f)
      BY <1>5 DEF Untouched
    <2>2. row # NoRow
      BY <1>5, <2>1 DEF TakesBack
    <2>3. u.action = "UPDATE"
      BY <1>0, <2>1, <2>2 DEF Actions, Touches
    <2> QED
      BY <1>5, <2>1, <2>3
  <1>6. ASSUME old # NoRow, NEW f \in Fields, NEW v \in R, Touches(v, f),
               \A w \in R : Touches(w, f) => v.id <= w.id
        PROVE  v.data[f] = old[f]
    <2>1. CASE v = u
      <3>1. Untouched(S, f)
        BY <1>0, <1>6, <2>1 DEF Untouched
      <3> QED
        BY <1>6, <2>1, <3>1
    <2>2. CASE v \in S
      BY <1>6, <2>2 DEF TakesBack
    <2> QED
      BY <2>1, <2>2
  <1> HIDE DEF R
  <1>7. TakesBack(R, new, old)
    BY <1>1, <1>2, <1>3, <1>4, <1>5, <1>6 DEF TakesBack
  <1> QED
    BY <1>7 DEF R

(* A change of a row that keeps the fields no update mentions.              *)
LEMMA TakesBackUnrecorded ==
  ASSUME NEW S, NEW row \in Row, NEW new \in Row, NEW old \in Row \cup {NoRow},
         TakesBack(S, row, old),
         old # NoRow => \A f \in Fields : Untouched(S, f) => new[f] = old[f]
  PROVE  TakesBack(S, new, old)
  <1>0. row # NoRow /\ new # NoRow
    BY ConstantsAssumption
  <1>1. ASSUME S = {} PROVE new = old
    <2>1. old \in Row /\ old # NoRow
      BY <1>0, <1>1 DEF TakesBack
    <2>2. \A f \in Fields : new[f] = old[f]
      BY <1>1, <2>1 DEF Untouched
    <2> QED
      BY <2>1, <2>2 DEF Row
  <1> QED
    BY <1>0, <1>1 DEF TakesBack

(* Reverting the newest update.                                             *)
LEMMA TakesBackReverted ==
  ASSUME NEW S \in SUBSET Updates, NEW u \in S,
         NEW row \in Row \cup {NoRow}, NEW old \in Row \cup {NoRow},
         TakesBack(S, row, old),
         \A v \in S : v # u => v.id < u.id,
         u.action = "INSERT" => u.data = NoData,
         \A v \in S : v.action = "DELETE" => v.data \in Row
  PROVE  TakesBack(S \ {u}, Undone(u, row), old)
  <1> DEFINE R == S \ {u}
             new == Undone(u, row)
  <1>0. /\ \A v \in S : v.id \in Nat /\ v.action \in Actions
        /\ \A v \in S : v.action = "DELETE" => DOMAIN v.data = Fields
        /\ NoRow \notin Row
    BY ConstantsAssumption DEF Updates, Row
  <1>a. u.action = "INSERT" => new = NoRow /\ \A f \in Fields : ~Touches(u, f)
    BY DEF Undone, Touches, NoData
  <1>b. u.action = "DELETE" => /\ new = u.data /\ new \in Row
                               /\ \A f \in Fields : Touches(u, f)
    BY DEF Undone, Touches, Row
  <1>c. u.action = "UPDATE" /\ row # NoRow =>
          /\ new \in [Fields -> Vals] /\ new # NoRow
          /\ \A f \in Fields : new[f] = IF Touches(u, f) THEN u.data[f] ELSE row[f]
    <2> SUFFICES ASSUME u.action = "UPDATE", row # NoRow
                 PROVE  /\ new \in [Fields -> Vals] /\ new # NoRow
                        /\ \A f \in Fields : new[f] = IF Touches(u, f) THEN u.data[f] ELSE row[f]
      OBVIOUS
    <2>1. new = [f \in Fields |-> IF f \in DOMAIN u.data THEN u.data[f] ELSE row[f]]
      BY DEF Undone
    <2>2. PICK D \in SUBSET Fields : u.data \in [D -> Vals]
      BY DEF Updates, Data
    <2>3. row \in [Fields -> Vals]
      BY DEF Row
    <2>4. new \in [Fields -> Vals]
      BY <2>1, <2>2, <2>3
    <2> QED
      BY <1>0, <2>1, <2>4 DEF Touches, Row
  <1> HIDE DEF new
  <1>1. ASSUME R = {} PROVE new = old
    <2>0. S = {u} /\ Oldest(u, S)
      BY <1>0, <1>1 DEF Oldest
    <2>1. u.action = "INSERT" <=> old = NoRow
      BY <2>0 DEF TakesBack
    <2>2. CASE u.action = "INSERT"
      BY <1>a, <2>1, <2>2
    <2>3. CASE u.action # "INSERT"
      <3>1. old # NoRow /\ old \in [Fields -> Vals]
        BY <2>1, <2>3 DEF Row
      <3>2. u.action = "UPDATE" => row # NoRow
        BY <2>0, <3>1 DEF TakesBack
      <3>3. new \in [Fields -> Vals]
        BY <1>0, <1>b, <1>c, <2>3, <3>2 DEF Actions, Row
      <3>4. ASSUME NEW f \in Fields PROVE new[f] = old[f]
        <4>1. CASE Touches(u, f)
          <5>1. u.data[f] = old[f]
            BY <1>0, <2>0, <3>1, <4>1 DEF TakesBack
          <5> QED
            BY <1>0, <1>b, <1>c, <2>3, <3>2, <4>1, <5>1 DEF Actions
        <4>2. CASE ~Touches(u, f)
          <5>1. Untouched(S, f)
            BY <2>0, <4>2 DEF Untouched
          <5>2. row[f] = old[f]
            BY <3>1, <5>1 DEF TakesBack
          <5> QED
            BY <1>0, <1>b, <1>c, <2>3, <3>2, <4>2, <5>2 DEF Actions
        <4> QED
          BY <4>1, <4>2
      <3> QED
        BY <3>1, <3>3, <3>4
    <2> QED
      BY <2>2, <2>3
  <1>2. ASSUME NEW v \in R, Oldest(v, R)
        PROVE  v.action = "INSERT" <=> old = NoRow
    <2>1. Oldest(v, S)
      BY <1>0, <1>2 DEF Oldest
    <2> QED
      BY <2>1 DEF TakesBack
  <1>3. ASSUME old # NoRow, \A v \in R : v.action # "DELETE"
        PROVE  new # NoRow /\ \A v \in R : v.action # "INSERT"
    <2>1. CASE u.action = "DELETE"
      <3>1. \A v \in R : v.action # "INSERT"
        <4> SUFFICES ASSUME NEW v \in R, v.action = "INSERT" PROVE FALSE
          OBVIOUS
        <4>1. PICK w \in S : w.action = "DELETE" /\ w.id < v.id
          BY <1>3 DEF TakesBack
        <4>2. w # u
          BY <1>0, <4>1
        <4> QED
          BY <1>3, <4>1, <4>2
      <3> QED
        BY <1>0, <1>b, <2>1, <3>1
    <2>2. CASE u.action # "DELETE"
      <3>1. row # NoRow /\ \A v \in S : v.action # "INSERT"
        BY <1>3, <2>2 DEF TakesBack
      <3>2. u.action = "UPDATE"
        BY <1>0, <2>2, <3>1 DEF Actions
      <3> QED
        BY <1>c, <3>1, <3>2
    <2> QED
      BY <2>1, <2>2
  <1>4. ASSUME old # NoRow, NEW v \in R, v.action = "INSERT"
        PROVE  \E w \in R : w.action = "DELETE" /\ w.id < v.id
    <2>1. PICK w \in S : w.action = "DELETE" /\ w.id < v.id
      BY <1>4 DEF TakesBack
    <2>2. w # u
      BY <1>0, <2>1
    <2> QED
      BY <2>1, <2>2
  <1>5. ASSUME old # NoRow, NEW f \in Fields, Untouched(R, f)
        PROVE  new # NoRow /\ new[f] = old[f]
    <2>0. \A v \in R : v.action # "DELETE"
      BY <1>0, <1>5 DEF Untouched, Touches
    <2>1. u.action # "DELETE" => row # NoRow /\ u.action = "UPDATE"
      <3> SUFFICES ASSUME u.action # "DELETE"
                   PROVE  row # NoRow /\ u.action = "UPDATE"
        OBVIOUS
      <3>1. \A v \in S : v.action # "DELETE"
        BY <2>0
      <3>2. row # NoRow /\ u.action # "INSERT"
        BY <1>5, <3>1 DEF TakesBack
      <3> QED
        BY <1>0, <3>2 DEF Actions
    <2>2. CASE Touches(u, f)
      <3>1. \A w \in S : Touches(w, f) => u.id <= w.id
        BY <1>0, <1>5 DEF Untouched
      <3>2. u.data[f] = old[f]
        BY <1>5, <2>2, <3>1 DEF TakesBack
      <3> QED
        BY <1>0, <1>b, <1>c, <2>1, <2>2, <3>2
    <2>3. CASE ~Touches(u, f)
      <3>1. Untouched(S, f)
        BY <1>5, <2>3 DEF Untouched
      <3>2. row[f] = old[f]
        BY <1>5, <3>1 DEF TakesBack
      <3> QED
        BY <1>b, <1>c, <2>1, <2>3, <3>2
    <2> QED
      BY <2>2, <2>3
  <1>6. ASSUME old # NoRow, NEW f \in Fields, NEW v \in R, Touches(v, f),
               \A w \in R : Touches(w, f) => v.id <= w.id
        PROVE  v.data[f] = old[f]
    <2>1. \A w \in S : Touches(w, f) => v.id <= w.id
      BY <1>0, <1>6
    <2> QED
      BY <1>6, <2>1 DEF TakesBack
  <1> HIDE DEF R
  <1>7. TakesBack(R, new, old)
    BY <1>1, <1>2, <1>3, <1>4, <1>5, <1>6 DEF TakesBack
  <1> QED
    BY <1>7 DEF R, new

LEMMA TakesBackNothing ==
  ASSUME NEW old
  PROVE  TakesBack({}, old, old)
  BY DEF TakesBack, Untouched

-----------------------------------------------------------------------------
(* The invariant, action by action.                                         *)

(* With nothing above it, the committed tables are where they stand.        *)
LEMMA Current ==
  ASSUME Inv, NEW k \in Keys \ Immune
  PROVE  rows[k] = snap[k][At(Owner[k])]
  <1>1. Owner[k] \in Indexes
    BY ConstantsAssumption
  <1>2. At(Owner[k]) \in Levels
    BY <1>1 DEF Inv, TypeInv, TypeOK, At
  <1>3. After(log, k, At(Owner[k])) = {}
    <2> SUFFICES ASSUME NEW u \in log, u.key = k, u.level > At(Owner[k])
                 PROVE  FALSE
      BY DEF After
    <2>1. u.level <= At(Owner[k])
      BY DEF Inv, UpdatesFit, Known
    <2>2. u.level \in Nat /\ At(Owner[k]) \in Nat
      BY <1>2, LevelsNat DEF Inv, TypeInv, TypeOK, Updates
    <2> QED
      BY <2>1, <2>2
  <1>4. Undoes(log, k, At(Owner[k]), rows[k])
    BY <1>2 DEF Inv, CommittedReverts, Reverts
  <1> QED
    BY <1>3, <1>4 DEF Undoes, TakesBack

LEMMA CurrentRows == Inv => TablesMatchLevel
  BY Current DEF TablesMatchLevel

LEMMA CurrentNext == Inv' => TablesMatchLevel'
  BY CurrentRows, PTL

LEMMA InvInit == Init => Inv
  <1> SUFFICES ASSUME Init PROVE Inv
    OBVIOUS
  <1>1. TypeInv
    BY TypeInit
  <1>2. tx.kind = "none"
    BY NoTxType DEF Init
  <1>3. UpdatesFit /\ IdsOrder
    BY DEF Init, UpdatesFit, IdsOrder, Known
  <1>4. TxFits
    BY <1>2 DEF Init, TxFits
  <1>5. LevelsFit
    <2>1. ASSUME NEW i \in Indexes
          PROVE  level[i] <= seen[Chain[i]] /\ rolling[i] = NoLevel
      <3>1. Chain[i] \in Chains
        BY ConstantsAssumption
      <3>2. level[i] = 0 /\ seen[Chain[i]] = 0
        BY <3>1 DEF Init
      <3> QED
        BY <3>2 DEF Init
    <2>2. ~(cutoff # NoLevel)
      BY DEF Init
    <2> QED
      BY <2>1, <2>2, Zenon DEF LevelsFit
  <1>6. CommittedReverts
    <2> SUFFICES ASSUME NEW k \in Keys \ Immune, NEW l \in Levels
                 PROVE  Undoes(log, k, l, rows[k])
      BY DEF CommittedReverts
    <2>1. After(log, k, l) = {} /\ rows[k] = NoRow /\ snap[k][l] = NoRow
      BY DEF Init, After
    <2> QED
      BY <2>1, TakesBackNothing DEF Undoes
  <1>7. LevelReverts /\ RollbackReverts
    BY <1>2 DEF LevelReverts, RollbackReverts
  <1> QED
    BY <1>1, <1>3, <1>4, <1>5, <1>6, <1>7 DEF Inv

(* A write of a handler: key k gets a new row, one update may be queued,    *)
(* and the pair still takes the row back to every level it has to.          *)
LEMMA HandlerFrame ==
  ASSUME Inv, TypeInv', NEW k \in Keys, Writable(k), UNCHANGED Tables,
         \A j \in Keys : j # k => trows'[j] = trows[j] /\ originals'[j] = originals[j],
         \/ pending' = pending /\ nextId' = nextId
         \/ \E action \in Actions, data \in Data :
              /\ Recorded(k, action, data)
              /\ pending' = pending \cup {NewUpdate(k, action, data)}
              /\ nextId' = nextId + 1
              /\ action = "INSERT" => data = NoData,
         tx.versioned /\ k \notin Immune =>
           \A l \in Levels : Reverts(tx.index, l) =>
             Undoes(Known', k, l, trows'[k]) /\ Remembers(Known, k, l)'
  PROVE  Inv'
  <1>0. /\ tx.kind = "level" /\ Owner[k] = tx.index
        /\ rows' = rows /\ log' = log /\ level' = level /\ tx' = tx
        /\ reverted' = reverted /\ rolling' = rolling /\ cutoff' = cutoff
        /\ seen' = seen /\ snap' = snap
    BY DEF Writable, Tables
  <1>1. \A u \in pending' : \/ u \in pending
                            \/ /\ u.id = nextId /\ u.key = k /\ u.index = tx.index
                               /\ u.level = tx.level /\ k \notin Immune /\ tx.versioned
                               /\ u.action = "INSERT" => u.data = NoData
                               /\ nextId' = nextId + 1
    BY DEF NewUpdate, Recorded
  <1>2. /\ pending \subseteq pending' /\ nextId <= nextId'
        /\ nextId \in Nat /\ nextId' \in Nat
        /\ \A u \in Known : u.id \in Nat /\ u.level \in Nat
        /\ tx.level \in Nat
    <2>1. nextId \in Nat /\ nextId' \in Nat
      BY ConstantsAssumption DEF Inv, TypeInv, TypeOK
    <2>2. pending \subseteq pending' /\ nextId <= nextId'
      BY <2>1
    <2>3. tx.level \in Nat /\ \A u \in Known : u.id \in Nat /\ u.level \in Nat
      BY LevelsNat DEF Inv, TypeInv, TypeOK, Known, Updates, Txs
    <2> QED
      BY <2>1, <2>2, <2>3
  <1>3. \A u, v \in pending' : u \notin pending /\ v \notin pending => u = v
    OBVIOUS
  <1>4. UpdatesFit'
    BY <1>0, <1>1, <1>2 DEF Inv, UpdatesFit, Known, At
  <1>5. \A u \in Known : u.index = tx.index => u.level <= tx.level
    <2> SUFFICES ASSUME NEW u \in Known, u.index = tx.index
                 PROVE  u.level <= tx.level
      OBVIOUS
    <2>1. CASE u \in pending
      BY <1>2, <2>1 DEF Inv, UpdatesFit
    <2>2. CASE u \in log
      <3>1. u.level <= level[tx.index]
        BY <1>0, <2>2 DEF Inv, UpdatesFit, TxFits, At
      <3>2. level[tx.index] < tx.level /\ level[tx.index] \in Nat
        BY <1>0, LevelsNat DEF Inv, TxFits, TypeInv, TypeOK, Txs
      <3> QED
        BY <1>2, <3>1, <3>2
    <2> QED
      BY <2>1, <2>2 DEF Known
  <1>6. IdsOrder'
    <2> SUFFICES ASSUME NEW u \in Known', NEW v \in Known'
                 PROVE  /\ u.id = v.id => u = v
                        /\ u.index = v.index /\ u.level < v.level => u.id < v.id
      BY DEF IdsOrder
    <2>1. \A w \in Known' : \/ w \in Known /\ w.id < nextId
                            \/ /\ w \in pending' /\ w \notin pending
                               /\ w.id = nextId /\ w.level = tx.level /\ w.index = tx.index
      BY <1>0, <1>1 DEF Inv, UpdatesFit, Known
    <2>2. CASE u \in Known /\ v \in Known
      BY <2>2 DEF Inv, IdsOrder
    <2>3. CASE u \in Known /\ v \notin Known
      BY <1>2, <1>5, <2>1, <2>3
    <2>4. CASE u \notin Known /\ v \in Known
      BY <1>2, <1>5, <2>1, <2>4
    <2>5. CASE u \notin Known /\ v \notin Known
      BY <1>2, <1>3, <2>1, <2>5
    <2> QED
      BY <2>2, <2>3, <2>4, <2>5
  <1>7. TxFits' /\ LevelsFit'
    BY <1>0, <1>2 DEF Inv, TxFits, LevelsFit
  <1>8. CommittedReverts'
    BY <1>0 DEF Inv, CommittedReverts, Undoes, Reverts, Reachable, At
  <1>9. LevelReverts'
    <2> SUFFICES ASSUME tx.versioned, NEW j \in Keys \ Immune, Owner[j] = tx.index,
                        NEW l \in Levels, Reverts(tx.index, l)
                 PROVE  Undoes(Known', j, l, trows'[j]) /\ Remembers(Known, j, l)'
      BY <1>0 DEF LevelReverts, Reverts, Reachable, At, Undoes
    <2>1. CASE j = k
      BY <2>1
    <2>2. CASE j # k
      <3>1. After(Known', j, l) = After(Known, j, l)
        BY <1>0, <1>1, <1>2, <2>2 DEF After, Known
      <3>2. Undoes(Known, j, l, trows[j]) /\ Remembers(Known, j, l)
        BY <1>0 DEF Inv, LevelReverts
      <3> QED
        BY <1>0, <2>2, <3>1, <3>2 DEF Undoes, Remembers
    <2> QED
      BY <2>1, <2>2
  <1>10. RollbackReverts'
    BY <1>0 DEF RollbackReverts
  <1> QED
    BY <1>4, <1>6, <1>7, <1>8, <1>9, <1>10 DEF Inv

(* What recording a change of row k does to the updates above a level.      *)
LEMMA Recording ==
  ASSUME Inv, NEW k \in Keys \ Immune, Writable(k), tx.versioned,
         NEW action \in Actions, NEW data \in Data, NEW l \in Levels,
         Reverts(tx.index, l),
         log' = log, snap' = snap,
         pending' = pending \cup {NewUpdate(k, action, data)},
         action = "INSERT" <=> trows[k] = NoRow,
         action = "DELETE" => DOMAIN data = Fields,
         action = "UPDATE" => trows'[k] # NoRow,
         snap[k][l] # NoRow =>
           \A f \in Fields : Untouched(After(Known, k, l), f) =>
             IF f \in DOMAIN data THEN data[f] = snap[k][l][f]
             ELSE action = "UPDATE" => trows'[k][f] = snap[k][l][f]
  PROVE  /\ Undoes(Known', k, l, trows'[k])
         /\ \A f \in Fields : Untouched(After(Known', k, l), f) =>
              Untouched(After(Known, k, l), f)
  <1> DEFINE u == NewUpdate(k, action, data)
             S == After(Known, k, l)
             row == trows[k]
             new == trows'[k]
             old == snap[k][l]
  <1>0. /\ tx.kind = "level" /\ tx.index \in Indexes /\ tx.level \in Levels
        /\ Owner[k] = tx.index /\ nextId \in Nat /\ k \in Keys
    BY ConstantsAssumption DEF Writable, Inv, TypeInv, TypeOK, Txs
  <1>1. u \in Updates
    BY <1>0 DEF NewUpdate, Updates
  <1>2. S \in SUBSET Updates
    BY DEF After, Known, Inv, TypeInv, TypeOK
  <1>3. l < tx.level
    <2>1. level[tx.index] < tx.level /\ rolling[tx.index] = NoLevel
      BY <1>0 DEF Inv, TxFits
    <2>2. l <= level[tx.index]
      <3>1. level[tx.index] \in Nat
        BY <1>0, LevelsNat DEF Inv, TypeInv, TypeOK
      <3> QED
        BY <2>1, <3>1 DEF Reverts, Reachable, At
    <2>3. l \in Nat /\ tx.level \in Nat /\ level[tx.index] \in Nat
      BY <1>0, LevelsNat DEF Inv, TypeInv, TypeOK
    <2> QED
      BY <2>1, <2>2, <2>3
  <1>4. After(Known', k, l) = S \cup {u}
    BY <1>3 DEF After, Known, NewUpdate
  <1>5. \A v \in S : v.id < u.id
    BY DEF Inv, UpdatesFit, After, NewUpdate
  <1>6. TakesBack(S, row, old)
    BY <1>0 DEF Inv, LevelReverts, Undoes
  <1>7. /\ u.action = action /\ u.data = data
        /\ \A f \in Fields : Touches(u, f) <=> f \in DOMAIN data
    BY DEF NewUpdate, Touches
  <1>8. old # NoRow => \A f \in Fields : Untouched(S, f) =>
           IF Touches(u, f) THEN u.data[f] = old[f]
           ELSE u.action = "UPDATE" => new[f] = old[f]
    BY <1>7
  <1> HIDE DEF u, S, row, new, old
  <1>9. TakesBack(S \cup {u}, new, old)
    BY <1>1, <1>2, <1>5, <1>6, <1>7, <1>8, TakesBackRecorded DEF row, new
  <1>10. \A f \in Fields : Untouched(S \cup {u}, f) => Untouched(S, f)
    BY DEF Untouched
  <1> QED
    BY <1>4, <1>9, <1>10 DEF Undoes, S, new, old

(* A row the transaction sees keeps every field no update mentions, and so  *)
(* does what a handler has loaded of it.                                    *)
LEMMA Unmentioned ==
  ASSUME Inv, NEW k \in Keys \ Immune, Writable(k), tx.versioned,
         NEW l \in Levels, Reverts(tx.index, l), snap[k][l] # NoRow,
         NEW f \in Fields, Untouched(After(Known, k, l), f)
  PROVE  /\ trows[k] # NoRow /\ trows[k][f] = snap[k][l][f]
         /\ \A o \in originals[k] : o[f] = snap[k][l][f]
  <1>1. tx.kind = "level" /\ Owner[k] = tx.index
    BY DEF Writable
  <1>2. Undoes(Known, k, l, trows[k]) /\ Remembers(Known, k, l)
    BY <1>1 DEF Inv, LevelReverts
  <1>3. trows[k] # NoRow /\ trows[k][f] = snap[k][l][f]
    BY <1>2 DEF Undoes, TakesBack
  <1>4. \A o \in originals[k] : o[f] = snap[k][l][f]
    BY <1>2 DEF Remembers
  <1> QED
    BY <1>3, <1>4

LEMMA InvLoad ==
  ASSUME Inv, TypeInv', NEW k \in Keys, Load(k)
  PROVE  Inv'
  <1>1. /\ Writable(k) /\ UNCHANGED Tables /\ pending' = pending /\ nextId' = nextId
        /\ trows' = trows /\ originals' = [originals EXCEPT ![k] = @ \cup {trows[k]}]
    BY DEF Load
  <1>2. \A j \in Keys : j # k => trows'[j] = trows[j] /\ originals'[j] = originals[j]
    BY <1>1 DEF Inv, TypeInv, TypeOK
  <1>3. ASSUME tx.versioned, k \notin Immune, NEW l \in Levels, Reverts(tx.index, l)
        PROVE  Undoes(Known', k, l, trows'[k]) /\ Remembers(Known, k, l)'
    <2>1. log' = log /\ snap' = snap /\ Known' = Known
      BY <1>1 DEF Tables, Known
    <2>2. tx.kind = "level" /\ Owner[k] = tx.index
      BY <1>1 DEF Writable
    <2>3. Undoes(Known, k, l, trows[k])
      BY <1>3, <2>2 DEF Inv, LevelReverts
    <2>4. originals'[k] = originals[k] \cup {trows[k]}
      BY <1>1 DEF Inv, TypeInv, TypeOK
    <2>5. Remembers(Known, k, l)'
      BY <1>1, <1>3, <2>1, <2>4, Unmentioned DEF Remembers
    <2> QED
      BY <1>1, <2>1, <2>3, <2>5
  <1> QED
    BY <1>1, <1>2, <1>3, HandlerFrame

LEMMA InvCreate ==
  ASSUME Inv, TypeInv', NEW k \in Keys, NEW r \in Row, Create(k, r)
  PROVE  Inv'
  <1>1. /\ Writable(k) /\ UNCHANGED Tables /\ trows[k] = NoRow
        /\ trows' = [trows EXCEPT ![k] = r]
        /\ originals' = [originals EXCEPT ![k] = @ \cup {r}]
        /\ Record(k, "INSERT", NoData)
    BY DEF Create
  <1>2. /\ \A j \in Keys : j # k => trows'[j] = trows[j] /\ originals'[j] = originals[j]
        /\ trows'[k] = r /\ originals'[k] = originals[k] \cup {r}
    BY <1>1 DEF Inv, TypeInv, TypeOK
  <1>3. \/ pending' = pending /\ nextId' = nextId
        \/ \E action \in Actions, data \in Data :
             /\ Recorded(k, action, data)
             /\ pending' = pending \cup {NewUpdate(k, action, data)}
             /\ nextId' = nextId + 1
             /\ action = "INSERT" => data = NoData
    BY <1>1, NoDataType DEF Record, Actions
  <1>4. ASSUME tx.versioned, k \notin Immune, NEW l \in Levels, Reverts(tx.index, l)
        PROVE  Undoes(Known', k, l, trows'[k]) /\ Remembers(Known, k, l)'
    <2>1. log' = log /\ snap' = snap
      BY <1>1 DEF Tables
    <2>2. pending' = pending \cup {NewUpdate(k, "INSERT", NoData)}
      BY <1>1, <1>4 DEF Record, Recorded
    <2>3. snap[k][l] # NoRow =>
            \A f \in Fields : ~Untouched(After(Known, k, l), f)
      BY <1>1, <1>4, Unmentioned
    <2>4. /\ Undoes(Known', k, l, trows'[k])
          /\ \A f \in Fields : Untouched(After(Known', k, l), f) =>
               Untouched(After(Known, k, l), f)
      BY <1>1, <1>4, <2>1, <2>2, <2>3, NoDataType, Recording DEF Actions
    <2>5. Remembers(Known, k, l)'
      BY <2>1, <2>3, <2>4 DEF Remembers
    <2> QED
      BY <2>4, <2>5
  <1> QED
    BY <1>1, <1>2, <1>3, <1>4, HandlerFrame

LEMMA InvSave ==
  ASSUME Inv, TypeInv', NEW k \in Keys, NEW o \in Row, NEW r \in Row,
         NEW W \in SUBSET Fields, Save(k, o, r, W)
  PROVE  Inv'
  <1> DEFINE new == [f \in Fields |-> IF f \in W THEN r[f] ELSE trows[k][f]]
  <1>1. /\ Writable(k) /\ UNCHANGED Tables /\ o \in originals[k] /\ trows[k] # NoRow
        /\ trows' = [trows EXCEPT ![k] = new]
        /\ originals' = originals
        /\ Record(k, "UPDATE", Diff(o, r))
    BY DEF Save
  <1>2. /\ \A j \in Keys : j # k => trows'[j] = trows[j] /\ originals'[j] = originals[j]
        /\ trows'[k] = new /\ originals'[k] = originals[k]
    BY <1>1 DEF Inv, TypeInv, TypeOK
  <1>3. trows[k] \in Row /\ new \in Row /\ new # NoRow
    <2>1. trows[k] \in Row
      BY <1>1 DEF Inv, TypeInv, TypeOK
    <2> QED
      BY <2>1, ConstantsAssumption DEF Row
  <1>4. Diff(o, r) \in Data /\ \A f \in Fields :
          IF f \in DOMAIN Diff(o, r) THEN Diff(o, r)[f] = o[f] ELSE o[f] = r[f]
    BY DiffType DEF Diff
  <1>5. \/ pending' = pending /\ nextId' = nextId
        \/ \E action \in Actions, data \in Data :
             /\ Recorded(k, action, data)
             /\ pending' = pending \cup {NewUpdate(k, action, data)}
             /\ nextId' = nextId + 1
             /\ action = "INSERT" => data = NoData
    BY <1>1, <1>4 DEF Record, Actions
  <1>6. ASSUME tx.versioned, k \notin Immune, NEW l \in Levels, Reverts(tx.index, l)
        PROVE  Undoes(Known', k, l, trows'[k]) /\ Remembers(Known, k, l)'
    <2>1. log' = log /\ snap' = snap /\ tx.kind = "level" /\ Owner[k] = tx.index
      BY <1>1 DEF Tables, Writable
    <2>2. ASSUME snap[k][l] # NoRow, NEW f \in Fields, Untouched(After(Known, k, l), f)
          PROVE  o[f] = snap[k][l][f] /\ trows[k][f] = snap[k][l][f]
      BY <1>1, <1>6, <2>2, Unmentioned
    <2>3. CASE Recorded(k, "UPDATE", Diff(o, r))
      <3>1. pending' = pending \cup {NewUpdate(k, "UPDATE", Diff(o, r))}
        BY <1>1, <2>3 DEF Record
      <3>2. ASSUME snap[k][l] # NoRow, NEW f \in Fields, Untouched(After(Known, k, l), f)
            PROVE  IF f \in DOMAIN Diff(o, r) THEN Diff(o, r)[f] = snap[k][l][f]
                   ELSE new[f] = snap[k][l][f]
        BY <1>4, <2>2, <3>2
      <3>3. /\ Undoes(Known', k, l, trows'[k])
            /\ \A f \in Fields : Untouched(After(Known', k, l), f) =>
                 Untouched(After(Known, k, l), f)
        <4> HIDE DEF new
        <4> QED
          BY <1>1, <1>2, <1>3, <1>4, <1>6, <2>1, <3>1, <3>2, Recording DEF Actions
      <3>4. Remembers(Known, k, l)'
        <4>1. Remembers(Known, k, l)
          BY <1>6, <2>1 DEF Inv, LevelReverts
        <4> QED
          BY <1>1, <2>1, <3>3, <4>1 DEF Remembers
      <3> QED
        BY <3>3, <3>4
    <2>4. CASE ~Recorded(k, "UPDATE", Diff(o, r))
      <3>1. pending' = pending /\ Known' = Known
        BY <1>1, <2>1, <2>4 DEF Record, Known
      <3>2. DOMAIN Diff(o, r) = {}
        BY <1>6, <2>4 DEF Recorded
      <3>3. snap[k][l] # NoRow => \A f \in Fields :
              Untouched(After(Known, k, l), f) => new[f] = snap[k][l][f]
        BY <1>4, <2>2, <3>2
      <3>4. Undoes(Known, k, l, trows[k]) /\ Remembers(Known, k, l)
        BY <1>6, <2>1 DEF Inv, LevelReverts
      <3>5. snap[k][l] \in Row \cup {NoRow}
        BY DEF Inv, TypeInv, TypeOK
      <3>6. TakesBack(After(Known, k, l), new, snap[k][l])
        <4> HIDE DEF new
        <4> QED
          BY <1>3, <3>3, <3>4, <3>5, TakesBackUnrecorded DEF Undoes
      <3> QED
        BY <1>1, <1>2, <2>1, <3>1, <3>4, <3>6 DEF Undoes, Remembers
    <2> QED
      BY <2>3, <2>4
  <1> QED
    BY <1>1, <1>2, <1>5, <1>6, HandlerFrame

(* Deleting a row: the update holds what the handler knows of it.           *)
LEMMA InvDelete ==
  ASSUME Inv, TypeInv', NEW k \in Keys, NEW r \in Row,
         Writable(k), UNCHANGED Tables, trows[k] # NoRow,
         r \in originals[k] \cup {trows[k]},
         trows' = [trows EXCEPT ![k] = NoRow], originals' = originals,
         Record(k, "DELETE", r)
  PROVE  Inv'
  <1>1. /\ \A j \in Keys : j # k => trows'[j] = trows[j] /\ originals'[j] = originals[j]
        /\ trows'[k] = NoRow /\ originals'[k] = originals[k]
    BY DEF Inv, TypeInv, TypeOK
  <1>2. r \in Data /\ DOMAIN r = Fields
    BY RowIsData DEF Row
  <1>3. \/ pending' = pending /\ nextId' = nextId
        \/ \E action \in Actions, data \in Data :
             /\ Recorded(k, action, data)
             /\ pending' = pending \cup {NewUpdate(k, action, data)}
             /\ nextId' = nextId + 1
             /\ action = "INSERT" => data = NoData
    BY <1>2 DEF Record, Actions
  <1>4. ASSUME tx.versioned, k \notin Immune, NEW l \in Levels, Reverts(tx.index, l)
        PROVE  Undoes(Known', k, l, trows'[k]) /\ Remembers(Known, k, l)'
    <2>1. log' = log /\ snap' = snap /\ tx.kind = "level" /\ Owner[k] = tx.index
      BY DEF Tables, Writable
    <2>2. pending' = pending \cup {NewUpdate(k, "DELETE", r)}
      BY <1>4 DEF Record, Recorded
    <2>3. ASSUME snap[k][l] # NoRow, NEW f \in Fields, Untouched(After(Known, k, l), f)
          PROVE  r[f] = snap[k][l][f]
      BY <1>4, <2>3, Unmentioned
    <2>4. /\ Undoes(Known', k, l, trows'[k])
          /\ \A f \in Fields : Untouched(After(Known', k, l), f) =>
               Untouched(After(Known, k, l), f)
      BY <1>2, <1>4, <2>1, <2>2, <2>3, Recording DEF Actions
    <2>5. Remembers(Known, k, l)
      BY <1>4, <2>1 DEF Inv, LevelReverts
    <2>6. Remembers(Known, k, l)'
      BY <2>1, <2>4, <2>5 DEF Remembers
    <2> QED
      BY <2>4, <2>6
  <1> QED
    BY <1>1, <1>3, <1>4, HandlerFrame

(* filter().update() is the save of an instance loaded just before.         *)
LEMMA InvQueryUpdate ==
  ASSUME Inv, TypeInv', NEW k \in Keys, NEW f \in Fields, NEW v \in Vals,
         QueryUpdate(k, f, v)
  PROVE  Inv'
  <1> DEFINE new == [trows[k] EXCEPT ![f] = v]
  <1>1. /\ Writable(k) /\ UNCHANGED Tables /\ trows[k] # NoRow
        /\ trows' = [trows EXCEPT ![k] = new]
        /\ originals' = originals
        /\ Record(k, "UPDATE", Diff(trows[k], new))
    BY DEF QueryUpdate
  <1>2. /\ \A j \in Keys : j # k => trows'[j] = trows[j] /\ originals'[j] = originals[j]
        /\ trows'[k] = new /\ originals'[k] = originals[k]
    BY <1>1 DEF Inv, TypeInv, TypeOK
  <1>3. trows[k] \in Row /\ new \in Row /\ new # NoRow
    <2>1. trows[k] \in Row
      BY <1>1 DEF Inv, TypeInv, TypeOK
    <2> QED
      BY <2>1, ConstantsAssumption DEF Row
  <1> DEFINE data == Diff(trows[k], new)
  <1>4. data \in Data /\ \A g \in Fields :
          IF g \in DOMAIN data THEN data[g] = trows[k][g] ELSE trows[k][g] = new[g]
    BY <1>3, DiffType DEF Diff
  <1> HIDE DEF data, new
  <1>5. \/ pending' = pending /\ nextId' = nextId
        \/ \E action \in Actions, d \in Data :
             /\ Recorded(k, action, d)
             /\ pending' = pending \cup {NewUpdate(k, action, d)}
             /\ nextId' = nextId + 1
             /\ action = "INSERT" => d = NoData
    BY <1>1, <1>4 DEF Record, Actions, data
  <1>6. ASSUME tx.versioned, k \notin Immune, NEW l \in Levels, Reverts(tx.index, l)
        PROVE  Undoes(Known', k, l, trows'[k]) /\ Remembers(Known, k, l)'
    <2>1. log' = log /\ snap' = snap /\ tx.kind = "level" /\ Owner[k] = tx.index
      BY <1>1 DEF Tables, Writable
    <2>2. ASSUME snap[k][l] # NoRow, NEW g \in Fields, Untouched(After(Known, k, l), g)
          PROVE  trows[k][g] = snap[k][l][g]
      BY <1>1, <1>6, <2>2, Unmentioned
    <2>3. Undoes(Known, k, l, trows[k]) /\ Remembers(Known, k, l)
      BY <1>6, <2>1 DEF Inv, LevelReverts
    <2>4. CASE Recorded(k, "UPDATE", data)
      <3>1. pending' = pending \cup {NewUpdate(k, "UPDATE", data)}
        BY <1>1, <2>4 DEF Record, data
      <3>2. ASSUME snap[k][l] # NoRow, NEW g \in Fields, Untouched(After(Known, k, l), g)
            PROVE  IF g \in DOMAIN data THEN data[g] = snap[k][l][g]
                   ELSE new[g] = snap[k][l][g]
        BY <1>4, <2>2, <3>2
      <3>3. /\ Undoes(Known', k, l, trows'[k])
            /\ \A g \in Fields : Untouched(After(Known', k, l), g) =>
                 Untouched(After(Known, k, l), g)
        BY <1>1, <1>2, <1>3, <1>4, <1>6, <2>1, <3>1, <3>2, Recording DEF Actions
      <3>4. Remembers(Known, k, l)'
        BY <1>1, <2>1, <2>3, <3>3 DEF Remembers
      <3> QED
        BY <3>3, <3>4
    <2>5. CASE ~Recorded(k, "UPDATE", data)
      <3>1. pending' = pending /\ Known' = Known
        BY <1>1, <2>1, <2>5 DEF Record, Known, data
      <3>2. DOMAIN data = {}
        BY <1>6, <2>5 DEF Recorded
      <3>3. snap[k][l] # NoRow => \A g \in Fields :
              Untouched(After(Known, k, l), g) => new[g] = snap[k][l][g]
        BY <1>4, <2>2, <3>2
      <3>4. snap[k][l] \in Row \cup {NoRow}
        BY DEF Inv, TypeInv, TypeOK
      <3>5. TakesBack(After(Known, k, l), new, snap[k][l])
        BY <1>3, <2>3, <3>3, <3>4, TakesBackUnrecorded DEF Undoes
      <3> QED
        BY <1>1, <1>2, <2>1, <2>3, <3>1, <3>5 DEF Undoes, Remembers
    <2> QED
      BY <2>4, <2>5
  <1> QED
    BY <1>1, <1>2, <1>5, <1>6, HandlerFrame

LEMMA InvHandler ==
  ASSUME Plain, Inv, TypeInv', HandlerStep
  PROVE  Inv'
  <1>1. ASSUME NEW k \in Keys, NEW r \in Row, Delete(k, r)
        PROVE  Inv'
    <2>1. /\ Writable(k) /\ UNCHANGED Tables /\ trows[k] # NoRow
          /\ r \in originals[k] \cup {trows[k]}
          /\ trows' = [trows EXCEPT ![k] = NoRow] /\ originals' = originals
          /\ Record(k, "DELETE", r)
      BY <1>1 DEF Delete, Plain
    <2> QED
      BY <2>1, InvDelete
  <1>2. ASSUME NEW k \in Keys, QueryDelete(k)
        PROVE  Inv'
    <2>1. /\ Writable(k) /\ UNCHANGED Tables /\ trows[k] # NoRow
          /\ trows' = [trows EXCEPT ![k] = NoRow] /\ originals' = originals
          /\ Record(k, "DELETE", trows[k])
      BY <1>2 DEF QueryDelete
    <2>2. trows[k] \in Row
      BY <2>1 DEF Inv, TypeInv, TypeOK
    <2> QED
      BY <2>1, <2>2, InvDelete
  <1>3. ASSUME NEW k \in Keys
        PROVE  /\ \A o \in Row, f \in Fields, v \in Vals : ~MutateInPlace(k, o, f, v)
               /\ \A r \in Row : ~BulkConflict(k, r)
    BY DEF Plain, MutateInPlace, BulkConflict
  <1> QED
    BY <1>1, <1>2, <1>3, InvLoad, InvCreate, InvSave, InvQueryUpdate DEF HandlerStep

-----------------------------------------------------------------------------
(* Levels begin, are skipped and are committed.                             *)

(* An index never moves below what its updates say, and a higher head       *)
(* leaves fewer levels to return to.                                        *)
LEMMA HeadGrows ==
  ASSUME TypeInv, NEW i \in Indexes, NEW s \in Levels,
         seen' = [seen EXCEPT ![Chain[i]] = Max2(@, s)]
  PROVE  /\ \A j \in Indexes : /\ seen[Chain[j]] <= seen'[Chain[j]]
                               /\ seen[Chain[j]] \in Nat /\ seen'[Chain[j]] \in Nat
         /\ s <= seen'[Chain[i]] /\ s \in Nat
  <1>1. \A j \in Indexes : Chain[j] \in Chains
    BY ConstantsAssumption
  <1>2. s \in Nat /\ seen \in [Chains -> Nat]
    BY LevelsNat DEF TypeInv, TypeOK
  <1> QED
    BY <1>1, <1>2 DEF Max2

LEMMA LevelNat ==
  ASSUME TypeInv
  PROVE  /\ \A i \in Indexes : /\ level[i] \in Nat /\ At(i) \in Levels
                               /\ At(i) \in Nat /\ seen[Chain[i]] \in Nat
         /\ \A u \in Known : u.id \in Nat /\ u.level \in Nat /\ u.key \in Keys
         /\ \A k \in Keys : Owner[k] \in Indexes
         /\ tx.index \in Indexes /\ tx.level \in Levels /\ tx.level \in Nat
         /\ Depth \in Nat
  <1>1. \A i \in Indexes : /\ level[i] \in Nat /\ At(i) \in Levels
                           /\ At(i) \in Nat
    BY LevelsNat DEF TypeInv, TypeOK, At
  <1>2. \A i \in Indexes : seen[Chain[i]] \in Nat
    BY LevelsNat, ConstantsAssumption DEF TypeInv, TypeOK
  <1>3. \A u \in Known : u.id \in Nat /\ u.level \in Nat /\ u.key \in Keys
    BY LevelsNat DEF TypeInv, TypeOK, Known, Updates
  <1>4. tx.index \in Indexes /\ tx.level \in Levels /\ tx.level \in Nat
    BY LevelsNat DEF TypeInv, TypeOK, Txs
  <1> QED
    BY <1>1, <1>2, <1>3, <1>4, ConstantsAssumption

LEMMA InvBeginLevel ==
  ASSUME Inv, TypeInv', NEW i \in Indexes, NEW l \in Levels, NEW s \in Levels,
         BeginLevel(i, l, s)
  PROVE  Inv'
  <1>0. /\ tx.kind = "none" /\ rolling[i] = NoLevel /\ level[i] < l /\ l <= s
        /\ tx'.kind = "level" /\ tx'.index = i /\ tx'.level = l
        /\ tx'.versioned = Versioned(l, s)
        /\ seen' = [seen EXCEPT ![Chain[i]] = Max2(@, s)]
        /\ rows' = rows /\ log' = log /\ level' = level /\ trows' = trows
        /\ pending' = pending /\ reverted' = reverted /\ originals' = originals
        /\ rolling' = rolling /\ cutoff' = cutoff /\ nextId' = nextId /\ snap' = snap
    BY DEF BeginLevel, Idle
  <1>1. /\ trows = rows /\ pending = {} /\ reverted = {}
        /\ originals = [k \in Keys |-> {}]
    BY <1>0 DEF Inv, TxFits
  <1>2. /\ \A j \in Indexes : /\ seen[Chain[j]] <= seen'[Chain[j]]
                              /\ seen[Chain[j]] \in Nat /\ seen'[Chain[j]] \in Nat
        /\ s <= seen'[Chain[i]] /\ s \in Nat
    BY <1>0, HeadGrows DEF Inv
  <1>3. ASSUME NEW j \in Indexes, NEW m \in Levels, Reverts(j, m)'
        PROVE  Reverts(j, m)
    BY <1>0, <1>2, <1>3, LevelsNat, ConstantsAssumption DEF Reverts, Reachable, At
  <1>4. UpdatesFit' /\ IdsOrder'
    BY <1>0, <1>1 DEF Inv, UpdatesFit, IdsOrder, Known, At
  <1>5. TxFits'
    <2>1. l \in Nat /\ Depth \in Nat
      BY LevelsNat, ConstantsAssumption
    <2>2. l <= seen'[Chain[i]]
      BY <1>0, <1>2, <2>1
    <2>3. Versioned(l, s) \/ Depth = 0 \/ l < seen'[Chain[i]] - Depth
      BY <1>2, <2>1 DEF Versioned
    <2> QED
      BY <1>0, <1>1, <2>2, <2>3 DEF TxFits
  <1>6. LevelsFit'
    <2>1. ASSUME NEW j \in Indexes
          PROVE  /\ level'[j] <= seen'[Chain[j]]
                 /\ rolling'[j] # NoLevel => rolling'[j] < level'[j]
      BY <1>0, <1>2, LevelNat DEF Inv, LevelsFit
    <2>2. ASSUME NEW j \in Indexes, cutoff # NoLevel
          PROVE  cutoff <= seen'[Chain[j]] - Depth
      <3>1. cutoff <= seen[Chain[j]] - Depth /\ cutoff \in Nat /\ Depth \in Nat
        BY <2>2, LevelsNat, ConstantsAssumption DEF Inv, LevelsFit, TypeInv, TypeOK
      <3> QED
        BY <1>2, <3>1
    <2> QED
      BY <1>0, <2>1, <2>2 DEF LevelsFit
  <1>7. CommittedReverts'
    <2> SUFFICES ASSUME NEW k \in Keys \ Immune, NEW m \in Levels, Reverts(Owner[k], m)'
                 PROVE  Undoes(log, k, m, rows[k])'
      BY DEF CommittedReverts
    <2>1. Undoes(log, k, m, rows[k])
      BY <1>3, ConstantsAssumption DEF Inv, CommittedReverts
    <2> QED
      BY <1>0, <2>1 DEF Undoes
  <1>8. LevelReverts'
    <2> SUFFICES ASSUME NEW k \in Keys \ Immune, Owner[k] = i,
                        NEW m \in Levels, Reverts(i, m)'
                 PROVE  Undoes(Known, k, m, trows[k])' /\ Remembers(Known, k, m)'
      BY <1>0 DEF LevelReverts
    <2>1. Undoes(log, k, m, rows[k])'
      BY <1>7 DEF CommittedReverts
    <2>2. Known' = log' /\ trows' = rows' /\ originals'[k] = {}
      BY <1>0, <1>1 DEF Known
    <2> QED
      BY <2>1, <2>2 DEF Remembers, Undoes
  <1>9. RollbackReverts'
    BY <1>0 DEF RollbackReverts
  <1> QED
    BY <1>4, <1>5, <1>6, <1>7, <1>8, <1>9 DEF Inv

LEMMA InvSkipLevel ==
  ASSUME Inv, TypeInv', NEW i \in Indexes, NEW l \in Levels, NEW s \in Levels,
         SkipLevel(i, l, s)
  PROVE  Inv'
  <1>0. /\ tx.kind = "none" /\ rolling[i] = NoLevel /\ level[i] < l /\ l <= s
        /\ level' = [level EXCEPT ![i] = l]
        /\ seen' = [seen EXCEPT ![Chain[i]] = Max2(@, s)]
        /\ Remember(i, l, rows)
        /\ rows' = rows /\ log' = log /\ tx' = tx /\ trows' = trows
        /\ pending' = pending /\ reverted' = reverted /\ originals' = originals
        /\ rolling' = rolling /\ cutoff' = cutoff /\ nextId' = nextId
    BY DEF SkipLevel, Idle
  <1>1. trows = rows /\ pending = {} /\ reverted = {}
    BY <1>0 DEF Inv, TxFits
  <1>2. /\ \A j \in Indexes : /\ seen[Chain[j]] <= seen'[Chain[j]]
                              /\ seen[Chain[j]] \in Nat /\ seen'[Chain[j]] \in Nat
        /\ s <= seen'[Chain[i]] /\ s \in Nat /\ l \in Nat
    BY <1>0, HeadGrows, LevelsNat DEF Inv
  <1>3. /\ \A j \in Indexes : j # i => level'[j] = level[j] /\ At(j)' = At(j)
        /\ level'[i] = l /\ At(i)' = l /\ At(i) = level[i]
    BY <1>0 DEF At, Inv, TypeInv, TypeOK
  <1>4. UpdatesFit'
    <2>1. \A u \in log : u.level <= At(u.index)'
      <3> SUFFICES ASSUME NEW u \in log PROVE u.level <= At(u.index)'
        OBVIOUS
      <3>1. u.level <= At(u.index) /\ u.level \in Nat
        BY LevelNat DEF Inv, UpdatesFit, Known
      <3>2. u.index \in Indexes
        BY DEF Inv, TypeInv, TypeOK, Updates
      <3>3. CASE u.index # i
        BY <1>3, <3>1, <3>2, <3>3
      <3>4. CASE u.index = i
        BY <1>0, <1>2, <1>3, <3>1, <3>4, LevelNat DEF Inv
      <3> QED
        BY <3>3, <3>4
    <2> QED
      BY <1>0, <1>1, <2>1 DEF Inv, UpdatesFit, Known
  <1>5. IdsOrder'
    BY <1>0 DEF Inv, IdsOrder, Known
  <1>6. TxFits'
    BY <1>0 DEF Inv, TxFits
  <1>7. LevelsFit'
    <2>1. ASSUME NEW j \in Indexes
          PROVE  /\ level'[j] <= seen'[Chain[j]]
                 /\ rolling'[j] # NoLevel => rolling'[j] < level'[j]
      <3>1. level[j] <= seen[Chain[j]] /\ (rolling[j] # NoLevel => rolling[j] < level[j])
        BY DEF Inv, LevelsFit
      <3>2. level[j] \in Nat
        BY LevelNat DEF Inv
      <3> QED
        BY <1>0, <1>2, <1>3, <3>1, <3>2
    <2>2. ASSUME NEW j \in Indexes, cutoff # NoLevel
          PROVE  cutoff <= seen'[Chain[j]] - Depth
      <3>1. cutoff <= seen[Chain[j]] - Depth /\ cutoff \in Nat /\ Depth \in Nat
        BY <2>2, LevelsNat, ConstantsAssumption DEF Inv, LevelsFit, TypeInv, TypeOK
      <3> QED
        BY <1>2, <3>1
    <2> QED
      BY <1>0, <2>1, <2>2 DEF LevelsFit
  <1>8. CommittedReverts'
    <2> SUFFICES ASSUME NEW k \in Keys \ Immune, NEW m \in Levels, Reverts(Owner[k], m)'
                 PROVE  TakesBack(After(log, k, m), rows[k], snap'[k][m])
      BY <1>0 DEF CommittedReverts, Undoes
    <2>0. /\ Owner[k] \in Indexes /\ m \in Nat /\ Depth \in Nat
          /\ level[i] \in Nat /\ At(Owner[k]) \in Nat
      BY LevelNat, LevelsNat DEF Inv
    <2>1. snap'[k][m] = IF Owner[k] # i \/ m <= level[i] THEN snap[k][m]
                        ELSE IF m < l THEN snap[k][level[i]] ELSE rows[k]
      BY <1>0 DEF Remember
    <2>2. CASE Owner[k] # i \/ m <= level[i]
      <3>1. Reverts(Owner[k], m)
        BY <1>0, <1>2, <1>3, <2>0, <2>2 DEF Reverts, Reachable
      <3> QED
        BY <2>1, <2>2, <3>1 DEF Inv, CommittedReverts, Undoes
    <2>3. CASE ~(Owner[k] # i \/ m <= level[i])
      <3>1. rows[k] = snap[k][level[i]]
        BY <1>3, <2>3, Current
      <3>2. After(log, k, m) = {}
        <4> SUFFICES ASSUME NEW u \in log, u.key = k, u.level > m PROVE FALSE
          BY DEF After
        <4>1. u.level <= level[i] /\ u.level \in Nat
          BY <1>3, <2>3, LevelNat DEF Inv, UpdatesFit, Known
        <4> QED
          BY <2>0, <2>3, <4>1
      <3> QED
        BY <2>1, <2>3, <3>1, <3>2, TakesBackNothing
    <2> QED
      BY <2>2, <2>3
  <1>9. LevelReverts' /\ RollbackReverts'
    BY <1>0 DEF LevelReverts, RollbackReverts
  <1> QED
    BY <1>4, <1>5, <1>6, <1>7, <1>8, <1>9 DEF Inv

LEMMA InvCommitLevel ==
  ASSUME Plain, Inv, TypeInv', CommitLevel
  PROVE  Inv'
  <1> PICK i \in Indexes, l \in Levels : i = tx.index /\ l = tx.level
    BY LevelNat DEF Inv
  <1>0. /\ tx.kind = "level" /\ rows' = trows /\ log' = Known
        /\ level' = [level EXCEPT ![i] = l] /\ Remember(i, l, trows)
        /\ tx'.kind = "none" /\ pending' = {} /\ reverted' = {}
        /\ originals' = [k \in Keys |-> {}]
        /\ trows' = trows /\ rolling' = rolling /\ cutoff' = cutoff
        /\ nextId' = nextId /\ seen' = seen
    BY NoTxType DEF CommitLevel, CloseTx, Plain, Known
  <1>1. /\ rolling[i] = NoLevel /\ level[i] < l /\ l <= seen[Chain[i]]
        /\ tx.versioned \/ Depth = 0 \/ l < seen[Chain[i]] - Depth
        /\ \A k \in Keys : Owner[k] # i => trows[k] = rows[k]
    BY <1>0 DEF Inv, TxFits
  <1>2. /\ i \in Indexes /\ l \in Nat /\ l \in Levels /\ Depth \in Nat
        /\ \A j \in Indexes : level[j] \in Nat /\ At(j) \in Nat /\ seen[Chain[j]] \in Nat
    BY LevelNat DEF Inv
  <1>3. /\ \A j \in Indexes : j # i => level'[j] = level[j] /\ At(j)' = At(j)
        /\ level'[i] = l /\ At(i)' = l /\ At(i) = level[i]
    BY <1>0, <1>1, <1>2 DEF At, Inv, TypeInv, TypeOK
  <1>4. \A u \in log : u.level <= At(u.index) /\ u.level \in Nat /\ u.index \in Indexes
    BY LevelNat DEF Inv, UpdatesFit, Known, TypeInv, TypeOK, Updates
  <1>5. \A u \in pending : u.index = i /\ u.level = l /\ tx.versioned
    BY DEF Inv, UpdatesFit
  <1>6. UpdatesFit'
    <2>1. \A u \in Known : u.level <= At(u.index)'
      <3> SUFFICES ASSUME NEW u \in Known PROVE u.level <= At(u.index)'
        OBVIOUS
      <3>1. CASE u \in pending
        BY <1>2, <1>3, <1>5, <3>1
      <3>2. CASE u \in log
        BY <1>1, <1>2, <1>3, <1>4, <3>2
      <3> QED
        BY <3>1, <3>2 DEF Known
    <2> QED
      BY <1>0, <2>1 DEF Inv, UpdatesFit, Known
  <1>7. IdsOrder'
    BY <1>0 DEF Inv, IdsOrder, Known
  <1>8. TxFits'
    BY <1>0 DEF TxFits
  <1>9. LevelsFit'
    <2>1. ASSUME NEW j \in Indexes
          PROVE  /\ level'[j] <= seen'[Chain[j]]
                 /\ rolling'[j] # NoLevel => rolling'[j] < level'[j]
      BY <1>0, <1>1, <1>3 DEF Inv, LevelsFit
    <2>2. ASSUME NEW j \in Indexes, cutoff # NoLevel
          PROVE  cutoff <= seen'[Chain[j]] - Depth
      BY <1>0, <2>2 DEF Inv, LevelsFit
    <2> QED
      BY <1>0, <2>1, <2>2 DEF LevelsFit
  <1>10. CommittedReverts'
    <2> SUFFICES ASSUME NEW k \in Keys \ Immune, NEW m \in Levels, Reverts(Owner[k], m)'
                 PROVE  TakesBack(After(Known, k, m), trows[k], snap'[k][m])
      BY <1>0 DEF CommittedReverts, Undoes
    <2>0. Owner[k] \in Indexes /\ m \in Nat
      BY LevelNat, LevelsNat DEF Inv
    <2>1. snap'[k][m] = IF Owner[k] # i \/ m <= level[i] THEN snap[k][m]
                        ELSE IF m < l THEN snap[k][level[i]] ELSE trows[k]
      BY <1>0 DEF Remember
    <2>2. CASE Owner[k] # i
      <3>1. Reverts(Owner[k], m)
        BY <1>0, <1>3, <2>0, <2>2 DEF Reverts, Reachable
      <3>2. After(Known, k, m) = After(log, k, m)
        BY <1>5, <2>2 DEF After, Known, Inv, UpdatesFit
      <3>3. trows[k] = rows[k]
        BY <1>1, <2>2
      <3> QED
        BY <2>1, <2>2, <3>1, <3>2, <3>3 DEF Inv, CommittedReverts, Undoes
    <2>3. CASE Owner[k] = i /\ m = l
      <3>1. After(Known, k, m) = {}
        <4> SUFFICES ASSUME NEW u \in Known, u.key = k, u.level > m PROVE FALSE
          BY DEF After
        <4>1. u \in log
          BY <1>2, <1>5, <2>3 DEF Known
        <4>2. u.level <= level[i] /\ u.level \in Nat
          BY <1>3, <1>4, <2>3, <4>1 DEF Inv, UpdatesFit, Known
        <4> QED
          BY <1>1, <1>2, <2>3, <4>2
      <3>2. snap'[k][m] = trows[k]
        BY <1>1, <1>2, <2>1, <2>3
      <3> QED
        BY <3>1, <3>2, TakesBackNothing
    <2>4. CASE Owner[k] = i /\ m # l
      <3>1. m < l /\ m >= seen[Chain[i]] - Depth
        BY <1>0, <1>2, <1>3, <2>0, <2>4 DEF Reverts, Reachable
      <3>2. tx.versioned
        BY <1>1, <1>2, <2>0, <3>1
      <3>3. \A n \in Levels : Reverts(i, n) => TakesBack(After(Known, k, n), trows[k], snap[k][n])
        BY <1>0, <2>4, <3>2 DEF Inv, LevelReverts, Undoes
      <3>4. CASE m <= level[i]
        <4>1. Reverts(i, m)
          BY <1>3, <3>1, <3>4 DEF Reverts, Reachable
        <4> QED
          BY <2>1, <3>3, <3>4, <4>1
      <3>5. CASE m > level[i]
        <4>1. After(Known, k, m) = After(Known, k, level[i])
          <5>1. ASSUME NEW u \in Known, u.key = k
                PROVE  u.level > m <=> u.level > level[i]
            <6>1. CASE u \in pending
              BY <1>1, <1>2, <1>5, <2>0, <3>1, <6>1
            <6>2. CASE u \in log
              <7>1. u.level <= level[i] /\ u.level \in Nat
                BY <1>3, <1>4, <2>4, <5>1, <6>2 DEF Inv, UpdatesFit, Known
              <7> QED
                BY <1>2, <2>0, <3>5, <7>1
            <6> QED
              BY <6>1, <6>2 DEF Known
          <5> QED
            BY <5>1 DEF After
        <4>2. level[i] \in Levels /\ Reverts(i, level[i])
          BY <1>2, <1>3, LevelNat DEF Reverts, Inv
        <4>3. snap'[k][m] = snap[k][level[i]]
          BY <1>2, <2>0, <2>1, <2>4, <3>1, <3>5
        <4> QED
          BY <3>3, <4>1, <4>2, <4>3
      <3> QED
        BY <1>2, <2>0, <3>4, <3>5
    <2> QED
      BY <2>2, <2>3, <2>4
  <1>11. LevelReverts' /\ RollbackReverts'
    BY <1>0 DEF LevelReverts, RollbackReverts
  <1> QED
    BY <1>6, <1>7, <1>8, <1>9, <1>10, <1>11 DEF Inv

-----------------------------------------------------------------------------
(* Rolling back.                                                            *)

LEMMA InvBeginRollback ==
  ASSUME Plain, Inv, TypeInv', NEW i \in Indexes, NEW from \in Levels, NEW to \in Levels,
         BeginRollback(i, from, to)
  PROVE  Inv'
  <1>0. /\ tx.kind = "none" /\ rolling[i] = NoLevel
        /\ to < level[i] /\ level[i] - HeadLag <= from
        /\ ~Final(i, to)
        /\ tx'.kind = "rollback" /\ tx'.index = i /\ tx'.level = to /\ tx'.from = from
        /\ rows' = rows /\ log' = log /\ level' = level /\ trows' = trows
        /\ pending' = pending /\ reverted' = reverted /\ originals' = originals
        /\ rolling' = rolling /\ cutoff' = cutoff /\ nextId' = nextId
        /\ seen' = seen /\ snap' = snap
    BY DEF BeginRollback, RollbackAsked, Idle, Plain
  <1>1. /\ trows = rows /\ pending = {} /\ reverted = {}
        /\ originals = [k \in Keys |-> {}]
    BY <1>0 DEF Inv, TxFits
  <1>2. UpdatesFit' /\ IdsOrder' /\ LevelsFit'
    BY <1>0, <1>1 DEF Inv, UpdatesFit, IdsOrder, LevelsFit, Known, At
  <1>3. TxFits'
    <2>1. level[i] <= from
      BY <1>0, LevelNat DEF Plain, Inv
    <2>2. seen[Chain[i]] - Depth <= to
      BY <1>0, LevelNat, LevelsNat DEF Final, Inv
    <2> QED
      BY <1>0, <1>1, <2>1, <2>2 DEF Inv, TxFits
  <1>4. CommittedReverts'
    BY <1>0 DEF Inv, CommittedReverts, Undoes, Reverts, Reachable, At
  <1>5. RollbackReverts'
    <2> SUFFICES ASSUME NEW k \in Keys \ Immune, Owner[k] = i, NEW l \in Levels,
                        Reachable(i, l)'
                 PROVE  Undoes(log \ reverted, k, l, trows[k])'
      BY <1>0 DEF RollbackReverts
    <2>1. Undoes(log, k, l, rows[k])'
      BY <1>4 DEF CommittedReverts, Reverts
    <2>2. log' \ reverted' = log' /\ trows' = rows'
      BY <1>0, <1>1
    <2> QED
      BY <2>1, <2>2 DEF Undoes
  <1>6. LevelReverts'
    BY <1>0 DEF LevelReverts
  <1> QED
    BY <1>2, <1>3, <1>4, <1>5, <1>6 DEF Inv

LEMMA InvReindex ==
  ASSUME Inv, TypeInv', NEW i \in Indexes, NEW from \in Levels, NEW to \in Levels,
         Reindex(i, from, to)
  PROVE  Inv'
  <1>0. /\ tx.kind = "none" /\ trows' = rows' /\ log' = {}
        /\ level' = [j \in Indexes |-> 0] /\ rolling' = [j \in Indexes |-> NoLevel]
        /\ cutoff' = NoLevel /\ originals' = [k \in Keys |-> {}]
        /\ snap' = [k \in Keys |-> [m \in Levels |-> rows'[k]]]
        /\ tx' = tx /\ pending' = pending /\ reverted' = reverted
        /\ nextId' = nextId /\ seen' = seen
    BY DEF Reindex, RollbackAsked, Idle
  <1>1. pending = {} /\ reverted = {}
    BY <1>0 DEF Inv, TxFits
  <1>2. UpdatesFit' /\ IdsOrder'
    BY <1>0, <1>1 DEF UpdatesFit, IdsOrder, Known
  <1>3. TxFits'
    BY <1>0, <1>1 DEF TxFits
  <1>4. LevelsFit'
    <2>1. ASSUME NEW j \in Indexes
          PROVE  level'[j] <= seen'[Chain[j]] /\ rolling'[j] = NoLevel
      BY <1>0, LevelNat DEF Inv
    <2>2. ~(cutoff' # NoLevel)
      BY <1>0
    <2> QED
      BY <2>1, <2>2, Zenon DEF LevelsFit
  <1>5. CommittedReverts'
    <2> SUFFICES ASSUME NEW k \in Keys \ Immune, NEW l \in Levels
                 PROVE  TakesBack(After(log', k, l), rows'[k], snap'[k][l])
      BY DEF CommittedReverts, Undoes
    <2>1. After(log', k, l) = {} /\ snap'[k][l] = rows'[k]
      BY <1>0 DEF After
    <2> QED
      BY <2>1, TakesBackNothing
  <1>6. LevelReverts' /\ RollbackReverts'
    BY <1>0 DEF LevelReverts, RollbackReverts
  <1> QED
    BY <1>2, <1>3, <1>4, <1>5, <1>6 DEF Inv

LEMMA InvRevertOne ==
  ASSUME Inv, TypeInv', RevertOne
  PROVE  Inv'
  <1> PICK u \in ToRevert : /\ Newest(u)
                            /\ trows' = [trows EXCEPT ![u.key] = Undone(u, @)]
                            /\ reverted' = reverted \cup {u}
    BY DEF RevertOne
  <1> PICK i \in Indexes, to \in Levels : i = tx.index /\ to = tx.level
    BY LevelNat DEF Inv
  <1>0. /\ tx.kind = "rollback" /\ rows' = rows /\ log' = log /\ level' = level
        /\ tx' = tx /\ pending' = pending /\ originals' = originals
        /\ rolling' = rolling /\ cutoff' = cutoff /\ nextId' = nextId
        /\ seen' = seen /\ snap' = snap
    BY DEF RevertOne
  <1>1. /\ pending = {} /\ rolling[i] = NoLevel /\ to < level[i] /\ level[i] <= tx.from
        /\ to \in Nat /\ level[i] \in Nat /\ tx.from \in Nat /\ u.level \in Nat
        /\ u \in log /\ u \notin reverted /\ u.index = i /\ u.level > to
        /\ u.key \in Keys \ Immune /\ Owner[u.key] = i
    <2>1. u \in log /\ u \notin reverted /\ u.index = i /\ u.level > to
      BY DEF ToRevert
    <2>2. tx.from \in Nat /\ to \in Nat
      BY LevelsNat DEF Inv, TypeInv, TypeOK, Txs
    <2> QED
      BY <1>0, <2>1, <2>2, LevelNat DEF Inv, TxFits, Known, UpdatesFit
  <1>2. UpdatesFit' /\ IdsOrder' /\ LevelsFit'
    BY <1>0 DEF Inv, UpdatesFit, IdsOrder, LevelsFit, Known, At
  <1>3. \A k \in Keys : k # u.key => trows'[k] = trows[k]
    BY DEF Inv, TypeInv, TypeOK
  <1>4. TxFits'
    <2>1. \A k \in Immune : trows'[k] = rows'[k]
      BY <1>0, <1>1, <1>3, ConstantsAssumption DEF Inv, TxFits
    <2> QED
      BY <1>0, <1>1, <1>3, <2>1 DEF Inv, TxFits
  <1>5. CommittedReverts'
    BY <1>0 DEF Inv, CommittedReverts, Undoes, Reverts, Reachable, At
  <1>6. LevelReverts'
    BY <1>0 DEF LevelReverts
  <1>7. RollbackReverts'
    <2> SUFFICES ASSUME NEW k \in Keys \ Immune, Owner[k] = i, NEW l \in Levels,
                        l <= to, Reachable(i, l)
                 PROVE  TakesBack(After(log \ reverted', k, l), trows'[k], snap[k][l])
      BY <1>0 DEF RollbackReverts, Undoes, Reachable, At
    <2> DEFINE S == After(log \ reverted, k, l)
    <2>1. TakesBack(S, trows[k], snap[k][l]) /\ S \subseteq log /\ l \in Nat
      BY <1>0, LevelsNat DEF Inv, RollbackReverts, Undoes, After
    <2>2. CASE k # u.key
      <3>1. After(log \ reverted', k, l) = S
        BY <2>2 DEF After
      <3> QED
        BY <1>3, <2>1, <2>2, <3>1
    <2>3. CASE k = u.key
      <3>1. After(log \ reverted', k, l) = S \ {u} /\ u \in S
        BY <1>1, <2>1, <2>3 DEF After
      <3>2. ASSUME NEW v \in S, v # u
            PROVE  v.id < u.id
        <4>1. /\ v \in Known /\ u \in Known /\ v \in log \ reverted /\ v.index = i
              /\ v.level \in Nat /\ v.id \in Nat /\ u.id \in Nat
          BY <1>1, LevelNat DEF Inv, UpdatesFit, Known, After
        <4>2. CASE v.level > to
          <5>1. v.level <= level[i]
            BY <1>1, <4>1 DEF Inv, UpdatesFit, At
          <5>2. v \in ToRevert
            BY <1>1, <4>1, <4>2, <5>1 DEF ToRevert
          <5>3. v.id <= u.id /\ v.id # u.id
            BY <3>2, <4>1, <5>2 DEF Newest, Inv, IdsOrder
          <5> QED
            BY <4>1, <5>3
        <4>3. CASE ~(v.level > to)
          BY <1>1, <4>1, <4>3 DEF Inv, IdsOrder
        <4> QED
          BY <4>2, <4>3
      <3>3. trows'[k] = Undone(u, trows[k])
        BY <2>3 DEF Inv, TypeInv, TypeOK
      <3>4. /\ S \in SUBSET Updates
            /\ trows[k] \in Row \cup {NoRow} /\ snap[k][l] \in Row \cup {NoRow}
            /\ u.action = "INSERT" => u.data = NoData
            /\ \A v \in S : v.action = "DELETE" => v.data \in Row
        <4>1. S \in SUBSET Updates
          BY <2>1 DEF Inv, TypeInv, TypeOK
        <4>2. trows[k] \in Row \cup {NoRow} /\ snap[k][l] \in Row \cup {NoRow}
          BY DEF Inv, TypeInv, TypeOK
        <4>3. u.action = "INSERT" => u.data = NoData
          BY <1>1 DEF Inv, UpdatesFit, Known
        <4>4. \A v \in S : v.action = "DELETE" => v.data \in Row
          BY <2>1 DEF Inv, TypeInv, DeletesHoldRows
        <4> QED
          BY <4>1, <4>2, <4>3, <4>4
      <3> HIDE DEF S
      <3>5. TakesBack(S \ {u}, Undone(u, trows[k]), snap[k][l])
        BY <2>1, <3>1, <3>2, <3>4, TakesBackReverted
      <3> QED
        BY <3>1, <3>3, <3>5
    <2> QED
      BY <2>2, <2>3
  <1> QED
    BY <1>2, <1>4, <1>5, <1>6, <1>7 DEF Inv

LEMMA InvCommitRollback ==
  ASSUME Plain, Inv, TypeInv', CommitRollback
  PROVE  Inv'
  <1> PICK i \in Indexes, to \in Levels : i = tx.index /\ to = tx.level
    BY LevelNat DEF Inv
  <1>0. /\ tx.kind = "rollback" /\ ToRevert = {} /\ rows' = trows
        /\ log' = log \ reverted /\ rolling' = [rolling EXCEPT ![i] = to]
        /\ tx'.kind = "none" /\ pending' = {} /\ reverted' = {}
        /\ originals' = [k \in Keys |-> {}]
        /\ level' = level /\ trows' = trows /\ cutoff' = cutoff
        /\ nextId' = nextId /\ seen' = seen /\ snap' = snap
    BY NoTxType DEF CommitRollback, CloseTx, Plain
  <1>1. /\ pending = {} /\ rolling[i] = NoLevel /\ to < level[i] /\ level[i] <= tx.from
        /\ seen[Chain[i]] - Depth <= to
        /\ \A k \in Keys : Owner[k] # i => trows[k] = rows[k]
        /\ \A u \in reverted : u.index = i
        /\ to \in Nat /\ level[i] \in Nat /\ tx.from \in Nat
    BY <1>0, LevelsNat DEF Inv, TxFits, TypeInv, TypeOK, Txs
  <1>2. /\ \A j \in Indexes : j # i => rolling'[j] = rolling[j] /\ At(j)' = At(j)
        /\ rolling'[i] = to /\ At(i)' = to /\ At(i) = level[i]
    <2>1. rolling'[i] = to /\ \A j \in Indexes : j # i => rolling'[j] = rolling[j]
      BY <1>0 DEF Inv, TypeInv, TypeOK
    <2>2. to # NoLevel
      BY LevelsNat
    <2> QED
      BY <1>0, <1>1, <2>1, <2>2 DEF At
  <1>3. \A u \in log \ reverted : u.level <= At(u.index)'
    <2> SUFFICES ASSUME NEW u \in log \ reverted PROVE u.level <= At(u.index)'
      OBVIOUS
    <2>1. u.level <= At(u.index) /\ u.level \in Nat /\ u.index \in Indexes
      BY LevelNat DEF Inv, UpdatesFit, Known, TypeInv, TypeOK, Updates
    <2>2. CASE u.index # i
      BY <1>2, <2>1, <2>2
    <2>3. CASE u.index = i
      <3>1. ~(u.level > to)
        BY <1>0, <1>1, <1>2, <2>1, <2>3 DEF ToRevert
      <3> QED
        BY <1>1, <1>2, <2>1, <2>3, <3>1
    <2> QED
      BY <2>2, <2>3
  <1>4. UpdatesFit' /\ IdsOrder'
    BY <1>0, <1>3 DEF Inv, UpdatesFit, IdsOrder, Known
  <1>5. TxFits'
    BY <1>0 DEF TxFits
  <1>6. LevelsFit'
    BY <1>0, <1>1, <1>2 DEF Inv, LevelsFit
  <1>7. CommittedReverts'
    <2> SUFFICES ASSUME NEW k \in Keys \ Immune, NEW m \in Levels, Reverts(Owner[k], m)'
                 PROVE  TakesBack(After(log \ reverted, k, m), trows[k], snap[k][m])
      BY <1>0 DEF CommittedReverts, Undoes
    <2>0. Owner[k] \in Indexes /\ m \in Nat
      BY LevelNat, LevelsNat DEF Inv
    <2>1. CASE Owner[k] # i
      <3>1. Reverts(Owner[k], m)
        BY <1>0, <1>2, <2>0, <2>1 DEF Reverts, Reachable
      <3>2. After(log \ reverted, k, m) = After(log, k, m)
        BY <1>1, <2>1 DEF After, Inv, UpdatesFit, Known
      <3> QED
        BY <1>1, <2>1, <3>1, <3>2 DEF Inv, CommittedReverts, Undoes
    <2>2. CASE Owner[k] = i
      <3>1. m <= to /\ m >= seen[Chain[i]] - Depth
        BY <1>0, <1>1, <1>2, <2>0, <2>2, LevelNat DEF Reverts, Reachable, Inv
      <3>2. Reachable(i, m)
        BY <1>1, <1>2, <2>0, <3>1 DEF Reachable
      <3> QED
        BY <1>0, <2>2, <3>1, <3>2 DEF Inv, RollbackReverts, Undoes
    <2> QED
      BY <2>1, <2>2
  <1>8. LevelReverts' /\ RollbackReverts'
    BY <1>0 DEF LevelReverts, RollbackReverts
  <1> QED
    BY <1>4, <1>5, <1>6, <1>7, <1>8 DEF Inv

(* Moving the level afterwards changes what is stored, not where rows stand.*)
LEMMA InvMoveLevel ==
  ASSUME Inv, TypeInv', NEW i \in Indexes, MoveLevel(i)
  PROVE  Inv'
  <1>0. /\ tx.kind = "none" /\ rolling[i] # NoLevel
        /\ level' = [level EXCEPT ![i] = rolling[i]]
        /\ rolling' = [rolling EXCEPT ![i] = NoLevel]
        /\ rows' = rows /\ log' = log /\ tx' = tx /\ trows' = trows
        /\ pending' = pending /\ reverted' = reverted /\ originals' = originals
        /\ cutoff' = cutoff /\ nextId' = nextId /\ seen' = seen /\ snap' = snap
    BY DEF MoveLevel, Idle
  <1>1. /\ \A j \in Indexes : j # i => level'[j] = level[j] /\ rolling'[j] = rolling[j]
        /\ level'[i] = rolling[i] /\ rolling'[i] = NoLevel
    BY <1>0 DEF Inv, TypeInv, TypeOK
  <1>2. \A j \in Indexes : At(j)' = At(j)
    BY <1>0, <1>1 DEF At
  <1>3. UpdatesFit'
    <2>1. \A u \in log : u.index \in Indexes
      BY DEF Inv, TypeInv, TypeOK, Updates
    <2> QED
      BY <1>0, <1>2, <2>1 DEF Inv, UpdatesFit, Known
  <1>4. IdsOrder' /\ TxFits'
    BY <1>0 DEF Inv, IdsOrder, TxFits, Known
  <1>5. LevelsFit'
    <2>1. ASSUME NEW j \in Indexes
          PROVE  /\ level'[j] <= seen'[Chain[j]]
                 /\ rolling'[j] # NoLevel => rolling'[j] < level'[j]
      <3>1. level[j] <= seen[Chain[j]] /\ (rolling[j] # NoLevel => rolling[j] < level[j])
        BY DEF Inv, LevelsFit
      <3>2. level[j] \in Nat /\ At(j) \in Nat /\ seen[Chain[j]] \in Nat
        BY LevelNat DEF Inv
      <3> QED
        BY <1>0, <1>1, <3>1, <3>2 DEF At
    <2>2. ASSUME NEW j \in Indexes, cutoff # NoLevel
          PROVE  cutoff <= seen'[Chain[j]] - Depth
      BY <1>0, <2>2 DEF Inv, LevelsFit
    <2> QED
      BY <1>0, <2>1, <2>2 DEF LevelsFit
  <1>6. CommittedReverts'
    <2> SUFFICES ASSUME NEW k \in Keys \ Immune, NEW m \in Levels, Reverts(Owner[k], m)'
                 PROVE  Undoes(log, k, m, rows[k])'
      BY DEF CommittedReverts
    <2>1. Reverts(Owner[k], m)
      BY <1>0, <1>2, LevelNat DEF Reverts, Reachable, Inv
    <2> QED
      BY <1>0, <2>1 DEF Inv, CommittedReverts, Undoes
  <1>7. LevelReverts' /\ RollbackReverts'
    BY <1>0 DEF LevelReverts, RollbackReverts
  <1> QED
    BY <1>3, <1>4, <1>5, <1>6, <1>7 DEF Inv

-----------------------------------------------------------------------------
(* Cleaning up, crashing, theorems.                                         *)

LEMMA InvCleanupRead ==
  ASSUME Plain, Inv, TypeInv', CleanupRead
  PROVE  Inv'
  <1>0. /\ rows' = rows /\ log' = log /\ level' = level /\ tx' = tx /\ trows' = trows
        /\ pending' = pending /\ reverted' = reverted /\ originals' = originals
        /\ rolling' = rolling /\ nextId' = nextId /\ seen' = seen /\ snap' = snap
        /\ tx.kind = "none"
    BY DEF CleanupRead, Idle
  <1>1. PICK i \in Indexes : cutoff' = level[i] - Depth
    BY DEF CleanupRead
  <1>2. UpdatesFit' /\ IdsOrder' /\ TxFits'
    BY <1>0 DEF Inv, UpdatesFit, IdsOrder, TxFits, Known, At
  <1>3. LevelsFit'
    <2>1. ASSUME NEW j \in Indexes
          PROVE  cutoff' <= seen[Chain[j]] - Depth
      <3>1. level[i] <= seen[Chain[j]]
        BY DEF Inv, LevelsFit, Plain
      <3> QED
        BY <1>1, <3>1, LevelNat DEF Inv
    <2> QED
      BY <1>0, <2>1 DEF Inv, LevelsFit
  <1>4. CommittedReverts'
    BY <1>0 DEF Inv, CommittedReverts, Undoes, Reverts, Reachable, At
  <1>5. LevelReverts' /\ RollbackReverts'
    BY <1>0 DEF LevelReverts, RollbackReverts
  <1> QED
    BY <1>2, <1>3, <1>4, <1>5 DEF Inv

LEMMA InvCleanupDelete ==
  ASSUME Inv, TypeInv', CleanupDelete
  PROVE  Inv'
  <1>0. /\ rows' = rows /\ level' = level /\ tx' = tx /\ trows' = trows
        /\ pending' = pending /\ reverted' = reverted /\ originals' = originals
        /\ rolling' = rolling /\ nextId' = nextId /\ seen' = seen /\ snap' = snap
        /\ tx.kind = "none" /\ cutoff # NoLevel /\ cutoff' = NoLevel
        /\ log' = {u \in log : u.level >= cutoff}
    BY DEF CleanupDelete, Idle
  <1>1. UpdatesFit' /\ IdsOrder'
    BY <1>0 DEF Inv, UpdatesFit, IdsOrder, Known, At
  <1>2. TxFits'
    BY <1>0 DEF Inv, TxFits
  <1>3. LevelsFit'
    <2>1. ~(cutoff' # NoLevel)
      BY <1>0
    <2>2. ASSUME NEW i \in Indexes
          PROVE  /\ level'[i] <= seen'[Chain[i]]
                 /\ rolling'[i] # NoLevel => rolling'[i] < level'[i]
      BY <1>0 DEF Inv, LevelsFit
    <2> QED
      BY <2>1, <2>2, Zenon DEF LevelsFit
  <1>4. CommittedReverts'
    <2> SUFFICES ASSUME NEW k \in Keys \ Immune, NEW l \in Levels, Reverts(Owner[k], l)
                 PROVE  TakesBack(After(log', k, l), rows[k], snap[k][l])
      BY <1>0 DEF CommittedReverts, Undoes, Reverts, Reachable, At
    <2>0. Owner[k] \in Indexes /\ l \in Nat
      BY LevelNat, LevelsNat DEF Inv
    <2>1. CASE Reachable(Owner[k], l)
      <3>1. cutoff <= l
        <4>1. cutoff <= seen[Chain[Owner[k]]] - Depth /\ cutoff \in Nat
          BY <1>0, <2>0, LevelsNat DEF Inv, LevelsFit, TypeInv, TypeOK
        <4> QED
          BY <2>0, <2>1, <4>1, LevelNat DEF Reachable, Inv
      <3>2. ASSUME NEW u \in log, u.level > l
            PROVE  u.level >= cutoff
        <4>1. u.level \in Nat /\ cutoff \in Nat
          BY <1>0, LevelNat, LevelsNat DEF Inv, Known, TypeInv, TypeOK
        <4> QED
          BY <2>0, <3>1, <3>2, <4>1
      <3>3. After(log', k, l) = After(log, k, l)
        BY <1>0, <3>2 DEF After
      <3> QED
        BY <3>3 DEF Inv, CommittedReverts, Undoes, Reverts
    <2>2. CASE l = At(Owner[k])
      <3>1. After(log', k, l) = {}
        <4> SUFFICES ASSUME NEW u \in log, u.key = k, u.level > l PROVE FALSE
          BY <1>0 DEF After
        <4>1. u.level <= l /\ u.level \in Nat
          BY <2>2, LevelNat DEF Inv, UpdatesFit, Known
        <4> QED
          BY <2>0, <4>1
      <3> QED
        BY <2>2, <3>1, Current, TakesBackNothing
    <2> QED
      BY <2>1, <2>2 DEF Reverts
  <1>5. LevelReverts' /\ RollbackReverts'
    BY <1>0 DEF LevelReverts, RollbackReverts
  <1> QED
    BY <1>1, <1>2, <1>3, <1>4, <1>5 DEF Inv

LEMMA InvCrash ==
  ASSUME Plain, Inv, TypeInv', Crash
  PROVE  Inv'
  <1>1. \A i \in Indexes : rolling[i] = NoLevel
    BY DEF Crash, CrashPoint, Plain
  <1>0. /\ trows' = rows /\ tx'.kind = "none" /\ pending' = {} /\ reverted' = {}
        /\ originals' = [k \in Keys |-> {}]
        /\ \A i \in Indexes : rolling'[i] = NoLevel
        /\ cutoff' = NoLevel /\ rows' = rows /\ log' = log /\ level' = level
        /\ nextId' = nextId /\ seen' = seen /\ snap' = snap
    BY NoTxType DEF Crash
  <1>2. \A i \in Indexes : At(i)' = At(i)
    BY <1>0, <1>1 DEF At
  <1>3. UpdatesFit' /\ IdsOrder'
    <2>1. \A u \in log : u.index \in Indexes
      BY DEF Inv, TypeInv, TypeOK, Updates
    <2> QED
      BY <1>0, <1>2, <2>1 DEF Inv, UpdatesFit, IdsOrder, Known
  <1>4. TxFits'
    BY <1>0 DEF TxFits
  <1>5. LevelsFit'
    <2>1. ASSUME NEW i \in Indexes
          PROVE  level'[i] <= seen'[Chain[i]] /\ rolling'[i] = NoLevel
      BY <1>0 DEF Inv, LevelsFit
    <2>2. ~(cutoff' # NoLevel)
      BY <1>0
    <2> QED
      BY <2>1, <2>2, Zenon DEF LevelsFit
  <1>6. CommittedReverts'
    <2> SUFFICES ASSUME NEW k \in Keys \ Immune, NEW m \in Levels, Reverts(Owner[k], m)'
                 PROVE  Undoes(log, k, m, rows[k])'
      BY DEF CommittedReverts
    <2>1. Reverts(Owner[k], m)
      BY <1>0, <1>2, LevelNat DEF Reverts, Reachable, Inv
    <2> QED
      BY <1>0, <2>1 DEF Inv, CommittedReverts, Undoes
  <1>7. LevelReverts' /\ RollbackReverts'
    BY <1>0 DEF LevelReverts, RollbackReverts
  <1> QED
    BY <1>3, <1>4, <1>5, <1>6, <1>7 DEF Inv

LEMMA InvStutter ==
  ASSUME Inv, TypeInv', UNCHANGED vars
  PROVE  Inv'
  <1>0. /\ rows' = rows /\ level' = level /\ tx' = tx /\ trows' = trows /\ log' = log
        /\ pending' = pending /\ reverted' = reverted /\ originals' = originals
        /\ rolling' = rolling /\ nextId' = nextId /\ seen' = seen /\ snap' = snap
        /\ cutoff' = cutoff
    BY DEF vars
  <1>1. UpdatesFit' /\ IdsOrder' /\ TxFits' /\ LevelsFit'
    BY <1>0 DEF Inv, UpdatesFit, IdsOrder, TxFits, LevelsFit, Known, At
  <1>2. CommittedReverts'
    BY <1>0 DEF Inv, CommittedReverts, Undoes, Reverts, Reachable, At
  <1>3. LevelReverts'
    <2> SUFFICES ASSUME tx.kind = "level", tx.versioned,
                        NEW k \in Keys \ Immune, Owner[k] = tx.index,
                        NEW l \in Levels, Reverts(tx.index, l)
                 PROVE  Undoes(Known, k, l, trows[k])' /\ Remembers(Known, k, l)'
      BY <1>0 DEF LevelReverts, Reverts, Reachable, At
    <2>1. Undoes(Known, k, l, trows[k]) /\ Remembers(Known, k, l)
      BY DEF Inv, LevelReverts
    <2>2. Known' = Known
      BY <1>0 DEF Known
    <2> QED
      BY <1>0, <2>1, <2>2 DEF Undoes, Remembers
  <1>4. RollbackReverts'
    BY <1>0 DEF Inv, RollbackReverts, Undoes, Reachable, At
  <1> QED
    BY <1>1, <1>2, <1>3, <1>4 DEF Inv

LEMMA InvStep ==
  ASSUME Plain, Inv, [Next]_vars
  PROVE  Inv'
  <1>1. TypeInv'
    BY TypeStep DEF Inv
  <1>2. CASE HandlerStep
    BY <1>1, <1>2, InvHandler
  <1>3. CASE IndexStep
    BY <1>1, <1>3, InvBeginLevel, InvSkipLevel, InvCommitLevel DEF IndexStep
  <1>4. CASE RollbackStep
    BY <1>1, <1>4, InvBeginRollback, InvReindex, InvRevertOne, InvCommitRollback,
       InvMoveLevel DEF RollbackStep
  <1>5. CASE CleanupStep
    BY <1>1, <1>5, InvCleanupRead, InvCleanupDelete DEF CleanupStep
  <1>6. CASE Crash
    BY <1>1, <1>6, InvCrash
  <1>7. CASE UNCHANGED vars
    BY <1>1, <1>7, InvStutter
  <1> QED
    BY <1>2, <1>3, <1>4, <1>5, <1>6, <1>7 DEF Next

(* Plain speaks of constants only: it holds in every state or in none.      *)
LEMMA InvAlways ==
  ASSUME Plain
  PROVE  Spec => []Inv
  <1>1. Inv /\ [Next]_vars => Inv'
    BY InvStep
  <1> QED
    BY <1>1, InvInit, PTL DEF Spec

(* Rolling back any number of times, by any depth, with levels and cleanups *)
(* in between, leaves in the tables what the levels up to the index level   *)
(* left there: nothing of a dropped level stays, nothing else is lost       *)
(* (transactions.py:55-110, models/__init__.py:177-222, context.py:594-608).*)
THEOREM RowsFollowLevels ==
  ASSUME Plain
  PROVE  Spec => []TablesMatchLevel
  BY CurrentRows, InvAlways, PTL

(* The updates the cleanup task keeps take every row back to every level    *)
(* the chain may still return to (transactions.py:55-82).                   *)
THEOREM UpdatesSuffice ==
  ASSUME Plain
  PROVE  Spec => []LogSuffices
  <1>1. Inv => LogSuffices
    BY DEF Inv, CommittedReverts, Reverts, LogSuffices
  <1> QED
    BY <1>1, InvAlways, PTL

(* A rollback leaves no update of a level above its target, so none is      *)
(* applied again by a later rollback (context.py:594-608).                  *)
THEOREM NoStaleUpdates ==
  ASSUME Plain
  PROVE  Spec => []NoUpdateFromAbove
  <1>1. Inv => NoUpdateFromAbove
    BY DEF Inv, UpdatesFit, NoUpdateFromAbove
  <1> QED
    BY <1>1, InvAlways, PTL

-----------------------------------------------------------------------------
(* The machinery implements the store.  An index level that is committed or *)
(* skipped is an Advance, the commit of a rollback a GoBack, a reindexing a *)
(* Wipe; everything else leaves the store alone.                            *)

Stood == [i \in Indexes |-> At(i)]

LEMMA StoodTable ==
  /\ \A i \in Indexes : Stood[i] = At(i)
  /\ Stood' = [i \in Indexes |-> At(i)']
  /\ Store!Heights = Levels
  BY DEF Stood, Store!Heights, Levels

LEMMA StoreInit == Init => Store!Init
  <1> SUFFICES ASSUME Init PROVE Store!Init
    OBVIOUS
  <1>1. Stood = [i \in Indexes |-> 0]
    BY DEF Init, Stood, At
  <1>2. rows = [k \in Keys |-> NoRow] /\ snap = [k \in Keys |-> [m \in Levels |-> NoRow]]
    BY DEF Init
  <1> QED
    BY <1>1, <1>2, StoodTable DEF Store!Init, Stood

(* Nothing the store shows has changed.                                     *)
LEMMA StoreStutters ==
  ASSUME rows' = rows, snap' = snap, \A i \in Indexes : At(i)' = At(i)
  PROVE  UNCHANGED <<rows, Stood, snap>>
  BY DEF Stood

LEMMA StoreAdvances ==
  ASSUME Inv, Inv', NEW i \in Indexes, NEW l \in Levels,
         rolling[i] = NoLevel, level[i] < l, rolling' = rolling,
         level' = [level EXCEPT ![i] = l], Remember(i, l, rows'),
         \A k \in Keys : Owner[k] # i => rows'[k] = rows[k]
  PROVE  Store!Advance(i, l)
  <1>1. /\ At(i) = level[i] /\ At(i)' = l
        /\ \A j \in Indexes : j # i => At(j)' = At(j)
    BY DEF At, Inv, TypeInv, TypeOK
  <1>2. l > Stood[i]
    BY <1>1, StoodTable, LevelNat, LevelsNat DEF Inv
  <1>3. Stood' = [Stood EXCEPT ![i] = l]
    BY <1>1, StoodTable DEF Stood
  <1>4. DOMAIN rows' = Keys
    BY DEF Inv, TypeInv, TypeOK
  <1>5. snap' = [k \in Keys |-> [m \in Levels |->
                   IF Owner[k] # i \/ m <= Stood[i] THEN snap[k][m]
                   ELSE IF m < l THEN snap[k][Stood[i]] ELSE rows'[k]]]
    BY <1>1, StoodTable DEF Remember
  <1> QED
    BY <1>2, <1>3, <1>4, <1>5, StoodTable DEF Store!Advance, Stood

LEMMA StoreGoesBack ==
  ASSUME Plain, Inv, Inv', CommitRollback
  PROVE  Store!GoBack(tx.index, tx.level)
  <1> PICK i \in Indexes, to \in Levels : i = tx.index /\ to = tx.level
    BY LevelNat DEF Inv
  <1>1. /\ rolling[i] = NoLevel /\ to < level[i] /\ to # NoLevel
        /\ \A k \in Keys : Owner[k] # i => trows[k] = rows[k]
        /\ \A k \in Immune : trows[k] = rows[k]
        /\ rows' = trows /\ snap' = snap /\ level' = level
        /\ rolling' = [rolling EXCEPT ![i] = to]
    BY LevelsNat DEF Inv, TxFits, CommitRollback
  <1>2. /\ At(i) = level[i] /\ At(i)' = to
        /\ \A j \in Indexes : j # i => At(j)' = At(j)
    BY <1>1 DEF At, Inv, TypeInv, TypeOK
  <1>3. Stood' = [Stood EXCEPT ![i] = to] /\ to < Stood[i]
    BY <1>1, <1>2, StoodTable DEF Stood
  <1>4. ASSUME NEW k \in Keys \ Immune, Owner[k] = i
        PROVE  rows'[k] = snap[k][to]
    <2>1. rows'[k] = snap'[k][At(Owner[k])']
      BY CurrentNext DEF TablesMatchLevel
    <2> QED
      BY <1>1, <1>2, <1>4, <2>1
  <1>5. rows' = [k \in Keys |-> IF Owner[k] = i /\ k \notin Immune
                                THEN snap[k][to] ELSE rows[k]]
    <2>1. rows' \in [Keys -> Row \cup {NoRow}]
      BY DEF Inv, TypeInv, TypeOK
    <2>2. \A k \in Keys : rows'[k] = IF Owner[k] = i /\ k \notin Immune
                                     THEN snap[k][to] ELSE rows[k]
      BY <1>1, <1>4
    <2> QED
      BY <2>1, <2>2
  <1> QED
    BY <1>1, <1>3, <1>5 DEF Store!GoBack, Stood

LEMMA StoreWiped ==
  ASSUME Inv, NEW i \in Indexes, NEW from \in Levels, NEW to \in Levels,
         Reindex(i, from, to)
  PROVE  Store!Wipe
  <1>1. \A j \in Indexes : At(j)' = 0
    BY DEF Reindex, At
  <1>2. Stood' = [j \in Indexes |-> 0]
    BY <1>1, StoodTable
  <1>3. rows' = [k \in Keys |-> IF k \in Immune THEN rows[k] ELSE NoRow]
    BY DEF Reindex
  <1>4. snap' = [k \in Keys |-> [m \in Levels |-> rows'[k]]]
    BY DEF Reindex
  <1> QED
    BY <1>2, <1>3, <1>4, StoodTable DEF Store!Wipe, Stood

LEMMA StoreStep ==
  ASSUME Plain, Inv, Inv', [Next]_vars
  PROVE  [Store!Next]_<<rows, Stood, snap>>
  <1> USE StoodTable
  <1>1. CASE HandlerStep
    <2>1. rows' = rows /\ snap' = snap /\ level' = level /\ rolling' = rolling
      BY ZenonT(40), <1>1 DEF HandlerStep, Load, MutateInPlace, Create, Save, Delete, QueryUpdate,
                  QueryDelete, BulkConflict, Tables
    <2> QED
      BY <2>1, StoreStutters DEF At
  <1>2. ASSUME NEW i \in Indexes, NEW l \in Levels, NEW s \in Levels, BeginLevel(i, l, s)
        PROVE  UNCHANGED <<rows, Stood, snap>>
    BY <1>2, StoreStutters DEF BeginLevel, At
  <1>3. ASSUME NEW i \in Indexes, NEW l \in Levels, NEW s \in Levels, SkipLevel(i, l, s)
        PROVE  Store!Next
    <2>1. Store!Advance(i, l)
      BY <1>3, StoreAdvances DEF SkipLevel
    <2> QED
      BY <2>1 DEF Store!Next
  <1>4. CASE CommitLevel
    <2> PICK i \in Indexes, l \in Levels : i = tx.index /\ l = tx.level
      BY LevelNat DEF Inv
    <2>1. /\ rolling[i] = NoLevel /\ level[i] < l /\ rolling' = rolling
          /\ level' = [level EXCEPT ![i] = l] /\ Remember(i, l, rows')
          /\ \A k \in Keys : Owner[k] # i => rows'[k] = rows[k]
      BY <1>4 DEF CommitLevel, Inv, TxFits
    <2>2. Store!Advance(i, l)
      BY <2>1, StoreAdvances
    <2> QED
      BY <2>2 DEF Store!Next
  <1>5. ASSUME NEW i \in Indexes, NEW from \in Levels, NEW to \in Levels,
               BeginRollback(i, from, to)
        PROVE  UNCHANGED <<rows, Stood, snap>>
    BY <1>5, StoreStutters DEF BeginRollback, At
  <1>6. ASSUME NEW i \in Indexes, NEW from \in Levels, NEW to \in Levels,
               Reindex(i, from, to)
        PROVE  Store!Next
    BY <1>6, StoreWiped DEF Store!Next
  <1>7. CASE RevertOne
    BY <1>7, StoreStutters DEF RevertOne, At
  <1>8. CASE CommitRollback
    BY <1>8, StoreGoesBack, LevelNat DEF Store!Next, Inv
  <1>9. ASSUME NEW i \in Indexes, MoveLevel(i)
        PROVE  UNCHANGED <<rows, Stood, snap>>
    <2>1. \A j \in Indexes : At(j)' = At(j)
      BY <1>9 DEF MoveLevel, At, Inv, TypeInv, TypeOK
    <2> QED
      BY <1>9, <2>1, StoreStutters DEF MoveLevel
  <1>10. CASE CleanupStep
    BY <1>10, StoreStutters DEF CleanupStep, CleanupRead, CleanupDelete, At
  <1>11. CASE Crash
    <2>1. \A i \in Indexes : rolling[i] = NoLevel
      BY <1>11 DEF Crash, CrashPoint, Plain
    <2>2. rows' = rows /\ snap' = snap /\ \A i \in Indexes : At(i)' = At(i)
      BY <1>11, <2>1 DEF Crash, At
    <2> QED
      BY <2>2, StoreStutters
  <1>12. CASE UNCHANGED vars
    BY <1>12, StoreStutters DEF vars, At
  <1> QED
    BY <1>1, <1>2, <1>3, <1>4, <1>5, <1>6, <1>7, <1>8, <1>9, <1>10, <1>11, <1>12
    DEF Next, IndexStep, RollbackStep

(* Seen from the tables and from where they stand, the updates, rollbacks,  *)
(* cleanups and crashes come down to: a level is added in one step, or the  *)
(* rows of an earlier level come back in one step.                          *)
THEOREM StoreImplemented ==
  ASSUME Plain
  PROVE  Spec => ImplementsStore
  <1>1. Inv /\ Inv' /\ [Next]_vars => [Store!Next]_<<rows, Stood, snap>>
    BY StoreStep
  <1>2. Spec => Store!Init /\ [][Store!Next]_<<rows, Stood, snap>>
    BY <1>1, StoreInit, InvAlways, PTL DEF Spec
  <1> QED
    BY <1>2, PTL DEF ImplementsStore, Store!Spec, Stood

(* No rollback and no reindexing takes anything out of an immune table      *)
(* (models/__init__.py:177, context.py:231-240).                            *)
THEOREM ImmuneTablesStay ==
  ASSUME Plain
  PROVE  Spec => ImmuneOnlyIndexed
  <1> DEFINE A == \A k \in Immune : rows'[k] # rows[k] =>
                    tx.kind = "level" /\ tx.index = Owner[k]
  <1>1. ASSUME Inv, Next PROVE A
    <2> SUFFICES ASSUME NEW k \in Immune, rows'[k] # rows[k]
                 PROVE  tx.kind = "level" /\ tx.index = Owner[k]
      OBVIOUS
    <2>0. k \in Keys /\ rows' # rows
      BY ConstantsAssumption
    <2>1. ~HandlerStep
      BY ZenonT(40), <2>0 DEF HandlerStep, Load, MutateInPlace, Create, Save, Delete, QueryUpdate,
                  QueryDelete, BulkConflict, Tables
    <2>2. ~CleanupStep /\ ~Crash /\ ~RevertOne
      BY <2>0 DEF CleanupStep, CleanupRead, CleanupDelete, Crash, RevertOne
    <2>3. IndexStep => CommitLevel
      BY <2>0 DEF IndexStep, BeginLevel, SkipLevel
    <2>4. ~RollbackStep
      <3>1. ~CommitRollback
        BY <1>1, <2>0 DEF CommitRollback, Inv, TxFits
      <3>2. ASSUME NEW i \in Indexes, NEW from \in Levels, NEW to \in Levels
            PROVE  ~BeginRollback(i, from, to) /\ ~Reindex(i, from, to)
        BY <2>0 DEF BeginRollback, Reindex
      <3>3. \A i \in Indexes : ~MoveLevel(i)
        BY <2>0 DEF MoveLevel
      <3> QED
        BY <2>2, <3>1, <3>2, <3>3 DEF RollbackStep
    <2> QED
      BY <1>1, <2>0, <2>1, <2>2, <2>3, <2>4 DEF Next, CommitLevel, Inv, TxFits
  <1>2. ASSUME UNCHANGED vars PROVE A
    BY <1>2 DEF vars
  <1>3. Inv /\ [Next]_vars => A
    BY <1>1, <1>2
  <1> HIDE DEF A
  <1>4. Spec => [][A]_vars
    BY <1>3, InvAlways, PTL DEF Spec
  <1> QED
    BY <1>4 DEF ImmuneOnlyIndexed, A

-----------------------------------------------------------------------------
(* Whose rows a transaction writes, and whether a row exists.  What follows *)
(* is about rows and updates, not about their values, and needs less than   *)
(* Plain: any idiom but one is allowed, and so are CachedModel, crashes     *)
(* between the two halves of a rollback and indexes of several chains.      *)

(* An open transaction has written rows of its own index only.              *)
OwnRows ==
  /\ \A u \in Known : u.index = Owner[u.key]
  /\ tx.kind = "none" => trows = rows
  /\ tx.kind # "level" => pending = {}
  /\ tx.kind # "none" => \A k \in Keys : Owner[k] # tx.index => trows[k] = rows[k]

OwnInv == TypeInv /\ OwnRows

(* What a handler may do: write nothing, or one row of its own index and    *)
(* record the change.                                                       *)
Writes(k, action, data) ==
  /\ Writable(k)
  /\ \A j \in Keys : j # k => trows'[j] = trows[j]
  /\ Record(k, action, data)
  /\ action # "INSERT" /\ "double_delete" \notin Unsafe => trows[k] # NoRow
  /\ action = "DELETE" => trows'[k] = NoRow

WritesNothing == UNCHANGED <<trows, pending, nextId>>

LEMMA HandlerWrites ==
  ASSUME TypeInv, HandlerStep
  PROVE  /\ rows' = rows /\ log' = log /\ level' = level /\ tx' = tx
         /\ reverted' = reverted /\ rolling' = rolling /\ cutoff' = cutoff
         /\ seen' = seen /\ snap' = snap /\ tx.kind = "level"
         /\ \/ WritesNothing
            \/ \E k \in Keys, action \in Actions, data \in Data : Writes(k, action, data)
  <1> DEFINE Rest == /\ rows' = rows /\ log' = log /\ level' = level /\ tx' = tx
                     /\ reverted' = reverted /\ rolling' = rolling
                     /\ cutoff' = cutoff /\ seen' = seen /\ snap' = snap
                     /\ tx.kind = "level"
             W == \E k \in Keys, action \in Actions, data \in Data : Writes(k, action, data)
  <1> PICK k \in Keys :
         \/ Load(k)
         \/ \E o \in Row, f \in Fields, v \in Vals : MutateInPlace(k, o, f, v)
         \/ \E r \in Row : Create(k, r)
         \/ \E o, r \in Row, X \in SUBSET Fields : Save(k, o, r, X)
         \/ \E r \in Row : Delete(k, r)
         \/ \E f \in Fields, v \in Vals : QueryUpdate(k, f, v)
         \/ QueryDelete(k)
         \/ \E r \in Row : BulkConflict(k, r)
    BY DEF HandlerStep
  <1>0. /\ trows \in [Keys -> Row \cup {NoRow}]
        /\ \A action \in Actions, data \in Data : Writes(k, action, data) => W
    BY DEF TypeInv, TypeOK
  <1> HIDE DEF W
  <1>1. CASE Load(k) \/ \E o \in Row, f \in Fields, v \in Vals : MutateInPlace(k, o, f, v)
    BY <1>1 DEF Load, MutateInPlace, Tables, WritesNothing, Writable
  <1>2. CASE \E r \in Row : Create(k, r)
    <2> PICK r \in Row : Create(k, r)
      BY <1>2
    <2>1. Writes(k, "INSERT", NoData)
      BY <1>0 DEF Create, Writes
    <2>2. Rest
      BY DEF Create, Tables, Writable
    <2> QED
      BY <1>0, <2>1, <2>2, NoDataType DEF Actions, W
  <1>3. CASE \E o, r \in Row, X \in SUBSET Fields : Save(k, o, r, X)
    <2> PICK o \in Row, r \in Row, X \in SUBSET Fields : Save(k, o, r, X)
      BY <1>3
    <2>1. Writes(k, "UPDATE", Diff(o, r))
      BY <1>0 DEF Save, Writes
    <2>2. Rest
      BY DEF Save, Tables, Writable
    <2> QED
      BY <1>0, <2>1, <2>2, DiffType DEF Actions, W
  <1>4. CASE \E r \in Row : Delete(k, r)
    <2> PICK r \in Row : Delete(k, r)
      BY <1>4
    <2>1. Writes(k, "DELETE", r)
      BY <1>0 DEF Delete, Writes
    <2>2. Rest
      BY DEF Delete, Tables, Writable
    <2> QED
      BY <1>0, <2>1, <2>2, RowIsData DEF Actions, W
  <1>5. CASE \E f \in Fields, v \in Vals : QueryUpdate(k, f, v)
    <2> PICK f \in Fields, v \in Vals : QueryUpdate(k, f, v)
      BY <1>5
    <2> DEFINE new == [trows[k] EXCEPT ![f] = v]
    <2>1. trows[k] \in Row /\ new \in Row
      BY <1>0 DEF QueryUpdate, Row
    <2>2. Writes(k, "UPDATE", Diff(trows[k], new))
      BY <1>0 DEF QueryUpdate, Writes
    <2>3. Rest
      BY DEF QueryUpdate, Tables, Writable
    <2> QED
      BY <1>0, <2>1, <2>2, <2>3, DiffType DEF Actions, W
  <1>6. CASE QueryDelete(k)
    <2>1. trows[k] \in Row
      BY <1>0, <1>6 DEF QueryDelete
    <2>2. Writes(k, "DELETE", trows[k])
      BY <1>0, <1>6 DEF QueryDelete, Writes
    <2>3. Rest
      BY <1>6 DEF QueryDelete, Tables, Writable
    <2> QED
      BY <1>0, <2>1, <2>2, <2>3, RowIsData DEF Actions, W
  <1>7. CASE \E r \in Row : BulkConflict(k, r)
    <2> PICK r \in Row : BulkConflict(k, r)
      BY <1>7
    <2>1. Writes(k, "INSERT", NoData)
      BY <1>0 DEF BulkConflict, Writes
    <2>2. Rest
      BY DEF BulkConflict, Tables, Writable
    <2> QED
      BY <1>0, <2>1, <2>2, NoDataType DEF Actions, W
  <1> QED
    BY <1>1, <1>2, <1>3, <1>4, <1>5, <1>6, <1>7 DEF W

(* What Record does to the queue.                                           *)
LEMMA Queued ==
  ASSUME TypeInv, NEW k \in Keys, NEW action \in Actions, NEW data \in Data,
         Writes(k, action, data)
  PROVE  /\ tx.kind = "level" /\ tx.index = Owner[k]
         /\ \/ /\ Recorded(k, action, data)
               /\ pending' = pending \cup {NewUpdate(k, action, data)}
               /\ nextId' = nextId + 1
            \/ /\ ~Recorded(k, action, data)
               /\ pending' = pending /\ nextId' = nextId
  BY DEF Writes, Writable, Record

LEMMA OwnInit == Init => OwnInv
  BY TypeInit, NoTxType DEF Init, OwnInv, OwnRows, Known

LEMMA OwnHandler ==
  ASSUME OwnInv, HandlerStep
  PROVE  OwnRows'
  <1>1. /\ rows' = rows /\ log' = log /\ tx' = tx /\ tx.kind = "level"
        /\ \/ WritesNothing
           \/ \E k \in Keys, action \in Actions, data \in Data : Writes(k, action, data)
    BY HandlerWrites DEF OwnInv
  <1>2. CASE WritesNothing
    BY <1>1, <1>2 DEF WritesNothing, OwnInv, OwnRows, Known
  <1>3. CASE \E k \in Keys, action \in Actions, data \in Data : Writes(k, action, data)
    <2> PICK k \in Keys, action \in Actions, data \in Data : Writes(k, action, data)
      BY <1>3
    <2>1. /\ tx.index = Owner[k]
          /\ pending' = pending \/ pending' = pending \cup {NewUpdate(k, action, data)}
      BY Queued DEF OwnInv
    <2>2. \A u \in Known' : u.index = Owner[u.key]
      BY <1>1, <2>1 DEF OwnInv, OwnRows, Known, NewUpdate
    <2>3. \A j \in Keys : Owner[j] # tx.index => trows'[j] = trows[j]
      BY <2>1 DEF Writes
    <2> QED
      BY <1>1, <2>2, <2>3 DEF OwnInv, OwnRows
  <1> QED
    BY <1>1, <1>2, <1>3

LEMMA OwnRevertOne ==
  ASSUME OwnInv, RevertOne
  PROVE  OwnRows'
  <1> PICK u \in ToRevert : trows' = [trows EXCEPT ![u.key] = Undone(u, @)]
    BY DEF RevertOne
  <1>0. /\ tx.kind = "rollback" /\ tx' = tx /\ rows' = rows /\ log' = log
        /\ pending' = pending
    BY DEF RevertOne
  <1>1. Owner[u.key] = tx.index
    BY DEF ToRevert, OwnInv, OwnRows, Known
  <1>2. \A k \in Keys : Owner[k] # tx.index => trows'[k] = trows[k]
    BY <1>1 DEF OwnInv, TypeInv, TypeOK
  <1> QED
    BY <1>0, <1>2 DEF OwnInv, OwnRows, Known

LEMMA OwnStep == OwnInv /\ [Next]_vars => OwnInv'
  <1> SUFFICES ASSUME OwnInv, [Next]_vars PROVE OwnRows'
    BY TypeStep DEF OwnInv
  <1>1. CASE HandlerStep
    BY <1>1, OwnHandler
  <1>2. ASSUME NEW i \in Indexes, NEW l \in Levels, NEW s \in Levels,
               BeginLevel(i, l, s) \/ SkipLevel(i, l, s)
        PROVE  OwnRows'
    BY <1>2 DEF BeginLevel, SkipLevel, Idle, OwnInv, OwnRows, Known
  <1>3. CASE CommitLevel
    BY <1>3, NoTxType DEF CommitLevel, CloseTx, OwnInv, OwnRows, Known
  <1>4. ASSUME NEW i \in Indexes, NEW from \in Levels, NEW to \in Levels,
               BeginRollback(i, from, to)
        PROVE  OwnRows'
    BY <1>4 DEF BeginRollback, RollbackAsked, Idle, OwnInv, OwnRows, Known
  <1>5. ASSUME NEW i \in Indexes, NEW from \in Levels, NEW to \in Levels,
               Reindex(i, from, to)
        PROVE  OwnRows'
    BY <1>5 DEF Reindex, RollbackAsked, Idle, OwnInv, OwnRows, Known
  <1>6. CASE RevertOne
    BY <1>6, OwnRevertOne
  <1>7. CASE CommitRollback
    BY <1>7, NoTxType DEF CommitRollback, CloseTx, OwnInv, OwnRows, Known
  <1>8. ASSUME NEW i \in Indexes, MoveLevel(i)
        PROVE  OwnRows'
    BY <1>8 DEF MoveLevel, OwnInv, OwnRows, Known
  <1>9. CASE CleanupStep
    BY <1>9 DEF CleanupStep, CleanupRead, CleanupDelete, OwnInv, OwnRows, Known
  <1>10. CASE Crash
    BY <1>10, NoTxType DEF Crash, OwnInv, OwnRows, Known
  <1>11. CASE UNCHANGED vars
    BY <1>11 DEF vars, OwnInv, OwnRows, Known
  <1> QED
    BY <1>1, <1>2, <1>3, <1>4, <1>5, <1>6, <1>7, <1>8, <1>9, <1>10, <1>11
    DEF Next, IndexStep, RollbackStep

LEMMA OwnAlways == Spec => []OwnInv
  BY OwnInit, OwnStep, PTL DEF Spec

(* A level and a rollback write rows of their own index, and nothing but    *)
(* the wipe of a reindexing writes rows of any other: no rollback of one    *)
(* index takes rows of another along, whatever handlers do                  *)
(* (context.py:599).                                                        *)
THEOREM RowsOfOneIndex == Spec => RowsMoveWithTheirIndex
  <1> DEFINE A == \A k \in Keys : rows'[k] # rows[k] =>
                    \/ tx.kind # "none" /\ tx.index = Owner[k]
                    \/ log' = {} /\ \A i \in Indexes : level'[i] = 0
  <1>1. ASSUME OwnInv, Next PROVE A
    <2> SUFFICES ASSUME NEW k \in Keys, rows'[k] # rows[k]
                 PROVE  \/ tx.kind # "none" /\ tx.index = Owner[k]
                        \/ log' = {} /\ \A i \in Indexes : level'[i] = 0
      OBVIOUS
    <2>1. ~HandlerStep
      BY <1>1, HandlerWrites DEF OwnInv
    <2>2. ~CleanupStep /\ ~Crash /\ ~RevertOne
      BY DEF CleanupStep, CleanupRead, CleanupDelete, Crash, RevertOne
    <2>3. \A i \in Indexes, l, s \in Levels : ~BeginLevel(i, l, s) /\ ~SkipLevel(i, l, s)
      BY DEF BeginLevel, SkipLevel
    <2>4. \A i \in Indexes, from, to \in Levels : ~BeginRollback(i, from, to)
      BY DEF BeginRollback
    <2>5. \A i \in Indexes : ~MoveLevel(i)
      BY DEF MoveLevel
    <2>6. CommitLevel \/ CommitRollback => tx.kind # "none" /\ tx.index = Owner[k]
      BY <1>1 DEF CommitLevel, CommitRollback, OwnInv, OwnRows
    <2>7. ASSUME NEW i \in Indexes, NEW from \in Levels, NEW to \in Levels,
                 Reindex(i, from, to)
          PROVE  log' = {} /\ \A j \in Indexes : level'[j] = 0
      BY <2>7 DEF Reindex
    <2> QED
      BY <1>1, <2>1, <2>2, <2>3, <2>4, <2>5, <2>6, <2>7 DEF Next, IndexStep, RollbackStep
  <1>2. ASSUME UNCHANGED vars PROVE A
    BY <1>2 DEF vars
  <1>3. OwnInv /\ [Next]_vars => A
    BY <1>1, <1>2
  <1> HIDE DEF A
  <1>4. Spec => [][A]_vars
    BY <1>3, OwnAlways, PTL DEF Spec
  <1> QED
    BY <1>4 DEF RowsMoveWithTheirIndex, A

-----------------------------------------------------------------------------
(* Whether a row exists follows from its updates: behind a DELETE the next  *)
(* update of the row is an INSERT, and while none follows the row is gone.  *)

(* An update of a level the chain may still roll back.                      *)
Alive(u) == u.level > seen[Chain[u.index]] - Depth

Later(U, u, v) == v \in U /\ v.key = u.key /\ u.id < v.id

(* U accounts for which rows of the table t exist.                          *)
Accounts(U, t) ==
  \A u \in U : u.action = "DELETE" /\ Alive(u) =>
    /\ t[u.key] # NoRow => \E w \in U : Later(U, u, w) /\ w.action = "INSERT"
    /\ \A v \in U : Later(U, u, v) /\ v.action # "INSERT" =>
         \E w \in U : Later(U, u, w) /\ w.action = "INSERT" /\ w.id < v.id

(* The updates the tables, as the open transaction sees them, stand for.    *)
Standing == (log \ reverted) \cup pending

(* Ids order the updates of a row, and higher levels have higher ids.       *)
RowOrder ==
  \A u, v \in Known :
    /\ u.id = v.id => u = v
    /\ u.key = v.key /\ u.level < v.level => u.id < v.id

(* Where updates and transactions stand towards the level of their index.   *)
LevelOrder ==
  /\ \A i \in Indexes : /\ level[i] <= seen[Chain[i]]
                        /\ rolling[i] # NoLevel => rolling[i] < level[i]
  /\ \A u \in Known : u.id < nextId /\ u.key \notin Immune
  /\ \A u \in log : u.level <= At(u.index)
  /\ \A u \in pending : tx.versioned /\ u.index = tx.index /\ u.level = tx.level
  /\ tx.kind # "none" => rolling[tx.index] = NoLevel
  /\ tx.kind # "rollback" => reverted = {}
  /\ tx.kind = "level" =>
       /\ level[tx.index] < tx.level /\ tx.level <= seen[Chain[tx.index]]
       /\ tx.versioned \/ Depth = 0 \/ tx.level < seen[Chain[tx.index]] - Depth
  /\ tx.kind = "rollback" =>
       /\ tx.level < level[tx.index] /\ level[tx.index] <= tx.from
       /\ seen[Chain[tx.index]] - Depth <= tx.level

RowsAccounted == Accounts(log, rows) /\ Accounts(Standing, trows)

ExistInv == OwnInv /\ RowOrder /\ LevelOrder /\ RowsAccounted

(* The one idiom, and the one kind of rollback, that break it.              *)
ExistCase == "double_delete" \notin Unsafe /\ HeadLag = 0 /\ TooDeep # "ignore"

(* Types the arithmetic needs, beside LevelNat.                             *)
LEMMA ExistTypes ==
  ASSUME TypeInv
  PROVE  /\ Standing \subseteq Known
         /\ \A u \in Known : /\ u.id \in Nat /\ u.level \in Nat /\ u.key \in Keys
                            /\ u.index \in Indexes /\ u.action \in Actions
         /\ tx.from \in Nat /\ nextId \in Nat
  <1>1. Known \subseteq Updates /\ Standing \subseteq Known
    BY DEF TypeInv, TypeOK, Known, Standing
  <1>2. tx.from \in Nat
    BY LevelsNat DEF TypeInv, TypeOK, Txs
  <1>3. nextId \in Nat
    BY ConstantsAssumption DEF TypeInv, TypeOK
  <1> QED
    BY <1>1, <1>2, <1>3, LevelsNat DEF Updates

(* Nothing alive is behind a level that is not versioned.                   *)
LEMMA UnversionedDead ==
  ASSUME ExistInv, tx.kind = "level", ~tx.versioned,
         NEW u \in Standing, u.index = tx.index
  PROVE  ~Alive(u)
  <1>1. u \in log
    BY DEF ExistInv, LevelOrder, Standing
  <1>2. u.level <= level[tx.index]
    BY <1>1 DEF ExistInv, LevelOrder, At
  <1>3. level[tx.index] < tx.level /\ level[tx.index] <= seen[Chain[tx.index]]
    BY ExistTypes, LevelNat DEF ExistInv, OwnInv, LevelOrder
  <1>4. Depth = 0 \/ tx.level < seen[Chain[tx.index]] - Depth
    BY DEF ExistInv, LevelOrder
  <1>5. /\ u.level \in Nat /\ level[tx.index] \in Nat /\ tx.level \in Nat
        /\ seen[Chain[tx.index]] \in Nat /\ Depth \in Nat
    BY <1>1, ExistTypes, LevelNat DEF ExistInv, OwnInv, Known
  <1> QED
    BY <1>2, <1>3, <1>4, <1>5 DEF Alive

LEMMA ExistInit == Init => ExistInv
  <1> SUFFICES ASSUME Init PROVE ExistInv
    OBVIOUS
  <1>1. OwnInv /\ log = {} /\ pending = {} /\ tx.kind = "none" /\ reverted = {}
    BY OwnInit, NoTxType DEF Init
  <1>2. RowOrder /\ RowsAccounted
    BY <1>1 DEF RowOrder, RowsAccounted, Accounts, Standing, Known
  <1>3. LevelOrder
    BY <1>1, ConstantsAssumption DEF LevelOrder, Init, Known
  <1> QED
    BY <1>1, <1>2, <1>3 DEF ExistInv

LEMMA ExistUnrecorded ==
  ASSUME ExistCase, ExistInv, NEW k \in Keys, NEW action \in Actions, NEW data \in Data,
         Writes(k, action, data), ~Recorded(k, action, data),
         log' = log, reverted' = reverted, seen' = seen, pending' = pending
  PROVE  Accounts(Standing, trows)'
  <1>1. Standing' = Standing /\ \A u \in Standing : Alive(u)' <=> Alive(u)
    BY DEF Standing, Alive
  <1> SUFFICES ASSUME NEW u \in Standing, u.action = "DELETE", Alive(u),
                      trows'[u.key] # NoRow
               PROVE  trows[u.key] # NoRow
    BY <1>1 DEF ExistInv, RowsAccounted, Accounts, Later
  <1>2. u \in Known /\ u.key \in Keys
    BY ExistTypes, LevelNat DEF ExistInv, OwnInv
  <1>3. CASE u.key # k
    BY <1>2, <1>3 DEF Writes
  <1>4. CASE u.key = k
    <2>1. k \notin Immune /\ u.index = tx.index /\ tx.kind = "level"
      BY <1>2, <1>4 DEF ExistInv, LevelOrder, OwnInv, OwnRows, Writes, Writable
    <2>2. tx.versioned
      BY <2>1, UnversionedDead
    <2>3. action = "UPDATE"
      BY <2>1, <2>2 DEF Recorded
    <2> QED
      BY <1>4, <2>3 DEF Writes, ExistCase
  <1> QED
    BY <1>3, <1>4

LEMMA ExistRecorded ==
  ASSUME ExistCase, ExistInv, NEW k \in Keys, NEW action \in Actions, NEW data \in Data,
         Writes(k, action, data), NEW n, n = NewUpdate(k, action, data),
         log' = log, reverted' = reverted, seen' = seen, pending' = pending \cup {n}
  PROVE  Accounts(Standing, trows)'
  <1>1. Standing' = Standing \cup {n} /\ \A u \in Standing' : Alive(u)' <=> Alive(u)
    BY DEF Standing, Alive
  <1>2. n.key = k /\ n.action = action /\ n.id = nextId
    BY DEF NewUpdate
  <1>3. /\ Standing \subseteq Known /\ nextId \in Nat
        /\ \A u \in Standing : u.id < nextId /\ u.id \in Nat /\ u.key \in Keys
    BY ExistTypes, LevelNat DEF ExistInv, OwnInv, LevelOrder
  <1>4. ASSUME NEW u \in Standing, u.key = k, u.action = "DELETE", Alive(u), action # "INSERT"
        PROVE  \E w \in Standing : Later(Standing, u, w) /\ w.action = "INSERT"
    <2>1. trows[k] # NoRow
      BY <1>4 DEF Writes, ExistCase
    <2> QED
      BY <1>4, <2>1 DEF ExistInv, RowsAccounted, Accounts
  <1> SUFFICES ASSUME NEW u \in Standing', u.action = "DELETE", Alive(u)
               PROVE  /\ trows'[u.key] # NoRow =>
                           \E w \in Standing' : Later(Standing', u, w) /\ w.action = "INSERT"
                      /\ \A v \in Standing' : Later(Standing', u, v) /\ v.action # "INSERT" =>
                           \E w \in Standing' : /\ Later(Standing', u, w)
                                                /\ w.action = "INSERT" /\ w.id < v.id
    BY <1>1 DEF Accounts, Later
  <1>5. ASSUME trows'[u.key] # NoRow
        PROVE  \E w \in Standing' : Later(Standing', u, w) /\ w.action = "INSERT"
    <2>1. u \in Standing
      BY <1>1, <1>2, <1>5 DEF Writes
    <2>2. CASE u.key = k /\ action = "INSERT"
      BY <1>1, <1>2, <1>3, <2>1, <2>2 DEF Later
    <2>3. CASE u.key = k /\ action # "INSERT"
      BY <1>1, <1>4, <2>1, <2>3 DEF Later
    <2>4. CASE u.key # k
      <3>1. trows[u.key] # NoRow
        BY <1>3, <1>5, <2>1, <2>4 DEF Writes
      <3> QED
        BY <1>1, <2>1, <3>1 DEF ExistInv, RowsAccounted, Accounts, Later
    <2> QED
      BY <2>2, <2>3, <2>4
  <1>6. ASSUME NEW v \in Standing', Later(Standing', u, v), v.action # "INSERT"
        PROVE  \E w \in Standing' : /\ Later(Standing', u, w)
                                    /\ w.action = "INSERT" /\ w.id < v.id
    <2>1. u \in Standing
      BY <1>1, <1>2, <1>3, <1>6 DEF Later
    <2>2. CASE v \in Standing
      BY <1>1, <1>6, <2>1, <2>2 DEF ExistInv, RowsAccounted, Accounts, Later
    <2>3. CASE v = n
      <3>1. PICK w \in Standing : Later(Standing, u, w) /\ w.action = "INSERT"
        BY <1>2, <1>4, <1>6, <2>1, <2>3 DEF Later
      <3> QED
        BY <1>1, <1>2, <1>3, <2>3, <3>1 DEF Later
    <2> QED
      BY <1>1, <2>2, <2>3
  <1> QED
    BY <1>5, <1>6

LEMMA ExistHandler ==
  ASSUME ExistCase, ExistInv, OwnInv', HandlerStep
  PROVE  ExistInv'
  <1>0. /\ rows' = rows /\ log' = log /\ level' = level /\ tx' = tx
        /\ reverted' = reverted /\ rolling' = rolling
        /\ seen' = seen /\ tx.kind = "level"
        /\ \/ WritesNothing
           \/ \E k \in Keys, action \in Actions, data \in Data : Writes(k, action, data)
    BY HandlerWrites DEF ExistInv, OwnInv
  <1>1. Accounts(log, rows)'
    BY <1>0 DEF ExistInv, RowsAccounted, Accounts, Later, Alive
  <1>2. CASE pending' = pending /\ nextId' = nextId
    <2>1. RowOrder' /\ LevelOrder'
      BY <1>0, <1>2 DEF ExistInv, RowOrder, LevelOrder, Known, At
    <2>2. Accounts(Standing, trows)'
      <3>1. CASE WritesNothing
        BY <1>0, <3>1 DEF WritesNothing, ExistInv, RowsAccounted, Accounts, Later, Alive,
                          Standing
      <3>2. ASSUME NEW k \in Keys, NEW action \in Actions, NEW data \in Data,
                   Writes(k, action, data)
            PROVE  Accounts(Standing, trows)'
        <4>1. ~Recorded(k, action, data)
          BY <1>2, <3>2, Queued, ExistTypes DEF ExistInv, OwnInv
        <4> QED
          BY <1>0, <1>2, <3>2, <4>1, ExistUnrecorded
      <3> QED
        BY <1>0, <3>1, <3>2
    <2> QED
      BY <1>1, <2>1, <2>2 DEF ExistInv, RowsAccounted
  <1>3. ASSUME NEW k \in Keys, NEW action \in Actions, NEW data \in Data,
               Writes(k, action, data), Recorded(k, action, data)
        PROVE  ExistInv'
    <2> PICK n : n = NewUpdate(k, action, data)
      OBVIOUS
    <2>1. /\ pending' = pending \cup {n} /\ nextId' = nextId + 1
          /\ tx.index = Owner[k] /\ tx.versioned /\ k \notin Immune
      BY <1>3, Queued DEF ExistInv, OwnInv, Recorded
    <2>2. n.key = k /\ n.id = nextId /\ n.level = tx.level /\ n.index = tx.index
      BY DEF NewUpdate
    <2>3. /\ nextId \in Nat /\ tx.level \in Nat
          /\ \A u \in Known : u.id < nextId /\ u.id \in Nat /\ u.level \in Nat
      BY ExistTypes, LevelNat DEF ExistInv, OwnInv, LevelOrder
    <2>4. \A u \in Known : u.key = k => u.level <= tx.level
      <3> SUFFICES ASSUME NEW u \in Known, u.key = k
                   PROVE  u.level <= tx.level
        OBVIOUS
      <3>1. u.index = tx.index
        BY <2>1 DEF ExistInv, OwnInv, OwnRows
      <3>2. u \in log => u.level <= level[tx.index] /\ level[tx.index] < tx.level
        BY <1>0, <3>1 DEF ExistInv, LevelOrder, At
      <3>3. level[tx.index] \in Nat
        BY LevelNat DEF ExistInv, OwnInv
      <3> QED
        BY <2>3, <3>2, <3>3 DEF Known, ExistInv, LevelOrder
    <2>5. Known' = Known \cup {n}
      BY <1>0, <2>1 DEF Known
    <2>6. RowOrder'
      BY <2>2, <2>3, <2>4, <2>5 DEF RowOrder, ExistInv
    <2>7. LevelOrder'
      BY <1>0, <2>1, <2>2, <2>3, <2>5 DEF LevelOrder, ExistInv, At
    <2>8. Accounts(Standing, trows)'
      BY <1>0, <1>3, <2>1, ExistRecorded
    <2> QED
      BY <1>1, <2>6, <2>7, <2>8 DEF ExistInv, RowsAccounted
  <1> QED
    BY <1>0, <1>2, <1>3, Queued DEF WritesNothing, ExistInv, OwnInv

(* Heads only get higher, and fewer updates are alive.                      *)
LEMMA ExistHead ==
  ASSUME ExistInv, NEW i \in Indexes, NEW s \in Levels,
         seen' = [seen EXCEPT ![Chain[i]] = Max2(@, s)],
         rows' = rows, trows' = trows, log' = log, pending' = pending, reverted' = reverted
  PROVE  RowsAccounted'
  <1>1. ASSUME NEW u \in Known, Alive(u)'
        PROVE  Alive(u)
    <2>1. u.level \in Nat /\ u.index \in Indexes /\ Depth \in Nat
      BY ExistTypes, LevelNat DEF ExistInv, OwnInv
    <2>2. /\ seen[Chain[u.index]] <= seen'[Chain[u.index]]
          /\ seen[Chain[u.index]] \in Nat /\ seen'[Chain[u.index]] \in Nat
      BY <2>1, HeadGrows DEF ExistInv, OwnInv
    <2> QED
      BY <1>1, <2>1, <2>2 DEF Alive
  <1>2. log \subseteq Known /\ Standing \subseteq Known /\ Standing' = Standing
    BY ExistTypes DEF ExistInv, OwnInv, Known, Standing
  <1>3. Accounts(log, rows)'
    BY <1>1, <1>2 DEF ExistInv, RowsAccounted, Accounts, Later
  <1>4. Accounts(Standing, trows)'
    BY <1>1, <1>2 DEF ExistInv, RowsAccounted, Accounts, Later
  <1> QED
    BY <1>3, <1>4 DEF RowsAccounted

LEMMA ExistBeginLevel ==
  ASSUME ExistInv, OwnInv', NEW i \in Indexes, NEW l \in Levels, NEW s \in Levels,
         BeginLevel(i, l, s)
  PROVE  ExistInv'
  <1>0. /\ tx.kind = "none" /\ rolling[i] = NoLevel /\ level[i] < l /\ l <= s
        /\ tx'.kind = "level" /\ tx'.index = i /\ tx'.level = l
        /\ tx'.versioned = Versioned(l, s)
        /\ seen' = [seen EXCEPT ![Chain[i]] = Max2(@, s)]
        /\ rows' = rows /\ log' = log /\ level' = level /\ trows' = trows
        /\ pending' = pending /\ reverted' = reverted /\ rolling' = rolling
        /\ nextId' = nextId /\ pending = {} /\ reverted = {}
    BY DEF BeginLevel, Idle, ExistInv, OwnInv, OwnRows, LevelOrder
  <1>1. RowsAccounted'
    BY <1>0, ExistHead
  <1>2. /\ \A j \in Indexes : /\ seen[Chain[j]] <= seen'[Chain[j]]
                              /\ seen[Chain[j]] \in Nat /\ seen'[Chain[j]] \in Nat
        /\ s <= seen'[Chain[i]] /\ s \in Nat /\ l \in Nat /\ Depth \in Nat
        /\ \A j \in Indexes : level[j] \in Nat
    BY <1>0, HeadGrows, LevelNat, LevelsNat DEF ExistInv, OwnInv
  <1>3. RowOrder'
    BY <1>0 DEF ExistInv, RowOrder, Known
  <1>4. \A j \in Indexes : /\ level'[j] <= seen'[Chain[j]]
                           /\ rolling'[j] # NoLevel => rolling'[j] < level'[j]
    BY <1>0, <1>2 DEF ExistInv, LevelOrder
  <1>5. tx'.versioned \/ Depth = 0 \/ l < seen'[Chain[i]] - Depth
    <2>1. Versioned(l, s) \/ Depth = 0 \/ l < seen'[Chain[i]] - Depth
      BY <1>2 DEF Versioned
    <2> QED
      BY <1>0, <2>1
  <1>6. l <= seen'[Chain[i]]
    BY <1>0, <1>2
  <1>7. LevelOrder'
    <2>1. \A u \in log' : u.level <= At(u.index)'
      BY <1>0 DEF ExistInv, LevelOrder, At
    <2>2. \A u \in Known' : u.id < nextId' /\ u.key \notin Immune
      BY <1>0 DEF ExistInv, LevelOrder, Known
    <2>3. rolling'[tx'.index] = NoLevel /\ level'[tx'.index] < tx'.level
      BY <1>0
    <2> QED
      BY <1>0, <1>4, <1>5, <1>6, <2>1, <2>2, <2>3 DEF LevelOrder
  <1> QED
    BY <1>1, <1>3, <1>7 DEF ExistInv

LEMMA ExistSkipLevel ==
  ASSUME ExistInv, OwnInv', NEW i \in Indexes, NEW l \in Levels, NEW s \in Levels,
         SkipLevel(i, l, s)
  PROVE  ExistInv'
  <1>0. /\ tx.kind = "none" /\ rolling[i] = NoLevel /\ level[i] < l /\ l <= s
        /\ level' = [level EXCEPT ![i] = l]
        /\ seen' = [seen EXCEPT ![Chain[i]] = Max2(@, s)]
        /\ rows' = rows /\ log' = log /\ tx' = tx /\ trows' = trows
        /\ pending' = pending /\ reverted' = reverted /\ rolling' = rolling
        /\ nextId' = nextId /\ pending = {} /\ reverted = {}
    BY DEF SkipLevel, Idle, ExistInv, OwnInv, OwnRows, LevelOrder
  <1>1. RowsAccounted'
    BY <1>0, ExistHead
  <1>2. /\ \A j \in Indexes : /\ seen[Chain[j]] <= seen'[Chain[j]]
                              /\ seen[Chain[j]] \in Nat /\ seen'[Chain[j]] \in Nat
        /\ s <= seen'[Chain[i]] /\ s \in Nat /\ l \in Nat
        /\ \A j \in Indexes : level[j] \in Nat
    BY <1>0, HeadGrows, LevelNat, LevelsNat DEF ExistInv, OwnInv
  <1>3. RowOrder'
    BY <1>0 DEF ExistInv, RowOrder, Known
  <1>4. level' \in [Indexes -> Levels] /\ level'[i] = l
        /\ \A j \in Indexes : j # i => level'[j] = level[j]
    BY <1>0 DEF ExistInv, OwnInv, TypeInv, TypeOK
  <1>5. \A j \in Indexes : /\ level'[j] <= seen'[Chain[j]]
                           /\ rolling'[j] # NoLevel => rolling'[j] < level'[j]
    BY <1>0, <1>2, <1>4 DEF ExistInv, LevelOrder
  <1>6. \A u \in log : u.level <= At(u.index)'
    <2> SUFFICES ASSUME NEW u \in log PROVE u.level <= At(u.index)'
      OBVIOUS
    <2>1. u.level <= At(u.index) /\ u.level \in Nat /\ u.index \in Indexes
      BY ExistTypes DEF ExistInv, OwnInv, LevelOrder, Known
    <2> QED
      BY <1>0, <1>2, <1>4, <2>1 DEF At
  <1>7. LevelOrder'
    <2>1. \A u \in Known' : u.id < nextId' /\ u.key \notin Immune
      BY <1>0 DEF ExistInv, LevelOrder, Known
    <2> QED
      BY <1>0, <1>5, <1>6, <2>1 DEF LevelOrder
  <1> QED
    BY <1>1, <1>3, <1>7 DEF ExistInv

LEMMA ExistCommitLevel ==
  ASSUME ExistInv, OwnInv', CommitLevel
  PROVE  ExistInv'
  <1> PICK i \in Indexes, l \in Levels : i = tx.index /\ l = tx.level
    BY LevelNat DEF ExistInv, OwnInv
  <1>0. /\ tx.kind = "level" /\ rows' = trows /\ log' = log \cup pending
        /\ level' = [level EXCEPT ![i] = l] /\ tx'.kind = "none"
        /\ pending' = {} /\ reverted' = {} /\ trows' = trows /\ rolling' = rolling
        /\ nextId' = nextId /\ seen' = seen /\ reverted = {}
    BY NoTxType DEF CommitLevel, CloseTx, ExistInv, LevelOrder
  <1>1. Standing = log \cup pending /\ Standing' = log'
    BY <1>0 DEF Standing
  <1>2. RowsAccounted'
    BY <1>0, <1>1 DEF ExistInv, RowsAccounted, Accounts, Later, Alive
  <1>3. Known' = Known
    BY <1>0 DEF Known
  <1>4. RowOrder'
    BY <1>3 DEF ExistInv, RowOrder
  <1>5. /\ \A j \in Indexes : level[j] \in Nat /\ seen[Chain[j]] \in Nat
        /\ l \in Nat /\ level[i] < l /\ l <= seen[Chain[i]] /\ rolling[i] = NoLevel
        /\ level'[i] = l /\ \A j \in Indexes : j # i => level'[j] = level[j]
    BY <1>0, LevelNat DEF ExistInv, OwnInv, TypeInv, TypeOK, LevelOrder
  <1>6. \A j \in Indexes : /\ level'[j] <= seen'[Chain[j]]
                           /\ rolling'[j] # NoLevel => rolling'[j] < level'[j]
    BY <1>0, <1>5 DEF ExistInv, LevelOrder
  <1>7. \A u \in log' : u.level <= At(u.index)'
    <2> SUFFICES ASSUME NEW u \in log \cup pending PROVE u.level <= At(u.index)'
      BY <1>0
    <2>1. u.level \in Nat /\ u.index \in Indexes
      BY ExistTypes DEF ExistInv, OwnInv, Known
    <2>2. CASE u \in pending
      BY <1>0, <1>5, <2>2 DEF ExistInv, LevelOrder, At
    <2>3. CASE u \in log
      <3>1. u.level <= At(u.index)
        BY <2>3 DEF ExistInv, LevelOrder
      <3> QED
        BY <1>0, <1>5, <2>1, <3>1 DEF At
    <2> QED
      BY <2>2, <2>3
  <1>8. LevelOrder'
    BY <1>0, <1>3, <1>6, <1>7 DEF ExistInv, LevelOrder
  <1> QED
    BY <1>2, <1>4, <1>8 DEF ExistInv

LEMMA ExistBeginRollback ==
  ASSUME ExistCase, ExistInv, OwnInv', NEW i \in Indexes, NEW from \in Levels,
         NEW to \in Levels, BeginRollback(i, from, to)
  PROVE  ExistInv'
  <1>0. /\ tx.kind = "none" /\ rolling[i] = NoLevel
        /\ to < level[i] /\ level[i] - HeadLag <= from
        /\ ~(to < seen[Chain[i]] - Depth)
        /\ tx'.kind = "rollback" /\ tx'.index = i /\ tx'.level = to /\ tx'.from = from
        /\ rows' = rows /\ log' = log /\ level' = level /\ trows' = trows
        /\ pending' = pending /\ reverted' = reverted /\ rolling' = rolling
        /\ nextId' = nextId /\ seen' = seen /\ pending = {} /\ reverted = {}
    BY DEF BeginRollback, RollbackAsked, Final, Idle, ExistCase, ExistInv, OwnInv, OwnRows, LevelOrder
  <1>1. RowsAccounted'
    BY <1>0 DEF ExistInv, RowsAccounted, Accounts, Later, Alive, Standing
  <1>2. RowOrder'
    BY <1>0 DEF ExistInv, RowOrder, Known
  <1>3. level[i] <= from /\ seen[Chain[i]] - Depth <= to
    <2>1. level[i] \in Nat /\ seen[Chain[i]] \in Nat /\ Depth \in Nat
      BY LevelNat DEF ExistInv, OwnInv
    <2>2. from \in Nat /\ to \in Nat
      BY LevelsNat
    <2> QED
      BY <1>0, <2>1, <2>2 DEF ExistCase
  <1>4. LevelOrder'
    BY <1>0, <1>3 DEF ExistInv, LevelOrder, Known, At
  <1> QED
    BY <1>1, <1>2, <1>4 DEF ExistInv

LEMMA ExistReindex ==
  ASSUME ExistInv, OwnInv', NEW i \in Indexes, NEW from \in Levels, NEW to \in Levels,
         Reindex(i, from, to)
  PROVE  ExistInv'
  <1>0. /\ tx.kind = "none" /\ tx' = tx /\ log' = {} /\ pending' = {} /\ reverted' = {}
        /\ level' = [j \in Indexes |-> 0] /\ rolling' = [j \in Indexes |-> NoLevel]
        /\ seen' = seen /\ nextId' = nextId
    BY DEF Reindex, RollbackAsked, Idle, ExistInv, OwnInv, OwnRows, LevelOrder
  <1>1. Known' = {} /\ Standing' = {}
    BY <1>0 DEF Known, Standing
  <1>2. RowsAccounted' /\ RowOrder'
    BY <1>0, <1>1 DEF RowsAccounted, Accounts, RowOrder
  <1>3. LevelOrder'
    BY <1>0, <1>1, LevelNat DEF LevelOrder, ExistInv, OwnInv
  <1> QED
    BY <1>2, <1>3 DEF ExistInv

(* The update a rollback reverts is the newest of its row.                  *)
LEMMA NewestOfRow ==
  ASSUME ExistInv, tx.kind = "rollback", NEW u \in ToRevert, Newest(u),
         NEW v \in Standing, v.key = u.key, v # u
  PROVE  v.id < u.id
  <1>1. /\ u \in log /\ u \notin reverted /\ u.index = tx.index /\ u.level > tx.level
        /\ pending = {}
    BY DEF ToRevert, ExistInv, OwnInv, OwnRows
  <1>2. v \in log \ reverted /\ v.index = tx.index
    BY <1>1 DEF Standing, ExistInv, OwnInv, OwnRows, Known
  <1>3. /\ u.id \in Nat /\ v.id \in Nat /\ u.level \in Nat /\ v.level \in Nat
        /\ tx.level \in Nat /\ tx.from \in Nat /\ level[tx.index] \in Nat
    BY <1>1, <1>2, ExistTypes, LevelNat DEF ExistInv, OwnInv, Known
  <1>4. CASE v.level > tx.level
    <2>1. v.level <= level[tx.index] /\ level[tx.index] <= tx.from
      BY <1>2 DEF ExistInv, LevelOrder, At
    <2>2. v \in ToRevert
      BY <1>2, <1>3, <1>4, <2>1 DEF ToRevert
    <2>3. v.id <= u.id /\ v.id # u.id
      BY <1>1, <1>2, <2>2 DEF Newest, ExistInv, RowOrder, Known
    <2> QED
      BY <1>3, <2>3
  <1>5. CASE ~(v.level > tx.level)
    <2>1. v.level < u.level
      BY <1>1, <1>3, <1>5
    <2> QED
      BY <1>1, <1>2, <2>1 DEF ExistInv, RowOrder, Known
  <1> QED
    BY <1>4, <1>5

LEMMA ExistRevertOne ==
  ASSUME ExistInv, OwnInv', RevertOne
  PROVE  ExistInv'
  <1> PICK u \in ToRevert : /\ Newest(u)
                            /\ trows' = [trows EXCEPT ![u.key] = Undone(u, @)]
                            /\ reverted' = reverted \cup {u}
    BY DEF RevertOne
  <1>0. /\ tx.kind = "rollback" /\ rows' = rows /\ log' = log /\ level' = level
        /\ tx' = tx /\ pending' = pending /\ rolling' = rolling /\ nextId' = nextId
        /\ seen' = seen /\ pending = {} /\ u \in log /\ u \notin reverted
    BY DEF RevertOne, ToRevert, ExistInv, OwnInv, OwnRows
  <1>1. Standing' = Standing \ {u} /\ u \in Standing
    BY <1>0 DEF Standing
  <1>2. RowOrder' /\ LevelOrder'
    BY <1>0 DEF ExistInv, RowOrder, LevelOrder, Known, At
  <1>3. Accounts(log, rows)'
    BY <1>0 DEF ExistInv, RowsAccounted, Accounts, Later, Alive
  <1>4. \A v \in Standing : v.key = u.key /\ v # u => v.id < u.id
    BY <1>0, NewestOfRow
  <1>5. /\ \A v \in Standing : v.key \in Keys /\ v.id \in Nat /\ v.action \in Actions
        /\ trows \in [Keys -> Row \cup {NoRow}]
    BY ExistTypes DEF ExistInv, OwnInv, TypeInv, TypeOK
  <1>6. Accounts(Standing, trows)'
    <2> SUFFICES ASSUME NEW v \in Standing, v # u, v.action = "DELETE", Alive(v)
                 PROVE  /\ trows'[v.key] # NoRow =>
                             \E w \in Standing \ {u} : /\ Later(Standing, v, w)
                                                       /\ w.action = "INSERT"
                        /\ \A x \in Standing \ {u} :
                             Later(Standing, v, x) /\ x.action # "INSERT" =>
                               \E w \in Standing \ {u} : /\ Later(Standing, v, w)
                                                         /\ w.action = "INSERT"
                                                         /\ w.id < x.id
      BY <1>0, <1>1 DEF Accounts, Later, Alive
    <2>1. ASSUME NEW x \in Standing, Later(Standing, v, x), x.action # "INSERT"
          PROVE  \E w \in Standing \ {u} : /\ Later(Standing, v, w)
                                           /\ w.action = "INSERT" /\ w.id < x.id
      <3>1. PICK w \in Standing : /\ Later(Standing, v, w)
                                  /\ w.action = "INSERT" /\ w.id < x.id
        BY <2>1 DEF ExistInv, RowsAccounted, Accounts
      <3>2. w # u
        <4>1. w.key = x.key /\ w.id < x.id
          BY <2>1, <3>1 DEF Later
        <4>2. x = u \/ x.key # u.key \/ x.id < u.id
          BY <1>4
        <4> QED
          BY <1>1, <1>5, <4>1, <4>2
      <3> QED
        BY <3>1, <3>2
    <2>2. ASSUME trows'[v.key] # NoRow
          PROVE  \E w \in Standing \ {u} : /\ Later(Standing, v, w)
                                           /\ w.action = "INSERT"
      <3>1. CASE v.key # u.key
        <4>1. trows[v.key] # NoRow
          BY <1>5, <2>2, <3>1
        <4> QED
          BY <3>1, <4>1 DEF ExistInv, RowsAccounted, Accounts, Later
      <3>2. CASE v.key = u.key
        <4>1. trows'[v.key] = Undone(u, trows[u.key])
          BY <1>5, <3>2
        <4>2. u.action # "INSERT"
          BY <2>2, <4>1 DEF Undone
        <4>3. Later(Standing, v, u)
          BY <1>1, <1>4, <3>2 DEF Later
        <4> QED
          BY <1>1, <2>1, <4>2, <4>3
      <3> QED
        BY <3>1, <3>2
    <2> QED
      BY <2>1, <2>2
  <1> QED
    BY <1>2, <1>3, <1>6 DEF ExistInv, RowsAccounted

LEMMA ExistCommitRollback ==
  ASSUME ExistInv, OwnInv', CommitRollback
  PROVE  ExistInv'
  <1> PICK i \in Indexes, to \in Levels : i = tx.index /\ to = tx.level
    BY LevelNat DEF ExistInv, OwnInv
  <1>0. /\ tx.kind = "rollback" /\ ToRevert = {} /\ rows' = trows
        /\ log' = log \ reverted /\ rolling' = [rolling EXCEPT ![i] = to]
        /\ tx'.kind = "none" /\ pending' = {} /\ reverted' = {} /\ pending = {}
        /\ level' = level /\ trows' = trows /\ nextId' = nextId /\ seen' = seen
    BY NoTxType DEF CommitRollback, CloseTx, ExistInv, OwnInv, OwnRows
  <1>1. log' = Standing /\ Standing' = Standing
    BY <1>0 DEF Standing
  <1>2. RowsAccounted'
    BY <1>0, <1>1 DEF ExistInv, RowsAccounted, Accounts, Later, Alive
  <1>3. Known' \subseteq Known
    BY <1>0 DEF Known
  <1>4. RowOrder'
    BY <1>3 DEF ExistInv, RowOrder
  <1>5. /\ \A j \in Indexes : level[j] \in Nat
        /\ to \in Nat /\ tx.from \in Nat /\ to < level[i] /\ level[i] <= tx.from
        /\ rolling[i] = NoLevel
        /\ rolling'[i] = to /\ \A j \in Indexes : j # i => rolling'[j] = rolling[j]
    BY <1>0, LevelNat, ExistTypes DEF ExistInv, OwnInv, TypeInv, TypeOK, LevelOrder
  <1>6. \A j \in Indexes : /\ level'[j] <= seen'[Chain[j]]
                           /\ rolling'[j] # NoLevel => rolling'[j] < level'[j]
    BY <1>0, <1>5 DEF ExistInv, LevelOrder
  <1>7. \A u \in log' : u.level <= At(u.index)'
    <2> SUFFICES ASSUME NEW u \in log \ reverted PROVE u.level <= At(u.index)'
      BY <1>0
    <2>1. u.level \in Nat /\ u.index \in Indexes /\ u.level <= At(u.index)
      BY ExistTypes DEF ExistInv, OwnInv, Known, LevelOrder
    <2>2. CASE u.index = i
      <3>1. u.level <= tx.from
        BY <1>5, <2>1, <2>2 DEF At
      <3>2. ~(u.level > to)
        BY <1>0, <2>2, <3>1 DEF ToRevert
      <3>3. At(i)' = to
        BY <1>5, LevelsNat DEF At
      <3> QED
        BY <1>5, <2>1, <2>2, <3>2, <3>3
    <2>3. CASE u.index # i
      BY <1>0, <1>5, <2>1, <2>3 DEF At
    <2> QED
      BY <2>2, <2>3
  <1>8. LevelOrder'
    BY <1>0, <1>3, <1>6, <1>7 DEF ExistInv, LevelOrder
  <1> QED
    BY <1>2, <1>4, <1>8 DEF ExistInv

LEMMA ExistMoveLevel ==
  ASSUME ExistInv, OwnInv', NEW i \in Indexes, MoveLevel(i)
  PROVE  ExistInv'
  <1>0. /\ tx.kind = "none" /\ rolling[i] # NoLevel
        /\ level' = [level EXCEPT ![i] = rolling[i]]
        /\ rolling' = [rolling EXCEPT ![i] = NoLevel]
        /\ rows' = rows /\ log' = log /\ tx' = tx /\ trows' = trows /\ pending' = pending
        /\ reverted' = reverted /\ nextId' = nextId /\ seen' = seen /\ pending = {}
    BY DEF MoveLevel, Idle, ExistInv, OwnInv, OwnRows
  <1>1. RowsAccounted' /\ RowOrder'
    BY <1>0 DEF ExistInv, RowsAccounted, Accounts, Later, Alive, Standing, RowOrder, Known
  <1>2. /\ \A j \in Indexes : level[j] \in Nat /\ seen[Chain[j]] \in Nat
        /\ rolling[i] < level[i] /\ rolling[i] \in Nat
        /\ level'[i] = rolling[i] /\ rolling'[i] = NoLevel
        /\ \A j \in Indexes : j # i => level'[j] = level[j] /\ rolling'[j] = rolling[j]
    BY <1>0, LevelNat, LevelsNat DEF ExistInv, OwnInv, TypeInv, TypeOK, LevelOrder
  <1>3. \A j \in Indexes : At(j)' = At(j)
    BY <1>0, <1>2 DEF At
  <1>4. \A j \in Indexes : /\ level'[j] <= seen'[Chain[j]]
                           /\ rolling'[j] # NoLevel => rolling'[j] < level'[j]
    BY <1>0, <1>2 DEF ExistInv, LevelOrder
  <1>5. \A u \in log' : u.level <= At(u.index)'
    <2> SUFFICES ASSUME NEW u \in log PROVE u.level <= At(u.index)'
      BY <1>0
    <2>1. u.index \in Indexes
      BY ExistTypes DEF ExistInv, OwnInv, Known
    <2> QED
      BY <1>3, <2>1 DEF ExistInv, LevelOrder
  <1>6. LevelOrder'
    BY <1>0, <1>4, <1>5 DEF ExistInv, LevelOrder, Known
  <1> QED
    BY <1>1, <1>6 DEF ExistInv

(* The cleanup task takes the oldest updates of a row and leaves a DELETE   *)
(* with all that follow it.                                                 *)
LEMMA ExistCleanupDelete ==
  ASSUME ExistInv, OwnInv', CleanupDelete
  PROVE  ExistInv'
  <1>0. /\ tx.kind = "none" /\ log' = {u \in log : u.level >= cutoff}
        /\ rows' = rows /\ level' = level /\ tx' = tx /\ trows' = trows
        /\ pending' = pending /\ reverted' = reverted /\ rolling' = rolling
        /\ nextId' = nextId /\ seen' = seen /\ pending = {} /\ reverted = {}
        /\ trows = rows /\ cutoff \in Nat
    BY LevelsNat DEF CleanupDelete, Idle, ExistInv, OwnInv, OwnRows, LevelOrder,
                     TypeInv, TypeOK
  <1>1. Standing' = log' /\ log' \subseteq log /\ Known' \subseteq Known
    BY <1>0 DEF Standing, Known
  <1>2. ASSUME NEW u \in log', NEW v \in log, Later(log, u, v)
        PROVE  v \in log'
    <2>1. u.level \in Nat /\ v.level \in Nat /\ u.id \in Nat /\ v.id \in Nat
      BY <1>1, ExistTypes DEF ExistInv, OwnInv, Known
    <2>2. ~(v.level < u.level)
      BY <1>1, <1>2, <2>1 DEF Later, ExistInv, RowOrder, Known
    <2> QED
      BY <1>0, <2>1, <2>2
  <1>3. Accounts(log, rows)'
    <2>1. Accounts(log, rows)
      BY DEF ExistInv, RowsAccounted
    <2>2. \A u \in log' : Alive(u)' <=> Alive(u)
      BY <1>0 DEF Alive
    <2>3. \A u \in log', v \in log : Later(log', u, v) => Later(log, u, v)
      BY <1>1 DEF Later
    <2>4. \A u \in log', v \in log : Later(log, u, v) => v \in log' /\ Later(log', u, v)
      BY <1>2 DEF Later
    <2> SUFFICES ASSUME NEW u \in log', u.action = "DELETE", Alive(u)
                 PROVE  /\ rows[u.key] # NoRow =>
                             \E w \in log' : Later(log', u, w) /\ w.action = "INSERT"
                        /\ \A v \in log' : Later(log', u, v) /\ v.action # "INSERT" =>
                             \E w \in log' : /\ Later(log', u, w)
                                             /\ w.action = "INSERT" /\ w.id < v.id
      BY <1>0, <2>2 DEF Accounts, Later
    <2>5. u \in log
      BY <1>1
    <2>6. ASSUME rows[u.key] # NoRow
          PROVE  \E w \in log' : Later(log', u, w) /\ w.action = "INSERT"
      <3>1. PICK w \in log : Later(log, u, w) /\ w.action = "INSERT"
        BY <2>1, <2>5, <2>6 DEF Accounts
      <3> QED
        BY <2>4, <3>1
    <2>7. ASSUME NEW v \in log', Later(log', u, v), v.action # "INSERT"
          PROVE  \E w \in log' : /\ Later(log', u, w)
                                 /\ w.action = "INSERT" /\ w.id < v.id
      <3>1. PICK w \in log : Later(log, u, w) /\ w.action = "INSERT" /\ w.id < v.id
        BY <1>1, <2>1, <2>3, <2>5, <2>7 DEF Accounts
      <3> QED
        BY <2>4, <3>1
    <2> QED
      BY <2>6, <2>7
  <1>4. RowsAccounted'
    BY <1>0, <1>1, <1>3 DEF RowsAccounted
  <1>5. RowOrder' /\ LevelOrder'
    BY <1>0, <1>1 DEF ExistInv, RowOrder, LevelOrder, At
  <1> QED
    BY <1>4, <1>5 DEF ExistInv

LEMMA ExistCrash ==
  ASSUME ExistInv, OwnInv', Crash
  PROVE  ExistInv'
  <1>0. /\ tx'.kind = "none" /\ trows' = rows /\ pending' = {} /\ reverted' = {}
        /\ rolling' = [i \in Indexes |-> NoLevel]
        /\ rows' = rows /\ log' = log /\ level' = level /\ nextId' = nextId
        /\ seen' = seen
    BY NoTxType DEF Crash
  <1>1. Standing' = log /\ Known' \subseteq Known
    BY <1>0 DEF Standing, Known
  <1>2. RowsAccounted'
    BY <1>0, <1>1 DEF ExistInv, RowsAccounted, Accounts, Later, Alive
  <1>3. RowOrder'
    BY <1>1 DEF ExistInv, RowOrder
  <1>4. \A u \in log' : u.level <= At(u.index)'
    <2> SUFFICES ASSUME NEW u \in log PROVE u.level <= At(u.index)'
      BY <1>0
    <2>1. /\ u.level \in Nat /\ u.index \in Indexes /\ u.level <= At(u.index)
          /\ level[u.index] \in Nat /\ At(u.index) \in Nat
      BY ExistTypes, LevelNat DEF ExistInv, OwnInv, Known, LevelOrder
    <2>2. At(u.index) <= level[u.index]
      BY <2>1 DEF At, ExistInv, LevelOrder
    <2> QED
      BY <1>0, <2>1, <2>2 DEF At
  <1>5. LevelOrder'
    BY <1>0, <1>1, <1>4 DEF ExistInv, LevelOrder
  <1> QED
    BY <1>2, <1>3, <1>5 DEF ExistInv

LEMMA ExistStep ==
  ASSUME ExistCase
  PROVE  ExistInv /\ [Next]_vars => ExistInv'
  <1> SUFFICES ASSUME ExistInv, [Next]_vars PROVE ExistInv'
    OBVIOUS
  <1>0. OwnInv'
    BY OwnStep DEF ExistInv
  <1>1. CASE HandlerStep
    BY <1>0, <1>1, ExistHandler
  <1>2. ASSUME NEW i \in Indexes, NEW l \in Levels, NEW s \in Levels,
               BeginLevel(i, l, s) \/ SkipLevel(i, l, s)
        PROVE  ExistInv'
    BY <1>0, <1>2, ExistBeginLevel, ExistSkipLevel
  <1>3. CASE CommitLevel
    BY <1>0, <1>3, ExistCommitLevel
  <1>4. ASSUME NEW i \in Indexes, NEW from \in Levels, NEW to \in Levels,
               BeginRollback(i, from, to) \/ Reindex(i, from, to)
        PROVE  ExistInv'
    BY <1>0, <1>4, ExistBeginRollback, ExistReindex
  <1>5. CASE RevertOne
    BY <1>0, <1>5, ExistRevertOne
  <1>6. CASE CommitRollback
    BY <1>0, <1>6, ExistCommitRollback
  <1>7. ASSUME NEW i \in Indexes, MoveLevel(i)
        PROVE  ExistInv'
    BY <1>0, <1>7, ExistMoveLevel
  <1>8. CASE CleanupDelete
    BY <1>0, <1>8, ExistCleanupDelete
  <1>9. CASE CleanupRead \/ UNCHANGED vars
    <2>1. /\ rows' = rows /\ log' = log /\ level' = level /\ tx' = tx /\ trows' = trows
          /\ pending' = pending /\ reverted' = reverted /\ rolling' = rolling
          /\ nextId' = nextId /\ seen' = seen
      BY <1>9 DEF CleanupRead, vars
    <2> QED
      BY <1>0, <2>1 DEF ExistInv, RowOrder, LevelOrder, RowsAccounted, Accounts, Later,
                        Alive, Standing, Known, At
  <1>10. CASE Crash
    BY <1>0, <1>10, ExistCrash
  <1> QED
    BY <1>1, <1>2, <1>3, <1>4, <1>5, <1>6, <1>7, <1>8, <1>9, <1>10
    DEF Next, IndexStep, RollbackStep, CleanupStep

(* A rollback that starts at the index level never re-creates a row that is *)
(* there: no IntegrityError ends it, and ends it again after every restart, *)
(* whatever else handlers do (models/__init__.py:213-214).                  *)
THEOREM RevertsFindNoRow ==
  ASSUME ExistCase
  PROVE  Spec => []RevertNeverConflicts
  <1>1. ASSUME ExistInv
        PROVE  RevertNeverConflicts
    <2> SUFFICES ASSUME tx.kind = "rollback", NEW u \in ToRevert, Newest(u),
                        u.action = "DELETE", trows[u.key] # NoRow
                 PROVE  FALSE
      BY DEF RevertNeverConflicts, Conflicts
    <2>1. u \in Standing /\ u \in Known /\ u.index = tx.index /\ u.level > tx.level
      BY DEF ToRevert, Standing, Known
    <2>2. Alive(u)
      <3>1. /\ seen[Chain[tx.index]] - Depth <= tx.level
            /\ seen[Chain[tx.index]] \in Nat /\ Depth \in Nat
            /\ tx.level \in Nat /\ u.level \in Nat
        BY <1>1, <2>1, ExistTypes, LevelNat DEF ExistInv, OwnInv, LevelOrder
      <3> QED
        BY <2>1, <3>1 DEF Alive
    <2>3. PICK w \in Standing : Later(Standing, u, w)
      BY <1>1, <2>1, <2>2 DEF ExistInv, RowsAccounted, Accounts
    <2>4. w.id < u.id \/ w = u
      BY <1>1, <2>3, NewestOfRow DEF Later
    <2>5. w.id \in Nat /\ u.id \in Nat /\ u.id < w.id
      BY <1>1, <2>1, <2>3, ExistTypes DEF Later, ExistInv, OwnInv
    <2> QED
      BY <2>4, <2>5
  <1>2. ExistInv => RevertNeverConflicts
    BY <1>1
  <1>3. ExistInv /\ [Next]_vars => ExistInv'
    BY ExistStep
  <1> QED
    BY <1>2, <1>3, ExistInit, PTL DEF Spec
=============================================================================
