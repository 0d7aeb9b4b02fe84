-------------------------- MODULE ModelVersioning --------------------------
(***************************************************************************)
(* DipDup ORM's copy-on-write versioning of project models.                *)
(*                                                                         *)
(* While an index processes a level inside a versioned transaction, every  *)
(* save, delete or query of a handler queues a ModelUpdate holding what is *)
(* needed to undo it.  The transaction commits the rows, the queued        *)
(* updates and the index level together.  ctx.rollback() later reverts, in *)
(* one transaction, the updates of the levels above the target, newest     *)
(* first, and moves the index level in a second statement.  A cleanup task *)
(* deletes the updates that are too old to be needed.                      *)
(*                                                                         *)
(* One asyncio process, one DB connection (`maxsize=1`, or SQLite's lock): *)
(* transactions never overlap, so one `tx' describes the only open one.    *)
(***************************************************************************)
EXTENDS Integers

CONSTANTS
  Indexes,      \* rows of dipdup_index
  Keys,         \* (model, pk) pairs handlers write
  Fields,       \* versioned fields of a model
  Vals,         \* field values
  NoRow,        \* a key absent from its table
  Owner,        \* [Keys -> Indexes]: whose handlers write the key
  Chains,       \* blockchains the indexes follow
  Chain,        \* [Indexes -> Chains]
  Depth,        \* advanced.rollback_depth
  Immune,       \* keys of tables listed in database.immune_tables
  Cached,       \* keys whose instance outlives the level (CachedModel)
  Unsafe,       \* handler idioms allowed beside the plain ones
  HeadLag,      \* how far a rollback message's from_level may trail the index
  TooDeep,      \* advanced.reindex.rollback: what is done about a rollback deeper than Depth
  CrashPoints,  \* where the process may die
  MaxLevel,     \* bound: highest level of the chain
  MaxUpdates    \* bound: model updates created in a behaviour

Levels == 0 .. MaxLevel
NoLevel == -1
Row == [Fields -> Vals]
Data == UNION {[D -> Vals] : D \in SUBSET Fields}
NoData == [f \in {} |-> NoRow]
Actions == {"INSERT", "UPDATE", "DELETE"}

ASSUME ConstantsAssumption ==
  /\ Indexes # {}
  /\ Owner \in [Keys -> Indexes]
  /\ Chain \in [Indexes -> Chains]
  /\ Depth \in Nat /\ HeadLag \in Nat
  /\ MaxLevel \in Nat /\ MaxUpdates \in Nat
  /\ NoRow \notin Row
  /\ Immune \subseteq Keys /\ Cached \subseteq Keys
  /\ Unsafe \subseteq {"dirty_delete", "double_delete", "ignore_conflicts",
                       "upsert", "in_place"}
  /\ TooDeep \in {"exception", "wipe", "ignore"}
  /\ CrashPoints \subseteq {"none", "level", "rollback", "reverted"}

VARIABLES
  rows,      \* committed tables of the project's models
  log,       \* committed dipdup_model_update
  level,     \* committed dipdup_index.level
  tx,        \* the open transaction and its VersionedTransaction
  trows,     \* the tables as the open transaction sees them
  pending,   \* TransactionManager._pending_updates
  reverted,  \* updates the open rollback transaction has reverted and deleted
  originals, \* _original_versioned_data of the instances handlers hold
  rolling,   \* target of a rollback whose level is not moved yet, or NoLevel
  cutoff,    \* level the cleanup task has computed and not used yet, or NoLevel
  nextId,    \* next dipdup_model_update.id
  seen,      \* history: highest head observed on each chain
  snap       \* history: the rows each level left behind

vars == <<rows, log, level, tx, trows, pending, reverted, originals, rolling,
          cutoff, nextId, seen, snap>>

Updates == [id : Nat, key : Keys, index : Indexes, level : Levels,
            action : Actions, data : Data]

Txs == [kind : {"none", "level", "rollback"}, index : Indexes,
        level : Levels, from : Levels, versioned : BOOLEAN]

Idle == tx.kind = "none"
KeysOf(i) == {k \in Keys : Owner[k] = i}
Max2(a, b) == IF a >= b THEN a ELSE b

-----------------------------------------------------------------------------
(* Closing a transaction, whichever way, forgets what only it knew. *)

NoTx == [kind |-> "none", index |-> CHOOSE i \in Indexes : TRUE,
         level |-> 0, from |-> 0, versioned |-> FALSE]

CloseTx ==
  /\ tx' = NoTx
  /\ pending' = {}
  /\ reverted' = {}
  /\ originals' = [k \in Keys |-> IF k \in Cached THEN originals[k] ELSE {}]

(* A level is versioned unless it is too deep below the head being synced   *)
(* to for any rollback to reach it.                                         *)
Versioned(l, sync) == Depth > 0 /\ sync - l <= Depth

(* History: index i has reached level l and leaves the rows r behind.  The  *)
(* levels it passed over left the rows as they were.                        *)
Remember(i, l, r) ==
  snap' = [k \in Keys |-> [m \in Levels |->
             IF Owner[k] # i \/ m <= level[i] THEN snap[k][m]
             ELSE IF m < l THEN snap[k][level[i]] ELSE r[k]]]

(* The index enters in_transaction(level, sync_level, index).               *)
BeginLevel(i, l, sync) ==
  /\ Idle /\ rolling[i] = NoLevel
  /\ level[i] < l /\ l <= sync
  /\ tx' = [kind |-> "level", index |-> i, level |-> l, from |-> 0,
            versioned |-> Versioned(l, sync)]
  /\ seen' = [seen EXCEPT ![Chain[i]] = Max2(@, sync)]
  /\ UNCHANGED <<rows, log, level, trows, pending, reverted, originals,
                 rolling, cutoff, nextId, snap>>

(* A level none of whose data matches a handler only moves the index.       *)
SkipLevel(i, l, sync) ==
  /\ Idle /\ rolling[i] = NoLevel
  /\ level[i] < l /\ l <= sync
  /\ level' = [level EXCEPT ![i] = l]
  /\ seen' = [seen EXCEPT ![Chain[i]] = Max2(@, sync)]
  /\ Remember(i, l, rows)
  /\ UNCHANGED <<rows, log, tx, trows, pending, reverted, originals, rolling,
                 cutoff, nextId>>

-----------------------------------------------------------------------------
(* What handlers do to rows.  Each operation changes the row the            *)
(* transaction sees and queues the model update that undoes the change.     *)

Writable(k) == tx.kind = "level" /\ tx.index = Owner[k]

(* ModelUpdate.from_model: nothing outside a versioned transaction, for an  *)
(* immune table or for an update that changes no field.                     *)
Recorded(k, action, data) ==
  /\ tx.versioned
  /\ k \notin Immune
  /\ action = "UPDATE" => DOMAIN data # {}

NewUpdate(k, action, data) ==
  [id |-> nextId, key |-> k, index |-> tx.index, level |-> tx.level,
   action |-> action, data |-> data]

Record(k, action, data) ==
  IF Recorded(k, action, data)
  THEN /\ nextId < MaxUpdates
       /\ pending' = pending \cup {NewUpdate(k, action, data)}
       /\ nextId' = nextId + 1
  ELSE UNCHANGED <<pending, nextId>>

(* Mutant of Diff: the new values are recorded in place of the original.    *)
DiffOfNew(orig, cur) == [f \in {g \in Fields : orig[g] # cur[g]} |-> cur[f]]

(* versioned_data_diff: the original values of the fields that differ.      *)
Diff(orig, cur) == [f \in {g \in Fields : orig[g] # cur[g]} |-> orig[f]]

Tables == <<rows, log, level, tx, reverted, rolling, cutoff, seen, snap>>

(* Model.get / filter: the instance remembers the row as it is now and for  *)
(* good.  cached_get loads only what the cache lacks.                       *)
Load(k) ==
  /\ Writable(k)
  /\ trows[k] # NoRow
  /\ k \in Cached => originals[k] = {}
  /\ originals' = [originals EXCEPT ![k] = @ \cup {trows[k]}]
  /\ UNCHANGED <<Tables, trows, pending, nextId>>

(* `in_place': a list or a dict of the instance is mutated, not assigned;   *)
(* the original data holds the same object.                                 *)
MutateInPlace(k, o, f, v) ==
  /\ Writable(k)
  /\ "in_place" \in Unsafe
  /\ o \in originals[k] /\ o[f] # v
  /\ originals' = [originals EXCEPT ![k] = (@ \ {o}) \cup {[o EXCEPT ![f] = v]}]
  /\ UNCHANGED <<Tables, trows, pending, nextId>>

(* Model.create, Model().save(), bulk_create of a new row.                  *)
Create(k, r) ==
  /\ Writable(k)
  /\ trows[k] = NoRow
  /\ trows' = [trows EXCEPT ![k] = r]
  /\ Record(k, "INSERT", NoData)
  /\ originals' = [originals EXCEPT ![k] = @ \cup {r}]
  /\ UNCHANGED Tables

(* save(), save(update_fields=W), bulk_update(fields=W) of an instance that *)
(* was loaded as o and holds r by now: W reaches the table, the diff covers *)
(* every field.  Handlers do not save what they have deleted.               *)
Save(k, o, r, W) ==
  /\ Writable(k)
  /\ o \in originals[k] /\ trows[k] # NoRow
  /\ trows' = [trows EXCEPT ![k] =
                 [f \in Fields |-> IF f \in W THEN r[f] ELSE @[f]]]
  /\ Record(k, "UPDATE", Diff(o, r))
  /\ UNCHANGED <<Tables, originals>>

(* Model.delete() of an instance that holds r: what the table has, what was *)
(* loaded or, `dirty_delete', fields assigned and never saved; or of one    *)
(* that is gone already, `double_delete'.                                   *)
Delete(k, r) ==
  /\ Writable(k)
  /\ originals[k] # {}
  /\ trows[k] # NoRow \/ "double_delete" \in Unsafe
  /\ "dirty_delete" \in Unsafe \/ r \in originals[k] \cup {trows[k]}
  /\ trows' = [trows EXCEPT ![k] = NoRow]
  /\ Record(k, "DELETE", r)
  /\ UNCHANGED <<Tables, originals>>

(* Model.filter(...).update(f=v): prefetches the row, records, then runs.   *)
QueryUpdate(k, f, v) ==
  /\ Writable(k)
  /\ trows[k] # NoRow
  /\ LET new == [trows[k] EXCEPT ![f] = v]
     IN /\ Record(k, "UPDATE", Diff(trows[k], new))
        /\ trows' = [trows EXCEPT ![k] = new]
  /\ UNCHANGED <<Tables, originals>>

(* Model.filter(...).delete().                                              *)
QueryDelete(k) ==
  /\ Writable(k)
  /\ trows[k] # NoRow
  /\ Record(k, "DELETE", trows[k])
  /\ trows' = [trows EXCEPT ![k] = NoRow]
  /\ UNCHANGED <<Tables, originals>>

(* bulk_create(ignore_conflicts=True) and bulk_create(update_fields=...)    *)
(* over a row that exists: recorded as an INSERT like any other.            *)
BulkConflict(k, r) ==
  /\ Writable(k)
  /\ trows[k] # NoRow
  /\ \/ "ignore_conflicts" \in Unsafe /\ UNCHANGED trows
     \/ "upsert" \in Unsafe /\ trows' = [trows EXCEPT ![k] = r]
  /\ Record(k, "INSERT", NoData)
  /\ UNCHANGED <<Tables, originals>>

-----------------------------------------------------------------------------
(* The handlers are done: level, queued updates and rows commit together.   *)
CommitLevel ==
  LET i == tx.index
      l == tx.level
  IN /\ tx.kind = "level"
     /\ rows' = trows
     /\ log' = log \cup pending
     /\ level' = [level EXCEPT ![i] = l]
     /\ Remember(i, l, trows)
     /\ CloseTx
     /\ UNCHANGED <<trows, rolling, cutoff, nextId, seen>>

-----------------------------------------------------------------------------
(* ctx.rollback(index, from_level, to_level).                               *)

(* What a datasource may ask for: the target is below the index, the old    *)
(* head is known up to HeadLag.                                             *)
RollbackAsked(i, from, to) ==
  /\ Idle /\ rolling[i] = NoLevel
  /\ to < level[i] /\ to < from
  /\ level[i] - HeadLag <= from

(* No block of the chain is replaced once Depth blocks were built on it.    *)
Final(i, to) == to < seen[Chain[i]] - Depth

(* A rollback no deeper than Depth, or one that goes on after reindex() has *)
(* returned because that is to be ignored.                                  *)
BeginRollback(i, from, to) ==
  /\ RollbackAsked(i, from, to)
  /\ IF from - to <= Depth THEN ~Final(i, to) ELSE TooDeep = "ignore"
  /\ tx' = [kind |-> "rollback", index |-> i, level |-> to, from |-> from,
            versioned |-> FALSE]
  /\ UNCHANGED <<rows, log, level, trows, pending, reverted, originals,
                 rolling, cutoff, nextId, seen, snap>>

(* A deeper one otherwise: reindex(), whose `wipe' action drops every table *)
(* but the immune ones and restarts the process; the exception would stop   *)
(* it (Startup).                                                            *)
Reindex(i, from, to) ==
  /\ RollbackAsked(i, from, to)
  /\ from - to > Depth /\ TooDeep = "wipe"
  /\ rows' = [k \in Keys |-> IF k \in Immune THEN rows[k] ELSE NoRow]
  /\ trows' = rows'
  /\ log' = {}
  /\ level' = [j \in Indexes |-> 0]
  /\ rolling' = [j \in Indexes |-> NoLevel]
  /\ cutoff' = NoLevel
  /\ originals' = [k \in Keys |-> {}]
  /\ snap' = [k \in Keys |-> [m \in Levels |-> rows'[k]]]
  /\ UNCHANGED <<tx, pending, reverted, nextId, seen>>

(* Mutants of ToRevert: levels strictly below the old head, updates of      *)
(* every index.                                                             *)
ToRevertBelowHead == {u \in log \ reverted : /\ u.index = tx.index
                                             /\ u.level < tx.from
                                             /\ u.level > tx.level}
ToRevertAnyIndex == {u \in log \ reverted : /\ u.level <= tx.from
                                            /\ u.level > tx.level}

(* The updates the rollback fetched and has not reverted yet.               *)
ToRevert == {u \in log \ reverted : /\ u.index = tx.index
                                    /\ u.level <= tx.from
                                    /\ u.level > tx.level}

(* Mutant of Newest: `order_by('id')'.                                      *)
OldestFirst(u) == \A v \in ToRevert : v.id >= u.id

(* `order_by('-id')'.                                                       *)
Newest(u) == \A v \in ToRevert : v.id <= u.id

(* What a revert leaves of a row: the three branches of ModelUpdate.revert. *)
Undone(u, row) ==
  CASE u.action = "INSERT" -> NoRow
    [] u.action = "DELETE" -> u.data
    [] u.action = "UPDATE" ->
         IF row = NoRow THEN NoRow
         ELSE [f \in Fields |-> IF f \in DOMAIN u.data THEN u.data[f] ELSE row[f]]

(* Re-creating a row whose primary key is taken raises IntegrityError.      *)
Conflicts(u) == u.action = "DELETE" /\ trows[u.key] # NoRow

RevertOne ==
  /\ tx.kind = "rollback"
  /\ \E u \in ToRevert :
       /\ Newest(u)
       /\ ~Conflicts(u)
       /\ trows' = [trows EXCEPT ![u.key] = Undone(u, @)]
       /\ reverted' = reverted \cup {u}
  /\ UNCHANGED <<rows, log, level, tx, pending, originals, rolling, cutoff,
                 nextId, seen, snap>>

CommitRollback ==
  LET i == tx.index
      to == tx.level
  IN /\ tx.kind = "rollback"
     /\ ToRevert = {}
     /\ rows' = trows
     /\ log' = log \ reverted
     /\ rolling' = [rolling EXCEPT ![i] = to]
     /\ CloseTx
     /\ UNCHANGED <<level, trows, cutoff, nextId, seen, snap>>

(* `Index.filter(name=index).update(level=to_level)', a statement of its    *)
(* own after the transaction.                                               *)
MoveLevel(i) ==
  /\ Idle /\ rolling[i] # NoLevel
  /\ level' = [level EXCEPT ![i] = rolling[i]]
  /\ rolling' = [rolling EXCEPT ![i] = NoLevel]
  /\ UNCHANGED <<rows, log, tx, trows, pending, reverted, originals, cutoff,
                 nextId, seen, snap>>

-----------------------------------------------------------------------------
(* TransactionManager.cleanup(): two statements of another task.            *)

(* Mutant of CleanupRead: the depth is not subtracted.                      *)
CleanupReadNoDepth ==
  /\ Idle /\ cutoff = NoLevel /\ Depth > 0
  /\ \E i \in Indexes : /\ \A j \in Indexes : level[j] <= level[i]
                        /\ level[i] > Depth
                        /\ cutoff' = level[i]
  /\ UNCHANGED <<rows, log, level, tx, trows, pending, reverted, originals,
                 rolling, nextId, seen, snap>>

CleanupRead ==
  /\ Idle /\ cutoff = NoLevel /\ Depth > 0
  /\ \E i \in Indexes : /\ \A j \in Indexes : level[j] <= level[i]
                        /\ level[i] > Depth
                        /\ cutoff' = level[i] - Depth
  /\ UNCHANGED <<rows, log, level, tx, trows, pending, reverted, originals,
                 rolling, nextId, seen, snap>>

CleanupDelete ==
  /\ Idle /\ cutoff # NoLevel
  /\ log' = {u \in log : u.level >= cutoff}
  /\ cutoff' = NoLevel
  /\ UNCHANGED <<rows, level, tx, trows, pending, reverted, originals, rolling,
                 nextId, seen, snap>>

-----------------------------------------------------------------------------
(* The process dies, or an exception of a callback ends it: the database    *)
(* drops the open transaction and every in-memory object is gone.           *)
CrashPoint == IF \E i \in Indexes : rolling[i] # NoLevel THEN "reverted"
              ELSE tx.kind

Crash ==
  /\ CrashPoint \in CrashPoints
  /\ trows' = rows
  /\ tx' = NoTx
  /\ pending' = {} /\ reverted' = {}
  /\ originals' = [k \in Keys |-> {}]
  /\ rolling' = [i \in Indexes |-> NoLevel]
  /\ cutoff' = NoLevel
  /\ UNCHANGED <<rows, log, level, nextId, seen, snap>>

-----------------------------------------------------------------------------
Init ==
  /\ rows = [k \in Keys |-> NoRow]
  /\ log = {}
  /\ level = [i \in Indexes |-> 0]
  /\ tx = NoTx
  /\ trows = rows
  /\ pending = {} /\ reverted = {}
  /\ originals = [k \in Keys |-> {}]
  /\ rolling = [i \in Indexes |-> NoLevel]
  /\ cutoff = NoLevel
  /\ nextId = 0
  /\ seen = [c \in Chains |-> 0]
  /\ snap = [k \in Keys |-> [m \in Levels |-> NoRow]]

HandlerStep ==
  \E k \in Keys :
    \/ Load(k)
    \/ \E o \in Row, f \in Fields, v \in Vals : MutateInPlace(k, o, f, v)
    \/ \E r \in Row : Create(k, r)
    \/ \E o, r \in Row, W \in SUBSET Fields : Save(k, o, r, W)
    \/ \E r \in Row : Delete(k, r)
    \/ \E f \in Fields, v \in Vals : QueryUpdate(k, f, v)
    \/ QueryDelete(k)
    \/ \E r \in Row : BulkConflict(k, r)

IndexStep ==
  \/ \E i \in Indexes, l, s \in Levels : BeginLevel(i, l, s) \/ SkipLevel(i, l, s)
  \/ CommitLevel

RollbackStep ==
  \/ \E i \in Indexes, from, to \in Levels :
       BeginRollback(i, from, to) \/ Reindex(i, from, to)
  \/ RevertOne
  \/ CommitRollback
  \/ \E i \in Indexes : MoveLevel(i)

CleanupStep == CleanupRead \/ CleanupDelete

Next == HandlerStep \/ IndexStep \/ RollbackStep \/ CleanupStep \/ Crash

Spec == Init /\ [][Next]_vars

-----------------------------------------------------------------------------
(* Every variable holds what the code can put in it: rows of known fields,  *)
(* model updates with ids already handed out, levels of the chain.          *)
TypeOK ==
  /\ rows \in [Keys -> Row \cup {NoRow}]
  /\ trows \in [Keys -> Row \cup {NoRow}]
  /\ log \subseteq Updates /\ pending \subseteq Updates
  /\ reverted \subseteq log
  /\ level \in [Indexes -> Levels]
  /\ tx \in Txs
  /\ originals \in [Keys -> SUBSET Row]
  /\ rolling \in [Indexes -> Levels \cup {NoLevel}]
  /\ cutoff \in Levels \cup {NoLevel}
  /\ nextId \in 0 .. MaxUpdates
  /\ seen \in [Chains -> Levels]
  /\ snap \in [Keys -> [Levels -> Row \cup {NoRow}]]

(* The level the tables stand for: the rollback target while only the rows  *)
(* have been moved, the index level otherwise.                              *)
At(i) == IF rolling[i] = NoLevel THEN level[i] ELSE rolling[i]

(* The tables always hold exactly what the levels up to the index level     *)
(* left behind: no partial level, no trace of a level rolled back, nothing  *)
(* lost by a rollback (index.py:157-167, context.py:594-608).               *)
TablesMatchLevel ==
  \A k \in Keys \ Immune : rows[k] = snap[k][At(Owner[k])]

(* The same without the grace period: what a restarted process relies on,   *)
(* for it knows nothing but the tables and the index level.                 *)
RestartResumes ==
  (\A i \in Indexes : rolling[i] = NoLevel) =>
     \A k \in Keys \ Immune : rows[k] = snap[k][level[Owner[k]]]

-----------------------------------------------------------------------------
(* The updates S, reverted newest first, take a row back to old, whatever   *)
(* the order its levels wrote it in: the oldest update that mentions a      *)
(* field holds its value, the oldest of all tells whether the row existed.  *)
Oldest(u, S) == \A v \in S : u.id <= v.id
Touches(u, f) == f \in DOMAIN u.data
Untouched(S, f) == \A u \in S : ~Touches(u, f)

TakesBack(S, row, old) ==
  /\ S = {} => row = old
  /\ \A u \in S : Oldest(u, S) => (u.action = "INSERT" <=> old = NoRow)
  /\ old # NoRow =>
       /\ (\A u \in S : u.action # "DELETE") =>
            row # NoRow /\ \A u \in S : u.action # "INSERT"
       /\ \A u \in S : u.action = "INSERT" =>
            \E v \in S : v.action = "DELETE" /\ v.id < u.id
       /\ \A f \in Fields :
            /\ Untouched(S, f) => row # NoRow /\ row[f] = old[f]
            /\ \A u \in S :
                 /\ Touches(u, f)
                 /\ \A v \in S : Touches(v, f) => u.id <= v.id
                 => u.data[f] = old[f]

(* The updates of U above level l take k back to the row it had there.      *)
After(U, k, l) == {u \in U : u.key = k /\ u.level > l}
Undoes(U, k, l, row) == TakesBack(After(U, k, l), row, snap[k][l])

(* The levels a reorg may still replace.                                    *)
Reachable(i, l) == l <= At(i) /\ l >= seen[Chain[i]] - Depth

(* Whatever the cleanup task has deleted and however far behind the head an *)
(* index started, the updates kept suffice to take every row back to every  *)
(* level the chain may still return to (transactions.py:55-82).             *)
LogSuffices ==
  \A k \in Keys \ Immune : \A l \in Levels :
    Reachable(Owner[k], l) => Undoes(log, k, l, rows[k])

(* No update belongs to a level above its index, or a later rollback of the *)
(* levels processed since would apply it out of turn.                       *)
NoUpdateFromAbove == \A u \in log : u.level <= At(u.index)

(* Re-creating a deleted row never meets a row with the same primary key:   *)
(* the rollback would fail with IntegrityError, and fail again after every  *)
(* restart (models/__init__.py:213-214).                                    *)
RevertNeverConflicts ==
  tx.kind = "rollback" => \A u \in ToRevert : Newest(u) => ~Conflicts(u)

(* The detailed machinery implements the abstract store: rows move with the *)
(* index level in one step, and going back restores what a level left.      *)
Store == INSTANCE VersionedStore
           WITH Rows <- Row \cup {NoRow}, level <- [i \in Indexes |-> At(i)],
                hist <- snap
ImplementsStore == Store!Spec

(* Rows of immune tables only change while a level is indexed: neither a    *)
(* rollback nor a reindexing takes anything back (models/__init__.py:177,   *)
(* context.py:231-240).                                                     *)
ImmuneOnlyIndexed ==
  [][\A k \in Immune : rows'[k] # rows[k] =>
       tx.kind = "level" /\ tx.index = Owner[k]]_vars

(* Rows of an index are written by its own levels and rollbacks only; the   *)
(* rollback of one index never touches another's (context.py:599).          *)
RowsMoveWithTheirIndex ==
  [][\A k \in Keys : rows'[k] # rows[k] =>
       \/ tx.kind # "none" /\ tx.index = Owner[k]
       \/ log' = {} /\ \A i \in Indexes : level'[i] = 0]_vars
=============================================================================
