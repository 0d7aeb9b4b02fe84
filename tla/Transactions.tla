---------------------------- MODULE Transactions ----------------------------
(***************************************************************************)
(* The tasks that share one TransactionManager: indexes with their levels   *)
(* and rollbacks, and hooks, be they jobs or fired by handlers.  The        *)
(* connection of a transaction belongs to its task, but the transaction     *)
(* that models are versioned by and the updates it has queued belong to the *)
(* process.  What a rollback does to rows is ModelVersioning's subject;     *)
(* here a level and a run of a job write one new row each.                  *)
(***************************************************************************)
EXTENDS Integers, Sequences, FiniteSets

CONSTANTS
  Indexes, Jobs,
  Hazards,      \* circumstances that are otherwise ruled out
  MaxLevel,     \* bound: height of the chain
  MaxRuns,      \* bound: runs of a job
  MaxRollbacks  \* bound

Circumstances == {"bulk", "nested_atomic"}

ASSUME TransactionsAssumption ==
  /\ Hazards \subseteq Circumstances
  /\ Indexes \cap Jobs = {} /\ "none" \notin Indexes \cup Jobs
  /\ MaxLevel \in Nat \ {0} /\ MaxRuns \in Nat /\ MaxRollbacks \in Nat

VARIABLES
  settings,    \* the jobs whose hook is atomic; the last level that is too old to be versioned
  failure,     \* the exception that ended the process, or "none"
  conn,        \* the task that holds the only connection, or "none"
  transaction, \* _transaction: [index, level], or NoTransaction
  pending,     \* _pending_updates
  log,         \* the saved ModelUpdates
  rows,
  level,       \* [index -> level]
  rolledBack,  \* [index -> level a rollback leads to, while it is under way]
  step,        \* [task -> where it is at]
  runs,        \* [job -> runs begun]
  rollbacks,
  hooks,       \* _pending_hooks
  fired        \* hooks fired with wait=False

manager == <<transaction, pending>>
database == <<log, rows, level>>
hookVars == <<hooks, fired>>
vars == <<settings, failure, conn, manager, database, rolledBack, step, runs, rollbacks, hookVars>>

Levels == 0 .. MaxLevel
Tasks == Indexes \cup Jobs
Running == failure = "none"
At(t, s) == step' = [step EXCEPT ![t] = s]

NoTransaction == [index |-> "none", level |-> 0]
VersionedTransaction(i, l) == [index |-> i, level |-> l]

(* The row of a level, and that of a run of a job.                          *)
RowOf(i, l) == [by |-> i, nth |-> l]
Run(k) == RowOf(k, runs[k])

(* ModelUpdate.from_model: what is written while a versioned transaction is *)
(* open is taken for its index's, whoever writes it.                        *)
Record(row) ==
  pending' = IF transaction = NoTransaction THEN pending
             ELSE Append(pending, [row |-> row, index |-> transaction.index, level |-> transaction.level])

-----------------------------------------------------------------------------
(* in_transaction.                                                          *)

(* The connection is waited for, so another transaction is over by then;    *)
(* else it would be an error.  Only levels are versioned, unless too old.   *)
Enter(t, versioned) ==
  /\ conn = "none" /\ conn' = t
  /\ IF transaction # NoTransaction
       THEN failure' = "already_started" /\ transaction' = NoTransaction
       ELSE transaction' = versioned /\ UNCHANGED failure

(* Mutant of Leave: the transaction is not forgotten.                       *)
LeaveOpen(t) == conn = t /\ conn' = "none" /\ UNCHANGED transaction

(* COMMIT; the connection is free again, the transaction forgotten.         *)
Leave(t) == conn = t /\ conn' = "none" /\ transaction' = NoTransaction

-----------------------------------------------------------------------------
(* A level of an index.                                                     *)

Versioned(i, l) == IF l > settings.history THEN VersionedTransaction(i, l) ELSE NoTransaction

BeginLevel(i) ==
  /\ Running /\ step[i] = "idle" /\ level[i] < MaxLevel
  /\ Enter(i, Versioned(i, level[i] + 1)) /\ At(i, "open")
  /\ UNCHANGED <<settings, pending, database, rolledBack, runs, rollbacks, hookVars>>

(* Its handlers.                                                            *)
Handle(i) ==
  /\ Running /\ step[i] = "open"
  /\ rows' = rows \cup {RowOf(i, level[i] + 1)} /\ Record(RowOf(i, level[i] + 1))
  /\ At(i, "handled")
  /\ UNCHANGED <<settings, failure, conn, transaction, log, level, rolledBack, runs, rollbacks, hookVars>>

(* A handler fires an atomic hook and waits for it: for the database its    *)
(* transaction is part of the level's, but the manager fails when the level *)
(* is versioned (nested_atomic).                                            *)
FireAndWait(i) ==
  /\ Running /\ step[i] = "handled"
  /\ "nested_atomic" \in Hazards \/ transaction = NoTransaction
  /\ failure' = IF transaction # NoTransaction THEN "already_started" ELSE "none"
  /\ transaction' = NoTransaction
  /\ UNCHANGED <<settings, conn, pending, database, rolledBack, step, runs, rollbacks, hookVars>>

(* A handler fires a hook with wait=False.                                  *)
Fire(i, k) ==
  /\ Running /\ step[i] = "handled" /\ k \notin fired
  /\ hooks' = Append(hooks, k) /\ fired' = fired \cup {k}
  /\ UNCHANGED <<settings, failure, conn, manager, database, rolledBack, step, runs, rollbacks>>

(* _hooks_loop gets what was fired, and that is all it does.                *)
HooksLoop ==
  /\ Running /\ hooks # <<>>
  /\ hooks' = Tail(hooks)
  /\ UNCHANGED <<settings, failure, conn, manager, database, rolledBack, step, runs, rollbacks, fired>>

(* _commit saves the queued updates one by one.                             *)
Commit(i) ==
  /\ Running /\ step[i] = "handled"
  /\ IF transaction # NoTransaction /\ pending # <<>>
       THEN log' = log \cup {Head(pending)} /\ pending' = Tail(pending) /\ UNCHANGED step
       ELSE At(i, "committed") /\ UNCHANGED <<pending, log>>
  /\ UNCHANGED <<settings, failure, conn, transaction, rows, level, rolledBack, runs, rollbacks, hookVars>>

EndLevel(i) ==
  /\ Running /\ step[i] = "committed"
  /\ Leave(i) /\ At(i, "idle") /\ level' = [level EXCEPT ![i] = @ + 1]
  /\ UNCHANGED <<settings, failure, pending, log, rows, rolledBack, runs, rollbacks, hookVars>>

-----------------------------------------------------------------------------
(* A rollback of an index, by on_index_rollback in its task.                *)

BeginRollback(i, to) ==
  /\ Running /\ step[i] = "idle" /\ rollbacks < MaxRollbacks
  /\ settings.history <= to /\ to < level[i]
  /\ Enter(i, NoTransaction) /\ At(i, "reverting")
  /\ rolledBack' = [rolledBack EXCEPT ![i] = to] /\ rollbacks' = rollbacks + 1
  /\ UNCHANGED <<settings, pending, database, runs, hookVars>>

(* The updates of the index above the target.                               *)
Reverted(i) == {u \in log : u.index = i /\ rolledBack[i] < u.level /\ u.level <= level[i]}

Revert(i) ==
  /\ Running /\ step[i] = "reverting"
  /\ rows' = rows \ {u.row : u \in Reverted(i)} /\ log' = log \ Reverted(i)
  /\ At(i, "reverted") /\ Leave(i)
  /\ UNCHANGED <<settings, failure, pending, level, rolledBack, runs, rollbacks, hookVars>>

MoveLevel(i) ==
  /\ Running /\ step[i] = "reverted"
  /\ level' = [level EXCEPT ![i] = rolledBack[i]] /\ At(i, "idle")
  /\ UNCHANGED <<settings, failure, conn, manager, log, rows, rolledBack, runs, rollbacks, hookVars>>

-----------------------------------------------------------------------------
(* A job runs its hook.                                                     *)

(* An atomic hook has a transaction of its own, which is not versioned.     *)
BeginAtomic(k) ==
  /\ Running /\ step[k] = "idle" /\ runs[k] < MaxRuns /\ k \in settings.atomic
  /\ Enter(k, NoTransaction) /\ At(k, "open")
  /\ runs' = [runs EXCEPT ![k] = @ + 1]
  /\ UNCHANGED <<settings, pending, database, rolledBack, rollbacks, hookVars>>

SaveAtomic(k) ==
  /\ Running /\ step[k] = "open"
  /\ rows' = rows \cup {Run(k)} /\ Record(Run(k)) /\ At(k, "saved")
  /\ UNCHANGED <<settings, failure, conn, transaction, log, level, rolledBack, runs, rollbacks, hookVars>>

EndAtomic(k) ==
  /\ Running /\ step[k] = "saved"
  /\ Leave(k) /\ At(k, "idle")
  /\ UNCHANGED <<settings, failure, pending, database, rolledBack, runs, rollbacks, hookVars>>

(* Mutant of RecordedFirst: save() asks for the transaction before it waits *)
(* for the connection.                                                      *)
AlwaysRecordedFirst(op) == TRUE

(* bulk_create and bulk_update queue their updates and then write; save()   *)
(* writes first.                                                            *)
RecordedFirst(op) == op = "bulk"

(* Another hook calls save(), or bulk_create() when no versioned            *)
(* transaction is open, if not at any time (bulk).                          *)
BeginWrite(k, op) ==
  /\ Running /\ step[k] = "idle" /\ runs[k] < MaxRuns /\ k \notin settings.atomic
  /\ op = "bulk" => transaction = NoTransaction \/ "bulk" \in Hazards
  /\ runs' = [runs EXCEPT ![k] = @ + 1]
  /\ IF RecordedFirst(op) THEN Record(RowOf(k, runs[k] + 1)) ELSE UNCHANGED pending
  /\ At(k, op)
  /\ UNCHANGED <<settings, failure, conn, transaction, database, rolledBack, rollbacks, hookVars>>

(* It gets the connection for the statement; what save() queues is queued   *)
(* before a transaction that waits for the connection has begun.            *)
Write(k, op) ==
  /\ Running /\ step[k] = op /\ conn = "none"
  /\ rows' = rows \cup {Run(k)}
  /\ IF RecordedFirst(op) THEN UNCHANGED pending ELSE Record(Run(k))
  /\ At(k, "idle")
  /\ UNCHANGED <<settings, failure, conn, transaction, log, level, rolledBack, runs, rollbacks, hookVars>>

-----------------------------------------------------------------------------
Init ==
  /\ settings \in [atomic : SUBSET Jobs, history : 0 .. MaxLevel - 1]
  /\ failure = "none" /\ conn = "none" /\ transaction = NoTransaction /\ pending = <<>>
  /\ log = {} /\ rows = {} /\ level = [i \in Indexes |-> 0]
  /\ rolledBack = [i \in Indexes |-> 0] /\ step = [t \in Tasks |-> "idle"]
  /\ runs = [k \in Jobs |-> 0] /\ rollbacks = 0
  /\ hooks = <<>> /\ fired = {}

Index(i) ==
  \/ BeginLevel(i) \/ Handle(i) \/ Commit(i) \/ EndLevel(i)
  \/ (\E to \in Levels : BeginRollback(i, to)) \/ Revert(i) \/ MoveLevel(i)
Job(k) == BeginAtomic(k) \/ SaveAtomic(k) \/ EndAtomic(k) \/ \E op \in {"save", "bulk"} : BeginWrite(k, op) \/ Write(k, op)

Next ==
  \/ \E i \in Indexes : Index(i) \/ FireAndWait(i) \/ (\E k \in Jobs : Fire(i, k))
  \/ HooksLoop
  \/ \E k \in Jobs : Job(k)

Spec == Init /\ [][Next]_vars

(* The event loop runs every task that can go on.                           *)
FairSpec ==
  /\ Spec
  /\ WF_vars(HooksLoop)
  /\ \A i \in Indexes : WF_vars(Index(i))
  /\ \A k \in Jobs : WF_vars(Job(k))

-----------------------------------------------------------------------------
(* Properties.                                                              *)

(* Where an index stands as far as its rows are concerned.                  *)
Stands(i) == IF step[i] = "reverted" THEN rolledBack[i] ELSE level[i]

(* The runs of a job whose rows are there.                                  *)
Done(k) == IF step[k] \in {"save", "bulk"} THEN runs[k] - 1 ELSE runs[k]

(* Between transactions there are exactly the rows of the levels below the  *)
(* indexes and those of the hooks that have run: no rollback takes a row of *)
(* a hook or of another index back (transactions.py:53-59,                  *)
(* models/__init__.py:175).                                                 *)
RowsAreTheirWriters ==
  conn = "none" /\ Running =>
    rows = (UNION {{RowOf(i, l) : l \in 1 .. Stands(i)} : i \in Indexes})
           \cup (UNION {{RowOf(k, n) : n \in 1 .. Done(k)} : k \in Jobs})

(* No task finds the manager in a transaction of another                    *)
(* (transactions.py:51).                                                    *)
NeverFails == failure = "none"

(* A hook that a handler has fired with wait=False runs: its row appears,   *)
(* before those of the hook's runs as a job.                                *)
FiredHooksRun == \A k \in Jobs : k \in fired ~> RowOf(k, 0) \in rows
=============================================================================
