------------------------ MODULE Transactions_proofs ------------------------
(***************************************************************************)
(* Theorems about Transactions, for every value of its constants that rules *)
(* out both circumstances: any number of tasks, levels and runs.            *)
(***************************************************************************)
EXTENDS Transactions, TLAPS

Plain == Hazards = {}

Updates == [row : [by : Tasks, nth : Nat], index : Indexes, level : Nat]

Steps == {"idle", "open", "handled", "committed", "reverting", "reverted", "saved", "save", "bulk"}

TypeInv ==
  /\ settings \in [atomic : SUBSET Jobs, history : 0 .. MaxLevel - 1]
  /\ conn \in Tasks \cup {"none"}
  /\ level \in [Indexes -> Levels] /\ rolledBack \in [Indexes -> Levels]
  /\ step \in [Tasks -> Steps]
  /\ runs \in [Jobs -> Nat]

(* The connection is held by the task that is between Enter and Leave.      *)
Holding(t) ==
  IF t \in Indexes THEN step[t] \in {"open", "handled", "committed", "reverting"}
                   ELSE step[t] \in {"open", "saved"}
ConnectionFits == \A t \in Tasks : conn = t <=> Holding(t)

(* A versioned transaction is that of the level being processed.            *)
InLevel(i) == step[i] \in {"open", "handled", "committed"}
TransactionFits ==
  /\ \A i \in Indexes : InLevel(i) => transaction = Versioned(i, level[i] + 1)
  /\ (\A i \in Indexes : ~InLevel(i)) => transaction = NoTransaction

(* What is saved of a level.                                                *)
UpdateOf(i, l) == [row |-> RowOf(i, l), index |-> i, level |-> l]

(* An update waits only while its level is being committed.                 *)
PendingFits ==
  /\ \A i \in Indexes : step[i] = "handled" /\ transaction # NoTransaction
       => pending \in {<<>>, <<UpdateOf(i, level[i] + 1)>>}
  /\ ((\A i \in Indexes : step[i] # "handled") \/ transaction = NoTransaction) => pending = <<>>

(* The levels of an index whose updates are saved, and whose rows are there.*)
Saved(i) ==
  IF step[i] = "committed" \/ (step[i] = "handled" /\ pending = <<>>)
  THEN level[i] + 1 ELSE Stands(i)
Written(i) == IF step[i] \in {"handled", "committed"} THEN level[i] + 1 ELSE Stands(i)
WrittenRuns(k) == IF step[k] \in {"open", "save", "bulk"} THEN runs[k] - 1 ELSE runs[k]

LogFits ==
  log = UNION {{UpdateOf(i, l) : l \in settings.history + 1 .. Saved(i)} : i \in Indexes}
RowsFit ==
  rows = (UNION {{RowOf(i, l) : l \in 1 .. Written(i)} : i \in Indexes})
         \cup (UNION {{RowOf(k, n) : n \in 1 .. WrittenRuns(k)} : k \in Jobs})

(* Levels that may be rolled back are versioned, those under way exist.     *)
LevelsFit ==
  /\ \A i \in Indexes : InLevel(i) => level[i] < MaxLevel
  /\ \A i \in Indexes : step[i] \in {"reverting", "reverted"} =>
       settings.history <= rolledBack[i] /\ rolledBack[i] < level[i]
  /\ \A i \in Indexes : step[i] \notin {"saved", "save", "bulk"}
  /\ \A k \in Jobs : step[k] \in {"idle", "open", "saved", "save", "bulk"}
  /\ \A k \in Jobs : step[k] # "idle" => runs[k] > 0

Inv ==
  /\ NeverFails /\ TypeInv /\ ConnectionFits /\ TransactionFits /\ PendingFits
  /\ LogFits /\ RowsFit /\ LevelsFit

-----------------------------------------------------------------------------
(* The sets that log and rows are, element by element.                      *)

LEMMA LogMembers ==
  LogFits <=> \A u : u \in log <=>
                \E i \in Indexes : \E l \in settings.history + 1 .. Saved(i) : u = UpdateOf(i, l)
  <1>1. \A u : u \in UNION {{UpdateOf(i, l) : l \in settings.history + 1 .. Saved(i)} : i \in Indexes}
          <=> \E i \in Indexes : \E l \in settings.history + 1 .. Saved(i) : u = UpdateOf(i, l)
    OBVIOUS
  <1> QED
    BY <1>1 DEF LogFits

RowWritten(r) ==
  \/ \E i \in Indexes : \E l \in 1 .. Written(i) : r = RowOf(i, l)
  \/ \E k \in Jobs : \E n \in 1 .. WrittenRuns(k) : r = RowOf(k, n)

LEMMA RowMembers == RowsFit <=> \A r : r \in rows <=> RowWritten(r)
  <1>1. \A r : r \in (UNION {{RowOf(i, l) : l \in 1 .. Written(i)} : i \in Indexes})
                     \cup (UNION {{RowOf(k, n) : n \in 1 .. WrittenRuns(k)} : k \in Jobs})
          <=> RowWritten(r)
    BY DEF RowWritten
  <1> QED
    BY <1>1 DEF RowsFit

(* The same of the next state.                                              *)
LEMMA RowMembersNext == RowsFit' <=> \A r : r \in rows' <=> RowWritten(r)'
  <1>1. \A r : r \in (UNION {{RowOf(i, l) : l \in 1 .. Written(i)'} : i \in Indexes})
                     \cup (UNION {{RowOf(k, n) : n \in 1 .. WrittenRuns(k)'} : k \in Jobs})
          <=> RowWritten(r)'
    BY DEF RowWritten, RowOf
  <1> QED
    BY <1>1 DEF RowsFit, RowOf

LEMMA LogMembersNext ==
  LogFits' <=> \A u : u \in log' <=>
    \E i \in Indexes : \E l \in settings'.history + 1 .. Saved(i)' : u = UpdateOf(i, l)
  <1>1. \A u : u \in UNION {{UpdateOf(i, l) : l \in settings'.history + 1 .. Saved(i)'} : i \in Indexes}
          <=> \E i \in Indexes : \E l \in settings'.history + 1 .. Saved(i)' : u = UpdateOf(i, l)
    OBVIOUS
  <1> QED
    BY <1>1 DEF LogFits, UpdateOf, RowOf

LEMMA InitInv == Init => Inv
  <1> SUFFICES ASSUME Init PROVE Inv
    OBVIOUS
  <1> USE TransactionsAssumption DEF Init
  <1>1. NeverFails /\ TypeInv
    BY DEF NeverFails, TypeInv, Levels, Tasks, Steps
  <1>2. ConnectionFits /\ TransactionFits /\ PendingFits /\ LevelsFit
    BY DEF ConnectionFits, Holding, TransactionFits, InLevel, PendingFits, LevelsFit, Tasks
  <1>3. \A i \in Indexes : Written(i) = 0 /\ Saved(i) = 0
    BY DEF Written, Saved, Stands, Tasks
  <1>4. \A k \in Jobs : WrittenRuns(k) = 0
    BY DEF WrittenRuns, Tasks
  <1>5. LogFits
    BY <1>1, <1>3, LogMembers DEF TypeInv
  <1>6. RowsFit
    BY <1>3, <1>4, RowMembers DEF RowWritten
  <1> QED
    BY <1>1, <1>2, <1>5, <1>6 DEF Inv

-----------------------------------------------------------------------------
(* What steps do to the sets.                                               *)

LEMMA LogKept ==
  ASSUME Inv, settings' = settings, log' = log, \A i \in Indexes : Saved(i)' = Saved(i)
  PROVE  LogFits'
  BY DEF Inv, LogFits, UpdateOf, RowOf

LEMMA RowsKept ==
  ASSUME Inv, rows' = rows, \A i \in Indexes : Written(i)' = Written(i),
         \A k \in Jobs : WrittenRuns(k)' = WrittenRuns(k)
  PROVE  RowsFit'
  BY DEF Inv, RowsFit, RowOf

LEMMA CountsType ==
  ASSUME Inv
  PROVE  /\ \A i \in Indexes : Written(i) \in Nat /\ Saved(i) \in Nat
         /\ \A k \in Jobs : WrittenRuns(k) \in Nat
  <1>1. \A i \in Indexes : level[i] \in Nat /\ rolledBack[i] \in Nat
    BY TransactionsAssumption DEF Inv, TypeInv, Levels
  <1>2. \A i \in Indexes : Written(i) \in Nat /\ Saved(i) \in Nat
    BY <1>1 DEF Written, Saved, Stands
  <1>3. ASSUME NEW k \in Jobs PROVE WrittenRuns(k) \in Nat
    <2>1. runs[k] \in Nat /\ (step[k] # "idle" => runs[k] > 0)
      BY DEF Inv, TypeInv, LevelsFit
    <2> QED
      BY <2>1 DEF WrittenRuns
  <1> QED
    BY <1>2, <1>3

(* One more row of an index, or of a job.                                   *)
LEMMA RowOfLevel ==
  ASSUME Inv, NEW i \in Indexes, rows' = rows \cup {RowOf(i, Written(i) + 1)},
         Written(i)' = Written(i) + 1, \A j \in Indexes \ {i} : Written(j)' = Written(j),
         \A k \in Jobs : WrittenRuns(k)' = WrittenRuns(k)
  PROVE  RowsFit'
  <1>1. \A j \in Indexes : Written(j) \in Nat
    BY CountsType
  <1>2. \A r : r \in rows <=> RowWritten(r)
    BY RowMembers DEF Inv
  <1>3. ASSUME NEW r PROVE r \in rows' <=> RowWritten(r)'
    <2>1. CASE \E k \in Jobs : \E n \in 1 .. WrittenRuns(k) : r = RowOf(k, n)
      BY <1>2, <2>1 DEF RowWritten, RowOf
    <2>2. CASE \A k \in Jobs : \A n \in 1 .. WrittenRuns(k) : r # RowOf(k, n)
      <3>1. r \in rows <=> \E j \in Indexes : \E l \in 1 .. Written(j) : r = RowOf(j, l)
        BY <1>2, <2>2 DEF RowWritten
      <3>2. RowWritten(r)' <=> \E j \in Indexes : \E l \in 1 .. Written(j)' : r = RowOf(j, l)
        BY <2>2 DEF RowWritten, RowOf
      <3>3. ASSUME NEW j \in Indexes, NEW l \in 1 .. Written(j)', r = RowOf(j, l)
            PROVE  r \in rows'
        BY <1>1, <3>1, <3>3
      <3>4. r = RowOf(i, Written(i) + 1) => RowWritten(r)'
        <4>1. Written(i) + 1 \in 1 .. Written(i)'
          BY <1>1
        <4> QED
          BY <3>2, <4>1
      <3>5. ASSUME NEW j \in Indexes, NEW l \in 1 .. Written(j), r = RowOf(j, l)
            PROVE  RowWritten(r)'
        <4>1. l \in 1 .. Written(j)'
          BY <1>1
        <4> QED
          BY <3>2, <3>5, <4>1
      <3> QED
        BY <3>1, <3>2, <3>3, <3>4, <3>5
    <2> QED
      BY <2>1, <2>2
  <1> QED
    BY <1>3, RowMembersNext

LEMMA RowOfRun ==
  ASSUME Inv, NEW k \in Jobs, rows' = rows \cup {RowOf(k, WrittenRuns(k) + 1)},
         WrittenRuns(k)' = WrittenRuns(k) + 1,
         \A j \in Jobs \ {k} : WrittenRuns(j)' = WrittenRuns(j),
         \A i \in Indexes : Written(i)' = Written(i)
  PROVE  RowsFit'
  <1>1. \A j \in Jobs : WrittenRuns(j) \in Nat
    BY CountsType
  <1>2. \A r : r \in rows <=> RowWritten(r)
    BY RowMembers DEF Inv
  <1>3. ASSUME NEW r PROVE r \in rows' <=> RowWritten(r)'
    <2>1. CASE \E i \in Indexes : \E n \in 1 .. Written(i) : r = RowOf(i, n)
      BY <1>2, <2>1 DEF RowWritten, RowOf
    <2>2. CASE \A i \in Indexes : \A n \in 1 .. Written(i) : r # RowOf(i, n)
      <3>1. r \in rows <=> \E j \in Jobs : \E l \in 1 .. WrittenRuns(j) : r = RowOf(j, l)
        BY <1>2, <2>2 DEF RowWritten
      <3>2. RowWritten(r)' <=> \E j \in Jobs : \E l \in 1 .. WrittenRuns(j)' : r = RowOf(j, l)
        BY <2>2 DEF RowWritten, RowOf
      <3>3. ASSUME NEW j \in Jobs, NEW l \in 1 .. WrittenRuns(j)', r = RowOf(j, l)
            PROVE  r \in rows'
        BY <1>1, <3>1, <3>3
      <3>4. r = RowOf(k, WrittenRuns(k) + 1) => RowWritten(r)'
        <4>1. WrittenRuns(k) + 1 \in 1 .. WrittenRuns(k)'
          BY <1>1
        <4> QED
          BY <3>2, <4>1
      <3>5. ASSUME NEW j \in Jobs, NEW l \in 1 .. WrittenRuns(j), r = RowOf(j, l)
            PROVE  RowWritten(r)'
        <4>1. l \in 1 .. WrittenRuns(j)'
          BY <1>1
        <4> QED
          BY <3>2, <3>5, <4>1
      <3> QED
        BY <3>1, <3>2, <3>3, <3>4, <3>5
    <2> QED
      BY <2>1, <2>2
  <1> QED
    BY <1>3, RowMembersNext

-----------------------------------------------------------------------------
(* The steps of an index.  What a step of one task leaves of the others.    *)

LEMMA TaskTypes ==
  /\ Indexes \subseteq Tasks /\ Jobs \subseteq Tasks
  /\ \A i \in Indexes, k \in Jobs : i # k
  /\ \A t \in Tasks : t # "none" /\ (t \in Indexes \/ t \in Jobs)
  BY TransactionsAssumption DEF Tasks

(* Between transactions the manager has nothing.                            *)
LEMMA IdleManager ==
  ASSUME Inv, conn = "none"
  PROVE  /\ transaction = NoTransaction /\ pending = <<>>
         /\ \A t \in Tasks : ~Holding(t)
         /\ \A i \in Indexes : ~InLevel(i)
  <1>1. \A t \in Tasks : ~Holding(t)
    BY TaskTypes DEF Inv, ConnectionFits
  <1>2. \A i \in Indexes : ~InLevel(i)
    BY <1>1, TaskTypes DEF Holding, InLevel
  <1> QED
    BY <1>1, <1>2 DEF Inv, TransactionFits, PendingFits

(* Within one there is one task.                                            *)
LEMMA OneHolds ==
  ASSUME Inv, NEW t \in Tasks, Holding(t)
  PROVE  /\ conn = t /\ \A u \in Tasks \ {t} : ~Holding(u)
         /\ \A i \in Indexes \ {t} : ~InLevel(i)
  <1>1. conn = t /\ \A u \in Tasks \ {t} : ~Holding(u)
    BY DEF Inv, ConnectionFits
  <1>2. \A i \in Indexes \ {t} : ~InLevel(i)
    BY <1>1, TaskTypes DEF Holding, InLevel
  <1> QED
    BY <1>1, <1>2

LEMMA BeginLevelKeeps == ASSUME Inv, NEW i \in Indexes, BeginLevel(i) PROVE Inv'
  <1> USE TaskTypes DEF BeginLevel, At, database, hookVars
  <1>1. /\ conn = "none" /\ conn' = i /\ failure' = failure
        /\ transaction' = Versioned(i, level[i] + 1) /\ pending = <<>>
        /\ \A t \in Tasks : ~Holding(t)
        /\ \A j \in Indexes : ~InLevel(j)
    BY IdleManager DEF Enter
  <1>2. step' = [step EXCEPT ![i] = "open"] /\ step \in [Tasks -> Steps] /\ "open" \in Steps
    BY DEF Inv, TypeInv, Steps
  <1>3. NeverFails' /\ TypeInv'
    BY <1>1, <1>2 DEF Inv, NeverFails, TypeInv
  <1>4. ConnectionFits'
    BY <1>1, <1>2 DEF ConnectionFits, Holding
  <1>5. TransactionFits'
    BY <1>1, <1>2 DEF TransactionFits, InLevel, Versioned
  <1>6. PendingFits'
    BY <1>1, <1>2 DEF PendingFits, InLevel
  <1>7. \A j \in Indexes : Saved(j)' = Saved(j) /\ Written(j)' = Written(j)
    BY <1>1, <1>2 DEF Saved, Written, Stands
  <1>8. \A k \in Jobs : WrittenRuns(k)' = WrittenRuns(k)
    BY <1>1, <1>2 DEF WrittenRuns
  <1>9. LevelsFit'
    BY <1>1, <1>2 DEF LevelsFit, Inv, InLevel
  <1> QED
    BY <1>3, <1>4, <1>5, <1>6, <1>7, <1>8, <1>9, LogKept, RowsKept DEF Inv

LEMMA HandleKeeps == ASSUME Inv, NEW i \in Indexes, Handle(i) PROVE Inv'
  <1> USE TaskTypes DEF Handle, At, hookVars
  <1>1. /\ InLevel(i) /\ Holding(i) /\ transaction = Versioned(i, level[i] + 1)
        /\ pending = <<>>
        /\ \A t \in Tasks \ {i} : ~Holding(t)
        /\ \A j \in Indexes \ {i} : ~InLevel(j)
    <2>1. InLevel(i) /\ Holding(i)
      BY DEF InLevel, Holding
    <2>2. \A j \in Indexes : step[j] # "handled"
      BY <2>1, OneHolds DEF InLevel
    <2> QED
      BY <2>1, <2>2, OneHolds DEF Inv, TransactionFits, PendingFits
  <1>2. step' = [step EXCEPT ![i] = "handled"] /\ step \in [Tasks -> Steps] /\ "handled" \in Steps
    BY DEF Inv, TypeInv, Steps
  <1>3. NeverFails' /\ TypeInv'
    BY <1>1, <1>2 DEF Inv, NeverFails, TypeInv
  <1>4. ConnectionFits'
    BY <1>1, <1>2 DEF Inv, ConnectionFits, Holding
  <1>5. TransactionFits'
    BY <1>1, <1>2 DEF TransactionFits, InLevel, Versioned
  <1>6. pending' = IF transaction = NoTransaction THEN <<>> ELSE <<UpdateOf(i, level[i] + 1)>>
    BY <1>1 DEF Record, UpdateOf, Versioned, VersionedTransaction
  <1>7. PendingFits'
    BY <1>1, <1>2, <1>6 DEF PendingFits, InLevel, UpdateOf, RowOf
  <1>8. LogFits'
    <2>1. CASE transaction = NoTransaction
      <3>1. level[i] + 1 <= settings.history
        BY <1>1, <2>1, TransactionsAssumption
           DEF Versioned, VersionedTransaction, NoTransaction, Inv, TypeInv, Levels
      <3>2. \A j \in Indexes \ {i} : Saved(j)' = Saved(j)
        BY <1>1, <1>2 DEF Saved, Stands, InLevel
      <3>3. Saved(i) = level[i] /\ Saved(i)' = level[i] + 1
        BY <1>2, <1>6, <2>1 DEF Saved, Stands
      <3>4. settings.history \in Nat /\ level[i] \in Nat
        BY TransactionsAssumption DEF Inv, TypeInv, Levels
      <3>5. \A j \in Indexes : \A l : l \in settings.history + 1 .. Saved(j)
                                       <=> l \in settings.history + 1 .. Saved(j)'
        BY <3>1, <3>2, <3>3, <3>4
      <3>6. \A u : u \in log <=>
              \E j \in Indexes : \E l \in settings.history + 1 .. Saved(j) : u = UpdateOf(j, l)
        BY LogMembers DEF Inv
      <3> QED
        BY <3>5, <3>6, LogMembersNext
    <2>2. CASE transaction # NoTransaction
      <3>1. pending' # <<>>
        BY <1>6, <2>2
      <3>2. \A j \in Indexes : Saved(j)' = Saved(j)
        BY <1>1, <1>2, <3>1 DEF Saved, Stands, InLevel
      <3> QED
        BY <3>2, LogKept
    <2> QED
      BY <2>1, <2>2
  <1>9. RowsFit'
    <2>1. Written(i) = level[i] /\ Written(i)' = level[i] + 1
      BY <1>2 DEF Written, Stands
    <2>2. \A j \in Indexes \ {i} : Written(j)' = Written(j)
      BY <1>2 DEF Written, Stands
    <2>3. \A k \in Jobs : WrittenRuns(k)' = WrittenRuns(k)
      BY <1>2 DEF WrittenRuns
    <2> QED
      BY <2>1, <2>2, <2>3, RowOfLevel
  <1>10. LevelsFit'
    BY <1>1, <1>2 DEF LevelsFit, Inv, InLevel
  <1> QED
    BY <1>3, <1>4, <1>5, <1>7, <1>8, <1>9, <1>10 DEF Inv

LEMMA CommitKeeps == ASSUME Inv, NEW i \in Indexes, Commit(i) PROVE Inv'
  <1> USE TaskTypes DEF Commit, At, hookVars
  <1>1. /\ InLevel(i) /\ Holding(i) /\ transaction = Versioned(i, level[i] + 1)
        /\ \A t \in Tasks \ {i} : ~Holding(t)
        /\ \A j \in Indexes \ {i} : ~InLevel(j)
    <2>1. InLevel(i) /\ Holding(i)
      BY DEF InLevel, Holding
    <2> QED
      BY <2>1, OneHolds DEF Inv, TransactionFits
  <1>2. step \in [Tasks -> Steps] /\ step[i] = "handled" /\ level[i] \in Nat
    BY TransactionsAssumption DEF Inv, TypeInv, Levels
  <1>3. NeverFails'
    BY DEF Inv, NeverFails
  <1>4. CASE transaction # NoTransaction /\ pending # <<>>
    <2>1. /\ step' = step /\ pending = <<UpdateOf(i, level[i] + 1)>> /\ pending' = <<>>
          /\ log' = log \cup {UpdateOf(i, level[i] + 1)}
      BY <1>2, <1>4 DEF Inv, PendingFits
    <2>2. TypeInv' /\ ConnectionFits' /\ TransactionFits' /\ PendingFits' /\ LevelsFit'
      BY <2>1, <1>1 DEF Inv, TypeInv, ConnectionFits, Holding, TransactionFits, InLevel, Versioned,
                        PendingFits, LevelsFit
    <2>3. RowsFit'
      BY <2>1, RowsKept DEF Written, Stands, WrittenRuns
    <2>4. LogFits'
      <3>1. Saved(i) = level[i] /\ Saved(i)' = level[i] + 1
        BY <1>2, <1>4, <2>1 DEF Saved, Stands
      <3>2. \A j \in Indexes \ {i} : Saved(j)' = Saved(j)
        BY <2>1, <1>1 DEF Saved, Stands, InLevel
      <3>3. level[i] + 1 > settings.history /\ settings.history \in Nat
        BY <1>1, <1>4, TransactionsAssumption DEF Versioned, NoTransaction, Inv, TypeInv, Levels
      <3>4. \A l : l \in settings.history + 1 .. Saved(i)'
                     <=> l \in settings.history + 1 .. Saved(i) \/ l = level[i] + 1
        BY <1>2, <3>1, <3>3
      <3>5. \A u : u \in log <=>
              \E j \in Indexes : \E l \in settings.history + 1 .. Saved(j) : u = UpdateOf(j, l)
        BY LogMembers DEF Inv
      <3>6. ASSUME NEW u
            PROVE  u \in log' <=> \E j \in Indexes : \E l \in settings.history + 1 .. Saved(j)' :
                                    u = UpdateOf(j, l)
        <4>1. u \in log' <=> u \in log \/ u = UpdateOf(i, level[i] + 1)
          BY <2>1
        <4>2. u \in log => \E j \in Indexes : \E l \in settings.history + 1 .. Saved(j)' :
                             u = UpdateOf(j, l)
          BY <3>2, <3>4, <3>5
        <4>3. ASSUME NEW j \in Indexes, NEW l \in settings.history + 1 .. Saved(j)', u = UpdateOf(j, l)
              PROVE  u \in log \/ u = UpdateOf(i, level[i] + 1)
          <5>1. CASE j = i
            BY <3>4, <3>5, <4>3, <5>1
          <5>2. CASE j # i
            BY <3>2, <3>5, <4>3, <5>2
          <5> QED
            BY <5>1, <5>2
        <4>4. \E l \in settings.history + 1 .. Saved(i)' : UpdateOf(i, level[i] + 1) = UpdateOf(i, l)
          BY <3>4
        <4> QED
          BY <4>1, <4>2, <4>3, <4>4
      <3> QED
        BY <3>6, LogMembersNext
    <2> QED
      BY <1>3, <2>2, <2>3, <2>4 DEF Inv
  <1>5. CASE ~(transaction # NoTransaction /\ pending # <<>>)
    <2>1. /\ step' = [step EXCEPT ![i] = "committed"] /\ "committed" \in Steps
          /\ pending = <<>> /\ pending' = <<>> /\ log' = log
      BY <1>1, <1>5 DEF Inv, PendingFits, Steps
    <2>2. TypeInv' /\ ConnectionFits' /\ TransactionFits'
      BY <2>1, <1>1, <1>2 DEF Inv, TypeInv, ConnectionFits, Holding, TransactionFits, InLevel, Versioned
    <2>3. PendingFits' /\ LevelsFit'
      BY <2>1, <1>1, <1>2 DEF Inv, PendingFits, LevelsFit, InLevel
    <2>4. RowsFit'
      BY <2>1, <1>2, RowsKept DEF Written, Stands, WrittenRuns
    <2>5. \A j \in Indexes : Saved(j)' = Saved(j)
      BY <2>1, <1>1, <1>2 DEF Saved, Stands, InLevel
    <2> QED
      BY <1>3, <2>1, <2>2, <2>3, <2>4, <2>5, LogKept DEF Inv
  <1> QED
    BY <1>4, <1>5

LEMMA EndLevelKeeps == ASSUME Inv, NEW i \in Indexes, EndLevel(i) PROVE Inv'
  <1> USE TaskTypes DEF EndLevel, Leave, At, hookVars
  <1>1. /\ InLevel(i) /\ Holding(i) /\ \A t \in Tasks \ {i} : ~Holding(t)
        /\ \A j \in Indexes \ {i} : ~InLevel(j)
    <2>1. InLevel(i) /\ Holding(i)
      BY DEF InLevel, Holding
    <2> QED
      BY <2>1, OneHolds
  <1>2. /\ step \in [Tasks -> Steps] /\ step' = [step EXCEPT ![i] = "idle"] /\ "idle" \in Steps
        /\ level' = [level EXCEPT ![i] = level[i] + 1]
        /\ level \in [Indexes -> Levels] /\ level[i] + 1 \in Levels
    BY <1>1, TransactionsAssumption DEF Inv, TypeInv, Levels, Steps, LevelsFit
  <1>3. pending = <<>>
    BY <1>1 DEF Inv, PendingFits, InLevel
  <1>4. NeverFails' /\ TypeInv'
    BY <1>2 DEF Inv, NeverFails, TypeInv
  <1>5. ConnectionFits' /\ TransactionFits' /\ PendingFits'
    BY <1>1, <1>2, <1>3 DEF ConnectionFits, Holding, TransactionFits, InLevel, PendingFits
  <1>6. LevelsFit'
    BY <1>1, <1>2 DEF Inv, LevelsFit, InLevel
  <1>7. \A j \in Indexes : Saved(j)' = Saved(j) /\ Written(j)' = Written(j)
    <2>1. Saved(i)' = Saved(i) /\ Written(i)' = Written(i)
      BY <1>2 DEF Saved, Written, Stands
    <2>2. \A j \in Indexes \ {i} : Saved(j)' = Saved(j) /\ Written(j)' = Written(j)
      BY <1>1, <1>2 DEF Saved, Written, Stands
    <2> QED
      BY <2>1, <2>2
  <1>8. \A k \in Jobs : WrittenRuns(k)' = WrittenRuns(k)
    BY <1>2 DEF WrittenRuns
  <1> QED
    BY <1>4, <1>5, <1>6, <1>7, <1>8, LogKept, RowsKept DEF Inv

-----------------------------------------------------------------------------
(* Rollbacks.                                                               *)

LEMMA BeginRollbackKeeps ==
  ASSUME Inv, NEW i \in Indexes, NEW to \in Levels, BeginRollback(i, to)
  PROVE  Inv'
  <1> USE TaskTypes DEF BeginRollback, At, database, hookVars
  <1>1. /\ conn = "none" /\ conn' = i /\ failure' = failure
        /\ transaction' = NoTransaction /\ pending = <<>>
        /\ \A t \in Tasks : ~Holding(t)
        /\ \A j \in Indexes : ~InLevel(j)
    BY IdleManager DEF Enter
  <1>2. /\ step' = [step EXCEPT ![i] = "reverting"] /\ step \in [Tasks -> Steps]
        /\ "reverting" \in Steps
    BY DEF Inv, TypeInv, Steps
  <1>3. NeverFails' /\ TypeInv'
    BY <1>1, <1>2 DEF Inv, NeverFails, TypeInv
  <1>4. ConnectionFits' /\ TransactionFits' /\ PendingFits'
    BY <1>1, <1>2 DEF ConnectionFits, Holding, TransactionFits, InLevel, PendingFits
  <1>5. LevelsFit'
    BY <1>1, <1>2 DEF LevelsFit, Inv, TypeInv, InLevel
  <1>6. \A j \in Indexes : Saved(j)' = Saved(j) /\ Written(j)' = Written(j)
    BY <1>1, <1>2 DEF Saved, Written, Stands
  <1>7. \A k \in Jobs : WrittenRuns(k)' = WrittenRuns(k)
    BY <1>2 DEF WrittenRuns
  <1> QED
    BY <1>3, <1>4, <1>5, <1>6, <1>7, LogKept, RowsKept DEF Inv

(* What the updates above the target revert is this index's levels above it.*)
LEMMA RevertedLevels ==
  ASSUME Inv, NEW i \in Indexes, step[i] = "reverting"
  PROVE  \A u : u \in Reverted(i) <=> \E l \in rolledBack[i] + 1 .. level[i] : u = UpdateOf(i, l)
  <1>1. Saved(i) = level[i] /\ settings.history <= rolledBack[i]
    BY DEF Inv, LevelsFit, Saved, Stands
  <1>2. settings.history \in Nat /\ level[i] \in Nat /\ rolledBack[i] \in Nat
    BY TransactionsAssumption DEF Inv, TypeInv, Levels
  <1>3. \A u : u \in log <=>
          \E j \in Indexes : \E l \in settings.history + 1 .. Saved(j) : u = UpdateOf(j, l)
    BY LogMembers DEF Inv
  <1>4. ASSUME NEW u \in Reverted(i)
        PROVE  \E l \in rolledBack[i] + 1 .. level[i] : u = UpdateOf(i, l)
    <2>1. u \in log /\ u.index = i /\ rolledBack[i] < u.level /\ u.level <= level[i]
      BY <1>4 DEF Reverted
    <2>2. PICK j \in Indexes : \E l \in settings.history + 1 .. Saved(j) : u = UpdateOf(j, l)
      BY <1>3, <2>1
    <2>3. PICK l \in settings.history + 1 .. Saved(j) : u = UpdateOf(j, l)
      BY <2>2
    <2>4. j = i /\ l \in rolledBack[i] + 1 .. level[i]
      BY <1>2, <2>1, <2>3 DEF UpdateOf
    <2> QED
      BY <2>3, <2>4
  <1>5. ASSUME NEW l \in rolledBack[i] + 1 .. level[i] PROVE UpdateOf(i, l) \in Reverted(i)
    <2>1. l \in settings.history + 1 .. Saved(i)
      BY <1>1, <1>2
    <2>2. UpdateOf(i, l) \in log
      BY <1>3, <2>1
    <2> QED
      BY <1>2, <2>2 DEF Reverted, UpdateOf
  <1> QED
    BY <1>4, <1>5

LEMMA RevertKeeps == ASSUME Inv, NEW i \in Indexes, Revert(i) PROVE Inv'
  <1> USE TaskTypes DEF Revert, Leave, At, hookVars
  <1>1. /\ Holding(i) /\ \A t \in Tasks \ {i} : ~Holding(t)
        /\ \A j \in Indexes : ~InLevel(j)
    <2>1. Holding(i) /\ ~InLevel(i)
      BY DEF InLevel, Holding
    <2> QED
      BY <2>1, OneHolds
  <1>2. /\ step \in [Tasks -> Steps] /\ step' = [step EXCEPT ![i] = "reverted"] /\ "reverted" \in Steps
        /\ settings.history \in Nat /\ level[i] \in Nat /\ rolledBack[i] \in Nat
        /\ settings.history <= rolledBack[i] /\ rolledBack[i] < level[i]
    BY TransactionsAssumption DEF Inv, TypeInv, Levels, Steps, LevelsFit
  <1>3. pending = <<>>
    BY <1>1 DEF Inv, PendingFits, InLevel
  <1>4. NeverFails' /\ TypeInv'
    BY <1>2 DEF Inv, NeverFails, TypeInv
  <1>5. ConnectionFits' /\ TransactionFits' /\ PendingFits'
    BY <1>1, <1>2, <1>3 DEF ConnectionFits, Holding, TransactionFits, InLevel, PendingFits
  <1>6. LevelsFit'
    BY <1>1, <1>2 DEF Inv, LevelsFit, InLevel
  <1>7. /\ Saved(i) = level[i] /\ Written(i) = level[i]
        /\ Saved(i)' = rolledBack[i] /\ Written(i)' = rolledBack[i]
        /\ \A j \in Indexes \ {i} : Saved(j)' = Saved(j) /\ Written(j)' = Written(j)
    BY <1>1, <1>2, <1>3 DEF Saved, Written, Stands
  <1>8. \A k \in Jobs : WrittenRuns(k)' = WrittenRuns(k)
    BY <1>2 DEF WrittenRuns
  <1>9. LogFits'
    <2>1. \A u : u \in log <=>
            \E j \in Indexes : \E l \in settings.history + 1 .. Saved(j) : u = UpdateOf(j, l)
      BY LogMembers DEF Inv
    <2>2. ASSUME NEW u
          PROVE  u \in log' <=> \E j \in Indexes : \E l \in settings.history + 1 .. Saved(j)' :
                                  u = UpdateOf(j, l)
      <3>1. ASSUME u \in log'
            PROVE  \E j \in Indexes : \E l \in settings.history + 1 .. Saved(j)' : u = UpdateOf(j, l)
        <4>1. u \in log /\ u \notin Reverted(i)
          BY <3>1
        <4>2. PICK j \in Indexes : \E l \in settings.history + 1 .. Saved(j) : u = UpdateOf(j, l)
          BY <2>1, <4>1
        <4>3. PICK l \in settings.history + 1 .. Saved(j) : u = UpdateOf(j, l)
          BY <4>2
        <4>4. l \in settings.history + 1 .. Saved(j)'
          <5>1. CASE j = i
            <6>1. l \notin rolledBack[i] + 1 .. level[i]
              BY <4>1, <4>3, <5>1, RevertedLevels
            <6> QED
              BY <1>2, <1>7, <5>1, <6>1
          <5>2. CASE j # i
            BY <1>7, <5>2
          <5> QED
            BY <5>1, <5>2
        <4> QED
          BY <4>3, <4>4
      <3>2. ASSUME NEW j \in Indexes, NEW l \in settings.history + 1 .. Saved(j)', u = UpdateOf(j, l)
            PROVE  u \in log'
        <4>1. l \in settings.history + 1 .. Saved(j)
          BY <1>2, <1>7
        <4>2. u \in log
          BY <2>1, <3>2, <4>1
        <4>3. u \notin Reverted(i)
          BY <1>2, <1>7, <3>2 DEF Reverted, UpdateOf
        <4> QED
          BY <4>2, <4>3
      <3> QED
        BY <3>1, <3>2
    <2> QED
      BY <2>2, LogMembersNext
  <1>10. RowsFit'
    <2>1. \A r : r \in rows <=> RowWritten(r)
      BY RowMembers DEF Inv
    <2>2. \A r : r \in rows' <=> r \in rows /\ \A l \in rolledBack[i] + 1 .. level[i] : r # RowOf(i, l)
      <3>1. \A r : r \in {u.row : u \in Reverted(i)}
                     <=> \E l \in rolledBack[i] + 1 .. level[i] : r = UpdateOf(i, l).row
        BY RevertedLevels
      <3>2. \A l : UpdateOf(i, l).row = RowOf(i, l)
        BY DEF UpdateOf
      <3> QED
        BY <3>1, <3>2
    <2>3. ASSUME NEW r PROVE r \in rows' <=> RowWritten(r)'
      <3>1. ASSUME r \in rows' PROVE RowWritten(r)'
        <4>1. CASE \E k \in Jobs : \E n \in 1 .. WrittenRuns(k) : r = RowOf(k, n)
          BY <1>8, <4>1 DEF RowWritten, RowOf
        <4>2. CASE \E j \in Indexes : \E l \in 1 .. Written(j) : r = RowOf(j, l)
          <5>1. PICK j \in Indexes : \E l \in 1 .. Written(j) : r = RowOf(j, l)
            BY <4>2
          <5>2. PICK l \in 1 .. Written(j) : r = RowOf(j, l)
            BY <5>1
          <5>3. l \in 1 .. Written(j)'
            BY <1>2, <1>7, <2>2, <3>1, <5>2
          <5> QED
            BY <5>2, <5>3 DEF RowWritten, RowOf
        <4> QED
          BY <2>1, <2>2, <3>1, <4>1, <4>2 DEF RowWritten
      <3>2. ASSUME NEW j \in Indexes, NEW l \in 1 .. Written(j)', r = RowOf(j, l)
            PROVE  r \in rows'
        <4>1. l \in 1 .. Written(j)
          BY <1>2, <1>7
        <4>2. r \in rows
          BY <2>1, <3>2, <4>1 DEF RowWritten
        <4>3. \A m \in rolledBack[i] + 1 .. level[i] : r # RowOf(i, m)
          BY <1>2, <1>7, <3>2 DEF RowOf
        <4> QED
          BY <2>2, <4>2, <4>3
      <3>3. ASSUME NEW k \in Jobs, NEW n \in 1 .. WrittenRuns(k)', r = RowOf(k, n)
            PROVE  r \in rows'
        <4>1. r \in rows
          BY <1>8, <2>1, <3>3 DEF RowWritten
        <4>2. \A m : r # RowOf(i, m)
          BY <3>3 DEF RowOf
        <4> QED
          BY <2>2, <4>1, <4>2
      <3> QED
        BY <3>1, <3>2, <3>3 DEF RowWritten, RowOf
    <2> QED
      BY <2>3, RowMembersNext
  <1> QED
    BY <1>4, <1>5, <1>6, <1>9, <1>10 DEF Inv

LEMMA MoveLevelKeeps == ASSUME Inv, NEW i \in Indexes, MoveLevel(i) PROVE Inv'
  <1> USE TaskTypes DEF MoveLevel, At, manager, hookVars
  <1>1. /\ step \in [Tasks -> Steps] /\ step' = [step EXCEPT ![i] = "idle"] /\ "idle" \in Steps
        /\ step[i] = "reverted" /\ level' = [level EXCEPT ![i] = rolledBack[i]]
        /\ level \in [Indexes -> Levels] /\ rolledBack[i] \in Levels
    BY DEF Inv, TypeInv, Steps
  <1>2. NeverFails' /\ TypeInv'
    BY <1>1 DEF Inv, NeverFails, TypeInv
  <1>3. ConnectionFits'
    BY <1>1 DEF Inv, ConnectionFits, Holding
  <1>4. TransactionFits' /\ PendingFits'
    BY <1>1 DEF Inv, TransactionFits, InLevel, Versioned, PendingFits, UpdateOf, RowOf
  <1>5. LevelsFit'
    BY <1>1 DEF Inv, LevelsFit, InLevel
  <1>6. \A j \in Indexes : Saved(j)' = Saved(j) /\ Written(j)' = Written(j)
    BY <1>1 DEF Saved, Written, Stands
  <1>7. \A k \in Jobs : WrittenRuns(k)' = WrittenRuns(k)
    BY <1>1 DEF WrittenRuns
  <1> QED
    BY <1>2, <1>3, <1>4, <1>5, <1>6, <1>7, LogKept, RowsKept DEF Inv

-----------------------------------------------------------------------------
(* The steps of a job.                                                      *)

LEMMA BeginAtomicKeeps == ASSUME Inv, NEW k \in Jobs, BeginAtomic(k) PROVE Inv'
  <1> USE TaskTypes DEF BeginAtomic, At, database, hookVars
  <1>1. /\ conn = "none" /\ conn' = k /\ failure' = failure
        /\ transaction' = NoTransaction /\ pending = <<>>
        /\ \A t \in Tasks : ~Holding(t)
        /\ \A j \in Indexes : ~InLevel(j)
    BY IdleManager DEF Enter
  <1>2. /\ step' = [step EXCEPT ![k] = "open"] /\ step \in [Tasks -> Steps] /\ "open" \in Steps
        /\ runs' = [runs EXCEPT ![k] = runs[k] + 1] /\ runs \in [Jobs -> Nat]
    BY DEF Inv, TypeInv, Steps
  <1>3. NeverFails' /\ TypeInv'
    BY <1>1, <1>2 DEF Inv, NeverFails, TypeInv
  <1>4. ConnectionFits' /\ TransactionFits' /\ PendingFits'
    BY <1>1, <1>2 DEF ConnectionFits, Holding, TransactionFits, InLevel, PendingFits
  <1>5. LevelsFit'
    BY <1>1, <1>2 DEF LevelsFit, Inv, InLevel
  <1>6. \A j \in Indexes : Saved(j)' = Saved(j) /\ Written(j)' = Written(j)
    BY <1>1, <1>2 DEF Saved, Written, Stands
  <1>7. \A j \in Jobs : WrittenRuns(j)' = WrittenRuns(j)
    BY <1>2 DEF WrittenRuns
  <1> QED
    BY <1>3, <1>4, <1>5, <1>6, <1>7, LogKept, RowsKept DEF Inv

LEMMA SaveAtomicKeeps == ASSUME Inv, NEW k \in Jobs, SaveAtomic(k) PROVE Inv'
  <1> USE TaskTypes DEF SaveAtomic, At, hookVars
  <1>1. /\ Holding(k) /\ \A t \in Tasks \ {k} : ~Holding(t)
        /\ \A j \in Indexes : ~InLevel(j)
        /\ transaction = NoTransaction /\ pending = <<>> /\ pending' = <<>>
    <2>1. Holding(k)
      BY DEF Holding
    <2>2. \A j \in Indexes : ~InLevel(j)
      BY <2>1, OneHolds
    <2>3. transaction = NoTransaction /\ pending = <<>>
      BY <2>2 DEF Inv, TransactionFits, PendingFits
    <2> QED
      BY <2>1, <2>2, <2>3, OneHolds DEF Record
  <1>2. /\ step' = [step EXCEPT ![k] = "saved"] /\ step \in [Tasks -> Steps] /\ "saved" \in Steps
        /\ runs \in [Jobs -> Nat]
    BY DEF Inv, TypeInv, Steps
  <1>3. NeverFails' /\ TypeInv'
    BY <1>1, <1>2 DEF Inv, NeverFails, TypeInv
  <1>4. ConnectionFits' /\ TransactionFits' /\ PendingFits'
    BY <1>1, <1>2 DEF Inv, ConnectionFits, Holding, TransactionFits, InLevel, PendingFits
  <1>5. LevelsFit'
    BY <1>1, <1>2 DEF LevelsFit, Inv, InLevel
  <1>6. \A j \in Indexes : Saved(j)' = Saved(j) /\ Written(j)' = Written(j)
    BY <1>1, <1>2 DEF Saved, Written, Stands
  <1>7. /\ rows' = rows \cup {RowOf(k, WrittenRuns(k) + 1)} /\ WrittenRuns(k)' = WrittenRuns(k) + 1
        /\ \A j \in Jobs \ {k} : WrittenRuns(j)' = WrittenRuns(j)
    BY <1>2 DEF WrittenRuns, Run
  <1> QED
    BY <1>3, <1>4, <1>5, <1>6, <1>7, LogKept, RowOfRun DEF Inv

LEMMA EndAtomicKeeps == ASSUME Inv, NEW k \in Jobs, EndAtomic(k) PROVE Inv'
  <1> USE TaskTypes DEF EndAtomic, Leave, At, database, hookVars
  <1>1. /\ Holding(k) /\ \A t \in Tasks \ {k} : ~Holding(t)
        /\ \A j \in Indexes : ~InLevel(j)
    <2>1. Holding(k)
      BY DEF Holding
    <2> QED
      BY <2>1, OneHolds
  <1>2. /\ step' = [step EXCEPT ![k] = "idle"] /\ step \in [Tasks -> Steps] /\ "idle" \in Steps
        /\ pending = <<>>
    BY <1>1 DEF Inv, TypeInv, Steps, PendingFits, InLevel
  <1>3. NeverFails' /\ TypeInv'
    BY <1>2 DEF Inv, NeverFails, TypeInv
  <1>4. ConnectionFits' /\ TransactionFits' /\ PendingFits'
    BY <1>1, <1>2 DEF ConnectionFits, Holding, TransactionFits, InLevel, PendingFits
  <1>5. LevelsFit'
    BY <1>1, <1>2 DEF LevelsFit, Inv, InLevel
  <1>6. \A j \in Indexes : Saved(j)' = Saved(j) /\ Written(j)' = Written(j)
    BY <1>2 DEF Saved, Written, Stands
  <1>7. \A j \in Jobs : WrittenRuns(j)' = WrittenRuns(j)
    BY <1>2 DEF WrittenRuns
  <1> QED
    BY <1>3, <1>4, <1>5, <1>6, <1>7, LogKept, RowsKept DEF Inv

(* Without `bulk` an update is only queued while no level is open, that is, *)
(* not at all.                                                              *)
LEMMA BeginWriteKeeps ==
  ASSUME Inv, Plain, NEW k \in Jobs, NEW op \in {"save", "bulk"}, BeginWrite(k, op)
  PROVE  Inv'
  <1> USE TaskTypes DEF BeginWrite, At, database, hookVars
  <1>1. pending' = pending
    BY DEF Record, RecordedFirst, Plain
  <1>2. /\ step' = [step EXCEPT ![k] = op] /\ step \in [Tasks -> Steps] /\ op \in Steps
        /\ runs' = [runs EXCEPT ![k] = runs[k] + 1] /\ runs \in [Jobs -> Nat]
    BY DEF Inv, TypeInv, Steps
  <1>3. NeverFails' /\ TypeInv'
    BY <1>1, <1>2 DEF Inv, NeverFails, TypeInv
  <1>4. ConnectionFits'
    BY <1>2 DEF Inv, ConnectionFits, Holding
  <1>5. TransactionFits' /\ PendingFits'
    BY <1>1, <1>2 DEF Inv, TransactionFits, InLevel, Versioned, PendingFits, UpdateOf, RowOf
  <1>6. LevelsFit'
    BY <1>2 DEF LevelsFit, Inv, InLevel
  <1>7. \A j \in Indexes : Saved(j)' = Saved(j) /\ Written(j)' = Written(j)
    BY <1>1, <1>2 DEF Saved, Written, Stands
  <1>8. \A j \in Jobs : WrittenRuns(j)' = WrittenRuns(j)
    BY <1>2 DEF WrittenRuns
  <1> QED
    BY <1>3, <1>4, <1>5, <1>6, <1>7, <1>8, LogKept, RowsKept DEF Inv

LEMMA WriteKeeps ==
  ASSUME Inv, NEW k \in Jobs, NEW op \in {"save", "bulk"}, Write(k, op)
  PROVE  Inv'
  <1> USE TaskTypes DEF Write, At, hookVars
  <1>1. /\ transaction = NoTransaction /\ pending = <<>> /\ pending' = <<>>
        /\ \A t \in Tasks : ~Holding(t)
        /\ \A j \in Indexes : ~InLevel(j)
    BY IdleManager DEF Record
  <1>2. /\ step' = [step EXCEPT ![k] = "idle"] /\ step \in [Tasks -> Steps] /\ "idle" \in Steps
        /\ runs \in [Jobs -> Nat]
    BY DEF Inv, TypeInv, Steps
  <1>3. NeverFails' /\ TypeInv'
    BY <1>1, <1>2 DEF Inv, NeverFails, TypeInv
  <1>4. ConnectionFits' /\ TransactionFits' /\ PendingFits'
    BY <1>1, <1>2 DEF Inv, ConnectionFits, Holding, TransactionFits, InLevel, PendingFits
  <1>5. LevelsFit'
    BY <1>1, <1>2 DEF LevelsFit, Inv, InLevel
  <1>6. \A j \in Indexes : Saved(j)' = Saved(j) /\ Written(j)' = Written(j)
    BY <1>1, <1>2 DEF Saved, Written, Stands
  <1>7. /\ rows' = rows \cup {RowOf(k, WrittenRuns(k) + 1)} /\ WrittenRuns(k)' = WrittenRuns(k) + 1
        /\ \A j \in Jobs \ {k} : WrittenRuns(j)' = WrittenRuns(j)
    BY <1>2 DEF WrittenRuns, Run
  <1> QED
    BY <1>3, <1>4, <1>5, <1>6, <1>7, LogKept, RowOfRun DEF Inv

-----------------------------------------------------------------------------
(* All steps.                                                               *)

(* Hooks that are fired touch nothing of it, awaited ones neither as long   *)
(* as the level they are fired from is not versioned.                       *)
LEMMA OthersKeep ==
  ASSUME Inv,
         UNCHANGED <<settings, failure, conn, manager, database, rolledBack, step, runs>>
  PROVE  Inv'
  <1> USE DEF manager, database
  <1>1. NeverFails' /\ TypeInv' /\ ConnectionFits' /\ LevelsFit'
    BY DEF Inv, NeverFails, TypeInv, ConnectionFits, Holding, LevelsFit, InLevel
  <1>2. TransactionFits' /\ PendingFits'
    BY DEF Inv, TransactionFits, InLevel, Versioned, PendingFits, UpdateOf, RowOf
  <1>3. /\ \A j \in Indexes : Saved(j)' = Saved(j) /\ Written(j)' = Written(j)
        /\ \A j \in Jobs : WrittenRuns(j)' = WrittenRuns(j)
    BY DEF Saved, Written, Stands, WrittenRuns
  <1> QED
    BY <1>1, <1>2, <1>3, LogKept, RowsKept DEF Inv

LEMMA StepInv == ASSUME Plain, Inv, [Next]_vars PROVE Inv'
  <1>1. ASSUME NEW i \in Indexes, FireAndWait(i) PROVE Inv'
    BY <1>1, OthersKeep DEF FireAndWait, Plain, Inv, NeverFails, manager, database, hookVars
  <1>2. ASSUME NEW i \in Indexes, NEW k \in Jobs, Fire(i, k) PROVE Inv'
    BY <1>2, OthersKeep DEF Fire
  <1>3. CASE HooksLoop
    BY <1>3, OthersKeep DEF HooksLoop
  <1>4. ASSUME NEW i \in Indexes, Index(i) PROVE Inv'
    BY <1>4, BeginLevelKeeps, HandleKeeps, CommitKeeps, EndLevelKeeps, BeginRollbackKeeps,
       RevertKeeps, MoveLevelKeeps DEF Index
  <1>5. ASSUME NEW k \in Jobs, Job(k) PROVE Inv'
    BY <1>5, BeginAtomicKeeps, SaveAtomicKeeps, EndAtomicKeeps, BeginWriteKeeps, WriteKeeps DEF Job
  <1>6. CASE UNCHANGED vars
    BY <1>6, OthersKeep DEF vars
  <1> QED
    BY <1>1, <1>2, <1>3, <1>4, <1>5, <1>6 DEF Next

LEMMA InvHolds == ASSUME Plain PROVE Spec => []Inv
  <1>1. Plain /\ Inv /\ [Next]_vars => Inv'
    BY StepInv
  <1> QED
    BY <1>1, InitInv, PTL DEF Spec

(* In whatever order tasks take their turns at the connection, a rollback   *)
(* takes back the rows of its own index and of no hook (transactions.py:44, *)
(* models/__init__.py:175).                                                 *)
THEOREM RowsOfWriters ==
  ASSUME Plain
  PROVE  Spec => []RowsAreTheirWriters
  <1>1. Inv => RowsAreTheirWriters
    <2> SUFFICES ASSUME Inv, conn = "none" PROVE RowsAreTheirWriters
      BY DEF RowsAreTheirWriters
    <2>1. \A i \in Indexes : Written(i) = Stands(i)
      BY IdleManager DEF Written, InLevel
    <2>2. \A k \in Jobs : WrittenRuns(k) = Done(k)
      <3>1. \A k \in Jobs : step[k] # "open"
        BY IdleManager, TaskTypes DEF Holding
      <3> QED
        BY <3>1 DEF WrittenRuns, Done
    <2> QED
      BY <2>1, <2>2 DEF Inv, RowsFit, RowsAreTheirWriters
  <1> QED
    BY <1>1, InvHolds, PTL

(* What the manager holds is of the task in the connection: an open         *)
(* transaction is that of the level it processes, and the updates queued    *)
(* are of rows this index wrote at this level, in nobody else's name.       *)
OwnTransaction ==
  /\ transaction # NoTransaction =>
       \E i \in Indexes : conn = i /\ transaction = VersionedTransaction(i, level[i] + 1)
  /\ \A n \in 1 .. Len(pending) :
       \E i \in Indexes : /\ conn = i /\ transaction = VersionedTransaction(i, level[i] + 1)
                         /\ pending[n] = UpdateOf(i, level[i] + 1)

(* No task finds a transaction of another one in the manager                *)
(* (transactions.py:51), and none leaves a transaction or queued updates    *)
(* for another to find: once the connection is free both are gone.          *)
THEOREM NoneInterferes ==
  ASSUME Plain
  PROVE  Spec => []( /\ NeverFails /\ OwnTransaction
                     /\ conn = "none" => transaction = NoTransaction /\ pending = <<>> )
  <1>1. ASSUME Inv, transaction # NoTransaction
        PROVE  \E i \in Indexes : /\ conn = i /\ InLevel(i)
                                 /\ transaction = VersionedTransaction(i, level[i] + 1)
    <2>1. PICK i \in Indexes : InLevel(i)
      BY <1>1 DEF Inv, TransactionFits
    <2>2. conn = i
      BY <1>1, <2>1, OneHolds DEF Holding, InLevel, Tasks
    <2>3. transaction = Versioned(i, level[i] + 1)
      BY <1>1, <2>1 DEF Inv, TransactionFits
    <2> QED
      BY <1>1, <2>1, <2>2, <2>3 DEF Versioned
  <1>2. ASSUME Inv, NEW n \in 1 .. Len(pending)
        PROVE  \E i \in Indexes : /\ conn = i /\ transaction = VersionedTransaction(i, level[i] + 1)
                                 /\ pending[n] = UpdateOf(i, level[i] + 1)
    <2>1. pending # <<>>
      BY <1>2
    <2>2. transaction # NoTransaction /\ \E j \in Indexes : step[j] = "handled"
      BY <1>2, <2>1 DEF Inv, PendingFits
    <2>3. PICK i \in Indexes : /\ conn = i /\ InLevel(i)
                             /\ transaction = VersionedTransaction(i, level[i] + 1)
      BY <1>1, <1>2, <2>2
    <2>4. step[i] = "handled"
      <3>1. PICK j \in Indexes : step[j] = "handled"
        BY <2>2
      <3>2. j = i
        BY <1>2, <2>3, <3>1, OneHolds DEF Holding, InLevel, Tasks
      <3> QED
        BY <3>1, <3>2
    <2>5. pending = <<UpdateOf(i, level[i] + 1)>>
      BY <1>2, <2>1, <2>2, <2>4 DEF Inv, PendingFits
    <2>6. pending[n] = UpdateOf(i, level[i] + 1)
      BY <1>2, <2>5
    <2> QED
      BY <2>3, <2>6
  <1>3. Inv => /\ NeverFails /\ OwnTransaction
               /\ conn = "none" => transaction = NoTransaction /\ pending = <<>>
    <2> SUFFICES ASSUME Inv
                 PROVE  /\ NeverFails /\ OwnTransaction
                        /\ conn = "none" => transaction = NoTransaction /\ pending = <<>>
      OBVIOUS
    <2>1. NeverFails
      BY DEF Inv
    <2>2. OwnTransaction
      BY <1>1, <1>2 DEF OwnTransaction
    <2> QED
      BY <2>1, <2>2, IdleManager
  <1> QED
    BY <1>3, InvHolds, PTL
=============================================================================
