------------------------- MODULE Dispatcher_proofs -------------------------
(***************************************************************************)
(* Theorems about Dispatcher, for every value of its constants.  Each rules *)
(* out only the circumstances that break its property.                      *)
(***************************************************************************)
EXTENDS Dispatcher, TLAPS, FiniteSetTheorems

Settings == [initial : SUBSET Indexes, last : [Indexes -> 0 .. MaxLevel],
             shared : BOOLEAN, early : BOOLEAN, postpone : BOOLEAN]

TypeInv ==
  /\ TypeOK
  /\ settings \in Settings
  /\ queue \in [Indexes -> Seq(Levels)]

(* What an index has handled and how far it may go: its last_level is only  *)
(* lost when it was added at run time.                                      *)
WithinBound(i) ==
  /\ last[i] = settings.last[i] \/ (last[i] = 0 /\ i \notin settings.initial)
  /\ last[i] > 0 => level[i] <= last[i]
  /\ \A l \in covered[i] : l <= level[i]

(* Where process() of an index is at, and what an iteration leaves behind:  *)
(* an index with a last_level is disabled once all of them are done.        *)
TaskFits(i) ==
  /\ status[i] = "disabled" /\ last[i] > 0 => level[i] = last[i]
  /\ task[i] = "called" => status[i] # "disabled"
  /\ task[i] = "syncing" => level[i] < Target(i)
  /\ task[i] = "queue" => last[i] = 0 /\ level[i] >= SyncLevel(i)
  /\ where[i] = "known" /\ last[i] > 0 =>
       /\ pc = "gather" /\ task[i] = "none" => status[i] = "disabled"
       /\ pc = "finish" /\ ~joined => status[i] = "disabled"

Progress == \A i \in Indexes : WithinBound(i) /\ TaskFits(i)

(* The last hooks run when no index is left.                                *)
AllDone ==
  pc \in {"last_hook", "ended"} =>
    Pending = {} /\ \A i \in Known : last[i] > 0 /\ status[i] = "disabled"

(* _indexes is as large as when _on_rollback began to iterate over it.      *)
SizeKept == failure = "none" /\ (reverting > 0 => Cardinality(Known) = reverting)

(* The levels an index still has to see of its channel: those from the      *)
(* first one queued to the head.                                            *)
Queued(i) ==
  LET n == Len(queue[i]) IN
  /\ \A k \in 1 .. n : queue[i][k] = head - n + k
  /\ head - n <= (IF task[i] = "syncing" THEN Target(i) ELSE level[i])

(* An unbounded index with a channel that is subscribed to either has what  *)
(* lies above it in its queue, or nothing has come since the subscription.  *)
Fed(i) ==
  IF where[i] = "known" /\ (level[i] >= SyncLevel(i) \/ task[i] = "syncing")
  THEN Queued(i) ELSE head = SyncLevel(i)

(* What is above an index is on its way to it.                              *)
FeedFits(i) ==
  /\ settings.last[i] <= head /\ level[i] <= head
  /\ \A l \in 1 .. level[i] : l \in covered[i]
  /\ Running /\ (syncLevel[Channel(i)] = 0 \/ where[i] # "known") => queue[i] = <<>>
  /\ Running /\ syncLevel[Channel(i)] > 0 /\ last[i] = 0 /\ where[i] # "absent" => Fed(i)

(* No level is above the head, and subscriptions are asked for once.        *)
Subscriptions ==
  /\ initialLevel <= head /\ \A c \in Channels : syncLevel[c] <= head
  /\ \A c \in asking : syncLevel[c] = 0
  /\ asking # {} => pc = "subscribe"

Feeds == Subscriptions /\ \A i \in Indexes : FeedFits(i)

-----------------------------------------------------------------------------
(* Types.                                                                   *)

LEMMA LevelsType == MaxLevel \in Nat /\ Levels = 1 .. MaxLevel /\ Levels \subseteq 0 .. MaxLevel
  BY DispatcherAssumption DEF Levels

LEMMA KnownFinite == Cardinality(Known) \in Nat /\ Cardinality(Known) <= Cardinality(Indexes)
  <1>1. Known \subseteq Indexes
    BY DEF Known
  <1> QED
    BY <1>1, DispatcherAssumption, FS_Subset, FS_CardinalityType

LEMMA ChannelType ==
  ASSUME NEW i \in Indexes
  PROVE  Channel(i) \in Channels
  BY DEF Channel, Channels

LEMMA TargetType ==
  ASSUME TypeInv, NEW i \in Indexes
  PROVE  /\ SyncLevel(i) \in Levels /\ Target(i) \in Levels
         /\ last[i] \in 0 .. MaxLevel /\ level[i] \in 0 .. MaxLevel
         /\ syncLevel[Channel(i)] \in 0 .. MaxLevel
  BY LevelsType, ChannelType DEF TypeInv, TypeOK, SyncLevel, Target

LEMMA TypeInit == Init => TypeInv
  <1> SUFFICES ASSUME Init PROVE TypeInv
    OBVIOUS
  <1>1. 0 \in 0 .. MaxLevel /\ 0 \in 0 .. Cardinality(Indexes)
    BY LevelsType, DispatcherAssumption, FS_CardinalityType
  <1>2. settings \in Settings /\ head \in Levels
    BY DEF Init, Settings
  <1>3. queue \in [Indexes -> Seq(Levels)]
    BY DEF Init
  <1>4. syncLevel \in [Channels -> 0 .. MaxLevel] /\ last \in [Indexes -> 0 .. MaxLevel]
    BY <1>1, <1>2 DEF Init, Settings
  <1>5. TypeOK
    BY <1>1, <1>2, <1>4 DEF Init, TypeOK
  <1> QED
    BY <1>2, <1>3, <1>5 DEF TypeInv

LEMMA TypeStep == TypeInv /\ [Next]_vars => TypeInv'
  <1> SUFFICES ASSUME TypeInv, [Next]_vars PROVE TypeInv'
    OBVIOUS
  <1> USE DEF TypeInv, TypeOK, envVars, loopVars, feedVars, indexVars
  <1>1. CASE Spawn
    <2>1. {c \in {Channel(i) : i \in Pending \cup Known} : syncLevel[c] = 0} \subseteq Channels
      BY ChannelType DEF Pending, Known
    <2> QED
      BY <1>1, <2>1 DEF Spawn
  <1>2. ASSUME NEW c \in Channels, Subscribed(c) PROVE TypeInv'
    BY <1>2, LevelsType DEF Subscribed
  <1>3. CASE Gather
    BY <1>3 DEF Gather, ToProcess, Known
  <1>4. CASE Drain
    BY <1>4 DEF Drain
  <1>5. CASE Finish
    BY <1>5 DEF Finish
  <1>6. CASE Synchronized \/ End
    BY <1>6 DEF Synchronized, End
  <1>7. ASSUME NEW i \in Indexes, Process(i) PROVE TypeInv'
    <2>1. queue' \in [Indexes -> Seq(Levels)]
      <3>1. queue' = queue \/ queue' = [queue EXCEPT ![i] = <<>>]
        BY <1>7 DEF Process
      <3>2. <<>> \in Seq(Levels)
        OBVIOUS
      <3> QED
        BY ZenonT(40), <3>1, <3>2
    <2>2. /\ task' \in [Indexes -> {"none", "called", "syncing", "queue"}]
          /\ \A j \in Indexes : j # i => task'[j] = task[j]
      BY <1>7 DEF Process, At
    <2>3. status' \in [Indexes -> {"new", "syncing", "realtime", "disabled"}]
      BY <1>7 DEF Process, Become
    <2>4. failure' \in {"none", "cannot_process", "mapping_grown"}
      BY <1>7 DEF Process
    <2> QED
      BY <1>7, <2>1, <2>2, <2>3, <2>4 DEF Process
  <1>8. ASSUME NEW i \in Indexes, Synchronize(i) PROVE TypeInv'
    BY <1>8, TargetType, LevelsType DEF Synchronize, SynchronizeTo, Become, At
  <1>9. ASSUME NEW i \in Indexes, ProcessQueue(i) PROVE TypeInv'
    <2>1. queue[i] # <<>> => Head(queue[i]) \in Levels /\ Tail(queue[i]) \in Seq(Levels)
      OBVIOUS
    <2>2. queue' \in [Indexes -> Seq(Levels)]
      BY <1>9, <2>1 DEF ProcessQueue
    <2>3. level' \in [Indexes -> 0 .. MaxLevel]
      BY <1>9, <2>1, LevelsType DEF ProcessQueue
    <2>4. covered' \in [Indexes -> SUBSET Levels]
      <3>1. covered' = covered \/ (queue[i] # <<>> /\ covered' = [covered EXCEPT ![i] = @ \cup {Head(queue[i])}])
        BY <1>9 DEF ProcessQueue
      <3>2. queue[i] # <<>> => covered[i] \cup {Head(queue[i])} \in SUBSET Levels
        BY <2>1
      <3> QED
        BY ZenonT(40), <3>1, <3>2
    <2>5. /\ task' \in [Indexes -> {"none", "called", "syncing", "queue"}]
          /\ \A j \in Indexes : task'[j] # "none" => task[j] # "none"
      BY <1>9 DEF ProcessQueue, At
    <2> QED
      BY <1>9, <2>2, <2>3, <2>4, <2>5 DEF ProcessQueue
  <1>10. CASE NewBlock
    <2>1. head + 1 \in Levels
      BY <1>10, LevelsType DEF NewBlock
    <2>2. queue' \in [Indexes -> Seq(Levels)]
      BY <1>10, <2>1 DEF NewBlock
    <2> QED
      BY <1>10, <2>1, <2>2 DEF NewBlock
  <1>11. ASSUME NEW i \in Indexes, AddIndex(i) PROVE TypeInv'
    BY <1>11 DEF AddIndex
  <1>12. CASE Revert
    BY <1>12, KnownFinite, DispatcherAssumption, FS_CardinalityType DEF Revert
  <1>13. CASE Reverted
    BY <1>13, DispatcherAssumption, FS_CardinalityType DEF Reverted
  <1>14. CASE Crash
    <2>1. last' \in [Indexes -> 0 .. MaxLevel]
      BY <1>14, LevelsType DEF Crash, LastLevelRestored, Settings
    <2> QED
      BY <1>14, <2>1, LevelsType, DispatcherAssumption, FS_CardinalityType DEF Crash
  <1>15. CASE UNCHANGED vars
    BY <1>15 DEF vars
  <1> QED
    BY <1>1, <1>2, <1>3, <1>4, <1>5, <1>6, <1>7, <1>8, <1>9, <1>10, <1>11, <1>12, <1>13,
       <1>14, <1>15 DEF Next, Loop, Index

(* Every variable keeps its type, whatever the circumstances.               *)
THEOREM TypeCorrect == Spec => []TypeOK
  <1>1. Spec => []TypeInv
    BY TypeInit, TypeStep, PTL DEF Spec
  <1> QED
    BY <1>1, PTL DEF TypeInv
-----------------------------------------------------------------------------
(* Bounds and tasks.                                                        *)

LEMMA ProgressInit == Init => Progress
  BY DEF Init, Progress, WithinBound, TaskFits

(* Steps that leave the indexes alone.                                      *)
LEMMA ProgressOfLoop ==
  ASSUME TypeInv, Progress,
         Spawn \/ (\E c \in Channels : Subscribed(c)) \/ Finish \/ Synchronized \/ End
  PROVE  Progress'
  <1>1. /\ UNCHANGED <<settings, where, last, status, level, covered, task>>
        /\ \A j \in Indexes : task[j] = "none"
        /\ pc' \notin {"gather", "finish"}
    BY DEF TypeInv, TypeOK, envVars, feedVars, indexVars,
           Spawn, Subscribed, Finish, Synchronized, End
  <1> QED
    BY <1>1 DEF Progress, WithinBound, TaskFits

LEMMA ProgressOfAround ==
  ASSUME TypeInv, Progress,
         NewBlock \/ (\E i \in Indexes : AddIndex(i)) \/ Revert \/ Reverted \/ UNCHANGED vars
  PROVE  Progress'
  <1>1. UNCHANGED <<settings, last, status, level, covered, task, pc, joined, initialLevel, syncLevel>>
    BY DEF vars, envVars, feedVars, indexVars, loopVars, NewBlock, AddIndex, Revert, Reverted
  <1>2. \A j \in Indexes : where'[j] = "known" => where[j] = "known"
    BY DEF TypeInv, TypeOK, vars, indexVars, NewBlock, AddIndex, Revert, Reverted
  <1> QED
    BY <1>1, <1>2 DEF Progress, WithinBound, TaskFits, Target, SyncLevel, Channel

LEMMA ProgressOfGather ==
  ASSUME TypeInv, Progress, Gather \/ Drain
  PROVE  Progress'
  <1> SUFFICES ASSUME NEW j \in Indexes PROVE (WithinBound(j) /\ TaskFits(j))'
    BY DEF Progress
  <1>1. CASE Gather
    BY <1>1 DEF TypeInv, TypeOK, Progress, WithinBound, TaskFits, Gather, ToProcess, Known, envVars, feedVars
  <1>2. CASE Drain
    <2>1. ~joined' => where' = where
      BY <1>2 DEF Drain, Pending, TypeInv, TypeOK
    <2> QED
      BY <1>2, <2>1 DEF Progress, WithinBound, TaskFits, Drain, envVars, feedVars
  <1> QED
    BY <1>1, <1>2

LEMMA ProgressOfIndex ==
  ASSUME TypeInv, Progress, NEW i \in Indexes, Index(i)
  PROVE  Progress'
  <1> SUFFICES ASSUME NEW j \in Indexes PROVE (WithinBound(j) /\ TaskFits(j))'
    BY DEF Progress
  <1>1. /\ UNCHANGED <<settings, last, where, pc, joined, initialLevel, syncLevel>>
        /\ Target(j)' = Target(j) /\ SyncLevel(j)' = SyncLevel(j)
        /\ Target(i)' = Target(i) /\ SyncLevel(i)' = SyncLevel(i)
    BY DEF Index, Process, Synchronize, ProcessQueue, envVars, feedVars, loopVars,
           Target, SyncLevel, Channel
  <1>2. CASE j # i
    <2>1. level'[j] = level[j] /\ covered'[j] = covered[j] /\ status'[j] = status[j] /\ task'[j] = task[j]
      BY <1>2 DEF TypeInv, TypeOK, Index, Process, Synchronize, SynchronizeTo, ProcessQueue, Become, At
    <2> QED
      BY <1>1, <2>1 DEF Progress, WithinBound, TaskFits
  <1>3. CASE j = i /\ Process(i)
    <2>1. UNCHANGED <<level, covered>>
      BY <1>3 DEF Process
    <2>2. WithinBound(i)'
      BY <1>1, <2>1 DEF Progress, WithinBound
    <2>3. /\ WithinBound(i) /\ TaskFits(i) /\ task[i] = "called" /\ pc = "gather"
          /\ last[i] = 0 => Target(i) = SyncLevel(i)
          /\ last[i] > 0 => Target(i) = last[i]
      BY <1>3, TargetType DEF Progress, Process, Target
    <2>4. \/ UNCHANGED <<status, task>> /\ last[i] > 0 /\ level[i] > last[i]
          \/ UNCHANGED <<status, task>> /\ status[i] = "disabled"
          \/ level[i] < Target(i) /\ status'[i] = "syncing" /\ task'[i] = "syncing"
          \/ /\ ~(level[i] < Target(i)) /\ last[i] > 0
             /\ status'[i] = "disabled" /\ task'[i] = "none"
          \/ /\ ~(level[i] < Target(i)) /\ ~(last[i] > 0)
             /\ status'[i] = status[i] /\ task'[i] = "queue"
      BY <1>3 DEF TypeInv, TypeOK, Process, Become, At
    <2>5. TaskFits(i)'
      <3>1. pc' # "finish" /\ level'[i] = level[i] /\ last'[i] = last[i]
        BY <1>1, <2>1, <2>3
      <3>2. CASE level[i] < Target(i) /\ status'[i] = "syncing" /\ task'[i] = "syncing"
        BY <1>1, <3>1, <3>2 DEF TaskFits
      <3>3. CASE ~(level[i] < Target(i)) /\ last[i] > 0 /\ status'[i] = "disabled" /\ task'[i] = "none"
        <4>1. level[i] = last[i]
          BY <2>3, <3>3, TargetType DEF WithinBound
        <4> QED
          BY <3>1, <3>3, <4>1 DEF TaskFits
      <3>4. CASE ~(level[i] < Target(i)) /\ ~(last[i] > 0) /\ status'[i] = status[i] /\ task'[i] = "queue"
        <4>1. last[i] = 0 /\ level[i] >= SyncLevel(i)
          BY <2>3, <3>4, TargetType, LevelsType
        <4> QED
          BY <1>1, <3>1, <3>4, <4>1 DEF TaskFits
      <3>5. ~(last[i] > 0 /\ level[i] > last[i]) /\ status[i] # "disabled"
        BY <2>3, TargetType DEF WithinBound, TaskFits
      <3> QED
        BY <2>4, <3>2, <3>3, <3>4, <3>5
    <2> QED
      BY <1>3, <2>2, <2>5
  <1>4. CASE j = i /\ Synchronize(i)
    <2>1. /\ level'[i] = Target(i) /\ task'[i] = "none" /\ level[i] < Target(i)
          /\ status'[i] = IF last[i] > 0 THEN "disabled" ELSE "realtime"
          /\ covered'[i] = covered[i] \cup {l \in Levels : level[i] < l /\ l <= Target(i) /\ l <= head}
      BY <1>4 DEF TypeInv, TypeOK, Progress, TaskFits, Synchronize, SynchronizeTo, Become, At
    <2>2. covered[i] \subseteq Levels
      BY DEF TypeInv, TypeOK
    <2> QED
      BY <1>1, <1>4, <2>1, <2>2, TargetType, LevelsType DEF Progress, WithinBound, TaskFits, Target
  <1>5. CASE j = i /\ ProcessQueue(i)
    <2>1. last[i] = 0 /\ level[i] >= SyncLevel(i) /\ UNCHANGED status
      BY <1>5 DEF Progress, TaskFits, ProcessQueue
    <2>2. /\ task'[i] \in {"none", "queue"}
          /\ \/ UNCHANGED <<level, covered>>
             \/ \E l \in Levels : /\ l > level[i] /\ level'[i] = l
                                  /\ covered'[i] = covered[i] \cup {l}
      <3>1. queue[i] # <<>> => Head(queue[i]) \in Levels
        BY DEF TypeInv
      <3>2. task'[i] \in {"none", "queue"}
        BY <1>5 DEF TypeInv, TypeOK, ProcessQueue, At
      <3>3. CASE queue[i] # <<>> /\ ~(Head(queue[i]) <= level[i])
        <4>1. /\ level'[i] = Head(queue[i])
              /\ covered'[i] = covered[i] \cup {Head(queue[i])}
          BY <1>5, <3>3 DEF TypeInv, TypeOK, ProcessQueue
        <4>2. Head(queue[i]) > level[i]
          BY <3>1, <3>3, LevelsType, TargetType
        <4> QED
          BY <3>1, <3>2, <3>3, <4>1, <4>2
      <3>4. CASE ~(queue[i] # <<>> /\ ~(Head(queue[i]) <= level[i]))
        BY <1>5, <3>2, <3>4 DEF ProcessQueue
      <3> QED
        BY <3>3, <3>4
    <2>3. covered[i] \subseteq Levels
      BY DEF TypeInv, TypeOK
    <2>4. WithinBound(i)'
      BY SMTT(30), <1>1, <2>1, <2>2, <2>3, TargetType, LevelsType DEF Progress, WithinBound
    <2>5. TaskFits(i)'
      <3>1. pc = "gather" /\ status'[i] = status[i] /\ TaskFits(i)
        BY <1>5, <2>1 DEF ProcessQueue, Progress
      <3>2. SyncLevel(i) <= level'[i]
        BY <2>1, <2>2, TargetType, LevelsType
      <3>3. task'[i] # "syncing" /\ task'[i] # "called"
        BY <2>2
      <3> QED
        BY <1>1, <2>1, <3>1, <3>2, <3>3, TargetType DEF TaskFits
    <2> QED
      BY <1>5, <2>4, <2>5
  <1> QED
    BY <1>2, <1>3, <1>4, <1>5 DEF Index

LEMMA ProgressOfCrash ==
  ASSUME TypeInv, Progress, Crash
  PROVE  Progress'
  <1> SUFFICES ASSUME NEW j \in Indexes PROVE (WithinBound(j) /\ TaskFits(j))'
    BY DEF Progress
  <1>1. last'[j] = last[j] \/ (last'[j] = 0 /\ j \notin settings.initial)
    BY DEF Crash, LastLevelRestored, Progress, WithinBound
  <1> QED
    BY <1>1, TargetType DEF Crash, Progress, WithinBound, TaskFits

LEMMA ProgressStep == TypeInv /\ Progress /\ [Next]_vars => Progress'
  BY ProgressOfLoop, ProgressOfAround, ProgressOfGather, ProgressOfIndex, ProgressOfCrash
  DEF Next, Loop

LEMMA ProgressAlways == Spec => [](TypeInv /\ Progress)
  BY TypeInit, TypeStep, ProgressInit, ProgressStep, PTL DEF Spec

(* Without a restart that loses it, the last_level stays.                   *)
LastKept == last = settings.last

LEMMA LastKeptStep ==
  ASSUME "bounded_restart" \notin Hazards
  PROVE  TypeInv /\ LastKept /\ [Next]_vars => LastKept'
  <1> SUFFICES ASSUME TypeInv, LastKept, [Next]_vars PROVE LastKept'
    OBVIOUS
  <1>1. CASE Crash
    <2>1. \A i \in Indexes : last'[i] = last[i]
      BY <1>1 DEF Crash, LastLevelRestored, LastKept, TypeInv, TypeOK, Pending, Known
    <2>2. last' \in [Indexes -> 0 .. MaxLevel]
      BY <1>1, TypeStep DEF TypeInv, TypeOK
    <2>3. last' = last
      BY <2>1, <2>2 DEF TypeInv, TypeOK
    <2> QED
      BY <1>1, <2>3 DEF Crash, LastKept
  <1>2. CASE ~Crash
    BY <1>2 DEF LastKept, vars, envVars, indexVars, Next, Loop, Spawn, Subscribed, Gather, Drain,
                Finish, Synchronized, End, Index, Process, Synchronize, ProcessQueue,
                NewBlock, AddIndex, Revert, Reverted
  <1> QED
    BY <1>1, <1>2

(* No index goes beyond the last_level it was added with                    *)
(* (index.py:255-260), unless a restart has lost it.                        *)
THEOREM LastLevelRespected ==
  ASSUME "bounded_restart" \notin Hazards
  PROVE  Spec => []BoundKept
  <1>1. Init => LastKept
    BY DEF Init, LastKept
  <1>2. Spec => [](TypeInv /\ Progress /\ LastKept)
    BY <1>1, LastKeptStep, ProgressAlways, PTL DEF Spec
  <1>3. TypeInv /\ Progress /\ LastKept => BoundKept
    <2> SUFFICES ASSUME TypeInv, Progress, LastKept,
                        NEW i \in Indexes, settings.last[i] > 0, NEW l \in covered[i]
                 PROVE  l <= settings.last[i]
      BY DEF BoundKept
    <2>1. l \in Levels
      BY DEF TypeInv, TypeOK
    <2>2. last[i] = settings.last[i] /\ l <= level[i] /\ level[i] <= last[i]
      BY DEF LastKept, Progress, WithinBound
    <2> QED
      BY <2>1, <2>2, LevelsType, TargetType
  <1> QED
    BY <1>2, <1>3, PTL

-----------------------------------------------------------------------------
(* The end of the process.                                                  *)

LEMMA AllDoneStep ==
  ASSUME "added_at_end" \notin Hazards
  PROVE  TypeInv /\ Progress /\ AllDone /\ [Next]_vars => AllDone'
  <1> SUFFICES ASSUME TypeInv, Progress, AllDone, [Next]_vars, pc' \in {"last_hook", "ended"}
               PROVE  Pending' = {} /\ \A i \in Known' : last'[i] > 0 /\ status'[i] = "disabled"
    BY DEF AllDone
  <1>1. CASE Finish
    <2>1. ~joined /\ IsOneshot /\ pc = "finish" /\ UNCHANGED indexVars
      BY <1>1 DEF Finish
    <2>2. Pending' = Pending /\ Known' = Known
      BY <2>1 DEF indexVars, Pending, Known
    <2> QED
      BY <2>1, <2>2 DEF IsOneshot, indexVars, Progress, TaskFits, Known
  <1>2. CASE ~Finish
    <2>1. pc \in {"last_hook", "ended"}
      BY <1>2 DEF vars, loopVars, Next, Loop, Spawn, Subscribed, Gather, Drain, Synchronized, End,
                  Index, Process, Synchronize, ProcessQueue, NewBlock, AddIndex, Revert, Reverted, Crash
    <2>2. UNCHANGED <<where, last, status>>
      BY <1>2, <2>1 DEF vars, indexVars, Next, Loop, Spawn, Subscribed, Gather, Drain, Synchronized, End,
                  Index, Process, Synchronize, ProcessQueue, NewBlock, AddIndex, Revert, Reverted, Crash, Running
    <2> QED
      BY <2>1, <2>2 DEF AllDone, Pending, Known
  <1> QED
    BY <1>1, <1>2

(* The process only ends when every index has reached its last_level        *)
(* (dipdup.py:195-212), unless one is added while the last hooks run.           *)
THEOREM EndIsComplete ==
  ASSUME "added_at_end" \notin Hazards
  PROVE  Spec => []EndsComplete
  <1>1. Init => AllDone
    BY DEF Init, AllDone
  <1>2. Spec => [](TypeInv /\ Progress /\ AllDone)
    BY <1>1, AllDoneStep, ProgressAlways, PTL DEF Spec
  <1>3. TypeInv /\ Progress /\ AllDone => EndsComplete
    BY DEF AllDone, EndsComplete, Active, Pending, Known, Progress, WithinBound, TaskFits
  <1> QED
    BY <1>2, <1>3, PTL

-----------------------------------------------------------------------------
(* Exceptions.                                                              *)

LEMMA SizeKeptStep ==
  ASSUME "growing" \notin Hazards
  PROVE  TypeInv /\ Progress /\ SizeKept /\ [Next]_vars => SizeKept'
  <1> SUFFICES ASSUME TypeInv, Progress, SizeKept, [Next]_vars PROVE SizeKept'
    OBVIOUS
  <1>1. CASE Drain
    <2>1. reverting > 0 => where' = where
      BY <1>1 DEF Drain, Pending, TypeInv, TypeOK
    <2> QED
      BY <1>1, <2>1 DEF Drain, SizeKept, Known
  <1>2. ASSUME NEW i \in Indexes, Process(i) PROVE SizeKept'
    <2>1. failure' = failure
      BY <1>2, TargetType DEF Process, Progress, WithinBound, TaskFits
    <2> QED
      BY <1>2, <2>1 DEF Process, SizeKept, Known
  <1>3. CASE Reverted
    BY <1>3 DEF Reverted, SizeKept
  <1>4. CASE Revert
    BY <1>4 DEF Revert, SizeKept, Known, indexVars
  <1>5. CASE Crash
    BY <1>5 DEF Crash, SizeKept
  <1>6. ASSUME NEW i \in Indexes, AddIndex(i) PROVE SizeKept'
    <2>1. Known' = Known
      BY <1>6 DEF AddIndex, Known, TypeInv, TypeOK
    <2> QED
      BY <1>6, <2>1 DEF AddIndex, SizeKept
  <1>7. CASE UNCHANGED <<failure, reverting, where>>
    BY <1>7 DEF SizeKept, Known
  <1> QED
    BY <1>1, <1>2, <1>3, <1>4, <1>5, <1>6, <1>7 DEF vars, indexVars, Next, Loop, Index, Spawn, Subscribed, Gather,
       Finish, Synchronized, End, Synchronize, ProcessQueue, NewBlock

(* process() is never called of a disabled index nor of one above its       *)
(* last_level (index.py:248, index.py:287), and rollbacks get through       *)
(* (dipdup.py:593), unless _indexes grows meanwhile.                        *)
THEOREM GetsThrough ==
  ASSUME "growing" \notin Hazards
  PROVE  Spec => []NeverFails
  <1>1. Init => SizeKept
    BY DEF Init, SizeKept
  <1>2. Spec => [](TypeInv /\ Progress /\ SizeKept)
    BY <1>1, SizeKeptStep, ProgressAlways, PTL DEF Spec
  <1>3. SizeKept => NeverFails
    BY DEF SizeKept, NeverFails
  <1> QED
    BY <1>2, <1>3, PTL
-----------------------------------------------------------------------------
(* Feeds.                                                                   *)

(* The circumstances under which data of a channel gets lost.               *)
NothingLost == Hazards \cap {"beyond_head", "shared", "early_message"} = {}

LEMMA FeedsInit ==
  ASSUME NothingLost
  PROVE  Init => Feeds
  <1> SUFFICES ASSUME Init PROVE Feeds
    OBVIOUS
  <1>1. Subscriptions
    BY LevelsType DEF Init, Subscriptions
  <1>2. ASSUME NEW i \in Indexes PROVE FeedFits(i)
    <2>1. settings.last[i] <= head /\ level[i] = 0 /\ queue[i] = <<>> /\ syncLevel[Channel(i)] = 0
      BY ChannelType DEF Init, NothingLost
    <2> QED
      BY <2>1, LevelsType DEF FeedFits, Init
  <1> QED
    BY <1>1, <1>2 DEF Feeds

(* A step that changes nothing an index is fed by.                          *)
LEMMA FedAsBefore ==
  ASSUME TypeInv, NEW j \in Indexes, FeedFits(j),
         UNCHANGED <<settings, head, initialLevel, syncLevel>>,
         last'[j] = last[j], level'[j] = level[j], queue'[j] = queue[j],
         covered'[j] = covered[j], where'[j] = where[j],
         task'[j] = "syncing" <=> task[j] = "syncing",
         Running' => Running
  PROVE  FeedFits(j)'
  <1>1. Channel(j)' = Channel(j) /\ SyncLevel(j)' = SyncLevel(j) /\ Target(j)' = Target(j)
    BY DEF Channel, SyncLevel, Target
  <1>2. Queued(j) => Queued(j)'
    BY <1>1 DEF Queued
  <1>3. Fed(j) => Fed(j)'
    BY <1>1, <1>2 DEF Fed
  <1> QED
    BY <1>1, <1>3 DEF FeedFits

LEMMA FeedsOfLoop ==
  ASSUME TypeInv, Feeds, Spawn \/ Gather \/ Finish \/ Synchronized \/ End
  PROVE  Feeds'
  <1>1. /\ UNCHANGED <<settings, head, initialLevel, syncLevel, last, level, queue, covered, where>>
        /\ Running
    BY DEF envVars, feedVars, indexVars, Spawn, Gather, Finish, Synchronized, End
  <1>2. Subscriptions'
    BY <1>1 DEF Feeds, Subscriptions, Spawn, Gather, Finish, Synchronized, End
  <1>3. \A j \in Indexes : task'[j] = "syncing" <=> task[j] = "syncing"
    BY DEF TypeInv, TypeOK, indexVars, Spawn, Gather, Finish, Synchronized, End
  <1>4. \A j \in Indexes : FeedFits(j)'
    BY <1>1, <1>3, FedAsBefore DEF Feeds
  <1> QED
    BY <1>2, <1>4 DEF Feeds

LEMMA FeedsOfSubscribed ==
  ASSUME TypeInv, Feeds, NEW c \in Channels, Subscribed(c)
  PROVE  Feeds'
  <1>1. /\ UNCHANGED <<settings, head, initialLevel, last, level, queue, covered, where, task, pc>>
        /\ Running /\ pc = "subscribe" /\ c \in asking /\ asking' = asking \ {c}
        /\ syncLevel' = [syncLevel EXCEPT ![c] = head]
    BY DEF Subscribed, envVars, indexVars
  <1>2. \A d \in Channels : syncLevel'[d] = IF d = c THEN head ELSE syncLevel[d]
    BY <1>1 DEF TypeInv, TypeOK
  <1>3. Subscriptions'
    BY <1>1, <1>2, LevelsType DEF Feeds, Subscriptions, TypeInv, TypeOK
  <1>4. ASSUME NEW j \in Indexes PROVE FeedFits(j)'
    <2>1. Channel(j)' = Channel(j) /\ Channel(j) \in Channels /\ task[j] = "none" /\ FeedFits(j)
      BY <1>1, ChannelType DEF Channel, TypeInv, TypeOK, Feeds
    <2>2. CASE Channel(j) # c
      <3>1. syncLevel'[Channel(j)] = syncLevel[Channel(j)]
        BY <1>2, <2>1, <2>2
      <3>2. SyncLevel(j)' = SyncLevel(j)
        BY <1>1, <2>1, <3>1 DEF SyncLevel
      <3>3. Queued(j) => Queued(j)'
        BY <1>1, <2>1 DEF Queued
      <3> QED
        BY <1>1, <2>1, <3>1, <3>2, <3>3 DEF FeedFits, Fed, Running
    <2>3. CASE Channel(j) = c
      <3>1. queue[j] = <<>> /\ syncLevel[Channel(j)] = 0
        BY <1>1, <2>1, <2>3 DEF FeedFits, Feeds, Subscriptions
      <3>2. SyncLevel(j)' = head'
        BY <1>1, <1>2, <2>1, <2>3, LevelsType DEF SyncLevel, TypeInv, TypeOK
      <3>3. head - 0 <= level'[j] => Queued(j)'
        BY <1>1, <2>1, <3>1, LevelsType DEF Queued, TypeInv, TypeOK
      <3>4. Fed(j)'
        BY <1>1, <2>1, <3>2, <3>3, TargetType, LevelsType DEF Fed, TypeInv, TypeOK
      <3> QED
        BY <1>1, <2>1, <3>1, <3>4 DEF FeedFits
    <2> QED
      BY <2>2, <2>3
  <1> QED
    BY <1>3, <1>4 DEF Feeds

LEMMA FeedsOfDrain ==
  ASSUME TypeInv, Feeds, Drain
  PROVE  Feeds'
  <1>1. /\ UNCHANGED <<settings, head, initialLevel, syncLevel, last, level, queue, covered, task, asking>>
        /\ Running /\ pc = "gather"
        /\ where' = [i \in Indexes |-> IF i \in Pending THEN "known" ELSE where[i]]
    BY DEF Drain, envVars, feedVars
  <1>2. Subscriptions'
    BY <1>1 DEF Feeds, Subscriptions
  <1>3. ASSUME NEW j \in Indexes PROVE FeedFits(j)'
    <2>1. CASE j \notin Pending
      <3>1. where'[j] = where[j]
        BY <1>1, <2>1
      <3> QED
        BY <1>1, <3>1, FedAsBefore DEF Feeds
    <2>2. CASE j \in Pending
      <3>1. where[j] = "pending" /\ where'[j] = "known" /\ queue[j] = <<>> /\ task[j] = "none"
        BY <1>1, <2>2 DEF Pending, Feeds, FeedFits, TypeInv, TypeOK
      <3>2. Channel(j)' = Channel(j) /\ SyncLevel(j)' = SyncLevel(j)
        BY <1>1 DEF Channel, SyncLevel
      <3>3. head - 0 <= level[j] => Queued(j)'
        BY <1>1, <3>1, LevelsType DEF Queued, TypeInv, TypeOK
      <3>4. head = SyncLevel(j) => Fed(j)'
        BY <1>1, <3>1, <3>2, <3>3, TargetType, LevelsType DEF Fed, TypeInv, TypeOK
      <3>5. syncLevel[Channel(j)] > 0 /\ last[j] = 0 => head = SyncLevel(j)
        BY <1>1, <3>1 DEF Feeds, FeedFits, Fed
      <3> QED
        BY <1>1, <3>1, <3>2, <3>4, <3>5 DEF FeedFits, Feeds
    <2> QED
      BY <2>1, <2>2
  <1> QED
    BY <1>2, <1>3 DEF Feeds

LEMMA FeedsOfProcess ==
  ASSUME TypeInv, Progress, Feeds, NEW i \in Indexes, Process(i)
  PROVE  Feeds'
  <1>1. /\ UNCHANGED <<settings, head, initialLevel, syncLevel, last, level, covered, where, asking, pc>>
        /\ Running /\ task[i] = "called" /\ where[i] = "known"
        /\ SyncLevel(i)' = SyncLevel(i) /\ Target(i)' = Target(i) /\ Channel(i)' = Channel(i)
    BY DEF Process, envVars, feedVars, loopVars, TypeInv, TypeOK, Target, SyncLevel, Channel
  <1>2. Subscriptions'
    BY <1>1 DEF Feeds, Subscriptions
  <1>3. ASSUME NEW j \in Indexes, j # i PROVE FeedFits(j)'
    <2>1. queue'[j] = queue[j] /\ task'[j] = task[j]
      BY <1>3 DEF Process, At, TypeInv, TypeOK
    <2> QED
      BY <1>1, <2>1, FedAsBefore DEF Feeds
  <1>4. FeedFits(i)'
    <2>1. CASE task'[i] # "syncing" /\ queue'[i] = queue[i]
      BY <1>1, <2>1, FedAsBefore DEF Feeds
    <2>2. CASE last[i] > 0
      <3>1. queue' = queue
        BY <2>2 DEF Process
      <3> QED
        BY <1>1, <2>2, <3>1 DEF FeedFits, Feeds
    <2>3. CASE ~(last[i] > 0) /\ level[i] < Target(i) /\ task'[i] = "syncing" /\ queue'[i] = <<>>
      <3>1. Target(i) = SyncLevel(i) /\ ~(level[i] >= SyncLevel(i)) /\ last[i] = 0
        BY <2>3, TargetType, LevelsType DEF Target
      <3>2. syncLevel[Channel(i)] > 0 => head = SyncLevel(i)
        BY <1>1, <3>1 DEF Feeds, FeedFits, Fed
      <3>3. head - 0 <= Target(i) => Queued(i)'
        BY <1>1, <2>3, LevelsType DEF Queued, TypeInv, TypeOK
      <3>4. head = SyncLevel(i) => Fed(i)'
        BY <1>1, <2>3, <3>1, <3>3, TargetType, LevelsType DEF Fed, TypeInv, TypeOK
      <3> QED
        BY <1>1, <2>3, <3>2, <3>4 DEF FeedFits, Feeds
    <2> QED
      BY <1>1, <2>1, <2>2, <2>3 DEF Process, At, TypeInv, TypeOK
  <1> QED
    BY <1>2, <1>3, <1>4 DEF Feeds

LEMMA FeedsOfSynchronize ==
  ASSUME TypeInv, Progress, Feeds, NEW i \in Indexes, Synchronize(i)
  PROVE  Feeds'
  <1>1. /\ UNCHANGED <<settings, head, initialLevel, syncLevel, last, queue, where, asking, pc>>
        /\ Running /\ task[i] = "syncing" /\ task'[i] = "none" /\ where[i] = "known"
        /\ SyncLevel(i)' = SyncLevel(i) /\ Target(i)' = Target(i) /\ Channel(i)' = Channel(i)
    BY DEF Synchronize, envVars, feedVars, loopVars, TypeInv, TypeOK, Target, SyncLevel, Channel, At
  <1>2. Subscriptions'
    BY <1>1 DEF Feeds, Subscriptions
  <1>3. ASSUME NEW j \in Indexes, j # i PROVE FeedFits(j)'
    <2>1. level'[j] = level[j] /\ covered'[j] = covered[j] /\ task'[j] = task[j]
      BY <1>3 DEF Synchronize, SynchronizeTo, At, TypeInv, TypeOK
    <2> QED
      BY <1>1, <2>1, FedAsBefore DEF Feeds
  <1>4. FeedFits(i)'
    <2>1. /\ level'[i] = Target(i) /\ level[i] < Target(i)
          /\ covered'[i] = covered[i] \cup {l \in Levels : level[i] < l /\ l <= Target(i) /\ l <= head}
      BY <1>1 DEF Synchronize, SynchronizeTo, TypeInv, TypeOK, Progress, TaskFits
    <2>2. SyncLevel(i) <= head
      BY ChannelType DEF SyncLevel, Feeds, Subscriptions
    <2>3. Target(i) <= head
      BY <2>2 DEF Target, Feeds, FeedFits, Progress, WithinBound
    <2>4. \A l \in 1 .. level'[i] : l \in covered'[i]
      BY <2>1, <2>3, TargetType, LevelsType DEF Feeds, FeedFits, TypeInv, TypeOK
    <2>5. last[i] = 0 => Target(i) = SyncLevel(i)
      BY DEF Target
    <2>6. Queued(i) => Queued(i)'
      BY <1>1, <2>1 DEF Queued
    <2>7. last[i] = 0 /\ Fed(i) => Fed(i)'
      BY <1>1, <2>1, <2>5, <2>6, TargetType, LevelsType DEF Fed
    <2> QED
      BY <1>1, <2>1, <2>3, <2>4, <2>7 DEF FeedFits, Feeds
  <1> QED
    BY <1>2, <1>3, <1>4 DEF Feeds

(* What is taken off a queue is the level that follows, or one handled.     *)
LEMMA FeedsOfProcessQueue ==
  ASSUME TypeInv, Progress, Feeds, NEW i \in Indexes, ProcessQueue(i)
  PROVE  Feeds'
  <1>1. /\ UNCHANGED <<settings, head, initialLevel, syncLevel, last, where, asking, pc>>
        /\ Running /\ task[i] = "queue" /\ task'[i] # "syncing" /\ where[i] = "known"
        /\ SyncLevel(i)' = SyncLevel(i) /\ Target(i)' = Target(i) /\ Channel(i)' = Channel(i)
    BY DEF ProcessQueue, envVars, feedVars, loopVars, TypeInv, TypeOK, Target, SyncLevel, Channel, At
  <1>2. Subscriptions'
    BY <1>1 DEF Feeds, Subscriptions
  <1>3. ASSUME NEW j \in Indexes, j # i PROVE FeedFits(j)'
    <2>1. /\ level'[j] = level[j] /\ covered'[j] = covered[j] /\ task'[j] = task[j]
          /\ queue'[j] = queue[j]
      BY <1>3 DEF ProcessQueue, At, TypeInv, TypeOK
    <2> QED
      BY <1>1, <2>1, FedAsBefore DEF Feeds
  <1>4. FeedFits(i)'
    <2>1. CASE queue[i] = <<>>
      <3>1. UNCHANGED <<level, covered, queue>>
        BY <2>1 DEF ProcessQueue
      <3> QED
        BY <1>1, <3>1, FedAsBefore DEF Feeds
    <2>2. CASE queue[i] # <<>>
      <3> DEFINE n == Len(queue[i])
                 h == Head(queue[i])
                 t == Tail(queue[i])
      <3>1. queue[i] \in Seq(Levels) /\ h \in Levels /\ n \in Nat /\ n >= 1
        BY <2>2 DEF TypeInv
      <3>2. last[i] = 0 /\ level[i] >= SyncLevel(i) /\ FeedFits(i)
        BY <1>1 DEF Progress, TaskFits, Feeds
      <3>3. syncLevel[Channel(i)] # 0
        BY <1>1, <2>2, <3>2 DEF FeedFits
      <3>4. Queued(i)
        BY <1>1, <3>2, <3>3, TargetType DEF FeedFits, Fed
      <3>5. h = head - n + 1 /\ h <= head /\ h <= level[i] + 1
        <4>1. queue[i][1] = h
          BY <3>1
        <4>2. head \in Nat /\ level[i] \in Nat
          BY LevelsType, TargetType DEF TypeInv, TypeOK
        <4>3. queue[i][1] = head - n + 1 /\ head - n <= level[i]
          BY <1>1, <3>1, <3>4 DEF Queued
        <4> HIDE DEF h, n
        <4> QED
          BY <3>1, <4>1, <4>2, <4>3
      <3>6. queue'[i] = t /\ t \in Seq(Levels) /\ Len(t) = n - 1
        BY <2>2, <3>1 DEF ProcessQueue, TypeInv
      <3>7. \A k \in 1 .. n - 1 : t[k] = queue[i][k + 1]
        BY <3>1, <3>6
      <3>8. \/ UNCHANGED <<level, covered>> /\ h <= level[i]
            \/ level'[i] = h /\ covered'[i] = covered[i] \cup {h} /\ h > level[i]
        <4>1. CASE h <= level[i]
          BY <2>2, <4>1 DEF ProcessQueue
        <4>2. CASE ~(h <= level[i])
          BY <2>2, <3>1, <4>2, LevelsType, TargetType DEF ProcessQueue, TypeInv, TypeOK
        <4> QED
          BY <4>1, <4>2
      <3>9. h <= level'[i] /\ level'[i] <= head /\ level'[i] >= SyncLevel(i)
        BY <3>1, <3>2, <3>5, <3>8, LevelsType, TargetType DEF FeedFits
      <3>10. Queued(i)'
        <4>1. \A k \in 1 .. n - 1 : t[k] = head - (n - 1) + k
          BY <1>1, <3>1, <3>4, <3>7, LevelsType DEF Queued, TypeInv, TypeOK
        <4>2. head - (n - 1) <= level'[i]
          BY <3>1, <3>5, <3>9, LevelsType DEF TypeInv, TypeOK
        <4> HIDE DEF n, t
        <4> QED
          BY <1>1, <3>6, <4>1, <4>2 DEF Queued
      <3>11. Fed(i)'
        BY <1>1, <3>9, <3>10 DEF Fed
      <3>12. \A l \in 1 .. level'[i] : l \in covered'[i]
        <4>1. \A l \in 1 .. level[i] : l \in covered[i]
          BY <3>2 DEF FeedFits
        <4>2. level[i] \in Nat /\ h \in Nat
          BY <3>1, LevelsType, TargetType
        <4> HIDE DEF h
        <4> QED
          BY <3>5, <3>8, <4>1, <4>2
      <3> QED
        BY <1>1, <3>2, <3>3, <3>9, <3>11, <3>12 DEF FeedFits
    <2> QED
      BY <2>1, <2>2
  <1> QED
    BY <1>2, <1>3, <1>4 DEF Feeds

LEMMA AppendElements ==
  ASSUME NEW S, NEW q \in Seq(S), NEW l, NEW r, r = Append(q, l)
  PROVE  /\ Len(r) = Len(q) + 1 /\ r[Len(q) + 1] = l
         /\ \A k \in 1 .. Len(q) : r[k] = q[k]
  <1>1. q \in Seq(S \cup {l})
    OBVIOUS
  <1> QED
    BY <1>1

LEMMA FeedsOfNewBlock ==
  ASSUME NothingLost, TypeInv, Feeds, NewBlock
  PROVE  Feeds'
  <1>1. /\ UNCHANGED <<settings, initialLevel, syncLevel, last, level, covered, where, task, asking, pc, failure>>
        /\ head' = head + 1 /\ head \in Nat
    BY LevelsType DEF NewBlock, feedVars, loopVars, TypeInv, TypeOK
  <1>2. Subscriptions'
    BY <1>1, LevelsType DEF Feeds, Subscriptions, TypeInv, TypeOK
  <1>3. ASSUME NEW j \in Indexes PROVE FeedFits(j)'
    <2>1. /\ FeedFits(j) /\ Running' = Running
          /\ SyncLevel(j)' = SyncLevel(j) /\ Target(j)' = Target(j) /\ Channel(j)' = Channel(j)
      BY <1>1 DEF Feeds, SyncLevel, Target, Channel, Running
    <2>2. /\ settings.last[j] <= head + 1 /\ level[j] <= head + 1
      BY <1>1, <2>1, TargetType, LevelsType DEF FeedFits, TypeInv, Settings
    <2>3. queue'[j] = IF Running /\ j \in Known /\ syncLevel[Channel(j)] > 0
                      THEN Append(queue[j], head + 1) ELSE queue[j]
      BY <1>1 DEF NewBlock
    <2>4. syncLevel[Channel(j)] = 0 \/ where[j] # "known" => queue'[j] = queue[j]
      BY <2>3 DEF Known
    <2>5. ASSUME Running, syncLevel[Channel(j)] > 0, last[j] = 0, where[j] # "absent"
          PROVE  Fed(j)'
      <3>1. j \in Pending \cup Known
        BY <2>5 DEF Pending, Known, TypeInv, TypeOK
      <3>2. Collects(j)
        BY <3>1 DEF NewBlock, NothingLost
      <3>3. where[j] = "known" /\ (level[j] >= SyncLevel(j) \/ task[j] = "syncing")
        BY <2>5, <3>2 DEF Collects
      <3>4. Queued(j)
        BY <2>1, <2>5, <3>3 DEF FeedFits, Fed
      <3> DEFINE n == Len(queue[j])
      <3>5. queue[j] \in Seq(Levels) /\ n \in Nat
        BY DEF TypeInv
      <3>6. queue'[j] = Append(queue[j], head + 1)
        BY <2>3, <2>5, <3>3 DEF Known
      <3>7. Len(queue'[j]) = n + 1 /\ queue'[j][n + 1] = head + 1
            /\ \A k \in 1 .. n : queue'[j][k] = queue[j][k]
        BY <3>5, <3>6, AppendElements
      <3>8. \A k \in 1 .. n + 1 : queue'[j][k] = head + 1 - (n + 1) + k
        <4>1. \A k \in 1 .. n : queue[j][k] = head - n + k
          BY <3>4 DEF Queued
        <4> HIDE DEF n
        <4> QED
          BY <1>1, <3>5, <3>7, <4>1
      <3>9. head + 1 - (n + 1) = head - n
        BY <1>1, <3>5
      <3>10. Queued(j)'
        <4>1. head - n <= (IF task[j] = "syncing" THEN Target(j) ELSE level[j])
          BY <3>4 DEF Queued
        <4>2. Len(queue'[j]) = n + 1
          BY <3>7
        <4> HIDE DEF n
        <4> QED
          BY <1>1, <2>1, <3>8, <3>9, <4>1, <4>2 DEF Queued
      <3> QED
        BY <1>1, <2>1, <3>3, <3>10 DEF Fed
    <2> QED
      BY <1>1, <2>1, <2>2, <2>4, <2>5 DEF FeedFits
  <1> QED
    BY <1>2, <1>3 DEF Feeds

LEMMA FeedsOfAround ==
  ASSUME NothingLost, TypeInv, Feeds,
         (\E i \in Indexes : AddIndex(i)) \/ Revert \/ Reverted \/ Crash \/ UNCHANGED vars
  PROVE  Feeds'
  <1>1. ASSUME NEW i \in Indexes, AddIndex(i) PROVE Feeds'
    <2>1. /\ UNCHANGED <<settings, head, initialLevel, syncLevel, last, level, queue, covered, task, asking, pc, failure>>
          /\ where[i] = "absent" /\ where'[i] = "pending"
          /\ \A j \in Indexes : j # i => where'[j] = where[j]
      BY <1>1 DEF AddIndex, envVars, feedVars, loopVars, TypeInv, TypeOK
    <2>2. syncLevel[Channel(i)] = 0
      BY <1>1, ChannelType, LevelsType DEF AddIndex, NothingLost, TypeInv, TypeOK
    <2>3. Channel(i)' = Channel(i) /\ Running' = Running
      BY <2>1 DEF Channel, Running
    <2>4. FeedFits(i)'
      BY <2>1, <2>2, <2>3 DEF Feeds, FeedFits
    <2>5. \A j \in Indexes : j # i => FeedFits(j)'
      BY <2>1, <2>3, FedAsBefore DEF Feeds
    <2> QED
      BY <2>1, <2>4, <2>5 DEF Feeds, Subscriptions
  <1>2. CASE Revert \/ Reverted \/ UNCHANGED vars
    <2>1. /\ UNCHANGED <<settings, head, initialLevel, syncLevel, last, level, queue, covered, task, where, asking, pc>>
          /\ Running' => Running
      BY <1>2 DEF Revert, Reverted, vars, envVars, feedVars, loopVars, indexVars, Running
    <2>2. \A j \in Indexes : FeedFits(j)'
      BY <2>1, FedAsBefore DEF Feeds
    <2> QED
      BY <2>1, <2>2 DEF Feeds, Subscriptions
  <1>3. CASE Crash
    <2>1. /\ UNCHANGED <<settings, head, level, covered>>
          /\ asking' = {} /\ initialLevel' = head /\ syncLevel' = [c \in Channels |-> 0]
          /\ queue' = [j \in Indexes |-> <<>>]
      BY <1>3 DEF Crash
    <2>2. Subscriptions'
      BY <2>1, LevelsType DEF Subscriptions, TypeInv, TypeOK
    <2>3. ASSUME NEW j \in Indexes PROVE FeedFits(j)'
      <3>1. Channel(j)' = Channel(j) /\ syncLevel'[Channel(j)] = 0 /\ queue'[j] = <<>>
        BY <2>1, ChannelType DEF Channel
      <3> QED
        BY <2>1, <3>1 DEF Feeds, FeedFits
    <2> QED
      BY <2>2, <2>3 DEF Feeds
  <1> QED
    BY <1>1, <1>2, <1>3

LEMMA FeedsStep ==
  ASSUME NothingLost
  PROVE  TypeInv /\ Progress /\ Feeds /\ [Next]_vars => Feeds'
  BY FeedsOfLoop, FeedsOfSubscribed, FeedsOfDrain, FeedsOfProcess, FeedsOfSynchronize,
     FeedsOfProcessQueue, FeedsOfNewBlock, FeedsOfAround DEF Next, Loop, Index

(* An index has handled every level up to its own: whether it was there at  *)
(* the start or came later, whenever its channel was subscribed to in       *)
(* between (index.py:202-221, index.py:265-268) and however often the       *)
(* process was killed.  A last_level above the head, a channel that others  *)
(* are subscribed to already and messages before the first process() would  *)
(* each break it.                                                           *)
THEOREM NoLevelMissed ==
  ASSUME NothingLost
  PROVE  Spec => []NothingMissed
  <1>1. Spec => [](TypeInv /\ Progress /\ Feeds)
    BY FeedsInit, FeedsStep, ProgressAlways, PTL DEF Spec
  <1>2. TypeInv /\ Progress /\ Feeds => NothingMissed
    <2> SUFFICES ASSUME TypeInv, Progress, Feeds, NEW i \in Indexes
                 PROVE  covered[i] = 1 .. level[i]
      BY DEF NothingMissed
    <2>1. covered[i] \subseteq 1 .. MaxLevel /\ level[i] \in Nat
      BY LevelsType, TargetType DEF TypeInv, TypeOK
    <2>2. \A l \in covered[i] : l <= level[i]
      BY DEF Progress, WithinBound
    <2>3. \A l \in 1 .. level[i] : l \in covered[i]
      BY DEF Feeds, FeedFits
    <2>4. covered[i] \subseteq 1 .. level[i]
      BY <2>1, <2>2, LevelsType
    <2> QED
      BY <2>3, <2>4
  <1> QED
    BY <1>1, <1>2, PTL
=============================================================================
