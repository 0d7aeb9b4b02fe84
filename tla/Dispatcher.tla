----------------------------- MODULE Dispatcher -----------------------------
(***************************************************************************)
(* The loop of IndexDispatcher: when datasources are spawned and channels  *)
(* subscribed to, which indexes are processed, how indexes added at run    *)
(* time join in, when on_synchronized fires, jobs start and the process is *)
(* done, and what of it a restart restores.  Chains here only grow and     *)
(* connections hold: IndexLifecycle and EvmNode are about those.           *)
(***************************************************************************)
EXTENDS Integers, Sequences, FiniteSets

CONSTANTS
  Indexes,
  Hazards,    \* circumstances that are otherwise ruled out
  MaxLevel,   \* bound: height of the chain
  MaxCrashes, \* bound
  MaxReorgs   \* bound

Circumstances ==
  {"mixed", "beyond_head", "shared", "early_message", "added_at_end", "bounded_restart", "growing"}

ASSUME DispatcherAssumption ==
  /\ IsFiniteSet(Indexes) /\ Indexes # {}
  /\ Hazards \subseteq Circumstances
  /\ MaxLevel \in Nat \ {0} /\ MaxCrashes \in Nat /\ MaxReorgs \in Nat

VARIABLES
  settings,  \* the config: indexes in it, last levels, shared channel, early_realtime, postpone_jobs
  head, crashes, reorgs,
  failure,   \* the exception that ended the process, or "none"
  pc,        \* of IndexDispatcher.run
  spawned,   \* spawn_datasources_event
  jobs,      \* start_scheduler_event
  fired,     \* on_synchronized_fired
  joined,    \* indexes_spawned of this iteration
  asking,    \* missing subscriptions this iteration still asks for
  reverting, \* size of _indexes when _on_rollback began to iterate over it, or 0
  initialLevel, \* sync level of initialize()
  syncLevel, \* [channel -> level of the answer to its subscription, or 0]
  where,     \* [index -> "absent", "pending" (_pending_indexes), "known" (_indexes)]
  last,      \* [index -> last_level of its config, or 0]
  status, level, queue,
  covered,   \* [index -> levels whose data it has handled]
  task       \* [index -> where its process() is at in this iteration]

envVars == <<settings, head, crashes, reorgs>>
loopVars == <<pc, spawned, jobs, fired, joined, asking>>
feedVars == <<initialLevel, syncLevel>>
indexVars == <<where, last, status, level, queue, covered, task>>
vars == <<envVars, failure, loopVars, reverting, feedVars, indexVars>>

Levels == 1 .. MaxLevel
Running == failure = "none" /\ pc # "ended"
Pending == {i \in Indexes : where[i] = "pending"}
Known == {i \in Indexes : where[i] = "known"}
Active == {i \in Pending \cup Known : status[i] # "disabled"}

(* Indexes of the same subscription share its channel and its sync level.   *)
Channel(i) == IF settings.shared THEN "shared" ELSE i
Channels == Indexes \cup {"shared"}

(* Mutant of EveryIndexIs: those not added yet count, too.                  *)
EveryIndexEverIs(s) == \A i \in Indexes : status[i] = s

(* _every_index_is: disabled indexes are in _indexes, too.                  *)
EveryIndexIs(s) == Known # {} /\ \A i \in Known : status[i] = s

(* Mutant of IsOneshot: indexes that wait to be added are forgotten.        *)
IsOneshotOfKnown == Known # {} /\ \A i \in Known : last[i] > 0

(* is_oneshot.                                                              *)
IsOneshot == Known # {} /\ Pending = {} /\ \A i \in Known : last[i] > 0

-----------------------------------------------------------------------------
(* The loop.                                                                *)

(* Datasources are spawned once all indexes are realtime; subscribe() looks *)
(* for missing subscriptions.                                               *)
Spawn ==
  /\ Running /\ pc = "spawn"
  /\ spawned' = (spawned \/ (~IsOneshot /\ (EveryIndexIs("realtime") \/ settings.early)))
  /\ asking' = IF spawned' THEN {c \in {Channel(i) : i \in Pending \cup Known} : syncLevel[c] = 0} ELSE {}
  /\ pc' = "subscribe"
  /\ UNCHANGED <<envVars, failure, jobs, fired, joined, reverting, feedVars, indexVars>>

(* The answer to a subscription carries the level of the head.              *)
Subscribed(c) ==
  /\ Running /\ pc = "subscribe" /\ c \in asking
  /\ asking' = asking \ {c} /\ syncLevel' = [syncLevel EXCEPT ![c] = head]
  /\ UNCHANGED <<envVars, failure, pc, spawned, jobs, fired, joined, reverting, initialLevel, indexVars>>

(* Mutant of ToProcess: disabled indexes are not left out.                  *)
ToProcessAll == Known

ToProcess == {i \in Known : status[i] # "disabled"}

(* process() of all indexes that are not disabled, at the same time.        *)
Gather ==
  /\ Running /\ pc = "subscribe" /\ asking = {}
  /\ task' = [i \in Indexes |-> IF i \in ToProcess THEN "called" ELSE "none"]
  /\ pc' = "gather"
  /\ UNCHANGED <<envVars, failure, spawned, jobs, fired, joined, asking, reverting, feedVars,
                 where, last, status, level, queue, covered>>

(* All of them are done: _pending_indexes move to _indexes.                 *)
Drain ==
  /\ Running /\ pc = "gather" /\ \A i \in Indexes : task[i] = "none"
  /\ "growing" \in Hazards \/ reverting = 0 \/ Pending = {}
  /\ where' = [i \in Indexes |-> IF i \in Pending THEN "known" ELSE where[i]]
  /\ joined' = (Pending # {}) /\ pc' = "finish"
  /\ UNCHANGED <<envVars, failure, spawned, jobs, fired, asking, reverting, feedVars,
                 last, status, level, queue, covered, task>>

(* The end of an iteration: no index is left, or all are realtime and       *)
(* on_synchronized is due, or neither.                                      *)
Finish ==
  /\ Running /\ pc = "finish"
  /\ IF ~joined /\ IsOneshot
       THEN pc' = "last_hook" /\ UNCHANGED <<fired, jobs>>
       ELSE IF EveryIndexIs("realtime") /\ ~joined
         THEN pc' = (IF fired THEN "spawn" ELSE "hook") /\ jobs' = (jobs \/ fired) /\ UNCHANGED fired
         ELSE pc' = "spawn" /\ fired' = FALSE /\ UNCHANGED jobs
  /\ UNCHANGED <<envVars, failure, spawned, joined, asking, reverting, feedVars, indexVars>>

(* on_synchronized has run; the scheduler is let go.                        *)
Synchronized ==
  /\ Running /\ pc = "hook"
  /\ fired' = TRUE /\ jobs' = TRUE /\ pc' = "spawn"
  /\ UNCHANGED <<envVars, failure, spawned, joined, asking, reverting, feedVars, indexVars>>

(* The other tasks are cancelled.                                           *)
End ==
  /\ Running /\ pc = "last_hook"
  /\ pc' = "ended"
  /\ UNCHANGED <<envVars, failure, spawned, jobs, fired, joined, asking, reverting, feedVars, indexVars>>

-----------------------------------------------------------------------------
(* Index.process.                                                           *)

SyncLevel(i) == IF syncLevel[Channel(i)] = 0 THEN initialLevel ELSE syncLevel[Channel(i)]

(* Mutant of Target: the bound of the index plays no role.                  *)
TargetUnbounded(i) == SyncLevel(i)

Target(i) == IF last[i] > 0 THEN last[i] ELSE SyncLevel(i)

Become(i, s) == status' = [status EXCEPT ![i] = s]
At(i, step) == task' = [task EXCEPT ![i] = step]

(* An index that has been disabled, or is above its last_level, is an error;*)
(* one behind its target clears its queue, unless it has a last_level, and  *)
(* synchronizes; else the queue is processed.                               *)
Process(i) ==
  /\ Running /\ pc = "gather" /\ task[i] = "called"
  /\ IF status[i] = "disabled" \/ (last[i] > 0 /\ level[i] > last[i])
       THEN failure' = "cannot_process" /\ UNCHANGED <<status, queue, task>>
       ELSE /\ UNCHANGED failure
            /\ IF level[i] < Target(i)
                 THEN /\ Become(i, "syncing") /\ At(i, "syncing")
                      /\ queue' = IF last[i] > 0 THEN queue ELSE [queue EXCEPT ![i] = <<>>]
                 ELSE /\ IF last[i] > 0 THEN Become(i, "disabled") /\ At(i, "none")
                                        ELSE UNCHANGED status /\ At(i, "queue")
                      /\ UNCHANGED queue
  /\ UNCHANGED <<envVars, loopVars, reverting, feedVars, where, last, level, covered>>

(* Mutant of SynchronizeTo: the first level is taken for done.              *)
SynchronizeAfter(i, to) ==
  covered' = [covered EXCEPT ![i] = @ \cup {l \in Levels : level[i] + 1 < l /\ l <= to /\ l <= head}]

(* What there is up to that level has been fetched.                         *)
SynchronizeTo(i, to) ==
  covered' = [covered EXCEPT ![i] = @ \cup {l \in Levels : level[i] < l /\ l <= to /\ l <= head}]

(* The sync state is left: the sync level does not change meanwhile.        *)
Synchronize(i) ==
  /\ Running /\ pc = "gather" /\ task[i] = "syncing"
  /\ SynchronizeTo(i, Target(i))
  /\ level' = [level EXCEPT ![i] = Target(i)]
  /\ Become(i, IF last[i] > 0 THEN "disabled" ELSE "realtime") /\ At(i, "none")
  /\ UNCHANGED <<envVars, failure, loopVars, reverting, feedVars, where, last, queue>>

(* _process_queue, message by message: those not above the level are left   *)
(* out.                                                                     *)
ProcessQueue(i) ==
  /\ Running /\ pc = "gather" /\ task[i] = "queue"
  /\ IF queue[i] = <<>> THEN At(i, "none") /\ UNCHANGED <<queue, level, covered>>
     ELSE /\ queue' = [queue EXCEPT ![i] = Tail(@)]
          /\ IF Head(queue[i]) <= level[i] THEN UNCHANGED <<level, covered>>
             ELSE /\ level' = [level EXCEPT ![i] = Head(queue[i])]
                  /\ covered' = [covered EXCEPT ![i] = @ \cup {Head(queue[i])}]
          /\ UNCHANGED task
  /\ UNCHANGED <<envVars, failure, loopVars, reverting, feedVars, where, last, status>>

-----------------------------------------------------------------------------
(* What happens around the loop.                                            *)

(* An index that has begun to synchronize as far as its channel was when it *)
(* was subscribed to: before, data of the channel is dropped with its queue *)
(* or, while the index is pending, not pushed to it at all (early_message). *)
Collects(i) ==
  \/ last[i] > 0 \/ syncLevel[Channel(i)] = 0
  \/ where[i] = "known" /\ (level[i] >= SyncLevel(i) \/ task[i] = "syncing")

(* A block with data for everyone: the callbacks of the dispatcher push it  *)
(* to the indexes in _indexes, the disabled ones included.                  *)
NewBlock ==
  /\ head < MaxLevel
  /\ "early_message" \in Hazards \/ \A i \in Pending \cup Known : Collects(i)
  /\ head' = head + 1
  /\ queue' = [i \in Indexes |->
       IF Running /\ i \in Known /\ syncLevel[Channel(i)] > 0 THEN Append(queue[i], head') ELSE queue[i]]
  /\ UNCHANGED <<settings, crashes, reorgs, failure, loopVars, reverting, feedVars,
                 where, last, status, level, covered, task>>

(* add_index, by a handler, and thus during the processing, or by a hook, a *)
(* job or the API at any time, if not once all is done (added_at_end); of a *)
(* channel that is not subscribed to yet (shared).                          *)
AddIndex(i) ==
  /\ Running /\ where[i] = "absent"
  /\ pc = "last_hook" => "added_at_end" \in Hazards
  /\ syncLevel[Channel(i)] > 0 => "shared" \in Hazards
  /\ where' = [where EXCEPT ![i] = "pending"]
  /\ UNCHANGED <<envVars, failure, loopVars, reverting, feedVars, last, status, level, queue, covered, task>>

(* A rollback none of the indexes is high enough for: _on_rollback iterates *)
(* over _indexes, waiting for the database at each of them, and fails when  *)
(* the mapping has grown meanwhile (growing).                               *)
Revert ==
  /\ Running /\ reorgs < MaxReorgs /\ reverting = 0 /\ Known # {}
  /\ \E i \in Known : syncLevel[Channel(i)] > 0
  /\ reorgs' = reorgs + 1 /\ reverting' = Cardinality(Known)
  /\ UNCHANGED <<settings, head, crashes, failure, loopVars, feedVars, indexVars>>

Reverted ==
  /\ Running /\ reverting > 0
  /\ failure' = IF Cardinality(Known) = reverting THEN "none" ELSE "mapping_grown"
  /\ reverting' = 0
  /\ UNCHANGED <<envVars, loopVars, feedVars, indexVars>>

(* An index added at run time is added once more from the template values   *)
(* in its state, which say nothing of a last_level (bounded_restart).       *)
LastLevelRestored(i) == IF i \in settings.initial THEN settings.last[i] ELSE 0

(* The process is killed and starts again: _spawn_index for the indexes of  *)
(* the config, _load_index_state for the others in the database.            *)
Crash ==
  /\ Running /\ crashes < MaxCrashes
  /\ "bounded_restart" \in Hazards \/ \A i \in (Pending \cup Known) \ settings.initial : last[i] = 0
  /\ crashes' = crashes + 1
  /\ where' = [i \in Indexes |-> IF where[i] = "absent" THEN "absent" ELSE "pending"]
  /\ last' = [i \in Indexes |-> IF where[i] = "absent" THEN last[i] ELSE LastLevelRestored(i)]
  /\ queue' = [i \in Indexes |-> <<>>] /\ task' = [i \in Indexes |-> "none"]
  /\ pc' = "spawn" /\ spawned' = FALSE /\ jobs' = ~settings.postpone
  /\ fired' = FALSE /\ joined' = FALSE /\ asking' = {} /\ reverting' = 0
  /\ initialLevel' = head /\ syncLevel' = [c \in Channels |-> 0]
  /\ UNCHANGED <<settings, head, reorgs, failure, status, level, covered>>

-----------------------------------------------------------------------------
(* Any config: some of the indexes may be added at run time.  Unless a      *)
(* hazard lets it be, bounded and unbounded indexes do not go together      *)
(* (mixed), and no last_level is above the head (beyond_head).              *)
Init ==
  /\ head \in Levels /\ head <= 2 /\ crashes = 0 /\ reorgs = 0
  /\ settings \in [initial : SUBSET Indexes, last : [Indexes -> 0 .. MaxLevel],
                   shared : BOOLEAN, early : BOOLEAN, postpone : BOOLEAN]
  /\ "mixed" \in Hazards \/ \A i, j \in Indexes : settings.last[i] > 0 => settings.last[j] > 0
  /\ "beyond_head" \in Hazards \/ \A i \in Indexes : settings.last[i] <= head
  /\ last = settings.last
  /\ failure = "none" /\ pc = "spawn" /\ spawned = FALSE /\ jobs = ~settings.postpone
  /\ fired = FALSE /\ joined = FALSE /\ asking = {} /\ reverting = 0
  /\ initialLevel = head /\ syncLevel = [c \in Channels |-> 0]
  /\ where = [i \in Indexes |-> IF i \in settings.initial THEN "pending" ELSE "absent"]
  /\ status = [i \in Indexes |-> "new"] /\ level = [i \in Indexes |-> 0]
  /\ queue = [i \in Indexes |-> <<>>] /\ covered = [i \in Indexes |-> {}]
  /\ task = [i \in Indexes |-> "none"]

Loop == Spawn \/ (\E c \in Channels : Subscribed(c)) \/ Gather \/ Drain \/ Finish \/ Synchronized \/ End
Index(i) == Process(i) \/ Synchronize(i) \/ ProcessQueue(i)

Next ==
  \/ Loop \/ (\E i \in Indexes : Index(i))
  \/ NewBlock \/ (\E i \in Indexes : AddIndex(i))
  \/ Revert \/ Reverted \/ Crash

Spec == Init /\ [][Next]_vars

(* The event loop runs every task that can go on; blocks, additions and     *)
(* crashes need not come.                                                   *)
FairSpec ==
  /\ Spec
  /\ WF_vars(Loop) /\ WF_vars(Reverted)
  /\ \A i \in Indexes : WF_vars(Index(i))

-----------------------------------------------------------------------------
(* Properties.                                                              *)

TypeOK ==
  /\ head \in Levels /\ initialLevel \in Levels /\ syncLevel \in [Channels -> 0 .. MaxLevel]
  /\ failure \in {"none", "cannot_process", "mapping_grown"}
  /\ pc \in {"spawn", "subscribe", "gather", "finish", "hook", "last_hook", "ended"}
  /\ asking \subseteq Channels /\ reverting \in 0 .. Cardinality(Indexes)
  /\ where \in [Indexes -> {"absent", "pending", "known"}]
  /\ last \in [Indexes -> 0 .. MaxLevel] /\ level \in [Indexes -> 0 .. MaxLevel]
  /\ status \in [Indexes -> {"new", "syncing", "realtime", "disabled"}]
  /\ task \in [Indexes -> {"none", "called", "syncing", "queue"}]
  /\ covered \in [Indexes -> SUBSET Levels]
  /\ \A i \in Indexes : task[i] # "none" => pc = "gather" /\ where[i] = "known"

(* An index has handled every level up to its own, whenever it was added    *)
(* and whatever channels were subscribed to by then.                        *)
NothingMissed == \A i \in Indexes : covered[i] = 1 .. level[i]

(* No index goes beyond the last_level it was added with.                   *)
BoundKept == \A i \in Indexes : settings.last[i] > 0 => \A l \in covered[i] : l <= settings.last[i]

(* The process only ends when every index there is has reached its bound.   *)
EndsComplete == pc = "ended" => Active = {} /\ \A i \in Pending \cup Known : level[i] = settings.last[i]

(* The dispatcher, its callbacks and the indexes get through without an     *)
(* exception.                                                               *)
NeverFails == failure = "none"

(* In the end the process is done, or every index follows the chain and no  *)
(* queue holds anything.                                                    *)
CatchesUp ==
  <>[](\/ ~Running \/ Pending \cup Known = {}
       \/ Active # {} /\ (\A i \in Active : status[i] = "realtime" /\ level[i] = head)
                      /\ (\A i \in Indexes : queue[i] = <<>>))

(* When all active indexes are realtime for good, on_synchronized fires and *)
(* the jobs start.                                                          *)
HookFires ==
  <>[](Running /\ Active # {} /\ \A i \in Active : status[i] = "realtime") => <>[](fired /\ jobs)
=============================================================================
