------------------------------ MODULE Fetcher ------------------------------
(***************************************************************************)
(* The part of historical synchronization every index kind shares: an      *)
(* iterator of item batches, yield_by_level over it, the read-ahead task   *)
(* with its bounded queue, the loop of Index._synchronize that processes   *)
(* level by level, and the retries of the HTTP requests under all of it.   *)
(* What the iterator yields is up to PageFetcher, BlockFetcher,            *)
(* ChannelFetcher and SubstrateFetcher.                                    *)
(***************************************************************************)
EXTENDS ChainOrder, Sequences, SequencesExt, FiniteSetsExt

CONSTANTS
  Kinds,          \* index kinds the chain may be indexed with
  Hazards,        \* circumstances that are otherwise ruled out
  MaxLevel,       \* bound: height of the chain
  MaxItems,       \* bound: items on it
  PageSize,       \* request_limit, batch_size of the datasource
  ReadaheadLimit, \* readahead_limit of the fetcher
  RetryCount,     \* http.retry_count
  MaxFaults       \* bound: failed requests, crashes, idle answers

AllKinds == {"operations", "token_transfers", "big_maps", "events",
             "evm_events", "evm_transactions", "starknet", "substrate"}
Circumstances == {"torn_level", "two_digits", "many_events", "lagging_head",
                  "lagging_node", "slow_requests", "unordered_block"}

ASSUME FetcherAssumption ==
  /\ Kinds \subseteq AllKinds /\ Hazards \subseteq Circumstances
  /\ MaxLevel \in Nat \ {0} /\ MaxItems \in Nat /\ MaxFaults \in Nat
  /\ PageSize \in Nat \ {0} /\ ReadaheadLimit \in Nat \ {0}
  /\ RetryCount \in Nat

Levels == 1 .. MaxLevel
Channels == {1, 2}   \* two of the endpoints, or contracts, that are merged

VARIABLES
  kind,      \* the kind of the index
  content,   \* [item -> level]: what the index's filters match, in order
  routes,    \* [item -> channels that return it]
  faults,
  status,    \* "idle" between syncs, "syncing", "failed": the process ended
  failure,   \* why it ended
  level,     \* Index.state.level, saved with the rows of the level
  first,     \* first_level of the fetcher
  target,    \* its last_level
  delivered, \* history of processed levels
  attempt,   \* _retry_request's attempt
  items,     \* yield_by_level's buffer
  exhausted, \* the iterator under it has ended
  task,      \* the read-ahead task: "running", "waiting", "done", "failed"
  readahead  \* its queue

chainVars == <<kind, content, routes>>
indexVars == <<status, failure, level, first, target, delivered>>
taskVars == <<items, exhausted, task, readahead>>
fetcherVars == <<chainVars, faults, indexVars, attempt, taskVars>>

Items == DOMAIN content
FirstOf(S, n) == {i \in S : Cardinality({j \in S : j <= i}) <= n}
InRange(i) == content[i] \in first .. target

TypeOK ==
  /\ kind \in Kinds /\ faults \in 0 .. MaxFaults
  /\ content \in BoundedSeq(Levels, MaxItems)
  /\ routes \in [Items -> (SUBSET Channels) \ {{}}]
  /\ status \in {"idle", "syncing", "failed"}
  /\ failure \in {"none", "request", "crash", "assertion"}
  /\ level \in 0 .. MaxLevel /\ first \in 0 .. MaxLevel + 1 /\ target \in 0 .. MaxLevel
  /\ \A d \in Range(delivered) : d.level \in Levels /\ Range(d.items) \subseteq Items
  /\ attempt \in 1 .. RetryCount + 1
  /\ Range(items) \subseteq Items /\ exhausted \in BOOLEAN
  /\ task \in {"running", "waiting", "done", "failed"}
  /\ Len(readahead) <= ReadaheadLimit

-----------------------------------------------------------------------------
(* The iterator: HTTP requests and what they bring.                         *)

(* The iterator is asked for its next batch: yield_by_level holds no level  *)
(* that is known to be complete.                                            *)
Boundaries == {i \in 1 .. Len(items) - 1 : content[items[i]] # content[items[i + 1]]}
Wanted == status = "syncing" /\ task = "running" /\ ~exhausted /\ Boundaries = {}

(* It yields a batch, and is at its end or not.                             *)
Receive(batch, ended) ==
  /\ items' = items \o batch
  /\ exhausted' = ended
  /\ UNCHANGED <<task, readahead>>

(* It raises.                                                               *)
Raise(why) ==
  /\ task' = "failed" /\ failure' = why
  /\ UNCHANGED <<items, exhausted, readahead>>

(* A request is answered.                                                   *)
Answered == attempt' = 1 /\ UNCHANGED <<chainVars, faults, status, level, first, target, delivered>>

(* A request fails.  _retry_request repeats it for safe_exceptions, unless  *)
(* that was the last attempt; other exceptions, such as an empty response,  *)
(* surface at once.                                                         *)
RequestFails ==
  /\ Wanted /\ faults < MaxFaults /\ faults' = faults + 1
  /\ \E retryable \in BOOLEAN :
       IF retryable /\ attempt <= RetryCount
         THEN attempt' = attempt + 1 /\ UNCHANGED <<taskVars, failure>>
         ELSE attempt' = 1 /\ Raise("request")
  /\ UNCHANGED <<chainVars, status, level, first, target, delivered>>

-----------------------------------------------------------------------------
(* The read-ahead task.                                                     *)

(* A level is queued; a full queue puts the task to sleep.                  *)
Push(n) ==
  /\ readahead' = Append(readahead, SubSeq(items, 1, n))
  /\ items' = SubSeq(items, n + 1, Len(items))
  /\ task' = IF Len(readahead') >= ReadaheadLimit THEN "waiting" ELSE "running"
  /\ UNCHANGED exhausted

(* yield_by_level yields the items up to the first change of level, and the *)
(* last level only when the iterator has ended; _readahead appends it and   *)
(* sleeps when the queue is full.  The code appends several levels without  *)
(* an await in between, which is a special case.                            *)
SplitLevel ==
  /\ status = "syncing" /\ task = "running"
  /\ IF Boundaries # {} THEN Push(Min(Boundaries))
                        ELSE exhausted /\ items # <<>> /\ Push(Len(items))
  /\ UNCHANGED <<chainVars, faults, indexVars, attempt>>

(* The task returns.                                                        *)
ReadaheadDone ==
  /\ status = "syncing" /\ task = "running" /\ exhausted /\ items = <<>>
  /\ task' = "done"
  /\ UNCHANGED <<chainVars, faults, indexVars, attempt, items, exhausted, readahead>>

-----------------------------------------------------------------------------
(* The index.                                                               *)

(* The loop of Index._synchronize takes a level off the queue, which wakes  *)
(* the task, and processes it: _process_level_data raises for a level the   *)
(* index has passed, and commits the rows together with the new level.      *)
ProcessLevel ==
  /\ status = "syncing" /\ readahead # <<>>
  /\ LET batch == Head(readahead) IN
     IF content[Head(batch)] <= level
       THEN status' = "failed" /\ failure' = "assertion" /\ UNCHANGED <<level, delivered>>
       ELSE /\ level' = content[Head(batch)]
            /\ delivered' = Append(delivered, [level |-> level', items |-> batch])
            /\ UNCHANGED <<status, failure>>
  /\ readahead' = Tail(readahead)
  /\ task' = IF task = "waiting" THEN "running" ELSE task
  /\ UNCHANGED <<chainVars, faults, first, target, attempt, items, exhausted>>

(* Mutant of Synchronized: _exit_sync_state saves the status only.          *)
SynchronizedInPlace ==
  /\ status = "syncing" /\ readahead = <<>> /\ task \in {"done", "failed"}
  /\ status' = IF task = "done" THEN "idle" ELSE "failed"
  /\ UNCHANGED <<chainVars, faults, failure, level, first, target, delivered, attempt, taskVars>>

(* The queue is empty and the task has ended.  What it raised is raised     *)
(* here; otherwise _exit_sync_state moves the index to its target.  While   *)
(* the task runs, has_more or the timeout brings the loop back.             *)
Synchronized ==
  /\ status = "syncing" /\ readahead = <<>> /\ task \in {"done", "failed"}
  /\ status' = IF task = "done" THEN "idle" ELSE "failed"
  /\ level' = IF task = "done" THEN target ELSE level
  /\ UNCHANGED <<chainVars, faults, failure, first, target, delivered, attempt, taskVars>>

(* The process is killed.                                                   *)
Crash ==
  /\ status # "failed" /\ faults < MaxFaults /\ faults' = faults + 1
  /\ status' = "failed" /\ failure' = "crash"
  /\ UNCHANGED <<chainVars, level, first, target, delivered, attempt, taskVars>>

(* The next start finds the level of the last commit.                       *)
Restart ==
  /\ status = "failed"
  /\ status' = "idle" /\ failure' = "none"
  /\ UNCHANGED <<chainVars, faults, level, first, target, delivered, attempt, taskVars>>

-----------------------------------------------------------------------------
(* _synchronize(sync_level) creates a fetcher for what is missing.          *)
StartFetcher(to) ==
  /\ status = "idle"
  /\ status' = "syncing" /\ first' = level + 1 /\ target' = to
  /\ attempt' = 1 /\ items' = <<>> /\ task' = "running" /\ readahead' = <<>>
  /\ UNCHANGED <<chainVars, failure, level, delivered>>

FetcherInit ==
  /\ kind \in Kinds
  /\ content \in {s \in BoundedSeq(Levels, MaxItems) :
                    \A i, j \in DOMAIN s : i < j => s[i] <= s[j]}
  /\ faults = 0 /\ status = "idle" /\ failure = "none"
  /\ level = 0 /\ first = 0 /\ target = 0 /\ delivered = <<>>
  /\ attempt = 1 /\ items = <<>> /\ exhausted = FALSE
  /\ task = "done" /\ readahead = <<>>
=============================================================================
