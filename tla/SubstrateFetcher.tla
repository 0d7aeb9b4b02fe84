-------------------------- MODULE SubstrateFetcher --------------------------
(***************************************************************************)
(* SubstrateNodeEventFetcher.fetch_events: levels become hashes, headers   *)
(* and events in three tasks connected by queues.  A task takes a batch    *)
(* off its queue without interruption and waits for the node's answers; it *)
(* ends when the queues before it look empty.                              *)
(***************************************************************************)
EXTENDS Fetcher

Stages == 1 .. 3   \* _hashes_loop, _headers_loop, _events_loop

VARIABLES
  queues,  \* levels, hashes, headers and events: each a sequence of levels
  batch,   \* [stage -> what it is asking the node for, or collecting]
  loop     \* [stage -> "collecting", "asking", "last", "done"]

substrateVars == <<queues, batch, loop>>

(* Mutant of DrainedBefore: a task looks at its own queue only.             *)
OwnQueueDrained(s, qs) == qs[s] = <<>>

(* The condition a task breaks on: its queue and those before it are empty. *)
DrainedBefore(s, qs) == \A q \in 1 .. s : qs[q] = <<>>

(* The hazard: a task gets its answers and finds the queues empty while a   *)
(* task before it still waits for the node.                                 *)
Outruns(s) == DrainedBefore(s, queues) /\ \E q \in 1 .. s - 1 : loop[q] \in {"asking", "last"}

(* A task collects a batch; the node is asked when it is full, or when      *)
(* nothing more is expected.                                                *)
Collect(s) ==
  /\ kind = "substrate" /\ status = "syncing"
  /\ loop[s] = "collecting" /\ queues[s] # <<>>
  /\ LET n == Min({PageSize - Len(batch[s]), Len(queues[s])})
         qs == [queues EXCEPT ![s] = SubSeq(@, n + 1, Len(@))]
         full == Len(batch[s]) + n = PageSize
     IN /\ queues' = qs
        /\ batch' = [batch EXCEPT ![s] = @ \o SubSeq(queues[s], 1, n)]
        /\ loop' = [loop EXCEPT ![s] =
             IF ~full /\ DrainedBefore(s, qs) THEN "last"
             ELSE IF full THEN "asking" ELSE "collecting"]
  /\ UNCHANGED fetcherVars

(* The answers arrive and go to the next queue; then the task looks again.  *)
Answer(s) ==
  /\ kind = "substrate" /\ status = "syncing"
  /\ loop[s] \in {"asking", "last"}
  /\ Outruns(s) => "slow_requests" \in Hazards
  /\ queues' = [queues EXCEPT ![s + 1] = @ \o batch[s]]
  /\ batch' = [batch EXCEPT ![s] = <<>>]
  /\ loop' = [loop EXCEPT ![s] = IF @ = "last" \/ DrainedBefore(s, queues)
                                   THEN "done" ELSE "collecting"]
  /\ UNCHANGED fetcherVars

(* The main loop takes what has come out and ends when nothing is left.     *)
TakeEvents ==
  /\ kind = "substrate" /\ Wanted
  /\ IF queues[4] # <<>>
       THEN LET l == Head(queues[4]) IN
            /\ Receive(InOrder({i \in Items : content[i] = l}), FALSE)
            /\ queues' = [queues EXCEPT ![4] = Tail(@)]
       ELSE /\ \A s \in Stages : loop[s] = "done" /\ queues[s] = <<>>
            /\ Receive(<<>>, TRUE)
            /\ UNCHANGED queues
  /\ Answered /\ UNCHANGED <<failure, batch, loop>>

(* The queue of levels is filled before the tasks are started.              *)
QueueLevels ==
  /\ queues' = <<[n \in 1 .. target' - level |-> level + n], <<>>, <<>>, <<>>>>
  /\ batch' = [s \in Stages |-> <<>>]
  /\ loop' = [s \in Stages |-> IF s = 1 /\ queues'[1] = <<>> THEN "done" ELSE "collecting"]

(* The fetcher of Subsquid has none.                                        *)
NoPipeline ==
  /\ queues' = <<<<>>, <<>>, <<>>, <<>>>> /\ batch' = [s \in Stages |-> <<>>]
  /\ loop' = [s \in Stages |-> "done"]
=============================================================================
