-------------------------- MODULE PolledDatasource --------------------------
(***************************************************************************)
(* Datasources that are asked for their head again and again: nodes        *)
(* without a Websocket (a Starknet node has none, those of EVM and         *)
(* Substrate are run without ws_url) and Subsquid for indexes that have no *)
(* node.  Each new head is one more synchronization of the index.          *)
(***************************************************************************)
EXTENDS NodeDatasource

VARIABLES
  spawned,  \* the dispatcher has set spawn_datasources_event: run() is at work
  started   \* AbstractSubsquidDatasource._started

polledVars == <<spawned, started>>
ofPolled == ~Websockets

(* The chain grows, or its blocks above `to' are replaced, which polling    *)
(* does not tell: not those an index has or is about to fetch (unnoticed).  *)
Change(to) ==
  /\ ofPolled /\ to <= Len(chain)
  /\ IF to < Len(chain)
       THEN /\ "polled" \in kinds /\ reorgs < MaxReorgs /\ reorgs' = reorgs + 1
            /\ "unnoticed" \in Hazards \/ \A k \in kinds : to >= Max({level[k], syncLevel})
       ELSE UNCHANGED reorgs
  /\ \E full \in BOOLEAN : Mint(to, <<full>>)
  /\ UNCHANGED <<heads, polledVars>>

(* All indexes are realtime.                                                *)
Spawn ==
  /\ Running /\ ofPolled /\ ~spawned /\ \A k \in kinds : level[k] >= syncLevel
  /\ spawned' = TRUE
  /\ UNCHANGED <<nodeVars, started>>

(* Mutant of Polling: Subsquid waits for a start that is never given.       *)
PollingNodes == spawned /\ kinds = {"polled"}

(* run() of a node polls at once, that of Subsquid waits for start().       *)
Polling == spawned /\ (kinds = {"subsquid"} => started)

(* get_head_level: a replica that lags behind answers less than it might;   *)
(* Subsquid may have nothing yet (not_ready).  A head known already changes *)
(* nothing.                                                                 *)
Poll ==
  /\ Running /\ ofPolled /\ Polling
  /\ \E head \in (0 .. Len(chain)) \ {syncLevel} :
       /\ "not_ready" \in Hazards \/ head > 0
       /\ IF head < Len(chain) THEN Fault ELSE UNCHANGED faults
       /\ IF head = 0 /\ kinds = {"subsquid"}
            THEN failure' = "not_ready" /\ UNCHANGED syncLevel
            ELSE syncLevel' = head /\ UNCHANGED failure
  /\ UNCHANGED <<blocks, chain, reorgs, kinds, subscribed, heads, attempts>>
  /\ UNCHANGED <<emitterVars, indexVars, polledVars>>

(* SubsquidIndex._synchronize of an index without nodes starts the polling. *)
SynchronizePolled(k) ==
  /\ ofPolled /\ Synchronize(k)
  /\ started' = (started \/ k = "subsquid")
  /\ UNCHANGED spawned

(* After a restart an index that has nothing to synchronize does not start  *)
(* the polling of Subsquid, ever (caught_up).                               *)
CrashPolled ==
  /\ ofPolled
  /\ "caught_up" \in Hazards \/ kinds = {"polled"} \/ level["subsquid"] < Len(chain)
  /\ Restarted
  /\ spawned' = FALSE /\ started' = FALSE

PolledInit == spawned = FALSE /\ started = FALSE
PolledTasks == Spawn \/ Poll \/ \E k \in kinds : SynchronizePolled(k)
PolledNext == (\E to \in 0 .. MaxLevel : Change(to)) \/ CrashPolled \/ PolledTasks
=============================================================================
