--------------------------- MODULE SubstrateNode ---------------------------
(***************************************************************************)
(* A Substrate node and its datasource: one subscription, to finalized     *)
(* heads, none of which is ever replaced.  The Websocket task handles one  *)
(* message after another, the answer to the subscription with a request    *)
(* for the head included; the emitter task asks for the events of each     *)
(* head and hands them out.                                                *)
(***************************************************************************)
EXTENDS NodeDatasource

ofSubstrate == kinds = {"finalized"}

(* One or two blocks are finalized at once.  Those that listen are told of  *)
(* each, or of the last one only (gaps).                                    *)
Finalize ==
  /\ ofSubstrate
  /\ \E contents \in BoundedSeq(BOOLEAN, 2) \ {<<>>} :
       /\ Mint(Len(chain), contents)
       /\ LET new == NewBlocks(contents)
              told == IF "gaps" \in Hazards THEN <<Last(new)>> ELSE new
          IN heads' = IF Announcing THEN [heads EXCEPT !["finalized"] = @ \o told] ELSE heads
  /\ UNCHANGED reorgs

(* The subscription to finalized heads is missing, and is the pending one.   *)
SubscribeFinalized == ofSubstrate /\ Requested

(* The answer: the id of the subscription is stored, then the head asked    *)
(* for; notifications wait until this message is done with.                 *)
StoreId ==
  /\ Running /\ ofSubstrate /\ subscribed = "asked"
  /\ subscribed' = "stored"
  /\ UNCHANGED <<chainVars, heads, syncLevel, attempts, failure, emitterVars, indexVars>>

(* The head, as it was at some moment since, is the sync level, and the     *)
(* dispatcher goes on, whatever has become of the connection.               *)
SetSyncLevel ==
  /\ Running /\ ofSubstrate /\ subscribed \in {"stored", "torn"}
  /\ \E unseen \in 0 .. Len(heads["finalized"]) : syncLevel' = Len(chain) - unseen
  /\ subscribed' = IF subscribed = "stored" THEN "yes" ELSE "deaf"
  /\ UNCHANGED <<chainVars, heads, attempts, failure, emitterVars, indexVars>>

(* A head is queued for the emitter.                                        *)
ReceiveFinalized ==
  /\ ofSubstrate /\ heads["finalized"] # <<>> /\ subscribed # "stored" /\ Notified
  /\ emitter' = Append(emitter, Head(heads["finalized"]))
  /\ heads' = [heads EXCEPT !["finalized"] = Tail(@)]

DisconnectSubstrate == ofSubstrate /\ Disconnected

CrashSubstrate == ofSubstrate /\ Restarted

(* The same _ws_loop keeps the connection to an EVM node.                   *)
RefuseSubstrate == ofSubstrate /\ Refuse

(* The emitter loop: emit_head tells nobody who keeps it.                   *)
EmitFinalized ==
  /\ Running /\ ofSubstrate /\ pc = "head" /\ emitter # <<>>
  /\ current' = Head(emitter) /\ emitter' = Tail(emitter) /\ pc' = "events"
  /\ UNCHANGED <<chainVars, feedVars, failure, indexVars>>

(* The events of a block.  There are some in any block, though none of      *)
(* interest; one without (eventless) makes an empty message.                *)
EventsOf(b) ==
  IF blocks[b].full THEN DataMsg(b, {})
  ELSE IF "eventless" \in Hazards THEN EmptyMsg(b) ELSE [EmptyMsg(b) EXCEPT !.kind = "data"]

(* The dispatcher pushes them to the indexes of the datasource.              *)
OnSubstrateEvents(b) == Push("finalized", EventsOf(b))

(* Hash, events and header of the block were asked for.                     *)
EmitBlockEvents ==
  /\ Running /\ pc = "events"
  /\ OnSubstrateEvents(current)
  /\ pc' = "head"
  /\ UNCHANGED <<chainVars, feedVars, failure, emitter, current, draining, level, rows>>

SubstrateTasks == SubscribeFinalized \/ StoreId \/ SetSyncLevel \/ ReceiveFinalized
SubstrateEmitter == EmitFinalized \/ EmitBlockEvents
SubstrateNext ==
  \/ Finalize \/ DisconnectSubstrate \/ CrashSubstrate \/ RefuseSubstrate
  \/ SubstrateTasks \/ SubstrateEmitter
=============================================================================
