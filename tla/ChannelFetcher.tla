--------------------------- MODULE ChannelFetcher ---------------------------
(***************************************************************************)
(* Tezos operations (one channel per endpoint and filter) and events from  *)
(* a Starknet node (one channel per contract) are merged: every channel    *)
(* has a head, the level up to which it has delivered everything, and      *)
(* DataFetcher._merged_iter yields what is below all heads.                *)
(***************************************************************************)
EXTENDS Fetcher

MergedKinds == {"operations", "starknet"}

VARIABLES
  heads,      \* FetcherChannel._head
  offsets,    \* FetcherChannel._offset: the last item received, 0 for none
  buffer,     \* the items in DataFetcher._buffer, which has them by level
  mergedHead  \* DataFetcher._head

channelVars == <<heads, offsets, buffer, mergedHead>>

Returns(c) == {i \in Items : c \in routes[i] /\ InRange(i)}
Remaining(c) == {i \in Returns(c) : i > offsets[c]}

(* Channels disagree about a level only if both return items of it.         *)
Shared(l) == \A c \in Channels : \E i \in Items : content[i] = l /\ c \in routes[i]

LevelsOf(page) == {content[i] : i \in page}

(* Mutant of get_operations_head: the level of the last operation, which    *)
(* the next page may continue.                                              *)
get_operations_head_eager(page) == Max(LevelsOf(page))

(* get_operations_head: the last level that is complete, unless the page    *)
(* is of one level.                                                         *)
get_operations_head(page) ==
  LET last == Max(LevelsOf(page))
  IN IF LevelsOf(page) = {last} THEN last ELSE Max(LevelsOf(page) \ {last})

(* A page of operations: [page, head, offset].                              *)
OperationPages(c) ==
  LET page == FirstOf(Remaining(c), PageSize) IN
  {IF Cardinality(page) < PageSize
     THEN [page |-> page, head |-> target, offset |-> offsets[c]]
     ELSE [page |-> page, head |-> get_operations_head(page), offset |-> Max(page)]}

(* A chunk of events, and a continuation token while more are left.  The    *)
(* node may cut anywhere (a chunk without events changes nothing).  The     *)
(* head is then the level that was cut; if contracts share it or it is the  *)
(* last one, that is a hazard.                                              *)
Whole(c, last) ==
  \/ \A i \in Remaining(c) : i > last => content[i] # content[last]
  \/ ~Shared(content[last]) /\ content[last] # target

EventChunks(c) ==
  LET rest == Remaining(c)
      more == {last \in FirstOf(rest, PageSize) :
                 /\ \E i \in rest : i > last
                 /\ Whole(c, last) \/ "torn_level" \in Hazards}
  IN {[page |-> {i \in rest : i <= last}, head |-> content[last], offset |-> last] : last \in more}
     \cup IF Cardinality(rest) <= PageSize
            THEN {[page |-> rest, head |-> target, offset |-> 0]} ELSE {}

(* Events are sorted by the text of "block_transaction": of transactions 2  *)
(* and 10 the second comes first.                                           *)
TransactionIndex(i) ==
  LET rank == Cardinality({j \in 1 .. i : content[j] = content[i]})
  IN IF "two_digits" \in Hazards /\ rank = 2 THEN 10 ELSE rank + 1
TextOrder(n) == IF n < 10 THEN 100 * n ELSE 10 * n + 1
Before(i, j) ==
  \/ content[i] < content[j]
  \/ content[i] = content[j] /\ TextOrder(TransactionIndex(i)) <= TextOrder(TransactionIndex(j))
SortEvents(S) ==
  [n \in 1 .. Cardinality(S) |-> CHOOSE i \in S : Cardinality({j \in S : Before(j, i)}) = n]

(* What _merged_iter yields of complete levels, one by one: each by sort_fn,*)
(* which is dedup_operations (by id, each once) or the key of events.       *)
SortItems(S) == IF kind = "operations" THEN InOrder(S) ELSE SortEvents(S)

-----------------------------------------------------------------------------
(* Buffered items of the levels no channel has anything more for.           *)
Mergeable(hs, buf) == {i \in buf : \A c \in Channels : content[i] <= hs[c]}

(* FetcherChannel.fetch of the channel that is furthest behind, and the     *)
(* rest of the round of _merged_iter: yield what is complete, stop when     *)
(* every channel has been fetched.                                          *)
FetchChannel ==
  /\ kind \in MergedKinds /\ Wanted
  /\ \E c \in Channels :
     /\ \A d \in Channels : heads[c] <= heads[d]
     /\ \E answer \in IF kind = "operations" THEN OperationPages(c) ELSE EventChunks(c) :
        LET hs == [heads EXCEPT ![c] = answer.head]
            buf == buffer \cup answer.page
            behind == \E d \in Channels : hs[d] < mergedHead
            ready == IF behind THEN {} ELSE Mergeable(hs, buf)
            ended == \A d \in Channels : hs[d] >= target
            invalid == \/ ~behind /\ \E i \in buf : content[i] < mergedHead
                       \/ ended /\ ready # buf
        IN /\ heads' = hs /\ offsets' = [offsets EXCEPT ![c] = answer.offset]
           /\ buffer' = buf \ ready
           /\ mergedHead' = IF ready = {} THEN mergedHead ELSE Max(LevelsOf(ready))
           /\ IF invalid
                THEN Raise("assertion")
                ELSE Receive(SortItems(ready), ended) /\ UNCHANGED failure
  /\ Answered

(* The channels of a new fetcher.                                           *)
OpenChannels ==
  /\ heads' = [c \in Channels |-> 0] /\ offsets' = [c \in Channels |-> 0]
  /\ buffer' = {} /\ mergedHead' = 0

(* OperationsFetcher.fetch_by_level.                                        *)
StartOperations ==
  /\ kind = "operations"
  /\ \E to \in level + 1 .. MaxLevel : StartFetcher(to)
  /\ OpenChannels
  /\ exhausted' = FALSE
  /\ UNCHANGED faults

(* Without the hazard, no level fills more than a page of a channel.        *)
LevelsFitPages ==
  \A l \in Levels, c \in Channels :
    Cardinality({i \in Items : content[i] = l /\ c \in routes[i]}) <= PageSize
=============================================================================
