---------------------------- MODULE PageFetcher ----------------------------
(***************************************************************************)
(* Token transfers, big map updates and contract events come from one TzKT *)
(* endpoint each, page by page (TezosTzktDatasource._iter_batches).  Pages *)
(* are told apart by the id of the last item (`offset.cr') or by the       *)
(* number of items seen (`offset'); the iterator and the getter under it   *)
(* each have a say in which.                                               *)
(***************************************************************************)
EXTENDS Fetcher

PagedKinds == {"token_transfers", "big_maps", "events"}

VARIABLE offset  \* what _iter_batches passes to the getter

FirstId == 100   \* ids are TzKT's own: none is as small as a count of items
Id(i) == FirstId + i

(* `cursor' as the iterators pass it to _iter_batches.                      *)
CursorIterator == kind = "token_transfers"

(* Mutant of CursorGetter: counts are taken for ids, ids for counts.        *)
CursorGetterSwapped == kind = "big_maps"

(* `cursor' as the getters pass it to _get_request_params.                  *)
CursorGetter == kind \in {"token_transfers", "events"}

(* What TzKT answers: offset.cr skips ids, offset skips items.              *)
Page ==
  LET matched == {i \in Items : InRange(i)}
  IN FirstOf(IF CursorGetter THEN {i \in matched : offset = 0 \/ Id(i) > offset}
                             ELSE matched \ FirstOf(matched, offset), PageSize)

(* One round of _iter_batches, up to a page that is not full.               *)
FetchPage ==
  /\ kind \in PagedKinds /\ Wanted
  /\ Receive(InOrder(Page), Cardinality(Page) < PageSize)
  /\ offset' = IF Page = {} THEN offset
               ELSE IF CursorIterator THEN Id(Max(Page)) ELSE offset + PageSize
  /\ Answered /\ UNCHANGED failure

StartPages ==
  /\ kind \in PagedKinds
  /\ \E to \in level + 1 .. MaxLevel : StartFetcher(to)
  /\ offset' = 0 /\ exhausted' = FALSE
  /\ UNCHANGED faults
=============================================================================
