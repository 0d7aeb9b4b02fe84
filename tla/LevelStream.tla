---------------------------- MODULE LevelStream ----------------------------
(***************************************************************************)
(* What DataFetcher.fetch_by_level promises an index, whatever it fetches  *)
(* from: "splitted by level, deduped, sorted and ready to be processed".   *)
(* The index gets the items of a level at once, in the order of the chain, *)
(* and moves past a level only when it has been given what is in it.       *)
(***************************************************************************)
EXTENDS ChainOrder, Sequences, SequencesExt

VARIABLES
  content,   \* levels of the items the index asks for, in chain order
  level,     \* Index.state.level
  delivered  \* what was processed: a sequence of [level, items] records

streamVars == <<content, level, delivered>>

(* The items of a level, in order.                                          *)
ItemsOf(l) == InOrder({i \in DOMAIN content : content[i] = l})

(* No level in from .. to holds an item.                                    *)
Barren(from, to) == \A i \in DOMAIN content : content[i] \notin from .. to

StreamInit == level = 0 /\ delivered = <<>>

(* The next level with items is processed.                                  *)
Deliver ==
  \E l \in Range(content) :
    /\ l > level /\ Barren(level + 1, l - 1)
    /\ level' = l
    /\ delivered' = Append(delivered, [level |-> l, items |-> ItemsOf(l)])
    /\ UNCHANGED content

(* Levels without items are skipped.                                        *)
Advance ==
  /\ level' > level /\ Barren(level + 1, level')
  /\ UNCHANGED <<content, delivered>>

StreamNext == Deliver \/ Advance

StreamSpec == StreamInit /\ [][StreamNext]_streamVars
=============================================================================
