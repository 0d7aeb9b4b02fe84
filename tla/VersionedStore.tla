--------------------------- MODULE VersionedStore ---------------------------
(***************************************************************************)
(* What DipDup's versioned models promise, whatever machinery keeps the    *)
(* promise: the tables are a function of the levels indexed so far.  An    *)
(* index either advances to a higher level, writing its own rows in one    *)
(* step, or goes back to a lower one and then has exactly the rows that    *)
(* level left.  Rows in immune tables only follow the first rule.          *)
(***************************************************************************)
EXTENDS Naturals

CONSTANTS Indexes, Keys, Rows, Owner, Immune, MaxLevel

VARIABLES
  rows,   \* [Keys -> Rows]
  level,  \* [Indexes -> Nat]
  hist    \* [Keys -> [Levels -> Rows]]: the rows as each level left them

Heights == 0 .. MaxLevel

Init ==
  /\ level = [i \in Indexes |-> 0]
  /\ \E r \in Rows : /\ rows = [k \in Keys |-> r]
                     /\ hist = [k \in Keys |-> [m \in Heights |-> r]]

Advance(i, l) ==
  /\ l > level[i]
  /\ level' = [level EXCEPT ![i] = l]
  /\ \A k \in Keys : Owner[k] # i => rows'[k] = rows[k]
  /\ DOMAIN rows' = Keys
  /\ hist' = [k \in Keys |-> [m \in Heights |->
                IF Owner[k] # i \/ m <= level[i] THEN hist[k][m]
                ELSE IF m < l THEN hist[k][level[i]] ELSE rows'[k]]]

GoBack(i, to) ==
  /\ to < level[i]
  /\ level' = [level EXCEPT ![i] = to]
  /\ rows' = [k \in Keys |-> IF Owner[k] = i /\ k \notin Immune
                             THEN hist[k][to] ELSE rows[k]]
  /\ UNCHANGED hist

(* Reindexing from scratch.                                                 *)
Wipe ==
  /\ level' = [i \in Indexes |-> 0]
  /\ \E r \in Rows :
       rows' = [k \in Keys |-> IF k \in Immune THEN rows[k] ELSE r]
  /\ hist' = [k \in Keys |-> [m \in Heights |-> rows'[k]]]

Next == \/ \E i \in Indexes, l \in Heights : Advance(i, l) \/ GoBack(i, l)
        \/ Wipe

Spec == Init /\ [][Next]_<<rows, level, hist>>
=============================================================================
