----------------------------- MODULE ChainOrder -----------------------------
(***************************************************************************)
(* Items and levels are numbers; a batch of them is a sequence in the      *)
(* order of the chain.                                                     *)
(***************************************************************************)
EXTENDS Integers, FiniteSets

(* The members of S, in order.                                              *)
InOrder(S) ==
  [n \in 1 .. Cardinality(S) |-> CHOOSE i \in S : Cardinality({j \in S : j <= i}) = n]
=============================================================================
