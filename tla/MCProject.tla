---------------------------- MODULE MCProject ----------------------------
(***************************************************************************)
(* Instances of Project for TLC.                                           *)
(***************************************************************************)
EXTENDS Project

(* A contract on an EVM chain, one on Tezos, and a runtime.                 *)
MCKindOf == [token |-> "evm", dex |-> "tezos", para |-> "substrate"]

(* The template has an index of the first, from a template of its own.      *)
MCTemplate ==
  [entries |-> [token |-> "template", dex |-> "none", para |-> "none"], hooks |-> {},
   buffered |-> FALSE, source |-> 2, depth |-> {}]
=============================================================================
