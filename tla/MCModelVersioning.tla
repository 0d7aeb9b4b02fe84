------------------------ MODULE MCModelVersioning ------------------------
(***************************************************************************)
(* Instances of ModelVersioning for TLC.                                   *)
(***************************************************************************)
EXTENDS ModelVersioning, TLC

CONSTANTS k1, k2, k3, i1, i2, c1, c2, f1, f2

OneOwner == [k \in Keys |-> i1]
TwoOwners == [k \in Keys |-> IF k = k1 THEN i1 ELSE i2]
OneChain == [i \in Indexes |-> c1]

FieldSymmetry == Permutations(Fields)
=============================================================================
