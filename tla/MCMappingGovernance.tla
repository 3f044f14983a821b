------------------------ MODULE MCMappingGovernance ------------------------
(***************************************************************************)
(* Instances of MappingGovernance for TLC.  The names of mapping sets are  *)
(* only compared for equality, so the safety run may permute them.         *)
(***************************************************************************)
EXTENDS MappingGovernance, TLC

NameSymmetry == Permutations(Names)
=============================================================================
