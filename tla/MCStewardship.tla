--------------------------- MODULE MCStewardship ---------------------------
(***************************************************************************)
(* Stewardship for TLC: the consoles are interchangeable.                  *)
(***************************************************************************)
EXTENDS Stewardship, TLC

Symmetry == Permutations(Consoles)
=============================================================================
