------------------------- MODULE MCTargetAssignment -------------------------
(***************************************************************************)
(* TargetAssignment on every small schema, and that its loops end.         *)
(***************************************************************************)
EXTENDS TargetAssignment

\* The two nested "while True" loops end: every search reaches a column
\* without a row, and every augmentation reaches column 0.
Solved == <>(solving = "done")
=============================================================================
