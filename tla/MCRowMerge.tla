----------------------------- MODULE MCRowMerge -----------------------------
(***************************************************************************)
(* Instances of RowMerge.  Devices and columns are interchangeable: stamps *)
(* order operations whoever made them.                                     *)
(***************************************************************************)
EXTENDS RowMerge, TLC

Symmetry == Permutations(Device) \cup Permutations(Col)
=============================================================================
