------------------------------ MODULE Presence ------------------------------
(***************************************************************************)
(* The value that stands for undefined, null and a missing file wherever   *)
(* the code tells a thing that is there from one that is not.              *)
(***************************************************************************)
CONSTANT Absent
=============================================================================
