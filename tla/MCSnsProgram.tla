---------------------------- MODULE MCSnsProgram ----------------------------
(***************************************************************************)
(* Instances of SnsProgram for TLC.  Owners and batch ids are              *)
(* interchangeable: no definition tells one from another.                  *)
(***************************************************************************)
EXTENDS SnsProgram, TLC

Symmetry == Permutations(Owners) \cup Permutations(BatchIds)
=============================================================================
