------------------------- MODULE MCConsensusRouter -------------------------
(***************************************************************************)
(* Instances of ConsensusRouter for TLC.  Correct nodes are                *)
(* interchangeable, and so are calls.                                      *)
(***************************************************************************)
EXTENDS ConsensusRouter, TLC

Symmetry == Permutations(Nodes \ Faulty) \cup Permutations(Queries)
============================================================================
