---------------------------- MODULE MCRpcGateway ----------------------------
(***************************************************************************)
(* RpcGateway for TLC: the slots for nested requests are interchangeable.  *)
(***************************************************************************)
EXTENDS RpcGateway, TLC

Symmetry == Permutations(Nested)
=============================================================================
