------------------------------ MODULE MCServer ------------------------------
(* The server with a few connections that arrive in any order. *)
EXTENDS Server, TLC

Symmetry == Permutations(Conns)
=============================================================================
