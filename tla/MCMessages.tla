------------------------------ MODULE MCMessages ------------------------------
(* Two requests and a broadcast over two connections, interchangeable. *)
EXTENDS Messages, TLC

Symmetry == Permutations(Conns) \cup Permutations(Requests)
===============================================================================
