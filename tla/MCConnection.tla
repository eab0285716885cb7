---------------------------- MODULE MCConnection ----------------------------
(* Connection with one outside sender and one outside closer. *)
EXTENDS Connection
=============================================================================
