------------------------------- MODULE MCFraming -------------------------------
(* Framing for TLC: packets at, below and above both limits of Decode.     *)
EXTENDS Framing
===============================================================================
