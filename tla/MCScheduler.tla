----------------------------- MODULE MCScheduler -----------------------------
(* A few tasks under a few names; jobs are interchangeable, and so are names. *)
EXTENDS Scheduler, TLC

Symmetry == Permutations(Jobs) \cup Permutations(Ids)
==============================================================================
