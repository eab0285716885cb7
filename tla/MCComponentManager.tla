-------------------------- MODULE MCComponentManager --------------------------
(* A few components, signals and one more caller of Stop. *)
EXTENDS ComponentManager
===============================================================================
