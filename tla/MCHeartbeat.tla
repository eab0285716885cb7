----------------------------- MODULE MCHeartbeat -----------------------------
(* The heartbeat with the delays and the clock bounded by the configuration. *)
EXTENDS Heartbeat
==============================================================================
