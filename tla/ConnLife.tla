------------------------------- MODULE ConnLife -------------------------------
(***************************************************************************)
(* The life of connections as the pool and the server of package network   *)
(* rely on it: a connection opens, one caller of Close wins, however many  *)
(* there are, and the winner gets through to the socket.  Module Connection*)
(* shows that a connection keeps this promise, module Server that its      *)
(* connections live no other lives: together they compose.                 *)
(***************************************************************************)
CONSTANT Conns

VARIABLE life   \* of each connection: "none", "open", "closing" or "closed"

Init == life = [c \in Conns |-> "none"]

Open(c) == life[c] = "none" /\ life' = [life EXCEPT ![c] = "open"]

BeginClose(c) == life[c] = "open" /\ life' = [life EXCEPT ![c] = "closing"]

EndClose(c) == life[c] = "closing" /\ life' = [life EXCEPT ![c] = "closed"]

Next == \E c \in Conns : Open(c) \/ BeginClose(c) \/ EndClose(c)

SafeSpec == Init /\ [][Next]_life

\* Nothing that the winner meets on its way to the socket blocks.
Spec == SafeSpec /\ \A c \in Conns : WF_life(EndClose(c))
===============================================================================
