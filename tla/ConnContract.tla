----------------------------- MODULE ConnContract -----------------------------
(***************************************************************************)
(* What network.Connection promises to a caller of Send and to the peer,   *)
(* without its goroutines, channels and flags: packets are numbered in the *)
(* order Send accepted them, leave in that order, each at most once, some  *)
(* may be lost, and nothing leaves after the connection is closed.         *)
(***************************************************************************)
EXTENDS Naturals, Sequences

CONSTANT Room   \* packets accepted but not yet out: the queue and the writer's hand

VARIABLES
  life,        \* "open", "closing" (Close has begun) or "closed" (socket closed)
  accepted,    \* number of packets for which Send returned nil
  pending,     \* their numbers, while they wait
  delivered    \* their numbers, in the order they were written to the socket

vars == <<life, accepted, pending, delivered>>

Init ==
  /\ life = "open"
  /\ accepted = 0
  /\ pending = <<>>
  /\ delivered = <<>>

\* A Send that began before the close may still be accepted after it.
Accept ==
  /\ Len(pending) < Room
  /\ accepted' = accepted + 1
  /\ pending' = Append(pending, accepted + 1)
  /\ UNCHANGED <<life, delivered>>

Deliver ==
  /\ life # "closed"
  /\ pending # <<>>
  /\ delivered' = Append(delivered, Head(pending))
  /\ pending' = Tail(pending)
  /\ UNCHANGED <<life, accepted>>

Lose ==
  /\ pending # <<>>
  /\ pending' = Tail(pending)
  /\ UNCHANGED <<life, accepted, delivered>>

BeginClose ==
  /\ life = "open"
  /\ life' = "closing"
  /\ UNCHANGED <<accepted, pending, delivered>>

EndClose ==
  /\ life = "closing"
  /\ life' = "closed"
  /\ UNCHANGED <<accepted, pending, delivered>>

Next == Accept \/ Deliver \/ Lose \/ BeginClose \/ EndClose

SafeSpec == Init /\ [][Next]_vars

\* A close that began completes.
Spec == SafeSpec /\ WF_vars(EndClose)

TypeOK ==
  /\ life \in {"open", "closing", "closed"}
  /\ accepted \in Nat
  /\ pending \in Seq(Nat)
  /\ delivered \in Seq(Nat)

Increasing(s) == \A i, j \in 1..Len(s) : i < j => s[i] < s[j]

(***************************************************************************)
(* Packets reach the socket in the order Send accepted them, none twice    *)
(* and none that Send refused (sendChan and writeLoop, network/conn.go).   *)
(***************************************************************************)
DeliveredInOrder ==
  /\ Increasing(delivered)
  /\ \A i \in 1..Len(delivered) : delivered[i] \in 1..accepted
===============================================================================
