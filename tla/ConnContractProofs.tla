-------------------------- MODULE ConnContractProofs --------------------------
(***************************************************************************)
(* The order of delivery follows from the contract alone, whatever         *)
(* implements it.                                                          *)
(***************************************************************************)
EXTENDS ConnContract, TLAPS

-------------------------------------------------------------------------------
(* Sequences of numbers. *)

\* A queue stays increasing when a greater number joins it.
LEMMA AppendIncreasing ==
  ASSUME NEW s \in Seq(Nat), Increasing(s),
         NEW n \in Nat, \A i \in 1..Len(s) : s[i] < n
  PROVE  Increasing(Append(s, n))
<1> SUFFICES ASSUME NEW i \in 1..Len(Append(s, n)), NEW j \in 1..Len(Append(s, n)), i < j
             PROVE  Append(s, n)[i] < Append(s, n)[j]
  BY DEF Increasing
<1>1. Len(Append(s, n)) = Len(s) + 1 /\ Len(s) \in Nat OBVIOUS
<1>2. i \in 1..Len(s) /\ Append(s, n)[i] = s[i] BY <1>1
<1>3. CASE j \in 1..Len(s)
  <2>1. Append(s, n)[j] = s[j] BY <1>3
  <2>2. QED BY <1>2, <1>3, <2>1 DEF Increasing
<1>4. CASE j = Len(s) + 1 BY <1>2, <1>4
<1>5. QED BY <1>1, <1>3, <1>4

\* What follows the head of an increasing queue is increasing, and greater.
LEMMA TailIncreasing ==
  ASSUME NEW s \in Seq(Nat), Increasing(s), s # <<>>
  PROVE  /\ Increasing(Tail(s))
         /\ \A i \in 1..Len(Tail(s)) : Head(s) < Tail(s)[i]
<1>1. Len(Tail(s)) = Len(s) - 1 /\ Len(s) \in Nat \ {0} OBVIOUS
<1>2. ASSUME NEW i \in 1..Len(Tail(s))
      PROVE  Tail(s)[i] = s[i + 1] /\ i + 1 \in 1..Len(s)
  BY <1>1
<1>3. ASSUME NEW i \in 1..Len(Tail(s)), NEW j \in 1..Len(Tail(s)), i < j
      PROVE  Tail(s)[i] < Tail(s)[j]
  <2>1. i + 1 \in 1..Len(s) /\ j + 1 \in 1..Len(s) BY <1>2
  <2>2. i + 1 < j + 1 BY <1>1, <1>3
  <2>3. s[i + 1] < s[j + 1] BY <2>1, <2>2 DEF Increasing
  <2>4. QED BY <1>2, <2>3
<1>4. ASSUME NEW i \in 1..Len(Tail(s)) PROVE Head(s) < Tail(s)[i]
  <2>1. 1 \in 1..Len(s) /\ 1 < i + 1 BY <1>1
  <2>2. s[1] < s[i + 1] BY <1>2, <2>1 DEF Increasing
  <2>3. QED BY <1>2, <2>2
<1>5. QED BY <1>3, <1>4 DEF Increasing

-------------------------------------------------------------------------------
\* All numbers of a sequence are numbers of accepted packets.
Numbered(s, n) == \A i \in 1..Len(s) : s[i] \in 1..n

LEMMA AppendNumbered ==
  ASSUME NEW s \in Seq(Nat), NEW m \in Nat, NEW n \in 1..m, Numbered(s, m)
  PROVE  Numbered(Append(s, n), m)
<1> SUFFICES ASSUME NEW i \in 1..Len(Append(s, n)) PROVE Append(s, n)[i] \in 1..m
  BY DEF Numbered
<1>1. CASE i \in 1..Len(s) BY <1>1 DEF Numbered
<1>2. CASE i = Len(s) + 1 BY <1>2
<1>3. QED BY <1>1, <1>2

LEMMA TailNumbered ==
  ASSUME NEW s \in Seq(Nat), NEW m \in Nat, s # <<>>, Numbered(s, m)
  PROVE  Head(s) \in 1..m /\ Numbered(Tail(s), m)
<1>1. Len(Tail(s)) = Len(s) - 1 /\ Len(s) \in Nat \ {0} OBVIOUS
<1>2. ASSUME NEW i \in 1..Len(Tail(s)) PROVE Tail(s)[i] \in 1..m
  <2>1. Tail(s)[i] = s[i + 1] /\ i + 1 \in 1..Len(s) BY <1>1
  <2>2. QED BY <2>1 DEF Numbered
<1>3. Head(s) \in 1..m
  <2>1. Head(s) = s[1] /\ 1 \in 1..Len(s) BY <1>1
  <2>2. QED BY <2>1 DEF Numbered
<1>4. QED BY <1>2, <1>3 DEF Numbered

\* Every number of s is smaller than every number of t.
Below(s, t) == \A i \in 1..Len(s), j \in 1..Len(t) : s[i] < t[j]

\* What is out or still waiting, read from the wire to the tail of the queue, was
\* numbered in that order.
Ordered ==
  /\ Increasing(delivered) /\ Increasing(pending)
  /\ Numbered(delivered, accepted) /\ Numbered(pending, accepted)
  /\ Below(delivered, pending)

LEMMA TypeStep == TypeOK /\ [Next]_vars => TypeOK'
<1> SUFFICES ASSUME TypeOK, [Next]_vars PROVE TypeOK'
  OBVIOUS
<1> USE DEF TypeOK
<1>1. CASE Accept BY <1>1 DEF Accept
<1>2. CASE Deliver
  <2>1. Head(pending) \in Nat /\ Tail(pending) \in Seq(Nat) BY <1>2 DEF Deliver
  <2>2. QED BY <1>2, <2>1 DEF Deliver
<1>3. CASE Lose BY <1>3 DEF Lose
<1>4. CASE BeginClose \/ EndClose BY <1>4 DEF BeginClose, EndClose
<1>5. CASE UNCHANGED vars BY <1>5 DEF vars
<1>6. QED BY <1>1, <1>2, <1>3, <1>4, <1>5 DEF Next

LEMMA OrderedStep == TypeOK /\ Ordered /\ [Next]_vars => Ordered'
<1> SUFFICES ASSUME TypeOK, Ordered, [Next]_vars PROVE Ordered'
  OBVIOUS
<1>a. /\ accepted \in Nat /\ pending \in Seq(Nat) /\ delivered \in Seq(Nat)
      /\ Len(pending) \in Nat /\ Len(delivered) \in Nat
  BY DEF TypeOK
<1>1. CASE Accept
  <2>1. \A i \in 1..Len(pending) : pending[i] < accepted + 1
    BY <1>a DEF Ordered, Numbered
  <2>2. Increasing(Append(pending, accepted + 1))
    BY <1>a, <2>1, AppendIncreasing DEF Ordered
  <2>3. Numbered(delivered, accepted + 1) /\ Numbered(pending, accepted + 1)
    BY <1>a DEF Ordered, Numbered
  <2>4. Numbered(Append(pending, accepted + 1), accepted + 1)
    BY <1>a, <2>3, AppendNumbered
  <2>5. ASSUME NEW i \in 1..Len(delivered), NEW j \in 1..Len(Append(pending, accepted + 1))
        PROVE  delivered[i] < Append(pending, accepted + 1)[j]
    <3>1. CASE j \in 1..Len(pending) BY <1>a, <3>1 DEF Ordered, Below
    <3>2. CASE j = Len(pending) + 1
      <4>1. delivered[i] \in 1..accepted BY DEF Ordered, Numbered
      <4>2. QED BY <1>a, <3>2, <4>1
    <3>3. QED BY <1>a, <3>1, <3>2
  <2>6. Below(delivered, Append(pending, accepted + 1)) BY <2>5 DEF Below
  <2>7. QED BY <1>1, <2>2, <2>3, <2>4, <2>6 DEF Accept, Ordered
<1>2. CASE Deliver
  <2>1. pending # <<>> /\ Head(pending) \in Nat BY <1>a, <1>2 DEF Deliver
  <2>2. Head(pending) = pending[1] /\ 1 \in 1..Len(pending) BY <1>a, <2>1
  <2>3. \A i \in 1..Len(delivered) : delivered[i] < Head(pending)
    BY <2>2 DEF Ordered, Below
  <2>4. Increasing(Append(delivered, Head(pending)))
    BY <1>a, <2>1, <2>3, AppendIncreasing DEF Ordered
  <2>5. /\ Increasing(Tail(pending))
        /\ \A j \in 1..Len(Tail(pending)) : Head(pending) < Tail(pending)[j]
    BY <1>a, <2>1, TailIncreasing DEF Ordered
  <2>6. Head(pending) \in 1..accepted /\ Numbered(Tail(pending), accepted)
    BY <1>a, <2>1, TailNumbered DEF Ordered
  <2>7. Numbered(Append(delivered, Head(pending)), accepted)
    BY <1>a, <2>6, AppendNumbered DEF Ordered
  <2>8. ASSUME NEW i \in 1..Len(Append(delivered, Head(pending))),
               NEW j \in 1..Len(Tail(pending))
        PROVE  Append(delivered, Head(pending))[i] < Tail(pending)[j]
    <3>1. Tail(pending)[j] = pending[j + 1] /\ j + 1 \in 1..Len(pending)
      BY <1>a, <2>1
    <3>2. CASE i \in 1..Len(delivered) BY <1>a, <3>1, <3>2 DEF Ordered, Below
    <3>3. CASE i = Len(delivered) + 1 BY <1>a, <2>1, <2>5, <3>3
    <3>4. QED BY <1>a, <2>1, <3>2, <3>3
  <2>9. Below(Append(delivered, Head(pending)), Tail(pending)) BY <2>8 DEF Below
  <2>10. QED BY <1>2, <2>4, <2>5, <2>6, <2>7, <2>9 DEF Deliver, Ordered
<1>3. CASE Lose
  <2>1. pending # <<>> BY <1>3 DEF Lose
  <2>2. Increasing(Tail(pending)) BY <1>a, <2>1, TailIncreasing DEF Ordered
  <2>3. Numbered(Tail(pending), accepted) BY <1>a, <2>1, TailNumbered DEF Ordered
  <2>4. ASSUME NEW i \in 1..Len(delivered), NEW j \in 1..Len(Tail(pending))
        PROVE  delivered[i] < Tail(pending)[j]
    <3>1. Tail(pending)[j] = pending[j + 1] /\ j + 1 \in 1..Len(pending)
      BY <1>a, <2>1
    <3>2. QED BY <3>1 DEF Ordered, Below
  <2>5. Below(delivered, Tail(pending)) BY <2>4 DEF Below
  <2>6. QED BY <1>3, <2>2, <2>3, <2>5 DEF Lose, Ordered
<1>4. CASE BeginClose \/ EndClose
  BY <1>4 DEF BeginClose, EndClose, Ordered
<1>5. CASE UNCHANGED vars BY <1>5 DEF vars, Ordered
<1>6. QED BY <1>1, <1>2, <1>3, <1>4, <1>5 DEF Next

(***************************************************************************)
(* Under the contract packets are delivered in the order of acceptance,    *)
(* none twice, none that was refused (sendChan, writeLoop, network/conn.go)*)
(***************************************************************************)
THEOREM InOrder == SafeSpec => []DeliveredInOrder
<1>1. Init => TypeOK BY DEF Init, TypeOK
<1>2. Init => Ordered BY DEF Init, Ordered, Increasing, Numbered, Below
<1>3. Ordered => DeliveredInOrder BY DEF Ordered, Numbered, DeliveredInOrder
<1>4. QED BY <1>1, <1>2, <1>3, TypeStep, OrderedStep, PTL DEF SafeSpec
===============================================================================
