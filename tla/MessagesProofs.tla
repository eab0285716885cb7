----------------------------- MODULE MessagesProofs -----------------------------
(***************************************************************************)
(* What holds of the way of a packet for any number of connections,        *)
(* requests and broadcasts, any queue and any bucket.                      *)
(***************************************************************************)
EXTENDS Messages, FiniteSetTheorems, TLAPS

-------------------------------------------------------------------------------
(* The inductive invariant. *)

\* A packet waits on a connection or is in Encode's hands there.
Queued(p, c) == \E i \in 1..Len(sendChan[c]) : sendChan[c][i] = p
InHand(p, c) == hand[c] # <<>> /\ hand[c][1] = p
Written(p, c) == \E i \in 1..Len(wire[c]) : wire[c][i].packet = p

\* A reply knows one connection only, and is nowhere before its Send has queued it.
Maker(r) ==
  /\ \A c, d \in origin[r] : c = d
  /\ stage[r] = "new" => origin[r] = {} /\ todo[r] = {}
  /\ todo[r] \subseteq origin[r] /\ target[r] \subseteq todo[r]
  /\ \A c \in Conns : Queued(r, c) \/ InHand(r, c) \/ Written(r, c) =>
       c \in origin[r] /\ stage[r] = "done"

\* A reply is in one place of the connection's line only: the wire, the hand, the queue.
Place(r, c) ==
  /\ \A i, k \in 1..Len(sendChan[c]) : sendChan[c][i] = r /\ sendChan[c][k] = r => i = k
  /\ \A i, k \in 1..Len(wire[c]) : wire[c][i].packet = r /\ wire[c][k].packet = r => i = k
  /\ ~(Queued(r, c) /\ InHand(r, c))
  /\ Written(r, c) => ~Queued(r, c) /\ ~InHand(r, c)

\* The reply in Encode's hands has the codec's last number; those written have smaller ones.
Number(r, c) ==
  /\ InHand(r, c) => seqId[r] = codecSeq[c]
  /\ \A i \in 1..Len(wire[c]) : wire[c][i].packet = r =>
       wire[c][i].no <= codecSeq[c] /\ (hand[c] # <<>> => wire[c][i].no < codecSeq[c])

MakerInv == \A r \in Requests : Maker(r)
PlaceInv == \A r \in Requests, c \in Conns : Place(r, c)
NumberInv == \A r \in Requests, c \in Conns : Number(r, c)

IInv == TypeOK /\ MakerInv /\ PlaceInv /\ NumberInv /\ RepliesNumbered

USE MessagesAssumption

-------------------------------------------------------------------------------
(* Sequences. *)

LEMMA AppendIndex ==
  ASSUME NEW S, NEW s \in Seq(S), NEW e \in S
  PROVE  /\ Append(s, e) \in Seq(S) /\ Len(Append(s, e)) = Len(s) + 1 /\ Len(s) \in Nat
         /\ \A i \in 1..Len(s) : Append(s, e)[i] = s[i]
         /\ Append(s, e)[Len(s) + 1] = e
         /\ \A i \in 1..Len(Append(s, e)) : i \in 1..Len(s) \/ i = Len(s) + 1
OBVIOUS

LEMMA Element ==
  ASSUME NEW S, NEW s \in Seq(S), NEW i \in 1..Len(s)
  PROVE  s[i] \in S
OBVIOUS

LEMMA TailIndex ==
  ASSUME NEW S, NEW s \in Seq(S), s # <<>>
  PROVE  /\ Tail(s) \in Seq(S) /\ Len(Tail(s)) = Len(s) - 1 /\ Len(s) \in Nat \ {0}
         /\ \A i \in 1..Len(Tail(s)) : i + 1 \in 1..Len(s) /\ Tail(s)[i] = s[i + 1]
         /\ Head(s) = s[1] /\ Head(s) \in S /\ 1 \in 1..Len(s)
OBVIOUS

-------------------------------------------------------------------------------
(* Which steps touch the line of a connection. *)

LineVars == <<codecSeq, sendChan, hand, wire>>

\* A maker's step that queues nothing.
Offline ==
  \/ \E r \in Requests, c \in Conns : Receive(r, c)
  \/ \E r \in Requests, cmd \in {"request", "push"}, content \in Contents, h \in Handlers :
       Respond(r, cmd, content, h)
  \/ \E b \in Broadcasts, open \in SUBSET Conns : Broadcast(b, open)
  \/ \E p \in Packets, c \in Conns : SendRefused(p, c) \/ SendNumber(p, c) \/ PutRefused(p, c)
  \/ Refill

LEMMA Steps ==
  ASSUME [Next]_vars
  PROVE  \/ Offline
         \/ \E p \in Packets, c \in Conns : Put(p, c)
         \/ \E c \in Conns : EncodeBegin(c) \/ EncodeEnd(c) \/ EncodeFails(c)
         \/ UNCHANGED vars
BY DEF Next, SendNext, WriteNext, Offline

LEMMA OfflineLine == Offline => UNCHANGED LineVars
<1>1. ASSUME NEW r \in Requests, NEW c \in Conns, Receive(r, c) PROVE UNCHANGED LineVars
  BY <1>1 DEF Receive, queueVars, LineVars
<1>2. ASSUME NEW r \in Requests, NEW cmd, NEW content, NEW h, Respond(r, cmd, content, h)
      PROVE  UNCHANGED LineVars
  BY <1>2 DEF Respond, queueVars, LineVars
<1>3. ASSUME NEW b, NEW open, Broadcast(b, open) PROVE UNCHANGED LineVars
  BY <1>3 DEF Broadcast, queueVars, LineVars
<1>4. ASSUME NEW p, NEW c, SendRefused(p, c) \/ SendNumber(p, c) \/ PutRefused(p, c)
      PROVE  UNCHANGED LineVars
  BY <1>4 DEF SendRefused, SendNumber, PutRefused, queueVars, LineVars
<1>5. CASE Refill BY <1>5 DEF Refill, queueVars, LineVars
<1>6. QED BY <1>1, <1>2, <1>3, <1>4, <1>5 DEF Offline

LEMMA PutEffect ==
  ASSUME TypeOK, NEW p \in Packets, NEW c \in Conns, Put(p, c), NEW q, NEW d \in Conns
  PROVE  /\ Queued(q, d)' <=> Queued(q, d) \/ (q = p /\ d = c)
         /\ InHand(q, d)' <=> InHand(q, d)
         /\ Written(q, d)' <=> Written(q, d)
<1>1. /\ UNCHANGED <<hand, wire>>
      /\ sendChan' = [sendChan EXCEPT ![c] = Append(sendChan[c], p)]
      /\ sendChan \in [Conns -> Seq(Packets)]
  BY DEF Put, TypeOK
<1>2. CASE d = c
  <2>1. sendChan'[c] = Append(sendChan[c], p) /\ sendChan[c] \in Seq(Packets) BY <1>1
  <2>2. Queued(q, c)' <=> Queued(q, c) \/ q = p
    <3>1. Len(sendChan'[c]) = Len(sendChan[c]) + 1 /\ Len(sendChan[c]) \in Nat
          /\ sendChan'[c][Len(sendChan[c]) + 1] = p
          /\ \A i \in 1..Len(sendChan[c]) : sendChan'[c][i] = sendChan[c][i]
      BY <2>1, AppendIndex
    <3>2. QED BY <3>1 DEF Queued
  <2>3. QED BY <1>1, <1>2, <2>2 DEF InHand, Written
<1>3. CASE d # c
  <2>1. sendChan'[d] = sendChan[d] BY <1>1, <1>3
  <2>2. QED BY <1>1, <1>3, <2>1 DEF Queued, InHand, Written
<1>4. QED BY <1>2, <1>3

LEMMA BeginEffect ==
  ASSUME TypeOK, NEW c \in Conns, EncodeBegin(c), NEW q, NEW d \in Conns
  PROVE  /\ Queued(q, d)' => Queued(q, d)
         /\ InHand(q, d)' <=> IF d = c THEN q = Head(sendChan[c]) ELSE InHand(q, d)
         /\ Written(q, d)' <=> Written(q, d)
         /\ Queued(Head(sendChan[c]), c)
<1>1. /\ UNCHANGED wire /\ sendChan[c] # <<>>
      /\ sendChan' = [sendChan EXCEPT ![c] = Tail(sendChan[c])]
      /\ hand' = [hand EXCEPT ![c] = <<Head(sendChan[c])>>]
      /\ sendChan \in [Conns -> Seq(Packets)] /\ hand \in [Conns -> Seq(Packets)]
  BY DEF EncodeBegin, TypeOK
<1>2. Queued(Head(sendChan[c]), c) BY <1>1, TailIndex DEF Queued
<1>3. CASE d = c
  <2>1. sendChan'[c] = Tail(sendChan[c]) /\ hand'[c] = <<Head(sendChan[c])>> BY <1>1
  <2>2. Queued(q, c)' => Queued(q, c)
    <3>1. sendChan[c] \in Seq(Packets) BY <1>1
    <3>2. \A i \in 1..Len(Tail(sendChan[c])) :
            i + 1 \in 1..Len(sendChan[c]) /\ Tail(sendChan[c])[i] = sendChan[c][i + 1]
      BY <1>1, <3>1, TailIndex
    <3>3. QED BY <2>1, <3>2 DEF Queued
  <2>3. InHand(q, c)' <=> q = Head(sendChan[c]) BY <2>1 DEF InHand
  <2>4. QED BY <1>1, <1>2, <1>3, <2>2, <2>3 DEF Written
<1>4. CASE d # c
  <2>1. sendChan'[d] = sendChan[d] /\ hand'[d] = hand[d] BY <1>1, <1>4
  <2>2. QED BY <1>1, <1>2, <1>4, <2>1 DEF Queued, InHand, Written
<1>5. QED BY <1>3, <1>4

LEMMA EndEffect ==
  ASSUME TypeOK, NEW c \in Conns, EncodeEnd(c), NEW q, NEW d \in Conns
  PROVE  /\ Queued(q, d)' <=> Queued(q, d)
         /\ InHand(q, d)' <=> d # c /\ InHand(q, d)
         /\ Written(q, d)' <=> Written(q, d) \/ (d = c /\ q = hand[c][1])
<1> DEFINE e == [packet |-> hand[c][1], no |-> seqId[hand[c][1]]]
<1>1. /\ UNCHANGED sendChan /\ hand[c] # <<>>
      /\ wire' = [wire EXCEPT ![c] = Append(wire[c], e)]
      /\ hand' = [hand EXCEPT ![c] = <<>>]
      /\ hand \in [Conns -> Seq(Packets)]
      /\ wire \in [Conns -> Seq([packet : Packets, no : Nat])]
  BY DEF EncodeEnd, TypeOK
<1>2. e \in [packet : Packets, no : Nat] /\ e.packet = hand[c][1]
  <2>1. hand[c][1] \in Packets BY <1>1
  <2>2. QED BY <2>1 DEF TypeOK
<1> HIDE DEF e
<1>3. CASE d = c
  <2>1. wire'[c] = Append(wire[c], e) /\ hand'[c] = <<>> BY <1>1
  <2>2. Len(wire'[c]) = Len(wire[c]) + 1 /\ Len(wire[c]) \in Nat
        /\ wire'[c][Len(wire[c]) + 1] = e
        /\ \A i \in 1..Len(wire[c]) : wire'[c][i] = wire[c][i]
    BY <1>1, <1>2, <2>1, AppendIndex
  <2>a. wire'[c][Len(wire[c]) + 1].packet = hand[c][1] BY <1>2, <2>2
  <2>b. ASSUME Written(q, c) PROVE Written(q, c)'
    <3>1. PICK i \in 1..Len(wire[c]) : wire[c][i].packet = q BY <2>b DEF Written
    <3>2. i \in 1..Len(wire'[c]) /\ wire'[c][i].packet = q BY <2>2, <3>1
    <3>3. QED BY <3>2 DEF Written
  <2>c. ASSUME q = hand[c][1] PROVE Written(q, c)' BY <2>2, <2>a, <2>c DEF Written
  <2>d. ASSUME Written(q, c)' PROVE Written(q, c) \/ q = hand[c][1]
    <3>1. PICK i \in 1..Len(wire'[c]) : wire'[c][i].packet = q BY <2>d DEF Written
    <3>2. CASE i = Len(wire[c]) + 1 BY <2>a, <3>1, <3>2
    <3>3. CASE i \in 1..Len(wire[c])
      <4>1. wire[c][i].packet = q BY <2>2, <3>1, <3>3
      <4>2. QED BY <3>3, <4>1 DEF Written
    <3>4. QED BY <2>2, <3>1, <3>2, <3>3
  <2>3. Written(q, c)' <=> Written(q, c) \/ q = hand[c][1] BY <2>b, <2>c, <2>d
  <2>4. ~InHand(q, c)' BY <2>1 DEF InHand
  <2>5. QED BY <1>1, <1>3, <2>3, <2>4 DEF Queued
<1>4. CASE d # c
  <2>1. wire'[d] = wire[d] /\ hand'[d] = hand[d] BY <1>1, <1>4
  <2>2. QED BY <1>1, <1>4, <2>1 DEF Queued, InHand, Written
<1>5. QED BY <1>3, <1>4

LEMMA FailEffect ==
  ASSUME TypeOK, NEW c \in Conns, EncodeFails(c), NEW q, NEW d \in Conns
  PROVE  /\ Queued(q, d)' <=> Queued(q, d)
         /\ InHand(q, d)' <=> d # c /\ InHand(q, d)
         /\ Written(q, d)' <=> Written(q, d)
BY DEF TypeOK, EncodeFails, Queued, InHand, Written

LEMMA SameLine ==
  ASSUME UNCHANGED LineVars, NEW q, NEW d
  PROVE  /\ Queued(q, d)' <=> Queued(q, d)
         /\ InHand(q, d)' <=> InHand(q, d)
         /\ Written(q, d)' <=> Written(q, d)
BY DEF LineVars, Queued, InHand, Written

-------------------------------------------------------------------------------
(***************************************************************************)
(* Types.                                                                  *)
(***************************************************************************)
LEMMA TypeStep == TypeOK /\ [Next]_vars => TypeOK'
<1> SUFFICES ASSUME TypeOK, [Next]_vars PROVE TypeOK'
  OBVIOUS
<1> USE DEF makerVars, queueVars, bucketVars
<1>1. CASE Offline
  <2>1. ASSUME NEW r \in Requests, NEW c \in Conns, Receive(r, c) PROVE TypeOK'
    BY <2>1 DEF TypeOK, Receive, Packets
  <2>2. ASSUME NEW r \in Requests, NEW cmd, NEW content, NEW h, Respond(r, cmd, content, h)
        PROVE  TypeOK'
    <3>1. /\ \/ todo' = todo
             \/ todo' = [todo EXCEPT ![r] = origin[r]]
          /\ \/ stage' = [stage EXCEPT ![r] = "send"]
             \/ stage' = [stage EXCEPT ![r] = "done"]
          /\ UNCHANGED <<origin, target, seqId, messageSeq, queueVars, bucketVars>>
      BY <2>2 DEF Respond
    <3>2. QED BY <3>1 DEF TypeOK
  <2>3. ASSUME NEW b \in Broadcasts, NEW open \in SUBSET Conns, Broadcast(b, open)
        PROVE  TypeOK'
    BY <2>3 DEF TypeOK, Broadcast
  <2>4. ASSUME NEW p \in Packets, NEW c \in Conns, SendRefused(p, c) \/ PutRefused(p, c)
        PROVE  TypeOK'
    <3>1. Sent(p, c) /\ UNCHANGED <<seqId, messageSeq, queueVars, bucketVars>>
      BY <2>4 DEF SendRefused, PutRefused
    <3>2. /\ todo' \in [Packets -> SUBSET Conns] /\ target' \in [Packets -> SUBSET Conns]
          /\ stage' \in [Packets -> {"new", "handle", "send", "put", "done"}]
          /\ UNCHANGED origin
      BY <3>1 DEF TypeOK, Sent
    <3>3. QED BY <3>1, <3>2 DEF TypeOK
  <2>5. ASSUME NEW p \in Packets, NEW c \in Conns, SendNumber(p, c) PROVE TypeOK'
    <3>1. messageSeq' \in [Conns -> Nat] /\ seqId' \in [Packets -> Nat]
      BY <2>5 DEF TypeOK, SendNumber
    <3>2. tokens' \in 0..Burst BY <2>5 DEF TypeOK, SendNumber, Allow
    <3>3. stage' \in [Packets -> {"new", "handle", "send", "put", "done"}]
          /\ target' \in [Packets -> SUBSET Conns]
      BY <2>5 DEF TypeOK, SendNumber
    <3>4. UNCHANGED <<origin, todo, queueVars, refills>> BY <2>5 DEF SendNumber, Allow
    <3>5. QED BY <3>1, <3>2, <3>3, <3>4 DEF TypeOK
  <2>6. CASE Refill
    <3>1. tokens' \in 0..Burst /\ refills' \in 0..MaxRefills BY <2>6 DEF TypeOK, Refill
    <3>2. QED BY <2>6, <3>1 DEF TypeOK, Refill
  <2>7. QED BY <1>1, <2>1, <2>2, <2>3, <2>4, <2>5, <2>6 DEF Offline
<1>2. ASSUME NEW p \in Packets, NEW c \in Conns, Put(p, c) PROVE TypeOK'
  <2>1. sendChan[c] \in Seq(Packets) /\ Len(sendChan[c]) < QueueCap BY <1>2 DEF TypeOK, Put
  <2>2. Append(sendChan[c], p) \in Seq(Packets) /\ Len(Append(sendChan[c], p)) <= QueueCap
    BY <2>1, AppendIndex
  <2>3. sendChan' = [sendChan EXCEPT ![c] = Append(sendChan[c], p)] BY <1>2 DEF Put
  <2>4. /\ sendChan' \in [Conns -> Seq(Packets)]
        /\ \A d \in Conns : Len(sendChan'[d]) <= QueueCap
    BY <2>2, <2>3 DEF TypeOK
  <2>5. QED BY <1>2, <2>4 DEF TypeOK, Put, Sent
<1>3. ASSUME NEW c \in Conns, EncodeBegin(c) PROVE TypeOK'
  <2>1. sendChan[c] \in Seq(Packets) /\ sendChan[c] # <<>> /\ Len(sendChan[c]) <= QueueCap
    BY <1>3 DEF TypeOK, EncodeBegin
  <2>2. /\ Tail(sendChan[c]) \in Seq(Packets) /\ Len(Tail(sendChan[c])) <= QueueCap
        /\ Head(sendChan[c]) \in Packets
    BY <2>1, TailIndex
  <2>3. sendChan' = [sendChan EXCEPT ![c] = Tail(sendChan[c])]
        /\ hand' = [hand EXCEPT ![c] = <<Head(sendChan[c])>>]
    BY <1>3 DEF EncodeBegin
  <2>4. /\ sendChan' \in [Conns -> Seq(Packets)] /\ hand' \in [Conns -> Seq(Packets)]
        /\ \A d \in Conns : Len(sendChan'[d]) <= QueueCap /\ Len(hand'[d]) <= 1
    BY <2>2, <2>3 DEF TypeOK
  <2>5. codecSeq' \in [Conns -> Nat] /\ seqId' \in [Packets -> Nat]
    BY <1>3 DEF EncodeBegin, TypeOK
  <2>6. UNCHANGED <<makerVars, messageSeq, wire, bucketVars>> BY <1>3 DEF EncodeBegin
  <2>7. QED BY <2>4, <2>5, <2>6 DEF TypeOK
<1>4. ASSUME NEW c \in Conns, EncodeEnd(c) PROVE TypeOK'
  <2>1. hand[c][1] \in Packets BY <1>4 DEF TypeOK, EncodeEnd
  <2>2. [packet |-> hand[c][1], no |-> seqId[hand[c][1]]] \in [packet : Packets, no : Nat]
    BY <2>1 DEF TypeOK
  <2>a. wire' = [wire EXCEPT ![c] =
                   Append(wire[c], [packet |-> hand[c][1], no |-> seqId[hand[c][1]]])]
    BY <1>4 DEF EncodeEnd
  <2>b. wire[c] \in Seq([packet : Packets, no : Nat]) BY DEF TypeOK
  <2>c. Append(wire[c], [packet |-> hand[c][1], no |-> seqId[hand[c][1]]])
          \in Seq([packet : Packets, no : Nat])
    BY ONLY <2>2, <2>b, AppendIndex
  <2>3. wire' \in [Conns -> Seq([packet : Packets, no : Nat])] BY <2>a, <2>c DEF TypeOK
  <2>4. hand' \in [Conns -> Seq(Packets)] /\ \A d \in Conns : Len(hand'[d]) <= 1
    BY <1>4 DEF TypeOK, EncodeEnd
  <2>5. UNCHANGED <<makerVars, seqId, messageSeq, codecSeq, sendChan, bucketVars>>
    BY <1>4 DEF EncodeEnd
  <2>6. QED BY <2>3, <2>4, <2>5 DEF TypeOK
<1>5. ASSUME NEW c \in Conns, EncodeFails(c) PROVE TypeOK'
  <2>1. hand' \in [Conns -> Seq(Packets)] /\ \A d \in Conns : Len(hand'[d]) <= 1
    BY <1>5 DEF TypeOK, EncodeFails
  <2>2. QED BY <1>5, <2>1 DEF TypeOK, EncodeFails
<1>6. CASE UNCHANGED vars BY <1>6 DEF TypeOK, vars
<1>7. QED BY <1>1, <1>2, <1>3, <1>4, <1>5, <1>6, Steps

(***************************************************************************)
(* The maker of a reply.                                                   *)
(***************************************************************************)
LEMMA MakerStep == TypeOK /\ MakerInv /\ [Next]_vars => MakerInv'
<1> SUFFICES ASSUME TypeOK, MakerInv, [Next]_vars, NEW r \in Requests PROVE Maker(r)'
  BY DEF MakerInv
<1>a. Maker(r) /\ r \in Packets BY DEF MakerInv, Packets
<1>b. /\ stage \in [Packets -> {"new", "handle", "send", "put", "done"}]
      /\ todo \in [Packets -> SUBSET Conns] /\ target \in [Packets -> SUBSET Conns]
      /\ origin \in [Requests -> SUBSET Conns]
  BY DEF TypeOK
<1>c. ASSUME UNCHANGED <<stage[r], todo[r], target[r], origin[r]>>,
             \A d \in Conns : Queued(r, d)' \/ InHand(r, d)' \/ Written(r, d)' =>
               Queued(r, d) \/ InHand(r, d) \/ Written(r, d)
      PROVE  Maker(r)'
  BY <1>a, <1>c DEF Maker
<1>1. CASE Offline
  <2>a. \A d \in Conns : /\ Queued(r, d)' <=> Queued(r, d)
                         /\ InHand(r, d)' <=> InHand(r, d)
                         /\ Written(r, d)' <=> Written(r, d)
    BY <1>1, OfflineLine, SameLine
  <2>b. ASSUME stage[r] # "done", origin'[r] = origin[r], stage'[r] # "new",
               todo'[r] \subseteq origin[r], target'[r] \subseteq todo'[r]
        PROVE  Maker(r)'
    BY <1>a, <2>a, <2>b DEF Maker
  <2>1. ASSUME NEW q \in Requests, NEW c \in Conns, Receive(q, c) PROVE Maker(r)'
    <3>1. CASE q = r
      <4>1. /\ stage[r] = "new" /\ origin'[r] = {c} /\ stage'[r] = "handle"
            /\ UNCHANGED <<todo, target>>
        BY <1>a, <1>b, <2>1, <3>1 DEF Receive
      <4>2. QED BY <1>a, <2>a, <4>1 DEF Maker
    <3>2. CASE q # r BY <1>a, <1>b, <1>c, <2>1, <2>a, <3>2 DEF Receive
    <3>3. QED BY <3>1, <3>2
  <2>2. ASSUME NEW q \in Requests, NEW cmd, NEW content, NEW h, Respond(q, cmd, content, h)
        PROVE  Maker(r)'
    <3>1. CASE q = r
      <4>1. /\ stage[r] = "handle" /\ stage'[r] \in {"send", "done"}
            /\ todo'[r] \in {todo[r], origin[r]} /\ UNCHANGED <<origin, target>>
        BY <1>a, <1>b, <2>2, <3>1 DEF Respond
      <4>2. QED BY <1>a, <2>b, <4>1 DEF Maker
    <3>2. CASE q # r BY <1>a, <1>b, <1>c, <2>2, <2>a, <3>2 DEF Respond
    <3>3. QED BY <3>1, <3>2
  <2>3. ASSUME NEW b \in Broadcasts, NEW open, Broadcast(b, open) PROVE Maker(r)'
    BY <1>a, <1>b, <1>c, <2>3, <2>a DEF Broadcast
  <2>4. ASSUME NEW p \in Packets, NEW c \in Conns, SendRefused(p, c) \/ PutRefused(p, c)
        PROVE  Maker(r)'
    <3>1. CASE p = r
      <4>1. /\ stage[r] # "done" /\ stage'[r] # "new" /\ todo'[r] = todo[r] \ {c}
            /\ target'[r] = {} /\ UNCHANGED origin
        BY <1>a, <1>b, <2>4, <3>1 DEF SendRefused, PutRefused, Sent
      <4>2. QED BY <1>a, <2>b, <4>1 DEF Maker
    <3>2. CASE p # r
      BY <1>a, <1>b, <1>c, <2>4, <2>a, <3>2 DEF SendRefused, PutRefused, Sent
    <3>3. QED BY <3>1, <3>2
  <2>5. ASSUME NEW p \in Packets, NEW c \in Conns, SendNumber(p, c) PROVE Maker(r)'
    <3>1. CASE p = r
      <4>1. /\ stage[r] = "send" /\ stage'[r] = "put" /\ c \in todo[r]
            /\ target'[r] = {c} /\ UNCHANGED <<origin, todo>>
        BY <1>a, <1>b, <2>5, <3>1 DEF SendNumber
      <4>2. QED BY <1>a, <2>b, <4>1 DEF Maker
    <3>2. CASE p # r BY <1>a, <1>b, <1>c, <2>5, <2>a, <3>2 DEF SendNumber
    <3>3. QED BY <3>1, <3>2
  <2>6. CASE Refill BY <1>c, <2>6, <2>a DEF Refill, makerVars
  <2>7. QED BY <1>1, <2>1, <2>2, <2>3, <2>4, <2>5, <2>6 DEF Offline
<1>2. ASSUME NEW p \in Packets, NEW c \in Conns, Put(p, c) PROVE Maker(r)'
  <2>1. CASE p = r
    <3>1. /\ c \in target[r] /\ stage[r] = "put" /\ UNCHANGED origin
          /\ todo'[r] = todo[r] \ {c} /\ target'[r] = {}
          /\ stage'[r] = IF todo[r] = {c} THEN "done" ELSE "send"
      BY <1>a, <1>b, <1>2, <2>1 DEF Put, Sent
    <3>2. todo[r] = {c} /\ c \in origin[r] BY <1>a, <3>1 DEF Maker
    <3>3. \A d \in Conns : Queued(r, d)' \/ InHand(r, d)' \/ Written(r, d)' => d = c
      <4>1. \A d \in Conns : ~Queued(r, d) /\ ~InHand(r, d) /\ ~Written(r, d)
        BY <1>a, <3>1 DEF Maker
      <4>2. QED BY <1>2, <4>1, PutEffect
    <3>4. QED BY <1>a, <3>1, <3>2, <3>3 DEF Maker
  <2>2. CASE p # r
    <3>1. UNCHANGED <<stage[r], todo[r], target[r], origin[r]>>
      BY <1>a, <1>b, <1>2, <2>2 DEF Put, Sent
    <3>2. QED BY <1>2, <1>c, <2>2, <3>1, PutEffect
  <2>3. QED BY <2>1, <2>2
<1>3. ASSUME NEW c \in Conns, EncodeBegin(c) PROVE Maker(r)'
  <2>1. UNCHANGED <<stage[r], todo[r], target[r], origin[r]>>
    BY <1>3 DEF EncodeBegin, makerVars
  <2>2. QED BY <1>3, <1>c, <2>1, BeginEffect
<1>4. ASSUME NEW c \in Conns, EncodeEnd(c) PROVE Maker(r)'
  <2>1. UNCHANGED <<stage[r], todo[r], target[r], origin[r]>>
    BY <1>4 DEF EncodeEnd, makerVars
  <2>2. r = hand[c][1] => InHand(r, c) BY <1>4 DEF EncodeEnd, InHand
  <2>3. QED BY <1>4, <1>c, <2>1, <2>2, EndEffect
<1>5. ASSUME NEW c \in Conns, EncodeFails(c) PROVE Maker(r)'
  <2>1. UNCHANGED <<stage[r], todo[r], target[r], origin[r]>>
    BY <1>5 DEF EncodeFails, makerVars
  <2>2. QED BY <1>5, <1>c, <2>1, FailEffect
<1>6. CASE UNCHANGED vars
  <2>1. UNCHANGED LineVars BY <1>6 DEF vars, queueVars, LineVars
  <2>2. QED BY <1>6, <1>c, <2>1, SameLine DEF vars, makerVars
<1>7. QED BY <1>1, <1>2, <1>3, <1>4, <1>5, <1>6, Steps

-------------------------------------------------------------------------------
(***************************************************************************)
(* The place of a reply in the line of a connection.                       *)
(***************************************************************************)
LEMMA PlaceStep == TypeOK /\ MakerInv /\ PlaceInv /\ [Next]_vars => PlaceInv'
<1> SUFFICES ASSUME TypeOK, MakerInv, PlaceInv, [Next]_vars,
                    NEW r \in Requests, NEW d \in Conns
             PROVE  Place(r, d)'
  BY DEF PlaceInv
<1>a. Place(r, d) /\ Maker(r) /\ r \in Packets BY DEF PlaceInv, MakerInv, Packets
<1>b. /\ sendChan \in [Conns -> Seq(Packets)]
      /\ wire \in [Conns -> Seq([packet : Packets, no : Nat])]
      /\ stage \in [Packets -> {"new", "handle", "send", "put", "done"}]
  BY DEF TypeOK
<1>c. ASSUME UNCHANGED LineVars PROVE Place(r, d)'
  <2>1. /\ Queued(r, d)' <=> Queued(r, d)
        /\ InHand(r, d)' <=> InHand(r, d)
        /\ Written(r, d)' <=> Written(r, d)
    BY <1>c, SameLine
  <2>2. sendChan' = sendChan /\ wire' = wire BY <1>c DEF LineVars
  <2>3. QED BY <1>a, <2>1, <2>2 DEF Place
<1>1. CASE Offline BY <1>1, <1>c, OfflineLine
<1>2. ASSUME NEW p \in Packets, NEW c \in Conns, Put(p, c) PROVE Place(r, d)'
  <2>1. /\ Queued(r, d)' <=> Queued(r, d) \/ (r = p /\ d = c)
        /\ InHand(r, d)' <=> InHand(r, d)
        /\ Written(r, d)' <=> Written(r, d)
    BY <1>2, PutEffect
  <2>2. sendChan' = [sendChan EXCEPT ![c] = Append(sendChan[c], p)] /\ wire' = wire
    BY <1>2 DEF Put
  <2>3. r = p => ~Queued(r, d) /\ ~InHand(r, d) /\ ~Written(r, d)
    BY <1>2, <1>a DEF Put, Maker
  <2>4. \A i, k \in 1..Len(sendChan'[d]) : sendChan'[d][i] = r /\ sendChan'[d][k] = r => i = k
    <3>1. CASE d # c BY <1>a, <1>b, <2>2, <3>1 DEF Place
    <3>2. CASE d = c
      <4>1. sendChan'[c] = Append(sendChan[c], p) /\ sendChan[c] \in Seq(Packets)
        BY <1>b, <2>2
      <4>2. /\ \A i \in 1..Len(sendChan[c]) : sendChan'[c][i] = sendChan[c][i]
            /\ sendChan'[c][Len(sendChan[c]) + 1] = p
            /\ \A i \in 1..Len(sendChan'[c]) :
                 i \in 1..Len(sendChan[c]) \/ i = Len(sendChan[c]) + 1
        BY <4>1, AppendIndex
      <4>3. CASE r = p
        <5>1. \A i \in 1..Len(sendChan[c]) : sendChan[c][i] # r BY <2>3, <3>2, <4>3 DEF Queued
        <5>2. QED BY <3>2, <4>2, <5>1
      <4>4. CASE r # p BY <1>a, <3>2, <4>2, <4>4 DEF Place
      <4>5. QED BY <4>3, <4>4
    <3>3. QED BY <3>1, <3>2
  <2>5. QED BY <1>a, <2>1, <2>2, <2>3, <2>4 DEF Place
<1>3. ASSUME NEW c \in Conns, EncodeBegin(c) PROVE Place(r, d)'
  <2>1. /\ Queued(r, d)' => Queued(r, d)
        /\ InHand(r, d)' <=> IF d = c THEN r = Head(sendChan[c]) ELSE InHand(r, d)
        /\ Written(r, d)' <=> Written(r, d)
        /\ Queued(Head(sendChan[c]), c)
    BY <1>3, BeginEffect
  <2>2. /\ sendChan' = [sendChan EXCEPT ![c] = Tail(sendChan[c])] /\ wire' = wire
        /\ sendChan[c] # <<>>
    BY <1>3 DEF EncodeBegin
  <2>3. CASE d # c
    <3>1. sendChan'[d] = sendChan[d] BY <1>b, <2>2, <2>3
    <3>2. QED BY <1>a, <2>1, <2>2, <2>3, <3>1 DEF Place
  <2>4. CASE d = c
    <3>1. sendChan'[c] = Tail(sendChan[c]) /\ sendChan[c] \in Seq(Packets) BY <1>b, <2>2
    <3>2. /\ Len(sendChan[c]) \in Nat \ {0} /\ Head(sendChan[c]) = sendChan[c][1]
          /\ \A i \in 1..Len(sendChan'[c]) :
               i + 1 \in 1..Len(sendChan[c]) /\ sendChan'[c][i] = sendChan[c][i + 1]
          /\ 1 \in 1..Len(sendChan[c]) /\ Len(sendChan'[c]) \in Nat
      <4>1. /\ Len(Tail(sendChan[c])) = Len(sendChan[c]) - 1 /\ Len(sendChan[c]) \in Nat \ {0}
            /\ \A i \in 1..Len(Tail(sendChan[c])) :
                 i + 1 \in 1..Len(sendChan[c]) /\ Tail(sendChan[c])[i] = sendChan[c][i + 1]
            /\ Head(sendChan[c]) = sendChan[c][1] /\ 1 \in 1..Len(sendChan[c])
        BY ONLY <2>2, <3>1, TailIndex
      <4>2. QED BY <3>1, <4>1
    <3>3. ASSUME NEW i \in 1..Len(sendChan'[c]), NEW k \in 1..Len(sendChan'[c]),
                 sendChan'[c][i] = r, sendChan'[c][k] = r
          PROVE  i = k
      <4>1. i + 1 = k + 1 BY <1>a, <2>4, <3>2, <3>3 DEF Place
      <4>2. QED BY <3>2, <4>1
    <3>4. ASSUME r = Head(sendChan[c]) PROVE ~Queued(r, c)'
      <4>1. ASSUME NEW i \in 1..Len(sendChan'[c]), sendChan'[c][i] = r PROVE FALSE
        <5>1. i + 1 = 1 BY <1>a, <2>4, <3>2, <3>4, <4>1 DEF Place
        <5>2. QED BY <3>2, <5>1
      <4>2. QED BY <4>1 DEF Queued
    <3>5. QED BY <1>a, <2>1, <2>2, <2>4, <3>3, <3>4 DEF Place
  <2>5. QED BY <2>3, <2>4
<1>4. ASSUME NEW c \in Conns, EncodeEnd(c) PROVE Place(r, d)'
  <2>1. /\ Queued(r, d)' <=> Queued(r, d)
        /\ InHand(r, d)' <=> d # c /\ InHand(r, d)
        /\ Written(r, d)' <=> Written(r, d) \/ (d = c /\ r = hand[c][1])
    BY <1>4, EndEffect
  <2> DEFINE e == [packet |-> hand[c][1], no |-> seqId[hand[c][1]]]
  <2>2. /\ sendChan' = sendChan /\ wire' = [wire EXCEPT ![c] = Append(wire[c], e)]
        /\ hand[c] # <<>>
    BY <1>4 DEF EncodeEnd
  <2>3. e.packet = hand[c][1] /\ e \in [packet : Packets, no : Nat]
    BY <2>2 DEF TypeOK
  <2> HIDE DEF e
  <2>4. CASE d # c
    <3>1. wire'[d] = wire[d] BY <1>b, <2>2, <2>4
    <3>2. QED BY <1>a, <2>1, <2>2, <2>4, <3>1 DEF Place
  <2>5. CASE d = c
    <3>1. wire'[c] = Append(wire[c], e) /\ wire[c] \in Seq([packet : Packets, no : Nat])
      BY <1>b, <2>2
    <3>2. /\ \A i \in 1..Len(wire[c]) : wire'[c][i] = wire[c][i]
          /\ wire'[c][Len(wire[c]) + 1] = e
          /\ \A i \in 1..Len(wire'[c]) : i \in 1..Len(wire[c]) \/ i = Len(wire[c]) + 1
      BY <2>3, <3>1, AppendIndex
    <3>3. CASE r = hand[c][1]
      <4>1. InHand(r, c) BY <2>2, <3>3 DEF InHand
      <4>2. ~Queued(r, c) /\ ~Written(r, c) BY <1>a, <2>5, <4>1 DEF Place
      <4>3. \A i \in 1..Len(wire[c]) : wire[c][i].packet # r BY <4>2 DEF Written
      <4>4. \A i, k \in 1..Len(wire'[c]) :
              wire'[c][i].packet = r /\ wire'[c][k].packet = r => i = k
        BY <3>2, <4>3
      <4>5. QED BY <1>a, <2>1, <2>2, <2>5, <4>2, <4>4 DEF Place
    <3>4. CASE r # hand[c][1]
      <4>1. \A i, k \in 1..Len(wire'[c]) :
              wire'[c][i].packet = r /\ wire'[c][k].packet = r => i = k
        BY <1>a, <2>3, <2>5, <3>2, <3>4 DEF Place
      <4>2. QED BY <1>a, <2>1, <2>2, <2>5, <3>4, <4>1 DEF Place
    <3>5. QED BY <3>3, <3>4
  <2>6. QED BY <2>4, <2>5
<1>5. ASSUME NEW c \in Conns, EncodeFails(c) PROVE Place(r, d)'
  <2>1. /\ Queued(r, d)' <=> Queued(r, d)
        /\ InHand(r, d)' <=> d # c /\ InHand(r, d)
        /\ Written(r, d)' <=> Written(r, d)
    BY <1>5, FailEffect
  <2>2. sendChan' = sendChan /\ wire' = wire BY <1>5 DEF EncodeFails
  <2>3. QED BY <1>a, <2>1, <2>2 DEF Place
<1>6. CASE UNCHANGED vars BY <1>6, <1>c DEF vars, queueVars, LineVars
<1>7. QED BY <1>1, <1>2, <1>3, <1>4, <1>5, <1>6, Steps

(***************************************************************************)
(* The number of a reply.                                                  *)
(***************************************************************************)
LEMMA NumberStep == TypeOK /\ MakerInv /\ NumberInv /\ [Next]_vars => NumberInv'
<1> SUFFICES ASSUME TypeOK, MakerInv, NumberInv, [Next]_vars,
                    NEW r \in Requests, NEW d \in Conns
             PROVE  Number(r, d)'
  BY DEF NumberInv
<1>a. Number(r, d) /\ Maker(r) /\ r \in Packets BY DEF NumberInv, MakerInv, Packets
<1>b. /\ wire \in [Conns -> Seq([packet : Packets, no : Nat])]
      /\ seqId \in [Packets -> Nat] /\ codecSeq \in [Conns -> Nat]
      /\ hand \in [Conns -> Seq(Packets)]
      /\ stage \in [Packets -> {"new", "handle", "send", "put", "done"}]
  BY DEF TypeOK
<1>c. ASSUME UNCHANGED <<codecSeq[d], hand[d], wire[d]>>, InHand(r, d) => seqId'[r] = seqId[r]
      PROVE  Number(r, d)'
  BY <1>a, <1>c DEF Number, InHand
<1>1. CASE Offline
  <2>1. UNCHANGED <<codecSeq[d], hand[d], wire[d]>> BY <1>1, OfflineLine DEF LineVars
  <2>2. ASSUME NEW p \in Packets, NEW c \in Conns, SendNumber(p, c), InHand(r, d)
        PROVE  seqId'[r] = seqId[r]
    <3>1. stage[p] = "send" /\ stage[r] = "done" BY <1>a, <2>2 DEF SendNumber, Maker
    <3>2. p # r BY <3>1
    <3>3. QED BY <1>a, <1>b, <2>2, <3>2 DEF SendNumber
  <2>3. ASSUME InHand(r, d), seqId' # seqId PROVE seqId'[r] = seqId[r]
    <3>1. \E p \in Packets, c \in Conns : SendNumber(p, c)
      BY <1>1, <2>3
      DEF Offline, Receive, Respond, Broadcast, SendRefused, PutRefused, Refill
    <3>2. QED BY <2>2, <2>3, <3>1
  <2>4. QED BY <1>c, <2>1, <2>3
<1>2. ASSUME NEW p \in Packets, NEW c \in Conns, Put(p, c) PROVE Number(r, d)'
  BY <1>2, <1>c DEF Put
<1>3. ASSUME NEW c \in Conns, EncodeBegin(c) PROVE Number(r, d)'
  <2>1. /\ UNCHANGED wire /\ sendChan[c] # <<>>
        /\ hand' = [hand EXCEPT ![c] = <<Head(sendChan[c])>>]
        /\ codecSeq' = [codecSeq EXCEPT ![c] = codecSeq[c] + 1]
        /\ seqId' = [seqId EXCEPT ![Head(sendChan[c])] = codecSeq[c] + 1]
    BY <1>3 DEF EncodeBegin
  <2>2. CASE d # c
    <3>1. InHand(r, d) => r # Head(sendChan[c])
      <4>1. Queued(Head(sendChan[c]), c) BY <1>3, BeginEffect
      <4>2. QED BY <1>a, <2>2, <4>1 DEF Maker
    <3>2. UNCHANGED <<codecSeq[d], hand[d], wire[d]>> BY <1>b, <2>1, <2>2
    <3>3. QED BY <1>a, <1>b, <1>c, <2>1, <3>1, <3>2
  <2>3. CASE d = c
    <3>1. codecSeq'[c] = codecSeq[c] + 1 /\ codecSeq[c] \in Nat BY <1>b, <2>1
    <3>2. InHand(r, c)' => seqId'[r] = codecSeq'[c]
      <4>1. InHand(r, c)' => r = Head(sendChan[c]) BY <1>3, BeginEffect
      <4>2. QED BY <1>a, <1>b, <2>1, <3>1, <4>1
    <3>3. \A i \in 1..Len(wire[c]) : wire[c][i].no \in Nat
      <4>1. wire[c] \in Seq([packet : Packets, no : Nat]) BY <1>b
      <4>2. \A i \in 1..Len(wire[c]) : wire[c][i] \in [packet : Packets, no : Nat]
        BY ONLY <4>1, Element
      <4>3. QED BY <4>2
    <3>4. \A i \in 1..Len(wire[c]) : wire[c][i].packet = r =>
            wire[c][i].no <= codecSeq'[c] /\ wire[c][i].no < codecSeq'[c]
      <4>1. \A i \in 1..Len(wire[c]) : wire[c][i].packet = r => wire[c][i].no <= codecSeq[c]
        BY <1>a, <2>3 DEF Number
      <4>2. QED BY <3>1, <3>3, <4>1
    <3>5. QED BY <2>1, <2>3, <3>2, <3>4 DEF Number
  <2>4. QED BY <2>2, <2>3
<1>4. ASSUME NEW c \in Conns, EncodeEnd(c) PROVE Number(r, d)'
  <2> DEFINE e == [packet |-> hand[c][1], no |-> seqId[hand[c][1]]]
  <2>1. /\ UNCHANGED <<codecSeq, seqId>> /\ wire' = [wire EXCEPT ![c] = Append(wire[c], e)]
        /\ hand[c] # <<>> /\ hand' = [hand EXCEPT ![c] = <<>>]
    BY <1>4 DEF EncodeEnd
  <2>2. e.packet = hand[c][1] /\ e.no = seqId[hand[c][1]] /\ e \in [packet : Packets, no : Nat]
    BY <2>1 DEF TypeOK
  <2> HIDE DEF e
  <2>3. CASE d # c
    <3>1. UNCHANGED <<codecSeq[d], hand[d], wire[d]>> BY <1>b, <2>1, <2>3
    <3>2. QED BY <1>c, <2>1, <3>1
  <2>4. CASE d = c
    <3>1. wire'[c] = Append(wire[c], e) /\ wire[c] \in Seq([packet : Packets, no : Nat])
          /\ hand'[c] = <<>>
      BY <1>b, <2>1
    <3>2. /\ \A i \in 1..Len(wire[c]) : wire'[c][i] = wire[c][i]
          /\ wire'[c][Len(wire[c]) + 1] = e
          /\ \A i \in 1..Len(wire'[c]) : i \in 1..Len(wire[c]) \/ i = Len(wire[c]) + 1
      BY <2>2, <3>1, AppendIndex
    <3>3. e.packet = r => e.no <= codecSeq[c]
      <4>1. e.packet = r => InHand(r, c) BY <2>1, <2>2 DEF InHand
      <4>2. e.packet = r => e.no = codecSeq[c] BY <1>a, <2>2, <2>4, <4>1 DEF Number
      <4>3. codecSeq[c] \in Nat BY <1>b
      <4>4. QED BY <4>2, <4>3
    <3>4. \A i \in 1..Len(wire'[c]) : wire'[c][i].packet = r => wire'[c][i].no <= codecSeq[c]
      BY <1>a, <2>4, <3>2, <3>3 DEF Number
    <3>5. ~InHand(r, c)' BY <3>1 DEF InHand
    <3>6. QED BY <2>1, <2>4, <3>1, <3>4, <3>5 DEF Number
  <2>5. QED BY <2>3, <2>4
<1>5. ASSUME NEW c \in Conns, EncodeFails(c) PROVE Number(r, d)'
  <2>1. /\ UNCHANGED <<codecSeq, seqId, wire>> /\ hand' = [hand EXCEPT ![c] = <<>>]
    BY <1>5 DEF EncodeFails
  <2>2. CASE d # c BY <1>b, <1>c, <2>1, <2>2
  <2>3. CASE d = c BY <1>a, <1>b, <2>1, <2>3 DEF Number, InHand
  <2>4. QED BY <2>2, <2>3
<1>6. CASE UNCHANGED vars BY <1>6, <1>c DEF vars, queueVars
<1>7. QED BY <1>1, <1>2, <1>3, <1>4, <1>5, <1>6, Steps

(***************************************************************************)
(* The numbers of the replies.                                             *)
(***************************************************************************)
LEMMA RepliesStep == IInv /\ [Next]_vars => RepliesNumbered'
<1> SUFFICES ASSUME TypeOK, NumberInv, RepliesNumbered, [Next]_vars PROVE RepliesNumbered'
  BY DEF IInv
<1>1. CASE UNCHANGED wire BY <1>1 DEF RepliesNumbered
<1>2. ASSUME NEW c \in Conns, EncodeEnd(c) PROVE RepliesNumbered'
  <2> DEFINE e == [packet |-> hand[c][1], no |-> seqId[hand[c][1]]]
  <2>1. /\ wire' = [wire EXCEPT ![c] = Append(wire[c], e)] /\ hand[c] # <<>>
        /\ wire \in [Conns -> Seq([packet : Packets, no : Nat])]
    BY <1>2 DEF EncodeEnd, TypeOK
  <2>2. e.packet = hand[c][1] /\ e.no = seqId[hand[c][1]] /\ e \in [packet : Packets, no : Nat]
    BY <2>1 DEF TypeOK
  <2> HIDE DEF e
  <2>3. wire'[c] = Append(wire[c], e) /\ wire[c] \in Seq([packet : Packets, no : Nat])
    BY <2>1
  <2>4. /\ \A i \in 1..Len(wire[c]) : wire'[c][i] = wire[c][i]
        /\ wire'[c][Len(wire[c]) + 1] = e /\ Len(wire[c]) \in Nat
        /\ \A i \in 1..Len(wire'[c]) : i \in 1..Len(wire[c]) \/ i = Len(wire[c]) + 1
    BY <2>2, <2>3, AppendIndex
  <2>5. ASSUME NEW i \in 1..Len(wire[c]), wire[c][i].packet \in Requests, e.packet \in Requests
        PROVE  wire[c][i].no < e.no
    <3>1. e.no = codecSeq[c]
      <4>1. InHand(e.packet, c) BY <2>1, <2>2 DEF InHand
      <4>2. QED BY <2>2, <2>5, <4>1 DEF NumberInv, Number
    <3>2. wire[c][i].no < codecSeq[c] BY <2>1, <2>5 DEF NumberInv, Number
    <3>3. QED BY <3>1, <3>2
  <2>6. ASSUME NEW i \in 1..Len(wire'[c]), NEW k \in 1..Len(wire'[c]), i < k,
               wire'[c][i].packet \in Requests, wire'[c][k].packet \in Requests
        PROVE  wire'[c][i].no < wire'[c][k].no
    <3>1. i \in 1..Len(wire[c]) BY <2>4, <2>6
    <3>2. CASE k \in 1..Len(wire[c]) BY <2>4, <2>6, <3>1, <3>2 DEF RepliesNumbered
    <3>3. CASE k = Len(wire[c]) + 1 BY <2>4, <2>5, <2>6, <3>1, <3>3
    <3>4. QED BY <2>4, <2>6, <3>2, <3>3
  <2>7. \A d \in Conns : d # c => wire'[d] = wire[d] BY <2>1
  <2>8. QED BY <2>6, <2>7 DEF RepliesNumbered
<1>3. CASE Offline BY <1>1, <1>3, OfflineLine DEF LineVars
<1>4. ASSUME NEW p \in Packets, NEW c \in Conns, Put(p, c) PROVE RepliesNumbered'
  BY <1>1, <1>4 DEF Put
<1>5. ASSUME NEW c \in Conns, EncodeBegin(c) \/ EncodeFails(c) PROVE RepliesNumbered'
  BY <1>1, <1>5 DEF EncodeBegin, EncodeFails
<1>6. CASE UNCHANGED vars BY <1>1, <1>6 DEF vars, queueVars
<1>7. QED BY <1>2, <1>3, <1>4, <1>5, <1>6, Steps

-------------------------------------------------------------------------------
(* The theorems. *)

LEMMA Inductive == Spec => []IInv
<1>1. Init => IInv
  <2> SUFFICES ASSUME Init PROVE IInv
    OBVIOUS
  <2>1. TypeOK BY DEF Init, TypeOK
  <2>2. \A c \in Conns : sendChan[c] = <<>> /\ hand[c] = <<>> /\ wire[c] = <<>> BY DEF Init
  <2>3. \A q, c : c \in Conns => ~Queued(q, c) /\ ~InHand(q, c) /\ ~Written(q, c)
    BY <2>2 DEF Queued, InHand, Written
  <2>4. MakerInv BY <2>3 DEF Init, MakerInv, Maker, Packets
  <2>5. PlaceInv BY <2>2, <2>3 DEF PlaceInv, Place
  <2>6. NumberInv BY <2>2, <2>3 DEF NumberInv, Number
  <2>7. RepliesNumbered BY <2>2 DEF RepliesNumbered
  <2>8. QED BY <2>1, <2>4, <2>5, <2>6, <2>7 DEF IInv
<1>2. IInv /\ [Next]_vars => IInv'
  BY TypeStep, MakerStep, PlaceStep, NumberStep, RepliesStep DEF IInv
<1>3. QED BY <1>1, <1>2, PTL DEF Spec

(***************************************************************************)
(* Types, the bounds of the queues and of the bucket.                      *)
(***************************************************************************)
THEOREM TypeCorrect == Spec => []TypeOK
<1>1. IInv => TypeOK BY DEF IInv
<1>2. QED BY <1>1, Inductive, PTL

(***************************************************************************)
(* For any number of concurrent requests, a reply leaves only on the       *)
(* connection of its request, and once.                                    *)
(***************************************************************************)
THEOREM RepliesReachOrigin == Spec => []OneReplyPerRequest
<1>1. ASSUME IInv, NEW c \in Conns, NEW i \in 1..Len(wire[c]), wire[c][i].packet \in Requests
      PROVE  /\ c \in origin[wire[c][i].packet]
             /\ \A k \in 1..Len(wire[c]) : wire[c][k].packet = wire[c][i].packet => k = i
  <2>1. Written(wire[c][i].packet, c) BY DEF Written
  <2>2. Maker(wire[c][i].packet) /\ Place(wire[c][i].packet, c)
    BY <1>1 DEF IInv, MakerInv, PlaceInv
  <2>3. QED BY <2>1, <2>2 DEF Maker, Place
<1>2. IInv => OneReplyPerRequest BY <1>1 DEF OneReplyPerRequest
<1>3. QED BY <1>2, Inductive, PTL

(***************************************************************************)
(* For any number of goroutines that reply, broadcast and encode, the      *)
(* replies of a connection carry increasing numbers.                       *)
(***************************************************************************)
THEOREM RepliesIncrease == Spec => []RepliesNumbered
<1>1. IInv => RepliesNumbered BY DEF IInv
<1>2. QED BY <1>1, Inductive, PTL

-------------------------------------------------------------------------------
(* The bucket. *)

Budget == IsFiniteSet(Granted) /\ SharedBudget

\* A step that draws no number grants no token.
LEMMA OtherSteps ==
  ASSUME [Next]_vars, ~\E p \in Packets, c \in Conns : SendNumber(p, c)
  PROVE  messageSeq' = messageSeq /\ (UNCHANGED bucketVars \/ Refill)
BY DEF Next, SendNext, WriteNext, Receive, Respond, Broadcast, SendRefused, Put, PutRefused,
       EncodeBegin, EncodeEnd, EncodeFails, Refill, vars, bucketVars

LEMMA BudgetStep == TypeOK /\ Budget /\ [Next]_vars => Budget'
<1> SUFFICES ASSUME TypeOK, Budget, [Next]_vars PROVE Budget'
  OBVIOUS
<1>a. /\ messageSeq \in [Conns -> Nat] /\ tokens \in Int /\ refills \in Int /\ Burst \in Int
      /\ IsFiniteSet(Granted) /\ Cardinality(Granted) \in Int
      /\ Cardinality(Granted) + tokens <= Burst + refills
  BY FS_CardinalityType DEF TypeOK, Budget, SharedBudget
<1>1. CASE ~\E p \in Packets, c \in Conns : SendNumber(p, c)
  <2>1. messageSeq' = messageSeq /\ (UNCHANGED bucketVars \/ Refill) BY <1>1, OtherSteps
  <2>2. Granted' = Granted BY <2>1 DEF Granted
  <2>3. CASE UNCHANGED bucketVars
    BY <2>2, <2>3 DEF Budget, SharedBudget, bucketVars
  <2>4. CASE Refill
    <3>1. tokens' = tokens + 1 /\ refills' = refills + 1 BY <2>4 DEF Refill
    <3>2. QED BY <1>a, <2>2, <3>1 DEF Budget, SharedBudget
  <2>5. QED BY <2>1, <2>3, <2>4
<1>2. ASSUME NEW p \in Packets, NEW c \in Conns, SendNumber(p, c) PROVE Budget'
  <2> DEFINE g == <<c, messageSeq[c] + 1>>
  <2>1. /\ messageSeq' = [messageSeq EXCEPT ![c] = messageSeq[c] + 1]
        /\ tokens' = tokens - 1 /\ refills' = refills
    BY <1>2 DEF SendNumber, Allow
  <2>2. Granted' = Granted \cup {g}
    <3>1. messageSeq'[c] = messageSeq[c] + 1 /\ messageSeq[c] \in Nat
          /\ \A d \in Conns : d # c => messageSeq'[d] = messageSeq[d]
      BY <1>a, <2>1
    <3>2. 1..(messageSeq[c] + 1) = (1..messageSeq[c]) \cup {messageSeq[c] + 1} BY <3>1
    <3>3. \A x : x \in Granted <=> \E d \in Conns : x \in {d} \X (1..messageSeq[d])
      BY DEF Granted
    <3>4. \A x : x \in Granted' <=> \E d \in Conns : x \in {d} \X (1..messageSeq'[d])
      BY DEF Granted
    <3>5. \A x : x \in {c} \X (1..messageSeq'[c]) <=> x \in {c} \X (1..messageSeq[c]) \/ x = g
      BY <3>1, <3>2
    <3>6. QED BY <3>1, <3>3, <3>4, <3>5
  <2>3. g \notin Granted
    <3>1. ASSUME NEW d \in Conns, g \in {d} \X (1..messageSeq[d]) PROVE FALSE BY <1>a, <3>1
    <3>2. QED BY <3>1 DEF Granted
  <2> HIDE DEF g
  <2>4. IsFiniteSet(Granted') /\ Cardinality(Granted') = Cardinality(Granted) + 1
    BY <1>a, <2>2, <2>3, FS_AddElement
  <2>5. QED BY <1>a, <2>1, <2>4 DEF Budget, SharedBudget
<1>3. QED BY <1>1, <1>2

(***************************************************************************)
(* For any number of connections and senders, the packets that pass the    *)
(* limiter are paid from the one bucket (network/rate_limiter.go).         *)
(***************************************************************************)
THEOREM WithinBudget == Spec => []SharedBudget
<1>1. Init => Budget
  <2> SUFFICES ASSUME Init PROVE Budget
    OBVIOUS
  <2>1. Granted = {}
    <3>1. \A c \in Conns : messageSeq[c] = 0 BY DEF Init
    <3>2. QED BY <3>1 DEF Granted
  <2>2. IsFiniteSet(Granted) /\ Cardinality(Granted) = 0 BY <2>1, FS_EmptySet
  <2>3. tokens = Burst /\ refills = 0 /\ Burst \in Nat BY DEF Init
  <2>4. QED BY <2>2, <2>3 DEF Budget, SharedBudget
<1>2. Budget => SharedBudget BY DEF Budget
<1>3. QED BY <1>1, <1>2, BudgetStep, TypeCorrect, PTL DEF Spec

-------------------------------------------------------------------------------
(* A broadcast that has not begun. *)

\* Its packet is nowhere, and no Send of it is under way.
Unborn(b) ==
  stage[b] = "new" =>
    /\ todo[b] = {} /\ target[b] = {}
    /\ \A c \in Conns : ~Queued(b, c) /\ ~InHand(b, c) /\ ~Written(b, c)

LEMMA UnbornStep ==
  ASSUME TypeOK, [Next]_vars, NEW b \in Broadcasts, Unborn(b)
  PROVE  Unborn(b)'
<1> USE DEF makerVars
<1>a. /\ b \in Packets /\ b \notin Requests
      /\ stage \in [Packets -> {"new", "handle", "send", "put", "done"}]
      /\ todo \in [Packets -> SUBSET Conns] /\ target \in [Packets -> SUBSET Conns]
  BY DEF TypeOK, Packets
\* No step makes a broadcast new, and one of another packet leaves it alone.
<1>b. ASSUME UNCHANGED <<stage[b], todo[b], target[b]>>,
             \A c \in Conns : ~Queued(b, c) /\ ~InHand(b, c) /\ ~Written(b, c) =>
                                ~Queued(b, c)' /\ ~InHand(b, c)' /\ ~Written(b, c)'
      PROVE  Unborn(b)'
  BY <1>b DEF Unborn
<1>1. CASE Offline
  <2>1. \A c \in Conns : /\ Queued(b, c)' <=> Queued(b, c)
                         /\ InHand(b, c)' <=> InHand(b, c)
                         /\ Written(b, c)' <=> Written(b, c)
    BY <1>1, OfflineLine, SameLine
  <2>2. CASE UNCHANGED <<stage[b], todo[b], target[b]>> BY <1>b, <2>1, <2>2
  <2>3. ASSUME NEW r \in Requests, NEW c \in Conns, Receive(r, c)
        PROVE  UNCHANGED <<stage[b], todo[b], target[b]>>
    BY <1>a, <2>3 DEF Receive
  <2>4. ASSUME NEW r \in Requests, NEW cmd, NEW content, NEW h, Respond(r, cmd, content, h)
        PROVE  UNCHANGED <<stage[b], todo[b], target[b]>>
    BY <1>a, <2>4 DEF Respond
  <2>5. ASSUME NEW a \in Broadcasts, NEW open, Broadcast(a, open)
        PROVE  stage'[b] # "new" \/ UNCHANGED <<stage[b], todo[b], target[b]>>
    BY <1>a, <2>5 DEF Broadcast
  <2>6. ASSUME NEW p \in Packets, NEW c \in Conns,
               SendRefused(p, c) \/ SendNumber(p, c) \/ PutRefused(p, c)
        PROVE  stage'[b] # "new" \/ UNCHANGED <<stage[b], todo[b], target[b]>>
    BY <1>a, <2>6 DEF SendRefused, SendNumber, PutRefused, Sent
  <2>7. CASE Refill BY <2>2, <2>7 DEF Refill
  <2>8. QED BY <1>1, <2>2, <2>3, <2>4, <2>5, <2>6, <2>7 DEF Offline, Unborn
<1>2. ASSUME NEW p \in Packets, NEW c \in Conns, Put(p, c) PROVE Unborn(b)'
  <2>1. CASE p = b
    <3>1. stage'[b] # "new" BY <1>a, <1>2, <2>1 DEF Put, Sent
    <3>2. QED BY <3>1 DEF Unborn
  <2>2. CASE p # b
    <3>1. UNCHANGED <<stage[b], todo[b], target[b]>> BY <1>a, <1>2, <2>2 DEF Put, Sent
    <3>2. QED BY <1>b, <1>2, <2>2, <3>1, PutEffect
  <2>3. QED BY <2>1, <2>2
<1>3. ASSUME NEW c \in Conns, EncodeBegin(c) PROVE Unborn(b)'
  <2>1. UNCHANGED <<stage[b], todo[b], target[b]>> BY <1>3 DEF EncodeBegin
  <2>2. QED BY <1>b, <1>3, <2>1, BeginEffect
<1>4. ASSUME NEW c \in Conns, EncodeEnd(c) PROVE Unborn(b)'
  <2>1. UNCHANGED <<stage[b], todo[b], target[b]>> /\ hand[c] # <<>> BY <1>4 DEF EncodeEnd
  <2>2. hand[c][1] = b => InHand(b, c) BY <2>1 DEF InHand
  <2>3. QED BY <1>b, <1>4, <2>1, <2>2, EndEffect
<1>5. ASSUME NEW c \in Conns, EncodeFails(c) PROVE Unborn(b)'
  <2>1. UNCHANGED <<stage[b], todo[b], target[b]>> BY <1>5 DEF EncodeFails
  <2>2. QED BY <1>b, <1>5, <2>1, FailEffect
<1>6. CASE UNCHANGED vars
  <2>1. UNCHANGED <<stage[b], todo[b], target[b]>> /\ UNCHANGED LineVars
    BY <1>6 DEF vars, queueVars, LineVars
  <2>2. QED BY <1>b, <2>1, SameLine
<1>7. QED BY <1>1, <1>2, <1>3, <1>4, <1>5, <1>6, Steps

(***************************************************************************)
(* Until the first Broadcast begins the numbers of all the frames of a     *)
(* connection increase: only its shared packet breaks what the comment on  *)
(* Packet.seqId promises.                                                  *)
(***************************************************************************)
THEOREM NumbersIncreaseAlone ==
  Spec => []((\A b \in Broadcasts : stage[b] = "new") => NumbersIncrease)
<1> DEFINE AllUnborn == \A b \in Broadcasts : Unborn(b)
<1>1. Init => AllUnborn
  <2> SUFFICES ASSUME Init, NEW b \in Broadcasts PROVE Unborn(b)
    OBVIOUS
  <2>1. b \in Packets BY DEF Packets
  <2>2. QED BY <2>1 DEF Init, Unborn, Queued, InHand, Written
<1>2. TypeOK /\ AllUnborn /\ [Next]_vars => AllUnborn' BY UnbornStep
<1>3. TypeOK /\ AllUnborn /\ RepliesNumbered =>
        ((\A b \in Broadcasts : stage[b] = "new") => NumbersIncrease)
  <2> SUFFICES ASSUME TypeOK, AllUnborn, RepliesNumbered,
                      \A b \in Broadcasts : stage[b] = "new"
               PROVE  NumbersIncrease
    OBVIOUS
  <2>1. ASSUME NEW c \in Conns, NEW i \in 1..Len(wire[c]) PROVE wire[c][i].packet \in Requests
    <3>1. wire[c] \in Seq([packet : Packets, no : Nat]) BY DEF TypeOK
    <3>2. wire[c][i] \in [packet : Packets, no : Nat] BY ONLY <3>1, Element
    <3>3. Written(wire[c][i].packet, c) BY DEF Written
    <3>4. wire[c][i].packet \notin Broadcasts BY <3>3 DEF Unborn
    <3>5. QED BY <3>2, <3>4 DEF Packets
  <2>2. QED BY <2>1 DEF NumbersIncrease, RepliesNumbered
<1>4. QED BY <1>1, <1>2, <1>3, TypeCorrect, RepliesIncrease, PTL DEF Spec
===============================================================================
