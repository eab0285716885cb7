-------------------------------- MODULE Messages --------------------------------
(***************************************************************************)
(* The way of a packet: readLoop starts a goroutine for each request       *)
(* (network/conn.go), Router.Handle answers it (core/router.go), Broadcast *)
(* sends one packet to many connections (network/tcp_net.go), Send and     *)
(* Encode number it (network/packet.go).                                   *)
(*                                                                         *)
(* A packet is named by its maker: a request that gets a reply, or a       *)
(* broadcast.  Its seqId is one field that every connection which sends it *)
(* writes.  All connections draw their tokens from one bucket, the         *)
(* singleton of network/rate_limiter.go.  Closing is left to module        *)
(* Connection: here Send may refuse and Encode may fail at any time.       *)
(***************************************************************************)
EXTENDS Naturals, Sequences, FiniteSets

CONSTANTS
  Conns,       \* the connections of the pool
  Requests,    \* the requests that peers send
  Broadcasts,  \* the calls of Broadcast, each with a packet of its own
  QueueCap,    \* capacity of sendChan
  Burst,       \* size of the token bucket
  MaxRefills   \* bound: tokens that time adds in a behaviour

ASSUME MessagesAssumption ==
  /\ IsFiniteSet(Conns) /\ IsFiniteSet(Requests) /\ IsFiniteSet(Broadcasts)
  /\ Requests \cap Broadcasts = {}
  /\ QueueCap \in Nat \ {0} /\ Burst \in Nat /\ MaxRefills \in Nat

Packets == Requests \cup Broadcasts

VARIABLES
  origin,      \* the connection a request came from: {} or {c}
  stage,       \* of each maker: "new", "handle", "send", "put" or "done"
  todo,        \* the connections it has still to send its packet to
  target,      \* the connection whose Send is under way: {} or {c}
  seqId,       \* Packet.seqId
  messageSeq,  \* Connection.messageSeq
  codecSeq,    \* PacketCodec.seqId of each connection
  sendChan,    \* the queue of each connection
  hand,        \* the packet that Encode is working on: <<>> or <<p>>
  wire,        \* the frames of each connection: packet and number
  tokens,      \* tokens in the bucket of all connections
  refills      \* number of tokens added so far, for the bound

makerVars == <<origin, stage, todo, target>>
queueVars == <<codecSeq, sendChan, hand, wire>>
bucketVars == <<tokens, refills>>
vars == <<makerVars, seqId, messageSeq, queueVars, bucketVars>>

Init ==
  /\ origin = [r \in Requests |-> {}]
  /\ stage = [p \in Packets |-> "new"] /\ todo = [p \in Packets |-> {}]
  /\ target = [p \in Packets |-> {}]
  /\ seqId = [p \in Packets |-> 0]
  /\ messageSeq = [c \in Conns |-> 0] /\ codecSeq = [c \in Conns |-> 0]
  /\ sendChan = [c \in Conns |-> <<>>] /\ hand = [c \in Conns |-> <<>>]
  /\ wire = [c \in Conns |-> <<>>]
  /\ tokens = Burst /\ refills = 0

-------------------------------------------------------------------------------
(* Router.Handle and callHandler, for every kind of request and of handler *)

\* What the request holds: its base message does not parse, names no known type, has a
\* payload that does not parse, or is of a type with a handler or without.
Contents == {"garbled", "unknown", "bad payload", "unhandled", "good"}

\* The handlers that validateHandler accepts: one result (an error) or two (a response
\* and an error), and what a call of one comes to.
Handlers ==
  [outs : {1}, result : {"nil", "error", "panic"}] \cup
  [outs : {2}, result : {"nil", "value", "error", "panic"}]

\* What Handle comes to: "reply" if sendResponse is called, "ok" if it returns nil
\* without, "error", or a "panic" that the goroutine of the request recovers.
Handle(cmd, content, h) ==
  IF content = "unknown" THEN "panic"          \* the error message reads a nil pointer
  ELSE IF content # "good" THEN "error"
  ELSE IF h.result = "error" THEN "error"
  ELSE IF h.result = "panic" THEN (IF h.outs = 2 THEN "error" ELSE "ok")
  ELSE IF h.result = "value" /\ cmd = "request" THEN "reply"
  ELSE "ok"

-------------------------------------------------------------------------------
(* The makers of packets *)

\* readLoop: a request with a registered command starts a goroutine.
Receive(r, c) ==
  /\ stage[r] = "new"
  /\ origin' = [origin EXCEPT ![r] = {c}]
  /\ stage' = [stage EXCEPT ![r] = "handle"]
  /\ UNCHANGED <<todo, target, seqId, messageSeq, queueVars, bucketVars>>

\* Mutant: the goroutine uses the connection of the request that was read last.
RespondToAny(r, cmd, content, h) ==
  /\ stage[r] = "handle"
  /\ IF Handle(cmd, content, h) = "reply"
     THEN /\ stage' = [stage EXCEPT ![r] = "send"]
          /\ \E q \in Requests : origin[q] # {} /\ todo' = [todo EXCEPT ![r] = origin[q]]
     ELSE stage' = [stage EXCEPT ![r] = "done"] /\ UNCHANGED todo
  /\ UNCHANGED <<origin, target, seqId, messageSeq, queueVars, bucketVars>>

\* sendResponse makes a packet with the request's id and sends it where it came from.
Respond(r, cmd, content, h) ==
  /\ stage[r] = "handle"
  /\ IF Handle(cmd, content, h) = "reply"
     THEN stage' = [stage EXCEPT ![r] = "send"] /\ todo' = [todo EXCEPT ![r] = origin[r]]
     ELSE stage' = [stage EXCEPT ![r] = "done"] /\ UNCHANGED todo
  /\ UNCHANGED <<origin, target, seqId, messageSeq, queueVars, bucketVars>>

\* GetAll: the pool's connections, in any order; the closed ones are skipped.
Broadcast(b, open) ==
  /\ stage[b] = "new"
  /\ stage' = [stage EXCEPT ![b] = IF open = {} THEN "done" ELSE "send"]
  /\ todo' = [todo EXCEPT ![b] = open]
  /\ UNCHANGED <<origin, target, seqId, messageSeq, queueVars, bucketVars>>

-------------------------------------------------------------------------------
(* Send: one connection after the other *)

\* The maker goes on to its next connection.
Sent(p, c) ==
  /\ todo' = [todo EXCEPT ![p] = @ \ {c}]
  /\ stage' = [stage EXCEPT ![p] = IF todo[p] = {c} THEN "done" ELSE "send"]
  /\ target' = [target EXCEPT ![p] = {}]
  /\ UNCHANGED origin

\* Closed, or no token left.
SendRefused(p, c) ==
  /\ stage[p] = "send" /\ c \in todo[p]
  /\ Sent(p, c)
  /\ UNCHANGED <<seqId, messageSeq, queueVars, bucketVars>>

\* RateLimiter.Allow grants a token.
Allow ==
  /\ tokens > 0
  /\ tokens' = tokens - 1
  /\ UNCHANGED refills

\* Time adds a token, up to the size of the bucket.
Refill ==
  /\ refills < MaxRefills /\ tokens < Burst
  /\ tokens' = tokens + 1
  /\ refills' = refills + 1
  /\ UNCHANGED <<makerVars, seqId, messageSeq, queueVars>>

\* Mutant: every connection has a bucket of its own.
SendNumberOwnBucket(p, c) ==
  /\ stage[p] = "send" /\ c \in todo[p]
  /\ messageSeq[c] < Burst + refills
  /\ tokens' = IF tokens > 0 THEN tokens - 1 ELSE 0
  /\ messageSeq' = [messageSeq EXCEPT ![c] = @ + 1]
  /\ seqId' = [seqId EXCEPT ![p] = messageSeq[c] + 1]
  /\ stage' = [stage EXCEPT ![p] = "put"] /\ target' = [target EXCEPT ![p] = {c}]
  /\ UNCHANGED <<origin, todo, queueVars, refills>>

\* With a token, the number is drawn and written before the packet is queued for that
\* connection.
SendNumber(p, c) ==
  /\ stage[p] = "send" /\ c \in todo[p]
  /\ Allow
  /\ messageSeq' = [messageSeq EXCEPT ![c] = @ + 1]
  /\ seqId' = [seqId EXCEPT ![p] = messageSeq[c] + 1]
  /\ stage' = [stage EXCEPT ![p] = "put"] /\ target' = [target EXCEPT ![p] = {c}]
  /\ UNCHANGED <<origin, todo, queueVars>>

\* Mutant: the queue grows beyond its capacity.
PutUnbounded(p, c) ==
  /\ stage[p] = "put" /\ c \in target[p]
  /\ sendChan' = [sendChan EXCEPT ![c] = Append(@, p)]
  /\ Sent(p, c)
  /\ UNCHANGED <<seqId, messageSeq, codecSeq, hand, wire, bucketVars>>

Put(p, c) ==
  /\ stage[p] = "put" /\ c \in target[p]
  /\ Len(sendChan[c]) < QueueCap
  /\ sendChan' = [sendChan EXCEPT ![c] = Append(@, p)]
  /\ Sent(p, c)
  /\ UNCHANGED <<seqId, messageSeq, codecSeq, hand, wire, bucketVars>>

\* The queue is full, or the connection closes.
PutRefused(p, c) ==
  /\ stage[p] = "put" /\ c \in target[p]
  /\ Sent(p, c)
  /\ UNCHANGED <<seqId, messageSeq, queueVars, bucketVars>>

-------------------------------------------------------------------------------
(* writeLoop and Encode *)

\* Mutant: Encode leaves the number that Send has given.
EncodeKeepsNumber(c) ==
  /\ hand[c] = <<>> /\ sendChan[c] # <<>>
  /\ hand' = [hand EXCEPT ![c] = <<Head(sendChan[c])>>]
  /\ sendChan' = [sendChan EXCEPT ![c] = Tail(@)]
  /\ codecSeq' = [codecSeq EXCEPT ![c] = @ + 1]
  /\ UNCHANGED <<makerVars, seqId, messageSeq, wire, bucketVars>>

\* The packet gets the codec's next number; compression and encryption follow.
EncodeBegin(c) ==
  /\ hand[c] = <<>> /\ sendChan[c] # <<>>
  /\ hand' = [hand EXCEPT ![c] = <<Head(sendChan[c])>>]
  /\ sendChan' = [sendChan EXCEPT ![c] = Tail(@)]
  /\ codecSeq' = [codecSeq EXCEPT ![c] = @ + 1]
  /\ seqId' = [seqId EXCEPT ![Head(sendChan[c])] = codecSeq[c] + 1]
  /\ UNCHANGED <<makerVars, messageSeq, wire, bucketVars>>

\* The header is filled from the packet's fields, and the frame is written.
EncodeEnd(c) ==
  /\ hand[c] # <<>>
  /\ wire' = [wire EXCEPT ![c] = Append(@, [packet |-> hand[c][1], no |-> seqId[hand[c][1]]])]
  /\ hand' = [hand EXCEPT ![c] = <<>>]
  /\ UNCHANGED <<makerVars, seqId, messageSeq, codecSeq, sendChan, bucketVars>>

EncodeFails(c) ==
  /\ hand[c] # <<>>
  /\ hand' = [hand EXCEPT ![c] = <<>>]
  /\ UNCHANGED <<makerVars, seqId, messageSeq, codecSeq, sendChan, wire, bucketVars>>

-------------------------------------------------------------------------------
SendNext(p, c) ==
  SendRefused(p, c) \/ SendNumber(p, c) \/ Put(p, c) \/ PutRefused(p, c)

WriteNext(c) == EncodeBegin(c) \/ EncodeEnd(c) \/ EncodeFails(c)

Next ==
  \/ \E r \in Requests, c \in Conns : Receive(r, c)
  \/ \E r \in Requests, cmd \in {"request", "push"}, content \in Contents, h \in Handlers :
       Respond(r, cmd, content, h)
  \/ \E b \in Broadcasts, open \in SUBSET Conns : Broadcast(b, open)
  \/ \E p \in Packets, c \in Conns : SendNext(p, c)
  \/ \E c \in Conns : WriteNext(c)
  \/ Refill

Spec == Init /\ [][Next]_vars

-------------------------------------------------------------------------------
(* Properties *)

TypeOK ==
  /\ origin \in [Requests -> SUBSET Conns]
  /\ stage \in [Packets -> {"new", "handle", "send", "put", "done"}]
  /\ todo \in [Packets -> SUBSET Conns] /\ target \in [Packets -> SUBSET Conns]
  /\ seqId \in [Packets -> Nat]
  /\ messageSeq \in [Conns -> Nat] /\ codecSeq \in [Conns -> Nat]
  /\ sendChan \in [Conns -> Seq(Packets)] /\ hand \in [Conns -> Seq(Packets)]
  /\ wire \in [Conns -> Seq([packet : Packets, no : Nat])]
  /\ \A c \in Conns : Len(sendChan[c]) <= QueueCap /\ Len(hand[c]) <= 1
  /\ tokens \in 0..Burst /\ refills \in 0..MaxRefills

(***************************************************************************)
(* A reply leaves on the connection its request came from, and on no other *)
(* and not twice, however the goroutines of the requests interleave.       *)
(***************************************************************************)
OneReplyPerRequest ==
  \A c \in Conns : \A i \in 1..Len(wire[c]) :
    wire[c][i].packet \in Requests =>
      /\ c \in origin[wire[c][i].packet]
      /\ \A k \in 1..Len(wire[c]) : wire[c][k].packet = wire[c][i].packet => k = i

(***************************************************************************)
(* The frames that a connection alone sends, its replies, are numbered in  *)
(* the order in which they leave, although several goroutines call Send.   *)
(***************************************************************************)
RepliesNumbered ==
  \A c \in Conns : \A i, k \in 1..Len(wire[c]) :
    i < k /\ wire[c][i].packet \in Requests /\ wire[c][k].packet \in Requests =>
      wire[c][i].no < wire[c][k].no

\* The tokens that the bucket has granted: each numbered a packet of some connection.
Granted == UNION {{c} \X (1..messageSeq[c]) : c \in Conns}

(***************************************************************************)
(* Whichever connections send, all of them together get no more packets    *)
(* past the limiter than its burst and what time has added.                *)
(***************************************************************************)
SharedBudget == Cardinality(Granted) + tokens <= Burst + refills

(***************************************************************************)
(* "Auto-incremented message number": the numbers of all the frames of a   *)
(* connection increase.                                                    *)
(***************************************************************************)
NumbersIncrease ==
  \A c \in Conns : \A i, k \in 1..Len(wire[c]) : i < k => wire[c][i].no < wire[c][k].no
===============================================================================
