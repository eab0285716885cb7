------------------------------ MODULE Connection ------------------------------
(***************************************************************************)
(* One accepted connection of network/conn.go with the goroutines that     *)
(* share it: the constructor, readLoop, writeLoop, the heartbeat's pingLoop*)
(* and checkLoop, the request handlers and broadcasters that call Send     *)
(* (Senders) and the owners that call Close (Closers: pool and server).    *)
(*                                                                         *)
(* A packet is the number of its acceptance by sendChan.  Time is absent:  *)
(* a ticker may fire, a decode may fail and a heartbeat may be late at any *)
(* moment; module Heartbeat gives the clock.  The token bucket is a free   *)
(* choice, and numbering of frames is left to the packet modules.          *)
(***************************************************************************)
EXTENDS Naturals, Sequences, FiniteSets

CONSTANTS
  Senders,     \* goroutines that call Send from outside the connection
  Closers,     \* goroutines that call Close from outside the connection
  QueueCap,    \* capacity of sendChan: 1024 in the code
  MaxCalls     \* bound: calls of Send in a behaviour

Loops == {"reader", "writer", "pinger", "checker"}

ASSUME ConnectionAssumption ==
  /\ QueueCap \in Nat \ {0}
  /\ MaxCalls \in Nat
  /\ IsFiniteSet(Senders) /\ IsFiniteSet(Closers)
  /\ Senders \cap Closers = {}
  /\ (Senders \cup Closers) \cap (Loops \cup {"new"}) = {}

VARIABLES
  closed,      \* Connection.closed, the atomic flag
  closeChan,   \* TRUE once closeChan is closed
  stopped,     \* TRUE once HeartbeatManager.stopped is closed
  sockOpen,    \* the net.Conn is open on this side
  connGauge,   \* gauge ConnMetrics.Connected of this connection
  hbGauge,     \* gauge HeartbeatMetrics.Connected of this connection
  sendChan,    \* the buffered channel
  hand,        \* the packet writeLoop has received and not yet written: <<>> or <<p>>
  wire,        \* the packets written to the socket
  accepted,    \* number of Sends that returned nil
  errorCount,  \* Connection.errorCount
  calls,       \* number of calls of Send so far, for the bound
  pc           \* where each goroutine is

closeVars == <<closed, closeChan, stopped, sockOpen, connGauge, hbGauge>>
dataVars  == <<sendChan, hand, wire, accepted, errorCount>>
vars      == <<closeVars, dataVars, calls, pc>>

Callers  == Senders \cup {"reader", "pinger"}              \* goroutines that call Send
Shutters == Closers \cup {"reader", "writer", "checker"}   \* goroutines that call Close
Procs    == Senders \cup Closers \cup Loops \cup {"new"}

\* The stages of the Close that won the compare-and-swap, in order.
Closing == {"chan", "stop", "gauges", "sock"}

Goto(p, stage) == pc' = [pc EXCEPT ![p] = stage]

Init ==
  /\ closed = FALSE /\ closeChan = FALSE /\ stopped = FALSE /\ sockOpen = TRUE
  /\ connGauge = 0 /\ hbGauge = 0
  /\ sendChan = <<>> /\ hand = <<>> /\ wire = <<>>
  /\ accepted = 0 /\ errorCount = 0 /\ calls = 0
  /\ pc = [p \in Procs |-> IF p = "new" THEN "spawn"
                           ELSE IF p \in Loops THEN "none" ELSE "idle"]

-------------------------------------------------------------------------------
(* NewConnection: the two loops run before the heartbeat is started. *)

Spawn ==
  /\ pc["new"] = "spawn"
  /\ connGauge' = 1
  /\ pc' = [pc EXCEPT !["new"] = "hbset", !["reader"] = "top", !["writer"] = "top"]
  /\ UNCHANGED <<closed, closeChan, stopped, sockOpen, hbGauge, dataVars, calls>>

\* heartbeat.Start: SetConnected(1), then the two heartbeat goroutines.
HbConnected ==
  /\ pc["new"] = "hbset"
  /\ hbGauge' = 1
  /\ Goto("new", "hbgo")
  /\ UNCHANGED <<closed, closeChan, stopped, sockOpen, connGauge, dataVars, calls>>

\* Mutant: the gauge of the connection is set at the end of the constructor.
LateGauge ==
  /\ pc["new"] = "hbgo"
  /\ connGauge' = 1
  /\ pc' = [pc EXCEPT !["new"] = "done", !["pinger"] = "top", !["checker"] = "top"]
  /\ UNCHANGED <<closed, closeChan, stopped, sockOpen, hbGauge, dataVars, calls>>

HbSpawn ==
  /\ pc["new"] = "hbgo"
  /\ pc' = [pc EXCEPT !["new"] = "done", !["pinger"] = "top", !["checker"] = "top"]
  /\ UNCHANGED <<closeVars, dataVars, calls>>

-------------------------------------------------------------------------------
(* Send *)

\* Where a goroutine goes on when its Send returns.
AfterSend(p, ok) ==
  IF p = "reader" THEN "top"
  ELSE IF p = "pinger" THEN (IF ok THEN "top" ELSE "done")
  ELSE "idle"

\* The code calls Send: the bound counts the calls.
CallSend(p) ==
  /\ calls < MaxCalls
  /\ calls' = calls + 1
  /\ Goto(p, "check")

\* A broadcaster, or any holder of the returned connection.
ExternalSend(p) ==
  /\ p \in Senders
  /\ pc["new"] = "done"
  /\ pc[p] = "idle"
  /\ CallSend(p)
  /\ UNCHANGED <<closeVars, dataVars>>

\* Mutant: Send does not look at the closed flag.
SendUnchecked(p) ==
  /\ p \in Callers
  /\ pc[p] = "check"
  /\ Goto(p, "select") \/ Goto(p, AfterSend(p, FALSE))
  /\ UNCHANGED <<closeVars, dataVars, calls>>

\* IsClosed and the token bucket: either refuses the packet.
SendCheck(p) ==
  /\ p \in Callers
  /\ pc[p] = "check"
  /\ \/ ~closed /\ Goto(p, "select")
     \/ Goto(p, AfterSend(p, FALSE))
  /\ UNCHANGED <<closeVars, dataVars, calls>>

\* Mutant: the queue grows beyond its capacity.
SendUnbounded(p) ==
  /\ p \in Callers
  /\ pc[p] = "select"
  /\ accepted' = accepted + 1
  /\ sendChan' = Append(sendChan, accepted + 1)
  /\ Goto(p, AfterSend(p, TRUE))
  /\ UNCHANGED <<closeVars, hand, wire, errorCount, calls>>

\* The select of Send: a ready case is picked at random, default if none is.
SendAccept(p) ==
  /\ p \in Callers
  /\ pc[p] = "select"
  /\ Len(sendChan) < QueueCap
  /\ accepted' = accepted + 1
  /\ sendChan' = Append(sendChan, accepted + 1)
  /\ Goto(p, AfterSend(p, TRUE))
  /\ UNCHANGED <<closeVars, hand, wire, errorCount, calls>>

SendRefuse(p) ==
  /\ p \in Callers
  /\ pc[p] = "select"
  /\ closeChan \/ Len(sendChan) >= QueueCap
  /\ Goto(p, AfterSend(p, FALSE))
  /\ UNCHANGED <<closeVars, dataVars, calls>>

-------------------------------------------------------------------------------
(* Close *)

\* The loops end with their deferred Close; checkLoop goes round once more.
AfterClose(p) == IF p = "checker" THEN "top" ELSE "done"

ExternalClose(p) ==
  /\ p \in Closers
  /\ pc["new"] = "done"
  /\ pc[p] = "idle"
  /\ Goto(p, "close")
  /\ UNCHANGED <<closeVars, dataVars, calls>>

\* Mutant: Close stores the flag without comparing it first.
CloseStore(p) ==
  /\ p \in Shutters
  /\ pc[p] = "close"
  /\ closed' = TRUE
  /\ Goto(p, "chan")
  /\ UNCHANGED <<closeChan, stopped, sockOpen, connGauge, hbGauge, dataVars, calls>>

CloseCAS(p) ==
  /\ p \in Shutters
  /\ pc[p] = "close"
  /\ IF closed THEN Goto(p, AfterClose(p)) /\ UNCHANGED closed
               ELSE Goto(p, "chan") /\ closed' = TRUE
  /\ UNCHANGED <<closeChan, stopped, sockOpen, connGauge, hbGauge, dataVars, calls>>

CloseChannel(p) ==
  /\ p \in Shutters
  /\ pc[p] = "chan"
  /\ closeChan' = TRUE
  /\ Goto(p, "stop")
  /\ UNCHANGED <<closed, stopped, sockOpen, connGauge, hbGauge, dataVars, calls>>

\* heartbeat.Stop: close(stopped), then the gauge is zeroed (twice: SetConnected, Reset).
HeartbeatStop(p) ==
  /\ p \in Shutters
  /\ pc[p] = "stop"
  /\ stopped' = TRUE
  /\ Goto(p, "gauges")
  /\ UNCHANGED <<closed, closeChan, sockOpen, connGauge, hbGauge, dataVars, calls>>

\* Mutant: the heartbeat's gauge is left to its goroutines.
ZeroConnGauge(p) ==
  /\ p \in Shutters
  /\ pc[p] = "gauges"
  /\ connGauge' = 0
  /\ Goto(p, "sock")
  /\ UNCHANGED <<closed, closeChan, stopped, sockOpen, hbGauge, dataVars, calls>>

ZeroGauges(p) ==
  /\ p \in Shutters
  /\ pc[p] = "gauges"
  /\ hbGauge' = 0 /\ connGauge' = 0
  /\ Goto(p, "sock")
  /\ UNCHANGED <<closed, closeChan, stopped, sockOpen, dataVars, calls>>

\* Mutant: Close leaves the socket to its readers.
KeepSocket(p) ==
  /\ p \in Shutters
  /\ pc[p] = "sock"
  /\ Goto(p, AfterClose(p))
  /\ UNCHANGED <<closeVars, dataVars, calls>>

CloseSocket(p) ==
  /\ p \in Shutters
  /\ pc[p] = "sock"
  /\ sockOpen' = FALSE
  /\ Goto(p, AfterClose(p))
  /\ UNCHANGED <<closed, closeChan, stopped, connGauge, hbGauge, dataVars, calls>>

-------------------------------------------------------------------------------
(* readLoop *)

ReadTop ==
  /\ pc["reader"] = "top"
  /\ Goto("reader", IF closeChan THEN "close" ELSE "decode")
  /\ UNCHANGED <<closeVars, dataVars, calls>>

\* A ping: handleHeartbeat sends the pong from this goroutine.
ReadPing ==
  /\ pc["reader"] = "decode"
  /\ sockOpen
  /\ CallSend("reader")
  /\ UNCHANGED <<closeVars, dataVars>>

\* A request with a handler (registered once the constructor has returned): it runs
\* in a goroutine of its own and may reply.
ReadRequest(p) ==
  /\ p \in Senders
  /\ pc["new"] = "done"
  /\ pc["reader"] = "decode"
  /\ sockOpen
  /\ pc[p] = "idle"
  /\ calls < MaxCalls
  /\ calls' = calls + 1
  /\ pc' = [pc EXCEPT !["reader"] = "top", ![p] = "check"]
  /\ UNCHANGED <<closeVars, dataVars>>

\* A pong, a heartbeat that does not parse, a packet without a handler, a read timeout.
ReadNothing ==
  /\ pc["reader"] = "decode"
  /\ sockOpen
  /\ Goto("reader", "top")
  /\ UNCHANGED <<closeVars, dataVars, calls>>

\* EOF from the peer, or a panic that the deferred function recovers.
ReadEnd ==
  /\ pc["reader"] = "decode"
  /\ sockOpen
  /\ Goto("reader", "close")
  /\ UNCHANGED <<closeVars, dataVars, calls>>

\* Any other error; a read of the closed socket is one.
ReadError ==
  /\ pc["reader"] = "decode"
  /\ errorCount' = errorCount + 1
  /\ Goto("reader", "close")
  /\ UNCHANGED <<closeVars, sendChan, hand, wire, accepted, calls>>

-------------------------------------------------------------------------------
(* writeLoop *)

WriteTake ==
  /\ pc["writer"] = "top"
  /\ sendChan # <<>>
  /\ hand' = <<Head(sendChan)>>
  /\ sendChan' = Tail(sendChan)
  /\ Goto("writer", "hand")
  /\ UNCHANGED <<closeVars, wire, accepted, errorCount, calls>>

WriteStop ==
  /\ pc["writer"] = "top"
  /\ closeChan
  /\ Goto("writer", "close")
  /\ UNCHANGED <<closeVars, dataVars, calls>>

\* Mutant: a write is repeated although it went through.
WriteRetry ==
  /\ pc["writer"] = "hand"
  /\ sockOpen
  /\ wire' = wire \o hand
  /\ UNCHANGED <<closeVars, sendChan, hand, accepted, errorCount, calls, pc>>

WriteOk ==
  /\ pc["writer"] = "hand"
  /\ sockOpen
  /\ wire' = wire \o hand
  /\ hand' = <<>>
  /\ Goto("writer", "top")
  /\ UNCHANGED <<closeVars, sendChan, accepted, errorCount, calls>>

\* Mutant: a packet that does not encode is dropped and not counted.
EncodeUncounted ==
  /\ pc["writer"] = "hand"
  /\ hand' = <<>>
  /\ Goto("writer", "top")
  /\ UNCHANGED <<closeVars, sendChan, wire, accepted, errorCount, calls>>

\* Mutant: a packet that does not encode goes back to the end of the queue.
EncodeRequeue ==
  /\ pc["writer"] = "hand"
  /\ errorCount' = errorCount + 1
  /\ hand' = <<>>
  /\ sendChan' = sendChan \o hand
  /\ Goto("writer", "top")
  /\ UNCHANGED <<closeVars, wire, accepted, calls>>

\* Encode fails: the packet is counted and dropped, the loop goes on.
EncodeError ==
  /\ pc["writer"] = "hand"
  /\ errorCount' = errorCount + 1
  /\ hand' = <<>>
  /\ Goto("writer", "top")
  /\ UNCHANGED <<closeVars, sendChan, wire, accepted, calls>>

\* Write fails, as it does on the closed socket.
WriteError ==
  /\ pc["writer"] = "hand"
  /\ errorCount' = errorCount + 1
  /\ hand' = <<>>
  /\ Goto("writer", "close")
  /\ UNCHANGED <<closeVars, sendChan, wire, accepted, calls>>

\* Encode panics (cipher with an IV of the wrong size): recovered, not counted.
EncodePanic ==
  /\ pc["writer"] = "hand"
  /\ hand' = <<>>
  /\ Goto("writer", "close")
  /\ UNCHANGED <<closeVars, sendChan, wire, accepted, errorCount, calls>>

-------------------------------------------------------------------------------
(* pingLoop and checkLoop *)

PingTick ==
  /\ pc["pinger"] = "top"
  /\ CallSend("pinger")
  /\ UNCHANGED <<closeVars, dataVars>>

PingStop ==
  /\ pc["pinger"] = "top"
  /\ stopped
  /\ Goto("pinger", "done")
  /\ UNCHANGED <<closeVars, dataVars, calls>>

\* A tick that finds IsAlive false: handleTimeout.
CheckTimeout ==
  /\ pc["checker"] = "top"
  /\ hbGauge' = 0
  /\ Goto("checker", "retry")
  /\ UNCHANGED <<closed, closeChan, stopped, sockOpen, connGauge, dataVars, calls>>

\* reconnect always fails: after the last sleep the connection is closed.
CheckGiveUp ==
  /\ pc["checker"] = "retry"
  /\ Goto("checker", "close")
  /\ UNCHANGED <<closeVars, dataVars, calls>>

CheckStop ==
  /\ pc["checker"] = "top"
  /\ stopped
  /\ Goto("checker", "done")
  /\ UNCHANGED <<closeVars, dataVars, calls>>

-------------------------------------------------------------------------------
NewNext == Spawn \/ HbConnected \/ HbSpawn

SendNext(p) == SendCheck(p) \/ SendAccept(p) \/ SendRefuse(p)

CloseNext(p) ==
  \/ CloseCAS(p) \/ CloseChannel(p) \/ HeartbeatStop(p)
  \/ ZeroGauges(p) \/ CloseSocket(p)

ReadNext ==
  \/ ReadTop \/ ReadPing \/ ReadNothing \/ ReadEnd \/ ReadError
  \/ \E p \in Senders : ReadRequest(p)

WriteNext ==
  WriteTake \/ WriteStop \/ WriteOk \/ EncodeError \/ WriteError \/ EncodePanic

HeartbeatNext == PingTick \/ PingStop \/ CheckTimeout \/ CheckGiveUp \/ CheckStop

Next ==
  \/ NewNext \/ ReadNext \/ WriteNext \/ HeartbeatNext
  \/ \E p \in Callers : SendNext(p)
  \/ \E p \in Shutters : CloseNext(p)
  \/ \E p \in Senders : ExternalSend(p)
  \/ \E p \in Closers : ExternalClose(p)

SafeSpec == Init /\ [][Next]_vars

(***************************************************************************)
(* The Go scheduler runs every runnable goroutine.  Nothing makes the peer *)
(* send, a ticker fire, an open socket return or an owner call Close; a    *)
(* call on the closed socket returns at once.                              *)
(***************************************************************************)
Fairness ==
  /\ WF_vars(NewNext)
  /\ \A p \in Callers : WF_vars(SendNext(p))
  /\ \A p \in Shutters : WF_vars(CloseNext(p))
  /\ WF_vars(ReadTop)
  /\ WF_vars(~sockOpen /\ ReadError)
  /\ WF_vars(WriteTake \/ WriteStop)
  /\ WF_vars(~sockOpen /\ (EncodeError \/ WriteError \/ EncodePanic))
  /\ WF_vars(PingStop)
  /\ WF_vars(CheckGiveUp)
  /\ SF_vars(CheckStop)

Spec == SafeSpec /\ Fairness

-------------------------------------------------------------------------------
(* Properties *)

Stages ==
  Closing \cup {"none", "idle", "spawn", "hbset", "hbgo", "top", "decode", "check",
                "select", "hand", "retry", "close", "done"}

TypeOK ==
  /\ closed \in BOOLEAN /\ closeChan \in BOOLEAN /\ stopped \in BOOLEAN
  /\ sockOpen \in BOOLEAN
  /\ connGauge \in {0, 1} /\ hbGauge \in {0, 1}
  /\ sendChan \in Seq(Nat) /\ Len(sendChan) <= QueueCap
  /\ hand \in Seq(Nat) /\ Len(hand) <= 1
  /\ wire \in Seq(Nat)
  /\ accepted \in Nat /\ errorCount \in Nat /\ calls \in Nat
  /\ pc \in [Procs -> Stages]

(***************************************************************************)
(* No goroutine closes closeChan or the heartbeat's channel a second time, *)
(* which would panic, however many of them call Close at once.             *)
(***************************************************************************)
NoDoubleClose ==
  \A p \in Shutters :
    /\ pc[p] = "chan" => ~closeChan
    /\ pc[p] = "stop" => ~stopped

(***************************************************************************)
(* Once the socket is closed the Connected gauge reads 0, although the     *)
(* constructor, the loops and the owners race to write it.                 *)
(***************************************************************************)
GaugeDownWhenClosed == ~sockOpen => connGauge = 0

(***************************************************************************)
(* Once a connection is closed whose constructor had finished before, the  *)
(* heartbeat's gauge reads 0, although checkLoop may be in a timeout.  (A  *)
(* close during construction may leave it at 1: HbConnected comes last.)   *)
(***************************************************************************)
HeartbeatGaugeDown ==
  [](pc["new"] = "done" /\ ~closed => [](~sockOpen => hbGauge = 0))

(***************************************************************************)
(* While writeLoop runs, no accepted packet is missing without a trace:    *)
(* it is on the wire, in the queue, in writeLoop's hand, or errorCount     *)
(* (which the pool's cleanup reads) has counted its loss.                  *)
(***************************************************************************)
LossCounted ==
  pc["writer"] \in {"top", "hand"} =>
    accepted <= Len(wire) + Len(hand) + Len(sendChan) + errorCount

(***************************************************************************)
(* After the closed flag is set only the Sends that had already passed     *)
(* IsClosed may still be accepted: their number never grows again.         *)
(***************************************************************************)
InSelect == {p \in Callers : pc[p] = "select"}

OnlyLateSendsAccepted ==
  [][closed => accepted' + Cardinality(InSelect') <= accepted + Cardinality(InSelect)]_vars

(***************************************************************************)
(* Once Close has begun, every goroutine of the connection ends and the    *)
(* socket is released, whoever called Close.                               *)
(***************************************************************************)
CloseReleasesAll ==
  closed ~> (~sockOpen /\ \A p \in Loops : pc[p] = "done")

\* The connection as its callers and its peer see it.
Contract == INSTANCE ConnContract WITH
  Room      <- QueueCap + 1,
  life      <- IF ~closed THEN "open" ELSE IF sockOpen THEN "closing" ELSE "closed",
  accepted  <- accepted,
  pending   <- hand \o sendChan,
  delivered <- wire

(***************************************************************************)
(* The goroutines, channels and flags of the connection implement its      *)
(* contract: order, at most once, nothing after the close, close completes.*)
(***************************************************************************)
ImplementsContract == Contract!Spec

(***************************************************************************)
(* Packets reach the socket in the order in which Send accepted them, none *)
(* twice and none that Send refused.                                       *)
(***************************************************************************)
DeliveredInOrder == Contract!DeliveredInOrder

\* The connection as the pool and the server see it: none before NewConnection.
LifeSeen ==
  [c \in {"self"} |->
     IF pc["new"] = "spawn" THEN "none"
     ELSE IF ~closed THEN "open" ELSE IF sockOpen THEN "closing" ELSE "closed"]

Life == INSTANCE ConnLife WITH Conns <- {"self"}, life <- LifeSeen

(***************************************************************************)
(* Five kinds of goroutines may call Close, even before the constructor    *)
(* has returned: one wins, and it reaches the socket.                      *)
(***************************************************************************)
ImplementsLife == Life!Spec
===============================================================================
