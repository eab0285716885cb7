--------------------------- MODULE ConnectionProofs ---------------------------
(***************************************************************************)
(* What holds of network/conn.go for every set of senders and closers,     *)
(* every queue capacity and every number of calls of Send.                 *)
(***************************************************************************)
EXTENDS Connection, SequenceTheorems, FiniteSetTheorems, TLAPS

-------------------------------------------------------------------------------
(* The inductive invariant. *)

\* Before the constructor starts the loops nobody else has moved.
NewInv ==
  pc["new"] = "spawn" =>
    /\ ~closed
    /\ \A p \in Shutters : pc[p] \in {"none", "idle"}
    /\ pc["writer"] = "none"

\* At most one Close is under way, and the flags tell how far it got.
CloseInv ==
  /\ ~closed => /\ ~closeChan /\ ~stopped /\ sockOpen
                /\ \A p \in Shutters : pc[p] \notin Closing
  /\ \A p, q \in Shutters : pc[p] \in Closing /\ pc[q] \in Closing => p = q
  /\ \A p \in Shutters :
       /\ pc[p] \in Closing => sockOpen
       /\ pc[p] = "chan" => ~closeChan /\ ~stopped
       /\ pc[p] = "stop" => ~stopped
       /\ pc[p] = "sock" => connGauge = 0
  /\ ~sockOpen => connGauge = 0

\* writeLoop holds a packet exactly while it encodes and writes it.
WriterInv ==
  /\ pc["writer"] = "hand" => Len(hand) = 1
  /\ pc["writer"] # "hand" => hand = <<>>
  /\ pc["writer"] \in {"none", "top", "hand"} =>
       accepted <= Len(wire) + Len(hand) + Len(sendChan) + errorCount

IInv == TypeOK /\ NewInv /\ CloseInv /\ WriterInv

USE DEF Closing

-------------------------------------------------------------------------------
(***************************************************************************)
(* Every variable keeps its type and sendChan its capacity, whatever the   *)
(* goroutines of the connection do (network/conn.go, heartbeat.go).        *)
(***************************************************************************)
LEMMA TypeStep == TypeOK /\ [Next]_vars => TypeOK'
<1> SUFFICES ASSUME TypeOK, [Next]_vars PROVE TypeOK'
  OBVIOUS
<1> USE ConnectionAssumption DEF TypeOK, Stages, Goto, closeVars, dataVars, AfterSend,
        AfterClose, CallSend
<1>1. CASE NewNext
  BY <1>1 DEF NewNext, Spawn, HbConnected, HbSpawn
<1>2. CASE ReadNext
  <2>1. CASE ReadTop BY <2>1 DEF ReadTop
  <2>2. CASE ReadPing
    <3>1. calls' \in Nat /\ UNCHANGED <<closeVars, dataVars>> BY <2>2 DEF ReadPing
    <3>2. pc' \in [Procs -> Stages] BY <2>2 DEF ReadPing
    <3>3. QED BY <3>1, <3>2
  <2>3. CASE ReadNothing BY <2>3 DEF ReadNothing
  <2>4. CASE ReadEnd BY <2>4 DEF ReadEnd
  <2>5. CASE ReadError
    <3>1. errorCount' \in Nat /\ UNCHANGED <<closeVars, sendChan, hand, wire, accepted, calls>>
      BY <2>5 DEF ReadError
    <3>2. pc' \in [Procs -> Stages] BY <2>5 DEF ReadError
    <3>3. QED BY <3>1, <3>2
  <2>6. ASSUME NEW p \in Senders, ReadRequest(p) PROVE TypeOK'
    <3>1. calls' \in Nat /\ UNCHANGED <<closeVars, dataVars>> BY <2>6 DEF ReadRequest
    <3>2. pc' \in [Procs -> Stages] BY <2>6 DEF ReadRequest
    <3>3. QED BY <3>1, <3>2
  <2>7. QED BY <1>2, <2>1, <2>2, <2>3, <2>4, <2>5, <2>6 DEF ReadNext
<1>3. CASE WriteNext
  <2>1. CASE WriteTake
    <3>1. hand' \in Seq(Nat) /\ Len(hand') = 1 BY <2>1 DEF WriteTake
    <3>2. sendChan' \in Seq(Nat) /\ Len(sendChan') <= QueueCap BY <2>1 DEF WriteTake
    <3>3. pc' \in [Procs -> Stages] BY <2>1 DEF WriteTake
    <3>4. UNCHANGED <<closeVars, wire, accepted, errorCount, calls>> BY <2>1 DEF WriteTake
    <3>5. QED BY <3>1, <3>2, <3>3, <3>4
  <2>2. CASE WriteStop BY <2>2 DEF WriteStop
  <2>3. CASE WriteOk
    <3>1. wire' \in Seq(Nat) BY <2>3 DEF WriteOk
    <3>2. hand' \in Seq(Nat) /\ Len(hand') = 0 BY <2>3 DEF WriteOk
    <3>3. pc' \in [Procs -> Stages] BY <2>3 DEF WriteOk
    <3>4. UNCHANGED <<closeVars, sendChan, accepted, errorCount, calls>> BY <2>3 DEF WriteOk
    <3>5. QED BY <3>1, <3>2, <3>3, <3>4
  <2>4. CASE EncodeError
    <3>1. errorCount' \in Nat BY <2>4 DEF EncodeError
    <3>2. hand' \in Seq(Nat) /\ Len(hand') = 0 BY <2>4 DEF EncodeError
    <3>3. pc' \in [Procs -> Stages] BY <2>4 DEF EncodeError
    <3>4. UNCHANGED <<closeVars, sendChan, wire, accepted, calls>> BY <2>4 DEF EncodeError
    <3>5. QED BY <3>1, <3>2, <3>3, <3>4
  <2>5. CASE WriteError
    <3>1. errorCount' \in Nat BY <2>5 DEF WriteError
    <3>2. hand' \in Seq(Nat) /\ Len(hand') = 0 BY <2>5 DEF WriteError
    <3>3. pc' \in [Procs -> Stages] BY <2>5 DEF WriteError
    <3>4. UNCHANGED <<closeVars, sendChan, wire, accepted, calls>> BY <2>5 DEF WriteError
    <3>5. QED BY <3>1, <3>2, <3>3, <3>4
  <2>6. CASE EncodePanic
    <3>1. errorCount' \in Nat BY <2>6 DEF EncodePanic
    <3>2. hand' \in Seq(Nat) /\ Len(hand') = 0 BY <2>6 DEF EncodePanic
    <3>3. pc' \in [Procs -> Stages] BY <2>6 DEF EncodePanic
    <3>4. UNCHANGED <<closeVars, sendChan, wire, accepted, calls>> BY <2>6 DEF EncodePanic
    <3>5. QED BY <3>1, <3>2, <3>3, <3>4
  <2>7. QED BY <1>3, <2>1, <2>2, <2>3, <2>4, <2>5, <2>6 DEF WriteNext
<1>4. CASE HeartbeatNext
  <2>1. CASE PingTick
    <3>1. calls' \in Nat /\ UNCHANGED <<closeVars, dataVars>> BY <2>1 DEF PingTick
    <3>2. pc' \in [Procs -> Stages] BY <2>1 DEF PingTick
    <3>3. QED BY <3>1, <3>2
  <2>2. CASE PingStop BY <2>2 DEF PingStop
  <2>3. CASE CheckTimeout BY <2>3 DEF CheckTimeout
  <2>4. CASE CheckGiveUp BY <2>4 DEF CheckGiveUp
  <2>5. CASE CheckStop BY <2>5 DEF CheckStop
  <2>6. QED BY <1>4, <2>1, <2>2, <2>3, <2>4, <2>5 DEF HeartbeatNext
<1>5. ASSUME NEW p \in Callers, SendNext(p) PROVE TypeOK'
  <2>1. CASE SendCheck(p) BY <2>1 DEF SendCheck
  <2>2. CASE SendAccept(p)
    <3>1. accepted' \in Nat BY <2>2 DEF SendAccept
    <3>2. sendChan' \in Seq(Nat) /\ Len(sendChan') <= QueueCap BY <2>2 DEF SendAccept
    <3>3. pc' \in [Procs -> Stages] BY <2>2 DEF SendAccept
    <3>4. UNCHANGED <<closeVars, hand, wire, errorCount, calls>> BY <2>2 DEF SendAccept
    <3>5. QED BY <3>1, <3>2, <3>3, <3>4
  <2>3. CASE SendRefuse(p) BY <2>3 DEF SendRefuse
  <2>4. QED BY <1>5, <2>1, <2>2, <2>3 DEF SendNext
<1>6. ASSUME NEW p \in Shutters, CloseNext(p) PROVE TypeOK'
  BY <1>6 DEF CloseNext, CloseCAS, CloseChannel, HeartbeatStop, ZeroGauges, CloseSocket
<1>7. ASSUME NEW p \in Senders, ExternalSend(p) PROVE TypeOK'
  <2>1. calls' \in Nat /\ UNCHANGED <<closeVars, dataVars>> BY <1>7 DEF ExternalSend
  <2>2. pc' \in [Procs -> Stages] BY <1>7 DEF ExternalSend
  <2>3. QED BY <2>1, <2>2
<1>8. ASSUME NEW p \in Closers, ExternalClose(p) PROVE TypeOK'
  BY <1>8 DEF ExternalClose
<1>9. CASE UNCHANGED vars BY <1>9 DEF vars
<1>10. QED
  BY <1>1, <1>2, <1>3, <1>4, <1>5, <1>6, <1>7, <1>8, <1>9 DEF Next

-------------------------------------------------------------------------------
\* A goroutine that calls Close is none of those that only call Send.
LEMMA Distinct ==
  /\ "new" \notin Shutters
  /\ "pinger" \notin Shutters
  /\ \A p \in Senders : p \notin Shutters /\ p # "new" /\ p # "writer"
  /\ \A p \in Closers : p # "new" /\ p # "writer" /\ p # "reader" /\ p # "checker"
  /\ \A p \in Callers : p # "writer" /\ p # "new"
  /\ Shutters \subseteq Procs /\ Callers \subseteq Procs
  /\ {"new", "reader", "writer", "pinger", "checker"} \subseteq Procs
  /\ {"reader", "writer", "checker"} \subseteq Shutters
BY ConnectionAssumption DEF Shutters, Callers, Procs, Loops

\* A step that moves no Close and leaves its flags alone preserves CloseInv.
LEMMA CloseFrame ==
  ASSUME CloseInv,
         UNCHANGED <<closed, closeChan, stopped, sockOpen>>,
         connGauge' = connGauge,
         \A p \in Shutters : pc'[p] \in Closing => pc'[p] = pc[p]
  PROVE  CloseInv'
BY DEF CloseInv

LEMMA NewCloseStep == TypeOK /\ NewInv /\ CloseInv /\ [Next]_vars => NewInv' /\ CloseInv'
<1> SUFFICES ASSUME TypeOK, NewInv, CloseInv, [Next]_vars PROVE NewInv' /\ CloseInv'
  OBVIOUS
<1> USE Distinct DEF Goto, closeVars, dataVars, CallSend, AfterSend, AfterClose
<1>a. pc \in [Procs -> Stages] BY DEF TypeOK
<1>1. CASE NewNext
  <2>1. CASE Spawn
    <3>1. NewInv' BY <1>a, <2>1 DEF Spawn, NewInv, Procs
    <3>2. ~closed /\ sockOpen /\ \A p \in Shutters : pc'[p] \notin Closing
      BY <1>a, <2>1 DEF Spawn, NewInv, CloseInv, Procs
    <3>3. UNCHANGED <<closed, closeChan, stopped, sockOpen>> BY <2>1 DEF Spawn
    <3>4. QED BY <3>1, <3>2, <3>3 DEF CloseInv
  <2>2. CASE HbConnected \/ HbSpawn
    <3>1. NewInv' BY <1>a, <2>2 DEF HbConnected, HbSpawn, NewInv, Procs
    <3>2. UNCHANGED <<closed, closeChan, stopped, sockOpen>> /\ connGauge' = connGauge
      BY <2>2 DEF HbConnected, HbSpawn
    <3>3. \A p \in Shutters : pc'[p] \in Closing => pc'[p] = pc[p]
      BY <1>a, <2>2 DEF HbConnected, HbSpawn
    <3>4. QED BY <3>1, <3>2, <3>3, CloseFrame
  <2>3. QED BY <1>1, <2>1, <2>2 DEF NewNext
<1>2. CASE ReadNext
  <2>1. CASE ReadTop \/ ReadPing \/ ReadNothing \/ ReadEnd \/ ReadError
    <3>1. UNCHANGED <<closed, closeChan, stopped, sockOpen>> /\ connGauge' = connGauge
      BY <2>1 DEF ReadTop, ReadPing, ReadNothing, ReadEnd, ReadError
    <3>2. \A p \in Shutters : pc'[p] \in Closing => pc'[p] = pc[p]
      BY <1>a, <2>1 DEF ReadTop, ReadPing, ReadNothing, ReadEnd, ReadError
    <3>3. pc["reader"] \in {"top", "decode"} /\ pc'["new"] = pc["new"]
      BY <1>a, <2>1 DEF ReadTop, ReadPing, ReadNothing, ReadEnd, ReadError
    <3>4. NewInv' BY <3>3 DEF NewInv
    <3>5. QED BY <3>1, <3>2, <3>4, CloseFrame
  <2>2. ASSUME NEW p \in Senders, ReadRequest(p) PROVE NewInv' /\ CloseInv'
    <3>1. UNCHANGED <<closed, closeChan, stopped, sockOpen>> /\ connGauge' = connGauge
      BY <2>2 DEF ReadRequest
    <3>2. \A q \in Shutters : pc'[q] \in Closing => pc'[q] = pc[q]
      BY <1>a, <2>2 DEF ReadRequest
    <3>3. NewInv' BY <1>a, <2>2 DEF NewInv, ReadRequest
    <3>4. QED BY <3>1, <3>2, <3>3, CloseFrame
  <2>3. QED BY <1>2, <2>1, <2>2 DEF ReadNext
<1>3. CASE WriteNext
  <2>1. UNCHANGED <<closed, closeChan, stopped, sockOpen>> /\ connGauge' = connGauge
    BY <1>3 DEF WriteNext, WriteTake, WriteStop, WriteOk, EncodeError, WriteError, EncodePanic
  <2>2. \A p \in Shutters : pc'[p] \in Closing => pc'[p] = pc[p]
    BY <1>a, <1>3
    DEF WriteNext, WriteTake, WriteStop, WriteOk, EncodeError, WriteError, EncodePanic
  <2>3. pc["writer"] \in {"top", "hand"} /\ pc'["new"] = pc["new"]
    BY <1>a, <1>3
    DEF WriteNext, WriteTake, WriteStop, WriteOk, EncodeError, WriteError, EncodePanic
  <2>4. NewInv' BY <2>3 DEF NewInv
  <2>5. QED BY <2>1, <2>2, <2>4, CloseFrame
<1>4. CASE HeartbeatNext
  <2>1. UNCHANGED <<closed, closeChan, stopped, sockOpen>> /\ connGauge' = connGauge
    BY <1>4 DEF HeartbeatNext, PingTick, PingStop, CheckTimeout, CheckGiveUp, CheckStop
  <2>2. \A p \in Shutters : pc'[p] \in Closing => pc'[p] = pc[p]
    BY <1>a, <1>4 DEF HeartbeatNext, PingTick, PingStop, CheckTimeout, CheckGiveUp, CheckStop
  <2>3. /\ pc'["new"] = pc["new"]
        /\ \A p \in Shutters : pc'[p] = pc[p] \/ pc[p] \in {"top", "retry"}
    BY <1>a, <1>4 DEF HeartbeatNext, PingTick, PingStop, CheckTimeout, CheckGiveUp, CheckStop
  <2>4. pc'["writer"] = pc["writer"]
    BY <1>a, <1>4 DEF HeartbeatNext, PingTick, PingStop, CheckTimeout, CheckGiveUp, CheckStop
  <2>5. NewInv' BY <2>1, <2>3, <2>4 DEF NewInv
  <2>6. QED BY <2>1, <2>2, <2>5, CloseFrame
<1>5. ASSUME NEW p \in Callers, SendNext(p) PROVE NewInv' /\ CloseInv'
  <2>1. UNCHANGED <<closed, closeChan, stopped, sockOpen>> /\ connGauge' = connGauge
    BY <1>5 DEF SendNext, SendCheck, SendAccept, SendRefuse
  <2>2. pc[p] \in {"check", "select"} /\ \A q \in Procs : q # p => pc'[q] = pc[q]
    BY <1>a, <1>5 DEF SendNext, SendCheck, SendAccept, SendRefuse
  <2>3. pc'[p] \in {"select", "top", "done", "idle"}
    BY <1>a, <1>5 DEF SendNext, SendCheck, SendAccept, SendRefuse
  <2>4. \A q \in Shutters : pc'[q] \in Closing => pc'[q] = pc[q]
    BY <2>2, <2>3
  <2>5. NewInv' BY <2>1, <2>2 DEF NewInv, Procs
  <2>6. QED BY <2>1, <2>4, <2>5, CloseFrame
<1>6. ASSUME NEW p \in Shutters, CloseNext(p) PROVE NewInv' /\ CloseInv'
  <2>1. pc[p] \in {"close"} \cup Closing /\ \A q \in Procs : q # p => pc'[q] = pc[q]
    BY <1>a, <1>6 DEF CloseNext, CloseCAS, CloseChannel, HeartbeatStop, ZeroGauges, CloseSocket
  <2>2. NewInv' BY <2>1 DEF NewInv, Procs
  <2>3. CASE CloseCAS(p) BY <1>a, <2>2, <2>3 DEF CloseCAS, CloseInv
  <2>4. CASE CloseChannel(p) BY <1>a, <2>2, <2>4 DEF CloseChannel, CloseInv
  <2>5. CASE HeartbeatStop(p) BY <1>a, <2>2, <2>5 DEF HeartbeatStop, CloseInv
  <2>6. CASE ZeroGauges(p) BY <1>a, <2>2, <2>6 DEF ZeroGauges, CloseInv
  <2>7. CASE CloseSocket(p) BY <1>a, <2>2, <2>7 DEF CloseSocket, CloseInv
  <2>8. QED BY <1>6, <2>3, <2>4, <2>5, <2>6, <2>7 DEF CloseNext
<1>7. ASSUME NEW p \in Senders, ExternalSend(p) PROVE NewInv' /\ CloseInv'
  <2>1. \A q \in Shutters : pc'[q] \in Closing => pc'[q] = pc[q]
    BY <1>a, <1>7 DEF ExternalSend
  <2>2. NewInv' BY <1>a, <1>7 DEF ExternalSend, NewInv
  <2>3. QED BY <1>7, <2>1, <2>2, CloseFrame DEF ExternalSend
<1>8. ASSUME NEW p \in Closers, ExternalClose(p) PROVE NewInv' /\ CloseInv'
  <2>1. \A q \in Shutters : pc'[q] \in Closing => pc'[q] = pc[q]
    BY <1>a, <1>8 DEF ExternalClose
  <2>2. NewInv' BY <1>a, <1>8 DEF ExternalClose, NewInv
  <2>3. QED BY <1>8, <2>1, <2>2, CloseFrame DEF ExternalClose
<1>9. CASE UNCHANGED vars BY <1>9 DEF vars, NewInv, CloseInv
<1>10. QED
  BY <1>1, <1>2, <1>3, <1>4, <1>5, <1>6, <1>7, <1>8, <1>9 DEF Next

-------------------------------------------------------------------------------
\* A step that leaves the packets and writeLoop alone preserves WriterInv.
LEMMA WriterFrame ==
  ASSUME WriterInv, UNCHANGED dataVars, pc'["writer"] = pc["writer"]
  PROVE  WriterInv'
BY DEF WriterInv, dataVars

LEMMA WriterStep ==
  TypeOK /\ NewInv /\ WriterInv /\ [Next]_vars => WriterInv'
<1> SUFFICES ASSUME TypeOK, NewInv, WriterInv, [Next]_vars PROVE WriterInv'
  OBVIOUS
<1> USE Distinct DEF Goto, CallSend, AfterSend, AfterClose
<1>a. pc \in [Procs -> Stages] BY DEF TypeOK
<1>b. /\ sendChan \in Seq(Nat) /\ hand \in Seq(Nat) /\ wire \in Seq(Nat)
      /\ accepted \in Nat /\ errorCount \in Nat
  BY DEF TypeOK
<1>1. CASE NewNext
  <2>1. CASE Spawn
    <3>1. pc["writer"] = "none" /\ pc'["writer"] = "top"
      BY <1>a, <2>1 DEF Spawn, NewInv
    <3>2. UNCHANGED dataVars BY <2>1 DEF Spawn
    <3>3. QED BY <3>1, <3>2 DEF WriterInv, dataVars
  <2>2. CASE HbConnected \/ HbSpawn
    BY <1>a, <2>2, WriterFrame DEF HbConnected, HbSpawn
  <2>3. QED BY <1>1, <2>1, <2>2 DEF NewNext
<1>2. CASE ReadNext
  <2>1. CASE ReadTop \/ ReadPing \/ ReadNothing \/ ReadEnd
    BY <1>a, <2>1, WriterFrame DEF ReadTop, ReadPing, ReadNothing, ReadEnd
  <2>2. ASSUME NEW p \in Senders, ReadRequest(p) PROVE WriterInv'
    BY <1>a, <2>2, WriterFrame DEF ReadRequest
  <2>3. CASE ReadError
    <3>1. pc'["writer"] = pc["writer"] BY <1>a, <2>3 DEF ReadError
    <3>2. errorCount' = errorCount + 1 /\ UNCHANGED <<sendChan, hand, wire, accepted>>
      BY <2>3 DEF ReadError
    <3>3. QED BY <1>b, <3>1, <3>2 DEF WriterInv
  <2>4. QED BY <1>2, <2>1, <2>2, <2>3 DEF ReadNext
<1>3. CASE WriteNext
  <2>1. CASE WriteTake
    <3>1. pc["writer"] = "top" /\ pc'["writer"] = "hand" BY <1>a, <2>1 DEF WriteTake
    <3>2. Len(hand') = 1 /\ Len(sendChan') = Len(sendChan) - 1 /\ sendChan # <<>>
      BY <1>b, <2>1 DEF WriteTake
    <3>3. UNCHANGED <<wire, accepted, errorCount>> BY <2>1 DEF WriteTake
    <3>4. QED BY <1>b, <3>1, <3>2, <3>3 DEF WriterInv
  <2>2. CASE WriteStop
    <3>1. pc["writer"] = "top" /\ pc'["writer"] = "close" BY <1>a, <2>2 DEF WriteStop
    <3>2. UNCHANGED dataVars BY <2>2 DEF WriteStop
    <3>3. QED BY <3>1, <3>2 DEF WriterInv, dataVars
  <2>3. CASE WriteOk
    <3>1. pc["writer"] = "hand" /\ pc'["writer"] = "top" BY <1>a, <2>3 DEF WriteOk
    <3>2. Len(hand) = 1 BY <3>1 DEF WriterInv
    <3>3. Len(wire') = Len(wire) + 1
      <4>1. Len(wire \o hand) = Len(wire) + Len(hand) BY <1>b
      <4>2. QED BY <2>3, <3>2, <4>1 DEF WriteOk
    <3>4. hand' = <<>> /\ Len(hand') = 0 BY <2>3 DEF WriteOk
    <3>5. UNCHANGED <<sendChan, accepted, errorCount>> BY <2>3 DEF WriteOk
    <3>6. Len(wire) \in Nat /\ Len(sendChan) \in Nat BY <1>b
    <3>7. accepted <= Len(wire) + 1 + Len(sendChan) + errorCount
      BY <3>1, <3>2 DEF WriterInv
    <3>8. accepted' <= Len(wire') + Len(hand') + Len(sendChan') + errorCount'
      BY <1>b, <3>3, <3>4, <3>5, <3>6, <3>7
    <3>9. QED BY <3>1, <3>4, <3>8 DEF WriterInv
  <2>4. CASE EncodeError
    <3>1. pc["writer"] = "hand" /\ pc'["writer"] = "top" BY <1>a, <2>4 DEF EncodeError
    <3>2. hand' = <<>> /\ Len(hand') = 0 BY <2>4 DEF EncodeError
    <3>3. errorCount' = errorCount + 1 /\ UNCHANGED <<sendChan, wire, accepted>>
      BY <2>4 DEF EncodeError
    <3>4. Len(wire) \in Nat /\ Len(sendChan) \in Nat BY <1>b
    <3>5. accepted <= Len(wire) + 1 + Len(sendChan) + errorCount
      BY <3>1 DEF WriterInv
    <3>6. accepted' <= Len(wire') + Len(hand') + Len(sendChan') + errorCount'
      BY <1>b, <3>2, <3>3, <3>4, <3>5
    <3>7. QED BY <3>1, <3>2, <3>6 DEF WriterInv
  <2>5. CASE WriteError \/ EncodePanic
    <3>1. pc'["writer"] = "close" /\ hand' = <<>>
      BY <1>a, <2>5 DEF WriteError, EncodePanic
    <3>2. QED BY <3>1 DEF WriterInv
  <2>6. QED BY <1>3, <2>1, <2>2, <2>3, <2>4, <2>5 DEF WriteNext
<1>4. CASE HeartbeatNext
  BY <1>a, <1>4, WriterFrame
  DEF HeartbeatNext, PingTick, PingStop, CheckTimeout, CheckGiveUp, CheckStop
<1>5. ASSUME NEW p \in Callers, SendNext(p) PROVE WriterInv'
  <2>1. CASE SendCheck(p) \/ SendRefuse(p)
    BY <1>a, <2>1, WriterFrame DEF SendCheck, SendRefuse
  <2>2. CASE SendAccept(p)
    <3>1. pc'["writer"] = pc["writer"] BY <1>a, <2>2 DEF SendAccept
    <3>2. /\ accepted' = accepted + 1 /\ Len(sendChan') = Len(sendChan) + 1
          /\ UNCHANGED <<hand, wire, errorCount>>
      BY <1>b, <2>2 DEF SendAccept
    <3>3. QED BY <1>b, <3>1, <3>2 DEF WriterInv
  <2>3. QED BY <1>5, <2>1, <2>2 DEF SendNext
<1>6. ASSUME NEW p \in Shutters, CloseNext(p) PROVE WriterInv'
  <2>1. UNCHANGED dataVars
    BY <1>6 DEF CloseNext, CloseCAS, CloseChannel, HeartbeatStop, ZeroGauges, CloseSocket
  <2>2. CASE p = "writer"
    <3>1. pc["writer"] # "hand" /\ pc'["writer"] \in Closing \cup {"done"}
      BY <1>a, <1>6, <2>2
      DEF CloseNext, CloseCAS, CloseChannel, HeartbeatStop, ZeroGauges, CloseSocket
    <3>2. QED BY <2>1, <3>1 DEF WriterInv, dataVars
  <2>3. CASE p # "writer"
    <3>1. pc'["writer"] = pc["writer"]
      BY <1>a, <1>6, <2>3
      DEF CloseNext, CloseCAS, CloseChannel, HeartbeatStop, ZeroGauges, CloseSocket
    <3>2. QED BY <2>1, <3>1, WriterFrame
  <2>4. QED BY <2>2, <2>3
<1>7. ASSUME NEW p \in Senders, ExternalSend(p) PROVE WriterInv'
  BY <1>a, <1>7, WriterFrame DEF ExternalSend
<1>8. ASSUME NEW p \in Closers, ExternalClose(p) PROVE WriterInv'
  BY <1>a, <1>8, WriterFrame DEF ExternalClose
<1>9. CASE UNCHANGED vars BY <1>9, WriterFrame DEF vars, dataVars
<1>10. QED
  BY <1>1, <1>2, <1>3, <1>4, <1>5, <1>6, <1>7, <1>8, <1>9 DEF Next

-------------------------------------------------------------------------------
LEMMA InitInv == Init => IInv
<1> SUFFICES ASSUME Init PROVE IInv
  OBVIOUS
<1> USE Distinct DEF Init
<1>1. TypeOK
  <2>1. pc \in [Procs -> Stages] BY DEF Stages
  <2>2. <<>> \in Seq(Nat) /\ Len(<<>>) = 0 OBVIOUS
  <2>3. 0 <= QueueCap BY ConnectionAssumption
  <2>4. /\ sendChan \in Seq(Nat) /\ Len(sendChan) <= QueueCap
        /\ hand \in Seq(Nat) /\ Len(hand) <= 1 /\ wire \in Seq(Nat)
    BY <2>2, <2>3
  <2>5. accepted \in Nat /\ errorCount \in Nat /\ calls \in Nat
    OBVIOUS
  <2>6. /\ closed \in BOOLEAN /\ closeChan \in BOOLEAN /\ stopped \in BOOLEAN
        /\ sockOpen \in BOOLEAN /\ connGauge \in {0, 1} /\ hbGauge \in {0, 1}
    OBVIOUS
  <2>7. QED BY <2>1, <2>4, <2>5, <2>6 DEF TypeOK
<1>2. \A p \in Shutters : pc[p] \in {"none", "idle"} BY DEF Loops
<1>3. pc["writer"] = "none" BY DEF Loops
<1>4. NewInv BY <1>2, <1>3 DEF NewInv
<1>5. CloseInv BY <1>2 DEF CloseInv
<1>6. WriterInv BY <1>3 DEF WriterInv
<1>7. QED BY <1>1, <1>4, <1>5, <1>6 DEF IInv

(***************************************************************************)
(* The inductive invariant holds in every state the connection reaches.    *)
(***************************************************************************)
THEOREM Invariance == SafeSpec => []IInv
<1>1. IInv /\ [Next]_vars => IInv'
  BY TypeStep, NewCloseStep, WriterStep DEF IInv
<1>2. QED BY InitInv, <1>1, PTL DEF SafeSpec

(***************************************************************************)
(* TypeOK for every value of the constants: among the rest, sendChan never *)
(* exceeds its capacity (network/conn.go, Send).                           *)
(***************************************************************************)
THEOREM TypeCorrect == SafeSpec => []TypeOK
<1>1. IInv => TypeOK BY DEF IInv
<1>2. QED BY Invariance, <1>1, PTL

(***************************************************************************)
(* However many owners and loops call Close at once, close(closeChan) and  *)
(* close(stopped) run once (network/conn.go, Close).                       *)
(***************************************************************************)
THEOREM ClosesOnce == SafeSpec => []NoDoubleClose
<1>1. IInv => NoDoubleClose BY DEF IInv, CloseInv, NoDoubleClose
<1>2. QED BY Invariance, <1>1, PTL

(***************************************************************************)
(* The Connected gauge is down once the socket is closed, although the     *)
(* constructor sets it while the first loops are about to start.           *)
(***************************************************************************)
THEOREM GaugeDown == SafeSpec => []GaugeDownWhenClosed
<1>1. IInv => GaugeDownWhenClosed BY DEF IInv, CloseInv, GaugeDownWhenClosed
<1>2. QED BY Invariance, <1>1, PTL

(***************************************************************************)
(* While writeLoop runs, every accepted packet is on the wire, waiting, or *)
(* counted as an error (network/conn.go, writeLoop).                       *)
(***************************************************************************)
THEOREM LossIsCounted == SafeSpec => []LossCounted
<1>1. IInv => LossCounted BY DEF IInv, WriterInv, LossCounted
<1>2. QED BY Invariance, <1>1, PTL

-------------------------------------------------------------------------------
(* The connection implements its contract. *)

\* Taking the head of a queue into an empty hand leaves what waits as it was.
LEMMA HandAndQueue ==
  ASSUME NEW s \in Seq(Nat), s # <<>>
  PROVE  <<Head(s)>> \o Tail(s) = s
OBVIOUS

\* The packet in hand is the first of those that wait.
LEMMA HandIsHead ==
  ASSUME NEW h \in Seq(Nat), Len(h) = 1, NEW s \in Seq(Nat)
  PROVE  /\ h \o s # <<>> /\ Tail(h \o s) = s
         /\ \A w \in Seq(Nat) : w \o h = Append(w, Head(h \o s))
<1>1. /\ h \o s \in Seq(Nat) /\ Len(h \o s) = Len(s) + 1 /\ Len(s) \in Nat
      /\ (h \o s)[1] = h[1] /\ \A i \in 1..Len(s) : (h \o s)[i + 1] = s[i]
  <2>1. /\ h \o s \in Seq(Nat) /\ Len(h \o s) = Len(h) + Len(s)
        /\ \A i \in 1..(Len(h) + Len(s)) :
              (h \o s)[i] = IF i <= Len(h) THEN h[i] ELSE s[i - Len(h)]
    BY ConcatProperties
  <2>2. Len(s) \in Nat OBVIOUS
  <2>3. (h \o s)[1] = h[1] BY <2>1, <2>2
  <2>4. ASSUME NEW i \in 1..Len(s) PROVE (h \o s)[i + 1] = s[i]
    <3>1. i + 1 \in 1..(Len(h) + Len(s)) /\ ~(i + 1 <= Len(h)) /\ (i + 1) - Len(h) = i
      BY <2>2
    <3>2. QED BY <2>1, <3>1
  <2>5. QED BY <2>1, <2>2, <2>3, <2>4
<1>2. /\ Tail(h \o s) \in Seq(Nat) /\ Len(Tail(h \o s)) = Len(s)
      /\ \A i \in 1..Len(s) : Tail(h \o s)[i] = s[i]
  BY <1>1
<1>3. Tail(h \o s) = s BY <1>2, SeqEqual
<1>4. ASSUME NEW w \in Seq(Nat) PROVE w \o h = Append(w, Head(h \o s))
  <2>1. /\ w \o h \in Seq(Nat) /\ Len(w \o h) = Len(w) + 1 /\ Len(w) \in Nat
        /\ \A i \in 1..Len(w) : (w \o h)[i] = w[i]
        /\ (w \o h)[Len(w) + 1] = h[1]
    <3>1. /\ w \o h \in Seq(Nat) /\ Len(w \o h) = Len(w) + Len(h)
          /\ \A i \in 1..(Len(w) + Len(h)) :
                (w \o h)[i] = IF i <= Len(w) THEN w[i] ELSE h[i - Len(w)]
      BY ConcatProperties
    <3>2. Len(w) \in Nat OBVIOUS
    <3>3. (Len(w) + 1) - Len(w) = 1 /\ ~(Len(w) + 1 <= Len(w)) BY <3>2
    <3>4. (w \o h)[Len(w) + 1] = h[1] BY <3>1, <3>2, <3>3
    <3>5. QED BY <3>1, <3>2, <3>4
  <2>2. Head(h \o s) = h[1] /\ h[1] \in Nat BY <1>1
  <2>3. /\ Append(w, h[1]) \in Seq(Nat) /\ Len(Append(w, h[1])) = Len(w) + 1
        /\ \A i \in 1..Len(w) : Append(w, h[1])[i] = w[i]
        /\ Append(w, h[1])[Len(w) + 1] = h[1]
    BY <2>2
  <2>4. \A i \in 1..(Len(w) + 1) : (w \o h)[i] = Append(w, h[1])[i]
    BY <2>1, <2>3
  <2>5. w \o h = Append(w, h[1]) BY <2>1, <2>3, <2>4, SeqEqual
  <2>6. QED BY <2>2, <2>5
<1>5. QED BY <1>1, <1>3, <1>4

\* A step that keeps the flags, the packets and the count of acceptances is invisible.
LEMMA Invisible ==
  ASSUME UNCHANGED <<closed, sockOpen, sendChan, hand, wire, accepted>>
  PROVE  UNCHANGED Contract!vars
BY DEF Contract!vars

LEMMA ContractStep == IInv /\ [Next]_vars => [Contract!Next]_Contract!vars
<1> SUFFICES ASSUME IInv, [Next]_vars PROVE Contract!Next \/ UNCHANGED Contract!vars
  OBVIOUS
<1> USE DEF closeVars, dataVars
<1>a. /\ sendChan \in Seq(Nat) /\ hand \in Seq(Nat) /\ wire \in Seq(Nat)
      /\ accepted \in Nat /\ QueueCap \in Nat /\ Len(hand) <= 1
  BY ConnectionAssumption DEF IInv, TypeOK
<1>1. CASE NewNext
  BY <1>1, Invisible DEF NewNext, Spawn, HbConnected, HbSpawn
<1>2. CASE ReadNext
  BY <1>2, Invisible
  DEF ReadNext, ReadTop, ReadPing, ReadNothing, ReadEnd, ReadError, ReadRequest, CallSend
<1>3. CASE WriteNext
  <2>1. CASE WriteTake
    <3>1. hand = <<>> BY <2>1 DEF WriteTake, IInv, WriterInv
    <3>2. sendChan # <<>> BY <2>1 DEF WriteTake
    <3>3. hand' \o sendChan' = sendChan BY <1>a, <2>1, <3>2, HandAndQueue DEF WriteTake
    <3>4. hand \o sendChan = sendChan BY <1>a, <3>1, ConcatEmptySeq
    <3>5. UNCHANGED <<closed, sockOpen, wire, accepted>> BY <2>1 DEF WriteTake
    <3>6. QED BY <3>3, <3>4, <3>5 DEF Contract!vars
  <2>2. CASE WriteStop BY <2>2, Invisible DEF WriteStop
  <2>3. CASE WriteOk
    <3>1. Len(hand) = 1 BY <2>3 DEF WriteOk, IInv, WriterInv
    <3>2. /\ hand \o sendChan # <<>> /\ Tail(hand \o sendChan) = sendChan
          /\ wire \o hand = Append(wire, Head(hand \o sendChan))
      BY <1>a, <3>1, HandIsHead
    <3>3. hand' \o sendChan' = sendChan
      BY <1>a, <2>3, ConcatEmptySeq DEF WriteOk
    <3>4. sockOpen /\ wire' = wire \o hand /\ UNCHANGED <<closed, sockOpen, accepted>>
      BY <2>3 DEF WriteOk
    <3>5. Contract!Deliver BY <3>2, <3>3, <3>4 DEF Contract!Deliver
    <3>6. QED BY <3>5 DEF Contract!Next
  <2>4. CASE EncodeError \/ WriteError \/ EncodePanic
    <3>1. pc["writer"] = "hand" /\ hand' = <<>>
          /\ UNCHANGED <<closed, sockOpen, sendChan, wire, accepted>>
      BY <2>4 DEF EncodeError, WriteError, EncodePanic
    <3>2. Len(hand) = 1 BY <3>1 DEF IInv, WriterInv
    <3>3. hand \o sendChan # <<>> /\ Tail(hand \o sendChan) = sendChan
      BY <1>a, <3>2, HandIsHead
    <3>4. hand' \o sendChan' = sendChan BY <1>a, <3>1, ConcatEmptySeq
    <3>5. Contract!Lose BY <3>1, <3>3, <3>4 DEF Contract!Lose
    <3>6. QED BY <3>5 DEF Contract!Next
  <2>5. QED BY <1>3, <2>1, <2>2, <2>3, <2>4 DEF WriteNext
<1>4. CASE HeartbeatNext
  BY <1>4, Invisible
  DEF HeartbeatNext, PingTick, PingStop, CheckTimeout, CheckGiveUp, CheckStop, CallSend
<1>5. ASSUME NEW p \in Callers, SendNext(p) PROVE Contract!Next \/ UNCHANGED Contract!vars
  <2>1. CASE SendCheck(p) \/ SendRefuse(p)
    BY <2>1, Invisible DEF SendCheck, SendRefuse
  <2>2. CASE SendAccept(p)
    <3>1. /\ sendChan' = Append(sendChan, accepted + 1) /\ accepted' = accepted + 1
          /\ Len(sendChan) < QueueCap /\ UNCHANGED <<closed, sockOpen, hand, wire>>
      BY <2>2 DEF SendAccept
    <3>2. hand' \o sendChan' = Append(hand \o sendChan, accepted + 1)
      BY <1>a, <3>1
    <3>3. Len(hand \o sendChan) < QueueCap + 1
      BY <1>a, <3>1, ConcatProperties
    <3>4. Contract!Accept BY <3>1, <3>2, <3>3 DEF Contract!Accept
    <3>5. QED BY <3>4 DEF Contract!Next
  <2>3. QED BY <1>5, <2>1, <2>2 DEF SendNext
<1>6. ASSUME NEW p \in Shutters, CloseNext(p) PROVE Contract!Next \/ UNCHANGED Contract!vars
  <2>1. CASE CloseCAS(p) /\ ~closed
    <3>1. closed' = TRUE /\ UNCHANGED <<sockOpen, sendChan, hand, wire, accepted>>
      BY <2>1 DEF CloseCAS
    <3>2. sockOpen BY <2>1 DEF IInv, CloseInv
    <3>3. Contract!BeginClose BY <2>1, <3>1, <3>2 DEF Contract!BeginClose
    <3>4. QED BY <3>3 DEF Contract!Next
  <2>2. CASE CloseCAS(p) /\ closed BY <2>2, Invisible DEF CloseCAS
  <2>3. CASE CloseChannel(p) \/ HeartbeatStop(p) \/ ZeroGauges(p)
    BY <2>3, Invisible DEF CloseChannel, HeartbeatStop, ZeroGauges
  <2>4. CASE CloseSocket(p)
    <3>1. pc[p] \in Closing /\ sockOpen' = FALSE
          /\ UNCHANGED <<closed, sendChan, hand, wire, accepted>>
      BY <2>4 DEF CloseSocket
    <3>2. closed /\ sockOpen BY <3>1 DEF IInv, CloseInv
    <3>3. Contract!EndClose BY <3>1, <3>2 DEF Contract!EndClose
    <3>4. QED BY <3>3 DEF Contract!Next
  <2>5. QED BY <1>6, <2>1, <2>2, <2>3, <2>4 DEF CloseNext
<1>7. ASSUME NEW p \in Senders, ExternalSend(p) PROVE Contract!Next \/ UNCHANGED Contract!vars
  BY <1>7, Invisible DEF ExternalSend, CallSend
<1>8. ASSUME NEW p \in Closers, ExternalClose(p) PROVE Contract!Next \/ UNCHANGED Contract!vars
  BY <1>8, Invisible DEF ExternalClose
<1>9. CASE UNCHANGED vars BY <1>9, Invisible DEF vars
<1>10. QED
  BY <1>1, <1>2, <1>3, <1>4, <1>5, <1>6, <1>7, <1>8, <1>9 DEF Next

(***************************************************************************)
(* Every behaviour of the connection is one of its contract: order, at     *)
(* most once, nothing after the close (network/conn.go).                   *)
(***************************************************************************)
THEOREM Refinement == SafeSpec => Contract!SafeSpec
<1>1. Init => Contract!Init
  <2>1. ASSUME Init PROVE hand \o sendChan = <<>> BY <2>1 DEF Init
  <2>2. QED BY <2>1 DEF Init, Contract!Init
<1>2. QED
  BY <1>1, Invariance, ContractStep, PTL DEF SafeSpec, Contract!SafeSpec

-------------------------------------------------------------------------------
\* The contract with its theorem, at the refinement mapping of module Connection.
Ordering == INSTANCE ConnContractProofs WITH
  Room      <- QueueCap + 1,
  life      <- IF ~closed THEN "open" ELSE IF sockOpen THEN "closing" ELSE "closed",
  accepted  <- accepted,
  pending   <- hand \o sendChan,
  delivered <- wire

(***************************************************************************)
(* Packets reach the socket in the order Send accepted them, none twice    *)
(* (network/conn.go, Send and writeLoop): inherited from the contract.     *)
(***************************************************************************)
THEOREM DeliversInOrder == SafeSpec => []DeliveredInOrder
<1>1. QueueCap + 1 \in Nat \ {0} BY ConnectionAssumption
<1>2. Ordering!SafeSpec => []Ordering!DeliveredInOrder BY <1>1, Ordering!InOrder
<1>3. Contract!Init => Ordering!Init BY DEF Contract!Init, Ordering!Init
<1>4. [Contract!Next]_Contract!vars => [Ordering!Next]_Ordering!vars
  BY DEF Contract!Next, Contract!vars, Contract!Accept, Contract!Deliver, Contract!Lose,
         Contract!BeginClose, Contract!EndClose, Ordering!Next, Ordering!vars,
         Ordering!Accept, Ordering!Deliver, Ordering!Lose, Ordering!BeginClose,
         Ordering!EndClose
<1>5. Ordering!DeliveredInOrder => DeliveredInOrder
  BY DEF Ordering!DeliveredInOrder, Ordering!Increasing, DeliveredInOrder,
         Contract!DeliveredInOrder, Contract!Increasing
<1>6. QED
  BY Refinement, <1>2, <1>3, <1>4, <1>5, PTL DEF Contract!SafeSpec, Ordering!SafeSpec

-------------------------------------------------------------------------------
(* What Send still accepts once the connection is closed. *)

LEMMA SelectFinite ==
  /\ IsFiniteSet(InSelect) /\ Cardinality(InSelect) \in Nat
  /\ \A S \in SUBSET InSelect : IsFiniteSet(S) /\ Cardinality(S) \in Nat
<1>1. IsFiniteSet(Callers)
  <2>1. Callers = (Senders \cup {"reader"}) \cup {"pinger"} BY DEF Callers
  <2>2. QED BY <2>1, ConnectionAssumption, FS_AddElement
<1>2. InSelect \subseteq Callers BY DEF InSelect
<1>3. QED BY <1>1, <1>2, FS_Subset, FS_CardinalityType

\* No goroutine comes to the select of Send any more; whoever is accepted leaves it.
LEMMA NoneComes ==
  ASSUME TypeOK, [Next]_vars, closed
  PROVE  \/ InSelect' \subseteq InSelect /\ accepted' = accepted
         \/ \E p \in InSelect : InSelect' \subseteq InSelect \ {p} /\ accepted' = accepted + 1
<1> USE Distinct DEF Goto, closeVars, dataVars, CallSend, AfterSend, AfterClose, InSelect
<1>a. pc \in [Procs -> Stages] BY DEF TypeOK
<1> DEFINE Still == InSelect' \subseteq InSelect /\ accepted' = accepted
<1>1. CASE NewNext BY <1>a, <1>1 DEF NewNext, Spawn, HbConnected, HbSpawn
<1>2. CASE ReadNext
  BY <1>a, <1>2
  DEF ReadNext, ReadTop, ReadPing, ReadNothing, ReadEnd, ReadError, ReadRequest
<1>3. CASE WriteNext
  BY <1>a, <1>3
  DEF WriteNext, WriteTake, WriteStop, WriteOk, EncodeError, WriteError, EncodePanic
<1>4. CASE HeartbeatNext
  BY <1>a, <1>4 DEF HeartbeatNext, PingTick, PingStop, CheckTimeout, CheckGiveUp, CheckStop
<1>5. ASSUME NEW p \in Callers, SendCheck(p) \/ SendRefuse(p) PROVE Still
  BY <1>a, <1>5 DEF SendCheck, SendRefuse
<1>6. ASSUME NEW p \in Callers, SendAccept(p)
      PROVE  \E q \in InSelect : InSelect' \subseteq InSelect \ {q} /\ accepted' = accepted + 1
  <2>1. p \in InSelect /\ accepted' = accepted + 1 BY <1>6 DEF SendAccept
  <2>2. InSelect' \subseteq InSelect \ {p} BY <1>a, <1>6 DEF SendAccept
  <2>3. QED BY <2>1, <2>2
<1>7. ASSUME NEW p \in Shutters, CloseNext(p) PROVE Still
  BY <1>a, <1>7 DEF CloseNext, CloseCAS, CloseChannel, HeartbeatStop, ZeroGauges, CloseSocket
<1>8. ASSUME NEW p \in Senders, ExternalSend(p) PROVE Still
  BY <1>a, <1>8 DEF ExternalSend
<1>9. ASSUME NEW p \in Closers, ExternalClose(p) PROVE Still
  BY <1>a, <1>9 DEF ExternalClose
<1>10. CASE UNCHANGED vars BY <1>10 DEF vars
<1>11. QED
  BY <1>1, <1>2, <1>3, <1>4, <1>5, <1>6, <1>7, <1>8, <1>9, <1>10 DEF Next, SendNext

(***************************************************************************)
(* However many goroutines call Send while the connection closes, only     *)
(* those already past IsClosed are accepted (network/conn.go, Send).       *)
(***************************************************************************)
THEOREM LateSendsOnly == SafeSpec => OnlyLateSendsAccepted
<1> DEFINE Fewer ==
      closed => accepted' + Cardinality(InSelect') <= accepted + Cardinality(InSelect)
<1>1. TypeOK /\ [Next]_vars => [Fewer]_vars
  <2> SUFFICES ASSUME TypeOK, [Next]_vars, closed
               PROVE  accepted' + Cardinality(InSelect') <= accepted + Cardinality(InSelect)
    OBVIOUS
  <2>1. accepted \in Nat BY DEF TypeOK
  <2>2. CASE InSelect' \subseteq InSelect /\ accepted' = accepted
    <3>1. Cardinality(InSelect') <= Cardinality(InSelect)
      BY <2>2, SelectFinite, FS_Subset
    <3>2. Cardinality(InSelect') \in Nat /\ Cardinality(InSelect) \in Nat
      BY <2>2, SelectFinite
    <3>3. QED BY <2>1, <2>2, <3>1, <3>2
  <2>3. ASSUME NEW p \in InSelect, InSelect' \subseteq InSelect \ {p},
               accepted' = accepted + 1
        PROVE  accepted' + Cardinality(InSelect') <= accepted + Cardinality(InSelect)
    <3>1. /\ IsFiniteSet(InSelect \ {p})
          /\ Cardinality(InSelect \ {p}) = Cardinality(InSelect) - 1
      BY SelectFinite, FS_RemoveElement
    <3>2. Cardinality(InSelect') <= Cardinality(InSelect \ {p})
      BY <2>3, <3>1, FS_Subset
    <3>3. Cardinality(InSelect') \in Nat /\ Cardinality(InSelect) \in Nat
      BY <2>3, SelectFinite
    <3>4. QED BY <2>1, <2>3, <3>1, <3>2, <3>3
  <2>4. QED BY <2>2, <2>3, NoneComes
<1>2. QED BY <1>1, TypeCorrect, PTL DEF SafeSpec, OnlyLateSendsAccepted

-------------------------------------------------------------------------------
(* The connection lives the one life that the pool and the server rely on. *)

\* The constructor starts the loops once; no other step moves it into or out of "spawn".
LEMMA SpawnOnce ==
  ASSUME TypeOK, [Next]_vars
  PROVE  Spawn \/ (pc'["new"] = "spawn" <=> pc["new"] = "spawn")
<1> USE Distinct DEF Goto, CallSend, AfterSend, AfterClose
<1>a. pc \in [Procs -> Stages] BY DEF TypeOK
<1>1. CASE HbConnected \/ HbSpawn BY <1>a, <1>1 DEF HbConnected, HbSpawn
<1>2. CASE ReadNext
  BY <1>a, <1>2
  DEF ReadNext, ReadTop, ReadPing, ReadNothing, ReadEnd, ReadError, ReadRequest
<1>3. CASE WriteNext
  BY <1>a, <1>3
  DEF WriteNext, WriteTake, WriteStop, WriteOk, EncodeError, WriteError, EncodePanic
<1>4. CASE HeartbeatNext
  BY <1>a, <1>4 DEF HeartbeatNext, PingTick, PingStop, CheckTimeout, CheckGiveUp, CheckStop
<1>5. ASSUME NEW p \in Callers, SendNext(p) PROVE pc'["new"] = pc["new"]
  BY <1>a, <1>5 DEF SendNext, SendCheck, SendAccept, SendRefuse
<1>6. ASSUME NEW p \in Shutters, CloseNext(p) PROVE pc'["new"] = pc["new"]
  BY <1>a, <1>6 DEF CloseNext, CloseCAS, CloseChannel, HeartbeatStop, ZeroGauges, CloseSocket
<1>7. ASSUME NEW p \in Senders, ExternalSend(p) PROVE pc'["new"] = pc["new"]
  BY <1>a, <1>7 DEF ExternalSend
<1>8. ASSUME NEW p \in Closers, ExternalClose(p) PROVE pc'["new"] = pc["new"]
  BY <1>a, <1>8 DEF ExternalClose
<1>9. CASE UNCHANGED vars BY <1>9 DEF vars
<1>10. QED
  BY <1>1, <1>2, <1>3, <1>4, <1>5, <1>6, <1>7, <1>8, <1>9 DEF Next, NewNext

LEMMA LifeStep == IInv /\ [Next]_vars => [Life!Next]_LifeSeen
<1> SUFFICES ASSUME IInv, [Next]_vars PROVE Life!Next \/ UNCHANGED LifeSeen
  OBVIOUS
<1>1. TypeOK BY DEF IInv
<1>2. CASE Spawn
  <2>1. ~closed /\ pc["new"] = "spawn" BY <1>2 DEF Spawn, IInv, NewInv
  <2>2. closed' = closed /\ pc'["new"] # "spawn"
    BY <1>1, <1>2, Distinct DEF Spawn, TypeOK
  <2>3. /\ LifeSeen = [c \in {"self"} |-> "none"]
        /\ LifeSeen' = [c \in {"self"} |-> "open"]
    BY <2>1, <2>2 DEF LifeSeen
  <2>4. Life!Open("self") BY <2>3 DEF Life!Open
  <2>5. QED BY <2>4 DEF Life!Next
<1>3. CASE ~Spawn /\ UNCHANGED <<closed, sockOpen>>
  BY <1>1, <1>3, SpawnOnce DEF LifeSeen
<1>4. ASSUME NEW p \in Shutters, CloseCAS(p), ~closed, ~Spawn
      PROVE  Life!Next
  <2>1. pc["new"] # "spawn" /\ sockOpen
    BY <1>4, Distinct DEF CloseCAS, IInv, NewInv, CloseInv
  <2>2. closed' = TRUE /\ sockOpen' = sockOpen /\ pc'["new"] # "spawn"
    BY <1>1, <1>4, <2>1, SpawnOnce DEF CloseCAS
  <2>3. /\ LifeSeen = [c \in {"self"} |-> "open"]
        /\ LifeSeen' = [c \in {"self"} |-> "closing"]
    BY <1>4, <2>1, <2>2 DEF LifeSeen
  <2>4. Life!BeginClose("self") BY <2>3 DEF Life!BeginClose
  <2>5. QED BY <2>4 DEF Life!Next
<1>5. ASSUME NEW p \in Shutters, CloseSocket(p), ~Spawn
      PROVE  Life!Next
  <2>1. pc[p] = "sock" /\ sockOpen' = FALSE /\ closed' = closed
    BY <1>5 DEF CloseSocket
  <2>2. closed /\ sockOpen /\ pc["new"] # "spawn"
    BY <2>1 DEF IInv, NewInv, CloseInv
  <2>3. pc'["new"] # "spawn" BY <1>1, <1>5, <2>2, SpawnOnce
  <2>4. /\ LifeSeen = [c \in {"self"} |-> "closing"]
        /\ LifeSeen' = [c \in {"self"} |-> "closed"]
    BY <2>1, <2>2, <2>3 DEF LifeSeen
  <2>5. Life!EndClose("self") BY <2>4 DEF Life!EndClose
  <2>6. QED BY <2>5 DEF Life!Next
<1>6. \/ Spawn \/ UNCHANGED <<closed, sockOpen>>
      \/ \E p \in Shutters : (CloseCAS(p) /\ ~closed) \/ CloseSocket(p)
  BY DEF Next, NewNext, HbConnected, HbSpawn, ReadNext, ReadTop, ReadPing, ReadNothing,
         ReadEnd, ReadError, ReadRequest, WriteNext, WriteTake, WriteStop, WriteOk,
         EncodeError, WriteError, EncodePanic, HeartbeatNext, PingTick, PingStop,
         CheckTimeout, CheckGiveUp, CheckStop, SendNext, SendCheck, SendAccept, SendRefuse,
         CloseNext, CloseCAS, CloseChannel, HeartbeatStop, ZeroGauges, ExternalSend,
         ExternalClose, CallSend, closeVars, dataVars, vars
<1>7. QED BY <1>2, <1>3, <1>4, <1>5, <1>6

(***************************************************************************)
(* Whoever closes it and whenever, a connection is opened once, closed     *)
(* once and never reopened (network/conn.go, Close): the safety of         *)
(* ImplementsLife, which module Server assumes of its connections.         *)
(***************************************************************************)
THEOREM OneLife == SafeSpec => Life!SafeSpec
<1>1. Init => Life!Init BY Distinct DEF Init, Life!Init, LifeSeen
<1>2. QED
  BY <1>1, Invariance, LifeStep, PTL DEF SafeSpec, Life!SafeSpec

-------------------------------------------------------------------------------
(* How far a Close has got, and that it leaves nothing undone. *)

\* checkLoop does not run before the constructor starts it.
CheckerInv == pc["new"] # "done" => pc["checker"] = "none"

LEMMA CheckerStep == TypeOK /\ CheckerInv /\ [Next]_vars => CheckerInv'
<1> SUFFICES ASSUME TypeOK, CheckerInv, [Next]_vars PROVE CheckerInv'
  OBVIOUS
<1> USE Distinct DEF Goto, CallSend, AfterSend, AfterClose, CheckerInv
<1>a. /\ pc \in [Procs -> Stages]
      /\ \A p \in Senders \cup Closers : p # "checker"
  BY ConnectionAssumption DEF TypeOK, Loops
<1>1. CASE NewNext BY <1>a, <1>1 DEF NewNext, Spawn, HbConnected, HbSpawn
<1>2. CASE ReadNext
  BY <1>a, <1>2
  DEF ReadNext, ReadTop, ReadPing, ReadNothing, ReadEnd, ReadError, ReadRequest
<1>3. CASE WriteNext
  BY <1>a, <1>3
  DEF WriteNext, WriteTake, WriteStop, WriteOk, EncodeError, WriteError, EncodePanic
<1>4. CASE HeartbeatNext
  BY <1>a, <1>4 DEF HeartbeatNext, PingTick, PingStop, CheckTimeout, CheckGiveUp, CheckStop
<1>5. ASSUME NEW p \in Callers, SendNext(p) PROVE CheckerInv'
  BY <1>a, <1>5 DEF SendNext, SendCheck, SendAccept, SendRefuse, Callers
<1>6. ASSUME NEW p \in Shutters, CloseNext(p) PROVE CheckerInv'
  BY <1>a, <1>6 DEF CloseNext, CloseCAS, CloseChannel, HeartbeatStop, ZeroGauges, CloseSocket
<1>7. ASSUME NEW p \in Senders, ExternalSend(p) PROVE CheckerInv'
  BY <1>a, <1>7 DEF ExternalSend
<1>8. ASSUME NEW p \in Closers, ExternalClose(p) PROVE CheckerInv'
  BY <1>a, <1>8 DEF ExternalClose
<1>9. CASE UNCHANGED vars BY <1>9 DEF vars
<1>10. QED
  BY <1>1, <1>2, <1>3, <1>4, <1>5, <1>6, <1>7, <1>8, <1>9 DEF Next

LEMMA CheckerInvariance == SafeSpec => []CheckerInv
<1>1. Init => CheckerInv BY Distinct DEF Init, CheckerInv, Loops
<1>2. QED BY <1>1, CheckerStep, TypeCorrect, PTL DEF SafeSpec

\* A step of no Close moves no goroutine into, through or out of one.
LEMMA OutsideClose ==
  ASSUME TypeOK, NewInv, CheckerInv, [Next]_vars, ~\E p \in Shutters : CloseNext(p)
  PROVE  /\ UNCHANGED <<closed, closeChan, stopped, sockOpen>>
         /\ \A p \in Shutters :
              pc'[p] = pc[p] \/ (pc[p] \notin Closing /\ pc'[p] \notin Closing)
<1> USE Distinct DEF Goto, closeVars, dataVars, CallSend, AfterSend, AfterClose
<1>a. pc \in [Procs -> Stages] BY DEF TypeOK
<1> DEFINE Outside ==
      /\ UNCHANGED <<closed, closeChan, stopped, sockOpen>>
      /\ \A p \in Shutters :
           pc'[p] = pc[p] \/ (pc[p] \notin Closing /\ pc'[p] \notin Closing)
<1>1. CASE NewNext
  <2>1. CASE Spawn
    <3>1. \A p \in Shutters : pc[p] \notin Closing BY <2>1 DEF Spawn, NewInv
    <3>2. QED BY <1>a, <2>1, <3>1 DEF Spawn
  <2>2. CASE HbConnected BY <1>a, <2>2 DEF HbConnected
  <2>3. CASE HbSpawn
    <3>1. pc["checker"] = "none" BY <2>3 DEF HbSpawn, CheckerInv
    <3>2. QED BY <1>a, <2>3, <3>1 DEF HbSpawn
  <2>4. QED BY <1>1, <2>1, <2>2, <2>3 DEF NewNext
<1>2. CASE ReadNext
  BY <1>a, <1>2
  DEF ReadNext, ReadTop, ReadPing, ReadNothing, ReadEnd, ReadError, ReadRequest
<1>3. CASE WriteNext
  BY <1>a, <1>3
  DEF WriteNext, WriteTake, WriteStop, WriteOk, EncodeError, WriteError, EncodePanic
<1>4. CASE HeartbeatNext
  BY <1>a, <1>4 DEF HeartbeatNext, PingTick, PingStop, CheckTimeout, CheckGiveUp, CheckStop
<1>5. ASSUME NEW p \in Callers, SendNext(p) PROVE Outside
  BY <1>a, <1>5 DEF SendNext, SendCheck, SendAccept, SendRefuse
<1>6. ASSUME NEW p \in Senders, ExternalSend(p) PROVE Outside
  BY <1>a, <1>6 DEF ExternalSend
<1>7. ASSUME NEW p \in Closers, ExternalClose(p) PROVE Outside
  BY <1>a, <1>7 DEF ExternalClose
<1>8. CASE UNCHANGED vars BY <1>8 DEF vars
<1>9. QED BY <1>1, <1>2, <1>3, <1>4, <1>5, <1>6, <1>7, <1>8 DEF Next

\* What a Close has passed is done; when none is under way, all of it.
Passed ==
  /\ \A p \in Shutters :
       /\ pc[p] \in {"stop", "gauges", "sock"} => closeChan
       /\ pc[p] \in {"gauges", "sock"} => stopped
  /\ closed /\ (\A p \in Shutters : pc[p] \notin Closing) =>
       closeChan /\ stopped /\ ~sockOpen

LEMMA PassedStep == IInv /\ CheckerInv /\ Passed /\ [Next]_vars => Passed'
<1> SUFFICES ASSUME IInv, CheckerInv, Passed, [Next]_vars PROVE Passed'
  OBVIOUS
<1>a. TypeOK /\ NewInv /\ CloseInv /\ pc \in [Procs -> Stages] BY DEF IInv, TypeOK
<1>1. CASE ~\E p \in Shutters : CloseNext(p) BY <1>a, <1>1, OutsideClose DEF Passed
<1>2. ASSUME NEW p \in Shutters, CloseNext(p) PROVE Passed'
  <2> USE Distinct DEF Goto, AfterClose
  <2>1. CASE CloseCAS(p)
    <3>1. CASE closed BY <1>a, <2>1, <3>1 DEF CloseCAS, Passed
    <3>2. CASE ~closed
      <4>1. pc'[p] = "chan" BY <1>a, <2>1, <3>2 DEF CloseCAS
      <4>2. QED BY <1>a, <2>1, <3>2, <4>1 DEF CloseCAS, Passed
    <3>3. QED BY <3>1, <3>2
  <2>2. CASE CloseChannel(p) BY <1>a, <2>2 DEF CloseChannel, Passed
  <2>3. CASE HeartbeatStop(p) BY <1>a, <2>3 DEF HeartbeatStop, Passed
  <2>4. CASE ZeroGauges(p) BY <1>a, <2>4 DEF ZeroGauges, Passed
  <2>5. CASE CloseSocket(p) BY <1>a, <2>5 DEF CloseSocket, Passed
  <2>6. QED BY <1>2, <2>1, <2>2, <2>3, <2>4, <2>5 DEF CloseNext
<1>3. QED BY <1>1, <1>2

(***************************************************************************)
(* Once Close has begun and nobody is inside it any more, closeChan and the*)
(* heartbeat's channel are closed and the socket is released, whoever won  *)
(* and whoever else called: what CloseReleasesAll needs besides fairness.  *)
(***************************************************************************)
THEOREM CloseIsWhole ==
  SafeSpec => [](closed /\ (\A p \in Shutters : pc[p] \notin Closing) =>
                   closeChan /\ stopped /\ ~sockOpen)
<1>1. Init => Passed BY Distinct DEF Init, Passed, Loops
<1>2. Passed => (closed /\ (\A p \in Shutters : pc[p] \notin Closing) =>
                   closeChan /\ stopped /\ ~sockOpen)
  BY DEF Passed
<1>3. QED BY <1>1, <1>2, PassedStep, CheckerInvariance, Invariance, PTL DEF SafeSpec

-------------------------------------------------------------------------------
(* The heartbeat's gauge. *)

\* The constructor is over, and a Close that has passed the gauges has zeroed this one.
Zeroed ==
  /\ pc["new"] = "done"
  /\ closed /\ (\A p \in Shutters : pc[p] \notin {"chan", "stop", "gauges"}) => hbGauge = 0

\* After the constructor the gauge is only ever zeroed.
LEMMA OnlyDown ==
  ASSUME TypeOK, [Next]_vars, pc["new"] = "done"
  PROVE  pc'["new"] = "done" /\ hbGauge' \in {hbGauge, 0}
<1> USE Distinct DEF Goto, closeVars, dataVars, CallSend, AfterSend, AfterClose
<1>a. pc \in [Procs -> Stages] BY DEF TypeOK
<1> DEFINE Down == pc'["new"] = "done" /\ hbGauge' \in {hbGauge, 0}
<1>1. ~NewNext BY DEF NewNext, Spawn, HbConnected, HbSpawn
<1>2. CASE ReadNext
  BY <1>a, <1>2
  DEF ReadNext, ReadTop, ReadPing, ReadNothing, ReadEnd, ReadError, ReadRequest
<1>3. CASE WriteNext
  BY <1>a, <1>3
  DEF WriteNext, WriteTake, WriteStop, WriteOk, EncodeError, WriteError, EncodePanic
<1>4. CASE HeartbeatNext
  BY <1>a, <1>4 DEF HeartbeatNext, PingTick, PingStop, CheckTimeout, CheckGiveUp, CheckStop
<1>5. ASSUME NEW p \in Callers, SendNext(p) PROVE Down
  BY <1>a, <1>5 DEF SendNext, SendCheck, SendAccept, SendRefuse
<1>6. ASSUME NEW p \in Shutters, CloseNext(p) PROVE Down
  BY <1>a, <1>6 DEF CloseNext, CloseCAS, CloseChannel, HeartbeatStop, ZeroGauges, CloseSocket
<1>7. ASSUME NEW p \in Senders, ExternalSend(p) PROVE Down
  BY <1>a, <1>7 DEF ExternalSend
<1>8. ASSUME NEW p \in Closers, ExternalClose(p) PROVE Down
  BY <1>a, <1>8 DEF ExternalClose
<1>9. CASE UNCHANGED vars BY <1>9 DEF vars
<1>10. QED
  BY <1>1, <1>2, <1>3, <1>4, <1>5, <1>6, <1>7, <1>8, <1>9 DEF Next

LEMMA ZeroedStep == IInv /\ CheckerInv /\ Zeroed /\ [Next]_vars => Zeroed'
<1> SUFFICES ASSUME IInv, CheckerInv, Zeroed, [Next]_vars PROVE Zeroed'
  OBVIOUS
<1>a. TypeOK /\ NewInv /\ CloseInv /\ pc \in [Procs -> Stages] BY DEF IInv, TypeOK
<1>b. pc'["new"] = "done" /\ hbGauge' \in {hbGauge, 0} BY <1>a, OnlyDown DEF Zeroed
<1>1. CASE ~\E p \in Shutters : CloseNext(p)
  BY <1>a, <1>b, <1>1, OutsideClose DEF Zeroed
<1>2. ASSUME NEW p \in Shutters, CloseNext(p) PROVE Zeroed'
  <2> USE Distinct DEF Goto, AfterClose
  <2>1. CASE CloseCAS(p)
    <3>1. CASE closed BY <1>a, <1>b, <2>1, <3>1 DEF CloseCAS, Zeroed
    <3>2. CASE ~closed
      <4>1. pc'[p] = "chan" BY <1>a, <2>1, <3>2 DEF CloseCAS
      <4>2. QED BY <1>b, <4>1 DEF Zeroed
    <3>3. QED BY <3>1, <3>2
  <2>2. CASE CloseChannel(p)
    <3>1. pc'[p] = "stop" BY <1>a, <2>2 DEF CloseChannel
    <3>2. QED BY <1>b, <3>1 DEF Zeroed
  <2>3. CASE HeartbeatStop(p)
    <3>1. pc'[p] = "gauges" BY <1>a, <2>3 DEF HeartbeatStop
    <3>2. QED BY <1>b, <3>1 DEF Zeroed
  <2>4. CASE ZeroGauges(p) BY <1>b, <2>4 DEF ZeroGauges, Zeroed
  <2>5. CASE CloseSocket(p) BY <1>a, <1>b, <2>5 DEF CloseSocket, CloseInv, Zeroed
  <2>6. QED BY <1>2, <2>1, <2>2, <2>3, <2>4, <2>5 DEF CloseNext
<1>3. QED BY <1>1, <1>2

(***************************************************************************)
(* From any moment at which the constructor is over and nobody has closed, *)
(* a released socket means a heartbeat gauge of 0, although checkLoop      *)
(* writes it too (network/heartbeat.go, Stop and handleTimeout).           *)
(***************************************************************************)
THEOREM HeartbeatGaugeFalls == SafeSpec => HeartbeatGaugeDown
<1>1. pc["new"] = "done" /\ ~closed => Zeroed BY DEF Zeroed
<1>2. IInv /\ Zeroed => (~sockOpen => hbGauge = 0)
  BY DEF IInv, CloseInv, Zeroed
<1>3. QED
  BY <1>1, <1>2, ZeroedStep, CheckerInvariance, Invariance, PTL
  DEF SafeSpec, HeartbeatGaugeDown
===============================================================================
