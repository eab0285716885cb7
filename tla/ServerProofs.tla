----------------------------- MODULE ServerProofs -----------------------------
(***************************************************************************)
(* What holds of network/tcp_net.go and network/conn_pool.go for any       *)
(* number of connections and any limits of the pool.                       *)
(***************************************************************************)
EXTENDS Server, FiniteSetTheorems, TLAPS

-------------------------------------------------------------------------------
(* The inductive invariant. *)

\* The accept loop deals with at most one connection, which nobody watches yet and,
\* until it is added, nobody can find in the pool.
CurrentInv ==
  /\ accept \in {"add", "reject", "spawn"} => \E c \in Conns : current = {c}
  /\ accept \notin {"add", "reject", "spawn"} => current = {}
  /\ \A c \in current : monitor[c] = "none" /\ life[c] # "none"
  /\ accept \in {"add", "reject"} => current \cap pool = {}

\* The monitor follows the connection, and the connection leaves the pool before its
\* monitor reports it.
MonitorInv ==
  \A c \in Conns :
    /\ monitor[c] # "none" => life[c] # "none"
    /\ monitor[c] \in {"remove", "callback", "done"} => life[c] \in {"closing", "closed"}
    /\ monitor[c] \in {"callback", "done"} => c \notin pool
    /\ c \in disconnect => monitor[c] = "done"
    /\ c \in pool => monitor[c] \in {"wait", "remove"} \/ (accept = "spawn" /\ c \in current)
    /\ life[c] = "none" => c \notin pool

\* The lock is held while entries remain to be visited.
LockInv ==
  /\ lock = "free" => todo = {}
  /\ stop = "close" <=> lock = "stop"

IInv ==
  /\ TypeOK /\ CurrentInv /\ MonitorInv /\ LockInv
  /\ PoolBound /\ GaugeExact

USE ServerAssumption

-------------------------------------------------------------------------------
(***************************************************************************)
(* Types, and that only entries of the pool are left to visit.             *)
(***************************************************************************)
LEMMA TypeStep == TypeOK /\ LockInv /\ [Next]_vars => TypeOK'
<1> SUFFICES ASSUME TypeOK, LockInv, [Next]_vars PROVE TypeOK'
  OBVIOUS
<1> USE DEF TypeOK, connVars, poolVars, holderVars, acceptVars, stopVars, watchVars
<1>1. CASE AcceptNext
  <2>1. CASE Listen BY <2>1 DEF Listen
  <2>2. CASE ListenFails BY <2>2 DEF ListenFails
  <2>3. CASE StatusUp BY <2>3 DEF StatusUp
  <2>4. CASE AcceptTop BY <2>4 DEF AcceptTop
  <2>5. CASE AcceptError \/ AcceptClosed \/ AddFull
    BY <2>5 DEF AcceptError, AcceptClosed, AddFull
  <2>6. ASSUME NEW c \in Conns, Arrive(c) PROVE TypeOK' BY <2>6 DEF Arrive
  <2>7. ASSUME NEW c \in Conns, Add(c) PROVE TypeOK' BY <2>7 DEF Add
  <2>8. ASSUME NEW c \in Conns, Reject(c) PROVE TypeOK'
    BY <2>8 DEF Reject, WinClose, EndClose
  <2>9. ASSUME NEW c \in Conns, SpawnMonitor(c) PROVE TypeOK' BY <2>9 DEF SpawnMonitor
  <2>10. QED
    BY <1>1, <2>1, <2>2, <2>3, <2>4, <2>5, <2>6, <2>7, <2>8, <2>9 DEF AcceptNext
<1>2. ASSUME NEW c \in Conns, MonitorNext(c) PROVE TypeOK'
  <2>1. CASE MonitorWake(c) BY <2>1 DEF MonitorWake
  <2>2. CASE Remove(c)
    <3>1. todo = {} BY <2>2 DEF Remove, LockInv
    <3>2. QED BY <2>2, <3>1 DEF Remove, Delete
  <2>3. CASE OnDisconnect(c) BY <2>3 DEF OnDisconnect
  <2>4. QED BY <1>2, <2>1, <2>2, <2>3 DEF MonitorNext
<1>3. ASSUME NEW c \in Conns, PeerClose(c) \/ PeerClosed(c) PROVE TypeOK'
  BY <1>3 DEF PeerClose, PeerClosed, WinClose, EndClose
<1>4. CASE VisitNext
  <2>1. ASSUME NEW c \in Conns, VisitKeep(c) PROVE TypeOK' BY <2>1 DEF VisitKeep
  <2>2. ASSUME NEW c \in Conns, VisitDeleted(c) PROVE TypeOK'
    BY <2>2 DEF VisitDeleted, EndClose, Delete
  <2>3. ASSUME NEW c \in Conns, VisitFailed(c) PROVE TypeOK'
    BY <2>3 DEF VisitFailed, EndClose
  <2>4. ASSUME NEW c \in Conns, VisitLost(c) PROVE TypeOK' BY <2>4 DEF VisitLost, Delete
  <2>5. ASSUME NEW c \in Conns, NEW why \in {"idle", "bad", "stop"}, VisitClose(c, why)
        PROVE  TypeOK'
    BY <2>5 DEF VisitClose, WinClose
  <2>6. QED BY <1>4, <2>1, <2>2, <2>3, <2>4, <2>5 DEF VisitNext
<1>5. CASE CleanupNext BY <1>5 DEF CleanupNext, CleanupBegin, CleanupEnd
<1>6. CASE StopNext
  BY <1>6
  DEF StopNext, StopBegin, StopLock, StopUnlock, StopListener, StopListenerFails, StatusDown
<1>7. CASE UNCHANGED vars BY <1>7 DEF vars
<1>8. QED BY <1>1, <1>2, <1>3, <1>4, <1>5, <1>6, <1>7 DEF Next

(***************************************************************************)
(* The lock.                                                               *)
(***************************************************************************)
LEMMA LockStep == TypeOK /\ LockInv /\ [Next]_vars => LockInv'
<1> SUFFICES ASSUME TypeOK, LockInv, [Next]_vars PROVE LockInv'
  OBVIOUS
<1> USE DEF LockInv, TypeOK, connVars, poolVars, holderVars, acceptVars, stopVars, watchVars
<1>1. CASE AcceptNext
  BY <1>1 DEF AcceptNext, Listen, ListenFails, StatusUp, AcceptTop, AcceptError, AcceptClosed,
              AddFull, Arrive, Add, Reject, SpawnMonitor
<1>2. ASSUME NEW c \in Conns, MonitorNext(c) PROVE LockInv'
  BY <1>2 DEF MonitorNext, MonitorWake, Remove, OnDisconnect
<1>3. ASSUME NEW c \in Conns, PeerClose(c) \/ PeerClosed(c) PROVE LockInv'
  BY <1>3 DEF PeerClose, PeerClosed
<1>4. CASE VisitNext
  BY <1>4 DEF VisitNext, VisitKeep, VisitDeleted, VisitFailed, VisitLost, VisitClose
<1>5. CASE CleanupNext BY <1>5 DEF CleanupNext, CleanupBegin, CleanupEnd
<1>6. CASE StopNext
  BY <1>6
  DEF StopNext, StopBegin, StopLock, StopUnlock, StopListener, StopListenerFails, StatusDown
<1>7. CASE UNCHANGED vars BY <1>7 DEF vars
<1>8. QED BY <1>1, <1>2, <1>3, <1>4, <1>5, <1>6, <1>7 DEF Next

-------------------------------------------------------------------------------
(***************************************************************************)
(* The connection the accept loop holds.                                   *)
(***************************************************************************)
LEMMA CurrentStep ==
  TypeOK /\ LockInv /\ CurrentInv /\ MonitorInv /\ [Next]_vars => CurrentInv'
<1> SUFFICES ASSUME TypeOK, LockInv, CurrentInv, MonitorInv, [Next]_vars PROVE CurrentInv'
  OBVIOUS
<1> USE DEF connVars, poolVars, holderVars, acceptVars, stopVars, watchVars
<1>a. /\ life \in [Conns -> {"none", "open", "closing", "closed"}]
      /\ monitor \in [Conns -> {"none", "wait", "remove", "callback", "done"}]
      /\ current \subseteq Conns
  BY DEF TypeOK
<1>1. CASE AcceptNext
  <2>1. CASE Listen \/ ListenFails \/ StatusUp \/ AcceptTop \/ AcceptError \/ AcceptClosed
    BY <2>1
    DEF CurrentInv, Listen, ListenFails, StatusUp, AcceptTop, AcceptError, AcceptClosed
  <2>2. CASE AddFull BY <2>2 DEF CurrentInv, AddFull
  <2>3. ASSUME NEW c \in Conns, Arrive(c) PROVE CurrentInv'
    <3>1. c \notin pool /\ monitor[c] = "none"
      BY <2>3 DEF Arrive, MonitorInv
    <3>2. QED BY <1>a, <2>3, <3>1 DEF CurrentInv, Arrive
  <2>4. ASSUME NEW c \in Conns, Add(c) PROVE CurrentInv' BY <2>4 DEF CurrentInv, Add
  <2>5. ASSUME NEW c \in Conns, Reject(c) PROVE CurrentInv'
    BY <1>a, <2>5 DEF CurrentInv, Reject, WinClose, EndClose
  <2>6. ASSUME NEW c \in Conns, SpawnMonitor(c) PROVE CurrentInv'
    BY <2>6 DEF CurrentInv, SpawnMonitor
  <2>7. QED BY <1>1, <2>1, <2>2, <2>3, <2>4, <2>5, <2>6 DEF AcceptNext
<1>2. ASSUME NEW c \in Conns, MonitorNext(c) PROVE CurrentInv'
  <2>1. c \notin current
    BY <1>2 DEF MonitorNext, MonitorWake, Remove, OnDisconnect, CurrentInv
  <2>2. /\ \A d \in current : monitor'[d] = monitor[d]
        /\ UNCHANGED <<life, acceptVars>> /\ pool' \subseteq pool
    BY <1>a, <1>2, <2>1 DEF MonitorNext, MonitorWake, Remove, OnDisconnect, Delete
  <2>3. QED BY <2>2 DEF CurrentInv
<1>3. ASSUME NEW c \in Conns, PeerClose(c) \/ PeerClosed(c) PROVE CurrentInv'
  BY <1>a, <1>3 DEF PeerClose, PeerClosed, WinClose, EndClose, CurrentInv
<1>4. CASE VisitNext
  <2>1. /\ UNCHANGED <<acceptVars, monitor>> /\ pool' \subseteq pool
        /\ \A d \in current : life[d] # "none" => life'[d] # "none"
    BY <1>a, <1>4
    DEF VisitNext, VisitKeep, VisitDeleted, VisitFailed, VisitLost, VisitClose, WinClose,
        EndClose, Delete
  <2>2. QED BY <2>1 DEF CurrentInv
<1>5. CASE CleanupNext \/ StopNext
  BY <1>5
  DEF CurrentInv, CleanupNext, CleanupBegin, CleanupEnd, StopNext, StopBegin, StopLock,
      StopUnlock, StopListener, StopListenerFails, StatusDown
<1>6. CASE UNCHANGED vars BY <1>6 DEF vars, CurrentInv
<1>7. QED BY <1>1, <1>2, <1>3, <1>4, <1>5, <1>6 DEF Next

(***************************************************************************)
(* The monitors.                                                           *)
(***************************************************************************)
LEMMA MonitorStep ==
  TypeOK /\ LockInv /\ CurrentInv /\ MonitorInv /\ [Next]_vars => MonitorInv'
<1> SUFFICES ASSUME TypeOK, LockInv, CurrentInv, MonitorInv, [Next]_vars PROVE MonitorInv'
  OBVIOUS
<1> USE DEF connVars, poolVars, holderVars, acceptVars, stopVars, watchVars
<1>a. /\ life \in [Conns -> {"none", "open", "closing", "closed"}]
      /\ monitor \in [Conns -> {"none", "wait", "remove", "callback", "done"}]
  BY DEF TypeOK
<1>1. CASE AcceptNext
  <2>1. CASE \/ Listen \/ ListenFails \/ StatusUp \/ AcceptTop \/ AcceptError
             \/ AcceptClosed \/ AddFull
    BY <2>1
    DEF MonitorInv, Listen, ListenFails, StatusUp, AcceptTop, AcceptError, AcceptClosed, AddFull
  <2>2. ASSUME NEW c \in Conns, Arrive(c) PROVE MonitorInv'
    BY <1>a, <2>2 DEF MonitorInv, Arrive
  <2>3. ASSUME NEW c \in Conns, Add(c) PROVE MonitorInv'
    <3>1. monitor[c] = "none" /\ life[c] # "none" BY <2>3 DEF Add, CurrentInv
    <3>2. QED BY <2>3, <3>1 DEF MonitorInv, Add
  <2>4. ASSUME NEW c \in Conns, Reject(c) PROVE MonitorInv'
    BY <1>a, <2>4 DEF MonitorInv, Reject, WinClose, EndClose
  <2>5. ASSUME NEW c \in Conns, SpawnMonitor(c) PROVE MonitorInv'
    <3>1. current = {c} /\ life[c] # "none" /\ monitor[c] = "none"
      BY <2>5 DEF SpawnMonitor, CurrentInv
    <3>2. QED BY <1>a, <2>5, <3>1 DEF MonitorInv, SpawnMonitor
  <2>6. QED BY <1>1, <2>1, <2>2, <2>3, <2>4, <2>5 DEF AcceptNext
<1>2. ASSUME NEW c \in Conns, MonitorNext(c) PROVE MonitorInv'
  <2>1. CASE MonitorWake(c) BY <1>a, <2>1 DEF MonitorInv, MonitorWake
  <2>2. CASE Remove(c) BY <1>a, <2>2 DEF MonitorInv, Remove, Delete
  <2>3. CASE OnDisconnect(c) BY <1>a, <2>3 DEF MonitorInv, OnDisconnect
  <2>4. QED BY <1>2, <2>1, <2>2, <2>3 DEF MonitorNext
<1>3. ASSUME NEW c \in Conns, PeerClose(c) \/ PeerClosed(c) PROVE MonitorInv'
  BY <1>a, <1>3 DEF PeerClose, PeerClosed, WinClose, EndClose, MonitorInv
<1>4. CASE VisitNext
  <2>1. /\ UNCHANGED <<acceptVars, monitor, disconnect>> /\ pool' \subseteq pool
        /\ \A d \in Conns : /\ life[d] # "none" => life'[d] # "none"
                            /\ life[d] \in {"closing", "closed"} =>
                                 life'[d] \in {"closing", "closed"}
                            /\ life[d] = "none" => life'[d] = "none"
    BY <1>a, <1>4
    DEF VisitNext, VisitKeep, VisitDeleted, VisitFailed, VisitLost, VisitClose, WinClose,
        EndClose, Delete
  <2>2. \A d \in Conns : life'[d] = "none" => life[d] = "none" BY <2>1
  <2>3. QED BY <2>1, <2>2 DEF MonitorInv
<1>5. CASE CleanupNext \/ StopNext
  BY <1>5
  DEF MonitorInv, CleanupNext, CleanupBegin, CleanupEnd, StopNext, StopBegin, StopLock,
      StopUnlock, StopListener, StopListenerFails, StatusDown
<1>6. CASE UNCHANGED vars BY <1>6 DEF vars, MonitorInv
<1>7. QED BY <1>1, <1>2, <1>3, <1>4, <1>5, <1>6 DEF Next

-------------------------------------------------------------------------------
(***************************************************************************)
(* The pool's bound and its gauge.                                         *)
(***************************************************************************)
LEMMA PoolFinite ==
  ASSUME TypeOK
  PROVE  /\ IsFiniteSet(pool) /\ Cardinality(pool) \in Nat
         /\ IsFiniteSet(Admitted) /\ Cardinality(Admitted) \in Nat
<1>1. pool \subseteq Conns /\ Admitted \subseteq Conns BY DEF TypeOK, Admitted
<1>2. QED BY <1>1, FS_Subset, FS_CardinalityType

\* A step that adds nothing and takes out at most an entry, counting it.
LEMMA CountFrame ==
  ASSUME TypeOK, PoolBound, GaugeExact, Admitted' = Admitted,
         UNCHANGED poolVars \/ \E c \in pool : Delete(c)
  PROVE  PoolBound' /\ GaugeExact'
<1>1. CASE UNCHANGED poolVars BY <1>1 DEF poolVars, PoolBound, GaugeExact
<1>2. ASSUME NEW c \in pool, Delete(c) PROVE PoolBound' /\ GaugeExact'
  <2>1. Cardinality(pool') = Cardinality(pool) - 1
    BY <1>2, PoolFinite, FS_RemoveElement DEF Delete
  <2>2. totalConns \in Int /\ connClosed \in Int /\ Cardinality(pool) \in Int /\ MaxConns \in Int
    BY PoolFinite DEF TypeOK
  <2>3. totalConns' = totalConns - 1 /\ connClosed' = connClosed + 1
    BY <1>2 DEF Delete
  <2>4. PoolBound' BY <2>1, <2>2 DEF PoolBound
  <2>5. GaugeExact' BY <2>1, <2>2, <2>3 DEF GaugeExact
  <2>6. QED BY <2>4, <2>5
<1>3. QED BY <1>1, <1>2

LEMMA CountStep ==
  TypeOK /\ LockInv /\ CurrentInv /\ MonitorInv /\ PoolBound /\ GaugeExact /\ [Next]_vars
    => PoolBound' /\ GaugeExact'
<1> SUFFICES ASSUME TypeOK, LockInv, CurrentInv, MonitorInv, PoolBound, GaugeExact,
                    [Next]_vars
             PROVE  PoolBound' /\ GaugeExact'
  OBVIOUS
<1> USE DEF connVars, poolVars, holderVars, acceptVars, stopVars, watchVars
<1>a. monitor \in [Conns -> {"none", "wait", "remove", "callback", "done"}]
  BY DEF TypeOK
<1>1. CASE AcceptNext
  <2>1. CASE \/ Listen \/ ListenFails \/ StatusUp \/ AcceptTop \/ AcceptError
             \/ AcceptClosed \/ AddFull
    <3>1. Admitted' = Admitted /\ UNCHANGED poolVars
      BY <2>1
      DEF Admitted, Listen, ListenFails, StatusUp, AcceptTop, AcceptError, AcceptClosed, AddFull
    <3>2. QED BY <3>1, CountFrame
  <2>2. ASSUME NEW c \in Conns, Arrive(c) \/ Reject(c) PROVE PoolBound' /\ GaugeExact'
    <3>1. Admitted' = Admitted /\ UNCHANGED poolVars BY <2>2 DEF Admitted, Arrive, Reject
    <3>2. QED BY <3>1, CountFrame
  <2>3. ASSUME NEW c \in Conns, Add(c) PROVE PoolBound' /\ GaugeExact'
    <3>1. current = {c} /\ c \notin pool /\ monitor[c] = "none"
      BY <2>3 DEF Add, CurrentInv
    <3>2. Admitted' = Admitted \cup {c} /\ c \notin Admitted
      BY <2>3, <3>1 DEF Add, Admitted
    <3>3. /\ Cardinality(pool') = Cardinality(pool) + 1
          /\ Cardinality(Admitted') = Cardinality(Admitted) + 1
      BY <2>3, <3>1, <3>2, PoolFinite, FS_AddElement DEF Add
    <3>4. /\ Cardinality(pool) < MaxConns
          /\ totalConns' = totalConns + 1 /\ connClosed' = connClosed
      BY <2>3 DEF Add
    <3>5. /\ totalConns \in Int /\ connClosed \in Int /\ MaxConns \in Int
          /\ Cardinality(pool) \in Int /\ Cardinality(Admitted) \in Int
      BY PoolFinite DEF TypeOK
    <3>6. PoolBound' BY <3>3, <3>4, <3>5 DEF PoolBound
    <3>7. GaugeExact' BY <3>3, <3>4, <3>5 DEF GaugeExact
    <3>8. QED BY <3>6, <3>7
  <2>4. ASSUME NEW c \in Conns, SpawnMonitor(c) PROVE PoolBound' /\ GaugeExact'
    <3>1. current = {c} BY <2>4 DEF SpawnMonitor, CurrentInv
    <3>2. Admitted' = Admitted /\ UNCHANGED poolVars
      BY <1>a, <2>4, <3>1 DEF SpawnMonitor, Admitted
    <3>3. QED BY <3>2, CountFrame
  <2>5. QED BY <1>1, <2>1, <2>2, <2>3, <2>4 DEF AcceptNext
<1>2. ASSUME NEW c \in Conns, MonitorNext(c) PROVE PoolBound' /\ GaugeExact'
  <2>1. /\ \A d \in Conns : monitor'[d] = "none" <=> monitor[d] = "none"
        /\ UNCHANGED acceptVars
    BY <1>a, <1>2 DEF MonitorNext, MonitorWake, Remove, OnDisconnect
  <2>2. Admitted' = Admitted BY <2>1 DEF Admitted
  <2>3. UNCHANGED poolVars \/ \E d \in pool : Delete(d)
    BY <1>2 DEF MonitorNext, MonitorWake, Remove, OnDisconnect
  <2>4. QED BY <2>2, <2>3, CountFrame
<1>3. ASSUME NEW c \in Conns, PeerClose(c) \/ PeerClosed(c) PROVE PoolBound' /\ GaugeExact'
  <2>1. Admitted' = Admitted /\ UNCHANGED poolVars
    BY <1>3 DEF PeerClose, PeerClosed, Admitted
  <2>2. QED BY <2>1, CountFrame
<1>4. CASE VisitNext
  <2>1. Admitted' = Admitted
    BY <1>4
    DEF VisitNext, VisitKeep, VisitDeleted, VisitFailed, VisitLost, VisitClose, Admitted
  <2>2. UNCHANGED poolVars \/ \E d \in pool : Delete(d)
    BY <1>4
    DEF VisitNext, VisitKeep, VisitDeleted, VisitFailed, VisitLost, VisitClose, TypeOK
  <2>3. QED BY <2>1, <2>2, CountFrame
<1>5. CASE CleanupNext \/ StopNext
  <2>1. Admitted' = Admitted /\ UNCHANGED poolVars
    BY <1>5
    DEF Admitted, CleanupNext, CleanupBegin, CleanupEnd, StopNext, StopBegin, StopLock,
        StopUnlock, StopListener, StopListenerFails, StatusDown
  <2>2. QED BY <2>1, CountFrame
<1>6. CASE UNCHANGED vars
  <2>1. Admitted' = Admitted /\ UNCHANGED poolVars BY <1>6 DEF vars, Admitted
  <2>2. QED BY <2>1, CountFrame
<1>7. QED BY <1>1, <1>2, <1>3, <1>4, <1>5, <1>6 DEF Next

-------------------------------------------------------------------------------
LEMMA InitInv == Init => IInv
<1> SUFFICES ASSUME Init PROVE IInv
  OBVIOUS
<1>1. TypeOK
  <2>1. /\ life \in [Conns -> {"none", "open", "closing", "closed"}]
        /\ closer \in [Conns -> {"none", "peer", "accept", "idle", "bad", "stop"}]
        /\ monitor \in [Conns -> {"none", "wait", "remove", "callback", "done"}]
    BY DEF Init
  <2>2. ctxDone \in BOOLEAN /\ todo \subseteq pool BY DEF Init
  <2>3. QED BY <2>1, <2>2 DEF Init, TypeOK
<1>2. CurrentInv /\ MonitorInv /\ LockInv BY DEF Init, CurrentInv, MonitorInv, LockInv
<1>3. Cardinality(pool) = 0 /\ Cardinality(Admitted) = 0
  <2>1. pool = {} /\ Admitted = {} BY DEF Init, Admitted
  <2>2. QED BY <2>1, FS_EmptySet
<1>4. PoolBound BY <1>3 DEF PoolBound
<1>5. GaugeExact BY <1>3 DEF GaugeExact, Init
<1>6. QED BY <1>1, <1>2, <1>4, <1>5 DEF IInv

(***************************************************************************)
(* The inductive invariant holds in every state the server reaches.        *)
(***************************************************************************)
THEOREM Invariance == SafeSpec => []IInv
<1>1. IInv /\ [Next]_vars => IInv'
  BY TypeStep, LockStep, CurrentStep, MonitorStep, CountStep DEF IInv
<1>2. QED BY InitInv, <1>1, PTL DEF SafeSpec

(***************************************************************************)
(* Types, and that a holder of the lock only visits entries of the pool.   *)
(***************************************************************************)
THEOREM TypeCorrect == SafeSpec => []TypeOK
<1>1. IInv => TypeOK BY DEF IInv
<1>2. QED BY Invariance, <1>1, PTL

(***************************************************************************)
(* ConnPool.Add keeps the pool within maxConns whatever else runs.         *)
(***************************************************************************)
THEOREM Bounded == SafeSpec => []PoolBound
<1>1. IInv => PoolBound BY DEF IInv
<1>2. QED BY Invariance, <1>1, PTL

(***************************************************************************)
(* Monitor, cleanup and Stop delete and count each entry exactly once.     *)
(***************************************************************************)
THEOREM GaugeIsExact == SafeSpec => []GaugeExact
<1>1. IInv => GaugeExact BY DEF IInv
<1>2. QED BY Invariance, <1>1, PTL

(***************************************************************************)
(* A pooled connection always has a monitor that will still remove it.     *)
(***************************************************************************)
THEOREM NoOrphan == SafeSpec => []PooledIsWatched
<1>1. IInv => PooledIsWatched BY DEF IInv, TypeOK, MonitorInv, PooledIsWatched
<1>2. QED BY Invariance, <1>1, PTL

(***************************************************************************)
(* onDisconnect only ever sees connections that left the pool.             *)
(***************************************************************************)
THEOREM DisconnectIsLast == SafeSpec => []DisconnectAfterRemoval
<1>1. IInv => DisconnectAfterRemoval
  BY DEF IInv, TypeOK, MonitorInv, DisconnectAfterRemoval
<1>2. QED BY Invariance, <1>1, PTL

-------------------------------------------------------------------------------
(* The connections of the server live the lives that ConnLife allows. *)

LEMMA LifeStep == TypeOK /\ [Next]_vars => [Lives!Next]_life
<1> SUFFICES ASSUME TypeOK, [Next]_vars PROVE Lives!Next \/ UNCHANGED life
  OBVIOUS
<1> USE DEF connVars, Lives!Next, Lives!Open, Lives!BeginClose, Lives!EndClose
<1>1. CASE AcceptNext
  <2>1. CASE \/ Listen \/ ListenFails \/ StatusUp \/ AcceptTop \/ AcceptError
             \/ AcceptClosed \/ AddFull
    BY <2>1 DEF Listen, ListenFails, StatusUp, AcceptTop, AcceptError, AcceptClosed, AddFull
  <2>2. ASSUME NEW c \in Conns, Arrive(c) PROVE Lives!Next BY <2>2 DEF Arrive
  <2>3. ASSUME NEW c \in Conns, Reject(c) PROVE Lives!Next \/ UNCHANGED life
    BY <2>3 DEF Reject, WinClose, EndClose
  <2>4. ASSUME NEW c \in Conns, Add(c) \/ SpawnMonitor(c) PROVE UNCHANGED life
    BY <2>4 DEF Add, SpawnMonitor
  <2>5. QED BY <1>1, <2>1, <2>2, <2>3, <2>4 DEF AcceptNext
<1>2. ASSUME NEW c \in Conns, MonitorNext(c) PROVE UNCHANGED life
  BY <1>2 DEF MonitorNext, MonitorWake, Remove, OnDisconnect
<1>3. ASSUME NEW c \in Conns, PeerClose(c) \/ PeerClosed(c) PROVE Lives!Next
  BY <1>3 DEF PeerClose, PeerClosed, WinClose, EndClose
<1>4. CASE VisitNext
  <2>1. ASSUME NEW c \in Conns, VisitKeep(c) \/ VisitLost(c) PROVE UNCHANGED life
    BY <2>1 DEF VisitKeep, VisitLost
  <2>2. ASSUME NEW c \in Conns, VisitDeleted(c) \/ VisitFailed(c) PROVE Lives!Next
    BY <2>2 DEF VisitDeleted, VisitFailed, EndClose
  <2>3. ASSUME NEW c \in Conns, NEW why \in {"idle", "bad", "stop"}, VisitClose(c, why)
        PROVE  Lives!Next
    BY <2>3 DEF VisitClose, WinClose
  <2>4. QED BY <1>4, <2>1, <2>2, <2>3 DEF VisitNext
<1>5. CASE CleanupNext \/ StopNext
  BY <1>5
  DEF CleanupNext, CleanupBegin, CleanupEnd, StopNext, StopBegin, StopLock, StopUnlock,
      StopListener, StopListenerFails, StatusDown
<1>6. CASE UNCHANGED vars BY <1>6 DEF vars
<1>7. QED BY <1>1, <1>2, <1>3, <1>4, <1>5, <1>6 DEF Next

(***************************************************************************)
(* Accept loop, cleanup, Stop and peer may race to close a connection: it  *)
(* is opened once, closed once and never reopened (the safety of           *)
(* ConnectionsLive, for any number of connections).                        *)
(***************************************************************************)
THEOREM OneLife == SafeSpec => Lives!SafeSpec
<1>1. Init => Lives!Init BY DEF Init, Lives!Init
<1>2. QED BY <1>1, TypeCorrect, LifeStep, PTL DEF SafeSpec, Lives!SafeSpec

-------------------------------------------------------------------------------
(* What Stop leaves behind. *)

\* A connection that was pooled when Stop asked for the lock is open only while Stop has
\* still to visit it.
Awaited(c) ==
  /\ life[c] # "none" /\ stop # "idle"
  /\ life[c] = "open" => \/ stop = "lock" /\ c \in pool
                         \/ stop = "close" /\ c \in todo

LEMMA AwaitedStep ==
  ASSUME NEW c \in Conns, IInv, Awaited(c), [Next]_vars
  PROVE  Awaited(c)'
<1> USE DEF Awaited, connVars, poolVars, holderVars, acceptVars, stopVars, watchVars
<1>a. /\ life \in [Conns -> {"none", "open", "closing", "closed"}]
      /\ LockInv /\ MonitorInv
  BY DEF IInv, TypeOK
<1>1. CASE AcceptNext
  <2>1. /\ UNCHANGED <<stop, todo>> /\ pool \subseteq pool'
        /\ life[c] # "none" => life'[c] \in {life[c], "closing", "closed"}
    BY <1>a, <1>1
    DEF AcceptNext, Listen, ListenFails, StatusUp, AcceptTop, AcceptError, AcceptClosed,
        AddFull, Arrive, Add, Reject, SpawnMonitor, WinClose, EndClose
  <2>2. QED BY <2>1
<1>2. ASSUME NEW d \in Conns, MonitorNext(d) PROVE Awaited(c)'
  <2>1. CASE MonitorWake(d) \/ OnDisconnect(d) BY <2>1 DEF MonitorWake, OnDisconnect
  <2>2. CASE Remove(d)
    <3>1. life[d] # "open" BY <1>a, <2>2 DEF Remove, MonitorInv
    <3>2. QED BY <2>2, <3>1 DEF Remove, Delete
  <2>3. QED BY <1>2, <2>1, <2>2 DEF MonitorNext
<1>3. ASSUME NEW d \in Conns, PeerClose(d) \/ PeerClosed(d) PROVE Awaited(c)'
  BY <1>a, <1>3 DEF PeerClose, PeerClosed, WinClose, EndClose
<1>4. CASE VisitNext
  <2>1. ASSUME NEW d \in Conns, VisitKeep(d) PROVE Awaited(c)'
    BY <1>a, <2>1 DEF VisitKeep, LockInv
  <2>2. ASSUME NEW d \in Conns, VisitDeleted(d) \/ VisitFailed(d) PROVE Awaited(c)'
    BY <1>a, <2>2 DEF VisitDeleted, VisitFailed, EndClose, Delete
  <2>3. ASSUME NEW d \in Conns, VisitLost(d) PROVE Awaited(c)'
    BY <2>3 DEF VisitLost, Delete
  <2>4. ASSUME NEW d \in Conns, NEW why \in {"idle", "bad", "stop"}, VisitClose(d, why)
        PROVE  Awaited(c)'
    BY <1>a, <2>4 DEF VisitClose, WinClose
  <2>5. QED BY <1>4, <2>1, <2>2, <2>3, <2>4 DEF VisitNext
<1>5. CASE CleanupNext
  BY <1>a, <1>5 DEF CleanupNext, CleanupBegin, CleanupEnd, LockInv
<1>6. CASE StopNext
  BY <1>6
  DEF StopNext, StopBegin, StopLock, StopUnlock, StopListener, StopListenerFails, StatusDown
<1>7. CASE UNCHANGED vars BY <1>7 DEF vars
<1>8. QED BY <1>1, <1>2, <1>3, <1>4, <1>5, <1>6, <1>7 DEF Next

(***************************************************************************)
(* A connection that is in the pool when Stop begins is no longer open when*)
(* Stop turns to the listener, nor ever after, whether Stop, the cleanup or*)
(* its peer closed it, and even if its Close failed.                       *)
(***************************************************************************)
THEOREM StopClosesPooled == SafeSpec => PooledAreClosed
<1> DEFINE Asked(c) == stop = "lock" /\ c \in pool
           Gone(c) == stop \in {"listener", "status", "done", "failed"} => life[c] # "open"
<1>1. ASSUME NEW c \in Conns PROVE SafeSpec => [](Asked(c) => []Gone(c))
  <2>1. IInv /\ Asked(c) => Awaited(c) BY DEF IInv, MonitorInv, Awaited
  <2>2. Awaited(c) => Gone(c) BY DEF Awaited
  <2>3. IInv /\ Awaited(c) /\ [Next]_vars => Awaited(c)' BY AwaitedStep
  <2>4. QED BY <2>1, <2>2, <2>3, Invariance, PTL DEF SafeSpec
<1>2. QED BY <1>1 DEF PooledAreClosed

-------------------------------------------------------------------------------
(* The minimum of idle connections. *)

Held(c) == life[c] = "closing" /\ closer[c] \in {"idle", "bad", "stop"}

\* The holder of the lock is inside one Close at a time, and the pool stands still until
\* that Close has ended.
HeldInv ==
  \A c \in Conns :
    Held(c) => /\ c \in todo
               /\ \A d \in Conns : Held(d) => d = c
               /\ closer[c] = "idle" => Cardinality(pool) > MinIdle

LEMMA HeldStep == IInv /\ HeldInv /\ [Next]_vars => HeldInv'
<1> SUFFICES ASSUME IInv, HeldInv, [Next]_vars PROVE HeldInv'
  OBVIOUS
<1> USE DEF connVars, poolVars, holderVars, acceptVars, stopVars, watchVars
<1>a. /\ life \in [Conns -> {"none", "open", "closing", "closed"}]
      /\ closer \in [Conns -> {"none", "peer", "accept", "idle", "bad", "stop"}]
      /\ lock = "free" => todo = {}
      /\ todo \subseteq Conns
  BY DEF IInv, TypeOK, LockInv
\* A step that leaves the lock's holder alone.
<1>b. ASSUME UNCHANGED todo, \A c \in Conns : Held(c)' => Held(c) /\ UNCHANGED closer[c],
             todo # {} => UNCHANGED pool
      PROVE  HeldInv'
  BY <1>b DEF HeldInv
<1>1. CASE AcceptNext
  <2>1. /\ UNCHANGED todo
        /\ todo # {} => UNCHANGED pool
        /\ \A c \in Conns : Held(c)' => Held(c) /\ UNCHANGED closer[c]
    BY <1>a, <1>1
    DEF AcceptNext, Listen, ListenFails, StatusUp, AcceptTop, AcceptError, AcceptClosed,
        AddFull, Arrive, Add, Reject, SpawnMonitor, WinClose, EndClose, Held
  <2>2. QED BY <1>b, <2>1
<1>2. ASSUME NEW d \in Conns, MonitorNext(d) PROVE HeldInv'
  <2>1. /\ UNCHANGED <<todo, connVars>>
        /\ todo # {} => UNCHANGED pool
    BY <1>a, <1>2 DEF MonitorNext, MonitorWake, Remove, OnDisconnect
  <2>2. QED BY <1>b, <2>1 DEF Held
<1>3. ASSUME NEW d \in Conns, PeerClose(d) \/ PeerClosed(d) PROVE HeldInv'
  <2>1. /\ UNCHANGED <<todo, pool>>
        /\ \A c \in Conns : Held(c)' => Held(c) /\ UNCHANGED closer[c]
    BY <1>a, <1>3 DEF PeerClose, PeerClosed, WinClose, EndClose, Held
  <2>2. QED BY <1>b, <2>1
<1>4. CASE VisitNext
  <2>1. ASSUME NEW d \in Conns, VisitKeep(d) PROVE HeldInv'
    <3>1. \A c \in Conns : ~Held(c) BY <2>1 DEF VisitKeep, Busy, HeldInv, Held
    <3>2. QED BY <2>1, <3>1 DEF VisitKeep, HeldInv, Held
  <2>2. ASSUME NEW d \in Conns, VisitDeleted(d) \/ VisitFailed(d) PROVE HeldInv'
    <3>1. Held(d) BY <2>2 DEF VisitDeleted, VisitFailed, EndClose, Held
    <3>2. \A c \in Conns : ~Held(c)'
      BY <1>a, <2>2, <3>1 DEF VisitDeleted, VisitFailed, EndClose, HeldInv, Held
    <3>3. QED BY <3>2 DEF HeldInv
  <2>3. ASSUME NEW d \in Conns, VisitLost(d) PROVE HeldInv'
    <3>1. \A c \in Conns : ~Held(c) BY <2>3 DEF VisitLost, Busy, HeldInv, Held
    <3>2. QED BY <2>3, <3>1 DEF VisitLost, HeldInv, Held
  <2>4. ASSUME NEW d \in Conns, NEW why \in {"idle", "bad", "stop"}, VisitClose(d, why)
        PROVE  HeldInv'
    <3>1. \A c \in Conns : ~Held(c) BY <2>4 DEF VisitClose, Busy, HeldInv, Held
    <3>2. /\ \A c \in Conns : Held(c)' => c = d
          /\ UNCHANGED <<pool, todo>> /\ d \in todo /\ closer'[d] = why
      BY <1>a, <2>4, <3>1 DEF VisitClose, WinClose, Held
    <3>3. why = "idle" => Cardinality(pool) > MinIdle BY <2>4 DEF VisitClose, Reasons
    <3>4. QED BY <3>2, <3>3 DEF HeldInv
  <2>5. QED BY <1>4, <2>1, <2>2, <2>3, <2>4 DEF VisitNext
<1>5. CASE CleanupNext \/ StopNext
  <2>1. todo = {} \/ UNCHANGED todo
    BY <1>a, <1>5
    DEF CleanupNext, CleanupBegin, CleanupEnd, StopNext, StopBegin, StopLock,
        StopUnlock, StopListener, StopListenerFails, StatusDown
  <2>2. UNCHANGED <<connVars, pool>>
    BY <1>5
    DEF CleanupNext, CleanupBegin, CleanupEnd, StopNext, StopBegin, StopLock,
        StopUnlock, StopListener, StopListenerFails, StatusDown
  <2>3. QED BY <2>1, <2>2 DEF HeldInv, Held
<1>6. CASE UNCHANGED vars BY <1>6 DEF vars, HeldInv, Held
<1>7. QED BY <1>1, <1>2, <1>3, <1>4, <1>5, <1>6 DEF Next

(***************************************************************************)
(* The cleanup deletes no entry for idleness that leaves fewer than        *)
(* minIdleConns in the map: the length that shouldCleanup read still stands*)
(* when its Close returns.  (The entries that remain may be closed ones.)  *)
(***************************************************************************)
THEOREM IdleKeepsMinimum ==
  SafeSpec =>
    [][\A c \in Conns : VisitDeleted(c) /\ closer[c] = "idle" => Cardinality(pool') >= MinIdle]_vars
<1> DEFINE Kept ==
      \A c \in Conns : VisitDeleted(c) /\ closer[c] = "idle" => Cardinality(pool') >= MinIdle
<1>1. Init => HeldInv BY DEF Init, HeldInv, Held
<1>2. IInv /\ HeldInv /\ [Next]_vars => Kept
  <2> SUFFICES ASSUME IInv, HeldInv, NEW c \in Conns, VisitDeleted(c), closer[c] = "idle"
               PROVE  Cardinality(pool') >= MinIdle
    OBVIOUS
  <2>1. Cardinality(pool) > MinIdle BY DEF VisitDeleted, EndClose, HeldInv, Held
  <2>2. c \in pool /\ pool' = pool \ {c} BY DEF IInv, TypeOK, VisitDeleted, Delete
  <2>3. IsFiniteSet(pool) /\ Cardinality(pool) \in Int BY PoolFinite DEF IInv
  <2>4. Cardinality(pool') = Cardinality(pool) - 1 BY <2>2, <2>3, FS_RemoveElement
  <2>5. QED BY <2>1, <2>3, <2>4
<1>3. [Next]_vars /\ Kept => [Kept]_vars OBVIOUS
<1>4. QED BY <1>1, <1>2, <1>3, HeldStep, Invariance, PTL DEF SafeSpec

-------------------------------------------------------------------------------
(* The accept loop after Stop. *)

\* A loop that waits in Accept came there before Stop, and Stop closes what it waits on.
FreedInv ==
  /\ ctxDone <=> stop # "idle"
  /\ accept \notin {"idle", "ended"} => listener # "none"
  /\ accept = "accept" /\ stop \in {"status", "done", "failed"} => listener = "closed"

LEMMA FreedStep == TypeOK /\ FreedInv /\ [Next]_vars => FreedInv'
<1> SUFFICES ASSUME TypeOK, FreedInv, [Next]_vars PROVE FreedInv'
  OBVIOUS
<1> USE DEF FreedInv, acceptVars, stopVars
<1>a. ctxDone \in BOOLEAN /\ listener \in {"none", "open", "closed"} BY DEF TypeOK
<1>1. CASE AcceptNext
  BY <1>a, <1>1
  DEF AcceptNext, Listen, ListenFails, StatusUp, AcceptTop, AcceptError, AcceptClosed,
      AddFull, Arrive, Add, Reject, SpawnMonitor
<1>2. ASSUME NEW c \in Conns, MonitorNext(c) \/ PeerClose(c) \/ PeerClosed(c)
      PROVE  FreedInv'
  BY <1>2 DEF MonitorNext, MonitorWake, Remove, OnDisconnect, PeerClose, PeerClosed
<1>3. CASE VisitNext \/ CleanupNext
  BY <1>3
  DEF VisitNext, VisitKeep, VisitDeleted, VisitFailed, VisitLost, VisitClose, CleanupNext,
      CleanupBegin, CleanupEnd
<1>4. CASE StopNext
  BY <1>a, <1>4
  DEF StopNext, StopBegin, StopLock, StopUnlock, StopListener, StopListenerFails, StatusDown
<1>5. CASE UNCHANGED vars BY <1>5 DEF vars
<1>6. QED BY <1>1, <1>2, <1>3, <1>4, <1>5 DEF Next

(***************************************************************************)
(* Once Stop is past the listener no accept loop waits on an open one,     *)
(* though Stop may have found none because Start was late: what StopEnds   *)
(* needs besides fairness.                                                 *)
(***************************************************************************)
THEOREM AcceptIsFreed ==
  SafeSpec => [](accept = "accept" /\ stop \in {"status", "done", "failed"}
                   => listener = "closed")
<1>1. Init => FreedInv BY DEF Init, FreedInv
<1>2. FreedInv => (accept = "accept" /\ stop \in {"status", "done", "failed"}
                     => listener = "closed")
  BY DEF FreedInv
<1>3. QED BY <1>1, <1>2, FreedStep, TypeCorrect, PTL DEF SafeSpec

LEMMA NoArrival ==
  ASSUME NEW c \in Conns, TypeOK, FreedInv, [Next]_vars,
         stop \in {"status", "done", "failed"}, life[c] = "none"
  PROVE  stop' \in {"status", "done", "failed"} /\ life'[c] = "none"
<1> USE DEF connVars, stopVars, acceptVars, WinClose, EndClose
<1>a. life \in [Conns -> {"none", "open", "closing", "closed"}] BY DEF TypeOK
<1>1. CASE AcceptNext
  <2>1. ASSUME NEW d \in Conns PROVE ~Arrive(d) BY DEF Arrive, FreedInv
  <2>2. ASSUME NEW d \in Conns, Add(d) \/ Reject(d) \/ SpawnMonitor(d)
        PROVE  UNCHANGED stop /\ life'[c] = "none"
    BY <1>a, <2>2 DEF Add, Reject, SpawnMonitor
  <2>3. QED
    BY <1>1, <2>1, <2>2
    DEF AcceptNext, Listen, ListenFails, StatusUp, AcceptTop, AcceptError, AcceptClosed, AddFull
<1>2. ASSUME NEW d \in Conns, MonitorNext(d) \/ PeerClose(d) \/ PeerClosed(d)
      PROVE  UNCHANGED stop /\ life'[c] = "none"
  BY <1>a, <1>2 DEF MonitorNext, MonitorWake, Remove, OnDisconnect, PeerClose, PeerClosed
<1>3. CASE VisitNext \/ CleanupNext
  BY <1>a, <1>3
  DEF VisitNext, VisitKeep, VisitDeleted, VisitFailed, VisitLost, VisitClose, CleanupNext,
      CleanupBegin, CleanupEnd
<1>4. CASE StopNext
  BY <1>4
  DEF StopNext, StopBegin, StopLock, StopUnlock, StopListener, StopListenerFails, StatusDown
<1>5. CASE UNCHANGED vars BY <1>5 DEF vars
<1>6. QED BY <1>1, <1>2, <1>3, <1>4, <1>5 DEF Next

(***************************************************************************)
(* Once Stop is past the listener no connection begins, even if Start first*)
(* listens afterwards: the connections that stay open after a Stop are     *)
(* those that arrived before it came to the listener.                      *)
(***************************************************************************)
THEOREM NoneAfterStop ==
  ASSUME NEW c \in Conns
  PROVE  SafeSpec =>
           [](stop \in {"status", "done", "failed"} /\ life[c] = "none"
                => [](life[c] = "none"))
<1> DEFINE Shut == stop \in {"status", "done", "failed"} /\ life[c] = "none"
<1>1. Init => FreedInv BY DEF Init, FreedInv
<1>2. TypeOK /\ FreedInv /\ Shut /\ [Next]_vars => Shut' BY NoArrival
<1>3. Shut => life[c] = "none" OBVIOUS
<1> HIDE DEF Shut
<1>4. SafeSpec => [](Shut => []Shut) BY <1>1, <1>2, FreedStep, TypeCorrect, PTL DEF SafeSpec
<1>5. SafeSpec => [](Shut => [](life[c] = "none")) BY <1>3, <1>4, PTL
<1>6. QED BY <1>5 DEF Shut
===============================================================================
