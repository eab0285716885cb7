-------------------------------- MODULE Server --------------------------------
(***************************************************************************)
(* TCPServer and ConnPool (network/tcp_net.go, network/conn_pool.go): the  *)
(* goroutine of Start with its accept loop, one monitor per connection,    *)
(* the pool's cleanup, Stop, and the connections, which may close by       *)
(* themselves at any moment (module Connection).                           *)
(*                                                                         *)
(* A connection is its place in the order of acceptance.  Time is absent:  *)
(* whether a visited connection is idle, too old, failing or silent is a   *)
(* free choice of the step that visits it.                                 *)
(***************************************************************************)
EXTENDS Integers, FiniteSets

CONSTANTS
  Conns,      \* the connections that peers open, each once
  MaxConns,   \* ConnPool.maxConns
  MinIdle     \* ConnPool.minIdleConns

ASSUME ServerAssumption ==
  /\ IsFiniteSet(Conns)
  /\ MaxConns \in Nat
  /\ MinIdle \in Nat

VARIABLES
  life,        \* of each connection: "none", "open", "closing" or "closed"
  closer,      \* who won its Close: "peer", "accept", "idle", "bad", "stop", or "none"
  pool,        \* ConnPool.connections
  lock,        \* holder of the pool's lock across steps: "free", "cleanup" or "stop"
  todo,        \* the connections the holder has still to visit
  totalConns,  \* gauge ConnPoolMetrics.TotalConns
  connClosed,  \* counter ConnPoolMetrics.ConnClosed
  accept,      \* the goroutine of Start
  current,     \* the connection the accept loop is dealing with: {} or {c}
  monitor,     \* monitorConnection of each connection
  disconnect,  \* connections whose onDisconnect has started
  listener,    \* "none", "open" or "closed"
  ctxDone,     \* the server's context is cancelled
  stop,        \* the goroutine of Stop: "failed" if it returned an error
  status       \* gauge TcpServerMetrics.ServerStatus

poolVars   == <<pool, totalConns, connClosed>>
holderVars == <<lock, todo>>
connVars   == <<life, closer>>
acceptVars == <<accept, current, listener>>
stopVars   == <<ctxDone, stop>>
watchVars  == <<monitor, disconnect>>
vars == <<connVars, poolVars, holderVars, acceptVars, watchVars, stopVars, status>>

Init ==
  /\ life = [c \in Conns |-> "none"] /\ closer = [c \in Conns |-> "none"]
  /\ pool = {} /\ totalConns = 0 /\ connClosed = 0
  /\ lock = "free" /\ todo = {}
  /\ accept = "idle" /\ current = {} /\ listener = "none"
  /\ monitor = [c \in Conns |-> "none"] /\ disconnect = {}
  /\ ctxDone = FALSE /\ stop = "idle"
  /\ status = 0

\* An entry leaves the map: delete, TotalConns.Dec, ConnClosed.Inc.
Delete(c) ==
  /\ pool' = pool \ {c}
  /\ totalConns' = totalConns - 1
  /\ connClosed' = connClosed + 1

\* Mutant: Close stores the flag without comparing it first.
WinAnyway(c, who) ==
  /\ life[c] # "none"
  /\ life' = [life EXCEPT ![c] = "closing"]
  /\ closer' = [closer EXCEPT ![c] = who]

\* The first Close of an open connection.
WinClose(c, who) ==
  /\ life[c] = "open"
  /\ life' = [life EXCEPT ![c] = "closing"]
  /\ closer' = [closer EXCEPT ![c] = who]

\* The winner reaches conn.Close.
EndClose(c, who) ==
  /\ life[c] = "closing" /\ closer[c] = who
  /\ life' = [life EXCEPT ![c] = "closed"]
  /\ UNCHANGED closer

-------------------------------------------------------------------------------
(* Start and acceptLoop *)

Listen ==
  /\ accept = "idle"
  /\ listener' = "open"
  /\ accept' = "status"
  /\ UNCHANGED <<connVars, poolVars, holderVars, current, watchVars, stopVars, status>>

ListenFails ==
  /\ accept = "idle"
  /\ accept' = "ended"
  /\ UNCHANGED <<connVars, poolVars, holderVars, current, listener, watchVars, stopVars,
                 status>>

StatusUp ==
  /\ accept = "status"
  /\ status' = 1
  /\ accept' = "top"
  /\ UNCHANGED <<connVars, poolVars, holderVars, current, listener, watchVars, stopVars>>

AcceptTop ==
  /\ accept = "top"
  /\ accept' = IF ctxDone THEN "ended" ELSE "accept"
  /\ UNCHANGED <<connVars, poolVars, holderVars, current, listener, watchVars, stopVars,
                 status>>

\* Accept returns a connection: NewConnection starts it.
Arrive(c) ==
  /\ accept = "accept" /\ listener = "open"
  /\ life[c] = "none"
  /\ life' = [life EXCEPT ![c] = "open"]
  /\ current' = {c}
  /\ accept' = "add"
  /\ UNCHANGED <<closer, poolVars, holderVars, listener, watchVars, stopVars, status>>

\* A temporary error, or another one that is not that of a closed listener.
AcceptError ==
  /\ accept = "accept" /\ listener = "open"
  /\ accept' = "top"
  /\ UNCHANGED <<connVars, poolVars, holderVars, current, listener, watchVars, stopVars,
                 status>>

AcceptClosed ==
  /\ accept = "accept" /\ listener = "closed"
  /\ accept' = "ended"
  /\ UNCHANGED <<connVars, poolVars, holderVars, current, listener, watchVars, stopVars,
                 status>>

\* Mutant: the bound of the pool is off by one.
AddOneMore(c) ==
  /\ accept = "add" /\ c \in current
  /\ lock = "free"
  /\ Cardinality(pool) <= MaxConns
  /\ pool' = pool \cup {c}
  /\ totalConns' = totalConns + 1
  /\ accept' = "spawn"
  /\ UNCHANGED <<connVars, connClosed, holderVars, current, listener, watchVars, stopVars,
                 status>>

\* ConnPool.Add.
Add(c) ==
  /\ accept = "add" /\ c \in current
  /\ lock = "free"
  /\ Cardinality(pool) < MaxConns
  /\ pool' = pool \cup {c}
  /\ totalConns' = totalConns + 1
  /\ accept' = "spawn"
  /\ UNCHANGED <<connVars, connClosed, holderVars, current, listener, watchVars, stopVars,
                 status>>

AddFull ==
  /\ accept = "add"
  /\ lock = "free"
  /\ Cardinality(pool) >= MaxConns
  /\ accept' = "reject"
  /\ UNCHANGED <<connVars, poolVars, holderVars, current, listener, watchVars, stopVars,
                 status>>

\* The rejected connection is closed, unless it is already.
Reject(c) ==
  /\ accept = "reject" /\ c \in current
  /\ \/ WinClose(c, "accept") /\ UNCHANGED <<accept, current>>
     \/ EndClose(c, "accept") /\ accept' = "top" /\ current' = {}
     \/ /\ life[c] # "open" /\ closer[c] # "accept"
        /\ accept' = "top" /\ current' = {}
        /\ UNCHANGED connVars
  /\ UNCHANGED <<poolVars, holderVars, listener, watchVars, stopVars, status>>

\* Mutant: no monitor for a connection that is closed already.
SpawnIfOpen(c) ==
  /\ accept = "spawn" /\ c \in current
  /\ monitor' = IF life[c] = "open" THEN [monitor EXCEPT ![c] = "wait"] ELSE monitor
  /\ accept' = "top" /\ current' = {}
  /\ UNCHANGED <<connVars, poolVars, holderVars, listener, disconnect, stopVars, status>>

SpawnMonitor(c) ==
  /\ accept = "spawn" /\ c \in current
  /\ monitor' = [monitor EXCEPT ![c] = "wait"]
  /\ accept' = "top" /\ current' = {}
  /\ UNCHANGED <<connVars, poolVars, holderVars, listener, disconnect, stopVars, status>>

-------------------------------------------------------------------------------
(* A connection closes by itself: end of input, an error, a heartbeat timeout. *)

PeerClose(c) ==
  /\ WinClose(c, "peer")
  /\ UNCHANGED <<poolVars, holderVars, acceptVars, watchVars, stopVars, status>>

PeerClosed(c) ==
  /\ EndClose(c, "peer")
  /\ UNCHANGED <<poolVars, holderVars, acceptVars, watchVars, stopVars, status>>

-------------------------------------------------------------------------------
(* monitorConnection *)

\* Mutant: the monitor also ends when the server's context does.
MonitorWakeOrQuit(c) ==
  /\ monitor[c] = "wait"
  /\ \/ life[c] # "open" /\ monitor' = [monitor EXCEPT ![c] = "remove"]
     \/ ctxDone /\ monitor' = [monitor EXCEPT ![c] = "done"]
  /\ UNCHANGED <<connVars, poolVars, holderVars, acceptVars, disconnect, stopVars, status>>

MonitorWake(c) ==
  /\ monitor[c] = "wait"
  /\ life[c] # "open"
  /\ monitor' = [monitor EXCEPT ![c] = "remove"]
  /\ UNCHANGED <<connVars, poolVars, holderVars, acceptVars, disconnect, stopVars, status>>

\* Mutant: Remove does not look whether the entry is still there.
RemoveAnyway(c) ==
  /\ monitor[c] = "remove"
  /\ lock = "free"
  /\ Delete(c)
  /\ monitor' = [monitor EXCEPT ![c] = "callback"]
  /\ UNCHANGED <<connVars, holderVars, acceptVars, disconnect, stopVars, status>>

\* Mutant: Remove gives up when the lock is taken.
RemoveOrSkip(c) ==
  /\ monitor[c] = "remove"
  /\ IF lock = "free" /\ c \in pool THEN Delete(c) ELSE UNCHANGED poolVars
  /\ monitor' = [monitor EXCEPT ![c] = "callback"]
  /\ UNCHANGED <<connVars, holderVars, acceptVars, disconnect, stopVars, status>>

\* ConnPool.Remove: its Close finds the connection closed already and returns nil.
Remove(c) ==
  /\ monitor[c] = "remove"
  /\ lock = "free"
  /\ IF c \in pool THEN Delete(c) ELSE UNCHANGED poolVars
  /\ monitor' = [monitor EXCEPT ![c] = "callback"]
  /\ UNCHANGED <<connVars, holderVars, acceptVars, disconnect, stopVars, status>>

OnDisconnect(c) ==
  /\ monitor[c] = "callback"
  /\ disconnect' = disconnect \cup {c}
  /\ monitor' = [monitor EXCEPT ![c] = "done"]
  /\ UNCHANGED <<connVars, poolVars, holderVars, acceptVars, stopVars, status>>

-------------------------------------------------------------------------------
(* The pool's cleanup and its Close, which visit the map in any order. *)

\* Mutant: cleanup walks the map without the lock.
CleanupUnlocked ==
  /\ lock = "free" /\ todo = {}
  /\ todo' = pool
  /\ UNCHANGED <<connVars, poolVars, lock, acceptVars, watchVars, stopVars, status>>

CleanupBegin ==
  /\ lock = "free"
  /\ lock' = "cleanup" /\ todo' = pool
  /\ UNCHANGED <<connVars, poolVars, acceptVars, watchVars, stopVars, status>>

CleanupEnd ==
  /\ lock = "cleanup" /\ todo = {}
  /\ lock' = "free"
  /\ UNCHANGED <<connVars, poolVars, todo, acceptVars, watchVars, stopVars, status>>

\* The holder is inside the Close of a connection: it visits one at a time.
Busy == \E d \in todo : life[d] = "closing" /\ closer[d] \in {"idle", "bad", "stop"}

\* Mutant: the pool's Close spares what cleanup would keep.
SpareAnyway(c) ==
  /\ lock # "free" /\ c \in todo /\ ~Busy
  /\ life[c] = "open"
  /\ todo' = todo \ {c}
  /\ UNCHANGED <<connVars, poolVars, lock, acceptVars, watchVars, stopVars, status>>

\* shouldCleanup is false.
VisitKeep(c) ==
  /\ lock = "cleanup" /\ c \in todo /\ ~Busy
  /\ life[c] = "open"
  /\ todo' = todo \ {c}
  /\ UNCHANGED <<connVars, poolVars, lock, acceptVars, watchVars, stopVars, status>>

\* The reasons for which the holder of the lock closes an open connection: idle too
\* long, then age, errors or a silent heartbeat; Close spares none.
Reasons ==
  IF lock = "cleanup"
  THEN {"bad"} \cup (IF Cardinality(pool) > MinIdle THEN {"idle"} ELSE {})
  ELSE IF lock = "stop" THEN {"stop"} ELSE {}

VisitClose(c, why) ==
  /\ c \in todo /\ ~Busy
  /\ why \in Reasons
  /\ WinClose(c, why)
  /\ UNCHANGED <<poolVars, holderVars, acceptVars, watchVars, stopVars, status>>

\* Its Close returned nil: the entry is deleted.
VisitDeleted(c) ==
  /\ c \in todo
  /\ closer[c] \in {"idle", "bad", "stop"} /\ EndClose(c, closer[c])
  /\ Delete(c)
  /\ todo' = todo \ {c}
  /\ UNCHANGED <<lock, acceptVars, watchVars, stopVars, status>>

\* Its Close failed: the entry stays.
VisitFailed(c) ==
  /\ c \in todo
  /\ closer[c] \in {"idle", "bad", "stop"} /\ EndClose(c, closer[c])
  /\ todo' = todo \ {c}
  /\ UNCHANGED <<poolVars, lock, acceptVars, watchVars, stopVars, status>>

\* Another goroutine closed it first: Close returns nil and the entry is deleted.
VisitLost(c) ==
  /\ c \in todo /\ ~Busy
  /\ life[c] # "open"
  /\ Delete(c)
  /\ todo' = todo \ {c}
  /\ UNCHANGED <<connVars, lock, acceptVars, watchVars, stopVars, status>>

-------------------------------------------------------------------------------
(* Stop *)

StopBegin ==
  /\ stop = "idle"
  /\ ctxDone' = TRUE
  /\ stop' = "lock"
  /\ UNCHANGED <<connVars, poolVars, holderVars, acceptVars, watchVars, status>>

StopLock ==
  /\ stop = "lock"
  /\ lock = "free"
  /\ lock' = "stop" /\ todo' = pool
  /\ stop' = "close"
  /\ UNCHANGED <<connVars, poolVars, acceptVars, watchVars, ctxDone, status>>

StopUnlock ==
  /\ stop = "close" /\ todo = {}
  /\ lock' = "free"
  /\ stop' = "listener"
  /\ UNCHANGED <<connVars, poolVars, todo, acceptVars, watchVars, ctxDone, status>>

\* Mutant: Stop leaves the listener open.
KeepListener ==
  /\ stop = "listener"
  /\ stop' = "status"
  /\ UNCHANGED <<connVars, poolVars, holderVars, acceptVars, watchVars, ctxDone, status>>

\* Nothing to close when Start has not listened yet.
StopListener ==
  /\ stop = "listener"
  /\ listener' = IF listener = "open" THEN "closed" ELSE listener
  /\ stop' = "status"
  /\ UNCHANGED <<connVars, poolVars, holderVars, accept, current, watchVars, ctxDone, status>>

\* listener.Close returns an error: Stop returns it at once.
StopListenerFails ==
  /\ stop = "listener" /\ listener = "open"
  /\ listener' = "closed"
  /\ stop' = "failed"
  /\ UNCHANGED <<connVars, poolVars, holderVars, accept, current, watchVars, ctxDone, status>>

StatusDown ==
  /\ stop = "status"
  /\ status' = 0
  /\ stop' = "done"
  /\ UNCHANGED <<connVars, poolVars, holderVars, acceptVars, watchVars, ctxDone>>

-------------------------------------------------------------------------------
AcceptNext ==
  \/ Listen \/ ListenFails \/ StatusUp \/ AcceptTop \/ AcceptError \/ AcceptClosed \/ AddFull
  \/ \E c \in Conns : Arrive(c) \/ Add(c) \/ Reject(c) \/ SpawnMonitor(c)

MonitorNext(c) == MonitorWake(c) \/ Remove(c) \/ OnDisconnect(c)

VisitNext ==
  \E c \in Conns :
    \/ VisitKeep(c) \/ VisitDeleted(c) \/ VisitFailed(c) \/ VisitLost(c)
    \/ \E why \in {"idle", "bad", "stop"} : VisitClose(c, why)

CleanupNext == CleanupBegin \/ CleanupEnd

StopNext ==
  StopBegin \/ StopLock \/ StopUnlock \/ StopListener \/ StopListenerFails \/ StatusDown

Next ==
  \/ AcceptNext \/ VisitNext \/ CleanupNext \/ StopNext
  \/ \E c \in Conns : PeerClose(c) \/ PeerClosed(c) \/ MonitorNext(c)

SafeSpec == Init /\ [][Next]_vars

(***************************************************************************)
(* Every goroutine that can run does, and sync.RWMutex hands the lock to   *)
(* whoever waits long enough (its starvation mode): strong fairness where  *)
(* a step needs the lock.  Nothing makes a peer connect or close, cleanup  *)
(* tick or an owner call Stop.                                             *)
(***************************************************************************)
Fairness ==
  /\ WF_vars(Listen \/ ListenFails \/ StatusUp \/ AcceptTop \/ AcceptClosed)
  /\ SF_vars(AddFull \/ \E c \in Conns : Add(c))
  /\ WF_vars(\E c \in Conns : Reject(c) \/ SpawnMonitor(c))
  /\ \A c \in Conns : WF_vars(PeerClosed(c))
  /\ \A c \in Conns : WF_vars(MonitorWake(c) \/ OnDisconnect(c)) /\ SF_vars(Remove(c))
  /\ WF_vars(VisitNext \/ CleanupEnd \/ StopUnlock)
  /\ SF_vars(StopLock)
  /\ WF_vars(StopListener \/ StopListenerFails \/ StatusDown)

Spec == SafeSpec /\ Fairness

-------------------------------------------------------------------------------
(* Properties *)

TypeOK ==
  /\ life \in [Conns -> {"none", "open", "closing", "closed"}]
  /\ closer \in [Conns -> {"none", "peer", "accept", "idle", "bad", "stop"}]
  /\ pool \subseteq Conns
  /\ totalConns \in Int /\ connClosed \in Nat
  /\ lock \in {"free", "cleanup", "stop"} /\ todo \subseteq pool
  /\ accept \in {"idle", "status", "top", "accept", "add", "reject", "spawn", "ended"}
  /\ current \subseteq Conns
  /\ listener \in {"none", "open", "closed"}
  /\ monitor \in [Conns -> {"none", "wait", "remove", "callback", "done"}]
  /\ disconnect \subseteq Conns
  /\ ctxDone \in BOOLEAN
  /\ stop \in {"idle", "lock", "close", "listener", "status", "done", "failed"}
  /\ status \in {0, 1}

(***************************************************************************)
(* The pool never exceeds maxConns, whoever adds and removes at once.      *)
(***************************************************************************)
PoolBound == Cardinality(pool) <= MaxConns

\* The connections that were added to the pool at some time.
Admitted ==
  {c \in Conns : monitor[c] # "none"} \cup (IF accept = "spawn" THEN current ELSE {})

(***************************************************************************)
(* Of the monitor, the cleanup and Stop exactly one deletes an entry and   *)
(* counts it: the gauge is the size of the pool, and every admitted        *)
(* connection is in the pool or counted as closed once.                    *)
(***************************************************************************)
GaugeExact ==
  /\ totalConns = Cardinality(pool)
  /\ totalConns + connClosed = Cardinality(Admitted)

(***************************************************************************)
(* No entry is orphaned: a pooled connection has a monitor that will still *)
(* remove it, or the accept loop is about to start one.                    *)
(***************************************************************************)
PooledIsWatched ==
  \A c \in pool : monitor[c] \in {"wait", "remove"} \/ (accept = "spawn" /\ c \in current)

(***************************************************************************)
(* When onDisconnect starts the connection is closing and GetConnections   *)
(* no longer returns it.                                                   *)
(***************************************************************************)
DisconnectAfterRemoval ==
  \A c \in disconnect : c \notin pool /\ life[c] \in {"closing", "closed"}

(***************************************************************************)
(* A connection that was pooled and is closed leaves the pool and its      *)
(* onDisconnect starts, whoever closed it (its peer, or the cleanup or Stop*)
(* that deletes it too), and even when it closed before its monitor started*)
(* or its Close failed.                                                    *)
(***************************************************************************)
ClosedIsReported ==
  \A c \in Conns :
    (c \in Admitted /\ life[c] # "open") ~> (c \notin pool /\ c \in disconnect)

(***************************************************************************)
(* Stop ends and so does the accept loop, as Start is called sooner or     *)
(* later, whatever connections arrive, close or are cleaned up meanwhile.  *)
(***************************************************************************)
StopEnds == ctxDone ~> (stop \in {"done", "failed"} /\ accept = "ended")

(***************************************************************************)
(* "Wait until the existing connections are dealt with": when Stop has     *)
(* returned and the accept loop has ended no connection is still open.     *)
(***************************************************************************)
StopClosesConnections ==
  (stop = "done" /\ accept = "ended") => \A c \in Conns : life[c] # "open"

(***************************************************************************)
(* What is in the pool when Stop begins is no longer open when Stop turns  *)
(* to the listener, whether Stop, the cleanup or the peer closed it, even  *)
(* if its Close failed, and it never opens again.                          *)
(***************************************************************************)
PooledAreClosed ==
  \A c \in Conns :
    [](stop = "lock" /\ c \in pool =>
         [](stop \in {"listener", "status", "done", "failed"} => life[c] # "open"))

Lives == INSTANCE ConnLife

(***************************************************************************)
(* The accept loop, the cleanup, Stop and the connection itself race to    *)
(* close it; no connection is closed twice, reopened or left half closed.  *)
(***************************************************************************)
ConnectionsLive == Lives!Spec
===============================================================================
