---------------------------- MODULE ComponentManager ----------------------------
(***************************************************************************)
(* ComponentManager (common/manager.go) as main.go uses it: main starts the*)
(* components and waits, handleSignals calls Stop, and so may other owners.*)
(* The components are numbered in the order of Register, which main calls  *)
(* before Start; afterwards only readers take the mutex, so it never       *)
(* blocks.  When main ends the process ends.                               *)
(*                                                                         *)
(* Of a component only this matters: whether its Start returns by itself   *)
(* (Scheduler, RedisServer), once it was stopped (TCPServer), or not at all*)
(* (metrics.Server, whose Stop does nothing).                              *)
(***************************************************************************)
EXTENDS Integers, FiniteSets

CONSTANTS
  N,           \* number of components
  Blocking,    \* those whose Start returns only after their Stop
  Deaf,        \* those whose Start does not return
  Owners       \* goroutines besides handleSignals that call Stop

Comps == 1..N
Stoppers == Owners \cup {"signals"}

ASSUME ManagerAssumption ==
  /\ N \in Nat \ {0}
  /\ Blocking \subseteq Comps /\ Deaf \subseteq Comps
  /\ IsFiniteSet(Owners) /\ "signals" \notin Owners

VARIABLES
  main,        \* main: in "start", in "wait", or "done"
  started,     \* number of components that Start has launched
  starts,      \* the Start of each component: "none", "running" or "returned"
  wg,          \* ComponentManager.wg
  signals,     \* handleSignals: "none", "listening", "stopping" or "done"
  ctxDone,     \* the manager's context is cancelled
  stopper,     \* each Stop: "idle", "launch", "collect", "wait" or "returned"
  launched,    \* number of components whose Stop it has launched
  stops,       \* the Stop of each component that it launched: as starts
  errChan,     \* number of results in its channel
  received,    \* number of results it has received
  timedOut,    \* the Stops that gave up after 30 seconds
  told         \* the components that were stopped

startVars == <<main, started, starts, wg>>
stopVars  == <<stopper, launched, stops, errChan, received, timedOut>>
vars == <<startVars, signals, ctxDone, stopVars, told>>

Init ==
  /\ main = "start" /\ started = 0
  /\ starts = [c \in Comps |-> "none"] /\ wg = 0
  /\ signals = "none" /\ ctxDone = FALSE
  /\ stopper = [s \in Stoppers |-> "idle"]
  /\ launched = [s \in Stoppers |-> 0]
  /\ stops = [s \in Stoppers |-> [c \in Comps |-> "none"]]
  /\ errChan = [s \in Stoppers |-> 0] /\ received = [s \in Stoppers |-> 0]
  /\ timedOut = {} /\ told = {}

\* Mutant: room for one result only.
CapacityOne == 1

\* Room of a Stop's channel of results.
Capacity == N

-------------------------------------------------------------------------------
(* Start and Wait *)

\* Mutant: wg.Add is called by the goroutine.
LaunchUncounted ==
  /\ main = "start" /\ started < N
  /\ started' = started + 1
  /\ starts' = [starts EXCEPT ![started + 1] = "running"]
  /\ UNCHANGED <<main, wg, signals, ctxDone, stopVars, told>>

LaunchStart ==
  /\ main = "start" /\ started < N
  /\ started' = started + 1
  /\ wg' = wg + 1
  /\ starts' = [starts EXCEPT ![started + 1] = "running"]
  /\ UNCHANGED <<main, signals, ctxDone, stopVars, told>>

AllStarted ==
  /\ main = "start" /\ started = N
  /\ main' = "wait"
  /\ signals' = "listening"
  /\ UNCHANGED <<started, starts, wg, ctxDone, stopVars, told>>

\* Mutant: a Start that failed calls wg.Done besides the deferred one.
StartReturnsTwiceDone(c) ==
  /\ starts[c] = "running"
  /\ starts' = [starts EXCEPT ![c] = "returned"]
  /\ wg' \in {wg - 1, wg - 2}
  /\ UNCHANGED <<main, started, signals, ctxDone, stopVars, told>>

\* It may fail at any time; when it must return, Fairness says.
StartReturns(c) ==
  /\ starts[c] = "running"
  /\ starts' = [starts EXCEPT ![c] = "returned"]
  /\ wg' = wg - 1
  /\ UNCHANGED <<main, started, signals, ctxDone, stopVars, told>>

\* Their Start pings a server or starts a goroutine, and is over.
Prompt == Comps \ (Blocking \cup Deaf)

Returnable(c) == c \in Prompt \/ (c \in Blocking \ Deaf /\ c \in told)

MainEnds ==
  /\ main = "wait" /\ wg = 0
  /\ main' = "done"
  /\ UNCHANGED <<started, starts, wg, signals, ctxDone, stopVars, told>>

-------------------------------------------------------------------------------
(* handleSignals and the other callers of Stop *)

BeginStop(s) ==
  /\ stopper[s] = "idle"
  /\ stopper' = [stopper EXCEPT ![s] = "launch"]
  /\ ctxDone' = TRUE
  /\ UNCHANGED <<startVars, launched, stops, errChan, received, timedOut, told>>

Signal ==
  /\ signals = "listening"
  /\ signals' = "stopping"
  /\ BeginStop("signals")

SignalsEnd ==
  /\ signals = "listening" /\ ctxDone
  /\ signals' = "done"
  /\ UNCHANGED <<startVars, ctxDone, stopVars, told>>

OwnerStop(s) ==
  /\ main = "wait" /\ s \in Owners
  /\ BeginStop(s)
  /\ UNCHANGED signals

-------------------------------------------------------------------------------
(* Stop *)

\* In reverse order, each in a goroutine of its own.
LaunchStop(s) ==
  /\ stopper[s] = "launch"
  /\ launched' = [launched EXCEPT ![s] = @ + 1]
  /\ stops' = [stops EXCEPT ![s][N - launched[s]] = "running"]
  /\ stopper' = [stopper EXCEPT ![s] = IF launched[s] + 1 = N THEN "collect" ELSE "launch"]
  /\ UNCHANGED <<startVars, signals, ctxDone, errChan, received, timedOut, told>>

\* Mutant: the component's Stop does nothing.
CompStopIdle(s, c) ==
  /\ stops[s][c] = "running"
  /\ errChan[s] < Capacity
  /\ stops' = [stops EXCEPT ![s][c] = "returned"]
  /\ errChan' = [errChan EXCEPT ![s] = @ + 1]
  /\ UNCHANGED <<startVars, signals, ctxDone, stopper, launched, received, timedOut, told>>

\* A component's Stop returns and its result is sent.
CompStop(s, c) ==
  /\ stops[s][c] = "running"
  /\ errChan[s] < Capacity
  /\ stops' = [stops EXCEPT ![s][c] = "returned"]
  /\ errChan' = [errChan EXCEPT ![s] = @ + 1]
  /\ told' = told \cup {c}
  /\ UNCHANGED <<startVars, signals, ctxDone, stopper, launched, received, timedOut>>

Collect(s) ==
  /\ stopper[s] = "collect" /\ errChan[s] > 0
  /\ errChan' = [errChan EXCEPT ![s] = @ - 1]
  /\ received' = [received EXCEPT ![s] = @ + 1]
  /\ stopper' = [stopper EXCEPT ![s] = IF received[s] + 1 = N THEN "wait" ELSE "collect"]
  /\ UNCHANGED <<startVars, signals, ctxDone, launched, stops, timedOut, told>>

\* handleSignals ends with its Stop.
AfterStop(s) == signals' = IF s = "signals" THEN "done" ELSE signals

TimeOut(s) ==
  /\ stopper[s] = "collect"
  /\ stopper' = [stopper EXCEPT ![s] = "returned"]
  /\ timedOut' = timedOut \cup {s}
  /\ AfterStop(s)
  /\ UNCHANGED <<startVars, ctxDone, launched, stops, errChan, received, told>>

WaitDone(s) ==
  /\ stopper[s] = "wait" /\ wg = 0
  /\ stopper' = [stopper EXCEPT ![s] = "returned"]
  /\ AfterStop(s)
  /\ UNCHANGED <<startVars, ctxDone, launched, stops, errChan, received, timedOut, told>>

-------------------------------------------------------------------------------
StopNext(s) == LaunchStop(s) \/ Collect(s) \/ TimeOut(s) \/ WaitDone(s)

\* Nothing runs in a process that has ended.
Next ==
  /\ main # "done"
  /\ \/ LaunchStart \/ AllStarted \/ MainEnds \/ Signal \/ SignalsEnd
     \/ \E c \in Comps : StartReturns(c)
     \/ \E s \in Stoppers : OwnerStop(s) \/ StopNext(s)
     \/ \E s \in Stoppers, c \in Comps : CompStop(s, c)

SafeSpec == Init /\ [][Next]_vars

(***************************************************************************)
(* Goroutines that can run do, every component's Stop returns, and so does *)
(* the Start of a component that heeds its Stop or needs none.  Nothing    *)
(* makes a signal arrive or a Stop time out.                               *)
(***************************************************************************)
Running(A) == main # "done" /\ A

Fairness ==
  /\ WF_vars(Running(LaunchStart \/ AllStarted \/ MainEnds))
  /\ \A c \in Comps : WF_vars(Running(Returnable(c) /\ StartReturns(c)))
  /\ \A s \in Stoppers : WF_vars(Running(StopNext(s)))
  /\ \A s \in Stoppers, c \in Comps : WF_vars(Running(CompStop(s, c)))

Spec == SafeSpec /\ Fairness

-------------------------------------------------------------------------------
(* Properties *)

Stages == {"none", "running", "returned"}

TypeOK ==
  /\ main \in {"start", "wait", "done"} /\ started \in 0..N
  /\ starts \in [Comps -> Stages] /\ wg \in 0..N
  /\ signals \in {"none", "listening", "stopping", "done"} /\ ctxDone \in BOOLEAN
  /\ stopper \in [Stoppers -> {"idle", "launch", "collect", "wait", "returned"}]
  /\ launched \in [Stoppers -> 0..N] /\ stops \in [Stoppers -> [Comps -> Stages]]
  /\ errChan \in [Stoppers -> 0..N] /\ received \in [Stoppers -> 0..N]
  /\ timedOut \subseteq Stoppers /\ told \subseteq Comps

(***************************************************************************)
(* "Wait until all components have stopped completely": a Stop that did    *)
(* not time out returns after every Start and every Stop has returned.     *)
(***************************************************************************)
StopMeansStopped ==
  \A s \in Stoppers : stopper[s] = "returned" /\ s \notin timedOut =>
    \A c \in Comps : starts[c] = "returned" /\ stops[s][c] = "returned"

(***************************************************************************)
(* "Wait until all components have ended": main does not end the process   *)
(* while the Start of a component still runs.                              *)
(***************************************************************************)
MainIsLast == main = "done" => \A c \in Comps : starts[c] = "returned"

(***************************************************************************)
(* Whoever waited for the WaitGroup, main and every Stop, found it at zero *)
(* because all was over, and not because a Start was yet to be counted.    *)
(***************************************************************************)
WaitersAreLast == StopMeansStopped /\ MainIsLast

(***************************************************************************)
(* A component's Stop that is late is not stuck for want of a receiver,    *)
(* even after the Stop of the manager has timed out.                       *)
(***************************************************************************)
LateStopsReturn ==
  \A s \in Stoppers, c \in Comps :
    stops[s][c] = "running" ~> (stops[s][c] = "returned" \/ main = "done")

(***************************************************************************)
(* A shutdown that begins ends the process ("graceful shutdown" of at most *)
(* 30 seconds).                                                            *)
(***************************************************************************)
ShutdownEnds == ctxDone ~> main = "done"
===============================================================================
