------------------------ MODULE ComponentManagerProofs ------------------------
(***************************************************************************)
(* What holds of common/manager.go for any number of components, whichever *)
(* of them block, and any number of goroutines that call Stop.             *)
(***************************************************************************)
EXTENDS ComponentManager, FiniteSetTheorems, TLAPS

-------------------------------------------------------------------------------
(* The inductive invariant. *)

\* The components at a stage of their Start, or of the Stop of one caller.
At(f, stage) == {c \in Comps : f[c] = stage}

\* The WaitGroup counts the Starts that run, and Start launches them in order.
StartInv ==
  /\ wg = Cardinality(At(starts, "running"))
  /\ \A c \in Comps : starts[c] # "none" <=> c <= started
  /\ main # "start" => started = N
  /\ main = "done" => wg = 0
  /\ signals # "none" => started = N

\* A Stop launches the components' Stops in reverse order; each result that was sent is
\* in the channel or received.
StopperInv(s) ==
  /\ \A c \in Comps : stops[s][c] # "none" <=> c > N - launched[s]
  /\ errChan[s] + received[s] = Cardinality(At(stops[s], "returned"))
  /\ stopper[s] # "idle" => started = N
  /\ stopper[s] \in {"idle", "launch"} => launched[s] < N
  /\ stopper[s] \in {"collect", "wait", "returned"} => launched[s] = N
  /\ stopper[s] = "wait" => received[s] = N
  /\ stopper[s] = "returned" /\ s \notin timedOut => received[s] = N /\ wg = 0

StopInv == \A s \in Stoppers : StopperInv(s)

IInv == TypeOK /\ StartInv /\ StopInv

USE ManagerAssumption DEF Comps

-------------------------------------------------------------------------------
(* Counting the components at a stage. *)

LEMMA CountBound ==
  ASSUME NEW f \in [Comps -> Stages], NEW v
  PROVE  /\ IsFiniteSet(At(f, v)) /\ Cardinality(At(f, v)) \in 0..N
         /\ Cardinality(At(f, v)) = N => \A c \in Comps : f[c] = v
         /\ Cardinality(At(f, v)) = 0 => \A c \in Comps : f[c] # v
<1>1. IsFiniteSet(Comps) /\ Cardinality(Comps) = N
  <2>1. 1 \in Int /\ N \in Int OBVIOUS
  <2>2. IsFiniteSet(1..N) /\ Cardinality(1..N) = IF 1 > N THEN 0 ELSE N - 1 + 1
    BY <2>1, FS_Interval
  <2>3. QED BY <2>2
<1>2. At(f, v) \subseteq Comps BY DEF At
<1>3. IsFiniteSet(At(f, v)) /\ Cardinality(At(f, v)) <= N
      /\ (Cardinality(At(f, v)) = N => At(f, v) = Comps)
  BY <1>1, <1>2, FS_Subset
<1>4. Cardinality(At(f, v)) \in Nat BY <1>3, FS_CardinalityType
<1>5. Cardinality(At(f, v)) = 0 => At(f, v) = {} BY <1>3, FS_EmptySet
<1>6. QED BY <1>3, <1>4, <1>5 DEF At

LEMMA CountUp ==
  ASSUME NEW f \in [Comps -> Stages], NEW c \in Comps, NEW v, f[c] # v
  PROVE  Cardinality(At([f EXCEPT ![c] = v], v)) = Cardinality(At(f, v)) + 1
<1>1. At([f EXCEPT ![c] = v], v) = At(f, v) \cup {c} /\ c \notin At(f, v) BY DEF At
<1>2. IsFiniteSet(At(f, v)) BY CountBound
<1>3. QED BY <1>1, <1>2, FS_AddElement

LEMMA CountDown ==
  ASSUME NEW f \in [Comps -> Stages], NEW c \in Comps, NEW v, NEW w, f[c] = v, w # v
  PROVE  Cardinality(At([f EXCEPT ![c] = w], v)) = Cardinality(At(f, v)) - 1
<1>1. At([f EXCEPT ![c] = w], v) = At(f, v) \ {c} /\ c \in At(f, v) BY DEF At
<1>2. IsFiniteSet(At(f, v)) BY CountBound
<1>3. QED BY <1>1, <1>2, FS_RemoveElement

LEMMA CountSame ==
  ASSUME NEW f \in [Comps -> Stages], NEW c \in Comps, NEW v, NEW w, f[c] # v, w # v
  PROVE  At([f EXCEPT ![c] = w], v) = At(f, v)
BY DEF At

-------------------------------------------------------------------------------
(***************************************************************************)
(* Types; the counters stay in range because they count components.        *)
(***************************************************************************)
LEMMA TypeStep == IInv /\ [Next]_vars => TypeOK'
<1> SUFFICES ASSUME TypeOK, StartInv, StopInv, [Next]_vars PROVE TypeOK'
  BY DEF IInv
<1> USE DEF TypeOK, Stages, startVars, stopVars
<1>1. CASE LaunchStart
  <2>1. started + 1 \in Comps /\ starts[started + 1] = "none"
    BY <1>1 DEF LaunchStart, StartInv
  <2>2. wg # N BY <2>1, CountBound DEF StartInv
  <2>3. QED BY <1>1, <2>1, <2>2 DEF LaunchStart
<1>2. CASE AllStarted \/ MainEnds \/ SignalsEnd
  BY <1>2 DEF AllStarted, MainEnds, SignalsEnd
<1>3. ASSUME NEW c \in Comps, StartReturns(c) PROVE TypeOK'
  <2>1. wg # 0 BY <1>3, CountBound DEF StartReturns, StartInv
  <2>2. QED BY <1>3, <2>1 DEF StartReturns
<1>4. CASE Signal BY <1>4 DEF Signal, BeginStop, Stoppers
<1>5. ASSUME NEW s \in Stoppers, OwnerStop(s) PROVE TypeOK'
  BY <1>5 DEF OwnerStop, BeginStop
<1>6. ASSUME NEW s \in Stoppers, LaunchStop(s) PROVE TypeOK'
  <2>1. launched[s] \in 0..N - 1 /\ N - launched[s] \in Comps
    BY <1>6 DEF LaunchStop, StopInv, StopperInv
  <2>2. stops' \in [Stoppers -> [Comps -> Stages]] BY <1>6, <2>1 DEF LaunchStop
  <2>3. launched' \in [Stoppers -> 0..N] BY <1>6, <2>1 DEF LaunchStop
  <2>4. QED BY <1>6, <2>2, <2>3 DEF LaunchStop
<1>7. ASSUME NEW s \in Stoppers, Collect(s) PROVE TypeOK'
  <2>1. stops[s] \in [Comps -> Stages] OBVIOUS
  <2>a. Cardinality(At(stops[s], "returned")) \in 0..N BY <2>1, CountBound
  <2>2. errChan[s] + received[s] <= N BY <2>a DEF StopInv, StopperInv
  <2>3. received[s] + 1 \in 0..N /\ errChan[s] - 1 \in 0..N BY <1>7, <2>2 DEF Collect
  <2>4. QED BY <1>7, <2>3 DEF Collect
<1>8. ASSUME NEW s \in Stoppers, TimeOut(s) PROVE TypeOK' BY <1>8 DEF TimeOut, AfterStop
<1>9. ASSUME NEW s \in Stoppers, WaitDone(s) PROVE TypeOK' BY <1>9 DEF WaitDone, AfterStop
<1>10. ASSUME NEW s \in Stoppers, NEW c \in Comps, CompStop(s, c) PROVE TypeOK'
  <2>1. errChan[s] + 1 \in 0..N BY <1>10 DEF CompStop, Capacity
  <2>2. stops' \in [Stoppers -> [Comps -> Stages]] BY <1>10 DEF CompStop
  <2>3. QED BY <1>10, <2>1, <2>2 DEF CompStop
<1>11. CASE UNCHANGED vars BY <1>11 DEF vars
<1>12. QED
  BY <1>1, <1>2, <1>3, <1>4, <1>5, <1>6, <1>7, <1>8, <1>9, <1>10, <1>11 DEF Next, StopNext

(***************************************************************************)
(* The WaitGroup.                                                          *)
(***************************************************************************)
LEMMA StartStep == IInv /\ [Next]_vars => StartInv'
<1> SUFFICES ASSUME TypeOK, StartInv, StopInv, [Next]_vars PROVE StartInv'
  BY DEF IInv
<1> USE DEF startVars, stopVars
<1>a. starts \in [Comps -> Stages] /\ started \in 0..N /\ wg \in 0..N BY DEF TypeOK
<1>1. CASE LaunchStart
  <2>1. started + 1 \in Comps /\ starts[started + 1] = "none"
    BY <1>1, <1>a DEF LaunchStart, StartInv
  <2>2. starts' = [starts EXCEPT ![started + 1] = "running"] BY <1>1 DEF LaunchStart
  <2>3. Cardinality(At(starts', "running")) = Cardinality(At(starts, "running")) + 1
    <3>1. starts[started + 1] # "running" BY <2>1
    <3>2. QED BY ONLY <1>a, <2>1, <2>2, <3>1, CountUp
  <2>4. \A c \in Comps : starts'[c] # "none" <=> c <= started'
    BY <1>1, <1>a, <2>1, <2>2 DEF LaunchStart, StartInv
  <2>5. signals = "none" BY <1>1, <1>a DEF LaunchStart, StartInv
  <2>6. wg' = Cardinality(At(starts', "running")) BY <1>1, <2>3 DEF LaunchStart, StartInv
  <2>7. QED BY <1>1, <2>4, <2>5, <2>6 DEF LaunchStart, StartInv
<1>2. CASE AllStarted BY <1>2 DEF AllStarted, StartInv
<1>3. CASE MainEnds BY <1>3 DEF MainEnds, StartInv
<1>4. ASSUME NEW c \in Comps, StartReturns(c), main # "done" PROVE StartInv'
  <2>1. starts' = [starts EXCEPT ![c] = "returned"] BY <1>4 DEF StartReturns
  <2>a. starts[c] = "running" BY <1>4 DEF StartReturns
  <2>b. Cardinality(At(starts', "running")) = Cardinality(At(starts, "running")) - 1
    BY ONLY <1>a, <2>1, <2>a, CountDown, c \in Comps
  <2>2. wg' = Cardinality(At(starts', "running")) BY <1>4, <2>b DEF StartReturns, StartInv
  <2>3. \A d \in Comps : starts'[d] # "none" <=> d <= started'
    BY <1>4, <1>a, <2>1 DEF StartReturns, StartInv
  <2>4. QED BY <1>4, <2>2, <2>3 DEF StartReturns, StartInv
<1>5. CASE Signal \/ SignalsEnd BY <1>5 DEF Signal, SignalsEnd, BeginStop, StartInv
<1>6. ASSUME NEW s \in Stoppers, OwnerStop(s) \/ StopNext(s) PROVE StartInv'
  <2>1. CASE OwnerStop(s) \/ LaunchStop(s) \/ Collect(s)
    BY <2>1 DEF OwnerStop, BeginStop, LaunchStop, Collect, StartInv
  <2>2. CASE TimeOut(s) \/ WaitDone(s)
    <3>1. started = N BY <2>2 DEF TimeOut, WaitDone, StopInv, StopperInv
    <3>2. UNCHANGED startVars BY <2>2 DEF TimeOut, WaitDone
    <3>3. QED BY <3>1, <3>2 DEF StartInv
  <2>3. QED BY <1>6, <2>1, <2>2 DEF StopNext
<1>7. ASSUME NEW s \in Stoppers, NEW c \in Comps, CompStop(s, c) PROVE StartInv'
  BY <1>7 DEF CompStop, StartInv
<1>8. CASE UNCHANGED vars BY <1>8 DEF vars, StartInv
<1>9. QED BY <1>1, <1>2, <1>3, <1>4, <1>5, <1>6, <1>7, <1>8 DEF Next

(***************************************************************************)
(* One Stop and its results.                                               *)
(***************************************************************************)
LEMMA StopStep == IInv /\ [Next]_vars => StopInv'
<1> SUFFICES ASSUME TypeOK, StartInv, StopInv, [Next]_vars, NEW t \in Stoppers
             PROVE  StopperInv(t)'
  BY DEF IInv, StopInv
<1> USE DEF startVars, stopVars
<1>a. /\ stopper[t] \in {"idle", "launch", "collect", "wait", "returned"}
      /\ launched \in [Stoppers -> 0..N] /\ stops \in [Stoppers -> [Comps -> Stages]]
      /\ errChan \in [Stoppers -> 0..N] /\ received \in [Stoppers -> 0..N]
      /\ stopper \in [Stoppers -> {"idle", "launch", "collect", "wait", "returned"}]
  BY DEF TypeOK
<1>b. StopperInv(t) BY DEF StopInv
<1>1. CASE LaunchStart
  <2>1. started # N /\ UNCHANGED stopVars BY <1>1 DEF LaunchStart, TypeOK
  <2>2. stopper[t] = "idle" BY <1>b, <2>1 DEF StopperInv
  <2>3. QED BY <1>b, <2>1, <2>2 DEF StopperInv
<1>2. CASE AllStarted \/ MainEnds \/ SignalsEnd
  BY <1>2, <1>b DEF AllStarted, MainEnds, SignalsEnd, StopperInv
<1>3. ASSUME NEW c \in Comps, StartReturns(c) PROVE StopperInv(t)'
  <2>1. starts \in [Comps -> Stages] /\ starts[c] = "running"
    BY <1>3 DEF StartReturns, TypeOK
  <2>2. wg # 0 BY <2>1, CountBound DEF StartInv
  <2>3. UNCHANGED <<stopVars, started>> BY <1>3 DEF StartReturns
  <2>4. QED BY <1>b, <2>2, <2>3 DEF StopperInv
<1>4. ASSUME NEW s \in Stoppers, BeginStop(s), started = N PROVE StopperInv(t)'
  BY <1>4, <1>a, <1>b DEF BeginStop, StopperInv
<1>5. CASE Signal
  <2>1. started = N /\ "signals" \in Stoppers BY <1>5 DEF Signal, StartInv, Stoppers
  <2>2. QED BY <1>4, <1>5, <2>1 DEF Signal
<1>6. ASSUME NEW s \in Stoppers, OwnerStop(s) PROVE StopperInv(t)'
  BY <1>4, <1>6 DEF OwnerStop, StartInv
<1>7. ASSUME NEW s \in Stoppers, LaunchStop(s) PROVE StopperInv(t)'
  <2>1. CASE s # t BY <1>7, <1>a, <1>b, <2>1 DEF LaunchStop, StopperInv
  <2>2. CASE s = t
    <3>1. stopper[t] = "launch" /\ launched[t] < N BY <1>7, <1>b, <2>2 DEF LaunchStop, StopperInv
    <3>2. N - launched[t] \in Comps BY <1>a, <3>1
    <3>3. stops[t][N - launched[t]] = "none" BY <1>a, <1>b, <3>2 DEF StopperInv
    <3>4. /\ launched'[t] = launched[t] + 1
          /\ stops'[t] = [stops[t] EXCEPT ![N - launched[t]] = "running"]
          /\ stopper'[t] = IF launched[t] + 1 = N THEN "collect" ELSE "launch"
          /\ errChan'[t] = errChan[t] /\ received'[t] = received[t] /\ started' = started
      BY <1>7, <1>a, <2>2 DEF LaunchStop
    <3>5. \A c \in Comps : stops'[t][c] # "none" <=> c > N - launched'[t]
      BY <1>a, <1>b, <3>2, <3>4 DEF StopperInv
    <3>6. At(stops'[t], "returned") = At(stops[t], "returned")
      <4>1. stops[t] \in [Comps -> Stages] BY <1>a
      <4>2. At([stops[t] EXCEPT ![N - launched[t]] = "running"], "returned")
            = At(stops[t], "returned")
        <5>1. ASSUME NEW k \in Comps, stops[t][k] # "returned"
              PROVE  At([stops[t] EXCEPT ![k] = "running"], "returned") = At(stops[t], "returned")
          <6>1. "running" # "returned" OBVIOUS
          <6>2. QED BY ONLY <4>1, <5>1, <6>1, CountSame
        <5>2. stops[t][N - launched[t]] # "returned" BY <3>3
        <5>3. QED BY ONLY <3>2, <5>1, <5>2
      <4>3. QED BY <3>4, <4>2, Zenon
    <3>7. errChan'[t] + received'[t] = Cardinality(At(stops'[t], "returned"))
      BY <1>b, <3>4, <3>6 DEF StopperInv
    <3>8. started' = N BY <1>b, <3>1, <3>4 DEF StopperInv
    <3>9. /\ stopper'[t] = "launch" => launched'[t] < N
          /\ stopper'[t] = "collect" => launched'[t] = N
          /\ stopper'[t] \in {"launch", "collect"}
      BY <1>a, <3>1, <3>4
    <3>10. QED BY <3>5, <3>7, <3>8, <3>9 DEF StopperInv
  <2>3. QED BY <2>1, <2>2
<1>8. ASSUME NEW s \in Stoppers, Collect(s) PROVE StopperInv(t)'
  <2>1. CASE s # t BY <1>8, <1>a, <1>b, <2>1 DEF Collect, StopperInv
  <2>2. CASE s = t
    <3>1. /\ errChan'[t] = errChan[t] - 1 /\ received'[t] = received[t] + 1
          /\ stopper[t] = "collect" /\ UNCHANGED <<launched, stops, started>>
          /\ stopper'[t] = IF received[t] + 1 = N THEN "wait" ELSE "collect"
      BY <1>8, <1>a, <2>2 DEF Collect
    <3>2. errChan'[t] + received'[t] = errChan[t] + received[t] BY <1>a, <3>1
    <3>3. QED BY <1>b, <3>1, <3>2 DEF StopperInv
  <2>3. QED BY <2>1, <2>2
<1>9. ASSUME NEW s \in Stoppers, TimeOut(s) PROVE StopperInv(t)'
  BY <1>9, <1>a, <1>b DEF TimeOut, StopperInv
<1>10. ASSUME NEW s \in Stoppers, WaitDone(s) PROVE StopperInv(t)'
  BY <1>10, <1>a, <1>b DEF WaitDone, StopperInv
<1>11. ASSUME NEW s \in Stoppers, NEW c \in Comps, CompStop(s, c) PROVE StopperInv(t)'
  <2>1. CASE s # t BY <1>11, <1>a, <1>b, <2>1 DEF CompStop, StopperInv
  <2>2. CASE s = t
    <3>1. /\ stops'[t] = [stops[t] EXCEPT ![c] = "returned"] /\ stops[t][c] = "running"
          /\ errChan'[t] = errChan[t] + 1
          /\ UNCHANGED <<stopper, launched, received, timedOut, started, wg>>
      BY <1>11, <1>a, <2>2 DEF CompStop
    <3>2. \A d \in Comps : stops'[t][d] # "none" <=> stops[t][d] # "none" BY <1>a, <3>1
    <3>3. Cardinality(At(stops'[t], "returned")) = Cardinality(At(stops[t], "returned")) + 1
      <4>1. stops[t][c] # "returned" /\ stops[t] \in [Comps -> Stages] BY <1>a, <3>1
      <4>2. QED BY <3>1, <4>1, CountUp
    <3>4. errChan'[t] + received'[t] = Cardinality(At(stops'[t], "returned"))
      BY <1>a, <1>b, <3>1, <3>3 DEF StopperInv
    <3>5. QED BY <1>b, <3>1, <3>2, <3>4 DEF StopperInv
  <2>3. QED BY <2>1, <2>2
<1>12. CASE UNCHANGED vars BY <1>12, <1>b DEF vars, StopperInv
<1>13. QED
  BY <1>1, <1>2, <1>3, <1>5, <1>6, <1>7, <1>8, <1>9, <1>10, <1>11, <1>12 DEF Next, StopNext

-------------------------------------------------------------------------------
(* The theorems. *)

LEMMA Inductive == SafeSpec => []IInv
<1>1. Init => IInv
  <2> SUFFICES ASSUME Init PROVE IInv
    OBVIOUS
  <2>a. 0 \in 0..N /\ 0 < N OBVIOUS
  <2>1. TypeOK BY <2>a DEF Init, TypeOK, Stages
  <2>2. At(starts, "running") = {} BY DEF Init, At
  <2>3. Cardinality({}) = 0 BY FS_EmptySet
  <2>4. StartInv BY <2>2, <2>3 DEF Init, StartInv
  <2>5. ASSUME NEW s \in Stoppers PROVE StopperInv(s)
    <3>1. At(stops[s], "returned") = {} BY DEF Init, At
    <3>2. stopper[s] = "idle" /\ launched[s] = 0 /\ errChan[s] = 0 /\ received[s] = 0
      BY DEF Init
    <3>3. \A c \in Comps : stops[s][c] = "none" BY DEF Init
    <3>4. QED BY <2>a, <2>3, <3>1, <3>2, <3>3 DEF StopperInv
  <2>6. QED BY <2>1, <2>4, <2>5 DEF IInv, StopInv
<1>2. IInv /\ [Next]_vars => IInv' BY TypeStep, StartStep, StopStep DEF IInv
<1>3. QED BY <1>1, <1>2, PTL DEF SafeSpec

(***************************************************************************)
(* The WaitGroup never goes below zero, and no Stop receives more results  *)
(* than there are components.                                              *)
(***************************************************************************)
THEOREM TypeCorrect == SafeSpec => []TypeOK
<1>1. IInv => TypeOK BY DEF IInv
<1>2. QED BY <1>1, Inductive, PTL

(***************************************************************************)
(* A Stop that did not time out returns after every Start and every Stop,  *)
(* for any number of components and of concurrent calls of Stop.           *)
(***************************************************************************)
LEMMA StopWaits == SafeSpec => []StopMeansStopped
<1>1. ASSUME IInv, NEW s \in Stoppers, stopper[s] = "returned", s \notin timedOut,
             NEW c \in Comps
      PROVE  starts[c] = "returned" /\ stops[s][c] = "returned"
  <2>1. TypeOK /\ StartInv /\ StopperInv(s) BY <1>1 DEF IInv, StopInv
  <2>2. /\ starts \in [Comps -> Stages] /\ stops[s] \in [Comps -> Stages]
        /\ errChan[s] \in 0..N /\ received[s] \in 0..N
    BY <2>1 DEF TypeOK
  <2>3. wg = 0 /\ received[s] = N /\ started = N BY <1>1, <2>1 DEF StopperInv
  <2>4. starts[c] # "running" BY <2>1, <2>2, <2>3, CountBound DEF StartInv
  <2>5. starts[c] # "none" BY <2>1, <2>3 DEF StartInv
  <2>6. starts[c] = "returned" BY <2>2, <2>4, <2>5 DEF Stages
  <2>7. Cardinality(At(stops[s], "returned")) \in 0..N BY <2>2, CountBound
  <2>8. Cardinality(At(stops[s], "returned")) = N BY <2>1, <2>2, <2>3, <2>7 DEF StopperInv
  <2>9. stops[s][c] = "returned" BY <2>2, <2>8, CountBound
  <2>10. QED BY <2>6, <2>9
<1>2. IInv => StopMeansStopped BY <1>1 DEF StopMeansStopped
<1>3. QED BY <1>2, Inductive, PTL

(***************************************************************************)
(* The process does not end while the Start of a component runs.           *)
(***************************************************************************)
LEMMA MainEndsLast == SafeSpec => []MainIsLast
<1>1. ASSUME IInv, main = "done", NEW c \in Comps PROVE starts[c] = "returned"
  <2>1. TypeOK /\ StartInv BY <1>1 DEF IInv
  <2>2. starts \in [Comps -> Stages] BY <2>1 DEF TypeOK
  <2>3. wg = 0 /\ started = N BY <1>1, <2>1 DEF StartInv
  <2>4. starts[c] # "running" BY <2>1, <2>2, <2>3, CountBound DEF StartInv
  <2>5. starts[c] # "none" BY <2>1, <2>3 DEF StartInv
  <2>6. QED BY <2>2, <2>4, <2>5 DEF Stages
<1>2. IInv => MainIsLast BY <1>1 DEF MainIsLast
<1>3. QED BY <1>2, Inductive, PTL

(***************************************************************************)
(* Both waiters, Stop and main, return only after every Start.             *)
(***************************************************************************)
THEOREM WaitsMeanReturned == SafeSpec => []WaitersAreLast
<1>1. StopMeansStopped /\ MainIsLast => WaitersAreLast BY DEF WaitersAreLast
<1>2. QED BY <1>1, StopWaits, MainEndsLast, PTL

(***************************************************************************)
(* A component's Stop that has yet to return will find room for its result *)
(* in the channel, also when nobody receives any more: what LateStopsReturn*)
(* needs besides fairness.                                                 *)
(***************************************************************************)
THEOREM RoomForResult ==
  SafeSpec => [](\A s \in Stoppers, c \in Comps :
                   stops[s][c] = "running" => errChan[s] < Capacity)
<1>1. ASSUME IInv, NEW s \in Stoppers, NEW c \in Comps, stops[s][c] = "running"
      PROVE  errChan[s] < Capacity
  <2>1. TypeOK /\ StopperInv(s) BY <1>1 DEF IInv, StopInv
  <2>2. stops[s] \in [Comps -> Stages] /\ errChan[s] \in 0..N /\ received[s] \in 0..N
    BY <2>1 DEF TypeOK
  <2>3. /\ Cardinality(At(stops[s], "returned")) \in 0..N
        /\ Cardinality(At(stops[s], "returned")) = N => stops[s][c] = "returned"
    BY <2>2, CountBound
  <2>4. Cardinality(At(stops[s], "returned")) < N BY <1>1, <2>3
  <2>5. errChan[s] + received[s] = Cardinality(At(stops[s], "returned"))
    BY <2>1 DEF StopperInv
  <2>6. QED BY <2>2, <2>3, <2>4, <2>5 DEF Capacity
<1>2. IInv => (\A s \in Stoppers, c \in Comps :
                 stops[s][c] = "running" => errChan[s] < Capacity)
  BY <1>1
<1>3. QED BY <1>2, Inductive, PTL
===============================================================================
