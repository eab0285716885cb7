---------------------------- MODULE SchedulerProofs ----------------------------
(***************************************************************************)
(* What holds of common/scheduler.go for any set of tasks and names, any   *)
(* date and interval, and without a bound of the clock.                    *)
(***************************************************************************)
EXTENDS Scheduler, FiniteSetTheorems, TLAPS

USE SchedulerAssumption DEF Never

-------------------------------------------------------------------------------
(* Types *)

LEMMA TypeInit == Init => TypeOK
BY DEF Init, TypeOK

LEMMA TypeStep == TypeOK /\ [Next]_vars => TypeOK'
<1> SUFFICES ASSUME TypeOK, [Next]_vars PROVE TypeOK'
  OBVIOUS
<1> USE DEF TypeOK, jobVars, loopVars, dateVars, Push, Leave
<1>1. CASE Start BY <1>1 DEF Start
<1>2. CASE Stop BY <1>2 DEF Stop
<1>3. CASE LoopEnd BY <1>3 DEF LoopEnd
<1>4. CASE LoopSleep BY <1>4 DEF LoopSleep
<1>5. CASE Wake BY <1>5 DEF Wake
<1>6. ASSUME NEW j \in Jobs, Dispatch(j) PROVE TypeOK' BY <1>6 DEF Dispatch
<1>7. CASE Tick BY <1>7 DEF Tick
<1>8. ASSUME NEW i \in Ids, RemoveTask(i) PROVE TypeOK'
  <2>1. place' \in [Jobs -> {"new", "waiting", "running", "gone"}] BY <1>8 DEF RemoveTask
  <2>2. hits' \in [Ids -> Nat] BY <1>8 DEF RemoveTask
  <2>3. taskMap' \subseteq Ids BY <1>8 DEF RemoveTask
  <2> QED BY <1>8, <2>1, <2>2, <2>3 DEF RemoveTask
<1>9. ASSUME NEW j \in Jobs, NEW when \in (now - MaxDelay)..(now + MaxDelay), AddTask(j, when)
      PROVE  TypeOK'
  BY <1>9 DEF AddTask
<1>10. ASSUME NEW j \in Jobs, FinishRepeat(j) PROVE TypeOK' BY <1>10 DEF FinishRepeat
<1>11. ASSUME NEW j \in Jobs, FinishOnce(j) PROVE TypeOK' BY <1>11 DEF FinishOnce
<1>12. CASE UNCHANGED vars BY <1>12 DEF vars
<1> QED
  BY <1>1, <1>2, <1>3, <1>4, <1>5, <1>6, <1>7, <1>8, <1>9, <1>10, <1>11, <1>12
     DEF Next, LoopNext

(***************************************************************************)
(* The scheduler's variables keep their types, and no sleep is longer than *)
(* a second.                                                               *)
(***************************************************************************)
THEOREM TypeCorrect == Spec => []TypeOK
BY TypeInit, TypeStep, PTL DEF Spec

-------------------------------------------------------------------------------
(* Time *)

\* While the loop sleeps: it will wake in time for every waiting task and after a Stop.
SleepInv ==
  loop = "sleep" =>
    /\ now <= wakeAt
    /\ \A j \in Waiting : wakeAt <= ready[j] + Second
    /\ stopAt # Never => wakeAt <= stopAt + Second

LEMMA SleepStep == TypeOK /\ SleepInv /\ [Next]_vars => SleepInv'
<1> SUFFICES ASSUME TypeOK, SleepInv, [Next]_vars PROVE SleepInv'
  OBVIOUS
<1> USE DEF TypeOK, SleepInv, Waiting, jobVars, loopVars, dateVars, Push, Leave
<1>1. CASE Start BY <1>1 DEF Start
<1>2. CASE Stop BY <1>2 DEF Stop
<1>3. CASE LoopEnd BY <1>3 DEF LoopEnd
<1>4. CASE LoopSleep BY <1>4 DEF LoopSleep
<1>5. CASE Wake BY <1>5 DEF Wake
<1>6. ASSUME NEW j \in Jobs, Dispatch(j) PROVE SleepInv' BY <1>6 DEF Dispatch
<1>7. CASE Tick BY <1>7 DEF Tick
<1>8. ASSUME NEW i \in Ids, RemoveTask(i) PROVE SleepInv' BY <1>8 DEF RemoveTask
<1>9. ASSUME NEW j \in Jobs, NEW when \in (now - MaxDelay)..(now + MaxDelay), AddTask(j, when)
      PROVE  SleepInv'
  BY <1>9 DEF AddTask
<1>10. ASSUME NEW j \in Jobs, FinishRepeat(j) PROVE SleepInv' BY <1>10 DEF FinishRepeat
<1>11. ASSUME NEW j \in Jobs, FinishOnce(j) PROVE SleepInv' BY <1>11 DEF FinishOnce
<1>12. CASE UNCHANGED vars BY <1>12 DEF vars
<1> QED
  BY <1>1, <1>2, <1>3, <1>4, <1>5, <1>6, <1>7, <1>8, <1>9, <1>10, <1>11, <1>12
     DEF Next, LoopNext

LEMMA SleepInvariance == Spec => [](TypeOK /\ SleepInv)
<1>1. Init => TypeOK /\ SleepInv BY TypeInit DEF Init, SleepInv
<1>2. (TypeOK /\ SleepInv) /\ [Next]_vars => (TypeOK /\ SleepInv)'
  BY TypeStep, SleepStep
<1> QED BY <1>1, <1>2, PTL DEF Spec

(***************************************************************************)
(* Whatever dates the tasks are added with, also dates long past and dates *)
(* added while it sleeps, the loop never sleeps on while a task has been in*)
(* the heap, and due, for more than a second.                              *)
(***************************************************************************)
THEOREM NoOversleep == Spec => []StartsInTime
<1>1. TypeOK /\ SleepInv => StartsInTime BY DEF TypeOK, SleepInv, StartsInTime, Waiting
<1> QED BY <1>1, SleepInvariance, PTL

(***************************************************************************)
(* After Stop the loop sleeps for at most a second more.                   *)
(***************************************************************************)
THEOREM EndsAfterStop == Spec => []StopsInTime
<1>1. TypeOK /\ SleepInv => StopsInTime BY DEF TypeOK, SleepInv, StopsInTime
<1> QED BY <1>1, SleepInvariance, PTL

-------------------------------------------------------------------------------
(* The map and the tasks *)

\* The tasks of a name are finitely many, so they can be counted.
LEMMA LiveFinite ==
  ASSUME NEW i
  PROVE  /\ IsFiniteSet(Live(i)) /\ Cardinality(Live(i)) \in Nat
         /\ IsFiniteSet(Live(i))' /\ Cardinality(Live(i))' \in Nat
<1>1. Live(i) \subseteq Jobs /\ Live(i)' \subseteq Jobs BY DEF Live
<1> QED BY <1>1, FS_Subset, FS_CardinalityType

LEMMA MapStep == TypeOK /\ MapFollowsTasks /\ [Next]_vars => MapFollowsTasks'
<1> SUFFICES ASSUME TypeOK, MapFollowsTasks, [Next]_vars, NEW n \in Ids
             PROVE  /\ Mapped(n)' <= Cardinality(Live(n)')
                    /\ Cardinality(Live(n)') <= Mapped(n)' + hits'[n]
  BY DEF MapFollowsTasks
<1>0. /\ Mapped(n) <= Cardinality(Live(n))
      /\ Cardinality(Live(n)) <= Mapped(n) + hits[n]
      /\ hits[n] \in Nat
  BY DEF MapFollowsTasks, TypeOK
<1> DEFINE Goal == /\ Mapped(n)' <= Cardinality(Live(n)')
                   /\ Cardinality(Live(n)') <= Mapped(n)' + hits'[n]
<1>a. ASSUME Live(n)' = Live(n), UNCHANGED <<taskMap, hits>> PROVE Goal
  BY <1>0, <1>a DEF Mapped
<1>1. ASSUME NEW j \in Jobs, NEW when \in (now - MaxDelay)..(now + MaxDelay), AddTask(j, when)
      PROVE  Goal
  <2>0. /\ place' = [place EXCEPT ![j] = "waiting"] /\ place[j] = "new"
        /\ name' = name /\ hits' = hits
        /\ taskMap' = taskMap \cup {name[j]} /\ name[j] \notin taskMap
    BY <1>1 DEF AddTask, Push, jobVars
  <2>1. CASE name[j] = n
    <3>1. Live(n)' = Live(n) \cup {j} /\ j \notin Live(n)
      BY <2>0, <2>1 DEF Live, TypeOK
    <3>2. Cardinality(Live(n)') = Cardinality(Live(n)) + 1
      BY <3>1, LiveFinite, FS_AddElement
    <3>3. Mapped(n) = 0 /\ Mapped(n)' = 1 BY <2>0, <2>1 DEF Mapped
    <3> QED BY <1>0, <2>0, <3>2, <3>3, LiveFinite
  <2>2. CASE name[j] # n
    <3>1. Live(n)' = Live(n) BY <2>0, <2>2 DEF Live, TypeOK
    <3>2. Mapped(n)' = Mapped(n) BY <2>0, <2>2 DEF Mapped
    <3> QED BY <1>0, <2>0, <3>1, <3>2
  <2> QED BY <2>1, <2>2
<1>2. ASSUME NEW i \in Ids, RemoveTask(i) PROVE Goal
  <2>0. /\ place' = [j \in Jobs |-> IF name[j] = i /\ place[j] = "waiting"
                                    THEN "gone" ELSE place[j]]
        /\ hits' = IF Running(i) # {} THEN [hits EXCEPT ![i] = @ + 1] ELSE hits
        /\ name' = name /\ taskMap' = taskMap \ {i}
    BY <1>2 DEF RemoveTask, Leave, Waiting, jobVars
  <2>1. CASE i = n
    <3>1. Live(n)' = Running(n) BY <2>0, <2>1 DEF Live, Running, TypeOK
    <3>2. Mapped(n)' = 0 BY <2>0, <2>1 DEF Mapped
    <3>3. CASE Running(n) = {}
      <4>1. hits' = hits BY <2>0, <2>1, <3>3
      <4>2. Cardinality(Live(n)') = 0 BY <3>1, <3>3, FS_EmptySet
      <4> QED BY <1>0, <3>2, <4>1, <4>2
    <3>4. CASE Running(n) # {}
      <4>1. hits'[n] = hits[n] + 1 BY <2>0, <2>1, <3>4 DEF TypeOK
      <4>2. Running(n) \subseteq Live(n) BY DEF Running, Live
      <4>3. Cardinality(Live(n)') <= Cardinality(Live(n))
        BY <3>1, <4>2, LiveFinite, FS_Subset
      <4>4. Mapped(n) \in {0, 1} BY DEF Mapped
      <4> QED BY <1>0, <3>2, <4>1, <4>3, <4>4, LiveFinite
    <3> QED BY <3>3, <3>4
  <2>2. CASE i # n
    <3>1. Live(n)' = Live(n) BY <2>0, <2>2 DEF Live, TypeOK
    <3>2. Mapped(n)' = Mapped(n) BY <2>0, <2>2 DEF Mapped
    <3>3. hits'[n] = hits[n] BY <2>0, <2>2 DEF TypeOK
    <3> QED BY <1>0, <3>1, <3>2, <3>3
  <2> QED BY <2>1, <2>2
<1>3. ASSUME NEW j \in Jobs, FinishOnce(j) PROVE Goal
  <2>0. /\ place' = [place EXCEPT ![j] = "gone"] /\ place[j] = "running"
        /\ name' = name /\ hits' = hits /\ taskMap' = taskMap \ {name[j]}
    BY <1>3 DEF FinishOnce, jobVars
  <2>1. CASE name[j] = n
    <3>1. Live(n)' = Live(n) \ {j} /\ j \in Live(n)
      BY <2>0, <2>1 DEF Live, TypeOK
    <3>2. Cardinality(Live(n)') = Cardinality(Live(n)) - 1
      BY <3>1, LiveFinite, FS_RemoveElement
    <3>3. Mapped(n) \in {0, 1} /\ Mapped(n)' = 0 BY <2>0, <2>1 DEF Mapped
    <3> QED BY <1>0, <2>0, <3>2, <3>3, LiveFinite
  <2>2. CASE name[j] # n
    <3>1. Live(n)' = Live(n) BY <2>0, <2>2 DEF Live, TypeOK
    <3>2. Mapped(n)' = Mapped(n) BY <2>0, <2>2 DEF Mapped
    <3> QED BY <1>0, <2>0, <3>1, <3>2
  <2> QED BY <2>1, <2>2
<1>4. ASSUME NEW j \in Jobs, FinishRepeat(j) \/ Dispatch(j) PROVE Goal
  <2>1. Live(n)' = Live(n)
    BY <1>4 DEF FinishRepeat, Dispatch, Push, Leave, Waiting, Live, TypeOK, jobVars
  <2> QED BY <1>4, <1>a, <2>1 DEF FinishRepeat, Dispatch
<1>5. CASE Start \/ Stop \/ LoopEnd \/ LoopSleep \/ Wake \/ Tick
  <2>1. Live(n)' = Live(n)
    BY <1>5 DEF Start, Stop, LoopEnd, LoopSleep, Wake, Tick, Live, jobVars
  <2> QED BY <1>5, <1>a, <2>1 DEF Start, Stop, LoopEnd, LoopSleep, Wake, Tick
<1>6. CASE UNCHANGED vars
  <2>1. Live(n)' = Live(n) BY <1>6 DEF vars, jobVars, Live
  <2> QED BY <1>6, <1>a, <2>1 DEF vars
<1> QED BY <1>1, <1>2, <1>3, <1>4, <1>5, <1>6 DEF Next, LoopNext

(***************************************************************************)
(* The map tells which names are taken, except for the tasks that a        *)
(* removal missed because they were executing.                             *)
(***************************************************************************)
THEOREM MapIsSound == Spec => []MapFollowsTasks
<1>1. Init => TypeOK /\ MapFollowsTasks
  <2> SUFFICES ASSUME Init, NEW i \in Ids
               PROVE  /\ Mapped(i) <= Cardinality(Live(i))
                      /\ Cardinality(Live(i)) <= Mapped(i) + hits[i]
    BY TypeInit DEF MapFollowsTasks
  <2>1. Live(i) = {} /\ Mapped(i) = 0 /\ hits[i] = 0 BY DEF Init, Live, Mapped
  <2> QED BY <2>1, FS_EmptySet
<1>2. (TypeOK /\ MapFollowsTasks) /\ [Next]_vars => (TypeOK /\ MapFollowsTasks)'
  BY TypeStep, MapStep
<1> QED BY <1>1, <1>2, PTL DEF Spec

-------------------------------------------------------------------------------
(* Dates *)

LEMMA DivMod == \A t \in Nat :
  /\ t \div Day \in Nat /\ t % Day \in 0..(Day - 1)
  /\ t = Day * (t \div Day) + (t % Day)
<1> TAKE t \in Nat
<1>1. t \div Day \in Nat OBVIOUS
<1>2. t % Day \in 0..(Day - 1) OBVIOUS
<1>3. t = Day * (t \div Day) + (t % Day) OBVIOUS
<1>4. QED BY <1>1, <1>2, <1>3

\* The n-th day begins at Day * n.
LEMMA DayBegins == \A n \in Nat :
  /\ Day * n \in Nat
  /\ (Day * n) % Day = 0 /\ (Day * n) \div Day = n
<1> TAKE n \in Nat
<1> DEFINE t == Day * n
           q == t \div Day
<1>1. t \in Nat OBVIOUS
<1>2. q \in Nat /\ t % Day \in 0..(Day - 1) /\ t = Day * q + (t % Day)
  BY <1>1, DivMod
<1>3. q = n
  <2>1. ~(q < n)
    <3>1. SUFFICES ASSUME q + 1 <= n PROVE FALSE BY <1>2
    <3>2. Day * (q + 1) <= Day * n BY <1>2, <3>1
    <3>3. Day * (q + 1) = Day * q + Day BY <1>2
    <3>4. Day * q \in Nat BY <1>2
    <3>5. QED BY <1>1, <1>2, <3>2, <3>3, <3>4
  <2>2. ~(q > n)
    <3>1. SUFFICES ASSUME n + 1 <= q PROVE FALSE BY <1>2
    <3>2. Day * (n + 1) <= Day * q BY <1>2, <3>1
    <3>3. Day * (n + 1) = Day * n + Day OBVIOUS
    <3>4. Day * q \in Nat BY <1>2
    <3>5. QED BY <1>1, <1>2, <3>2, <3>3, <3>4
  <2>3. QED BY <1>2, <2>1, <2>2
<1>4. QED BY <1>1, <1>2, <1>3

LEMMA NextDay ==
  ASSUME NEW t \in Nat
  PROVE  /\ IsMidnight(getNextDayResetTime(t))
         /\ t <= getNextDayResetTime(t) /\ getNextDayResetTime(t) < t + Day
<1> DEFINE q == t \div Day
<1>1. q \in Nat /\ t % Day \in 0..(Day - 1) /\ t = Day * q + (t % Day) /\ Day * q \in Nat
  BY DivMod, DayBegins
<1>2. Midnight(t) = Day * q BY <1>1 DEF Midnight
<1> HIDE DEF q
<1>3. CASE Day * q < t
  <2>1. getNextDayResetTime(t) = Day * q + Day BY <1>2, <1>3 DEF getNextDayResetTime
  <2>2. Day * q + Day = Day * (q + 1) BY <1>1
  <2>3. (Day * (q + 1)) % Day = 0 BY <1>1, DayBegins
  <2>4. QED BY <1>1, <1>3, <2>1, <2>2, <2>3 DEF IsMidnight
<1>4. CASE Day * q = t
  <2>1. getNextDayResetTime(t) = Day * q BY <1>2, <1>4 DEF getNextDayResetTime
  <2>2. (Day * q) % Day = 0 BY <1>1, DayBegins
  <2>3. QED BY <1>1, <1>4, <2>1, <2>2 DEF IsMidnight
<1>5. Day * q < t \/ Day * q = t
  <2> DEFINE m == Day * q
             r == t % Day
  <2>1. m \in Nat /\ r \in Nat /\ t = m + r BY <1>1
  <2> HIDE DEF m, r
  <2>2. m < t \/ m = t BY <2>1
  <2>3. QED BY <2>2 DEF m
<1>6. QED BY <1>3, <1>4, <1>5

LEMMA NextWeek ==
  ASSUME NEW t \in Nat
  PROVE  /\ IsMonday(getNextWeekResetTime(t))
         /\ t < getNextWeekResetTime(t) /\ getNextWeekResetTime(t) <= t + 7 * Day
<1> DEFINE q == t \div Day
           days == IF 1 - Weekday(t) <= 0 THEN (1 - Weekday(t)) + 7 ELSE 1 - Weekday(t)
<1>1. q \in Nat /\ t % Day \in 0..(Day - 1) /\ t = Day * q + (t % Day) /\ Day * q \in Nat
  BY DivMod, DayBegins
<1>2. Midnight(t) = Day * q BY <1>1 DEF Midnight
<1>3. getNextWeekResetTime(t) = Day * q + Day * days
  BY <1>2 DEF getNextWeekResetTime
<1>4. Weekday(t) = q % 7 BY DEF Weekday
<1>5. days \in 1..7 /\ (q + days) % 7 = 1 BY <1>1, <1>4
<1> HIDE DEF q, days
<1>6. Day * q + Day * days = Day * (q + days) /\ Day * days \in Nat /\ q + days \in Nat
  BY <1>1, <1>5
<1>7. IsMonday(getNextWeekResetTime(t))
  BY <1>3, <1>5, <1>6, DayBegins DEF IsMonday, IsMidnight, Weekday
<1>8. Day <= Day * days /\ Day * days <= 7 * Day BY <1>5
<1> DEFINE m == Day * q
           r == t % Day
           w == Day * days
<1>9. /\ m \in Nat /\ r \in Nat /\ r < Day /\ t = m + r
      /\ w \in Nat /\ Day <= w /\ w <= 7 * Day
      /\ getNextWeekResetTime(t) = m + w
  BY <1>1, <1>3, <1>6, <1>8
<1> HIDE DEF m, r, w
<1>10. t < m + w /\ m + w <= t + 7 * Day BY <1>9
<1>11. QED BY <1>7, <1>9, <1>10

(***************************************************************************)
(* The daily and the weekly reset are for the next midnight and the next   *)
(* Monday, whatever the time (getNextDayResetTime, getNextWeekResetTime).  *)
(***************************************************************************)
THEOREM NextResets == Spec => []ResetsAreNext
<1>1. TypeOK => ResetsAreNext
  <2> SUFFICES ASSUME TypeOK, NEW t \in now..(now + 7 * Day)
               PROVE  /\ IsMidnight(getNextDayResetTime(t))
                      /\ t <= getNextDayResetTime(t) /\ getNextDayResetTime(t) < t + Day
                      /\ IsMonday(getNextWeekResetTime(t))
                      /\ t < getNextWeekResetTime(t)
                      /\ getNextWeekResetTime(t) <= t + 7 * Day
    BY DEF ResetsAreNext
  <2>1. now \in Nat BY DEF TypeOK
  <2>2. t \in Nat BY <2>1
  <2>3. QED BY <2>2, NextDay, NextWeek
<1>2. QED BY TypeCorrect, <1>1, PTL

-------------------------------------------------------------------------------
(* Names that were never removed from under an executing task. *)

LEMMA OnlyOne ==
  ASSUME NEW S, IsFiniteSet(S), Cardinality(S) <= 1, NEW j \in S, NEW k \in S
  PROVE  j = k
<1> SUFFICES ASSUME j # k PROVE FALSE
  OBVIOUS
<1>1. IsFiniteSet({j}) /\ Cardinality({j}) = 1 BY FS_Singleton
<1>2. Cardinality({j} \cup {k}) = 2
  <2>1. k \notin {j} OBVIOUS
  <2>2. Cardinality({j} \cup {k}) = Cardinality({j}) + 1 BY <1>1, <2>1, FS_AddElement
  <2>3. QED BY <1>1, <2>2
<1>3. Cardinality({j} \cup {k}) <= Cardinality(S) BY FS_Subset
<1>4. Cardinality(S) \in Nat BY FS_CardinalityType
<1>5. QED BY <1>2, <1>3, <1>4

(***************************************************************************)
(* As long as no RemoveTask has hit a name while a task of it executed, a  *)
(* task of that name that waits or executes is the only one, and AddTask   *)
(* refuses another: RemovedIsGone fails for the other names only.          *)
(***************************************************************************)
THEOREM OneTaskPerName ==
  Spec => [](\A j \in Jobs :
               hits[name[j]] = 0 /\ place[j] \in {"waiting", "running"} =>
                 name[j] \in taskMap /\ \A k \in Live(name[j]) : k = j)
<1>1. ASSUME TypeOK, MapFollowsTasks, NEW j \in Jobs,
             hits[name[j]] = 0, place[j] \in {"waiting", "running"}
      PROVE  name[j] \in taskMap /\ \A k \in Live(name[j]) : k = j
  <2> DEFINE i == name[j]
  <2>1. i \in Ids /\ j \in Live(i) BY <1>1 DEF TypeOK, Live
  <2>2. IsFiniteSet(Live(i)) /\ Cardinality(Live(i)) \in Nat BY LiveFinite
  <2>3. Cardinality(Live(i)) # 0 BY <2>1, <2>2, FS_EmptySet
  <2>4. Cardinality(Live(i)) <= Mapped(i) + 0 BY <1>1, <2>1 DEF MapFollowsTasks
  <2>5. Mapped(i) = 1 /\ i \in taskMap BY <2>2, <2>3, <2>4 DEF Mapped
  <2>6. Cardinality(Live(i)) <= 1 BY <2>4, <2>5
  <2> HIDE DEF i
  <2>7. \A k \in Live(i) : k = j BY <2>1, <2>2, <2>6, OnlyOne
  <2>8. QED BY <2>5, <2>7 DEF i
<1>2. TypeOK /\ MapFollowsTasks =>
        (\A j \in Jobs :
           hits[name[j]] = 0 /\ place[j] \in {"waiting", "running"} =>
             name[j] \in taskMap /\ \A k \in Live(name[j]) : k = j)
  BY <1>1
<1>3. QED BY <1>2, TypeCorrect, MapIsSound, PTL

(***************************************************************************)
(* "RemoveTask removes a task" holds until a removal hits an executing one.*)
(***************************************************************************)
THEOREM RemovedUnlessRunning == Spec => []((\A i \in Ids : hits[i] = 0) => RemovedIsGone)
<1>1. TypeOK /\ (\A j \in Jobs :
                   hits[name[j]] = 0 /\ place[j] \in {"waiting", "running"} =>
                     name[j] \in taskMap /\ \A k \in Live(name[j]) : k = j)
        => ((\A i \in Ids : hits[i] = 0) => RemovedIsGone)
  BY DEF TypeOK, RemovedIsGone, Waiting
<1>2. QED BY <1>1, TypeCorrect, OneTaskPerName, PTL
===============================================================================
