------------------------------- MODULE Scheduler -------------------------------
(***************************************************************************)
(* Scheduler (common/scheduler.go): the polling goroutine of run, the      *)
(* goroutines that execute tasks, and any callers of AddTask, RemoveTask   *)
(* and Stop.  A job is one Task that a caller adds; a repeating job keeps  *)
(* its identity when the code makes a new BaseTask for its next turn, so a *)
(* job is in the heap or in the hands of one executing goroutine.          *)
(*                                                                         *)
(* container/heap is external: its Pop returns an earliest entry.  Every   *)
(* section under the mutex is one step.  The clock moves only when the     *)
(* loop has nothing to do; an execution may take any time.                 *)
(***************************************************************************)
EXTENDS Integers, FiniteSets

CONSTANTS
  Jobs,        \* the tasks that callers add
  Ids,         \* task names
  Second,      \* time.Second, in units of the clock
  Interval,    \* GetInterval of the repeating tasks
  Day,         \* 24 * time.Hour, in units of the clock, which starts on a Sunday's midnight
  MaxDelay,    \* bound: a task is added for at most MaxDelay before or after now
  MaxHits,     \* bound: removals of a name while a task of it executes
  MaxTime      \* bound of the clock

ASSUME SchedulerAssumption ==
  /\ IsFiniteSet(Jobs) /\ IsFiniteSet(Ids)
  /\ Second \in Nat \ {0} /\ Interval \in Int /\ Day \in Nat \ {0}
  /\ MaxDelay \in Nat /\ MaxHits \in Nat /\ MaxTime \in Nat

VARIABLES
  name,        \* Task.ID of each job
  repeat,      \* Task.IsRepeat of each job
  place,       \* of each job: "new", "waiting" (in the heap), "running" or "gone"
  due,         \* Task.NextTime of each job in the heap, 0 of the others
  ready,       \* history: when such a job could first start: its date, or its push if later
  taskMap,     \* the keys of Scheduler.taskMap
  loop,        \* the goroutine of run: "none", "top", "sleep" or "ended"
  wakeAt,      \* end of its sleep
  stopAt,      \* when the context was cancelled: Never before
  now,         \* the clock
  hits         \* history: removals of each name that came while a task of it executed

jobVars  == <<name, repeat>>
loopVars == <<loop, wakeAt>>
dateVars == <<due, ready>>
vars == <<jobVars, place, dateVars, taskMap, loopVars, stopAt, now, hits>>

Never == -1

Init ==
  /\ name \in [Jobs -> Ids] /\ repeat \in [Jobs -> BOOLEAN]
  /\ place = [j \in Jobs |-> "new"] /\ due = [j \in Jobs |-> 0]
  /\ ready = [j \in Jobs |-> 0]
  /\ taskMap = {}
  /\ loop = "none" /\ wakeAt = 0
  /\ stopAt = Never /\ now = 0
  /\ hits = [i \in Ids |-> 0]

Waiting == {j \in Jobs : place[j] = "waiting"}
Running(i) == {j \in Jobs : name[j] = i /\ place[j] = "running"}
Live(i) == {j \in Jobs : name[j] = i /\ place[j] \in {"waiting", "running"}}

-------------------------------------------------------------------------------
(* The callers *)

\* heap.Push of the job for some date, which may have passed.
Push(j, date) ==
  /\ place' = [place EXCEPT ![j] = "waiting"]
  /\ due' = [due EXCEPT ![j] = date]
  /\ ready' = [ready EXCEPT ![j] = IF date < now THEN now ELSE date]

\* The jobs S leave the heap, for an execution or for good.
Leave(S, where) ==
  /\ place' = [j \in Jobs |-> IF j \in S THEN where ELSE place[j]]
  /\ due' = [j \in Jobs |-> IF j \in S THEN 0 ELSE due[j]]
  /\ ready' = [j \in Jobs |-> IF j \in S THEN 0 ELSE ready[j]]

\* A name that is mapped already is refused: nothing changes.  The date is not looked at.
AddTask(j, when) ==
  /\ place[j] = "new"
  /\ name[j] \notin taskMap
  /\ taskMap' = taskMap \cup {name[j]}
  /\ Push(j, when)
  /\ UNCHANGED <<jobVars, loopVars, stopAt, now, hits>>

\* The heap is rebuilt without the name; a task that executes is not looked at.
RemoveTask(i) ==
  /\ Running(i) # {} => hits[i] < MaxHits
  /\ taskMap' = taskMap \ {i}
  /\ Leave({j \in Waiting : name[j] = i}, "gone")
  /\ hits' = IF Running(i) # {} THEN [hits EXCEPT ![i] = @ + 1] ELSE hits
  /\ UNCHANGED <<jobVars, loopVars, stopAt, now>>

Start ==
  /\ loop = "none"
  /\ loop' = "top"
  /\ UNCHANGED <<jobVars, place, dateVars, taskMap, wakeAt, stopAt, now, hits>>

Stop ==
  /\ stopAt = Never
  /\ stopAt' = now
  /\ UNCHANGED <<jobVars, place, dateVars, taskMap, loopVars, now, hits>>

-------------------------------------------------------------------------------
(* run *)

LoopEnd ==
  /\ loop = "top" /\ stopAt # Never
  /\ loop' = "ended"
  /\ UNCHANGED <<jobVars, place, dateVars, taskMap, wakeAt, stopAt, now, hits>>

\* Mutant: the loop backs off for two seconds.
LoopSleepTwice ==
  /\ loop = "top" /\ stopAt = Never
  /\ \A j \in Waiting : due[j] > now
  /\ loop' = "sleep" /\ wakeAt' = now + 2 * Second
  /\ UNCHANGED <<jobVars, place, dateVars, taskMap, stopAt, now, hits>>

\* Mutant: the context is not looked at before the sleep.
LoopSleepUnchecked ==
  /\ loop = "top"
  /\ \A j \in Waiting : due[j] > now
  /\ loop' = "sleep" /\ wakeAt' = now + Second
  /\ UNCHANGED <<jobVars, place, dateVars, taskMap, stopAt, now, hits>>

\* Nothing waits, or the earliest entry goes back to the heap.
LoopSleep ==
  /\ loop = "top" /\ stopAt = Never
  /\ \A j \in Waiting : due[j] > now
  /\ loop' = "sleep" /\ wakeAt' = now + Second
  /\ UNCHANGED <<jobVars, place, dateVars, taskMap, stopAt, now, hits>>

Wake ==
  /\ loop = "sleep" /\ now >= wakeAt
  /\ loop' = "top"
  /\ UNCHANGED <<jobVars, place, dateVars, taskMap, wakeAt, stopAt, now, hits>>

\* Mutant: the loop sleeps after each task that it starts.
DispatchAndSleep(j) ==
  /\ loop = "top" /\ stopAt = Never
  /\ j \in Waiting /\ due[j] <= now
  /\ \A k \in Waiting : due[j] <= due[k]
  /\ Leave({j}, "running")
  /\ loop' = "sleep" /\ wakeAt' = now + Second
  /\ UNCHANGED <<jobVars, taskMap, stopAt, now, hits>>

\* The earliest entry is due: a goroutine executes it.
Dispatch(j) ==
  /\ loop = "top" /\ stopAt = Never
  /\ j \in Waiting /\ due[j] <= now
  /\ \A k \in Waiting : due[j] <= due[k]
  /\ Leave({j}, "running")
  /\ UNCHANGED <<jobVars, taskMap, loopVars, stopAt, now, hits>>

-------------------------------------------------------------------------------
(* The goroutine that executes a task, when Execute has returned *)

\* The next turn is pushed whatever has become of the name meanwhile.
FinishRepeat(j) ==
  /\ place[j] = "running" /\ repeat[j]
  /\ Push(j, now + Interval)
  /\ UNCHANGED <<jobVars, taskMap, loopVars, stopAt, now, hits>>

\* Mutant: the name stays in the map.
FinishKeepsName(j) ==
  /\ place[j] = "running" /\ ~repeat[j]
  /\ place' = [place EXCEPT ![j] = "gone"]
  /\ UNCHANGED <<jobVars, dateVars, taskMap, loopVars, stopAt, now, hits>>

FinishOnce(j) ==
  /\ place[j] = "running" /\ ~repeat[j]
  /\ place' = [place EXCEPT ![j] = "gone"]
  /\ taskMap' = taskMap \ {name[j]}
  /\ UNCHANGED <<jobVars, dateVars, loopVars, stopAt, now, hits>>

-------------------------------------------------------------------------------
(* The dates of the daily and the weekly tasks: every day has 24 hours here. *)

Midnight(t) == t - (t % Day)
Weekday(t)  == (t \div Day) % 7   \* time.Sunday is 0, time.Monday is 1

getNextDayResetTime(t) ==
  IF Midnight(t) < t THEN Midnight(t) + Day ELSE Midnight(t)

\* Mutant: a Monday has its reset behind it only after the day.
WeekResetFromToday(t) ==
  LET days == 1 - Weekday(t)
  IN  Midnight(t) + Day * (IF days < 0 THEN days + 7 ELSE days)

getNextWeekResetTime(t) ==
  LET days == 1 - Weekday(t)
  IN  Midnight(t) + Day * (IF days <= 0 THEN days + 7 ELSE days)

-------------------------------------------------------------------------------
Tick ==
  /\ now < MaxTime
  /\ loop # "top" /\ (loop = "sleep" => now < wakeAt)
  /\ now' = now + 1
  /\ UNCHANGED <<jobVars, place, dateVars, taskMap, loopVars, stopAt, hits>>

LoopNext == LoopEnd \/ LoopSleep \/ Wake \/ \E j \in Jobs : Dispatch(j)

Next ==
  \/ Start \/ Stop \/ LoopNext \/ Tick
  \/ \E i \in Ids : RemoveTask(i)
  \/ \E j \in Jobs :
       \/ \E when \in (now - MaxDelay)..(now + MaxDelay) : AddTask(j, when)
       \/ FinishRepeat(j) \/ FinishOnce(j)

Spec == Init /\ [][Next]_vars

-------------------------------------------------------------------------------
(* Properties *)

TypeOK ==
  /\ name \in [Jobs -> Ids] /\ repeat \in [Jobs -> BOOLEAN]
  /\ place \in [Jobs -> {"new", "waiting", "running", "gone"}]
  /\ due \in [Jobs -> Int] /\ ready \in [Jobs -> Nat] /\ \A j \in Jobs : due[j] <= ready[j]
  /\ taskMap \subseteq Ids
  /\ loop \in {"none", "top", "sleep", "ended"}
  /\ now \in Nat /\ wakeAt \in 0..(now + Second)
  /\ stopAt \in {Never} \cup 0..now
  /\ hits \in [Ids -> Nat]

(***************************************************************************)
(* The map that AddTask consults tells whether a name is taken: a mapped   *)
(* name has a task, and beyond the mapped one a name has at most as many   *)
(* tasks as there were removals that missed an executing one.              *)
(***************************************************************************)
Mapped(i) == IF i \in taskMap THEN 1 ELSE 0

MapFollowsTasks ==
  \A i \in Ids :
    /\ Mapped(i) <= Cardinality(Live(i))
    /\ Cardinality(Live(i)) <= Mapped(i) + hits[i]

(***************************************************************************)
(* The loop never sleeps on while a task has been in the heap, and due, for*)
(* more than a second, however many are due at once, are added during the  *)
(* sleep or are added with a date long past.                               *)
(***************************************************************************)
StartsInTime == loop = "sleep" => \A j \in Waiting : now <= ready[j] + Second

(***************************************************************************)
(* Stop does not wait for the loop, which ends within a second.            *)
(***************************************************************************)
StopsInTime == loop = "sleep" /\ stopAt # Never => now <= stopAt + Second

(***************************************************************************)
(* Whenever in the coming week a player's tasks are made, the daily one is *)
(* for the first midnight that has not passed, less than a day away, and   *)
(* the weekly one for the first Monday's midnight to come, at most a week. *)
(***************************************************************************)
IsMidnight(t) == t % Day = 0
IsMonday(t)   == IsMidnight(t) /\ Weekday(t) = 1

ResetsAreNext ==
  \A t \in now..(now + 7 * Day) :
    LET day == getNextDayResetTime(t)
        week == getNextWeekResetTime(t)
    IN  /\ IsMidnight(day) /\ t <= day /\ day < t + Day
        /\ IsMonday(week) /\ t < week /\ week <= t + 7 * Day

(***************************************************************************)
(* "RemoveTask removes a task": of a name that is not mapped no task waits *)
(* to be started.                                                          *)
(***************************************************************************)
RemovedIsGone == \A j \in Waiting : name[j] \in taskMap
===============================================================================
