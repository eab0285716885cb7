------------------------------- MODULE Heartbeat -------------------------------
(***************************************************************************)
(* HeartbeatManager (network/heartbeat.go) with a clock: the tickers of    *)
(* pingLoop and checkLoop, the pongs that readLoop hands to HandlePong, and*)
(* the sleeps of handleTimeout.  Module Connection has the rest of a       *)
(* connection's life without the clock.                                    *)
(*                                                                         *)
(* The peer and the network are external.  Until it falls silent the peer  *)
(* answers, within Rtt, the heartbeat packets whose Type it takes for a    *)
(* ping.  By the protocol that is Type 1 alone (conn.go, handleHeartbeat,  *)
(* which a peer made of this code runs too), and pingLoop's packets have   *)
(* Type 0: a peer answers them only if it is more lenient than that.       *)
(*                                                                         *)
(* A ticker's tick and the end of a sleep are noticed at most Jitter late. *)
(***************************************************************************)
EXTENDS Integers, FiniteSets

CONSTANTS
  Interval,    \* heartbeat_interval
  Timeout,     \* heartbeat_timeout
  RetryCount,  \* retry_count
  Second,      \* one second, in the unit of the clock
  Answered,    \* the Types of heartbeat packet that the peer answers
  Rtt,         \* it does so within Rtt
  Jitter,      \* longest delay of a goroutine that is due
  MaxTime      \* bound of the clock

HeartbeatPing == 1   \* by the protocol the Type of a ping
PingType == 0        \* the Type of pingLoop's packets, which it leaves unset

ASSUME HeartbeatAssumption ==
  /\ HeartbeatPing \in Answered
  /\ Interval \in Nat \ {0} /\ Timeout \in Nat \ {0} /\ RetryCount \in Nat
  /\ Second \in Nat /\ Rtt \in Nat /\ Jitter \in Nat /\ MaxTime \in Nat

VARIABLES
  now,         \* the clock; the manager was started at 1
  answers,     \* the peer answers
  nextPing,    \* next tick of pingLoop's ticker
  pinging,     \* pingLoop runs
  unanswered,  \* send times of the packets that the peer will still answer
  lastPong,    \* HeartbeatManager.lastPong: 0 before the first pong
  nextCheck,   \* next tick of checkLoop's ticker
  attempt,     \* handleTimeout: the reconnection under way, 0 outside
  wakeAt,      \* handleTimeout: end of the sleep
  open         \* the connection is open

pingVars  == <<nextPing, pinging, unanswered>>
checkVars == <<nextCheck, attempt, wakeAt>>
vars == <<now, answers, pingVars, lastPong, checkVars, open>>

Init ==
  /\ now = 1 /\ answers = TRUE
  /\ nextPing = 1 + Interval /\ pinging = TRUE /\ unanswered = {}
  /\ lastPong = 0
  /\ nextCheck = 1 + Timeout /\ attempt = 0 /\ wakeAt = 0
  /\ open = TRUE

IsAlive == lastPong = 0 \/ now - lastPong < Timeout

-------------------------------------------------------------------------------
(* pingLoop *)

Ping ==
  /\ open /\ pinging /\ now >= nextPing
  /\ nextPing' = nextPing + Interval
  /\ unanswered' = IF answers /\ PingType \in Answered THEN unanswered \cup {now}
                                                       ELSE unanswered
  /\ UNCHANGED <<now, answers, pinging, lastPong, checkVars, open>>

\* Send returns an error: pingLoop returns.
PingFails ==
  /\ open /\ pinging /\ now >= nextPing
  /\ pinging' = FALSE
  /\ UNCHANGED <<now, answers, nextPing, unanswered, lastPong, checkVars, open>>

-------------------------------------------------------------------------------
(* HandlePong *)

\* Mutant: only the answer to the latest ping counts.
PongOfLatest(p) ==
  /\ open
  /\ p \in unanswered
  /\ unanswered' = unanswered \ {p}
  /\ lastPong' = IF \A q \in unanswered : q <= p THEN now ELSE lastPong
  /\ UNCHANGED <<now, answers, nextPing, pinging, checkVars, open>>

Pong(p) ==
  /\ open
  /\ p \in unanswered
  /\ unanswered' = unanswered \ {p}
  /\ lastPong' = now
  /\ UNCHANGED <<now, answers, nextPing, pinging, checkVars, open>>

\* A pong the peer sends of its own accord.
FreePong ==
  /\ open /\ answers
  /\ lastPong' = now
  /\ UNCHANGED <<now, answers, pingVars, checkVars, open>>

-------------------------------------------------------------------------------
(* checkLoop and handleTimeout *)

CheckDue == open /\ attempt = 0 /\ now >= nextCheck

CheckAlive ==
  /\ CheckDue /\ IsAlive
  /\ nextCheck' = nextCheck + Timeout
  /\ UNCHANGED <<now, answers, pingVars, lastPong, attempt, wakeAt, open>>

\* The first reconnection fails, as all do: sleep a second, then two, and so on.
CheckDead ==
  /\ CheckDue /\ ~IsAlive
  /\ nextCheck' = nextCheck + Timeout
  /\ IF RetryCount = 0
     THEN open' = FALSE /\ UNCHANGED <<attempt, wakeAt>>
     ELSE attempt' = 1 /\ wakeAt' = now + Second /\ UNCHANGED open
  /\ UNCHANGED <<now, answers, pingVars, lastPong>>

\* Mutant: one reconnection too many.
RetryOnceMore ==
  /\ open /\ attempt \in 1..RetryCount /\ now >= wakeAt
  /\ attempt' = attempt + 1
  /\ wakeAt' = now + (attempt + 1) * Second
  /\ UNCHANGED <<now, answers, pingVars, lastPong, nextCheck, open>>

\* Mutant: the attempts are not counted.
RetryForever ==
  /\ open /\ attempt # 0 /\ now >= wakeAt
  /\ wakeAt' = now + (attempt + 1) * Second
  /\ UNCHANGED <<now, answers, pingVars, lastPong, nextCheck, attempt, open>>

RetryAgain ==
  /\ open /\ attempt # 0 /\ now >= wakeAt
  /\ attempt < RetryCount
  /\ attempt' = attempt + 1
  /\ wakeAt' = now + (attempt + 1) * Second
  /\ UNCHANGED <<now, answers, pingVars, lastPong, nextCheck, open>>

\* After the last sleep the connection is closed, without another look at lastPong.
GiveUp ==
  /\ open /\ attempt # 0 /\ now >= wakeAt
  /\ attempt = RetryCount
  /\ open' = FALSE
  /\ UNCHANGED <<now, answers, pingVars, lastPong, checkVars>>

-------------------------------------------------------------------------------
\* The peer or the network is gone: some of the answers under way are lost too.
FallSilent ==
  /\ open /\ answers
  /\ answers' = FALSE
  /\ unanswered' \in SUBSET unanswered
  /\ UNCHANGED <<now, nextPing, pinging, lastPong, checkVars, open>>

\* Time passes as long as nothing is overdue.
Tick ==
  /\ open /\ now < MaxTime
  /\ pinging => now < nextPing + Jitter
  /\ \A p \in unanswered : now < p + Rtt
  /\ attempt = 0 => now < nextCheck + Jitter
  /\ attempt # 0 => now < wakeAt + Jitter
  /\ now' = now + 1
  /\ UNCHANGED <<answers, pingVars, lastPong, checkVars, open>>

Next ==
  \/ Ping \/ PingFails \/ FreePong \/ CheckAlive \/ CheckDead \/ RetryAgain \/ GiveUp
  \/ FallSilent \/ Tick
  \/ \E p \in unanswered : Pong(p)

Spec == Init /\ [][Next]_vars

-------------------------------------------------------------------------------
(* Properties *)

TypeOK ==
  /\ now \in Nat /\ nextPing \in Nat /\ nextCheck \in Nat /\ wakeAt \in Nat
  /\ lastPong \in 0..now
  /\ unanswered \subseteq 0..now
  /\ answers \in BOOLEAN /\ pinging \in BOOLEAN /\ open \in BOOLEAN
  /\ attempt \in 0..RetryCount

(***************************************************************************)
(* A peer lenient enough to answer pingLoop's packets of Type 0, and that  *)
(* does so within Rtt, is never taken for dead, by checkLoop or by the     *)
(* pool's cleanup, as long as pingLoop runs, provided the timeout exceeds  *)
(* the interval by more than the delays.                                   *)
(***************************************************************************)
ResponsiveIsAlive == PingType \in Answered /\ answers /\ pinging => IsAlive

(***************************************************************************)
(* "On a ping, return a pong directly" (handleHeartbeat): once the first   *)
(* ping and its answer have had their time, a peer that answers pings has  *)
(* been heard from.                                                        *)
(***************************************************************************)
PingsAreAnswered ==
  answers /\ pinging /\ now > 1 + Interval + Jitter + Rtt => lastPong # 0

\* Sum of the sleeps of handleTimeout, each noticed up to Jitter late.
Patience == Second * ((RetryCount * (RetryCount + 1)) \div 2) + RetryCount * Jitter

(***************************************************************************)
(* A peer that has answered once and falls silent, or whose pings fail, is *)
(* dropped: no later than two timeouts and the sleeps of handleTimeout     *)
(* after its last pong.                                                    *)
(***************************************************************************)
SilenceIsBounded ==
  open /\ lastPong # 0 => now - lastPong <= 2 * Timeout + Jitter + Patience
===============================================================================
