---------------------------- MODULE HeartbeatProofs ----------------------------
(***************************************************************************)
(* What holds of network/heartbeat.go for every interval, timeout, number  *)
(* of retries and delay, without a bound of the clock: TLC's MaxTime may be*)
(* any number here.                                                        *)
(***************************************************************************)
EXTENDS Heartbeat, TLAPS

USE HeartbeatAssumption

-------------------------------------------------------------------------------
(* Types *)

LEMMA TypeInit == Init => TypeOK
BY DEF Init, TypeOK

LEMMA TypeStep == TypeOK /\ [Next]_vars => TypeOK'
<1> SUFFICES ASSUME TypeOK, [Next]_vars PROVE TypeOK'
  OBVIOUS
<1> USE DEF TypeOK, pingVars, checkVars
<1>1. CASE Ping BY <1>1 DEF Ping
<1>2. CASE PingFails BY <1>2 DEF PingFails
<1>3. CASE FreePong BY <1>3 DEF FreePong
<1>4. CASE CheckAlive BY <1>4 DEF CheckAlive, CheckDue
<1>5. CASE CheckDead
  <2>1. now' \in Nat /\ nextPing' \in Nat /\ nextCheck' \in Nat /\ lastPong' \in 0..now'
    BY <1>5 DEF CheckDead
  <2>2. wakeAt' \in Nat /\ attempt' \in 0..RetryCount
    <3>1. CASE RetryCount = 0 BY <1>5, <3>1 DEF CheckDead
    <3>2. CASE RetryCount # 0
      <4>1. attempt' = 1 /\ wakeAt' = now + Second BY <1>5, <3>2 DEF CheckDead
      <4> QED BY <3>2, <4>1
    <3> QED BY <3>1, <3>2
  <2>3. UNCHANGED <<now, answers, unanswered, pinging>> BY <1>5 DEF CheckDead
  <2>4. open' = FALSE \/ open' = open BY <1>5 DEF CheckDead
  <2> QED BY <2>1, <2>2, <2>3, <2>4
<1>6. CASE RetryAgain
  <2>1. attempt' \in 0..RetryCount BY <1>6 DEF RetryAgain
  <2>2. (attempt + 1) * Second \in Nat OBVIOUS
  <2>3. wakeAt' \in Nat BY <1>6, <2>2 DEF RetryAgain
  <2>4. UNCHANGED <<now, answers, pingVars, lastPong, nextCheck, open>> BY <1>6 DEF RetryAgain
  <2> QED BY <2>1, <2>3, <2>4
<1>7. CASE GiveUp BY <1>7 DEF GiveUp
<1>8. CASE Tick BY <1>8 DEF Tick
<1>9. ASSUME NEW p \in unanswered, Pong(p) PROVE TypeOK' BY <1>9 DEF Pong
<1>10. CASE FallSilent BY <1>10 DEF FallSilent
<1>11. CASE UNCHANGED vars BY <1>11 DEF vars
<1> QED
  BY <1>1, <1>2, <1>3, <1>4, <1>5, <1>6, <1>7, <1>8, <1>9, <1>10, <1>11 DEF Next

(***************************************************************************)
(* The variables of HeartbeatManager keep their types: no pong is from the *)
(* future and at most RetryCount reconnections are tried.                  *)
(***************************************************************************)
THEOREM TypeCorrect == Spec => []TypeOK
BY TypeInit, TypeStep, PTL DEF Spec

-------------------------------------------------------------------------------
(* A peer that answers pingLoop's packets, although their Type is not a ping's *)

\* Such a peer is more lenient than the protocol.
Lenient == PingType \in Answered

\* The timeout leaves room for a whole round: the wait for the tick, the ping and its
\* answer.
RoomForRound == Interval + Jitter + Rtt < Timeout

\* pingLoop keeps its pace and no ping waits longer than Rtt for its answer.
Pace ==
  /\ nextPing <= now + Interval /\ now <= nextPing + Jitter
  /\ \A p \in unanswered : now <= p + Rtt

\* After a pong the next ping is due within the interval, or is under way.
NextRound ==
  lastPong # 0 =>
    \/ nextPing <= lastPong + Interval
    \/ \E p \in unanswered : p <= lastPong + Interval + Jitter

\* Before the first pong the first ping is due, or is under way.
FirstRound ==
  lastPong = 0 =>
    \/ nextPing <= 1 + Interval
    \/ \E p \in unanswered : p <= 1 + Interval + Jitter

Served == answers /\ pinging

AInv == TypeOK /\ (Served => Pace /\ NextRound /\ FirstRound)

LEMMA AliveInit == Init => AInv
BY TypeInit DEF Init, AInv, Served, Pace, NextRound, FirstRound

LEMMA AliveStep == Lenient /\ AInv /\ [Next]_vars => AInv'
<1> SUFFICES ASSUME Lenient, AInv, [Next]_vars, Served'
             PROVE  Pace' /\ NextRound' /\ FirstRound'
  BY TypeStep DEF AInv
<1> USE DEF TypeOK, Pace, NextRound, FirstRound, pingVars, checkVars
<1>0. Served
  BY DEF Served, AInv, Next, vars, Ping, PingFails, FreePong, CheckAlive, CheckDead,
         RetryAgain, GiveUp, FallSilent, Tick, Pong
<1>a. TypeOK /\ Pace /\ NextRound /\ FirstRound BY <1>0 DEF AInv
<1>1. CASE Ping
  <2>1. nextPing' = nextPing + Interval /\ unanswered' = unanswered \cup {now}
        /\ UNCHANGED <<now, pinging, lastPong>> /\ now >= nextPing
    BY <1>1, <1>0 DEF Ping, Served, Lenient
  <2>2. Pace' BY <1>a, <2>1
  <2>3. now \in unanswered' /\ now <= nextPing + Jitter BY <1>a, <2>1
  <2>4. NextRound' BY <1>a, <2>1, <2>3
  <2>5. FirstRound' BY <1>a, <2>1, <2>3
  <2> QED BY <2>2, <2>4, <2>5
<1>2. CASE PingFails BY <1>2 DEF PingFails, Served
<1>3. CASE FreePong BY <1>a, <1>3 DEF FreePong
<1>4. CASE CheckAlive BY <1>a, <1>4 DEF CheckAlive
<1>5. CASE CheckDead BY <1>a, <1>5 DEF CheckDead
<1>6. CASE RetryAgain BY <1>a, <1>6 DEF RetryAgain
<1>7. CASE GiveUp BY <1>a, <1>7 DEF GiveUp
<1>8. CASE Tick BY <1>0, <1>a, <1>8 DEF Tick, Served
<1>9. ASSUME NEW p \in unanswered, Pong(p) PROVE Pace' /\ NextRound' /\ FirstRound'
  BY <1>a, <1>9 DEF Pong
<1>10. CASE FallSilent BY <1>10 DEF FallSilent, Served
<1>11. CASE UNCHANGED vars BY <1>a, <1>11 DEF vars
<1> QED BY <1>1, <1>2, <1>3, <1>4, <1>5, <1>6, <1>7, <1>8, <1>9, <1>10,
       <1>11 DEF Next

LEMMA AliveEnough == RoomForRound /\ AInv => ResponsiveIsAlive
<1> SUFFICES ASSUME RoomForRound, TypeOK, Pace, NextRound, lastPong # 0
             PROVE  now - lastPong < Timeout
  BY DEF AInv, Served, ResponsiveIsAlive, IsAlive
<1> USE DEF TypeOK, RoomForRound, Pace
<1>1. CASE nextPing <= lastPong + Interval BY <1>1
<1>2. CASE \E p \in unanswered : p <= lastPong + Interval + Jitter
  <2> PICK p \in unanswered : p <= lastPong + Interval + Jitter BY <1>2
  <2>1. p \in Nat /\ now <= p + Rtt OBVIOUS
  <2> QED BY <2>1
<1> QED BY <1>1, <1>2 DEF NextRound

(***************************************************************************)
(* With a timeout that exceeds the interval by more than the delays,       *)
(* IsAlive is never false for a peer that answers pingLoop's packets in    *)
(* time: neither checkLoop nor the pool's cleanup takes it for dead.  What *)
(* the statement needs of the peer beyond the protocol is its premise      *)
(* Lenient; ProtocolPeerStays is about the peers without it.               *)
(***************************************************************************)
THEOREM AliveWhileAnswering == Lenient /\ RoomForRound => (Spec => []ResponsiveIsAlive)
<1> SUFFICES ASSUME Lenient, RoomForRound PROVE Spec => []ResponsiveIsAlive
  OBVIOUS
<1>1. Init => AInv BY AliveInit
<1>2. AInv /\ [Next]_vars => AInv' BY AliveStep
<1>3. AInv => ResponsiveIsAlive BY AliveEnough
<1> QED BY <1>1, <1>2, <1>3, PTL DEF Spec

(***************************************************************************)
(* Such a peer is never disconnected for its heartbeat: handleTimeout does *)
(* not begin and the connection stays open.                                *)
(***************************************************************************)
THEOREM NeverDropped ==
  Lenient /\ RoomForRound => (Spec => [](answers /\ pinging => open /\ attempt = 0))
<1> SUFFICES ASSUME Lenient, RoomForRound
             PROVE  Spec => [](answers /\ pinging => open /\ attempt = 0)
  OBVIOUS
<1> DEFINE Kept == AInv /\ (Served => open /\ attempt = 0)
<1>1. Init => Kept BY AliveInit DEF Init
<1>2. Kept /\ [Next]_vars => Kept'
  <2> SUFFICES ASSUME Kept, [Next]_vars, Served' PROVE open' /\ attempt' = 0
    BY AliveStep
  <2>1. ~(Served /\ CheckDead)
    BY AliveEnough DEF CheckDead, ResponsiveIsAlive, Served, Lenient
  <2>2. Served
    BY DEF Served, Next, vars, pingVars, checkVars, Ping, PingFails, FreePong,
           CheckAlive, CheckDead, RetryAgain, GiveUp, FallSilent, Tick, Pong
  <2>3. ~CheckDead /\ ~RetryAgain /\ ~GiveUp
    BY <2>1, <2>2 DEF RetryAgain, GiveUp
  <2>4. UNCHANGED <<open, attempt>>
    BY <2>3 DEF Next, vars, pingVars, checkVars, Ping, PingFails, FreePong, CheckAlive,
                FallSilent, Tick, Pong
  <2> QED BY <2>2, <2>4
<1>3. Kept => (answers /\ pinging => open /\ attempt = 0) BY DEF Served
<1> QED BY <1>1, <1>2, <1>3, PTL DEF Spec

(***************************************************************************)
(* The Type that pingLoop leaves unset is all that keeps its pings from    *)
(* being answered: a peer that takes Type 0 for a ping is heard from within*)
(* the first round, whatever the timeout.                                  *)
(***************************************************************************)
THEOREM LenientPeerIsHeard == Lenient => (Spec => []PingsAreAnswered)
<1> SUFFICES ASSUME Lenient PROVE Spec => []PingsAreAnswered
  OBVIOUS
<1>1. Init => AInv BY AliveInit
<1>2. AInv /\ [Next]_vars => AInv' BY AliveStep
<1>3. AInv => PingsAreAnswered
  <2> SUFFICES ASSUME TypeOK, Pace, FirstRound, lastPong = 0
               PROVE  now <= 1 + Interval + Jitter + Rtt
    BY DEF AInv, Served, PingsAreAnswered, TypeOK
  <2>1. CASE nextPing <= 1 + Interval BY <2>1 DEF TypeOK, Pace
  <2>2. CASE \E p \in unanswered : p <= 1 + Interval + Jitter
    <3> PICK p \in unanswered : p <= 1 + Interval + Jitter BY <2>2
    <3>1. p \in Nat /\ now <= p + Rtt /\ now \in Nat BY DEF TypeOK, Pace
    <3> QED BY <3>1
  <2> QED BY <2>1, <2>2 DEF FirstRound
<1> QED BY <1>1, <1>2, <1>3, PTL DEF Spec

-------------------------------------------------------------------------------
(* Peers that send no pong of their own accord *)

SolicitedSpec == Init /\ [][Next /\ ~FreePong]_vars

(***************************************************************************)
(* A peer that follows the protocol and sends no pong unasked is never     *)
(* heard from, so that its connection counts as alive for ever: no silence *)
(* of any length makes checkLoop or the pool's cleanup drop it, whatever   *)
(* the interval, the timeout and the delays.                               *)
(***************************************************************************)
THEOREM ProtocolPeerStays ==
  PingType \notin Answered => (SolicitedSpec => [](lastPong = 0 /\ IsAlive /\ open))
<1> SUFFICES ASSUME PingType \notin Answered
             PROVE  SolicitedSpec => [](lastPong = 0 /\ IsAlive /\ open)
  OBVIOUS
<1> DEFINE Unheard == lastPong = 0 /\ unanswered = {} /\ open /\ attempt = 0
<1>1. Init => Unheard BY DEF Init
<1>2. Unheard /\ [Next /\ ~FreePong]_vars => Unheard'
  BY DEF Next, vars, pingVars, checkVars, Ping, PingFails, CheckAlive, CheckDead, IsAlive,
         RetryAgain, GiveUp, FallSilent, Tick, Pong
<1>3. Unheard => lastPong = 0 /\ IsAlive /\ open BY DEF IsAlive
<1> QED BY <1>1, <1>2, <1>3, PTL DEF SolicitedSpec

\* The part of a round that the timeout and the delays do not cover.
Gap == Interval - (Timeout + Jitter + Rtt)

\* A packet under way and the last pong belong to a tick before the next.
RoundsApart ==
  /\ pinging => now <= nextPing + Jitter
  /\ pinging => \A p \in unanswered : p <= nextPing - Interval + Jitter /\ now <= p + Rtt
  /\ pinging => lastPong <= nextPing - Interval + Jitter + Rtt

LEMMA RoundsApartStep ==
  TypeOK /\ RoundsApart /\ [Next /\ ~FreePong]_vars => RoundsApart'
<1> SUFFICES ASSUME TypeOK, RoundsApart, [Next /\ ~FreePong]_vars PROVE RoundsApart'
  OBVIOUS
<1> USE DEF TypeOK, RoundsApart, pingVars, checkVars
<1>1. CASE Ping BY <1>1 DEF Ping
<1>2. CASE PingFails BY <1>2 DEF PingFails
<1>3. CASE CheckAlive BY <1>3 DEF CheckAlive
<1>4. CASE CheckDead BY <1>4 DEF CheckDead
<1>5. CASE RetryAgain BY <1>5 DEF RetryAgain
<1>6. CASE GiveUp BY <1>6 DEF GiveUp
<1>7. CASE Tick BY <1>7 DEF Tick
<1>8. ASSUME NEW p \in unanswered, Pong(p) PROVE RoundsApart' BY <1>8 DEF Pong
<1>9. CASE FallSilent BY <1>9 DEF FallSilent
<1>10. CASE UNCHANGED vars BY <1>10 DEF vars
<1> QED BY <1>1, <1>2, <1>3, <1>4, <1>5, <1>6, <1>7, <1>8, <1>9, <1>10 DEF Next

(***************************************************************************)
(* With an interval that exceeds the timeout by the delays or more, as the *)
(* shipped 30s and 10s do, a peer that answers every packet of pingLoop is *)
(* taken for dead all the same, at the end of every round.                 *)
(***************************************************************************)
THEOREM DeadBetweenRounds ==
  Gap \in Nat =>
    (SolicitedSpec => [](pinging /\ lastPong # 0 /\ now >= nextPing - Gap => ~IsAlive))
<1> SUFFICES ASSUME Gap \in Nat
             PROVE  SolicitedSpec =>
                      [](pinging /\ lastPong # 0 /\ now >= nextPing - Gap => ~IsAlive)
  OBVIOUS
<1>1. Init => TypeOK /\ RoundsApart BY TypeInit DEF Init, RoundsApart
<1>2. TypeOK /\ RoundsApart /\ [Next /\ ~FreePong]_vars => TypeOK' /\ RoundsApart'
  BY TypeStep, RoundsApartStep
<1>3. TypeOK /\ RoundsApart =>
        (pinging /\ lastPong # 0 /\ now >= nextPing - Gap => ~IsAlive)
  BY DEF TypeOK, RoundsApart, IsAlive, Gap
<1> QED BY <1>1, <1>2, <1>3, PTL DEF SolicitedSpec

-------------------------------------------------------------------------------
(* A peer that falls silent *)

\* The first k sleeps of handleTimeout, each noticed up to Jitter late.
Sleeps(k) == Second * ((k * (k + 1)) \div 2) + k * Jitter

LEMMA HalfStep == \A k \in Nat :
  /\ (k * (k + 1)) \div 2 \in Nat
  /\ ((k + 1) * (k + 2)) \div 2 = (k * (k + 1)) \div 2 + (k + 1)
<1> TAKE k \in Nat
<1>1. k * (k + 1) \in Nat /\ (k + 1) * (k + 2) = k * (k + 1) + 2 * (k + 1)
  OBVIOUS
<1>2. \A a, b \in Nat : a \div 2 \in Nat /\ (a + 2 * b) \div 2 = a \div 2 + b
  OBVIOUS
<1>3. QED BY <1>1, <1>2

LEMMA SleepsStep == \A k \in Nat :
  /\ Sleeps(k) \in Nat
  /\ Sleeps(k + 1) = Sleeps(k) + (k + 1) * Second + Jitter
<1> TAKE k \in Nat
<1> DEFINE h == (k * (k + 1)) \div 2
<1>1. h \in Nat /\ ((k + 1) * (k + 2)) \div 2 = h + (k + 1) BY HalfStep
<1>2. Sleeps(k) = Second * h + k * Jitter BY DEF Sleeps
<1>3. Sleeps(k + 1) = Second * (h + (k + 1)) + (k + 1) * Jitter
  <2>1. (k + 1) + 1 = k + 2 OBVIOUS
  <2>2. QED BY <1>1, <2>1 DEF Sleeps
<1> HIDE DEF h
<1>4. /\ Second * (h + (k + 1)) = Second * h + (k + 1) * Second
      /\ (k + 1) * Jitter = k * Jitter + Jitter
      /\ Second * h \in Nat /\ k * Jitter \in Nat /\ (k + 1) * Second \in Nat
  BY <1>1
<1>5. QED BY <1>2, <1>3, <1>4

LEMMA SleepsGrow == \A k, m \in Nat : k <= m => Sleeps(k) <= Sleeps(m)
<1> TAKE k, m \in Nat
<1> HAVE k <= m
<1> DEFINE h(n) == (n * (n + 1)) \div 2
<1>1. k * (k + 1) <= m * (m + 1) /\ k * (k + 1) \in Nat /\ m * (m + 1) \in Nat
  OBVIOUS
<1>2. \A a, b \in Nat : a <= b => a \div 2 <= b \div 2
  OBVIOUS
<1>3. h(k) \in Nat /\ h(m) \in Nat /\ h(k) <= h(m)
  BY <1>1, <1>2, HalfStep
<1>4. Sleeps(k) = Second * h(k) + k * Jitter /\ Sleeps(m) = Second * h(m) + m * Jitter
  BY DEF Sleeps
<1> HIDE DEF h
<1>5. Second * h(k) <= Second * h(m) /\ k * Jitter <= m * Jitter
  BY <1>3
<1>6. QED BY <1>3, <1>4, <1>5

\* checkLoop keeps its pace: the check that finds the peer dead comes within two timeouts
\* of its last pong, and every sleep of handleTimeout ends within its share of Patience.
Watch ==
  /\ nextCheck <= now + Timeout
  /\ open /\ attempt = 0 =>
       /\ now <= nextCheck + Jitter
       /\ lastPong # 0 => nextCheck <= lastPong + 2 * Timeout
  /\ open /\ attempt # 0 =>
       /\ now <= wakeAt + Jitter /\ lastPong # 0
       /\ wakeAt <= lastPong + 2 * Timeout + Sleeps(attempt)

LEMMA WatchInit == Init => Watch
BY DEF Init, Watch

LEMMA WatchStep == TypeOK /\ Watch /\ [Next]_vars => Watch'
<1> SUFFICES ASSUME TypeOK, Watch, [Next]_vars PROVE Watch'
  OBVIOUS
<1> USE DEF TypeOK, Watch, pingVars, checkVars
<1>1. CASE Ping BY <1>1 DEF Ping
<1>2. CASE PingFails BY <1>2 DEF PingFails
<1>3. CASE FreePong
  <2>1. CASE attempt = 0 BY <1>3, <2>1 DEF FreePong
  <2>2. CASE attempt # 0 BY <1>3, <2>2, SleepsStep DEF FreePong
  <2>3. QED BY <2>1, <2>2
<1>4. CASE CheckAlive BY <1>4 DEF CheckAlive, CheckDue, IsAlive
<1>5. CASE CheckDead
  <2>1. /\ attempt = 0 /\ now >= nextCheck /\ nextCheck' = nextCheck + Timeout
        /\ open /\ lastPong # 0 /\ UNCHANGED <<now, lastPong>>
    BY <1>5 DEF CheckDead, CheckDue, IsAlive
  <2>2. CASE RetryCount = 0
    <3>1. open' = FALSE BY <1>5, <2>2 DEF CheckDead
    <3>2. QED BY <2>1, <3>1
  <2>3. CASE RetryCount # 0
    <3>1. attempt' = 1 /\ wakeAt' = now + Second BY <1>5, <2>3 DEF CheckDead
    <3>2. Sleeps(1) = Second + Jitter
      <4>1. (1 * (1 + 1)) \div 2 = 1 OBVIOUS
      <4>2. QED BY <4>1 DEF Sleeps
    <3>3. QED BY <2>1, <3>1, <3>2
  <2>4. QED BY <2>2, <2>3
<1>6. CASE RetryAgain
  <2>1. /\ attempt # 0 /\ attempt' = attempt + 1 /\ wakeAt' = now + (attempt + 1) * Second
        /\ open /\ UNCHANGED <<now, lastPong, nextCheck, open>>
    BY <1>6 DEF RetryAgain
  <2> DEFINE s == (attempt + 1) * Second
  <2>2. s \in Nat OBVIOUS
  <2>3. Sleeps(attempt') = Sleeps(attempt) + s + Jitter /\ Sleeps(attempt) \in Nat
    BY <2>1, SleepsStep
  <2>4. wakeAt' = now + s /\ attempt' # 0 BY <2>1
  <2> HIDE DEF s
  <2>5. QED BY <2>1, <2>2, <2>3, <2>4
<1>7. CASE GiveUp BY <1>7 DEF GiveUp
<1>8. CASE Tick BY <1>8 DEF Tick
<1>9. ASSUME NEW p \in unanswered, Pong(p) PROVE Watch'
  <2>1. CASE attempt = 0 BY <1>9, <2>1 DEF Pong
  <2>2. CASE attempt # 0 BY <1>9, <2>2, SleepsStep DEF Pong
  <2>3. QED BY <2>1, <2>2
<1>10. CASE FallSilent BY <1>10 DEF FallSilent
<1>11. CASE UNCHANGED vars BY <1>11 DEF vars
<1> QED
  BY <1>1, <1>2, <1>3, <1>4, <1>5, <1>6, <1>7, <1>8, <1>9, <1>10, <1>11 DEF Next

LEMMA WatchEnough == TypeOK /\ Watch => SilenceIsBounded
<1> SUFFICES ASSUME TypeOK, Watch, open, lastPong # 0
             PROVE  now - lastPong <= 2 * Timeout + Jitter + Patience
  BY DEF SilenceIsBounded
<1>1. Patience = Sleeps(RetryCount) /\ Sleeps(RetryCount) \in Nat
  BY SleepsStep DEF Patience, Sleeps
<1>2. CASE attempt = 0 BY <1>1, <1>2 DEF TypeOK, Watch
<1>3. CASE attempt # 0
  <2>1. Sleeps(attempt) \in Nat /\ Sleeps(attempt) <= Sleeps(RetryCount)
    BY SleepsStep, SleepsGrow DEF TypeOK
  <2>2. QED BY <1>1, <1>3, <2>1 DEF TypeOK, Watch
<1>4. QED BY <1>2, <1>3

(***************************************************************************)
(* A peer that falls silent, or whose pings can no longer be sent, is      *)
(* dropped within two timeouts and the sleeps of handleTimeout, whatever   *)
(* the interval, the timeout, the number of retries and the delays.        *)
(***************************************************************************)
THEOREM SilentIsDropped == Spec => []SilenceIsBounded
<1>1. Init => TypeOK /\ Watch BY TypeInit, WatchInit
<1>2. TypeOK /\ Watch /\ [Next]_vars => TypeOK' /\ Watch' BY TypeStep, WatchStep
<1>3. TypeOK /\ Watch => SilenceIsBounded BY WatchEnough
<1>4. QED BY <1>1, <1>2, <1>3, PTL DEF Spec

-------------------------------------------------------------------------------
(* A peer that never answered *)

(***************************************************************************)
(* Before its first pong a connection is alive for checkLoop whatever the  *)
(* time: it is never dropped for its heartbeat, so that the bound of       *)
(* SilentIsDropped can only begin with a pong (HeartbeatManager.IsAlive).  *)
(***************************************************************************)
THEOREM NeverAnsweredStays == Spec => [](lastPong = 0 => open /\ attempt = 0)
<1> DEFINE Kept == lastPong = 0 => open /\ attempt = 0
<1>1. Init => Kept BY DEF Init
<1>2. TypeOK /\ Kept /\ [Next]_vars => Kept'
  <2> SUFFICES ASSUME TypeOK, Kept, [Next]_vars, lastPong' = 0
               PROVE  open' /\ attempt' = 0
    OBVIOUS
  <2>1. lastPong = 0
    BY DEF TypeOK, Next, vars, pingVars, checkVars, Ping, PingFails, FreePong, CheckAlive,
           CheckDead, RetryAgain, GiveUp, FallSilent, Tick, Pong
  <2>2. ~CheckDead /\ ~RetryAgain /\ ~GiveUp
    BY <2>1 DEF CheckDead, IsAlive, RetryAgain, GiveUp
  <2>3. UNCHANGED <<open, attempt>>
    BY <2>2 DEF Next, vars, pingVars, checkVars, Ping, PingFails, FreePong, CheckAlive,
                FallSilent, Tick, Pong
  <2>4. QED BY <2>1, <2>3
<1>3. QED BY <1>1, <1>2, TypeCorrect, PTL DEF Spec
===============================================================================
