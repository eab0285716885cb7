---------------------------- MODULE FramingProofs ----------------------------
(***************************************************************************)
(* Theorems about the framing of packets (network/packet.go): Decode stays *)
(* in step with the frames of the peer.                                    *)
(***************************************************************************)
EXTENDS Framing, TLAPS

\* The frames lie end to end.
LaidOut ==
  /\ \A i \in 1..Len(frames) : frames[i].at + frames[i].len <= EndOf(frames)
  /\ \A i \in 1..Len(frames) :
       frames[i].at = IF i = 1 THEN 0 ELSE frames[i - 1].at + frames[i - 1].len
  /\ \A i, k \in 1..Len(frames) : i < k => frames[i].at + frames[i].len <= frames[k].at

\* Decode is at the frame that follows what it has returned, unless the stream is dead.
InStep ==
  /\ reader = "len" => consumed = IF stream = "dead" THEN arrived ELSE EndOf(received)
  /\ reader = "body" =>
       /\ stream # "dead"
       /\ Len(received) < Len(frames) /\ frame[1] = frames[Len(received) + 1]
       /\ consumed = EndOf(received) + LenField
  /\ reader = "eof" => stream # "open"

IInv ==
  /\ TypeOK /\ LaidOut /\ ReceivedInOrder /\ InStep
  /\ RefusedWithReason /\ CleanEndCutsNothing

USE FramingAssumption DEF LenField, HeadSize

-------------------------------------------------------------------------------
(* What the operators return *)

LEMMA EndOfType ==
  ASSUME NEW s \in Seq(Frames)
  PROVE  EndOf(s) \in Nat
<1>1. CASE s = <<>> BY <1>1 DEF EndOf
<1>2. CASE s # <<>>
  <2>1. s[Len(s)] \in Frames BY <1>2
  <2>2. s[Len(s)].at \in Nat /\ s[Len(s)].len \in Nat BY <2>1 DEF Frames
  <2> QED BY <1>2, <2>2 DEF EndOf
<1> QED BY <1>1, <1>2

\* What has been returned ends where the next frame begins.
LEMMA NextBegins ==
  ASSUME TypeOK, LaidOut, ReceivedInOrder, Len(received) < Len(frames)
  PROVE  EndOf(received) = frames[Len(received) + 1].at
<1> DEFINE n == Len(received)
<1>0. /\ frames \in Seq(Frames) /\ received \in Seq(Frames) /\ n \in Nat
      /\ n + 1 \in 1..Len(frames) /\ received = SubSeq(frames, 1, n)
  BY DEF TypeOK, ReceivedInOrder
<1>1. CASE n = 0
  <2>1. received = <<>> BY <1>0, <1>1
  <2> QED BY <1>0, <1>1, <2>1 DEF EndOf, LaidOut
<1>2. CASE n # 0
  <2>1. received # <<>> /\ received[n] = frames[n] BY <1>0, <1>2
  <2>2. frames[n + 1].at = frames[n].at + frames[n].len
    BY <1>0, <1>2 DEF LaidOut
  <2> QED BY <2>1, <2>2 DEF EndOf
<1> QED BY <1>1, <1>2

\* Decode in step, with a length field ready: there is a next frame, it begins here and
\* no other does.
LEMMA NextFrame ==
  ASSUME TypeOK, LaidOut, ReceivedInOrder,
         consumed = EndOf(received), arrived >= consumed + LenField
  PROVE  /\ Len(received) < Len(frames)
         /\ Here = {frames[Len(received) + 1]}
<1> DEFINE n == Len(received)
<1>0. /\ frames \in Seq(Frames) /\ received \in Seq(Frames) /\ n \in Nat
      /\ n <= Len(frames) /\ received = SubSeq(frames, 1, n)
      /\ arrived \in 0..EndOf(frames) /\ EndOf(frames) \in Nat /\ EndOf(received) \in Nat
  BY EndOfType DEF TypeOK, ReceivedInOrder
<1>1. n # Len(frames)
  <2> SUFFICES ASSUME n = Len(frames) PROVE FALSE
    OBVIOUS
  <2>1. received = frames BY <1>0
  <2> QED BY <1>0, <2>1
<1>2. n + 1 \in 1..Len(frames) BY <1>0, <1>1
<1>3. EndOf(received) = frames[n + 1].at BY <1>0, <1>1, NextBegins
<1>4. ASSUME NEW i \in 1..Len(frames), frames[i].at = consumed PROVE i = n + 1
  <2>1. /\ frames[i].at \in Nat /\ frames[i].len \in Nat /\ frames[i].len >= 4
        /\ frames[n + 1].at \in Nat /\ frames[n + 1].len \in Nat /\ frames[n + 1].len >= 4
    <3>1. frames[i] \in Frames /\ frames[n + 1] \in Frames BY <1>0, <1>2
    <3> QED BY <3>1 DEF Frames
  <2>2. frames[i].at = frames[n + 1].at BY <1>3, <1>4
  <2>3. ~(i < n + 1) BY <1>2, <2>1, <2>2 DEF LaidOut
  <2>4. ~(n + 1 < i) BY <1>2, <2>1, <2>2 DEF LaidOut
  <2> QED BY <1>0, <2>3, <2>4
<1>5. {i \in 1..Len(frames) : frames[i].at = consumed} = {n + 1}
  BY <1>2, <1>3, <1>4
<1>6. {frames[i] : i \in {n + 1}} = {frames[n + 1]} /\ {n + 1} # {}
  OBVIOUS
<1>7. Here = {frames[n + 1]}
  BY <1>5, <1>6, Zenon DEF Here
<1> QED BY <1>0, <1>1, <1>7

-------------------------------------------------------------------------------
LEMMA InitInv == Init => IInv
<1> SUFFICES ASSUME Init PROVE IInv
  OBVIOUS
<1>1. EndOf(<<>>) = 0 BY DEF EndOf
<1>2. TypeOK BY <1>1 DEF Init, TypeOK
<1>3. LaidOut BY DEF Init, LaidOut
<1>4. ReceivedInOrder BY DEF Init, ReceivedInOrder
<1>5. InStep BY <1>1 DEF Init, InStep
<1>6. RefusedWithReason /\ CleanEndCutsNothing BY DEF Init, RefusedWithReason, CleanEndCutsNothing
<1> QED BY <1>2, <1>3, <1>4, <1>5, <1>6 DEF IInv

\* What the peer writes goes after what it has written; what Decode knows stays true.
LEMMA WriteStep ==
  ASSUME IInv, NEW len \in Lengths, NEW kind \in Kinds, Write(len, kind)
  PROVE  IInv'
<1> DEFINE f == [at |-> EndOf(frames), len |-> len, kind |-> kind]
<1>0. /\ frames' = Append(frames, f) /\ UNCHANGED <<arrived, stream, readerVars>>
      /\ stream = "open"
  BY DEF Write
<1>1. /\ frames \in Seq(Frames) /\ EndOf(frames) \in Nat /\ len \in Nat /\ len >= 4
      /\ received \in Seq(Frames) /\ arrived \in 0..EndOf(frames)
      /\ Len(received) \in Nat /\ Len(frames) \in Nat
  BY EndOfType DEF IInv, TypeOK
<1>2. f \in Frames BY <1>1 DEF Frames
<1>3. /\ frames' \in Seq(Frames) /\ Len(frames') = Len(frames) + 1
      /\ frames'[Len(frames) + 1] = f
      /\ \A i \in 1..Len(frames) : frames'[i] = frames[i]
  BY <1>0, <1>1, <1>2
<1>4. EndOf(frames)' = EndOf(frames) + len
  <2>1. frames' # <<>> BY <1>1, <1>3
  <2> QED BY <1>1, <1>3, <2>1 DEF EndOf
<1>5. /\ reader' = reader /\ consumed' = consumed /\ frame' = frame
      /\ received' = received /\ EndOf(received)' = EndOf(received)
  BY <1>0 DEF readerVars, EndOf
<1>6. TypeOK'
  <2>1. arrived' \in 0..EndOf(frames)' BY <1>0, <1>1, <1>4
  <2> QED BY <1>0, <1>3, <1>5, <2>1 DEF IInv, TypeOK, Sized
<1>7. LaidOut'
  <2>0. \A i \in 1..Len(frames) : /\ frames[i].at \in Nat /\ frames[i].len \in Nat
                                  /\ frames[i].at + frames[i].len <= EndOf(frames)
    <3>1. \A i \in 1..Len(frames) : frames[i] \in Frames BY <1>1
    <3> QED BY <3>1 DEF Frames, IInv, LaidOut
  <2>1. \A i \in 1..Len(frames') : frames'[i].at + frames'[i].len <= EndOf(frames)'
    <3> TAKE i \in 1..Len(frames')
    <3>1. CASE i \in 1..Len(frames)
      <4>1. frames'[i] = frames[i] BY <1>3, <3>1
      <4>2. /\ frames[i].at \in Nat /\ frames[i].len \in Nat
            /\ frames[i].at + frames[i].len <= EndOf(frames)
        BY <2>0, <3>1
      <4> QED BY <1>1, <1>4, <4>1, <4>2
    <3>2. CASE i = Len(frames) + 1 BY <1>1, <1>3, <1>4, <3>2
    <3> QED BY <1>1, <1>3, <3>1, <3>2
  <2>2. ASSUME NEW i \in 1..Len(frames')
        PROVE  frames'[i].at = IF i = 1 THEN 0 ELSE frames'[i - 1].at + frames'[i - 1].len
    <3>1. CASE i \in 1..Len(frames)
      <4>1. i # 1 => i - 1 \in 1..Len(frames) BY <1>1, <3>1
      <4> QED BY <1>3, <3>1, <4>1 DEF IInv, LaidOut
    <3>2. CASE i = Len(frames) + 1
      <4>1. CASE frames = <<>>
        BY <1>3, <3>2, <4>1 DEF EndOf
      <4>2. CASE frames # <<>>
        <5>1. Len(frames) \in 1..Len(frames) /\ i # 1 /\ i - 1 = Len(frames)
          BY <1>1, <3>2, <4>2
        <5> QED BY <1>3, <3>2, <4>2, <5>1 DEF EndOf
      <4> QED BY <4>1, <4>2
    <3> QED BY <1>1, <1>3, <3>1, <3>2
  <2>3. ASSUME NEW i \in 1..Len(frames'), NEW k \in 1..Len(frames'), i < k
        PROVE  frames'[i].at + frames'[i].len <= frames'[k].at
    <3>0. i \in 1..Len(frames) BY <1>1, <1>3, <2>3
    <3>1. CASE k \in 1..Len(frames) BY <1>3, <2>3, <3>0, <3>1 DEF IInv, LaidOut
    <3>2. CASE k = Len(frames) + 1 BY <1>3, <2>0, <3>0, <3>2
    <3> QED BY <1>1, <1>3, <3>1, <3>2
  <2> QED BY <2>1, <2>2, <2>3 DEF LaidOut
<1>8. ReceivedInOrder'
  <2>1. Len(received) <= Len(frames) /\ received = SubSeq(frames, 1, Len(received))
    BY DEF IInv, ReceivedInOrder
  <2>2. SubSeq(frames', 1, Len(received)) = SubSeq(frames, 1, Len(received))
    BY <1>1, <1>3, <2>1
  <2> QED BY <1>1, <1>3, <1>5, <2>1, <2>2 DEF ReceivedInOrder
<1>9. Len(received) < Len(frames) =>
        Len(received) < Len(frames') /\ frames'[Len(received) + 1] = frames[Len(received) + 1]
  BY <1>1, <1>3
<1>10. InStep' BY <1>0, <1>5, <1>9 DEF IInv, InStep
<1>11. RefusedWithReason' BY <1>5, <1>9 DEF IInv, RefusedWithReason, Good, Sized
<1>12. CleanEndCutsNothing' BY <1>0, <1>5 DEF IInv, CleanEndCutsNothing
<1> QED BY <1>6, <1>7, <1>8, <1>10, <1>11, <1>12 DEF IInv

LEMMA ArriveStep ==
  ASSUME IInv, NEW n \in 1..EndOf(frames), Arrive(n)
  PROVE  IInv'
<1>0. /\ arrived' = n /\ arrived < n /\ n <= EndOf(frames) /\ stream = "open"
      /\ UNCHANGED <<frames, stream, reader, consumed, frame, received>>
  BY DEF Arrive, readerVars
<1>1. EndOf(frames) \in Nat /\ EndOf(frames)' = EndOf(frames) /\ EndOf(received)' = EndOf(received)
  BY <1>0, EndOfType DEF IInv, TypeOK, EndOf
<1>2. TypeOK'
  <2>1. arrived' \in 0..EndOf(frames)' /\ consumed' \in 0..arrived'
    BY <1>0, <1>1 DEF IInv, TypeOK
  <2> QED BY <1>0, <2>1 DEF IInv, TypeOK, Sized
<1>3. LaidOut' /\ ReceivedInOrder'
  BY <1>0, <1>1 DEF IInv, LaidOut, ReceivedInOrder
<1>4. InStep' BY <1>0, <1>1 DEF IInv, InStep
<1>5. RefusedWithReason' BY <1>0 DEF IInv, RefusedWithReason, Good, Sized
<1>6. CleanEndCutsNothing' BY <1>0 DEF IInv, CleanEndCutsNothing
<1> QED BY <1>2, <1>3, <1>4, <1>5, <1>6 DEF IInv

\* The end of the stream, of either kind, finds Decode in step.
LEMMA ShutStep ==
  ASSUME IInv, Shut
  PROVE  IInv'
<1>0. /\ stream = "open" /\ stream' = "closed"
      /\ UNCHANGED <<frames, arrived, reader, consumed, frame, received>>
  BY DEF Shut, readerVars
<1>1. EndOf(frames)' = EndOf(frames) /\ EndOf(received)' = EndOf(received)
  BY <1>0 DEF EndOf
<1>2. TypeOK' BY <1>0, <1>1 DEF IInv, TypeOK, Sized
<1>3. LaidOut' /\ ReceivedInOrder'
  BY <1>0, <1>1 DEF IInv, LaidOut, ReceivedInOrder
<1>4. InStep' BY <1>0, <1>1 DEF IInv, InStep
<1>5. RefusedWithReason' BY <1>0 DEF IInv, RefusedWithReason, Good, Sized
<1>6. CleanEndCutsNothing' BY <1>0 DEF IInv, InStep, CleanEndCutsNothing
<1> QED BY <1>2, <1>3, <1>4, <1>5, <1>6 DEF IInv

LEMMA ReadTimeoutStep ==
  ASSUME IInv, ReadTimeout
  PROVE  IInv'
<1>0. /\ stream' = "dead" /\ consumed' = arrived /\ reader' = "len"
      /\ UNCHANGED <<frames, arrived, frame, received>>
  BY DEF ReadTimeout
<1>1. EndOf(frames) \in Nat /\ EndOf(frames)' = EndOf(frames) /\ EndOf(received)' = EndOf(received)
  BY <1>0, EndOfType DEF IInv, TypeOK, EndOf
<1>2. TypeOK'
  <2>1. arrived' \in 0..EndOf(frames)' /\ consumed' \in 0..arrived'
    BY <1>0, <1>1 DEF IInv, TypeOK
  <2> QED BY <1>0, <2>1 DEF IInv, TypeOK
<1>3. LaidOut' /\ ReceivedInOrder'
  BY <1>0, <1>1 DEF IInv, LaidOut, ReceivedInOrder
<1>4. InStep' BY <1>0, <1>1 DEF InStep
<1>5. RefusedWithReason' /\ CleanEndCutsNothing'
  BY <1>0 DEF RefusedWithReason, CleanEndCutsNothing
<1> QED BY <1>2, <1>3, <1>4, <1>5 DEF IInv

LEMMA ReadEndStep ==
  ASSUME IInv, ReadEnd
  PROVE  IInv'
<1>0. /\ stream # "open" /\ consumed' = arrived /\ reader \in {"len", "body"}
      /\ reader' = IF arrived = consumed THEN "eof" ELSE "cut"
      /\ UNCHANGED <<frames, arrived, stream, frame, received>>
  BY DEF ReadEnd, Starved, peerVars
<1>1. EndOf(frames) \in Nat /\ EndOf(frames)' = EndOf(frames) /\ EndOf(received)' = EndOf(received)
  BY <1>0, EndOfType DEF IInv, TypeOK, EndOf
<1>2. reader' \in {"eof", "cut"} BY <1>0
<1>3. TypeOK'
  <2>1. arrived' \in 0..EndOf(frames)' /\ consumed' \in 0..arrived'
    BY <1>0, <1>1 DEF IInv, TypeOK
  <2> QED BY <1>0, <1>2, <2>1 DEF IInv, TypeOK
<1>4. LaidOut' /\ ReceivedInOrder'
  BY <1>0, <1>1 DEF IInv, LaidOut, ReceivedInOrder
<1>5. InStep' /\ RefusedWithReason' BY <1>0, <1>2 DEF InStep, RefusedWithReason
<1>6. CleanEndCutsNothing'
  <2> SUFFICES ASSUME reader' = "eof", stream' = "closed"
               PROVE  arrived \in {EndOf(received), EndOf(received) + LenField}
    BY <1>0, <1>1 DEF CleanEndCutsNothing
  <2>1. arrived = consumed BY <1>0
  <2>2. CASE reader = "len" BY <1>0, <2>1, <2>2 DEF IInv, InStep
  <2>3. CASE reader = "body" BY <1>0, <2>1, <2>3 DEF IInv, InStep
  <2> QED BY <1>0, <2>2, <2>3
<1> QED BY <1>3, <1>4, <1>5, <1>6 DEF IInv

\* The length that Decode reads is that of the next frame.
LEMMA ReadLenStep ==
  ASSUME IInv, NEW f \in Here, ReadLen(f)
  PROVE  IInv'
<1> DEFINE n == Len(received)
<1>0. /\ reader = "len" /\ consumed' = consumed + LenField /\ frame' = <<f>>
      /\ reader' = IF Sized(f) THEN "body" ELSE "refused"
      /\ UNCHANGED <<frames, arrived, stream, received>>
  BY DEF ReadLen, peerVars
<1>1. /\ EndOf(frames) \in Nat /\ arrived \in 0..EndOf(frames) /\ consumed \in 0..arrived
      /\ EndOf(frames)' = EndOf(frames) /\ EndOf(received)' = EndOf(received)
  BY <1>0, EndOfType DEF IInv, TypeOK, EndOf
<1>2. arrived >= consumed + LenField
  BY <1>0, <1>1 DEF ReadLen, Ready, Wanted
<1>3. stream # "dead" /\ consumed = EndOf(received)
  BY <1>0, <1>1, <1>2 DEF IInv, InStep
<1>4. n < Len(frames) /\ f = frames[n + 1]
  BY <1>2, <1>3, NextFrame DEF IInv
<1>5. f \in Frames BY <1>4 DEF IInv, TypeOK
<1>6. TypeOK'
  <2>1. arrived' \in 0..EndOf(frames)' /\ consumed' \in 0..arrived'
    BY <1>0, <1>1, <1>2
  <2>2. frame' \in Seq(Frames) /\ Len(frame') = 1 /\ frame'[1] = f BY <1>0, <1>5
  <2>3. reader' \in {"body", "refused"} /\ (reader' = "body" => Sized(f)) BY <1>0
  <2> QED BY <1>0, <2>1, <2>2, <2>3 DEF IInv, TypeOK, Sized
<1>7. LaidOut' /\ ReceivedInOrder'
  BY <1>0, <1>1 DEF IInv, LaidOut, ReceivedInOrder
<1>8. InStep' BY <1>0, <1>1, <1>3, <1>4 DEF InStep
<1>9. RefusedWithReason' BY <1>0, <1>4 DEF RefusedWithReason, Good, Sized
<1>10. CleanEndCutsNothing' BY <1>0 DEF CleanEndCutsNothing
<1> QED BY <1>6, <1>7, <1>8, <1>9, <1>10 DEF IInv

\* Decode returns the next frame and is then at the one after it.
LEMMA ReadBodyStep ==
  ASSUME IInv, ReadBody
  PROVE  IInv'
<1> DEFINE n == Len(received)
           f == frames[n + 1]
<1>0. /\ reader = "body" /\ consumed' = consumed + (f.len - LenField)
      /\ arrived - consumed >= f.len - LenField
      /\ stream # "dead" /\ n < Len(frames) /\ frame[1] = f
      /\ consumed = EndOf(received) + LenField
      /\ UNCHANGED <<frames, arrived, stream, frame>>
  BY DEF ReadBody, Ready, Wanted, peerVars, IInv, InStep
<1>1. /\ frames \in Seq(Frames) /\ received \in Seq(Frames) /\ n \in Nat
      /\ f \in Frames /\ f.len \in Nat /\ f.len >= LenField /\ f.at \in Nat
      /\ frame \in Seq(Frames) /\ Len(frame) = 1
  <2>1. frames \in Seq(Frames) /\ received \in Seq(Frames) /\ frame \in Seq(Frames)
    BY DEF IInv, TypeOK
  <2>2. Len(frame) = 1 BY <1>0 DEF IInv, TypeOK
  <2>3. f \in Frames BY <1>0, <2>1
  <2>4. f.at \in Nat /\ f.len \in Nat /\ f.len >= LenField BY <2>3 DEF Frames
  <2> QED BY <2>1, <2>2, <2>3, <2>4
<1>2. /\ EndOf(frames) \in Nat /\ arrived \in 0..EndOf(frames) /\ consumed \in 0..arrived
      /\ EndOf(received) \in Nat /\ EndOf(frames)' = EndOf(frames)
  BY <1>0, EndOfType DEF IInv, TypeOK, EndOf
<1>3. arrived' \in 0..EndOf(frames)' /\ consumed' \in 0..arrived'
  <2>1. /\ f.len \in Nat /\ f.len >= 4 /\ consumed \in Nat /\ arrived \in Nat
        /\ consumed' = consumed + (f.len - 4) /\ arrived - consumed >= f.len - 4
    BY <1>0, <1>1, <1>2
  <2>2. arrived' = arrived BY <1>0
  <2> HIDE DEF f
  <2>3. consumed' \in Nat /\ consumed' <= arrived BY <2>1
  <2>4. consumed' \in 0..arrived' BY <2>2, <2>3
  <2>5. arrived' \in 0..EndOf(frames)' BY <1>2, <2>2
  <2> QED BY <2>4, <2>5
<1>4. LaidOut' BY <1>0, <1>2 DEF IInv, LaidOut
<1>5. CASE f.kind = "good"
  <2>0. reader' = "len" /\ received' = received \o frame
    BY <1>0, <1>5 DEF ReadBody
  <2>1. /\ received' \in Seq(Frames) /\ Len(received') = n + 1
        /\ received'[n + 1] = f /\ \A i \in 1..n : received'[i] = received[i]
    <3>1. frame = <<f>> BY <1>0, <1>1
    <3>2. received' = Append(received, f) BY <1>1, <2>0, <3>1
    <3> HIDE DEF f
    <3> QED BY <1>1, <3>2
  <2>2. EndOf(received)' = f.at + f.len
    <3>1. received' # <<>> BY <1>1, <2>1
    <3> QED BY <2>1, <3>1 DEF EndOf
  <2>3. EndOf(received) = f.at BY <1>0, NextBegins DEF IInv
  <2>4. TypeOK' BY <1>0, <1>3, <2>0, <2>1 DEF IInv, TypeOK
  <2>5. ReceivedInOrder'
    <3>1. received = SubSeq(frames, 1, n) BY DEF IInv, ReceivedInOrder
    <3>2. \A i \in 1..n : received[i] = frames[i] BY <1>0, <1>1, <3>1
    <3>3. /\ SubSeq(frames, 1, n + 1) \in Seq(Frames)
          /\ Len(SubSeq(frames, 1, n + 1)) = n + 1
          /\ \A i \in 1..(n + 1) : SubSeq(frames, 1, n + 1)[i] = frames[i]
      BY <1>0, <1>1
    <3>4. \A i \in 1..(n + 1) : received'[i] = SubSeq(frames, 1, n + 1)[i]
      BY <1>1, <2>1, <3>2, <3>3
    <3>5. received' = SubSeq(frames, 1, n + 1)
      <4> DEFINE g == SubSeq(frames, 1, n + 1)
      <4>1. g \in Seq(Frames) /\ Len(g) = n + 1 BY <3>3
      <4>2. \A i \in 1..(n + 1) : received'[i] = g[i] BY <3>4
      <4> HIDE DEF g
      <4>3. received' = g BY <1>1, <2>1, <4>1, <4>2
      <4> QED BY <4>3 DEF g
    <3> QED BY <1>0, <1>1, <2>1, <3>5 DEF ReceivedInOrder
  <2>6. InStep'
    <3>1. consumed' = EndOf(received)'
      <4>1. f.at \in Nat /\ f.len \in Nat BY <1>1
      <4>2. consumed' = (f.at + 4) + (f.len - 4) BY <1>0, <2>3
      <4> HIDE DEF f
      <4>3. (f.at + 4) + (f.len - 4) = f.at + f.len BY <4>1
      <4> QED BY <2>2, <4>2, <4>3
    <3> QED BY <1>0, <2>0, <3>1 DEF InStep
  <2>7. RefusedWithReason' /\ CleanEndCutsNothing'
    BY <2>0 DEF RefusedWithReason, CleanEndCutsNothing
  <2> QED BY <1>4, <2>4, <2>5, <2>6, <2>7 DEF IInv
<1>6. CASE f.kind # "good"
  <2>0. reader' = "refused" /\ received' = received
    BY <1>0, <1>6 DEF ReadBody
  <2>1. TypeOK' BY <1>0, <1>3, <2>0 DEF IInv, TypeOK
  <2>2. ReceivedInOrder' BY <1>0, <2>0 DEF IInv, ReceivedInOrder
  <2>3. InStep' BY <2>0 DEF InStep
  <2>4. RefusedWithReason' BY <1>0, <1>6, <2>0 DEF RefusedWithReason, Good
  <2>5. CleanEndCutsNothing' BY <2>0 DEF CleanEndCutsNothing
  <2> QED BY <1>4, <2>1, <2>2, <2>3, <2>4, <2>5 DEF IInv
<1> QED BY <1>5, <1>6

LEMMA NextInv == IInv /\ [Next]_vars => IInv'
<1> SUFFICES ASSUME IInv, [Next]_vars PROVE IInv'
  OBVIOUS
<1>1. CASE ReadBody BY <1>1, ReadBodyStep
<1>2. CASE ReadEnd BY <1>2, ReadEndStep
<1>3. CASE ReadTimeout BY <1>3, ReadTimeoutStep
<1>4. CASE Shut BY <1>4, ShutStep
<1>5. ASSUME NEW f \in Here, ReadLen(f) PROVE IInv' BY <1>5, ReadLenStep
<1>6. ASSUME NEW len \in Lengths, NEW kind \in Kinds, Write(len, kind) PROVE IInv'
  BY <1>6, WriteStep
<1>7. ASSUME NEW n \in 1..EndOf(frames), Arrive(n) PROVE IInv' BY <1>7, ArriveStep
<1>8. CASE UNCHANGED vars
  <2>1. UNCHANGED <<frames, arrived, stream, reader, consumed, frame, received>>
    BY <1>8 DEF vars, peerVars, readerVars
  <2> QED BY <2>1 DEF IInv, TypeOK, LaidOut, ReceivedInOrder, InStep, RefusedWithReason,
                      CleanEndCutsNothing, EndOf, Good, Sized
<1> QED BY <1>1, <1>2, <1>3, <1>4, <1>5, <1>6, <1>7, <1>8 DEF Next

-------------------------------------------------------------------------------
(***************************************************************************)
(* For any lengths, limit and number of packets, the state of Decode has   *)
(* its type: what it reads has arrived, and what it accepts is within the  *)
(* limits.                                                                 *)
(***************************************************************************)
THEOREM TypeCorrect == Spec => []TypeOK
<1>1. IInv => TypeOK BY DEF IInv
<1> QED BY <1>1, InitInv, NextInv, PTL DEF Spec

(***************************************************************************)
(* Decode returns the frames of the peer in order, without loss and        *)
(* without repetition, for every way of cutting the stream into pieces.    *)
(***************************************************************************)
THEOREM InOrder == Spec => []ReceivedInOrder
<1>1. IInv => ReceivedInOrder BY DEF IInv
<1> QED BY <1>1, InitInv, NextInv, PTL DEF Spec

(***************************************************************************)
(* Decode refuses only what the peer wrote wrongly.                        *)
(***************************************************************************)
THEOREM JustRefusals == Spec => []RefusedWithReason
<1>1. IInv => RefusedWithReason BY DEF IInv
<1> QED BY <1>1, InitInv, NextInv, PTL DEF Spec

(***************************************************************************)
(* A stream that the peer closes within a packet ends with an error, but   *)
(* for the case of a length field that had just been read.                 *)
(***************************************************************************)
THEOREM CleanEnd == Spec => []CleanEndCutsNothing
<1>1. IInv => CleanEndCutsNothing BY DEF IInv
<1> QED BY <1>1, InitInv, NextInv, PTL DEF Spec

-------------------------------------------------------------------------------
(* What has arrived *)

\* A Decode that wants more bytes than there are has not got the whole of the next frame.
LEMMA StarvedWants ==
  ASSUME IInv, Starved, stream # "dead", Len(received) < Len(frames)
  PROVE  arrived < frames[Len(received) + 1].at + frames[Len(received) + 1].len
<1> DEFINE f == frames[Len(received) + 1]
<1>1. /\ EndOf(received) = f.at
      /\ f.at \in Nat /\ f.len \in Nat /\ f.len >= 4
  <2>1. EndOf(received) = f.at BY NextBegins DEF IInv
  <2>2. f \in Frames BY DEF IInv, TypeOK
  <2>3. QED BY <2>1, <2>2 DEF Frames
<1>2. arrived \in Nat /\ consumed \in Nat
  <2>1. arrived \in 0..EndOf(frames) /\ EndOf(frames) \in Nat BY EndOfType DEF IInv, TypeOK
  <2>2. consumed \in 0..arrived BY DEF IInv, TypeOK
  <2>3. QED BY <2>1, <2>2
<1>3. CASE reader = "len"
  <2>1. consumed = f.at /\ Wanted = 4 BY <1>1, <1>3 DEF IInv, InStep, Wanted
  <2>2. arrived - f.at < 4 BY <2>1 DEF Starved
  <2> HIDE DEF f
  <2>3. arrived < f.at + f.len BY <1>1, <1>2, <2>2
  <2>4. QED BY <2>3 DEF f
<1>4. CASE reader = "body"
  <2>1. consumed = f.at + 4 /\ frame[1] = f BY <1>1, <1>4 DEF IInv, InStep
  <2>2. Wanted = f.len - 4 BY <1>4, <2>1 DEF Wanted
  <2>3. arrived - (f.at + 4) < f.len - 4 BY <2>1, <2>2 DEF Starved
  <2> HIDE DEF f
  <2>4. arrived < f.at + f.len BY <1>1, <1>2, <2>3
  <2>5. QED BY <2>4 DEF f
<1>5. QED BY <1>3, <1>4 DEF Starved

\* Where the stream broke off or died, the next frame was incomplete.
BrokenOff ==
  /\ reader = "cut" => stream # "open"
  /\ (stream = "dead" \/ reader \in {"eof", "cut"}) /\ Len(received) < Len(frames) =>
       arrived < frames[Len(received) + 1].at + frames[Len(received) + 1].len

LEMMA BrokenOffStep == IInv /\ BrokenOff /\ [Next]_vars => BrokenOff'
<1> SUFFICES ASSUME IInv, BrokenOff, [Next]_vars PROVE BrokenOff'
  OBVIOUS
<1> USE DEF peerVars, readerVars
<1>a. reader = "eof" => stream # "open" BY DEF IInv, InStep
<1>1. CASE ReadBody
  <2>1. stream' # "dead" /\ reader' \in {"len", "refused"}
    BY <1>1 DEF ReadBody, IInv, InStep
  <2>2. QED BY <2>1 DEF BrokenOff
<1>2. CASE ReadEnd
  <2>1. UNCHANGED <<frames, received, arrived, stream>> /\ Starved /\ stream # "open"
    BY <1>2 DEF ReadEnd
  <2>2. QED BY <2>1, StarvedWants DEF BrokenOff
<1>3. CASE ReadTimeout
  <2>1. UNCHANGED <<frames, received, arrived>> /\ Starved /\ stream = "open"
        /\ stream' = "dead" /\ reader' = "len"
    BY <1>3 DEF ReadTimeout
  <2>2. QED BY <2>1, StarvedWants DEF BrokenOff
<1>4. CASE Shut
  <2>1. reader' \notin {"eof", "cut"} /\ stream' = "closed"
    BY <1>a, <1>4 DEF Shut, BrokenOff
  <2>2. QED BY <2>1 DEF BrokenOff
<1>5. ASSUME NEW f \in Here, ReadLen(f) PROVE BrokenOff'
  <2>1. stream # "dead"
    <3>1. arrived - consumed >= 4 /\ reader = "len" BY <1>5 DEF ReadLen, Ready, Wanted
    <3>2. arrived \in 0..EndOf(frames) /\ EndOf(frames) \in Nat
      BY EndOfType DEF IInv, TypeOK
    <3>3. stream = "dead" => consumed = arrived BY <3>1 DEF IInv, InStep
    <3>4. QED BY <3>1, <3>2, <3>3
  <2>2. reader' \in {"body", "refused"} /\ UNCHANGED stream BY <1>5 DEF ReadLen
  <2>3. QED BY <2>1, <2>2 DEF BrokenOff
<1>6. ASSUME NEW len \in Lengths, NEW kind \in Kinds, Write(len, kind) PROVE BrokenOff'
  BY <1>a, <1>6 DEF Write, BrokenOff
<1>7. ASSUME NEW n \in 1..EndOf(frames), Arrive(n) PROVE BrokenOff'
  BY <1>a, <1>7 DEF Arrive, BrokenOff
<1>8. CASE UNCHANGED vars BY <1>8 DEF vars, BrokenOff
<1>9. QED BY <1>1, <1>2, <1>3, <1>4, <1>5, <1>6, <1>7, <1>8 DEF Next

(***************************************************************************)
(* While an acceptable packet that has arrived completely, as all before   *)
(* it, is not yet returned, Decode has the bytes it asks for: it has given *)
(* up nothing and waits for none of the next packet.  This is what         *)
(* ArrivedIsReturned needs besides fairness.                               *)
(***************************************************************************)
THEOREM ArrivedIsReady ==
  Spec => [](\A i \in 1..Len(frames) :
               (\A k \in 1..i : Good(frames[k])) /\ arrived >= EndOf(SubSeq(frames, 1, i))
                 => Len(received) >= i \/ Ready)
<1> DEFINE Prompt ==
      \A i \in 1..Len(frames) :
        (\A k \in 1..i : Good(frames[k])) /\ arrived >= EndOf(SubSeq(frames, 1, i))
          => Len(received) >= i \/ Ready
<1>1. Init => IInv /\ BrokenOff BY InitInv DEF Init, BrokenOff
<1>2. IInv /\ BrokenOff => Prompt
  <2> SUFFICES ASSUME IInv, BrokenOff, NEW i \in 1..Len(frames),
                      \A k \in 1..i : Good(frames[k]),
                      arrived >= EndOf(SubSeq(frames, 1, i)), ~(Len(received) >= i)
               PROVE  Ready
    OBVIOUS
  <2> DEFINE n == Len(received)
             f == frames[n + 1]
  <2>0. /\ frames \in Seq(Frames) /\ received \in Seq(Frames) /\ n \in Nat
        /\ Len(frames) \in Nat /\ i \in Nat /\ n < i /\ n < Len(frames)
        /\ n + 1 \in 1..i /\ n + 1 \in 1..Len(frames)
        /\ arrived \in 0..EndOf(frames) /\ EndOf(frames) \in Nat /\ consumed \in 0..arrived
    BY EndOfType DEF IInv, TypeOK
  <2>1. EndOf(SubSeq(frames, 1, i)) = frames[i].at + frames[i].len
    <3> DEFINE g == SubSeq(frames, 1, i)
    <3>1. g \in Seq(Frames) /\ Len(g) = i /\ g[i] = frames[i] BY <2>0
    <3> HIDE DEF g
    <3>2. g # <<>> BY <2>0, <3>1
    <3>3. EndOf(g) = frames[i].at + frames[i].len BY <3>1, <3>2 DEF EndOf
    <3>4. QED BY <3>3 DEF g
  <2>2. /\ f.at \in Nat /\ f.len \in Nat /\ f.len >= 4
        /\ frames[i].at \in Nat /\ frames[i].len \in Nat
    <3>1. f \in Frames /\ frames[i] \in Frames BY <2>0
    <3>2. QED BY <3>1 DEF Frames
  <2>3. n + 1 < i => f.at + f.len <= frames[i].at BY <2>0 DEF IInv, LaidOut
  <2>4. arrived >= f.at + f.len
    <3>1. CASE n + 1 = i BY <2>0, <2>1, <3>1
    <3>2. CASE n + 1 < i
      <4> DEFINE a == frames[i].at
                 l == frames[i].len
                 e == f.at + f.len
      <4>1. a \in Nat /\ l \in Nat /\ e \in Nat /\ e <= a /\ arrived >= a + l /\ arrived \in Nat
        BY <2>0, <2>1, <2>2, <2>3, <3>2
      <4> HIDE DEF a, l, e
      <4>2. arrived >= e BY <4>1
      <4>3. QED BY <4>2 DEF e
    <3>3. QED BY <2>0, <3>1, <3>2
  <2>5. ~(arrived < f.at + f.len)
    <3> DEFINE e == f.at + f.len
    <3>1. e \in Nat /\ arrived \in Nat /\ arrived >= e BY <2>0, <2>2, <2>4
    <3> HIDE DEF e
    <3>2. ~(arrived < e) BY <3>1
    <3>3. QED BY <3>2 DEF e
  <2>6. stream # "dead" /\ reader \notin {"eof", "cut"} BY <2>0, <2>5 DEF BrokenOff
  <2>7. reader # "refused" BY <2>0 DEF IInv, RefusedWithReason
  <2>8. reader \in {"len", "body"} BY <2>6, <2>7 DEF IInv, TypeOK
  <2>9. ~Starved BY <2>0, <2>5, <2>6, StarvedWants
  <2>10. Wanted \in Nat
    <3>1. CASE reader = "len" BY <3>1 DEF Wanted
    <3>2. CASE reader = "body"
      <4>1. frame[1] = f BY <3>2 DEF IInv, InStep
      <4>2. QED BY <2>2, <3>2, <4>1 DEF Wanted
    <3>3. QED BY <2>8, <3>1, <3>2
  <2>11. QED BY <2>0, <2>8, <2>9, <2>10 DEF Starved, Ready
<1>3. QED BY <1>1, <1>2, InitInv, NextInv, BrokenOffStep, PTL DEF Spec
===============================================================================
