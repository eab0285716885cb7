-------------------------------- MODULE Framing --------------------------------
(***************************************************************************)
(* PacketCodec over one direction of a socket (network/packet.go): the     *)
(* peer's frames, their bytes on the way, and Decode as readLoop calls it  *)
(* (network/conn.go).  Only writeLoop writes, so frames never interleave,  *)
(* but bytes arrive in pieces that have nothing to do with the frames, and *)
(* the stream may end anywhere.                                            *)
(*                                                                         *)
(* A byte is its position in the stream; of a frame's content only this is *)
(* kept: what its version and its data come to when they are decoded.      *)
(* Numbering is the matter of module Messages.                             *)
(***************************************************************************)
EXTENDS Naturals, Sequences

CONSTANTS
  Lengths,        \* total lengths of the frames of peers: Encode makes 26 and more
  MaxPacketSize,  \* 10 MB in the code
  MaxFrames       \* bound: frames that the peer writes

LenField == 4     \* bytes of the length, which counts the whole frame
HeadSize == 26    \* bytes of a frame without data

\* "newer": of a later protocol version.  "garbled": data that does not decrypt and
\* decompress, such as that of a peer with other settings.
Kinds == {"good", "newer", "garbled"}

Frames == [at : Nat, len : Lengths, kind : Kinds]

ASSUME FramingAssumption ==
  /\ Lengths \subseteq {n \in Nat : n >= LenField}
  /\ MaxPacketSize \in Nat /\ MaxFrames \in Nat

VARIABLES
  frames,      \* what the peer has written; "at" is a frame's place in the stream
  arrived,     \* number of bytes that have reached the socket
  stream,      \* "open", "closed" (nothing more arrives), "dead" (the kernel gave up)
  reader,      \* Decode: at the "len" or the "body"; readLoop's end: "eof", "refused", "cut"
  consumed,    \* number of bytes that Decode has read
  frame,       \* what the length field that was read belongs to: <<>> or <<f>>
  received     \* the packets that Decode has returned

peerVars   == <<frames, arrived, stream>>
readerVars == <<reader, consumed, frame, received>>
vars == <<peerVars, readerVars>>

Init ==
  /\ frames = <<>> /\ arrived = 0 /\ stream = "open"
  /\ reader = "len" /\ consumed = 0 /\ frame = <<>> /\ received = <<>>

\* Where the next of these frames begins.
EndOf(s) == IF s = <<>> THEN 0 ELSE s[Len(s)].at + s[Len(s)].len

-------------------------------------------------------------------------------
(* The peer and the network *)

Write(len, kind) ==
  /\ stream = "open" /\ Len(frames) < MaxFrames
  /\ frames' = Append(frames, [at |-> EndOf(frames), len |-> len, kind |-> kind])
  /\ UNCHANGED <<arrived, stream, readerVars>>

Arrive(n) ==
  /\ stream = "open"
  /\ arrived < n /\ n <= EndOf(frames)
  /\ arrived' = n
  /\ UNCHANGED <<frames, stream, readerVars>>

\* The peer is closed, perhaps in the middle of a Write.
Shut ==
  /\ stream = "open"
  /\ stream' = "closed"
  /\ UNCHANGED <<frames, arrived, readerVars>>

-------------------------------------------------------------------------------
(* Decode *)

\* Bytes that io.ReadFull still has to get.
Wanted ==
  CASE reader = "len"  -> LenField
    [] reader = "body" -> frame[1].len - LenField
    [] OTHER -> 0

Ready == reader \in {"len", "body"} /\ arrived - consumed >= Wanted
Starved == reader \in {"len", "body"} /\ arrived - consumed < Wanted

\* The frames that begin here; out of step, the bytes may look like any.
Here ==
  LET begins == {i \in 1..Len(frames) : frames[i].at = consumed}
  IN  IF begins # {} THEN {frames[i] : i \in begins}
      ELSE [at : {consumed}, len : Lengths, kind : Kinds]

Sized(f) == f.len >= HeadSize /\ f.len <= MaxPacketSize

\* Mutant: the length is not checked.
ReadLenUnchecked(f) ==
  /\ reader = "len" /\ Ready
  /\ f \in Here
  /\ consumed' = consumed + LenField
  /\ frame' = <<f>>
  /\ reader' = "body"
  /\ UNCHANGED <<peerVars, received>>

\* Mutant: the largest packet is refused.
ReadLenBelow(f) ==
  /\ reader = "len" /\ Ready
  /\ f \in Here
  /\ consumed' = consumed + LenField
  /\ frame' = <<f>>
  /\ reader' = IF Sized(f) /\ f.len < MaxPacketSize THEN "body" ELSE "refused"
  /\ UNCHANGED <<peerVars, received>>

ReadLen(f) ==
  /\ reader = "len" /\ Ready
  /\ f \in Here
  /\ consumed' = consumed + LenField
  /\ frame' = <<f>>
  /\ reader' = IF Sized(f) THEN "body" ELSE "refused"
  /\ UNCHANGED <<peerVars, received>>

\* Mutant: the body is taken to be as long as the frame.
ReadBodyWhole ==
  /\ reader = "body" /\ arrived - consumed >= frame[1].len
  /\ consumed' = consumed + frame[1].len
  /\ IF frame[1].kind = "good"
     THEN reader' = "len" /\ received' = received \o frame
     ELSE reader' = "refused" /\ UNCHANGED received
  /\ UNCHANGED <<peerVars, frame>>

\* Mutant: a single Read, which returns what is there.
ReadBodyOnce ==
  /\ reader = "body" /\ arrived > consumed
  /\ consumed' = IF Ready THEN consumed + Wanted ELSE arrived
  /\ IF frame[1].kind = "good"
     THEN reader' = "len" /\ received' = received \o frame
     ELSE reader' = "refused" /\ UNCHANGED received
  /\ UNCHANGED <<peerVars, frame>>

ReadBody ==
  /\ reader = "body" /\ Ready
  /\ consumed' = consumed + Wanted
  /\ IF frame[1].kind = "good"
     THEN reader' = "len" /\ received' = received \o frame
     ELSE reader' = "refused" /\ UNCHANGED received
  /\ UNCHANGED <<peerVars, frame>>

\* Mutant: whatever ends early counts as the end of input.
ReadEndAlways ==
  /\ Starved /\ stream # "open"
  /\ consumed' = arrived
  /\ reader' = "eof"
  /\ UNCHANGED <<peerVars, frame, received>>

\* io.ReadFull returns io.EOF if there was no byte at all, which readLoop takes for the
\* end of input, and io.ErrUnexpectedEOF if there were some, which is an error.
ReadEnd ==
  /\ Starved /\ stream # "open"
  /\ consumed' = arrived
  /\ reader' = IF arrived = consumed THEN "eof" ELSE "cut"
  /\ UNCHANGED <<peerVars, frame, received>>

\* A timeout: readLoop calls Decode again, which begins with a length.  No deadline is
\* set on the socket, so only the kernel reports one, after which nothing arrives.
ReadTimeout ==
  /\ Starved /\ stream = "open"
  /\ stream' = "dead"
  /\ consumed' = arrived
  /\ reader' = "len"
  /\ UNCHANGED <<frames, arrived, frame, received>>

-------------------------------------------------------------------------------
ReadNext == ReadBody \/ ReadEnd \/ \E f \in Here : ReadLen(f)

Next ==
  \/ ReadBody \/ ReadEnd \/ ReadTimeout \/ Shut
  \/ \E f \in Here : ReadLen(f)
  \/ \E len \in Lengths, kind \in Kinds : Write(len, kind)
  \/ \E n \in 1..EndOf(frames) : Arrive(n)

\* readLoop runs when there is something to read; nothing makes bytes arrive.
Spec == Init /\ [][Next]_vars /\ WF_vars(ReadNext)

-------------------------------------------------------------------------------
(* Properties *)

TypeOK ==
  /\ frames \in Seq(Frames) /\ arrived \in 0..EndOf(frames)
  /\ stream \in {"open", "closed", "dead"}
  /\ reader \in {"len", "body", "eof", "refused", "cut"}
  /\ consumed \in 0..arrived
  /\ frame \in Seq(Frames) /\ Len(frame) <= 1
  /\ reader = "body" => Len(frame) = 1 /\ Sized(frame[1])
  /\ received \in Seq(Frames)

(***************************************************************************)
(* Decode returns the frames of the peer, in order, none twice and none    *)
(* left out, whatever the pieces in which their bytes arrive.              *)
(***************************************************************************)
ReceivedInOrder ==
  Len(received) <= Len(frames) /\ received = SubSeq(frames, 1, Len(received))

Good(f) == Sized(f) /\ f.kind = "good"

(***************************************************************************)
(* A packet is refused only if it is too short or too long, of a newer     *)
(* version or does not decode: no refusal comes from being out of step.    *)
(***************************************************************************)
RefusedWithReason ==
  reader = "refused" =>
    Len(received) < Len(frames) /\ ~Good(frames[Len(received) + 1])

(***************************************************************************)
(* A peer that closes within a packet is reported as an error and not as   *)
(* the end of input, unless exactly the length of the packet had arrived.  *)
(***************************************************************************)
CleanEndCutsNothing ==
  reader = "eof" /\ stream = "closed" =>
    arrived \in {EndOf(received), EndOf(received) + LenField}

(***************************************************************************)
(* Decode returns every acceptable packet that has arrived completely, if  *)
(* all before it are acceptable: it never waits for bytes of the next one. *)
(***************************************************************************)
ArrivedIsReturned ==
  \A i \in 1..MaxFrames :
    (i <= Len(frames) /\ (\A k \in 1..i : Good(frames[k])) /\ arrived >= EndOf(SubSeq(frames, 1, i)))
      ~> Len(received) >= i
===============================================================================
