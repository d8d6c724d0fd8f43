------------------------ MODULE ConnectionTaskProofs ------------------------
(***************************************************************************)
(* A connection task implements an ordered pipe in each direction, for     *)
(* channels of any size and any number of messages and frames, although a  *)
(* recv may be dropped at any point of a frame.                            *)
(***************************************************************************)
EXTENDS ConnectionTask, SequenceTheorems, TLAPS

Phases == {"loop", "sending", "deliver", "closing", "ended"}

-----------------------------------------------------------------------------
(* The stream of the remote peer.                                          *)

\* The part of the types that the incoming side needs.  The frames handed on
\* are the first frames of the peer, which is what decryption enforces.
InShape ==
    /\ phase \in Phases
    /\ emitted \in Nat /\ emitted <= 2 * MaxFrames
    /\ consumed \in Nat /\ consumed <= emitted
    /\ prefix \in 0 .. Wrong
    /\ interrupted \in BOOLEAN
    /\ handed \in Seq(1 .. MaxFrames)
    /\ \A i \in 1 .. Len(handed) : handed[i] = i

\* Where in the stream the task is: whatever was dropped, the frames handed on
\* have been read, the length that recv holds is the last token read, and a
\* frame that is being handed on is the next one and has been read whole.
InPlace ==
    /\ 2 * Len(handed) <= consumed
    /\ phase = "loop" /\ prefix \in 1 .. MaxFrames => consumed = 2 * prefix - 1
    /\ phase = "deliver" => /\ prefix = 0
                            /\ cur = Len(handed) + 1
                            /\ 2 * cur <= consumed
    /\ phase = "sending" => prefix = 0

\* As long as no recv was dropped inside a frame, the stream is in step with the
\* nonce of the transport.
InStep ==
    ~interrupted =>
        /\ prefix # Wrong
        /\ phase = "loop" => \/ prefix = 0 /\ consumed = 2 * Len(handed)
                             \/ prefix = Len(handed) + 1
        /\ phase = "deliver" => consumed = 2 * cur
        /\ phase = "sending" => consumed = 2 * Len(handed)
        /\ reason # "framing"

IncomingInv == InShape /\ InPlace /\ InStep

-----------------------------------------------------------------------------
(* The outgoing channel and the socket.                                    *)

\* Messages are numbered in the order send_to accepted them.
OutShape ==
    /\ phase \in Phases
    /\ outgoing \in Seq(1 .. MaxMsgs)
    /\ accepted \in Seq(1 .. MaxMsgs) /\ written \in Seq(1 .. MaxMsgs)
    /\ \A i \in 1 .. Len(accepted) : accepted[i] = i
    /\ \A i \in 1 .. Len(written) : written[i] = i

\* While the loop runs, an accepted message has been written, or is being
\* written, or waits in the channel, in this order.
OutInPlace ==
    /\ Open => \A i \in 1 .. Len(outgoing) :
                  outgoing[i] = Len(accepted) - Len(outgoing) + i
    /\ phase \in {"loop", "deliver"} => Len(written) + Len(outgoing) = Len(accepted)
    /\ phase = "sending" => /\ cur = Len(written) + 1
                            /\ Len(written) + 1 + Len(outgoing) = Len(accepted)

OutgoingInv == OutShape /\ OutInPlace

-----------------------------------------------------------------------------
\* Halving, as the numbering of the stream's tokens uses it.
LEMMA Halves ==
    ASSUME NEW n \in Nat
    PROVE  /\ n \div 2 \in Nat
           /\ n % 2 = 0 => n = 2 * (n \div 2)
           /\ n % 2 = 1 => n = 2 * (n \div 2) + 1
           /\ n % 2 = 0 \/ n % 2 = 1
<1>1. n \div 2 \in Nat
  OBVIOUS
<1>2. n % 2 = 0 => n = 2 * (n \div 2)
  OBVIOUS
<1>3. n % 2 = 1 => n = 2 * (n \div 2) + 1
  OBVIOUS
<1>4. n % 2 = 0 \/ n % 2 = 1
  OBVIOUS
<1> QED
  BY <1>1, <1>2, <1>3, <1>4

\* The steps of senders, the remote peer, the receiver's holder and the
\* canceller, and those that write a message, do not touch the place in the
\* stream.
LEMMA OthersKeepPlace ==
    ASSUME IncomingInv,
           \/ SendTo \/ DropHandle \/ Arrive \/ AppRecv \/ AppDrop \/ Cancel
           \/ LoopCancelled \/ SendDone \/ EncryptError \/ SendError \/ RecvError
           \/ DeliverClosed \/ EndTask
    PROVE  IncomingInv'
<1> USE TaskAssumption
        DEF IncomingInv, InShape, InPlace, InStep, Phases, Leave, outVars, inVars, envVars
<1>1. CASE SendTo \/ DropHandle \/ AppRecv \/ AppDrop \/ Cancel
  BY <1>1 DEF SendTo, DropHandle, AppRecv, AppDrop, Cancel
<1>2. CASE Arrive
  BY <1>2 DEF Arrive
<1>3. CASE LoopCancelled \/ RecvError
  BY <1>3 DEF LoopCancelled, RecvError, Polled
<1>4. CASE SendDone
  BY <1>4 DEF SendDone
<1>5. CASE EncryptError \/ SendError
  BY <1>5 DEF EncryptError, SendError
<1>6. CASE DeliverClosed \/ EndTask
  BY <1>6 DEF DeliverClosed, EndTask
<1> QED
  BY <1>1, <1>2, <1>3, <1>4, <1>5, <1>6

\* Dropping a recv for an outgoing message keeps the place: the length it held
\* is forgotten, and that is recorded.
LEMMA TakeKeepsPlace ==
    ASSUME IncomingInv, LoopTake
    PROVE  IncomingInv'
<1> USE TaskAssumption DEF IncomingInv, LoopTake, envVars
<1>1. consumed' \in Nat /\ consumed <= consumed' /\ consumed' <= emitted
  BY DEF InShape
<1>2. InShape'
  BY <1>1 DEF InShape, Phases, Wrong
<1>3. InPlace'
  BY <1>1 DEF InShape, InPlace
<1>4. InStep'
  <2> SUFFICES ASSUME ~interrupted' PROVE prefix = 0 /\ InStep'
    BY DEF InStep
  <2>1. ~interrupted /\ prefix = 0
    BY DEF InShape
  <2> QED
    BY <2>1 DEF InShape, InStep, Wrong
<1> QED
  BY <1>2, <1>3, <1>4

\* Reading a length, or payload bytes in the place of one, keeps the place.
LEMMA LengthKeepsPlace ==
    ASSUME IncomingInv, DecodeLength \/ DecodeGarbage \/ DecodeWrongLength
    PROVE  IncomingInv'
<1> USE TaskAssumption DEF IncomingInv, Polled, Leave, outVars, envVars
<1>1. /\ consumed \div 2 \in Nat
      /\ consumed % 2 = 0 => consumed = 2 * (consumed \div 2)
      /\ consumed % 2 = 1 => consumed = 2 * (consumed \div 2) + 1
  BY Halves DEF InShape
<1>2. CASE DecodeLength
  <2>1. /\ consumed' = 2 * prefix' - 1
        /\ prefix' \in 1 .. MaxFrames
    BY <1>1, <1>2 DEF InShape, DecodeLength
  <2>2. InShape'
    BY <1>2, <2>1 DEF InShape, DecodeLength, Wrong
  <2>3. InPlace'
    BY <1>2, <2>1 DEF InShape, InPlace, DecodeLength
  <2>4. InStep'
    BY <1>1, <1>2, <2>1 DEF InShape, InStep, DecodeLength, Wrong
  <2> QED
    BY <2>2, <2>3, <2>4
<1>3. CASE DecodeGarbage \/ DecodeWrongLength
  <2>1. interrupted
    BY <1>1, <1>3 DEF InShape, InStep, DecodeGarbage, DecodeWrongLength
  <2>2. CASE DecodeGarbage
    BY <2>1, <2>2 DEF InShape, InPlace, InStep, Phases, DecodeGarbage
  <2>3. CASE DecodeWrongLength
    BY <2>1, <2>3 DEF InShape, InPlace, InStep, Wrong, DecodeWrongLength
  <2> QED
    BY <1>3, <2>2, <2>3
<1> QED
  BY <1>2, <1>3

\* Reading a payload keeps the place: one that decrypts is the next frame,
\* whatever was dropped before.
LEMMA PayloadKeepsPlace ==
    ASSUME IncomingInv, DecodePayload \/ DecodeOutOfStep \/ DecodeWrongFrame
    PROVE  IncomingInv'
<1> USE TaskAssumption DEF IncomingInv, Polled, Expected, Leave, outVars, envVars
<1>1. CASE DecodePayload
  <2>1. /\ prefix \in 1 .. MaxFrames /\ prefix = Len(handed) + 1
        /\ consumed' = 2 * prefix
    BY <1>1 DEF InShape, InPlace, DecodePayload
  <2> QED
    BY <1>1, <2>1 DEF InShape, InPlace, InStep, Phases, Wrong, DecodePayload
<1>2. CASE DecodeOutOfStep
  <2>1. interrupted
    BY <1>2 DEF InShape, InStep, DecodeOutOfStep
  <2> QED
    BY <1>2, <2>1 DEF InShape, InPlace, InStep, Phases, DecodeOutOfStep
<1>3. CASE DecodeWrongFrame
  <2>1. interrupted
    BY <1>3 DEF InShape, InStep, DecodeWrongFrame
  <2>2. consumed' \in Nat /\ consumed <= consumed' /\ consumed' <= emitted
    BY <1>3 DEF InShape, DecodeWrongFrame
  <2> QED
    BY <1>3, <2>1, <2>2 DEF InShape, InPlace, InStep, Phases, DecodeWrongFrame
<1> QED
  BY <1>1, <1>2, <1>3

\* Handing the frame on keeps the place.
LEMMA DeliverKeepsPlace ==
    ASSUME IncomingInv, Deliver
    PROVE  IncomingInv'
<1> USE TaskAssumption DEF IncomingInv, Deliver, outVars, envVars
<1>1. cur = Len(handed) + 1 /\ cur \in 1 .. MaxFrames
  BY DEF InShape, InPlace
<1>2. /\ handed' \in Seq(1 .. MaxFrames)
      /\ Len(handed') = Len(handed) + 1
      /\ \A i \in 1 .. Len(handed') : handed'[i] = i
  BY <1>1 DEF InShape
<1> QED
  BY <1>1, <1>2 DEF InShape, InPlace, InStep, Phases, Wrong

\* The task always knows its place in the stream as far as IncomingInv says.
THEOREM IncomingInvariant == Spec => []IncomingInv
<1>1. Init => IncomingInv
  <2> SUFFICES ASSUME Init PROVE IncomingInv
    OBVIOUS
  <2> USE TaskAssumption DEF Init
  <2>1. handed \in Seq(1 .. MaxFrames) /\ Len(handed) = 0
    OBVIOUS
  <2>2. interrupted \in BOOLEAN
    OBVIOUS
  <2>3. InShape
    BY <2>1, <2>2 DEF InShape, Phases, Wrong
  <2>4. InPlace /\ InStep
    BY DEF InPlace, InStep, Wrong
  <2> QED
    BY <2>3, <2>4 DEF IncomingInv
<1>2. IncomingInv /\ [Next]_vars => IncomingInv'
  <2> SUFFICES ASSUME IncomingInv, [Next]_vars PROVE IncomingInv'
    OBVIOUS
  <2>1. CASE UNCHANGED vars
    BY <2>1 DEF vars, IncomingInv, InShape, InPlace, InStep
  <2>2. CASE Next
    BY <2>2, OthersKeepPlace, TakeKeepsPlace, LengthKeepsPlace, PayloadKeepsPlace,
       DeliverKeepsPlace DEF Next, TaskStep
  <2> QED
    BY <2>1, <2>2
<1> QED
  BY <1>1, <1>2, PTL DEF Spec

\* On an honest stream decoding fails only after an outgoing message has
\* interrupted a recv between the length prefix and the payload.
THEOREM FramingFailsAfterInterruption == Spec => []FramingNeedsInterruption
<1>1. IncomingInv => FramingNeedsInterruption
  BY Zenon DEF IncomingInv, InShape, InStep, FramingNeedsInterruption
<1> QED
  BY <1>1, IncomingInvariant, PTL

-----------------------------------------------------------------------------
(* The incoming direction implements OrderedPipe.                          *)

\* The frames that have wholly arrived are a sequence of as many elements.
LEMMA FramesSentSeq ==
    ASSUME IncomingInv
    PROVE  /\ FramesSent \in Seq(1 .. MaxFrames)
           /\ Len(FramesSent) = emitted \div 2
           /\ \A k \in 1 .. emitted \div 2 : FramesSent[k] = k
<1> USE TaskAssumption DEF IncomingInv, InShape
<1>1. emitted \div 2 \in Nat /\ emitted \div 2 <= MaxFrames
  BY Halves
<1> QED
  BY <1>1 DEF FramesSent

\* A token of the stream completes a frame or leaves the frames as they are.
LEMMA ArriveImplements ==
    ASSUME IncomingInv, IncomingInv', Arrive
    PROVE  FromPeer!Put \/ UNCHANGED FromPeer!pipeVars
<1> USE TaskAssumption DEF Arrive, envVars, outVars
<1>1. UNCHANGED <<handed, Open>>
  BY DEF Open
<1>2. CASE emitted % 2 = 0
  <2>1. emitted' \div 2 = emitted \div 2
    BY <1>2 DEF IncomingInv, InShape
  <2> QED
    BY <1>1, <2>1 DEF FramesSent, FromPeer!pipeVars
<1>3. CASE emitted % 2 = 1
  <2> DEFINE k == emitted \div 2 + 1
  <2>1. emitted' \div 2 = k
    BY <1>3 DEF IncomingInv, InShape
  <2>2. k \in 1 .. MaxFrames
    BY <2>1, Halves DEF IncomingInv, InShape
  <2>3. FramesSent' = Append(FramesSent, k)
    <3>1. k = Len(FramesSent) + 1 /\ FramesSent \in Seq(Nat) /\ k \in Nat
      BY <2>2, Halves, FramesSentSeq DEF IncomingInv, InShape
    <3>2. FramesSent' = [i \in 1 .. k |-> i]
      BY <2>1 DEF FramesSent
    <3>3. /\ Append(FramesSent, k) \in Seq(Nat)
          /\ Len(Append(FramesSent, k)) = k
          /\ \A i \in 1 .. k : Append(FramesSent, k)[i] = i
      BY <3>1, FramesSentSeq
    <3>4. Append(FramesSent, k) = [i \in 1 .. k |-> Append(FramesSent, k)[i]]
      BY <3>3
    <3> QED
      BY <3>2, <3>3, <3>4
  <2> QED
    BY <1>1, <2>2, <2>3 DEF FromPeer!Put
<1> QED
  BY <1>2, <1>3, Halves DEF IncomingInv, InShape

\* Handing a frame on takes the next frame out of the pipe.
LEMMA DeliverImplements ==
    ASSUME IncomingInv, Deliver
    PROVE  FromPeer!Take
<1> USE TaskAssumption DEF Deliver, envVars, outVars
<1>1. UNCHANGED <<FramesSent, Open>> /\ Open
  BY DEF FramesSent, Open
<1>2. cur = Len(handed) + 1 /\ 2 * cur <= emitted
  BY DEF IncomingInv, InShape, InPlace
<1>3. Len(handed) + 1 \in 1 .. emitted \div 2
  BY <1>2, Halves DEF IncomingInv, InShape
<1>4. Len(handed) < Len(FramesSent) /\ FramesSent[Len(handed) + 1] = cur
  BY <1>2, <1>3, FramesSentSeq DEF IncomingInv, InShape
<1> QED
  BY <1>1, <1>4 DEF FromPeer!Take

\* Every other step leaves the pipe alone or closes it.
LEMMA RestImplements ==
    ASSUME IncomingInv, Next, ~Arrive, ~Deliver
    PROVE  FromPeer!Close \/ UNCHANGED FromPeer!pipeVars
<1> USE DEF FromPeer!Close, FromPeer!pipeVars, FramesSent, Open, Leave, outVars, inVars, envVars
<1>1. CASE SendTo \/ DropHandle \/ AppRecv \/ AppDrop \/ Cancel
  BY <1>1 DEF SendTo, DropHandle, AppRecv, AppDrop, Cancel
<1>2. CASE LoopCancelled \/ LoopTake \/ SendDone \/ EncryptError \/ SendError \/ RecvError
  BY <1>2 DEF LoopCancelled, LoopTake, SendDone, EncryptError, SendError, RecvError, Polled
<1>3. CASE DecodeLength \/ DecodeGarbage \/ DecodeWrongLength
  BY <1>3 DEF DecodeLength, DecodeGarbage, DecodeWrongLength, Polled
<1>4. CASE DecodePayload \/ DecodeOutOfStep \/ DecodeWrongFrame
  BY <1>4 DEF DecodePayload, DecodeOutOfStep, DecodeWrongFrame, Polled
<1>5. CASE DeliverClosed \/ EndTask
  BY <1>5 DEF DeliverClosed, EndTask
<1> QED
  BY <1>1, <1>2, <1>3, <1>4, <1>5 DEF Next, TaskStep

\* The incoming direction of a connection is an ordered pipe: the frames put
\* into the incoming channel are the remote peer's, in order and without a gap,
\* and none follows once the loop is left.
THEOREM IncomingImplementsPipe == Spec => IncomingInOrder
<1>1. Init => FromPeer!Init
  BY DEF Init, FromPeer!Init, FramesSent, Open
<1>2. IncomingInv /\ IncomingInv' /\ [Next]_vars => [FromPeer!Next]_(FromPeer!pipeVars)
  <2> SUFFICES ASSUME IncomingInv, IncomingInv', [Next]_vars
               PROVE  FromPeer!Next \/ UNCHANGED FromPeer!pipeVars
    OBVIOUS
  <2>1. CASE UNCHANGED vars
    BY <2>1 DEF vars, FromPeer!pipeVars, FramesSent, Open
  <2>2. CASE Next
    BY <2>2, ArriveImplements, DeliverImplements, RestImplements DEF FromPeer!Next
  <2> QED
    BY <2>1, <2>2
<1> QED
  BY <1>1, <1>2, IncomingInvariant, PTL DEF Spec, IncomingInOrder, FromPeer!Spec

-----------------------------------------------------------------------------
(* The outgoing direction implements OrderedPipe.                          *)

\* send_to puts the next message at the end of the channel.
LEMMA SendToKeepsOrder ==
    ASSUME OutgoingInv, SendTo
    PROVE  OutgoingInv'
<1> USE TaskAssumption DEF SendTo, OutgoingInv
<1> DEFINE m == Len(accepted) + 1
<1>1. m \in 1 .. MaxMsgs
  BY DEF OutShape
<1>2. /\ accepted' \in Seq(1 .. MaxMsgs) /\ outgoing' \in Seq(1 .. MaxMsgs)
      /\ Len(accepted') = m /\ Len(outgoing') = Len(outgoing) + 1
  BY <1>1 DEF OutShape
<1>3. \A i \in 1 .. Len(accepted') : accepted'[i] = i
  BY <1>1, <1>2 DEF OutShape
<1>4. OutShape'
  BY <1>2, <1>3 DEF OutShape
<1>5. /\ \A i \in 1 .. Len(outgoing) : outgoing'[i] = outgoing[i]
      /\ outgoing'[Len(outgoing) + 1] = m
  BY <1>1 DEF OutShape
<1>6. Len(accepted) \in Nat /\ Len(outgoing) \in Nat /\ Len(written) \in Nat
  BY DEF OutShape
<1>7. phase' = phase /\ cur' = cur /\ written' = written /\ Open' = Open
  BY DEF Open
<1>8. ASSUME Open, NEW i \in 1 .. Len(outgoing')
      PROVE  outgoing'[i] = Len(accepted') - Len(outgoing') + i
  <2>1. CASE i \in 1 .. Len(outgoing)
    BY <1>2, <1>5, <1>6, <1>8, <2>1 DEF OutInPlace
  <2>2. CASE i = Len(outgoing) + 1
    BY <1>2, <1>5, <1>6, <2>2
  <2> QED
    BY <1>2, <1>6, <2>1, <2>2
<1>9. OutInPlace'
  <2> HIDE DEF SendTo
  <2>1. phase' \in {"loop", "deliver"} => Len(written') + Len(outgoing') = Len(accepted')
    BY <1>2, <1>6, <1>7 DEF OutInPlace
  <2>2. phase' = "sending" => /\ cur' = Len(written') + 1
                              /\ Len(written') + 1 + Len(outgoing') = Len(accepted')
    <3> SUFFICES ASSUME phase = "sending"
                 PROVE  /\ cur' = Len(written') + 1
                        /\ Len(written') + 1 + Len(outgoing') = Len(accepted')
      BY <1>7
    <3>1. cur = Len(written) + 1 /\ Len(written) + 1 + Len(outgoing) = Len(accepted)
      BY DEF OutInPlace
    <3>2. cur' = Len(written') + 1
      BY <1>7, <3>1
    <3>3. Len(written') = Len(written)
      BY <1>7
    <3>4. Len(accepted') = Len(accepted) + 1 /\ Len(outgoing') = Len(outgoing) + 1
      BY <1>2
    <3>5. Len(written') + 1 + Len(outgoing') = Len(accepted')
      BY <1>6, <3>1, <3>3, <3>4
    <3> QED
      BY <3>2, <3>5
  <2> QED
    BY <1>7, <1>8, <2>1, <2>2 DEF OutInPlace
<1> QED
  BY <1>4, <1>9

\* The loop takes the message after the last one written.
LEMMA TakeKeepsOrder ==
    ASSUME OutgoingInv, LoopTake
    PROVE  OutgoingInv'
<1> USE TaskAssumption DEF LoopTake, OutgoingInv
<1>1. /\ outgoing' \in Seq(1 .. MaxMsgs) /\ Len(outgoing) \in Nat \ {0}
      /\ Len(outgoing') = Len(outgoing) - 1
      /\ \A i \in 1 .. Len(outgoing') : outgoing'[i] = outgoing[i + 1]
      /\ cur' = outgoing[1]
  BY DEF OutShape
<1>2. OutShape'
  BY <1>1 DEF OutShape, Phases
<1>3. /\ \A i \in 1 .. Len(outgoing) : outgoing[i] = Len(accepted) - Len(outgoing) + i
      /\ Len(written) + Len(outgoing) = Len(accepted)
  BY DEF OutInPlace, Open
<1>4. cur' = Len(written) + 1
  BY <1>1, <1>3 DEF OutShape
<1>5. \A i \in 1 .. Len(outgoing') : outgoing'[i] = Len(accepted) - Len(outgoing') + i
  BY <1>1, <1>3 DEF OutShape
<1>6. OutInPlace'
  BY <1>1, <1>3, <1>4, <1>5 DEF OutShape, OutInPlace, Open
<1> QED
  BY <1>2, <1>6

\* A message that was written is the one after the last.
LEMMA SendDoneKeepsOrder ==
    ASSUME OutgoingInv, SendDone
    PROVE  OutgoingInv'
<1> USE TaskAssumption DEF SendDone, OutgoingInv
<1>1. cur = Len(written) + 1 /\ cur \in 1 .. MaxMsgs
  <2>1. Len(accepted) \in 1 .. MaxMsgs
    <3>1. Len(accepted) \in Nat \ {0}
      BY DEF OutShape, OutInPlace
    <3>2. accepted[Len(accepted)] = Len(accepted) /\ accepted[Len(accepted)] \in 1 .. MaxMsgs
      BY <3>1 DEF OutShape
    <3> QED
      BY <3>2
  <2> QED
    BY <2>1 DEF OutShape, OutInPlace
<1>2. /\ written' \in Seq(1 .. MaxMsgs) /\ Len(written') = Len(written) + 1
      /\ \A i \in 1 .. Len(written') : written'[i] = i
  BY <1>1 DEF OutShape
<1>3. OutShape'
  BY <1>2 DEF OutShape, Phases
<1>4. OutInPlace'
  BY <1>2 DEF OutShape, OutInPlace, Open
<1> QED
  BY <1>3, <1>4

\* No other step touches the channel while the loop runs.
LEMMA RestKeepsOrder ==
    ASSUME OutgoingInv, Next, ~SendTo, ~LoopTake, ~SendDone
    PROVE  OutgoingInv'
<1> USE DEF OutgoingInv, OutShape, OutInPlace, Phases, Open, Leave, outVars, inVars, envVars
<1>1. CASE DropHandle \/ Arrive \/ AppRecv \/ AppDrop \/ Cancel
  BY <1>1 DEF DropHandle, Arrive, AppRecv, AppDrop, Cancel
<1>2. CASE LoopCancelled \/ EncryptError \/ SendError \/ RecvError
  BY <1>2 DEF LoopCancelled, EncryptError, SendError, RecvError, Polled
<1>3. CASE DecodeLength \/ DecodeGarbage \/ DecodeWrongLength
  BY <1>3 DEF DecodeLength, DecodeGarbage, DecodeWrongLength, Polled
<1>4. CASE DecodePayload \/ DecodeOutOfStep \/ DecodeWrongFrame
  BY <1>4 DEF DecodePayload, DecodeOutOfStep, DecodeWrongFrame, Polled
<1>5. CASE Deliver \/ DeliverClosed
  BY <1>5 DEF Deliver, DeliverClosed
<1>6. CASE EndTask
  BY <1>6 DEF EndTask
<1> QED
  BY <1>1, <1>2, <1>3, <1>4, <1>5, <1>6 DEF Next, TaskStep

\* Accepted messages are written, being written or waiting, in this order.
THEOREM OutgoingInvariant == Spec => []OutgoingInv
<1>1. Init => OutgoingInv
  BY DEF Init, OutgoingInv, OutShape, OutInPlace, Phases, Open
<1>2. OutgoingInv /\ [Next]_vars => OutgoingInv'
  <2> SUFFICES ASSUME OutgoingInv, [Next]_vars PROVE OutgoingInv'
    OBVIOUS
  <2>1. CASE UNCHANGED vars
    BY <2>1 DEF vars, OutgoingInv, OutShape, OutInPlace, Open
  <2>2. CASE Next
    BY <2>2, SendToKeepsOrder, TakeKeepsOrder, SendDoneKeepsOrder, RestKeepsOrder
  <2> QED
    BY <2>1, <2>2
<1> QED
  BY <1>1, <1>2, PTL DEF Spec

\* The outgoing direction of a connection is an ordered pipe: what is written to
\* the socket is what send_to accepted, in order and without a gap, also after
\* the handle was dropped, and nothing is written once the loop is left.
THEOREM OutgoingImplementsPipe == Spec => OutgoingInOrder
<1>1. Init => ToPeer!Init
  BY DEF Init, ToPeer!Init, Open
<1>2. OutgoingInv /\ [Next]_vars => [ToPeer!Next]_(ToPeer!pipeVars)
  <2> SUFFICES ASSUME OutgoingInv, [Next]_vars
               PROVE  ToPeer!Next \/ UNCHANGED ToPeer!pipeVars
    OBVIOUS
  <2> USE DEF ToPeer!Next, ToPeer!pipeVars, Open, Leave, outVars, inVars, envVars
  <2>1. CASE UNCHANGED vars
    BY <2>1 DEF vars
  <2>2. CASE SendTo
    <3>1. Len(accepted) + 1 \in 1 .. MaxMsgs
      BY <2>2, TaskAssumption DEF SendTo, OutgoingInv, OutShape
    <3> QED
      BY <2>2, <3>1 DEF SendTo, ToPeer!Put
  <2>3. CASE SendDone
    <3>1. /\ cur = Len(written) + 1 /\ Len(written) < Len(accepted)
          /\ accepted[Len(written) + 1] = cur
      BY <2>3 DEF SendDone, OutgoingInv, OutShape, OutInPlace
    <3> QED
      BY <2>3, <3>1 DEF SendDone, ToPeer!Take
  <2>4. CASE DropHandle \/ Arrive \/ AppRecv \/ AppDrop \/ Cancel
    BY <2>4 DEF DropHandle, Arrive, AppRecv, AppDrop, Cancel
  <2>5. CASE LoopCancelled \/ LoopTake \/ EncryptError \/ SendError \/ RecvError
    BY <2>5 DEF LoopCancelled, LoopTake, EncryptError, SendError, RecvError, Polled, ToPeer!Close
  <2>6. CASE DecodeLength \/ DecodeGarbage \/ DecodeWrongLength
    BY <2>6 DEF DecodeLength, DecodeGarbage, DecodeWrongLength, Polled, ToPeer!Close
  <2>7. CASE DecodePayload \/ DecodeOutOfStep \/ DecodeWrongFrame
    BY <2>7 DEF DecodePayload, DecodeOutOfStep, DecodeWrongFrame, Polled, ToPeer!Close
  <2>8. CASE Deliver \/ DeliverClosed \/ EndTask
    BY <2>8 DEF Deliver, DeliverClosed, EndTask, ToPeer!Close
  <2> QED
    BY <2>1, <2>2, <2>3, <2>4, <2>5, <2>6, <2>7, <2>8 DEF Next, TaskStep
<1> QED
  BY <1>1, <1>2, OutgoingInvariant, PTL DEF Spec, OutgoingInOrder, ToPeer!Spec
=============================================================================
