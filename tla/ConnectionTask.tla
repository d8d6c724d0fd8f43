--------------------------- MODULE ConnectionTask ---------------------------
(***************************************************************************)
(* One connection task of the connection manager, message by message: the  *)
(* select loop of connection_manager.rs over the outgoing channel and the  *)
(* socket, EncryptedConnection::send and recv, and the frame codec under   *)
(* them.  The remote peer is honest and the network delivers its bytes in  *)
(* order.                                                                  *)
(*                                                                         *)
(* Frame k of the remote peer is two tokens of the byte stream: number     *)
(* 2k - 1 is its length prefix, number 2k its encrypted payload.  The      *)
(* future of conn.recv remembers in a local variable which prefix it has   *)
(* read; when another branch of the select wins, the future is dropped and *)
(* that prefix is forgotten while the stream has moved on.  Payload bytes  *)
(* are then read as a length.  The Noise transport decrypts only the frame *)
(* after the last one it decrypted (its nonce counts them).                *)
(***************************************************************************)
EXTENDS Naturals, Sequences

CONSTANTS
    OUTGOING_BUFFER_SIZE,
    MaxMsgs,        \* bound: messages given to send_to
    MaxFrames       \* bound: frames the remote peer sends

ASSUME TaskAssumption ==
    /\ OUTGOING_BUFFER_SIZE \in Nat \ {0}
    /\ MaxMsgs \in Nat
    /\ MaxFrames \in Nat

VARIABLES
    phase,          \* "loop", "sending", "deliver", "closing" or "ended"
    cur,            \* the message being written, or the frame being handed on
    outgoing,       \* the outgoing channel
    accepted,       \* history: messages send_to returned Ok for
    written,        \* history: messages conn.send has written
    emitted,        \* tokens of the stream the remote peer has sent
    consumed,       \* tokens read from the stream
    prefix,         \* conn.recv has read the length of this frame (0: of none,
                    \* Wrong: a length that is no frame's)
    incoming,       \* the incoming channel
    handed,         \* history: frames put into the incoming channel
    handle,         \* active_connections still holds the outgoing sender
    receiver,       \* the caller still holds the incoming receiver
    cancelled,
    reason,         \* why the loop was left
    interrupted     \* history: a recv was dropped between prefix and payload

outVars == <<outgoing, accepted, written>>
inVars == <<emitted, consumed, prefix, incoming, handed>>
envVars == <<handle, receiver, cancelled>>
vars == <<phase, cur, outgoing, accepted, written, emitted, consumed, prefix,
          incoming, handed, handle, receiver, cancelled, reason, interrupted>>

Wrong == MaxFrames + 1

\* The state in which the task enters its loop, the handle just stored.
Init ==
    /\ phase = "loop" /\ cur = 0 /\ reason = "none" /\ interrupted = FALSE
    /\ outgoing = <<>> /\ accepted = <<>> /\ written = <<>>
    /\ emitted = 0 /\ consumed = 0 /\ prefix = 0
    /\ incoming = <<>> /\ handed = <<>>
    /\ handle = TRUE /\ receiver = TRUE /\ cancelled = FALSE

Leave(why) ==
    /\ phase' = "closing"
    /\ reason' = why
    /\ cur' = 0

-----------------------------------------------------------------------------
(* What the others do: senders, the remote peer, the receiver's holder.    *)

\* send_to while the manager has the handle and the channel has room
SendTo ==
    /\ handle /\ phase # "ended"
    /\ Len(outgoing) < OUTGOING_BUFFER_SIZE /\ Len(accepted) < MaxMsgs
    /\ LET m == Len(accepted) + 1 IN
        /\ outgoing' = Append(outgoing, m)
        /\ accepted' = Append(accepted, m)
    /\ UNCHANGED <<phase, cur, written, inVars, envVars, reason, interrupted>>

\* disconnect, or a second task for the same peer, drops the handle.
DropHandle ==
    /\ handle
    /\ handle' = FALSE
    /\ UNCHANGED <<phase, cur, outVars, inVars, receiver, cancelled, reason, interrupted>>

\* The next token of the remote peer's stream arrives: prefix and payload of
\* one frame need not arrive together.
Arrive ==
    /\ emitted < 2 * MaxFrames
    /\ emitted' = emitted + 1
    /\ UNCHANGED <<phase, cur, outVars, consumed, prefix, incoming, handed, envVars,
                   reason, interrupted>>

AppRecv ==
    /\ receiver /\ incoming # <<>>
    /\ incoming' = Tail(incoming)
    /\ UNCHANGED <<phase, cur, outVars, emitted, consumed, prefix, handed, envVars,
                   reason, interrupted>>

AppDrop ==
    /\ receiver
    /\ receiver' = FALSE
    /\ incoming' = <<>>
    /\ UNCHANGED <<phase, cur, outVars, emitted, consumed, prefix, handed, handle,
                   cancelled, reason, interrupted>>

Cancel ==
    /\ ~cancelled
    /\ cancelled' = TRUE
    /\ UNCHANGED <<phase, cur, outVars, inVars, handle, receiver, reason, interrupted>>

-----------------------------------------------------------------------------
(* The select loop.  It is biased: a branch is taken only when the ones    *)
(* above it are not ready.                                                 *)

LoopCancelled ==
    /\ phase = "loop" /\ cancelled
    /\ Leave("cancelled")
    /\ UNCHANGED <<outVars, inVars, envVars, interrupted>>

\* The outgoing branch wins: the pending recv future is dropped, with the
\* length and with as much of a wrong frame as it has read.
LoopTake ==
    /\ phase = "loop" /\ ~cancelled /\ outgoing # <<>>
    /\ phase' = "sending"
    /\ cur' = Head(outgoing)
    /\ outgoing' = Tail(outgoing)
    /\ prefix' = 0
    /\ consumed' \in IF prefix = Wrong THEN consumed .. emitted ELSE {consumed}
    /\ interrupted' = (interrupted \/ prefix # 0)
    /\ UNCHANGED <<accepted, written, emitted, incoming, handed, envVars, reason>>

SendDone ==
    /\ phase = "sending"
    /\ written' = Append(written, cur)
    /\ phase' = "loop" /\ cur' = 0
    /\ UNCHANGED <<outgoing, accepted, inVars, envVars, reason, interrupted>>

\* Transport::encrypt refuses a plaintext over its limit, after the message was
\* taken from the channel: the connection ends.
EncryptError ==
    /\ phase = "sending"
    /\ Leave("encrypt failed")
    /\ UNCHANGED <<outVars, inVars, envVars, interrupted>>

\* Mutant: a failed send is logged and the loop goes on.
SendErrorIgnored ==
    /\ phase = "sending"
    /\ phase' = "loop" /\ cur' = 0
    /\ UNCHANGED <<outVars, inVars, envVars, reason, interrupted>>

SendError ==
    /\ phase = "sending"
    /\ Leave("send failed")
    /\ UNCHANGED <<outVars, inVars, envVars, interrupted>>

\* Mutant: the loop stops reading once the outgoing channel is closed.
PolledWithHandle == phase = "loop" /\ ~cancelled /\ outgoing = <<>> /\ handle

\* recv is polled: neither cancellation nor an outgoing message is ready.
Polled == phase = "loop" /\ ~cancelled /\ outgoing = <<>>

\* Mutant: the length is read and not kept.
DecodeLengthForgotten ==
    /\ Polled /\ prefix = 0 /\ consumed < emitted
    /\ consumed % 2 = 0
    /\ consumed' = consumed + 1
    /\ UNCHANGED <<phase, cur, outVars, emitted, prefix, incoming, handed, envVars,
                   reason, interrupted>>

\* decode reads four bytes that are a length prefix.
DecodeLength ==
    /\ Polled /\ prefix = 0 /\ consumed < emitted
    /\ consumed % 2 = 0
    /\ consumed' = consumed + 1
    /\ prefix' = consumed \div 2 + 1
    /\ UNCHANGED <<phase, cur, outVars, emitted, incoming, handed, envVars, reason,
                   interrupted>>

\* decode reads payload bytes as a length: FrameTooLarge ...
DecodeGarbage ==
    /\ Polled /\ prefix = 0 /\ consumed < emitted
    /\ consumed % 2 = 1
    /\ consumed' = consumed + 1
    /\ Leave("framing")
    /\ UNCHANGED <<outVars, emitted, prefix, incoming, handed, envVars, interrupted>>

\* ... or they happen to be a length that is allowed.
DecodeWrongLength ==
    /\ Polled /\ prefix = 0 /\ consumed < emitted
    /\ consumed % 2 = 1
    /\ consumed' = consumed + 1
    /\ prefix' = Wrong
    /\ UNCHANGED <<phase, cur, outVars, emitted, incoming, handed, envVars, reason,
                   interrupted>>

\* As many bytes as the wrong length asks for have arrived; they do not decrypt.
DecodeWrongFrame ==
    /\ Polled /\ prefix = Wrong /\ consumed < emitted
    /\ consumed' \in consumed + 1 .. emitted
    /\ Leave("framing")
    /\ UNCHANGED <<outVars, emitted, prefix, incoming, handed, envVars, interrupted>>

\* The frame that the transport's nonce stands at.
Expected == Len(handed) + 1

\* Mutant: the transport decrypts any frame of the peer.
DecodePayloadAnyNonce ==
    /\ Polled /\ prefix \in 1 .. MaxFrames /\ consumed < emitted
    /\ consumed' = consumed + 1
    /\ prefix' = 0
    /\ phase' = "deliver" /\ cur' = prefix
    /\ UNCHANGED <<outVars, emitted, incoming, handed, envVars, reason, interrupted>>

\* decode reads the payload of the frame whose length it has; it decrypts.
DecodePayload ==
    /\ Polled /\ prefix = Expected /\ consumed < emitted
    /\ consumed' = consumed + 1
    /\ prefix' = 0
    /\ phase' = "deliver" /\ cur' = prefix
    /\ UNCHANGED <<outVars, emitted, incoming, handed, envVars, reason, interrupted>>

\* The stream is in step again but frames were lost: the nonce does not fit.
DecodeOutOfStep ==
    /\ Polled /\ prefix \in 1 .. MaxFrames \ {Expected} /\ consumed < emitted
    /\ consumed' = consumed + 1
    /\ Leave("framing")
    /\ UNCHANGED <<outVars, emitted, prefix, incoming, handed, envVars, interrupted>>

\* The stream ends or the socket fails.
RecvError ==
    /\ Polled
    /\ Leave("socket")
    /\ UNCHANGED <<outVars, inVars, envVars, interrupted>>

Deliver ==
    /\ phase = "deliver" /\ receiver
    /\ Len(incoming) < OUTGOING_BUFFER_SIZE
    /\ incoming' = Append(incoming, cur)
    /\ handed' = Append(handed, cur)
    /\ phase' = "loop" /\ cur' = 0
    /\ UNCHANGED <<outVars, emitted, consumed, prefix, envVars, reason, interrupted>>

DeliverClosed ==
    /\ phase = "deliver" /\ ~receiver
    /\ Leave("receiver gone")
    /\ UNCHANGED <<outVars, inVars, envVars, interrupted>>

\* conn.close, active.remove and the end of the task: the channel and what
\* is still in it are dropped.
EndTask ==
    /\ phase = "closing"
    /\ phase' = "ended"
    /\ handle' = FALSE
    /\ outgoing' = <<>>
    /\ UNCHANGED <<cur, accepted, written, inVars, receiver, cancelled, reason, interrupted>>

-----------------------------------------------------------------------------
TaskStep ==
    \/ LoopCancelled \/ LoopTake
    \/ DecodeLength \/ DecodeGarbage \/ DecodePayload \/ DecodeOutOfStep
    \/ Deliver \/ DeliverClosed
    \/ EndTask

Next ==
    \/ SendTo \/ DropHandle \/ Arrive \/ AppRecv \/ AppDrop \/ Cancel
    \/ TaskStep
    \/ SendDone \/ EncryptError \/ SendError \/ RecvError
    \/ DecodeWrongLength \/ DecodeWrongFrame

\* tokio polls the task whenever a branch of its select is ready.
Spec == Init /\ [][Next]_vars /\ WF_vars(TaskStep)

-----------------------------------------------------------------------------
(* Properties.                                                             *)

Open == phase \notin {"closing", "ended"}
FramesSent == [k \in 1 .. emitted \div 2 |-> k]

FromPeer == INSTANCE OrderedPipe
            WITH Data <- 1 .. MaxFrames, sent <- FramesSent, got <- handed, open <- Open
ToPeer == INSTANCE OrderedPipe
          WITH Data <- 1 .. MaxMsgs, sent <- accepted, got <- written, open <- Open

\* The frames put into the incoming channel are the remote peer's frames in
\* order and without a gap, and none follows once the loop is left: a recv
\* dropped in the middle of a frame never leads to a skipped frame, because
\* nothing that is read after it decrypts.
IncomingInOrder == FromPeer!Spec

\* The messages written to the socket are those send_to accepted, in order
\* and without a gap, also after the handle was dropped.
OutgoingInOrder == ToPeer!Spec

\* On an honest stream decoding fails only after an outgoing message has
\* interrupted a recv between the length prefix and the payload.
FramingNeedsInterruption == reason = "framing" => interrupted

\* A frame that has fully arrived reaches the incoming channel, unless the
\* connection ends, waits for the peer to read or for the receiver's holder, or
\* an interrupted recv has lost its place in the stream.
ArrivedFrameHandedOn ==
    \A k \in 1 .. MaxFrames :
        emitted >= 2 * k ~>
            \/ Len(handed) >= k
            \/ phase = "ended"
            \/ phase = "sending"
            \/ phase = "deliver" /\ Len(incoming) = OUTGOING_BUFFER_SIZE
            \/ interrupted

=============================================================================
