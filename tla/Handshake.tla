----------------------------- MODULE Handshake ------------------------------
(***************************************************************************)
(* The two-message handshake between TcpClient::connect and the tasks of   *)
(* TcpServer::run.  Each side runs under its own timeout and cancellation  *)
(* token; the tasks of the server first queue for a permit.  A session is  *)
(* one TCP connection with an initiator and, once accepted, a responder.   *)
(*                                                                         *)
(* Whether a payload passes verification is an input (NonceCache follows   *)
(* that check), and so is the answer of the server's validator.  A peer    *)
(* may vanish, and then its end of the connection is never closed.         *)
(***************************************************************************)
EXTENDS Naturals, Sequences, FiniteSets

CONSTANTS
    Sessions,
    PERMITS         \* permits of handshake_sem

ASSUME HandshakeAssumption ==
    /\ IsFiniteSet(Sessions)
    /\ PERMITS \in Nat \ {0}

VARIABLES
    ini,            \* where the initiator is, or how it ended
    token,          \* the cancellation token of the initiator
    msg1, msg2,     \* whether the whole message is in the stream
    iniNoise,       \* how far the NoiseHandshake of each end has got; a
    resNoise,       \* handshake that fails is dropped
    res,            \* where the responder is, or how it ended
    verified,       \* verified_remote of the responder's NoiseHandshake
    queue,          \* tasks that wait in handshake_sem, first come first
    srv,            \* the accept loop
    srvToken        \* its cancellation token, shared by all its tasks

iniVars == <<ini, token, msg1, iniNoise>>
resVars == <<res, msg2, verified, resNoise, queue>>
vars == <<iniVars, resVars, srv, srvToken>>

Failures == {"timeout", "cancelled", "refused", "closed", "reset", "vanished"}
Sending == {"send", "recv"}
Holding == {"read", "answer"}
NoiseStates == {"none", "start", "half", "finished"}

Init ==
    /\ ini = [s \in Sessions |-> "idle"] /\ token = [s \in Sessions |-> FALSE]
    /\ res = [s \in Sessions |-> "none"] /\ verified = [s \in Sessions |-> FALSE]
    /\ msg1 = [s \in Sessions |-> FALSE] /\ msg2 = [s \in Sessions |-> FALSE]
    /\ iniNoise = [s \in Sessions |-> "none"] /\ resNoise = [s \in Sessions |-> "none"]
    /\ queue = <<>>
    /\ srv = "running" /\ srvToken = FALSE

IniEnded(s) == ini[s] \in Failures \cup {"done", "unreachable"}
ResEnded(s) == res[s] \in Failures \cup {"done", "rejected"}

\* Sessions whose task holds a permit.
Holders == {s \in Sessions : res[s] \in Holding}

-----------------------------------------------------------------------------
(* NoiseHandshake: the pattern KK has two messages, the first from the     *)
(* initiator.  A failed read leaves the state as it was.                   *)

NewInitiator(s) == iniNoise' = [iniNoise EXCEPT ![s] = "start"]
NewResponder(s) == resNoise' = [resNoise EXCEPT ![s] = "start"]

WriteMessage(n) == IF n = "start" THEN "half" ELSE "finished"
ReadMessage(n) == IF n = "start" THEN "half" ELSE "finished"

IsComplete(n) == n = "finished"

\* into_transport takes a complete handshake with a verified remote identity.
IntoTransport(n, verifiedRemote) == IsComplete(n) /\ verifiedRemote

-----------------------------------------------------------------------------
(* TcpClient::connect and run_initiator_handshake.                         *)

IniMove(s, to) ==
    /\ ini' = [ini EXCEPT ![s] = to]
    /\ UNCHANGED <<token, resVars, srv, srvToken>>

\* The system accepts connections for the listener; the token is not polled.
TcpConnect(s) ==
    /\ ini[s] = "idle" /\ srv = "running"
    /\ IniMove(s, "send")
    /\ NewInitiator(s)
    /\ UNCHANGED msg1

\* ConnectionTimeout or ConnectionFailed.
TcpConnectError(s) ==
    /\ ini[s] = "idle"
    /\ IniMove(s, "unreachable")
    /\ UNCHANGED <<msg1, iniNoise>>

IniSend(s) ==
    /\ ini[s] = "send" /\ ~token[s]
    /\ IniMove(s, "recv")
    /\ iniNoise' = [iniNoise EXCEPT ![s] = WriteMessage(@)]
    /\ msg1' = [msg1 EXCEPT ![s] = TRUE]

\* The answer is read and its payload verified, or one of the two is refused.
IniRecv(s) ==
    /\ ini[s] = "recv" /\ ~token[s] /\ msg2[s]
    /\ \E read, ok \in BOOLEAN :
         IF read /\ IntoTransport(ReadMessage(iniNoise[s]), ok)
         THEN IniMove(s, "done") /\ iniNoise' = [iniNoise EXCEPT ![s] = ReadMessage(@)]
         ELSE IniMove(s, "refused") /\ iniNoise' = [iniNoise EXCEPT ![s] = "none"]
    /\ UNCHANGED msg1

\* The future is dropped or fails at an await; a message being sent may have
\* left as a whole.
IniAbort(s, why) ==
    /\ ini[s] \in Sending
    /\ IniMove(s, why)
    /\ \E left \in {msg1[s], TRUE} : msg1' = [msg1 EXCEPT ![s] = left]
    /\ iniNoise' = [iniNoise EXCEPT ![s] = "none"]

\* Every poll looks at the token first.
IniCancelled(s) == token[s] /\ IniAbort(s, "cancelled")

\* Mutant: no timeout around the handshake.
IniTimeoutNever(s) == FALSE /\ IniAbort(s, "timeout")

IniTimeout(s) == ~token[s] /\ IniAbort(s, "timeout")

IniReset(s) == ~token[s] /\ IniAbort(s, "reset")

\* The other end is closed, or the listener went away before it accepted.
IniClosed(s) ==
    /\ ~token[s] /\ ~msg2[s]
    /\ \/ ResEnded(s) /\ res[s] # "vanished"
       \/ res[s] = "none" /\ srv \in {"stopped", "failed"}
    /\ IniAbort(s, "closed")

IniVanish(s) == IniAbort(s, "vanished")

\* Cancelling a call that has returned changes nothing.
CancelInitiator(s) ==
    /\ ~IniEnded(s)
    /\ token' = [token EXCEPT ![s] = TRUE]
    /\ UNCHANGED <<ini, msg1, iniNoise, resVars, srv, srvToken>>

-----------------------------------------------------------------------------
(* TcpServer::run.                                                         *)

\* A task is spawned for the connection; it asks for a permit at once.
Accept(s) ==
    /\ srv = "running" /\ ~srvToken
    /\ ini[s] \notin {"idle", "unreachable"} /\ res[s] = "none"
    /\ res' = [res EXCEPT ![s] = "queued"]
    /\ queue' = Append(queue, s)
    /\ UNCHANGED <<iniVars, msg2, verified, resNoise, srv, srvToken>>

\* AcceptFailed ends the loop; the tasks go on.
AcceptError ==
    /\ srv = "running" /\ ~srvToken
    /\ srv' = "failed"
    /\ UNCHANGED <<iniVars, resVars, srvToken>>

SrvStop ==
    /\ srv = "running" /\ srvToken
    /\ srv' = "stopped"
    /\ UNCHANGED <<iniVars, resVars, srvToken>>

CancelServer ==
    /\ srvToken' = TRUE
    /\ UNCHANGED <<iniVars, resVars, srv>>

\* The process of the server is gone with all its tasks; answers may have left.
SrvVanish ==
    /\ srv # "vanished"
    /\ srv' = "vanished"
    /\ res' = [s \in Sessions |->
                IF res[s] \in Holding \cup {"queued"} THEN "vanished" ELSE res[s]]
    /\ \E left \in SUBSET {s \in Sessions : res[s] = "answer"} :
            msg2' = [s \in Sessions |-> msg2[s] \/ s \in left]
    /\ queue' = <<>>
    /\ resNoise' = [s \in Sessions |-> IF res[s] \in Holding THEN "none" ELSE resNoise[s]]
    /\ UNCHANGED <<iniVars, verified, srvToken>>

\* A permit is free for the first task in the queue, which makes a responder
\* of the Noise pattern.  Neither the token nor a
\* timeout ends the wait.
Acquire(s) ==
    /\ res[s] = "queued" /\ Head(queue) = s
    /\ Cardinality(Holders) < PERMITS
    /\ res' = [res EXCEPT ![s] = "read"]
    /\ queue' = Tail(queue)
    /\ NewResponder(s)
    /\ UNCHANGED <<iniVars, msg2, verified, srv, srvToken>>

-----------------------------------------------------------------------------
(* handle_connection and run_responder_handshake.  Ending a task, with or  *)
(* without success, releases the permit and drops the stream: the value of *)
(* handle_connection is not kept.                                          *)

ResMove(s, to) ==
    /\ res' = [res EXCEPT ![s] = to]
    /\ UNCHANGED <<iniVars, queue, srv, srvToken>>

\* Mutant: a payload that was refused is answered all the same.
ResRecvUnverified(s) ==
    /\ res[s] = "read" /\ ~srvToken /\ msg1[s]
    /\ ResMove(s, "answer")
    /\ \E ok \in BOOLEAN : verified' = [verified EXCEPT ![s] = ok]
    /\ resNoise' = [resNoise EXCEPT ![s] = WriteMessage(ReadMessage(@))]
    /\ UNCHANGED msg2

\* The message is read, its payload verified and the answer written, without an
\* await between; or the message or its payload is refused.
ResRecv(s) ==
    /\ res[s] = "read" /\ ~srvToken /\ msg1[s]
    /\ \/ /\ ResMove(s, "answer") /\ verified' = [verified EXCEPT ![s] = TRUE]
          /\ resNoise' = [resNoise EXCEPT ![s] = WriteMessage(ReadMessage(@))]
       \/ /\ ResMove(s, "refused") /\ UNCHANGED verified
          /\ resNoise' = [resNoise EXCEPT ![s] = "none"]
    /\ UNCHANGED msg2

\* Mutant: the stream is dropped before the answer was flushed.
ResSendUnflushed(s) ==
    /\ res[s] = "answer" /\ ~srvToken
    /\ ResMove(s, "done") \/ ResMove(s, "rejected")
    /\ UNCHANGED <<msg2, verified, resNoise>>

\* The answer is sent, the handshake turned into a transport, and then the
\* validator asked.
ResSend(s) ==
    /\ res[s] = "answer" /\ ~srvToken
    /\ IF IntoTransport(resNoise[s], verified[s])
       THEN (ResMove(s, "done") \/ ResMove(s, "rejected")) /\ UNCHANGED resNoise
       ELSE ResMove(s, "refused") /\ resNoise' = [resNoise EXCEPT ![s] = "none"]
    /\ msg2' = [msg2 EXCEPT ![s] = TRUE]
    /\ UNCHANGED verified

ResAbort(s, why) ==
    /\ res[s] \in Holding
    /\ ResMove(s, why)
    /\ \E left \in {msg2[s], res[s] = "answer"} : msg2' = [msg2 EXCEPT ![s] = left]
    /\ resNoise' = [resNoise EXCEPT ![s] = "none"]
    /\ UNCHANGED verified

\* Mutant: the token is looked at only before the first message.
ResCancelledEarly(s) == srvToken /\ res[s] = "read" /\ ResAbort(s, "cancelled")

ResCancelled(s) == srvToken /\ ResAbort(s, "cancelled")

\* Mutant: no timeout around the handshake.
ResTimeoutNever(s) == FALSE /\ ResAbort(s, "timeout")

ResTimeout(s) == ~srvToken /\ ResAbort(s, "timeout")

ResReset(s) == ~srvToken /\ ResAbort(s, "reset")

\* The other end is closed, and the message is not coming.
ResClosed(s) ==
    /\ ~srvToken
    /\ res[s] = "read" /\ ~msg1[s] /\ IniEnded(s) /\ ini[s] # "vanished"
    /\ ResAbort(s, "closed")

-----------------------------------------------------------------------------

IniStep(s) == IniSend(s) \/ IniRecv(s) \/ IniCancelled(s) \/ IniTimeout(s) \/ IniClosed(s)
ResStep(s) == ResRecv(s) \/ ResSend(s) \/ ResCancelled(s) \/ ResTimeout(s) \/ ResClosed(s)

Next ==
    \/ \E s \in Sessions :
        \/ TcpConnect(s) \/ TcpConnectError(s) \/ IniStep(s) \/ IniReset(s) \/ IniVanish(s)
        \/ CancelInitiator(s)
        \/ Accept(s) \/ Acquire(s) \/ ResStep(s) \/ ResReset(s)
    \/ AcceptError \/ SrvStop \/ CancelServer \/ SrvVanish

\* tokio polls ready tasks and fires timers; nothing is assumed of callers, of
\* the accept loop or of the peer at the other end.
Fairness ==
    \A s \in Sessions : WF_vars(IniStep(s)) /\ WF_vars(Acquire(s)) /\ WF_vars(ResStep(s))

Spec == Init /\ [][Next]_vars /\ Fairness

-----------------------------------------------------------------------------
(* Properties.                                                             *)

\* An initiator that has a session was verified by the responder of this very
\* connection, which has been sent its message; and a responder whose answer is
\* on its way never fails in into_transport, which would leave the initiator
\* with a session alone.
SessionIsMutual ==
    /\ \A s \in Sessions : ini[s] = "done" => verified[s] /\ msg1[s]
    /\ \A s \in Sessions : res[s] = "answer" => IntoTransport(resNoise[s], verified[s])

\* The two ends disagree about the session only because of a timeout, a
\* cancellation, the network, a crash, or a check that came after the last
\* message: never because one end merely found the other one closed.
HalfOpenHasCause ==
    \A s \in Sessions :
        /\ ini[s] = "done" => res[s] \notin {"none", "queued", "read", "refused", "closed"}
        /\ res[s] = "done" => ini[s] \notin {"closed", "unreachable"}

\* An accepted connection does not wait for a permit for ever, whatever the
\* peers of the handshakes before it do.
PermitGranted == \A s \in Sessions : res[s] = "queued" ~> res[s] # "queued"

\* connect returns, whatever the server does.
ConnectEnds == \A s \in Sessions : ini[s] = "send" ~> IniEnded(s)

\* After cancellation every task of the server ends, the waiting ones too.
ServerDrains == srvToken ~> \A s \in Sessions : ResEnded(s) \/ res[s] = "none"
=============================================================================
