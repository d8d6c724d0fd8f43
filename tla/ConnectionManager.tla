-------------------------- MODULE ConnectionManager --------------------------
(***************************************************************************)
(* The connection manager of crates/networking/src/tcp/connection_manager. *)
(* A caller's connect_to_peer runs four checks, each on shared state that  *)
(* other threads may change in between, spawns a connection task and       *)
(* returns; the task dials, stores its handle in active_connections, runs  *)
(* the send/receive loop and removes the handle again.  One element of     *)
(* Calls stands for one connect_to_peer call and for the task it spawns.   *)
(*                                                                         *)
(* Messages are not told apart here (ConnectionTask follows their          *)
(* contents): the outgoing channel is the number of messages in it.        *)
(* DashMap locks a whole shard: send_to holds the shard's read guard while *)
(* it awaits room in the channel, and insert and remove need the shard     *)
(* exclusively.                                                            *)
(***************************************************************************)
EXTENDS Integers, FiniteSets

CONSTANTS
    Peers,                  \* fingerprints
    Trusts, Leaves,         \* those trust_peer and disconnect are called for
    Calls,                  \* connect_to_peer calls, each with its task
    Dials,                  \* the fingerprints a call may be made for
    Senders,                \* concurrent callers of send_to
    Adders,                 \* concurrent callers of add_peer
    Sees,                   \* the fingerprints a caller of add_peer reports
    StoredTrust,            \* what trust_store.list_trusted returns
    ShardOf,                \* the DashMap shard a fingerprint hashes to
    MAX_PEERS,
    MAX_ACTIVE_CONNECTIONS,
    OUTGOING_BUFFER_SIZE,
    None

ASSUME ConstantsAssumption ==
    /\ IsFiniteSet(Peers) /\ IsFiniteSet(Calls) /\ IsFiniteSet(Adders)
    /\ None \notin Peers \cup Calls
    /\ Trusts \subseteq Peers /\ Leaves \subseteq Peers /\ StoredTrust \subseteq Peers
    /\ Dials \in [Calls -> SUBSET Peers]
    /\ Adders # {} /\ Sees \in [Adders -> SUBSET Peers]
    /\ MAX_PEERS \in Nat \ {0}
    /\ MAX_ACTIVE_CONNECTIONS \in Nat \ {0}
    /\ OUTGOING_BUFFER_SIZE \in Nat \ {0}

VARIABLES
    peers,          \* keys of the peers map
    adding,         \* add_peer between its limit check and its insert
    trusted,        \* trusted_peers
    trustLoad,      \* the task that loads the trust store: "pending" or "done"
    active,         \* active_connections: fingerprint -> the call owning the handle
    phase,          \* where a call, then its task, stands
    peerOf,         \* the fingerprint a call was made for
    outq,           \* messages buffered in the outgoing channel
    sender,         \* send_to: the fingerprint whose guard the sender holds
    leaving,        \* fingerprints of the disconnect calls that wait for a shard
    cancelled,      \* the cancellation token
    peak            \* history: most tasks ever between limit check and insert

peerVars == <<peers, adding, trusted, trustLoad>>
callerVars == <<sender, leaving>>
vars == <<peers, adding, trusted, trustLoad, active, phase, peerOf, outq,
          sender, leaving, cancelled, peak>>

\* The task owns a connection: it is in the loop or on its way out of it.
Live == {"loop", "sending", "deliver", "closing", "removing"}
\* The task has passed the limit check and has stored no handle yet.
InFlight == {"dialing", "insert"}
Checking == {"lookup", "trust", "limit"}
Phases == {"unused", "rejected", "ended"} \cup Checking \cup InFlight \cup Live

Connected == {p \in Peers : active[p] # None}
Pending == {c \in Calls : phase[c] \in InFlight}

Init ==
    /\ peers = {} /\ adding = [a \in Adders |-> None]
    /\ trusted = {} /\ trustLoad = "pending"
    /\ active = [p \in Peers |-> None]
    /\ phase = [c \in Calls |-> "unused"]
    /\ peerOf = [c \in Calls |-> None]
    /\ outq = [c \in Calls |-> 0]
    /\ sender = [s \in Senders |-> None] /\ leaving = {}
    /\ cancelled = FALSE
    /\ peak = 0

-----------------------------------------------------------------------------
(* The peer table and the allowlist.                                       *)

\* Mutant: the limit check is off by one.
AddPeerCheckOffByOne(a, p) ==
    /\ adding[a] = None
    /\ Cardinality(peers) <= MAX_PEERS \/ p \in peers
    /\ adding' = [adding EXCEPT ![a] = p]
    /\ UNCHANGED <<peers, trusted, trustLoad, active, phase, peerOf, outq,
                   callerVars, cancelled, peak>>

\* add_peer reads len() and contains_key() first ...
AddPeerCheck(a, p) ==
    /\ adding[a] = None
    /\ Cardinality(peers) < MAX_PEERS \/ p \in peers
    /\ adding' = [adding EXCEPT ![a] = p]
    /\ UNCHANGED <<peers, trusted, trustLoad, active, phase, peerOf, outq,
                   callerVars, cancelled, peak>>

\* ... and inserts afterwards, without holding anything in between.
AddPeerInsert(a) ==
    /\ adding[a] # None
    /\ peers' = peers \cup {adding[a]}
    /\ adding' = [adding EXCEPT ![a] = None]
    /\ UNCHANGED <<trusted, trustLoad, active, phase, peerOf, outq,
                   callerVars, cancelled, peak>>

\* The background ticker: any peers may be the ones not seen for 5 minutes.
\* Connections are left alone.
cleanup_stale ==
    /\ ~cancelled
    /\ \E stale \in (SUBSET peers) \ {{}} : peers' = peers \ stale
    /\ UNCHANGED <<adding, trusted, trustLoad, active, phase, peerOf, outq,
                   callerVars, cancelled, peak>>

\* The task spawned by new(): a failing list_trusted leaves the set as it is.
LoadTrusted ==
    /\ trustLoad = "pending"
    /\ trustLoad' = "done"
    /\ trusted' \in {trusted, trusted \cup StoredTrust}
    /\ UNCHANGED <<peers, adding, active, phase, peerOf, outq, callerVars,
                   cancelled, peak>>

trust_peer(p) ==
    /\ trusted' = trusted \cup {p}
    /\ UNCHANGED <<peers, adding, trustLoad, active, phase, peerOf, outq,
                   callerVars, cancelled, peak>>

-----------------------------------------------------------------------------
(* connect_to_peer: each check reads shared state in a step of its own.    *)

\* A check of call c: continue in phase `next' when it passes, else return Err.
Check(c, now, passes, next) ==
    /\ phase[c] = now
    /\ phase' = [phase EXCEPT ![c] = IF passes THEN next ELSE "rejected"]
    /\ UNCHANGED <<peerVars, active, outq, callerVars, cancelled>>

\* AlreadyConnected
ConnectCheckActive(c, p) ==
    /\ Check(c, "unused", active[p] = None, "lookup")
    /\ peerOf' = [peerOf EXCEPT ![c] = p]
    /\ UNCHANGED peak

\* PeerNotFound
ConnectLookup(c) ==
    /\ Check(c, "lookup", peerOf[c] \in peers, "trust")
    /\ UNCHANGED <<peerOf, peak>>

\* Mutant: the trust check is left to the handshake.
ConnectCheckTrustedSkipped(c) ==
    /\ Check(c, "trust", TRUE, "limit")
    /\ UNCHANGED <<peerOf, peak>>

\* PeerNotTrusted, after awaiting the read lock
ConnectCheckTrusted(c) ==
    /\ Check(c, "trust", peerOf[c] \in trusted, "limit")
    /\ UNCHANGED <<peerOf, peak>>

\* Mutant: the limit check is off by one.
ConnectSpawnOffByOne(c) ==
    /\ Check(c, "limit", Cardinality(Connected) <= MAX_ACTIVE_CONNECTIONS, "dialing")
    /\ peak' = IF Cardinality(Pending') > peak THEN Cardinality(Pending') ELSE peak
    /\ UNCHANGED peerOf

\* ConnectionLimitExceeded; otherwise the channels are made, the task is
\* spawned and the call returns the incoming receiver.
ConnectSpawn(c) ==
    /\ Check(c, "limit", Cardinality(Connected) < MAX_ACTIVE_CONNECTIONS, "dialing")
    /\ peak' = IF Cardinality(Pending') > peak THEN Cardinality(Pending') ELSE peak
    /\ UNCHANGED peerOf

-----------------------------------------------------------------------------
(* The connection task.                                                    *)

\* No send_to holds a read guard on the shard of p.
ShardFree(p) ==
    \A s \in Senders : sender[s] # None => ShardOf[sender[s]] # ShardOf[p]

\* The task moves on and touches nothing that others can see.
Move(c, from, to) ==
    /\ phase[c] = from
    /\ phase' = [phase EXCEPT ![c] = to]
    /\ UNCHANGED <<peerVars, active, peerOf, callerVars, cancelled, peak>>

\* TcpClient::connect succeeds.  Its handshake polls the token before
\* anything else, so it does not succeed once the token is cancelled.
DialOk(c) ==
    /\ ~cancelled
    /\ Move(c, "dialing", "insert")
    /\ UNCHANGED outq

\* No X25519 key, a timeout, a refused or cancelled handshake: only logged.
\* The task ends and drops its ends of both channels.
DialFail(c) ==
    /\ Move(c, "dialing", "ended")
    /\ UNCHANGED outq

\* active.insert: replaces whatever handle is there.
InsertHandle(c) ==
    /\ phase[c] = "insert"
    /\ ShardFree(peerOf[c])
    /\ active' = [active EXCEPT ![peerOf[c]] = c]
    /\ phase' = [phase EXCEPT ![c] = "loop"]
    /\ UNCHANGED <<peerVars, peerOf, outq, callerVars, cancelled, peak>>

\* Mutant: the loop leaves only once the outgoing channel is drained.
LoopCancelledWhenDrained(c) ==
    /\ cancelled /\ outq[c] = 0
    /\ Move(c, "loop", "closing")
    /\ UNCHANGED outq

\* The select is biased: cancellation first, then outgoing, then the socket.
LoopCancelled(c) ==
    /\ cancelled
    /\ Move(c, "loop", "closing")
    /\ UNCHANGED outq

\* Some(msg) = outgoing_rx.recv(): buffered messages come out even after the
\* handle was dropped.  On a closed, drained channel recv() yields None, which
\* only disables the branch.
LoopTake(c) ==
    /\ ~cancelled /\ outq[c] > 0
    /\ Move(c, "loop", "sending")
    /\ outq' = [outq EXCEPT ![c] = @ - 1]

\* conn.send has no timeout and is not part of the select: it ends when the
\* peer reads or the socket fails.
SendDone(c) == Move(c, "sending", "loop") /\ UNCHANGED outq
SendError(c) == Move(c, "sending", "closing") /\ UNCHANGED outq

\* conn.recv yields a message, or an error, while nothing else is ready.
LoopRecv(c) ==
    /\ ~cancelled /\ outq[c] = 0
    /\ Move(c, "loop", "deliver")
    /\ UNCHANGED outq

LoopRecvError(c) ==
    /\ ~cancelled /\ outq[c] = 0
    /\ Move(c, "loop", "closing")
    /\ UNCHANGED outq

\* incoming_tx.send(msg).await, whatever the token says: it ends when the
\* holder of the incoming receiver has made room, or has dropped it.
Deliver(c) == Move(c, "deliver", "loop") /\ UNCHANGED outq
DeliverClosed(c) == Move(c, "deliver", "closing") /\ UNCHANGED outq

CloseConn(c) == Move(c, "closing", "removing") /\ UNCHANGED outq

\* Mutant: the task returns without active.remove.
RemoveHandleForgotten(c) ==
    /\ phase[c] = "removing"
    /\ phase' = [phase EXCEPT ![c] = "ended"]
    /\ outq' = [outq EXCEPT ![c] = 0]
    /\ UNCHANGED <<peerVars, active, peerOf, callerVars, cancelled, peak>>

\* active.remove(&fp): removes whatever handle is there.  The task then ends
\* and what its outgoing channel still held is lost.
RemoveHandle(c) ==
    /\ phase[c] = "removing"
    /\ ShardFree(peerOf[c])
    /\ active' = [active EXCEPT ![peerOf[c]] = None]
    /\ phase' = [phase EXCEPT ![c] = "ended"]
    /\ outq' = [outq EXCEPT ![c] = 0]
    /\ UNCHANGED <<peerVars, peerOf, callerVars, cancelled, peak>>

-----------------------------------------------------------------------------
(* send_to, disconnect and shutdown.                                       *)

\* send_to takes the handle, and with it the shard's read guard.
SendGuard(s, p) ==
    /\ sender[s] = None
    /\ active[p] # None
    /\ sender' = [sender EXCEPT ![s] = p]
    /\ UNCHANGED <<peerVars, active, phase, peerOf, outq, leaving, cancelled, peak>>

\* outgoing.send(message).await finds room; the guard is dropped on return, and
\* a disconnect that waited for the shard tries again.
SendPush(s) ==
    /\ sender[s] # None
    /\ LET c == active[sender[s]] IN
        /\ outq[c] < OUTGOING_BUFFER_SIZE
        /\ outq' = [outq EXCEPT ![c] = @ + 1]
    /\ sender' = [sender EXCEPT ![s] = None]
    /\ leaving' = {p \in leaving : ~ShardFree(p)'}
    /\ UNCHANGED <<peerVars, active, phase, peerOf, cancelled, peak>>

\* disconnect finds the shard locked: remove blocks the thread it runs on.
DisconnectWait(p) ==
    /\ ~ShardFree(p)
    /\ leaving' = leaving \cup {p}
    /\ UNCHANGED <<peerVars, active, phase, peerOf, outq, sender, cancelled, peak>>

disconnect(p) ==
    /\ ShardFree(p)
    /\ active' = [active EXCEPT ![p] = None]
    /\ UNCHANGED <<peerVars, phase, peerOf, outq, callerVars, cancelled, peak>>

shutdown ==
    /\ cancelled' = TRUE
    /\ UNCHANGED <<peerVars, active, phase, peerOf, outq, callerVars, peak>>

-----------------------------------------------------------------------------
\* Steps of a spawned task that begin when the runtime polls it.
PolledStep(c) ==
    \/ DialOk(c) \/ DialFail(c)
    \/ LoopCancelled(c) \/ LoopTake(c)
    \/ CloseConn(c)

\* Calls of the map.  No await comes before them: the task is on a thread, and
\* stays there until it has the shard.
MapStep(c) == InsertHandle(c) \/ RemoveHandle(c)

\* Steps that need the socket or the holder of the incoming receiver.
OutsideStep(c) ==
    \/ SendDone(c) \/ SendError(c)
    \/ LoopRecv(c) \/ LoopRecvError(c)
    \/ Deliver(c) \/ DeliverClosed(c)

Next ==
    \/ \E a \in Adders : AddPeerInsert(a) \/ \E p \in Sees[a] : AddPeerCheck(a, p)
    \/ cleanup_stale \/ LoadTrusted
    \/ \E p \in Trusts : trust_peer(p)
    \/ \E p \in Leaves : DisconnectWait(p) \/ disconnect(p)
    \/ \E c \in Calls :
        \/ \E p \in Dials[c] : ConnectCheckActive(c, p)
        \/ ConnectLookup(c) \/ ConnectCheckTrusted(c) \/ ConnectSpawn(c)
        \/ PolledStep(c) \/ MapStep(c) \/ OutsideStep(c)
    \/ \E s \in Senders : SendPush(s) \/ \E p \in Peers : SendGuard(s, p)
    \/ shutdown

\* A worker thread of the runtime is blocked: a task or a disconnect is inside
\* the map and waits for a shard that a send_to keeps.
WorkerBlocked ==
    \/ \E c \in Calls : phase[c] \in {"insert", "removing"} /\ ~ShardFree(peerOf[c])
    \/ leaving # {}

\* tokio polls every ready task as long as no worker thread is blocked.  With a
\* blocked one nothing is certain: it may be the last one, or the one in whose
\* queue the sender is.  A thread inside the map goes on once the shard is free.
\* client.connect ends within its timeouts.
Fairness ==
    /\ \A c \in Calls : WF_vars(~WorkerBlocked /\ PolledStep(c)) /\ WF_vars(MapStep(c))
    /\ \A s \in Senders : WF_vars(~WorkerBlocked /\ SendPush(s))

Spec == Init /\ [][Next]_vars
FairSpec == Spec /\ Fairness

-----------------------------------------------------------------------------
(* Properties.                                                             *)

\* Every variable of the manager keeps its shape; in particular no channel
\* counts below zero or above OUTGOING_BUFFER_SIZE.
TypeOK ==
    /\ peers \subseteq Peers
    /\ adding \in [Adders -> Peers \cup {None}]
    /\ trusted \subseteq Peers
    /\ trustLoad \in {"pending", "done"}
    /\ active \in [Peers -> Calls \cup {None}]
    /\ phase \in [Calls -> Phases]
    /\ peerOf \in [Calls -> Peers \cup {None}]
    /\ \A c \in Calls : phase[c] # "unused" => peerOf[c] # None
    /\ outq \in [Calls -> 0 .. OUTGOING_BUFFER_SIZE]
    /\ sender \in [Senders -> Peers \cup {None}]
    /\ leaving \subseteq Peers
    /\ cancelled \in BOOLEAN
    /\ peak \in Nat

\* Whatever overwrites and foreign removals happen, a handle stored in
\* active_connections always belongs to a task for that very peer that has not
\* ended: the map never holds a handle whose channel nobody reads any more.
HandleHasLiveTask ==
    \A p \in Connected : phase[active[p]] \in Live /\ peerOf[active[p]] = p

\* A send_to that found a handle pushes into a channel whose receiver exists
\* until the push: the guard it holds keeps the owner from ending.  The
\* SendFailed("channel closed") return of send_to is therefore never taken.
SendFindsOpenChannel ==
    \A s \in Senders : sender[s] # None =>
        active[sender[s]] # None /\ phase[active[sender[s]]] \in Live

\* A connection exists only with a peer on the allowlist, although the trust
\* check runs several steps, and a whole dial, before the handle is stored.
ConnectedPeersTrusted ==
    /\ Connected \subseteq trusted
    /\ \A c \in Calls : phase[c] \in Live => peerOf[c] \in trusted

\* MAX_ACTIVE_CONNECTIONS is exceeded by no more than the number of dials that
\* were under way at once, minus one: exact as long as dials never overlap.
ActiveOvershoot ==
    Cardinality(Connected) <= MAX_ACTIVE_CONNECTIONS - 1 + peak

\* MAX_PEERS is exceeded by no more than the number of concurrent add_peer
\* callers, minus one: exact for a single discovery task.
PeerTableBound ==
    Cardinality(peers) <= MAX_PEERS + Cardinality(Adders) - 1

\* The task waits for the remote peer to read, or for the holder of the
\* incoming receiver to make room.
WaitsOutside(c) == phase[c] \in {"sending", "deliver"}

\* After shutdown every dialing or connected task ends, unless it waits for
\* the outside or a worker thread stays blocked for ever on a shard that a
\* send_to keeps locked while it awaits room, or its turn, with the guard held.
\* A thread that gets its shard in the end is no excuse.
ShutdownDrains ==
    \A c \in Calls :
        (cancelled /\ phase[c] \in InFlight \cup Live) ~>
            (phase[c] = "ended" \/ WaitsOutside(c) \/ []WorkerBlocked)

=============================================================================
