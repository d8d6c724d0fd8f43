# Verification of Rubix PingPongzz

Rubix PingPongzz is a serverless chat program for a local network, written in
Rust. Peers find each other by UDP beacons and mDNS, connect over TCP, run a
Noise KK handshake bound to Ed25519 identities, and exchange length-prefixed
encrypted frames. This directory holds TLA+ models of its core, TLC runs that
check them, and TLAPS proofs.

The repository's crates do not all compile against each other yet, and its
prose documents are empty; the comments in the source are its documentation.
Each crate is modelled from its own code. Where one crate calls another only
through a trait (the ports of the application crate), the trait is an external
component that may answer anything its contract allows.

## Inventory

| Part | State | Operations | What is hard | What makes it correct |
|---|---|---|---|---|
| Connection manager (`networking/tcp/connection_manager.rs`) | peers, allowlist, active handles, cancellation token | `add_peer`, `trust_peer`, `connect_to_peer`, `send_to`, `disconnect`, `shutdown`, cleanup ticker, trust load | checks on maps that other tasks change, a handle stored long after its checks, a map guard held across an await | a handle always leads to a live task of a trusted peer; limits; tasks end |
| Connection task (same file), `tcp/connection.rs`, `protocol/codec.rs` | outgoing and incoming channel, position in the stream, transport nonce | the select loop, `send`, `recv`, `close`, `decode` | a receive dropped half-way, back-pressure on both sides, errors after a message was taken | both directions deliver in order without gaps; arrived frames are handed on |
| Send-message use case (`application/usecases/send_message.rs`) and message states (`domain/message`) | the message, the stored message, the retry counter | `execute`, `send_with_retry`, `transition_to` | failing ports, an error after the bytes left, cancellation at an await, crash | stored before sent; the response tells what is stored; bounded retries |
| Rate limiter (`application/rate_limit.rs`) | instants per key | `check`, `reset` | the clock is read before the lock; resets while other calls are under way | a sliding window |
| Connect and discover use cases (`application/usecases`) | one row per peer | `execute` of both | two read-modify-write cycles on one row; a trust answer used later | verification needs trust; online needs a handshake |
| Noise handshake, identity binding, nonce cache (`security/noise`) | handshake state, cache of nonces | initiator and responder, `check_and_insert` | timeouts on both sides, eviction by age and by capacity | both sides agree; a payload is accepted once |
| TCP server (`networking/tcp/server.rs`) | permits | accept loop, `handle_connection` | ten permits, unbounded waiting tasks | no more than ten handshakes; shutdown |
| Secure store (`security/storage/secure_store.rs`) | the identity file, a temporary file | `new`, `load`, `create`, `load_or_create`, `save` | crash between write and rename, a second process, one temporary path for all | the identity is never lost, and never another one |
| Receive-message use case (`application/usecases/receive_message.rs`) | the incoming channel, the shutdown watch | `run`, `process` | a closed watch, one failing step of several | no message ends the loop for the next |
| Reset-identity use case (`application/usecases/reset_identity.rs`), bootstrap (`apps/desktop`) | identity on disk, in memory, on the LAN | `execute`, `bootstrap` | failures and crashes between the three, two resets at once | disk, memory and LAN agree |
| Repositories (`persistence`) | tables of peers, messages, recipients | inserts, updates, reads, deletes, the trust store | two statements without a transaction, rows that cannot be read back | trust lasts; rows stay readable |
| Discovery (`networking/udp`, `networking/mdns`) | sockets, the browser's thread, one bounded event channel each | `create`, `verify`, the run loops, both shutdowns | replayed and altered datagrams, skewed clocks, a full channel, two keys for one service | replays end; the reader's view settles; producers end |
| User interface (`ui`, `apps/desktop/app.rs`) | the shared `UiState`, two channels, the copies of the screens | frames, commands, drain tasks, exit | acting on a copy while the worker changes the state | the user's settings and choice of peer hold |
| Heartbeat, domain values, key types, wire records, notifications | none, or immutable values and output | | | |

The parts interact as follows. Discovery feeds `add_peer`. The user interface
calls the use cases; these call the network, persistence, security and trust
ports. In the repository the user interface's worker does not call them yet; the
background receiver that bootstrap spawns does. The connection manager spawns one task per connection; caller and task
share the map of handles, one channel in each direction and the token. A task
dials through the TCP client, which runs the handshake; the server is the other
end of it. The hazards of these interactions are listed, line by line, in
`PROJECT.json`.

## Modules

### ConnectionManager

Models every operation of `connection_manager.rs`. One element of `Calls` is a
`connect_to_peer` call and then the task it spawns: `phase` goes through the
four checks ("unused", "lookup", "trust", "limit"), the dial ("dialing",
"insert"), the loop ("loop", "sending", "deliver") and the way out ("closing",
"removing", "ended"). Every check is a step of its own because the code holds
no lock from one to the next. `active` maps a fingerprint to the call whose
handle is stored; insert and remove act on whatever is there, as in the code.
`send_to` is two steps: `SendGuard` takes the handle with the shard's read
guard, `SendPush` finds room; between them insert, remove and disconnect on that
shard cannot run (`ShardFree`), and whoever calls them blocks the worker thread
it runs on (`WorkerBlocked`; `leaving` are the `disconnect` calls that wait this
way). Messages are counted, not told apart. The dial is one step with two
outcomes. `peak` is a history variable. `Dials`, `Sees`, `Trusts` and `Leaves`
are the arguments that `connect_to_peer`, `add_peer`, `trust_peer` and
`disconnect` are called with. `len()` of a DashMap adds up its shards one after
the other; here it is one reading, so that an entry that moves from one shard to
another during the sum is not represented.

A sender that has found no handle returns an error at once and changes nothing;
it has no action. `send_to`'s "channel closed" return has none either:
`SendFindsOpenChannel`, proved in `NetworkingProofs`, says that it cannot
happen.

### ConnectionTask and OrderedPipe

One task, message by message. Frame k of the remote peer is two tokens of the
byte stream, its prefix and its payload. The codec keeps the prefix in the
future of `recv`; `LoopTake` drops that future. After that, payload bytes are
read as a length: either it is too large (`DecodeGarbage`), or it happens to be
allowed (`DecodeWrongLength`), and then bytes are read that do not decrypt
(`DecodeWrongFrame`), or that future is dropped as well with any number of
tokens gone. The transport decrypts only the frame its nonce stands at. A token
is read whole: a receive dropped within a prefix or within a payload loses its
place in the same way as one dropped between them, so that case is represented
by the dropped prefix.

`OrderedPipe` is the abstract promise of one direction: what comes out is what
went in, in order, without a gap, and nothing after closing. `FromPeer` and
`ToPeer` are the two refinement mappings (frames fully sent against frames handed
on; messages accepted by `send_to` against messages written to the socket).

### SendMessage

`execute` with `send_with_retry` and the transition table of `MessageState`.
Every early return is an action. An Ok of `send_to_peer` says that the network
took the message (`connection_manager.rs` puts it into a channel), no more: it is
then `underway`, and arrives or is lost. An error may also come after the bytes
left.
`Cancel` drops the future of a call at any await, `Crash` all of them; a save or
a send that was being awaited may take effect or not. Content, encryption and
timestamps are left out.

### RateLimiter

`check` and `reset` for one key under the calls of `ConnectPeerUseCase`. The
list of instants is the set of calls that pushed them. Reading the clock and the
critical section are two steps, so a call may decide with an old reading (`late`).

### PeerRow

One peer's row: `ConnectPeerUseCase::execute` after the rate check and
`DiscoverPeerUseCase::execute`, each as load and save with other actors between;
the trust store changes at any time and may fail.

### Handshake

`TcpClient::connect` and `TcpServer::run` with the two-message exchange between
them. `ini` and `res` say where each side of a session is or how it ended. A
select that polls its token first is modelled by `~token` in the guard of every
other step; `tokio::time::timeout` polls the handshake before its deadline, so
there is no timeout after a cancellation. A side whose future is dropped while
it sends may or may not have let the whole message go. A side that ends closes
its stream, which the other side sees after it has read what was sent; a side
that vanishes closes nothing. The semaphore is a queue: a waiting task looks
neither at the token nor at a clock. An accepted session ends at once, since the
server does not keep the connection (see the findings). Whether a payload
verifies, and what the validator says, is left open here. `iniNoise` and
`resNoise` are the states of the two Noise machines: `WriteMessage`,
`ReadMessage`, `IsComplete` and `IntoTransport` advance them, and a session is
made only of a complete one. In the repository the
server calls `new_responder` without the remote keys it needs; the model takes
the handshake to be set up.

### NonceCache

`verify_identity_payload` with a cache that several handshakes share, as its
documentation asks for (the plain constructors make one each; see the findings).
The timestamp check and the critical section of `check_and_insert` are two
steps. Timestamps are whole seconds, ages of entries are not: `TicksPerSec`
keeps the difference. The wall clock of the timestamps and the monotonic clock of
the ages advance together here; a wall clock that is set back is not covered. A payload arrives intact, altered in what it signs, or
unreadable; each of the checks refuses the ones it should, in the code's order,
before the cache is touched.

### SecureStore

Several instances, in one process or in several, over one directory. `enc` and
`tmp` are the two names, `inodes` the contents of the files they point to, so
that a file that was renamed or unlinked while another instance writes it behaves
as on a file system. A file has `Parts` pieces, each written by one save or by
none; `save` opens, writes piece by piece and renames. An instance can crash or
meet an I/O error at every step. A blob decrypts when all its pieces are of one
save and the passphrase is that save's. A crash is that of the process: what it
wrote is still in the kernel. `save` writes and renames without a sync
(`secure_store.rs:241-244`), so nothing here holds of a machine that loses power.

### Services

`bootstrap`, `main`, the receive loop and `ResetIdentityUseCase`. Identities are
numbered; `disk`, `mem` and `presence` are the stored one, the one in use and the
one last announced. A reset is four steps. The receive loop's select takes a
message or finds the shutdown channel closed (`Spin`); `process` goes through
its stages. The port factories are stubs in the repository; here they may also
succeed.

### Repositories

The SQLite peer and message repositories under concurrent callers. A row of
`peers` is its id, whether it can be read back, the verified flag and the trust;
a caller holds the entity its last call returned, and `Rebuild` is what becomes
of a row on its way into an entity. A statement is a step; `insert` of a message
is one step since it runs in a transaction. The column `trusted` is taken to
exist, as every query assumes.

### Discovery

Both producers of discovery events, told apart by `mode`: the UDP listener with
the beacons it receives, and the thread of the mDNS browser. Both send into a
bounded channel with one reader. A service of mDNS has two fingerprints, that of
its instance name (`NameOf`), by which it is removed, and that of its TXT record
(`TxtOf`), by which it is discovered; either may be missing (a name that
`from_hex` refuses, a record that `parse_peer_info` refuses), and several
services may have the same. Beacons are lost, repeated and altered; sender
and receiver have clocks of their own, either of which may be ahead. `Top` is the largest timestamp and
`OverflowChecks` says what an addition beyond it does, as in a debug build.

### Ui

The egui thread step by step through a frame, the worker, and the drain tasks
that every frame spawns. Every lock of the shared state that is taken and
released is a step: a screen works on a copy while the worker changes the
original. A command waits in its channel until the worker applies it.

## Runs

| Run | Module | Shows |
|---|---|---|
| `cm_manager` | MCConnectionManager | all safety properties of the manager, and that shutdown drains every task that does not wait for the outside, unless a worker thread stays blocked on a shard kept by a sender |
| `task_loop` | ConnectionTask | order and completeness in both directions, framing errors only after an interruption, arrived frames handed on |
| `send_message` | SendMessage | write-through, truthful responses, earned outcomes, bounded retries, no rollback, every call ends |
| `rate_window` | MCRateLimiter | the sliding window and that nobody is refused without cause |
| `peer_row` | PeerRow | verification and online status, and that only a stale write loses a verification |
| `handshake` | Handshake | the ends of a connection agree or have a cause not to, permits come round, `connect` returns, shutdown drains the server |
| `nonce_cache` | MCNonceCache | a payload is accepted once, except after an eviction for want of room, a delay before the lock, or an acceptance in the first second of its window; a refusal always has a recent acceptance behind it |
| `secure_store` | MCSecureStore | a crash, an error or a second start never damages the stored identity; overlapping saves can lose one, but never make `load` return keys nobody stored |
| `services` | Services | the identity in use is the one on disk whenever no reset is half done and none crossed; announced identities were stored; all messages are taken |
| `repositories` | MCRepositories | trust answered Ok lasts, but for one race; readable rows stay readable; recipients without message only after an ignored error |
| `discovery` | MCDiscovery | replays end, datagrams do not end the listener, the reader's view of mDNS settles on who is up except where a name and a TXT record disagree, producers end unless a reader abandons a full channel |
| `ui` | Ui | settings and recipients are the user's, but for copies older than a queued change; every command is handled and every answer drained |

Several properties name an exception ("as long as two saves never overlapped",
"unless two resets crossed"): there the code does go wrong, and `PROJECT.json`
lists it as a finding. The exceptions are recorded by history variables
(`overlapped`, `crossed`, `raced`, `cut`, `stale`) as narrowly as they occur, so
that the property shows there is no other way to fail.

Each property of a run has a mutant of a modelled definition, a
plausible slip in that code, under which TLC finds it violated.

### Bounds

* `cm_manager`: two calls, one sender, two callers of `add_peer`, three peers,
  all limits and the channel capacity 1. Two calls are what it takes to overlap
  checks, replace a handle and remove a foreign one; two callers of `add_peer`
  can both pass the check of a table of one, and the third peer is there to show
  that they get no further. Capacity 1 makes a full channel common; all peers
  share a shard so that a guard on one blocks the others. The first call is to
  peer 1, the second to peer 1 or 2: other choices only rename them. Both are in
  the trust store, which may load at any time or fail to, and peer 1 may be
  trusted by `trust_peer` before; peer 1 is also the one `disconnect` is called
  for. The theorems below cover the safety properties for every other size, here
  and in the other runs.
* `task_loop`: three frames against two messages, so that a receive can be
  interrupted twice and the stream can fall back into step afterwards; channels
  of capacity 1.
* `send_message`: two calls (calls do not interact; two make `Crash` differ from
  `Cancel`) and the code's own `MAX_RETRIES` = 3.
* `rate_window`: five calls, two attempts per window of two ticks, four clock
  values: more calls than fit in one window and time for the first to expire.
  The calls are interchangeable (symmetry; all properties are invariants).
* `peer_row`: two connect calls and two discoveries, so that a stale copy of
  each kind can overwrite a write of each kind.
* `handshake`: two sessions and one permit, so that one of them waits while the
  other is in any of its states. The two safety properties are proved for any
  number of both.
* `nonce_cache`: three calls, two payloads, a cache of one entry: enough for an
  acceptance, an eviction by the other payload and a second presentation. The
  skew is one second and the lifetime of an entry two (the code has 30 and 60,
  the same ratio), a second is two ticks, and the clock runs to tick 7, beyond
  the end of every window. Calls and payloads are interchangeable.

* `secure_store`: two instances, three saves of two pieces, one crash, two
  passphrases of which one is used to save: a save can be torn, overtaken,
  and mixed with another's pieces.
* `services`: two resets, three identities (the first and one per reset), two
  messages, two crashes, so that a crash can follow a restart.
* `repositories`: two callers, two fingerprints, three ids, one message; an
  insert, a reload and another caller's statement between two of the first.
* `discovery`: two beacons and their copies on a clock of five values with a
  window of one, the sender one behind or two ahead, the channel of two; four
  services and four changes. Two services are as `MdnsAdvertiser` registers
  them, one has a name that is no fingerprint, and one has the name of another
  and a TXT record that does not verify.
* `ui`: three commands, two peers, two positions of the slider, two drain tasks.

Runs of modules whose actors all finish say `CHECK_DEADLOCK FALSE`; the runs of
the manager check for deadlock as well, though `trust_peer` and `shutdown` may
always be called again.

### Fairness

* `ConnectionManager`: weak fairness of a task's own steps and of a send that
  finds room, both only as long as no worker thread is blocked in the map; and of
  a call of the map once its shard is free. tokio polls every ready task while
  its workers run. A blocked one may be the last, or may have the sender that
  would release the shard in its own slot, where no other worker finds it, so
  with a blocked worker nothing is assumed of any task. The dial has timeouts of
  five and ten seconds. Nothing is assumed of the socket or of the holder of the
  incoming receiver, and no caller has to call anything.
* `ConnectionTask`: weak fairness of the loop's steps that need no more from
  outside. A write that the peer does not read, and a full incoming channel, are
  exceptions in `ArrivedFrameHandedOn` itself.
* `SendMessage`: weak fairness of each call: the ports return and sleeps end.
* `Handshake`: weak fairness of each side's own steps, its timeout among them,
  and of taking a free permit. Nothing is assumed of the accept loop, of callers
  or of a peer: either end may vanish without a trace.
* `Services`: weak fairness of taking a message and of `process`: the select
  picks among ready branches at random, so the branch that spins does not starve
  the other, and the ports return.
* `Discovery`: weak fairness of the producer, a task or a thread. None of the
  network, the clock or the reader.
* `Ui`: weak fairness of the frame loop (every frame asks for the next), of the
  worker and of the drain tasks.
* The other modules state safety only.

## Proofs

Every safety property of the runs, and both refinements, are theorems. TLAPS
proves them for every value of the constants, under the assumptions stated in
the modules (finite sets of calls, peers and callers, positive limits, a cache
lifetime of at least twice the skew, clocks that fit the timestamp). Each proof
rests on an inductive invariant, which TLC checked on the run's instance first.
A proof module may speak of two components; then the second one's
specification, initial predicate and next-state action carry a prefix
(`RLSpec`, `NCSpec`, `DiscSpec`, `UiSpec`), so that one module can extend both.

* `NetworkingProofs`, of `ConnectionManager`: `TypeCorrect`, `HandlesSound`,
  `TrustSound`, `PeerTableBounded`, `ActiveOvershootBounded`.
  - Handles: `HandleHasLiveTask` is inductive with `TypeOK` and the fact about
    senders: a task ends only by removing the handle of its peer, and whoever
    replaced that handle is a live task too. A sender's guard excludes that
    removal, hence `SendFindsOpenChannel`.
  - Trust: the strengthening says that a call past the trust check has a peer on
    the allowlist; nothing ever removes one.
  - Peer table: each `add_peer` that has passed its check is worth at most one
    more entry, so the invariant bounds the table plus the insertions under way.
  - Active connections: the invariant bounds handles plus tasks between limit
    check and insert; cardinalities of both change by at most one per step.
* `NetworkingProofs`, of `Discovery`: `BeaconReplaysEnd`, `ListenerSurvives`,
  `ReaderSeesWhoIsUp`.
  - Beacons: `ReplaysEnd` compares two acceptances, which share nothing but the
    timestamp of a datagram that may be gone. `BeaconInv` keeps what they need:
    all signed copies of a beacon have one timestamp, and every acceptance was
    within the window of the copies still in flight. A timestamp in flight is
    one that a sender made or the largest there is; `verify` looks at the upper
    end of the window first, so the addition it then makes cannot overflow.
  - Browser: `Known(q, B)` is who is believed to be there after hearing `q`.
    `BrowserInv` says that the reader, once it has heard the channel, the event
    in the thread's hands and the daemon's reports, will be right about who is up
    (`RightAbout`, the condition of `ViewSettles`). Moving an event from one of
    these places to the next leaves what it will believe unchanged (`KnownAppend`,
    `KnownTail`), and the thread's translation keeps the meaning of an event
    (`Translated`). A registration and a removal keep a belief right (`RightUp`,
    `RightDown`): a service that tells a peer and has its name takes it away when
    it goes, and a name that only the teller has takes away nobody else's peer.
* `ConnectionTaskProofs`: `FramingFailsAfterInterruption`,
  `IncomingImplementsPipe`, `OutgoingImplementsPipe`.
  - `IncomingInv` says where the codec stands in the token stream while no
    receive was interrupted, that the frames handed on are an initial segment of
    the frames sent, and that the transport's nonce is one past it; only the
    frame at the nonce decrypts, so a stream that lost its place adds nothing.
    `OutgoingInv` places every accepted message: written, in the task's hands,
    or in the channel, in this order.
  - The refinements follow step by step: the initial states map to the initial
    state of `OrderedPipe`, and every step to one of its steps or to a stutter.
* `SendMessageProofs`: from one inductive invariant, `SendInv`, which says for
  each program counter what the message in memory, the store and the counters
  are (for example: while sending, the store holds Pending and `tried` equals
  `attempt`; what the network has taken was stored before), follow
  `SendTypeCorrect`, `SendWritesThrough`, `SendResponseSound`,
  `SendOutcomeEarned`, `SendRetriesBounded`, `SendTransitionsAccepted` and, with
  one more look at each step, `SendStoreMonotone`.
* `ConnectPeerProofs`, of `PeerRow`: `RowInv` adds that a copy of the row, and a
  trust answer in hand, obey the same condition as the row; `RowSound` and
  `RowLossIsStale` follow.
* `ConnectPeerProofs`, of `RateLimiter`: `WindowIsKept`, `RefusalIsEarned`. The
  invariant, `LimiterHolds`, says that the instants held are those of calls that
  were admitted and not reset, and that every admission that can still fall into
  a window is held: a check with a stale reading of the clock expires too few,
  never too many. A call that is let in counts fewer than the limit, and the
  bound on the admissions of a window follows.
* `HandshakeProofs`, of `Handshake`: `HandshakeInv` ties the state of a session
  to its messages: the answer follows the verification, which follows the first
  message, and an initiator that found the connection closed leaves a responder
  that can no longer succeed. `InitiatorVerified` and `HandshakeAgreement`
  follow.
* `HandshakeProofs`, of `NonceCache`: `ReplayIsRefused`, `ReplayWasAccepted`.
  `CacheInv` says that the set is what the queue holds, that the queue is sorted
  by age and holds nothing twice, that every entry comes from an acceptance, and
  that every acceptance is queued, expired or evicted. The order is what makes
  the loop that pops expired entries from the front exact (`ExpiryIsExact`); that
  nothing is queued twice is what makes an eviction show in `displaced`. The
  rest is arithmetic: an entry outlives the window of its timestamp because the
  lifetime is at least twice the skew (`WindowShorterThanLifetime`), except for
  the second that truncation costs.
* `SecureStoreProofs`: `LastSaveSurvives`, `OkSaveWasInstalled`,
  `LoadsOnlyStoredKeys`. Until two saves overlap, `AloneInv` says, at most one
  instance saves, its inode holds exactly the pieces it has written and is not
  the identity file, and the temporary name leads to that inode or to a leftover
  of an earlier crash.
* `RepositoriesProofs`: `TrustIsKept`, `NoStrayRecipients`, `ReadableRowsStay`.
  The invariant adds what a caller between the two statements of `add_trusted`
  may rely on (`BetweenStatements`): a row that is there is trusted, or its
  insertion was recorded as a race.
* `DesktopProofs`, of `Services`: `IdentitySound`, for any number of concurrent
  resets, messages and crashes. `IdentityDurable` speaks of a program at rest;
  `Inv` adds what holds half-way: while a reset is between save and swap the disk
  has its identity already, no other reset is there unless they crossed, what is
  about to be announced was stored, and no reset runs before bootstrap returned.
* `DesktopProofs`, of `Ui`: `SettingsAreKept`, `MessagesGoToChosen`. `UiInv` says
  where the queue leads: its last choice of a peer is the user's, all its changes
  of settings ask for what the user wants, and with none queued the state holds
  it already. A copy made with nothing queued stays true until the frame is over,
  since only the end of a frame sends.

Only model-checked: the liveness properties (`ShutdownDrains`,
`ArrivedFrameHandedOn`, `CallEnds`, `PermitGranted`, `ConnectEnds`,
`ServerDrains`, `MessagesTaken`, `ProducerEnds`, `CommandsAnswered`), which need
fairness and are outside the prover's reach.

## Not modelled

* Cryptography: assumed to do what it says. Sizes, formats, wording, logging.
* The heartbeat: its loop holds TODO comments and nothing starts it.
* Notifications, and the records of the wire protocol, which the connection task
  does not use: output and serialisation without state.
* Identity, fingerprint and key types: immutable values. Generation appears as a
  fresh identity or fresh keys.
* Addresses, names and timestamps of peers; the rate limiter's memory over many
  keys; the order in which one discovery saves several peers.
* The connection pool: a call that gets no connection is one that fails.

## Plan

1. Done: all modules above, and proofs of all their safety properties.
2. Left to prove: further facts that the properties do not state, such as the
   type correctness of every module. The liveness properties stay with TLC.
3. When the port factories of bootstrap exist: compose `SendMessage` with
   `Repositories` through the actual implementation of the persistence port, and
   the user interface's worker with the use cases.
