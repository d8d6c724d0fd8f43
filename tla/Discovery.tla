----------------------------- MODULE Discovery -----------------------------
(***************************************************************************)
(* Finding peers on the local network: the mDNS advertiser and browser     *)
(* (mdns/), and the UDP beacons that are the fallback when mDNS is not     *)
(* available (udp/).  A node uses one of the two.  In both a producer, the *)
(* browser's thread or the listener's task, checks what it receives and    *)
(* puts events into a bounded channel for one reader.                      *)
(*                                                                         *)
(* A service of mDNS carries a fingerprint twice: in its instance name,    *)
(* which is all that the daemon says of a service that went down, and in   *)
(* its TXT record.  MdnsAdvertiser puts the same one in both places, but   *)
(* nothing compares them, so here they are two functions of the service.   *)
(*                                                                         *)
(* UDP loses, duplicates, delays, reorders and alters datagrams.  Time is  *)
(* the receiver's clock in seconds; a sender's clock is skew ahead of it,  *)
(* or behind it when skew is negative.                                     *)
(* Nothing in the repository reads the events yet: the reader is external. *)
(***************************************************************************)
EXTENDS Integers, Sequences

CONSTANTS
    Services,       \* instances of the service type on the network
    Fingerprints,
    NameOf,         \* the fingerprint an instance name reads as
    TxtOf,          \* the fingerprint of a TXT record whose keys derive to it
    NoFp,           \* what stands there instead when there is none
    Cap,            \* capacity of the event channel, 100 in the code
    MaxAge,         \* BEACON_MAX_AGE_SECS
    Top,            \* the largest u64
    OverflowChecks, \* whether the build panics when an addition overflows
    Skews,          \* how far a sender's clock may be ahead
    Start,          \* the receiver's clock at the beginning
    MaxClock,       \* bound on time
    MaxBeacons,     \* bound on beacons sent
    MaxCopies,      \* bound on datagrams altered or delivered again
    MaxChanges      \* bound on mDNS registrations and removals

ASSUME CapAssumption == Cap \in Nat \ {0}
ASSUME ServicesAssumption ==
    /\ NameOf \in [Services -> Fingerprints \cup {NoFp}]
    /\ TxtOf \in [Services -> Fingerprints \cup {NoFp}]
    /\ NoFp \notin Fingerprints
ASSUME ClockAssumption ==
    /\ MaxAge \in Nat \ {0} /\ Start \in Nat /\ MaxClock \in Nat /\ Top \in Nat
    /\ Start <= MaxClock /\ MaxClock + MaxAge < Top
    /\ Skews \subseteq Int
    /\ \A k \in Skews : 0 <= Start + k /\ MaxClock + k + MaxAge < Top
ASSUME ChoicesAssumption ==
    OverflowChecks \in BOOLEAN /\ MaxBeacons \in Nat /\ MaxCopies \in Nat /\ MaxChanges \in Nat

VARIABLES
    mode,        \* "mdns" or "udp"
    pc, held,    \* the producer: idle, about to send held, or ended
    chan,        \* events in the channel
    reading,     \* whether the receiver of the channel is still there
    delivered,   \* history: events the reader took
    stopping,    \* the token of the listener, or an accepted daemon.shutdown
    clock, skew, \* the receiver's clock, and how far the sender's is ahead
    sent,        \* beacons created so far
    net,         \* datagrams in flight
    copies,      \* datagrams altered or delivered again so far
    accepted,    \* history: the beacons verify accepted, and when
    up,          \* services registered on the network
    queue,       \* events of the mDNS daemon the thread has not received
    changes      \* registrations and removals so far

prodVars == <<pc, held>>
chanVars == <<chan, reading, delivered>>
udpVars == <<clock, skew, sent, net, copies, accepted>>
mdnsVars == <<up, queue, changes>>
discVars == <<mode, pc, held, chan, reading, delivered, stopping,
          clock, skew, sent, net, copies, accepted, up, queue, changes>>

Beacons == 1..MaxBeacons
Forms == {"intact", "altered", "garbled"}
NoEvent == [kind |-> "none"]

DiscInit ==
    /\ mode \in {"mdns", "udp"}
    /\ pc = "idle" /\ held = NoEvent
    /\ chan = <<>> /\ reading = TRUE /\ delivered = <<>>
    /\ stopping = FALSE
    /\ clock = Start /\ skew \in Skews
    /\ sent = 0 /\ net = {} /\ copies = 0 /\ accepted = {}
    /\ up = {} /\ queue = <<>> /\ changes = 0

----------------------------------------------------------------------------
(* The channel and its reader *)

\* Mutant of SendEvent: it gives the event up when the channel is full.
SendEventOrDrop ==
    /\ pc = "sending"
    /\ chan' = IF reading /\ Len(chan) < Cap THEN Append(chan, held) ELSE chan
    /\ pc' = "idle" /\ held' = NoEvent
    /\ UNCHANGED <<mode, reading, delivered, stopping, udpVars, mdnsVars>>

\* Mutant of SendEvent: it retries when the receiver is gone.
SendEventRetry ==
    /\ pc = "sending" /\ reading /\ Len(chan) < Cap
    /\ chan' = Append(chan, held)
    /\ pc' = "idle" /\ held' = NoEvent
    /\ UNCHANGED <<mode, reading, delivered, stopping, udpVars, mdnsVars>>

\* The producer's send: into the channel while the receiver is there and has
\* room, an ignored error once it is gone; otherwise it waits.
SendEvent ==
    /\ pc = "sending"
    /\ \/ reading /\ Len(chan) < Cap /\ chan' = Append(chan, held)
       \/ ~reading /\ chan' = chan
    /\ pc' = "idle" /\ held' = NoEvent
    /\ UNCHANGED <<mode, reading, delivered, stopping, udpVars, mdnsVars>>

\* A reader takes an event: next_event, or recv on the listener's receiver.
NextEvent ==
    /\ reading /\ chan # <<>>
    /\ delivered' = Append(delivered, Head(chan))
    /\ chan' = Tail(chan)
    /\ UNCHANGED <<mode, prodVars, reading, stopping, udpVars, mdnsVars>>

\* The reader of the UDP events gives up its receiver.
DropReceiver ==
    /\ mode = "udp" /\ reading
    /\ reading' = FALSE /\ chan' = <<>>
    /\ UNCHANGED <<mode, prodVars, delivered, stopping, udpVars, mdnsVars>>

Offer(e) ==
    /\ pc' = "sending" /\ held' = e

----------------------------------------------------------------------------
(* UDP: DiscoveryBeacon, UdpBroadcaster, UdpListener *)

Tick ==
    /\ mode = "udp" /\ clock < MaxClock
    /\ clock' = clock + 1
    /\ UNCHANGED <<mode, prodVars, chanVars, stopping, skew, sent, net, copies, accepted, mdnsVars>>

\* create stamps a beacon with the sender's clock and signs all its fields.
Create(i) == [id |-> i, ts |-> clock + skew, form |-> "intact"]

\* A tick of the broadcaster: create a beacon; send_to puts it
\* on the network or fails, which is only logged.  A broadcaster that is
\* cancelled takes no more ticks.
Broadcast ==
    /\ mode = "udp" /\ sent < MaxBeacons
    /\ sent' = sent + 1
    /\ net' \in {net, net \cup {Create(sent')}}
    /\ UNCHANGED <<mode, prodVars, chanVars, stopping, clock, skew, copies, accepted, mdnsVars>>

Lose(d) ==
    /\ net' = net \ {d}
    /\ UNCHANGED <<mode, prodVars, chanVars, stopping, clock, skew, sent, copies, accepted, mdnsVars>>

\* A copy of a datagram with other bytes: it no longer parses, or it parses and
\* its fields, the timestamp included, are not the ones signed.
Alter(d) ==
    /\ copies < MaxCopies
    /\ copies' = copies + 1
    /\ net' \in {net \cup {[d EXCEPT !.form = "garbled"]},
                 net \cup {[d EXCEPT !.form = "altered", !.ts = Top]},
                 net \cup {[d EXCEPT !.form = "altered"]}}
    /\ UNCHANGED <<mode, prodVars, chanVars, stopping, clock, skew, sent, accepted, mdnsVars>>

\* Mutants of Verify: the other end of the window first; no lower end.
VerifyOldFirst(d) ==
    IF OverflowChecks /\ d.ts + MaxAge > Top THEN "panic"
    ELSE IF (d.ts + MaxAge) % (Top + 1) < clock THEN "too_old"
    ELSE IF d.ts > clock + MaxAge THEN "in_future"
    ELSE IF d.form = "intact" THEN "ok" ELSE "refused"

VerifyFutureOnly(d) ==
    IF d.ts > clock + MaxAge THEN "in_future"
    ELSE IF d.form = "intact" THEN "ok" ELSE "refused"

\* verify: the two ends of the window, then fingerprint and signature.  The
\* addition to the timestamp of the datagram is the one that could overflow.
Verify(d) ==
    CASE d.ts > clock + MaxAge -> "in_future"
      [] d.ts <= clock + MaxAge /\ OverflowChecks /\ d.ts + MaxAge > Top -> "panic"
      [] d.ts <= clock + MaxAge /\ (d.ts + MaxAge) % (Top + 1) < clock -> "too_old"
      [] OTHER -> IF d.form = "intact" THEN "ok" ELSE "refused"

\* process_beacon: from_bytes, verify, and the event.
ProcessBeacon(d) ==
    IF d.form = "garbled" THEN "none" ELSE Verify(d)

\* The listener's select is biased: it receives only while it is not cancelled.
\* A duplicate of the datagram may still be on its way.
ListenerReceive(d) ==
    /\ pc = "idle" /\ ~stopping
    /\ \/ net' = net \ {d} /\ copies' = copies
       \/ net' = net /\ copies < MaxCopies /\ copies' = copies + 1
    /\ IF ProcessBeacon(d) = "ok"
       THEN /\ Offer([kind |-> "Discovered", peer |-> d.id])
            /\ accepted' = accepted \cup {[id |-> d.id, at |-> clock]}
       ELSE /\ pc' = IF ProcessBeacon(d) = "panic" THEN "ended" ELSE pc
            /\ UNCHANGED <<held, accepted>>
    /\ UNCHANGED <<mode, chan, reading, delivered, stopping, clock, skew, sent, mdnsVars>>

CancelListener ==
    /\ mode = "udp" /\ ~stopping
    /\ stopping' = TRUE
    /\ UNCHANGED <<mode, prodVars, chanVars, udpVars, mdnsVars>>

ListenerEnd ==
    /\ mode = "udp" /\ pc = "idle" /\ stopping
    /\ pc' = "ended"
    /\ UNCHANGED <<mode, held, chanVars, stopping, udpVars, mdnsVars>>

----------------------------------------------------------------------------
(* mDNS: MdnsAdvertiser, MdnsBrowser *)

\* What the daemon of the browser tells the thread, as long as there is one.
Report(kind, s) ==
    queue' = IF stopping THEN queue ELSE Append(queue, [kind |-> kind, service |-> s])

\* MdnsAdvertiser::new, or an advertiser of another make, registers a service or
\* announces it again; the daemon of the browser resolves it.  An error leaves
\* nothing registered.
Advertise(s) ==
    /\ mode = "mdns" /\ changes < MaxChanges
    /\ changes' = changes + 1
    /\ up' = up \cup {s}
    /\ Report("ServiceResolved", s)
    /\ UNCHANGED <<mode, prodVars, chanVars, stopping, udpVars>>

\* The advertiser's shutdown unregisters, or its record expires after a crash or
\* an unregister that failed.
Unadvertise(s) ==
    /\ mode = "mdns" /\ s \in up /\ changes < MaxChanges
    /\ changes' = changes + 1
    /\ up' = up \ {s}
    /\ Report("ServiceRemoved", s)
    /\ UNCHANGED <<mode, prodVars, chanVars, stopping, udpVars>>

\* parse_peer_info: the fingerprint of the TXT record, if it is the one derived
\* from the keys beside it.  The instance name is not looked at.
ParsePeerInfo(s) == TxtOf[s]

\* What the thread makes of an event: a resolved service that parses becomes
\* Discovered with the fingerprint of its TXT record, a removed one whose first
\* label is a fingerprint becomes Removed with that; the rest is dropped.
Translate(e) ==
    CASE e.kind = "ServiceResolved" /\ ParsePeerInfo(e.service) # NoFp ->
            [kind |-> "Discovered", peer |-> ParsePeerInfo(e.service)]
      [] e.kind = "ServiceRemoved" /\ NameOf[e.service] # NoFp ->
            [kind |-> "Removed", peer |-> NameOf[e.service]]
      [] OTHER -> NoEvent

\* The browser's thread takes one event of the daemon.
BrowserReceive ==
    /\ mode = "mdns" /\ pc = "idle" /\ queue # <<>>
    /\ queue' = Tail(queue)
    /\ IF Translate(Head(queue)) = NoEvent
       THEN UNCHANGED prodVars
       ELSE Offer(Translate(Head(queue)))
    /\ UNCHANGED <<mode, chan, reading, delivered, stopping, udpVars, up, changes>>

\* shutdown consumes the browser, so the receiver goes with it; the daemon
\* accepts the request, or refuses it and goes on.
BrowserShutdown ==
    /\ mode = "mdns" /\ reading
    /\ reading' = FALSE /\ chan' = <<>>
    /\ stopping' \in BOOLEAN
    /\ UNCHANGED <<mode, prodVars, delivered, udpVars, mdnsVars>>

\* receiver.recv fails once the daemon is gone and its events are used up.
BrowserEnd ==
    /\ mode = "mdns" /\ pc = "idle" /\ stopping /\ queue = <<>>
    /\ pc' = "ended"
    /\ UNCHANGED <<mode, held, chanVars, stopping, udpVars, mdnsVars>>

Producer ==
    \/ SendEvent \/ ListenerEnd \/ BrowserReceive \/ BrowserEnd
    \/ \E d \in net : ListenerReceive(d)

DiscNext ==
    \/ SendEvent \/ NextEvent \/ DropReceiver
    \/ Tick \/ Broadcast \/ CancelListener \/ ListenerEnd
    \/ \E d \in net : Lose(d) \/ Alter(d) \/ ListenerReceive(d)
    \/ \E s \in Services : Advertise(s) \/ Unadvertise(s)
    \/ BrowserReceive \/ BrowserShutdown \/ BrowserEnd

\* The producer is a spawned task or a thread: the scheduler runs it whenever it
\* can move.  Nothing is assumed of the network, the clock or the reader.
DiscSpec == DiscInit /\ [][DiscNext]_discVars /\ WF_discVars(Producer)

----------------------------------------------------------------------------

(* A signed beacon that is delivered again and again is accepted during at *)
(* most twice BEACON_MAX_AGE_SECS, whatever the skew of the two clocks: the *)
(* window of verify is closed at both ends (beacon.rs, "Timestamp prevents *)
(* replay").                                                               *)
ReplaysEnd ==
    \A a, b \in accepted : a.id = b.id => b.at <= a.at + 2 * MaxAge

(* Nothing that arrives from the network ends the listener: it is over only *)
(* after its token was cancelled, although verify adds to a timestamp the  *)
(* datagram chose.                                                         *)
ListenerOutlivesDatagrams ==
    mode = "udp" /\ pc = "ended" => stopping

\* The peers a reader of all delivered events believes to be there.
View == {f \in Fingerprints :
           \E i \in 1..Len(delivered) :
              /\ delivered[i] = [kind |-> "Discovered", peer |-> f]
              /\ \A j \in i + 1..Len(delivered) : delivered[j] # [kind |-> "Removed", peer |-> f]}

\* The services that are discovered as f, and those that are removed as f.
Tells(f) == {s \in Services : TxtOf[s] = f}
Named(f) == {s \in Services : NameOf[s] = f}

(* Once the browser and its reader have nothing left to do: the reader     *)
(* believes in no peer whose services are all down, unless one of them has *)
(* another name than its TXT record says; and it has lost no peer that is  *)
(* up, unless some other service has its name.  A fingerprint that only    *)
(* MdnsAdvertiser uses is seen exactly while it is up.  Removals reach the *)
(* reader after the discoveries they cancel, and the bounded channel drops *)
(* neither.                                                                *)
ViewSettles ==
    mode = "mdns" /\ reading /\ pc = "idle" /\ queue = <<>> /\ chan = <<>> =>
        \A f \in Fingerprints :
            /\ Tells(f) \subseteq Named(f) /\ f \in View => Tells(f) \cap up # {}
            /\ (\A s \in Named(f), t \in Tells(f) : s = t) /\ Tells(f) \cap up # {} => f \in View

(* A cancelled listener, and the thread of a browser whose daemon accepted *)
(* the shutdown, end; only a reader that keeps its receiver and leaves the *)
(* channel full for ever keeps a listener, because it awaits room inside   *)
(* the branch of the select (listener.rs:64).                              *)
ProducerEnds ==
    <>[]stopping =>
        \/ <>[](pc = "ended")
        \/ <>[](pc = "sending" /\ reading /\ Len(chan) = Cap)
=============================================================================
