----------------------------- MODULE NonceCache -----------------------------
(***************************************************************************)
(* NoiseHandshake::verify_identity_payload with one nonce cache shared by  *)
(* concurrent handshakes: the freshness check of the identity payload, and *)
(* then, under the lock, NonceCache::check_and_insert.  The clock may move *)
(* between the two.                                                        *)
(*                                                                         *)
(* Payload timestamps are whole seconds of the sender's clock, which may   *)
(* be off by any amount; the ages of cache entries are measured in the     *)
(* finer ticks of the receiver's clock.  A payload may be presented more   *)
(* than once, and a copy of it may have been damaged or made by another    *)
(* identity: it is refused before the cache is looked at.                  *)
(***************************************************************************)
EXTENDS Integers, Sequences, FiniteSets

CONSTANTS
    Payloads,       \* what one (fingerprint, nonce) pair stands for
    Calls,          \* calls of verify_identity_payload
    Stamps,         \* timestamps a payload may carry
    TicksPerSec,
    SKEW,           \* TIMESTAMP_SKEW_SECS
    TTL,            \* NONCE_CACHE_TTL_SECS
    MAX_ENTRIES,
    MaxTime,        \* bound on the clock, in ticks
    None

ASSUME CacheAssumption ==
    /\ IsFiniteSet(Payloads) /\ IsFiniteSet(Calls)
    /\ Stamps \subseteq Int
    /\ TicksPerSec \in Nat \ {0}
    /\ SKEW \in Nat
    /\ TTL \in Nat /\ TTL >= 2 * SKEW
    /\ MAX_ENTRIES \in Nat \ {0}
    /\ MaxTime \in Nat
    /\ None \notin Payloads

VARIABLES
    clock,
    stamp,          \* the timestamp of each payload
    pc,             \* where each call is
    subject,        \* the payload of a call
    readAt,         \* when the call checked the timestamp
    decidedAt,      \* history: when the call got the lock
    inner,          \* the set of the cache
    order,          \* its queue: payloads with the time of their insertion
    displaced       \* history: payloads evicted for want of room

cacheVars == <<inner, order>>
ncVars == <<clock, stamp, pc, subject, readAt, decidedAt, inner, order, displaced>>

\* What create makes: each payload has a nonce of its own and the second of the
\* sender's clock at which it was made.
Created == [Payloads -> Stamps]

\* How the bytes of a call differ from what create signed: not at all, in their
\* number, in the version, in a signed field, or signed by another identity.
Forms == {"intact", "resized", "version", "altered", "foreign"}

NCInit ==
    /\ clock = 0
    /\ stamp \in Created
    /\ pc = [c \in Calls |-> "start"]
    /\ subject = [c \in Calls |-> None]
    /\ readAt = [c \in Calls |-> 0] /\ decidedAt = [c \in Calls |-> 0]
    /\ inner = {} /\ order = <<>>
    /\ displaced = {}

-----------------------------------------------------------------------------
(* IdentityBindPayload::verify.                                            *)

Second(t) == t \div TicksPerSec

\* Mutant: the age of a payload is not bounded.
FreshWhenOld(p) == stamp[p] <= Second(clock) + SKEW

\* The timestamp is within SKEW seconds of the clock, on both sides.
Fresh(p) ==
    /\ stamp[p] <= Second(clock) + SKEW
    /\ stamp[p] >= Second(clock) - SKEW

\* The signature covers every field after the domain separator.
SignatureValid(f) == f \notin {"version", "altered"}

\* The keys of the payload derive to the fingerprint the handshake expects.
FingerprintMatches(f) == f # "foreign"

\* from_bytes takes exactly 149 bytes.
Parses(f) == f # "resized"

\* verify returns the identity, or an error.
Verify(c, p, f) ==
    /\ pc[c] = "start"
    /\ pc' = [pc EXCEPT ![c] =
                IF Parses(f) /\ f # "version" /\ Fresh(p) /\ SignatureValid(f) /\ FingerprintMatches(f)
                THEN "cache" ELSE "refused"]
    /\ subject' = [subject EXCEPT ![c] = p]
    /\ readAt' = [readAt EXCEPT ![c] = clock]
    /\ UNCHANGED <<clock, stamp, decidedAt, cacheVars, displaced>>

-----------------------------------------------------------------------------
(* NonceCache::check_and_insert.                                           *)

Expired(e) == clock - e.at > TTL * TicksPerSec

\* The queue without the expired entries at its front.
Unexpired ==
    LET n == CHOOSE k \in 0 .. Len(order) :
                /\ \A i \in 1 .. k : Expired(order[i])
                /\ k < Len(order) => ~Expired(order[k + 1])
    IN  SubSeq(order, n + 1, Len(order))

Keys(entries) == {entries[i].payload : i \in 1 .. Len(entries)}

\* Mutant: expired entries leave the queue and stay in the set.
RememberedForever == inner

\* The set after the expired entries were removed from it.
Remembered == inner \ (Keys(order) \ Keys(Unexpired))

\* The queue after the oldest entry had to make room, if there was none.
Room(entries) ==
    IF Cardinality(Remembered) >= MAX_ENTRIES /\ entries # <<>> THEN Tail(entries) ELSE entries

Decide(c, verdict) ==
    /\ pc[c] = "cache"
    /\ pc' = [pc EXCEPT ![c] = verdict]
    /\ decidedAt' = [decidedAt EXCEPT ![c] = clock]
    /\ UNCHANGED <<clock, stamp, subject, readAt>>

\* The nonce was seen before: ReplayDetected.
CacheHit(c) ==
    /\ Decide(c, "replay")
    /\ subject[c] \in Remembered
    /\ inner' = Remembered
    /\ order' = Unexpired
    /\ UNCHANGED displaced

\* The nonce is new and is remembered.
CacheInsert(c) ==
    /\ Decide(c, "accepted")
    /\ subject[c] \notin Remembered
    /\ LET kept == Room(Unexpired)
           out == Keys(Unexpired) \ Keys(kept)
       IN  /\ inner' = (Remembered \ out) \cup {subject[c]}
           /\ order' = Append(kept, [payload |-> subject[c], at |-> clock])
           /\ displaced' = displaced \cup out

Tick ==
    /\ clock < MaxTime
    /\ clock' = clock + 1
    /\ UNCHANGED <<stamp, pc, subject, readAt, decidedAt, cacheVars, displaced>>

NCNext ==
    \/ \E c \in Calls :
        \/ \E p \in Payloads, f \in Forms : Verify(c, p, f)
        \/ CacheHit(c) \/ CacheInsert(c)
    \/ Tick

NCSpec == NCInit /\ [][NCNext]_ncVars

-----------------------------------------------------------------------------
(* Properties.                                                             *)

Accepted == {c \in Calls : pc[c] = "accepted"}

\* The call got the lock in the tick in which it checked the timestamp.
Prompt(c) == readAt[c] = decidedAt[c]

\* "Nonce replay cache prevents duplicate payloads within the TTL window":
\* no payload is accepted twice, since an entry outlives the time in which
\* its timestamp is accepted.  This needs that the payload was not evicted
\* for want of room, that the calls were not held up before the lock, and
\* that the first acceptance was not in the very first second of the window:
\* timestamps are truncated to seconds, ages are not.
AcceptedOnce ==
    \A c, d \in Accepted :
        \/ c = d \/ subject[c] # subject[d]
        \/ subject[c] \in displaced
        \/ ~Prompt(c) \/ ~Prompt(d)
        \/ \E e \in {c, d} : stamp[subject[e]] = Second(readAt[e]) + SKEW

\* A payload is refused as a duplicate only within TTL seconds of an
\* acceptance of it: the cache forgets, and never accuses a new payload.
RefusedOnlyIfRecent ==
    \A c \in Calls : pc[c] = "replay" =>
        \E d \in Accepted :
            /\ subject[d] = subject[c]
            /\ decidedAt[d] <= decidedAt[c]
            /\ decidedAt[c] <= decidedAt[d] + TTL * TicksPerSec
=============================================================================
