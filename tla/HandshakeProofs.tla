-------------------------- MODULE HandshakeProofs ---------------------------
(***************************************************************************)
(* The two ends of a handshake agree, for any number of sessions and any   *)
(* number of permits; and the nonce cache that the handshakes share keeps  *)
(* a payload from being accepted twice, for any number of payloads and     *)
(* calls, any clock, and any size and lifetime of the cache.               *)
(***************************************************************************)
EXTENDS Handshake, NonceCache, SequenceTheorems, WellFoundedInduction, TLAPS

IniStates == Failures \cup Sending \cup {"idle", "unreachable", "done"}
ResStates == Failures \cup Holding \cup {"none", "queued", "rejected", "done"}

\* The part of the type invariant that the argument needs.
Shape ==
    /\ ini \in [Sessions -> IniStates] /\ res \in [Sessions -> ResStates]
    /\ msg1 \in [Sessions -> BOOLEAN] /\ msg2 \in [Sessions -> BOOLEAN]
    /\ verified \in [Sessions -> BOOLEAN]
    /\ iniNoise \in [Sessions -> NoiseStates] /\ resNoise \in [Sessions -> NoiseStates]
    /\ srv \in {"running", "stopped", "failed", "vanished"}

\* Where a task that has let its answer go may be.
Answered == {"done", "rejected", "timeout", "cancelled", "reset", "vanished"}

\* What the state of a session says about its messages: the answer follows the
\* verification, the verification follows the message, and an initiator that
\* found the connection closed leaves a responder that will never succeed.
Linked(s) ==
    /\ verified[s] => msg1[s]
    /\ res[s] = "read" => resNoise[s] = "start"
    /\ res[s] = "answer" => verified[s]
    /\ res[s] = "answer" => resNoise[s] = "finished"
    /\ msg2[s] => verified[s] /\ res[s] \in Answered
    /\ res[s] = "done" => msg2[s]
    /\ ini[s] = "done" => msg2[s]
    /\ ini[s] \in {"idle", "unreachable"} => res[s] = "none"
    /\ ini[s] = "closed" => \/ res[s] \in (Failures \cup {"rejected"})
                            \/ res[s] = "none" /\ srv # "running"

HandshakeInv == Shape /\ \A s \in Sessions : Linked(s)

\* An initiator that fails keeps the invariant, if it says "closed" only where
\* the responder will never succeed.
LEMMA AbortKeeps ==
    ASSUME HandshakeInv, NEW t \in Sessions, NEW why \in Failures, IniAbort(t, why),
           why = "closed" => \/ res[t] \in Failures \cup {"rejected"}
                             \/ res[t] = "none" /\ srv # "running"
    PROVE  HandshakeInv'
<1> USE DEF HandshakeInv, IniAbort, IniMove, resVars, Failures, Sending
<1>1. PICK left \in {msg1[t], TRUE} : msg1' = [msg1 EXCEPT ![t] = left]
  OBVIOUS
<1>2. Shape'
  BY <1>1 DEF Shape, IniStates, NoiseStates
<1>3. ASSUME NEW s \in Sessions, s # t PROVE Linked(s)'
  BY <1>1, <1>3 DEF Linked, Shape
<1>4. Linked(t)'
  BY <1>1 DEF Linked, Shape
<1> QED
  BY <1>2, <1>3, <1>4

\* The steps of an initiator and its caller keep the invariant.
LEMMA InitiatorKeeps ==
    ASSUME HandshakeInv, NEW t \in Sessions,
           \/ TcpConnect(t) \/ TcpConnectError(t) \/ IniStep(t) \/ IniReset(t)
           \/ IniVanish(t) \/ CancelInitiator(t)
    PROVE  HandshakeInv'
<1> USE DEF HandshakeInv, Shape, Linked, Answered, IniStates, ResStates, Failures, Sending,
            Holding, NoiseStates, IniMove, resVars, iniVars
<1>1. CASE TcpConnect(t)
  BY <1>1 DEF TcpConnect, NewInitiator
<1>2. CASE TcpConnectError(t)
  BY <1>2 DEF TcpConnectError
<1>3. CASE IniSend(t)
  BY <1>3 DEF IniSend, WriteMessage
<1>4. CASE IniRecv(t)
  BY <1>4 DEF IniRecv, ReadMessage
<1>5. CASE IniCancelled(t)
  BY <1>5, AbortKeeps DEF IniCancelled
<1>6. CASE IniTimeout(t)
  BY <1>6, AbortKeeps DEF IniTimeout
<1>7. CASE IniClosed(t)
  BY <1>7, AbortKeeps DEF IniClosed, ResEnded
<1>8. CASE IniReset(t)
  BY <1>8, AbortKeeps DEF IniReset
<1>9. CASE IniVanish(t)
  BY <1>9, AbortKeeps DEF IniVanish
<1>10. CASE CancelInitiator(t)
  BY <1>10 DEF CancelInitiator
<1> QED
  BY <1>1, <1>2, <1>3, <1>4, <1>5, <1>6, <1>7, <1>8, <1>9, <1>10 DEF IniStep

\* The steps of a task of the server keep the invariant.
LEMMA ResponderKeeps ==
    ASSUME HandshakeInv, NEW t \in Sessions,
           Accept(t) \/ Acquire(t) \/ ResStep(t) \/ ResReset(t)
    PROVE  HandshakeInv'
<1> USE DEF HandshakeInv, Shape, Linked, Answered, IniStates, ResStates, Failures, Sending,
            Holding, NoiseStates, ResMove, iniVars
<1>1. CASE Accept(t)
  BY <1>1 DEF Accept
<1>2. CASE Acquire(t)
  BY <1>2 DEF Acquire, NewResponder
<1>3. CASE ResRecv(t)
  <2>1. CASE /\ ResMove(t, "answer") /\ verified' = [verified EXCEPT ![t] = TRUE]
             /\ resNoise' = [resNoise EXCEPT ![t] = WriteMessage(ReadMessage(@))]
    <3>1. Shape'
      BY <1>3, <2>1 DEF ResRecv, ReadMessage, WriteMessage
    <3>2. ASSUME NEW s \in Sessions, s # t PROVE Linked(s)'
      BY <1>3, <2>1, <3>2 DEF ResRecv, ReadMessage, WriteMessage
    <3>3. Linked(t)'
      BY <1>3, <2>1 DEF ResRecv, ReadMessage, WriteMessage
    <3> QED
      BY <3>1, <3>2, <3>3
  <2>2. CASE /\ ResMove(t, "refused") /\ UNCHANGED verified
             /\ resNoise' = [resNoise EXCEPT ![t] = "none"]
    BY <1>3, <2>2 DEF ResRecv, ReadMessage, WriteMessage
  <2> QED
    BY <1>3, <2>1, <2>2 DEF ResRecv, ReadMessage, WriteMessage
<1>4. CASE ResSend(t)
  BY <1>4 DEF ResSend, IntoTransport, IsComplete
<1>5. CASE ResCancelled(t)
  BY <1>5 DEF ResCancelled, ResAbort
<1>6. CASE ResTimeout(t)
  BY <1>6 DEF ResTimeout, ResAbort
<1>7. CASE ResReset(t)
  BY <1>7 DEF ResReset, ResAbort
<1>8. CASE ResClosed(t)
  BY <1>8 DEF ResClosed, ResAbort
<1> QED
  BY <1>1, <1>2, <1>3, <1>4, <1>5, <1>6, <1>7, <1>8 DEF ResStep

\* The invariant holds in every reachable state.
THEOREM HandshakeInvariant == Spec => []HandshakeInv
<1> USE DEF HandshakeInv, Shape, Linked, Answered, IniStates, ResStates, Failures, Sending,
            Holding, NoiseStates
<1>1. Init => HandshakeInv
  BY DEF Init
<1>2. HandshakeInv /\ [Next]_vars => HandshakeInv'
  <2> SUFFICES ASSUME HandshakeInv, [Next]_vars PROVE HandshakeInv'
    OBVIOUS
  <2>1. CASE AcceptError
    BY <2>1 DEF AcceptError, iniVars, resVars
  <2>2. CASE SrvStop
    BY <2>2 DEF SrvStop, iniVars, resVars
  <2>3. CASE CancelServer
    BY <2>3 DEF CancelServer, iniVars, resVars
  <2>4. CASE SrvVanish
    <3>1. PICK left \in SUBSET {s \in Sessions : res[s] = "answer"} :
            msg2' = [s \in Sessions |-> msg2[s] \/ s \in left]
      BY <2>4 DEF SrvVanish
    <3>2. Shape'
      BY <2>4, <3>1 DEF SrvVanish, iniVars
    <3>3. ASSUME NEW s \in Sessions PROVE Linked(s)'
      BY <2>4, <3>1 DEF SrvVanish, iniVars
    <3> QED
      BY <3>2, <3>3
  <2>5. CASE UNCHANGED vars
    BY <2>5 DEF vars, iniVars, resVars
  <2> QED
    BY <2>1, <2>2, <2>3, <2>4, <2>5, InitiatorKeeps, ResponderKeeps DEF Next
<1> QED
  BY <1>1, <1>2, PTL DEF Spec

\* run_initiator_handshake returns a session only if this connection's responder
\* has read and verified the initiator's payload.
THEOREM InitiatorVerified == Spec => []SessionIsMutual
<1>1. HandshakeInv => SessionIsMutual
  BY DEF HandshakeInv, Linked, SessionIsMutual, IntoTransport, IsComplete
<1> QED
  BY <1>1, HandshakeInvariant, PTL

\* run_initiator_handshake and run_responder_handshake disagree only for one of
\* the listed causes.
THEOREM HandshakeAgreement == Spec => []HalfOpenHasCause
<1>1. HandshakeInv => HalfOpenHasCause
  BY DEF HandshakeInv, Shape, Linked, Answered, HalfOpenHasCause, Failures
<1> QED
  BY <1>1, HandshakeInvariant, PTL

-----------------------------------------------------------------------------
(* The nonce cache.                                                        *)

Entry == [payload : Payloads, at : Nat]

\* How long an entry is remembered, in ticks.
Lifetime == TTL * TicksPerSec

CallStates == {"start", "refused", "cache", "accepted", "replay"}

\* The part of the type invariant that the argument needs.
CacheShape ==
    /\ clock \in Nat
    /\ stamp \in [Payloads -> Int]
    /\ pc \in [Calls -> CallStates]
    /\ subject \in [Calls -> Payloads \cup {None}]
    /\ \A c \in Calls : pc[c] # "start" => subject[c] \in Payloads
    /\ readAt \in [Calls -> Nat] /\ decidedAt \in [Calls -> Nat]
    /\ order \in Seq(Entry)

\* Nothing is queued twice, and the queue is sorted by age.
Sorted(q) ==
    /\ \A i, j \in 1 .. Len(q) : i < j =>
        q[i].payload # q[j].payload /\ q[i].at <= q[j].at
    /\ \A i \in 1 .. Len(q) : q[i].at <= clock

\* The queue and the set agree.
QueueOrdered == inner = Keys(order) /\ Sorted(order)

\* A call that passed verify saw a timestamp within SKEW of its own reading.
WasFresh(c) ==
    pc[c] \in {"cache", "accepted"} =>
        /\ stamp[subject[c]] <= Second(readAt[c]) + SKEW
        /\ stamp[subject[c]] >= Second(readAt[c]) - SKEW

Receipt(c) == [payload |-> subject[c], at |-> decidedAt[c]]

\* Every entry comes from an acceptance.
Traced == \A i \in 1 .. Len(order) : \E d \in Accepted : order[i] = Receipt(d)

\* Every acceptance is remembered, or expired, or was evicted.
Kept(d) ==
    \/ subject[d] \in displaced
    \/ clock - decidedAt[d] > Lifetime
    \/ \E i \in 1 .. Len(order) : order[i] = Receipt(d)

CacheInv ==
    /\ CacheShape
    /\ QueueOrdered
    /\ \A c \in Calls : WasFresh(c)
    /\ Traced
    /\ \A d \in Accepted : Kept(d)
    /\ AcceptedOnce
    /\ RefusedOnlyIfRecent

\* A nonempty set of naturals has a least member.
LEMMA LeastNat ==
    ASSUME NEW T, T \subseteq Nat, T # {}
    PROVE  \E x \in T : \A y \in T : x <= y
<1> DEFINE R == OpToRel(<, Nat)
<1>1. IsWellFoundedOn(R, Nat)
  BY NatLessThanWellFounded
<1>2. \A x, y \in Nat : y < x => <<y, x>> \in R
  BY DEF OpToRel
<1> HIDE DEF R
<1>3. PICK x \in T : \A y \in T : ~ (<<y, x>> \in R)
  BY <1>1, WFMin
<1>4. ASSUME NEW y \in T PROVE x <= y
  <2>1. x \in Nat /\ y \in Nat
    OBVIOUS
  <2>2. ~(y < x)
    BY <1>2, <1>3, <2>1
  <2> QED
    BY <2>1, <2>2
<1> QED
  BY <1>3, <1>4

\* A timestamp that verify accepts at a, not in the first second of its window,
\* and again at b: the two readings are less than a lifetime apart.
LEMMA WindowShorterThanLifetime ==
    ASSUME NEW s \in Int, NEW a \in Nat, NEW b \in Nat,
           s <= Second(a) + SKEW, s # Second(a) + SKEW, s >= Second(b) - SKEW
    PROVE  ~(b - a > Lifetime)
<1> DEFINE u == Second(a)
           v == Second(b)
<1>1. /\ TicksPerSec \in Nat /\ TicksPerSec > 0
      /\ SKEW \in Nat /\ TTL \in Nat /\ TTL >= 2 * SKEW
  BY CacheAssumption
<1>2. u \in Nat /\ v \in Nat
  BY <1>1 DEF Second
<1>3. u * TicksPerSec <= a
  BY <1>1 DEF Second
<1>4. b < v * TicksPerSec + TicksPerSec
  BY <1>1 DEF Second
<1> HIDE DEF u, v
<1>5. s <= u + SKEW /\ s # u + SKEW /\ s >= v - SKEW
  BY DEF u, v
<1>6. v + 1 <= u + TTL
  BY <1>1, <1>2, <1>5
<1>7. (v + 1) * TicksPerSec <= (u + TTL) * TicksPerSec
  BY <1>1, <1>2, <1>6
<1>8. (v + 1) * TicksPerSec = v * TicksPerSec + TicksPerSec
  BY <1>1, <1>2
<1>9. (u + TTL) * TicksPerSec = u * TicksPerSec + TTL * TicksPerSec
  BY <1>1, <1>2
<1>10. /\ v * TicksPerSec \in Nat /\ u * TicksPerSec \in Nat
       /\ TTL * TicksPerSec \in Nat
  BY <1>1, <1>2
<1> QED
  BY <1>1, <1>2, <1>3, <1>4, <1>7, <1>8, <1>9, <1>10 DEF Lifetime

\* The queue q is the queue s without its first k entries.
Rest(q, s, k) ==
    /\ k \in 0 .. Len(s)
    /\ q \in Seq(Entry)
    /\ Len(q) = Len(s) - k
    /\ \A i \in 1 .. Len(q) : q[i] = s[k + i]

\* What the loop at the start of check_and_insert leaves: it drops expired
\* entries only, and it stops at one that is not.
LEMMA UnexpiredIsRest ==
    ASSUME CacheShape
    PROVE  \E n \in 0 .. Len(order) :
               /\ Rest(Unexpired, order, n)
               /\ \A i \in 1 .. n : Expired(order[i])
               /\ n < Len(order) => ~Expired(order[n + 1])
<1> DEFINE Stop(k) == /\ \A i \in 1 .. k : Expired(order[i])
                      /\ k < Len(order) => ~Expired(order[k + 1])
           n == CHOOSE k \in 0 .. Len(order) : Stop(k)
           T == {k \in 0 .. Len(order) : k < Len(order) => ~Expired(order[k + 1])}
<1>1. order \in Seq(Entry) /\ Len(order) \in Nat
  BY LenProperties DEF CacheShape
<1>2. PICK m \in T : \A k \in T : m <= k
  <2>1. T \subseteq Nat
    BY <1>1
  <2>2. Len(order) \in T
    BY <1>1
  <2> HIDE DEF T
  <2> QED
    BY <2>1, <2>2, LeastNat
<1>3. Stop(m)
  <2>1. m \in 0 .. Len(order) /\ (m < Len(order) => ~Expired(order[m + 1]))
    BY <1>2
  <2>2. ASSUME NEW i \in 1 .. m PROVE Expired(order[i])
    <3>1. i - 1 \in 0 .. Len(order) /\ ~(m <= i - 1) /\ (i - 1) + 1 = i
      BY <1>1, <2>1
    <3>2. i - 1 \notin T
      BY <1>2, <3>1
    <3> QED
      BY <3>1, <3>2
  <2> QED
    BY <2>1, <2>2
<1>4. m \in 0 .. Len(order)
  BY <1>2
<1>5. n \in 0 .. Len(order) /\ Stop(n)
  <2> HIDE DEF Stop
  <2> QED
    BY <1>3, <1>4
<1>6. Unexpired = SubSeq(order, n + 1, Len(order))
  BY DEF Unexpired
<1> HIDE DEF n
<1>7. n \in Nat /\ n <= Len(order) /\ n + 1 \in Int
  BY <1>1, <1>5
<1>8. \A i \in n + 1 .. Len(order) : order[i] \in Entry
  BY <1>1, <1>7, ElementOfSeq
<1>9. /\ Unexpired \in Seq(Entry)
      /\ Len(Unexpired) = IF n + 1 <= Len(order) THEN Len(order) - (n + 1) + 1 ELSE 0
      /\ \A i \in 1 .. Len(order) - (n + 1) + 1 : Unexpired[i] = order[(n + 1) + i - 1]
  BY <1>1, <1>6, <1>7, <1>8, SubSeqProperties
<1>10. Len(Unexpired) = Len(order) - n
  BY <1>1, <1>7, <1>9
<1>11. ASSUME NEW i \in 1 .. Len(Unexpired) PROVE Unexpired[i] = order[n + i]
  <2>1. i \in 1 .. Len(order) - (n + 1) + 1 /\ (n + 1) + i - 1 = n + i
    BY <1>1, <1>7, <1>10
  <2> QED
    BY <1>9, <2>1
<1>12. Rest(Unexpired, order, n)
  BY <1>5, <1>9, <1>10, <1>11 DEF Rest
<1> QED
  BY <1>5, <1>12

\* A queue without its first entries is still sorted, and holds nothing new.
LEMMA RestSorted ==
    ASSUME NEW s \in Seq(Entry), NEW q, NEW k, Rest(q, s, k), Sorted(s)
    PROVE  Sorted(q) /\ Keys(q) \subseteq Keys(s)
<1>1. /\ Len(s) \in Nat /\ k \in Nat /\ k <= Len(s) /\ Len(q) = Len(s) - k
      /\ \A i \in 1 .. Len(q) : q[i] = s[k + i]
  BY LenProperties DEF Rest
<1>2. \A i \in 1 .. Len(q) : k + i \in 1 .. Len(s)
  BY <1>1
<1>3. \A i, j \in 1 .. Len(q) : i < j => k + i < k + j
  BY <1>1
<1>4. Sorted(q)
  <2>1. ASSUME NEW i \in 1 .. Len(q), NEW j \in 1 .. Len(q), i < j
        PROVE  q[i].payload # q[j].payload /\ q[i].at <= q[j].at
    <3>1. /\ k + i \in 1 .. Len(s) /\ k + j \in 1 .. Len(s) /\ k + i < k + j
          /\ q[i] = s[k + i] /\ q[j] = s[k + j]
      BY <1>1, <1>2, <1>3, <2>1
    <3> QED
      BY <3>1 DEF Sorted
  <2>2. ASSUME NEW i \in 1 .. Len(q) PROVE q[i].at <= clock
    BY <1>1, <1>2 DEF Sorted
  <2> QED
    BY <2>1, <2>2 DEF Sorted
<1>5. Keys(q) \subseteq Keys(s)
  BY <1>1, <1>2 DEF Keys
<1> QED
  BY <1>4, <1>5

\* So is a queue to which a new entry of this moment is added.
LEMMA AppendSorted ==
    ASSUME CacheShape, NEW q \in Seq(Entry), Sorted(q), NEW e \in Entry,
           e.at = clock, e.payload \notin Keys(q)
    PROVE  Sorted(Append(q, e)) /\ Keys(Append(q, e)) = Keys(q) \cup {e.payload}
<1> DEFINE r == Append(q, e)
           l == Len(q)
<1>1. l \in Nat
  BY LenProperties
<1>2. Len(r) = l + 1 /\ (\A i \in 1 .. l : r[i] = q[i]) /\ r[l + 1] = e
  BY AppendProperties
<1>3. \A i \in 1 .. l : q[i].payload # e.payload /\ q[i].at <= e.at
  BY DEF Keys, Sorted
<1>4. \A i \in 1 .. Len(r) : i \in 1 .. l \/ i = l + 1
  BY <1>1, <1>2
<1>5. \A i \in 1 .. l : i \in 1 .. Len(r)
  BY <1>1, <1>2
<1>6. l + 1 \in 1 .. Len(r)
  BY <1>1, <1>2
<1> HIDE DEF r
<1>7. Sorted(r)
  <2>1. ASSUME NEW i \in 1 .. Len(r), NEW j \in 1 .. Len(r), i < j
        PROVE  r[i].payload # r[j].payload /\ r[i].at <= r[j].at
    <3>1. i \in 1 .. l
      BY <1>1, <1>2, <2>1
    <3>2. CASE j \in 1 .. l
      BY <1>2, <2>1, <3>1, <3>2 DEF Sorted
    <3>3. CASE j = l + 1
      BY <1>2, <1>3, <3>1, <3>3
    <3> QED
      BY <1>4, <3>2, <3>3
  <2>2. ASSUME NEW i \in 1 .. Len(r) PROVE r[i].at <= clock
    <3>1. CASE i \in 1 .. l
      BY <1>2, <3>1 DEF Sorted
    <3>2. CASE i = l + 1
      BY <1>2, <3>2 DEF CacheShape
    <3> QED
      BY <1>4, <3>1, <3>2
  <2> QED
    BY <2>1, <2>2 DEF Sorted
<1>8. Keys(r) = Keys(q) \cup {e.payload}
  BY <1>2, <1>4, <1>5, <1>6 DEF Keys
<1> QED
  BY <1>7, <1>8 DEF r

\* The set after expiry is what the queue after expiry holds.
LEMMA RememberedIsUnexpired ==
    ASSUME CacheShape, QueueOrdered
    PROVE  Remembered = Keys(Unexpired) /\ Sorted(Unexpired)
<1>1. PICK n : Rest(Unexpired, order, n)
  BY UnexpiredIsRest
<1>2. Sorted(Unexpired) /\ Keys(Unexpired) \subseteq Keys(order)
  BY <1>1, RestSorted DEF CacheShape, QueueOrdered
<1> QED
  BY <1>2 DEF Remembered, QueueOrdered

\* Making room drops at most the oldest entry.
LEMMA RoomIsRest ==
    ASSUME NEW s \in Seq(Entry), NEW q, NEW k, Rest(q, s, k)
    PROVE  \/ Room(q) = q
           \/ k < Len(s) /\ Rest(Room(q), s, k + 1)
<1>1. CASE Room(q) # q
  <2>1. Room(q) = Tail(q) /\ q # <<>>
    BY <1>1 DEF Room
  <2>2. /\ Len(s) \in Nat /\ k \in Nat /\ k <= Len(s) /\ Len(q) = Len(s) - k
        /\ q \in Seq(Entry) /\ \A i \in 1 .. Len(q) : q[i] = s[k + i]
    BY LenProperties DEF Rest
  <2>3. Len(q) \in Nat \ {0}
    BY <2>1, <2>2, EmptySeq
  <2>4. /\ Tail(q) \in Seq(Entry) /\ Len(Tail(q)) = Len(q) - 1
        /\ \A i \in 1 .. Len(Tail(q)) : Tail(q)[i] = q[i + 1]
    BY <2>1, <2>2, HeadTailProperties
  <2>5. k < Len(s) /\ k + 1 \in 0 .. Len(s) /\ Len(Tail(q)) = Len(s) - (k + 1)
    BY <2>2, <2>3, <2>4
  <2>6. ASSUME NEW i \in 1 .. Len(Tail(q)) PROVE Tail(q)[i] = s[(k + 1) + i]
    <3>1. i + 1 \in 1 .. Len(q) /\ k + (i + 1) = (k + 1) + i
      BY <2>2, <2>3, <2>4
    <3> QED
      BY <2>2, <2>4, <3>1
  <2> QED
    BY <2>1, <2>4, <2>5, <2>6 DEF Rest
<1> QED
  BY <1>1

\* An entry that the loop keeps is not expired, and one that it drops is.
LEMMA ExpiryIsExact ==
    ASSUME CacheShape, QueueOrdered, NEW i \in 1 .. Len(order)
    PROVE  Expired(order[i]) <=> ~\E j \in 1 .. Len(Unexpired) : Unexpired[j] = order[i]
<1>1. order \in Seq(Entry) /\ Len(order) \in Nat
  BY LenProperties DEF CacheShape
<1>2. PICK n \in 0 .. Len(order) :
        /\ Rest(Unexpired, order, n)
        /\ \A k \in 1 .. n : Expired(order[k])
        /\ n < Len(order) => ~Expired(order[n + 1])
  BY UnexpiredIsRest
<1>3. Len(Unexpired) = Len(order) - n /\ \A j \in 1 .. Len(Unexpired) : Unexpired[j] = order[n + j]
  BY <1>2 DEF Rest
<1>4. ASSUME NEW k \in n + 1 .. Len(order) PROVE ~Expired(order[k])
  <2>1. n + 1 \in 1 .. Len(order) /\ k \in 1 .. Len(order) /\ n < Len(order)
    BY <1>1, <1>2
  <2>2. order[n + 1] \in Entry /\ order[k] \in Entry
    BY <1>1, <2>1, ElementOfSeq
  <2>3. order[n + 1].at \in Nat /\ order[k].at \in Nat
    BY <2>2 DEF Entry
  <2>4. order[n + 1].at <= order[k].at
    <3>1. CASE k = n + 1
      BY <2>3, <3>1
    <3>2. CASE n + 1 < k
      BY <2>1, <3>2 DEF QueueOrdered, Sorted
    <3> QED
      BY <1>2, <2>1, <3>1, <3>2
  <2>5. ~(clock - order[n + 1].at > Lifetime)
    BY <1>2, <2>1 DEF Expired, Lifetime
  <2>6. Lifetime \in Nat /\ clock \in Nat
    BY CacheAssumption DEF Lifetime, CacheShape
  <2>7. ~(clock - order[k].at > Lifetime)
    BY <2>3, <2>4, <2>5, <2>6
  <2> QED
    BY <2>7 DEF Expired, Lifetime
<1>5. \A j \in 1 .. Len(Unexpired) : n + j \in n + 1 .. Len(order)
  BY <1>1, <1>2, <1>3
<1>6. ASSUME ~Expired(order[i]) PROVE \E j \in 1 .. Len(Unexpired) : Unexpired[j] = order[i]
  <2>1. i \notin 1 .. n
    BY <1>2, <1>6
  <2>2. i - n \in 1 .. Len(Unexpired) /\ n + (i - n) = i
    BY <1>1, <1>2, <1>3, <2>1
  <2> QED
    BY <1>3, <2>2
<1>7. ASSUME NEW j \in 1 .. Len(Unexpired), Unexpired[j] = order[i] PROVE ~Expired(order[i])
  BY <1>3, <1>4, <1>5, <1>7
<1> QED
  BY <1>6, <1>7

\* What the queue after expiry holds was in the queue before.
LEMMA UnexpiredWasQueued ==
    ASSUME CacheShape, NEW j \in 1 .. Len(Unexpired)
    PROVE  \E i \in 1 .. Len(order) : Unexpired[j] = order[i]
<1>1. Len(order) \in Nat
  BY LenProperties DEF CacheShape
<1>2. PICK n \in 0 .. Len(order) : Rest(Unexpired, order, n)
  BY UnexpiredIsRest
<1>3. Len(Unexpired) = Len(order) - n /\ Unexpired[j] = order[n + j]
  BY <1>2 DEF Rest
<1>4. n + j \in 1 .. Len(order)
  BY <1>1, <1>2, <1>3
<1> QED
  BY <1>3, <1>4

\* A call that was not let through leaves the accepted calls as they were.
LEMMA AcceptedUnchanged ==
    ASSUME CacheShape, NEW c \in Calls, NEW where, pc[c] # "accepted", where # "accepted",
           pc' = [pc EXCEPT ![c] = where]
    PROVE  /\ Accepted' = Accepted
           /\ c \notin Accepted
BY DEF Accepted, CacheShape

\* A refusal by the cache keeps the invariant.
LEMMA HitKeeps ==
    ASSUME CacheInv, NEW c \in Calls, CacheHit(c)
    PROVE  CacheInv'
<1> USE DEF CacheInv
<1>1. /\ pc[c] = "cache" /\ pc' = [pc EXCEPT ![c] = "replay"]
      /\ decidedAt' = [decidedAt EXCEPT ![c] = clock]
      /\ clock' = clock /\ stamp' = stamp /\ subject' = subject /\ readAt' = readAt
      /\ subject[c] \in Remembered /\ inner' = Remembered /\ order' = Unexpired
      /\ displaced' = displaced
  BY DEF CacheHit, Decide
<1>2. Accepted' = Accepted /\ c \notin Accepted
  BY <1>1, AcceptedUnchanged
<1>3. PICK n \in 0 .. Len(order) : Rest(Unexpired, order, n)
  BY UnexpiredIsRest
<1>4. CacheShape'
  BY <1>1, <1>3 DEF CacheShape, CallStates, Rest
<1>5. QueueOrdered'
  <2>1. Remembered = Keys(Unexpired) /\ Sorted(Unexpired)
    BY RememberedIsUnexpired
  <2>2. inner' = Keys(order')
    BY <1>1, <2>1
  <2>3. Sorted(order)'
    BY <1>1, <2>1 DEF Sorted
  <2> QED
    BY <2>2, <2>3 DEF QueueOrdered, Keys
<1>6. \A d \in Calls : WasFresh(d)'
  BY <1>1 DEF WasFresh, CacheShape, Second
<1>7. \A d \in Accepted : d \in Calls /\ Receipt(d)' = Receipt(d) /\ decidedAt'[d] = decidedAt[d]
  BY <1>1, <1>2 DEF Receipt, CacheShape, Accepted
<1>8. Traced'
  <2>1. ASSUME NEW j \in 1 .. Len(Unexpired) PROVE \E d \in Accepted : Unexpired[j] = Receipt(d)
    BY UnexpiredWasQueued DEF Traced
  <2> QED
    BY <1>1, <1>2, <1>7, <2>1 DEF Traced
<1>9. ASSUME NEW d \in Accepted PROVE Kept(d)'
  <2>1. CASE subject[d] \in displaced
    BY <1>1, <2>1 DEF Kept
  <2>2. CASE clock - decidedAt[d] > Lifetime
    BY <1>1, <1>7, <2>2 DEF Kept
  <2>3. ASSUME NEW i \in 1 .. Len(order), order[i] = Receipt(d) PROVE Kept(d)'
    <3>1. CASE Expired(order[i])
      BY <1>1, <1>7, <2>3, <3>1 DEF Kept, Expired, Receipt, Lifetime
    <3>2. CASE \E j \in 1 .. Len(Unexpired) : Unexpired[j] = order[i]
      BY <1>1, <1>7, <2>3, <3>2 DEF Kept
    <3> QED
      BY <3>1, <3>2, ExpiryIsExact
  <2> QED
    BY <2>1, <2>2, <2>3 DEF Kept
<1>10. AcceptedOnce'
  BY <1>1, <1>2, <1>7 DEF AcceptedOnce, Prompt, Second
<1>11. RefusedOnlyIfRecent'
  <2>1. ASSUME NEW e \in Calls, pc'[e] = "replay", e # c
        PROVE  \E d \in Accepted' : /\ subject'[d] = subject'[e]
                                    /\ decidedAt'[d] <= decidedAt'[e]
                                    /\ decidedAt'[e] <= decidedAt'[d] + TTL * TicksPerSec
    <3>1. pc[e] = "replay" /\ decidedAt'[e] = decidedAt[e]
      BY <1>1, <2>1 DEF CacheShape
    <3> QED
      BY <1>1, <1>2, <1>7, <3>1 DEF RefusedOnlyIfRecent
  <2>2. \E d \in Accepted' : /\ subject'[d] = subject'[c]
                             /\ decidedAt'[d] <= decidedAt'[c]
                             /\ decidedAt'[c] <= decidedAt'[d] + TTL * TicksPerSec
    <3>1. PICK j \in 1 .. Len(Unexpired) : Unexpired[j].payload = subject[c]
      BY <1>1, RememberedIsUnexpired DEF Keys
    <3>2. PICK i \in 1 .. Len(order) : Unexpired[j] = order[i]
      BY UnexpiredWasQueued
    <3>3. ~Expired(order[i])
      BY <3>2, ExpiryIsExact
    <3>4. PICK d \in Accepted : order[i] = Receipt(d)
      BY DEF Traced
    <3>5. subject[d] = subject[c] /\ order[i].at = decidedAt[d]
      BY <3>1, <3>2, <3>4 DEF Receipt
    <3>6. decidedAt[d] <= clock
      BY <3>5 DEF QueueOrdered, Sorted
    <3>7. ~(clock - decidedAt[d] > TTL * TicksPerSec)
      BY <3>3, <3>5 DEF Expired
    <3>8. decidedAt[d] \in Nat /\ clock \in Nat /\ TTL * TicksPerSec \in Nat
      BY <1>7, CacheAssumption DEF CacheShape
    <3>9. clock <= decidedAt[d] + TTL * TicksPerSec
      BY <3>7, <3>8
    <3>10. decidedAt'[c] = clock
      BY <1>1 DEF CacheShape
    <3> QED
      BY <1>1, <1>2, <1>7, <3>5, <3>6, <3>9, <3>10
  <2> QED
    BY <2>1, <2>2 DEF RefusedOnlyIfRecent
<1> QED
  BY <1>2, <1>4, <1>5, <1>6, <1>8, <1>9, <1>10, <1>11

\* The entries of the queue after expiry that make room are evicted ones.
LEMMA RoomEvicts ==
    ASSUME CacheShape, QueueOrdered
    PROVE  /\ Room(Unexpired) \in Seq(Entry)
           /\ Sorted(Room(Unexpired))
           /\ Keys(Room(Unexpired)) \subseteq Keys(Unexpired)
           /\ \A j \in 1 .. Len(Room(Unexpired)) :
                \E i \in 1 .. Len(Unexpired) : Room(Unexpired)[j] = Unexpired[i]
           /\ \A i \in 1 .. Len(Unexpired) :
                \/ \E j \in 1 .. Len(Room(Unexpired)) : Room(Unexpired)[j] = Unexpired[i]
                \/ Unexpired[i].payload \in Keys(Unexpired) \ Keys(Room(Unexpired))
<1> DEFINE u == Unexpired
           r == Room(u)
<1>1. Sorted(u) /\ u \in Seq(Entry)
  BY RememberedIsUnexpired, UnexpiredIsRest DEF Rest
<1>2. Len(u) \in Nat
  BY <1>1, LenProperties
<1>3. Rest(u, u, 0)
  BY <1>1, <1>2 DEF Rest
<1>4. r = u \/ (0 < Len(u) /\ Rest(r, u, 1))
  BY <1>1, <1>3, RoomIsRest
<1> HIDE DEF u, r
<1>5. CASE r = u
  BY <1>1, <1>5 DEF u, r
<1>6. CASE 0 < Len(u) /\ Rest(r, u, 1)
  <2>1. r \in Seq(Entry) /\ Len(r) = Len(u) - 1 /\ \A j \in 1 .. Len(r) : r[j] = u[1 + j]
    BY <1>6 DEF Rest
  <2>2. Sorted(r) /\ Keys(r) \subseteq Keys(u)
    BY <1>1, <1>6, RestSorted
  <2>3. \A j \in 1 .. Len(r) : 1 + j \in 1 .. Len(u) /\ 1 < 1 + j
    BY <1>2, <2>1
  <2>4. ASSUME NEW i \in 1 .. Len(u)
        PROVE  (\E j \in 1 .. Len(r) : r[j] = u[i]) \/ u[i].payload \in Keys(u) \ Keys(r)
    <3>1. CASE i = 1
      <4>1. \A j \in 1 .. Len(r) : u[1].payload # u[1 + j].payload
        BY <1>1, <1>2, <2>3, <3>1 DEF Sorted
      <4>2. u[i].payload \notin Keys(r)
        BY <2>1, <3>1, <4>1 DEF Keys
      <4> QED
        BY <4>2 DEF Keys
    <3>2. CASE i # 1
      <4>1. i - 1 \in 1 .. Len(r) /\ 1 + (i - 1) = i
        BY <1>2, <2>1, <3>2
      <4> QED
        BY <2>1, <4>1
    <3> QED
      BY <3>1, <3>2
  <2>5. \A j \in 1 .. Len(r) : \E i \in 1 .. Len(u) : r[j] = u[i]
    BY <2>1, <2>3
  <2> QED
    BY <2>1, <2>2, <2>4, <2>5 DEF u, r
<1> QED
  BY <1>4, <1>5, <1>6

\* An acceptance keeps the invariant: if the payload had been accepted before
\* and was not evicted, its entry expired, and by then its timestamp is stale.
LEMMA InsertKeeps ==
    ASSUME CacheInv, NEW c \in Calls, CacheInsert(c)
    PROVE  CacheInv'
<1> DEFINE p == subject[c]
           new == [payload |-> p, at |-> clock]
           u == Unexpired
           r == Room(u)
           out == Keys(u) \ Keys(r)
<1> USE DEF CacheInv
<1>1. /\ pc[c] = "cache" /\ pc' = [pc EXCEPT ![c] = "accepted"]
      /\ decidedAt' = [decidedAt EXCEPT ![c] = clock]
      /\ clock' = clock /\ stamp' = stamp /\ subject' = subject /\ readAt' = readAt
      /\ p \notin Remembered /\ inner' = (Remembered \ out) \cup {p}
      /\ order' = Append(r, new) /\ displaced' = displaced \cup out
  BY DEF CacheInsert, Decide
<1>2. Accepted' = Accepted \cup {c} /\ c \notin Accepted
  BY <1>1 DEF Accepted, CacheShape
<1>3. Remembered = Keys(u) /\ Sorted(u)
  BY RememberedIsUnexpired
<1>4. /\ r \in Seq(Entry) /\ Sorted(r) /\ Keys(r) \subseteq Keys(u)
      /\ \A j \in 1 .. Len(r) : \E i \in 1 .. Len(u) : r[j] = u[i]
      /\ \A i \in 1 .. Len(u) : (\E j \in 1 .. Len(r) : r[j] = u[i]) \/ u[i].payload \in out
  BY RoomEvicts
<1>5. p \in Payloads /\ new \in Entry /\ new.at = clock /\ new.payload = p
  BY <1>1 DEF CacheShape, Entry
<1> HIDE DEF u, r, new
<1>6. Len(r) \in Nat
  BY <1>4, LenProperties
<1>7. /\ order' \in Seq(Entry) /\ Len(order') = Len(r) + 1
      /\ \A j \in 1 .. Len(r) : order'[j] = r[j]
      /\ order'[Len(r) + 1] = new
  BY <1>1, <1>4, <1>5, AppendProperties
<1>8. Sorted(Append(r, new)) /\ Keys(Append(r, new)) = Keys(r) \cup {p}
  <2>1. p \notin Keys(r)
    BY <1>1, <1>3, <1>4
  <2> QED
    BY <1>4, <1>5, <2>1, AppendSorted
<1>9. CacheShape'
  BY <1>1, <1>5, <1>7 DEF CacheShape, CallStates
<1>10. QueueOrdered'
  <2>1. inner' = Keys(order')
    BY <1>1, <1>3, <1>4, <1>8
  <2>2. Sorted(order)'
    BY <1>1, <1>8 DEF Sorted
  <2> QED
    BY <2>1, <2>2 DEF QueueOrdered, Keys
<1>11. \A d \in Calls : WasFresh(d)'
  BY <1>1 DEF WasFresh, CacheShape, Second
<1>12. \A d \in Accepted : d \in Calls /\ Receipt(d)' = Receipt(d) /\ decidedAt'[d] = decidedAt[d]
  BY <1>1, <1>2 DEF Receipt, CacheShape, Accepted
<1>13. Receipt(c)' = new /\ decidedAt'[c] = clock
  BY <1>1 DEF Receipt, CacheShape, new
<1>14. \A j \in 1 .. Len(order') : j \in 1 .. Len(r) \/ j = Len(r) + 1
  BY <1>6, <1>7
<1>15. Traced'
  <2>1. ASSUME NEW j \in 1 .. Len(order') PROVE \E d \in Accepted' : order'[j] = Receipt(d)'
    <3>1. CASE j \in 1 .. Len(r)
      <4>1. PICK i \in 1 .. Len(u) : order'[j] = u[i]
        BY <1>4, <1>7, <3>1
      <4>2. PICK k \in 1 .. Len(order) : u[i] = order[k]
        BY UnexpiredWasQueued DEF u
      <4> QED
        BY <1>2, <1>12, <4>1, <4>2 DEF Traced
    <3>2. CASE j = Len(r) + 1
      BY <1>2, <1>7, <1>13, <3>2
    <3> QED
      BY <1>14, <3>1, <3>2
  <2> QED
    BY <2>1 DEF Traced
<1>16. ASSUME NEW d \in Accepted PROVE Kept(d)'
  <2>1. CASE subject[d] \in displaced
    BY <1>1, <2>1 DEF Kept
  <2>2. CASE clock - decidedAt[d] > Lifetime
    BY <1>1, <1>12, <2>2 DEF Kept
  <2>3. ASSUME NEW i \in 1 .. Len(order), order[i] = Receipt(d) PROVE Kept(d)'
    <3>1. CASE Expired(order[i])
      BY <1>1, <1>12, <2>3, <3>1 DEF Kept, Expired, Receipt, Lifetime
    <3>2. ASSUME NEW k \in 1 .. Len(u), u[k] = order[i] PROVE Kept(d)'
      <4>1. ASSUME NEW j \in 1 .. Len(r), r[j] = u[k] PROVE Kept(d)'
        <5>1. j \in 1 .. Len(order') /\ order'[j] = Receipt(d)'
          BY <1>6, <1>7, <1>12, <2>3, <3>2, <4>1
        <5> QED
          BY <5>1 DEF Kept
      <4>2. CASE u[k].payload \in out
        <5>1. u[k].payload = subject[d]
          BY <2>3, <3>2 DEF Receipt
        <5> QED
          BY <1>1, <4>2, <5>1 DEF Kept
      <4> QED
        BY <1>4, <4>1, <4>2
    <3> QED
      BY <3>1, <3>2, ExpiryIsExact DEF u
  <2> QED
    BY <2>1, <2>2, <2>3 DEF Kept
<1>17. Kept(c)'
  <2>1. Len(r) + 1 \in 1 .. Len(order')
    BY <1>6, <1>7
  <2> QED
    BY <1>7, <1>13, <2>1 DEF Kept
<1>18. ASSUME NEW d \in Accepted, subject[d] = p, p \notin displaced, Prompt(c)', Prompt(d)'
       PROVE  stamp[p] = Second(readAt[d]) + SKEW
  <2>1. readAt[c] = clock /\ readAt[d] = decidedAt[d]
    BY <1>1, <1>12, <1>13, <1>18 DEF Prompt
  <2>2. clock - decidedAt[d] > Lifetime
    <3>1. ASSUME NEW i \in 1 .. Len(order), order[i] = Receipt(d), ~Expired(order[i]) PROVE FALSE
      <4>1. PICK k \in 1 .. Len(u) : u[k] = order[i]
        BY <3>1, ExpiryIsExact DEF u
      <4>2. u[k].payload = p
        BY <1>18, <3>1, <4>1 DEF Receipt
      <4> QED
        BY <1>1, <1>3, <4>2 DEF Keys
    <3>2. ASSUME NEW i \in 1 .. Len(order), order[i] = Receipt(d), Expired(order[i])
          PROVE  clock - decidedAt[d] > Lifetime
      BY <3>2 DEF Expired, Receipt, Lifetime
    <3> QED
      BY <1>18, <3>1, <3>2 DEF Kept
  <2>3. stamp[p] <= Second(decidedAt[d]) + SKEW /\ stamp[p] >= Second(clock) - SKEW
    BY <1>1, <1>12, <1>18, <2>1 DEF WasFresh, Accepted
  <2>4. stamp[p] \in Int /\ clock \in Nat /\ decidedAt[d] \in Nat
    BY <1>5, <1>12 DEF CacheShape
  <2> QED
    BY <2>1, <2>2, <2>3, <2>4, WindowShorterThanLifetime
<1>19. AcceptedOnce'
  <2>1. ASSUME NEW a \in Accepted, NEW b \in Accepted, a # b, subject[a] = subject[b],
               subject[a] \notin displaced', Prompt(a)', Prompt(b)'
        PROVE  \E e \in {a, b} : stamp[subject[e]] = Second(readAt[e]) + SKEW
    <3>1. subject[a] \notin displaced /\ Prompt(a) /\ Prompt(b)
      BY <1>1, <1>12, <2>1 DEF Prompt
    <3> QED
      BY <2>1, <3>1 DEF AcceptedOnce
  <2>2. ASSUME NEW d \in Accepted, subject[d] = p, p \notin displaced', Prompt(c)', Prompt(d)'
        PROVE  stamp[subject[d]] = Second(readAt[d]) + SKEW
    BY <1>1, <1>18, <2>2
  <2>3. SUFFICES ASSUME NEW a \in Accepted', NEW b \in Accepted', a # b, subject[a] = subject[b],
                        subject[a] \notin displaced', Prompt(a)', Prompt(b)'
                 PROVE  \E e \in {a, b} : stamp[subject[e]] = Second(readAt[e]) + SKEW
    BY <1>1 DEF AcceptedOnce, Second
  <2> QED
    BY <1>2, <2>1, <2>2, <2>3
<1>20. RefusedOnlyIfRecent'
  <2>1. ASSUME NEW e \in Calls, pc'[e] = "replay"
        PROVE  \E d \in Accepted' : /\ subject'[d] = subject'[e]
                                    /\ decidedAt'[d] <= decidedAt'[e]
                                    /\ decidedAt'[e] <= decidedAt'[d] + TTL * TicksPerSec
    <3>1. pc[e] = "replay" /\ decidedAt'[e] = decidedAt[e]
      BY <1>1, <2>1 DEF CacheShape
    <3> QED
      BY <1>1, <1>2, <1>12, <3>1 DEF RefusedOnlyIfRecent
  <2> QED
    BY <2>1 DEF RefusedOnlyIfRecent
<1> QED
  BY <1>2, <1>9, <1>10, <1>11, <1>15, <1>16, <1>17, <1>19, <1>20

\* Verification by IdentityBindPayload::verify keeps the invariant.
LEMMA VerifyKeeps ==
    ASSUME CacheInv, NEW c \in Calls, NEW p \in Payloads, NEW f \in Forms, Verify(c, p, f)
    PROVE  CacheInv'
<1> USE DEF CacheInv
<1>1. PICK where \in {"cache", "refused"} :
        /\ pc[c] = "start" /\ pc' = [pc EXCEPT ![c] = where]
        /\ where = "cache" => Fresh(p)
        /\ subject' = [subject EXCEPT ![c] = p] /\ readAt' = [readAt EXCEPT ![c] = clock]
        /\ clock' = clock /\ stamp' = stamp /\ decidedAt' = decidedAt
        /\ inner' = inner /\ order' = order /\ displaced' = displaced
  BY DEF Verify, cacheVars
<1>2. Accepted' = Accepted /\ c \notin Accepted
  BY <1>1, AcceptedUnchanged
<1>3. \A d \in Accepted : /\ d \in Calls /\ subject'[d] = subject[d] /\ readAt'[d] = readAt[d]
                          /\ Receipt(d)' = Receipt(d)
  BY <1>1, <1>2 DEF Receipt, CacheShape, Accepted
<1>4. CacheShape'
  BY <1>1 DEF CacheShape, CallStates
<1>5. QueueOrdered'
  BY <1>1 DEF QueueOrdered, Keys, Sorted
<1>6. ASSUME NEW d \in Calls PROVE WasFresh(d)'
  <2>1. CASE d = c
    BY <1>1, <2>1 DEF WasFresh, CacheShape, Fresh, Second
  <2>2. CASE d # c
    BY <1>1, <2>2 DEF WasFresh, CacheShape, Second
  <2> QED
    BY <2>1, <2>2
<1>7. Traced'
  BY <1>1, <1>2, <1>3 DEF Traced
<1>8. \A d \in Accepted : Kept(d)'
  BY <1>1, <1>3 DEF Kept
<1>9. AcceptedOnce'
  BY <1>1, <1>2, <1>3 DEF AcceptedOnce, Prompt, Second
<1>10. RefusedOnlyIfRecent'
  <2>1. ASSUME NEW e \in Calls, pc'[e] = "replay" PROVE pc[e] = "replay" /\ subject'[e] = subject[e]
    BY <1>1, <2>1 DEF CacheShape
  <2> QED
    BY <1>1, <1>2, <1>3, <2>1 DEF RefusedOnlyIfRecent
<1> QED
  BY <1>2, <1>4, <1>5, <1>6, <1>7, <1>8, <1>9, <1>10

\* So does the passing of time.
LEMMA CacheTickKeeps ==
    ASSUME CacheInv, Tick
    PROVE  CacheInv'
<1> USE DEF CacheInv
<1>1. /\ clock' = clock + 1 /\ stamp' = stamp /\ pc' = pc /\ subject' = subject
      /\ readAt' = readAt /\ decidedAt' = decidedAt /\ inner' = inner /\ order' = order
      /\ displaced' = displaced /\ clock \in Nat
  BY DEF Tick, cacheVars, CacheShape
<1>2. Accepted' = Accepted
  BY <1>1 DEF Accepted
<1>3. CacheShape'
  BY <1>1 DEF CacheShape
<1>4. QueueOrdered'
  <2>1. ASSUME NEW i \in 1 .. Len(order) PROVE order[i].at <= clock + 1
    <3>1. order[i] \in Entry
      BY ElementOfSeq DEF CacheShape
    <3>2. order[i].at \in Nat /\ order[i].at <= clock
      BY <3>1 DEF Entry, QueueOrdered, Sorted
    <3> QED
      BY <1>1, <3>2
  <2> QED
    BY <1>1, <2>1 DEF QueueOrdered, Keys, Sorted
<1>5. \A d \in Calls : WasFresh(d)'
  BY <1>1 DEF WasFresh, Second
<1>6. Traced'
  BY <1>1, <1>2 DEF Traced, Receipt
<1>7. ASSUME NEW d \in Accepted PROVE Kept(d)'
  <2>1. decidedAt[d] \in Nat /\ Lifetime \in Nat
    BY CacheAssumption DEF CacheShape, Lifetime, Accepted
  <2>2. CASE clock - decidedAt[d] > Lifetime
    <3>1. clock' - decidedAt'[d] > Lifetime
      BY <1>1, <2>1, <2>2
    <3> QED
      BY <3>1 DEF Kept, Lifetime
  <2>3. CASE subject[d] \in displaced
    BY <1>1, <2>3 DEF Kept
  <2>4. CASE \E i \in 1 .. Len(order) : order[i] = Receipt(d)
    BY <1>1, <2>4 DEF Kept, Receipt
  <2> QED
    BY <2>2, <2>3, <2>4 DEF Kept
<1>8. AcceptedOnce'
  BY <1>1, <1>2 DEF AcceptedOnce, Prompt, Second
<1>9. RefusedOnlyIfRecent'
  BY <1>1, <1>2 DEF RefusedOnlyIfRecent
<1> QED
  BY <1>2, <1>3, <1>4, <1>5, <1>6, <1>7, <1>8, <1>9

\* The queue, the set and the acceptances they record agree in every reachable
\* state of verify_identity_payload and check_and_insert.
THEOREM CacheInvariant == NCSpec => []CacheInv
<1>1. NCInit => CacheInv
  <2> SUFFICES ASSUME NCInit PROVE CacheInv
    OBVIOUS
  <2> USE DEF NCInit, Created
  <2>1. stamp \in [Payloads -> Int]
    BY CacheAssumption
  <2>2. order = <<>> /\ order \in Seq(Entry) /\ Len(order) = 0
    BY EmptySeq
  <2>3. CacheShape
    BY <2>1, <2>2 DEF CacheShape, CallStates
  <2>4. 1 .. Len(order) = {}
    BY <2>2
  <2>5. QueueOrdered /\ Traced
    BY <2>4 DEF QueueOrdered, Keys, Sorted, Traced
  <2>6. Accepted = {}
    BY DEF Accepted
  <2>7. \A c \in Calls : WasFresh(c)
    BY DEF WasFresh
  <2>8. AcceptedOnce /\ RefusedOnlyIfRecent
    BY <2>6 DEF AcceptedOnce, RefusedOnlyIfRecent
  <2> QED
    BY <2>3, <2>5, <2>6, <2>7, <2>8 DEF CacheInv
<1>2. CacheInv /\ [NCNext]_ncVars => CacheInv'
  <2> SUFFICES ASSUME CacheInv, [NCNext]_ncVars PROVE CacheInv'
    OBVIOUS
  <2>1. CASE UNCHANGED ncVars
    <3> USE <2>1 DEF ncVars
    <3>1. CacheShape' /\ QueueOrdered'
      BY DEF CacheInv, CacheShape, QueueOrdered, Keys, Sorted
    <3>2. Accepted' = Accepted
      BY DEF Accepted
    <3>3. \A c \in Calls : WasFresh(c)' /\ Receipt(c)' = Receipt(c)
      BY DEF CacheInv, WasFresh, Second, Receipt
    <3>4. Traced'
      BY <3>2, <3>3 DEF CacheInv, Traced, Accepted
    <3>5. \A d \in Accepted : Kept(d)'
      BY <3>3 DEF CacheInv, Kept, Accepted
    <3>6. AcceptedOnce' /\ RefusedOnlyIfRecent'
      BY <3>2 DEF CacheInv, AcceptedOnce, Prompt, Second, RefusedOnlyIfRecent
    <3> QED
      BY <3>1, <3>2, <3>3, <3>4, <3>5, <3>6 DEF CacheInv
  <2> QED
    BY <2>1, VerifyKeeps, HitKeeps, InsertKeeps, CacheTickKeeps DEF NCNext
<1> QED
  BY <1>1, <1>2, PTL DEF NCSpec

\* check_and_insert and verify together accept a payload once, but for the
\* evictions, delays and the first second that the property names.
THEOREM ReplayIsRefused == NCSpec => []AcceptedOnce
<1>1. CacheInv => AcceptedOnce
  BY DEF CacheInv
<1> QED
  BY <1>1, CacheInvariant, PTL

\* check_and_insert reports a replay only within NONCE_CACHE_TTL_SECS of an
\* acceptance of the same payload.
THEOREM ReplayWasAccepted == NCSpec => []RefusedOnlyIfRecent
<1>1. CacheInv => RefusedOnlyIfRecent
  BY DEF CacheInv
<1> QED
  BY <1>1, CacheInvariant, PTL
=============================================================================
