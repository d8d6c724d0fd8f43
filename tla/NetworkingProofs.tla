--------------------------- MODULE NetworkingProofs ---------------------------
(***************************************************************************)
(* Proofs about ConnectionManager for every number of peers, calls,        *)
(* senders and adders and for every value of the limits; and about         *)
(* Discovery for any number of services, beacons and copies of them, any   *)
(* capacity of the event channel and any clocks that fit the timestamp.    *)
(***************************************************************************)
EXTENDS ConnectionManager, Discovery, FiniteSetTheorems, SequenceTheorems, TLAPS

(***************************************************************************)
(* Type correctness.                                                       *)
(***************************************************************************)

\* The initial state of a freshly constructed manager is type correct.
LEMMA InitTypeOK == Init => TypeOK
<1> SUFFICES ASSUME Init PROVE TypeOK
  OBVIOUS
<1>1. /\ adding \in [Adders -> Peers \cup {None}]
      /\ active \in [Peers -> Calls \cup {None}]
      /\ phase \in [Calls -> Phases] /\ \A c \in Calls : phase[c] = "unused"
      /\ peerOf \in [Calls -> Peers \cup {None}]
      /\ sender \in [Senders -> Peers \cup {None}]
  BY DEF Init, Phases
<1>2. /\ outq \in [Calls -> 0 .. OUTGOING_BUFFER_SIZE]
      /\ peak \in Nat
  BY ConstantsAssumption DEF Init
<1>3. QED
  BY <1>1, <1>2 DEF Init, TypeOK

\* Every step of the manager keeps every variable in its type.
LEMMA NextTypeOK == TypeOK /\ [Next]_vars => TypeOK'
<1> SUFFICES ASSUME TypeOK, [Next]_vars PROVE TypeOK'
  OBVIOUS
<1> USE ConstantsAssumption DEF TypeOK, peerVars, callerVars
<1>1. ASSUME NEW a \in Adders, NEW p \in Peers, AddPeerCheck(a, p) PROVE TypeOK'
  BY <1>1 DEF AddPeerCheck
<1>2. ASSUME NEW a \in Adders, AddPeerInsert(a) PROVE TypeOK'
  BY <1>2 DEF AddPeerInsert
<1>3. CASE cleanup_stale
  BY <1>3 DEF cleanup_stale
<1>4. CASE LoadTrusted
  BY <1>4 DEF LoadTrusted
<1>5. ASSUME NEW p \in Peers, trust_peer(p) PROVE TypeOK'
  BY <1>5 DEF trust_peer
<1>6. ASSUME NEW p \in Peers, DisconnectWait(p) \/ disconnect(p) PROVE TypeOK'
  BY <1>6 DEF DisconnectWait, disconnect
<1>7. ASSUME NEW c \in Calls, NEW p \in Peers, ConnectCheckActive(c, p) PROVE TypeOK'
  BY <1>7 DEF ConnectCheckActive, Check, Phases, Checking
<1>8. ASSUME NEW c \in Calls, ConnectLookup(c) PROVE TypeOK'
  BY <1>8 DEF ConnectLookup, Check, Phases, Checking
<1>9. ASSUME NEW c \in Calls, ConnectCheckTrusted(c) PROVE TypeOK'
  BY <1>9 DEF ConnectCheckTrusted, Check, Phases, Checking
<1>10. ASSUME NEW c \in Calls, ConnectSpawn(c) PROVE TypeOK'
  <2>1. Cardinality(Pending') \in Nat
    BY FS_Subset, FS_CardinalityType DEF Pending
  <2>2. peak' \in Nat
    BY <1>10, <2>1 DEF ConnectSpawn
  <2>3. QED
    BY <1>10, <2>2 DEF ConnectSpawn, Check, Phases, InFlight
<1>11. ASSUME NEW c \in Calls, PolledStep(c) \/ MapStep(c) PROVE TypeOK'
  BY <1>11 DEF PolledStep, MapStep, DialOk, DialFail, InsertHandle, LoopCancelled,
               LoopTake, CloseConn, RemoveHandle, Move, Phases, InFlight, Live
<1>12. ASSUME NEW c \in Calls, OutsideStep(c) PROVE TypeOK'
  BY <1>12 DEF OutsideStep, SendDone, SendError, LoopRecv, LoopRecvError, Deliver,
               DeliverClosed, Move, Phases, InFlight, Live
<1>13. ASSUME NEW s \in Senders, SendPush(s) PROVE TypeOK'
  <2>1. PICK c \in Calls \cup {None} : c = active[sender[s]]
    BY <1>13 DEF SendPush
  <2>2. outq' \in [Calls -> 0 .. OUTGOING_BUFFER_SIZE]
    <3>1. CASE c \in Calls
      BY <1>13, <2>1, <3>1 DEF SendPush
    <3>2. CASE c \notin Calls
      BY <1>13, <2>1, <3>2 DEF SendPush
    <3>3. QED
      BY <3>1, <3>2
  <2>3. QED
    BY <1>13, <2>2 DEF SendPush
<1>14. ASSUME NEW s \in Senders, NEW p \in Peers, SendGuard(s, p) PROVE TypeOK'
  BY <1>14 DEF SendGuard
<1>15. CASE shutdown
  BY <1>15 DEF shutdown
<1>16. CASE UNCHANGED vars
  BY <1>16 DEF vars
<1>17. QED
  BY <1>1, <1>2, <1>3, <1>4, <1>5, <1>6, <1>7, <1>8, <1>9, <1>10, <1>11, <1>12,
     <1>13, <1>14, <1>15, <1>16 DEF Next

\* TypeOK holds in every reachable state.
THEOREM TypeCorrect == Spec => []TypeOK
BY InitTypeOK, NextTypeOK, PTL DEF Spec

-----------------------------------------------------------------------------
(***************************************************************************)
(* Handles and tasks.  The two parts need each other: that a task ends     *)
(* only after its handle is out of the map gives the first, that it waits  *)
(* for the senders' guards gives the second.                               *)
(***************************************************************************)
HandleInv == HandleHasLiveTask /\ SendFindsOpenChannel

\* Steps that change neither the handles, nor where tasks stand, nor the guards.
LEMMA HandleFrame ==
    ASSUME TypeOK, HandleInv, UNCHANGED <<active, phase, peerOf, sender>>
    PROVE  HandleInv'
BY DEF HandleInv, HandleHasLiveTask, SendFindsOpenChannel, Connected

\* A call or a task that moves between phases without losing its connection,
\* and has no handle yet when it is outside the loop, disturbs no handle.
LEMMA HandleMove ==
    ASSUME TypeOK, HandleInv, NEW c \in Calls, NEW to,
           phase' = [phase EXCEPT ![c] = to],
           phase[c] \in Live => to \in Live,
           UNCHANGED <<active, sender>>,
           \A d \in Calls : phase[d] \in Live => peerOf'[d] = peerOf[d]
    PROVE  HandleInv'
<1>1. \A d \in Calls : phase[d] \in Live => phase'[d] \in Live
  BY DEF TypeOK
<1>2. HandleHasLiveTask'
  BY <1>1 DEF HandleInv, HandleHasLiveTask, Connected, TypeOK
<1>3. SendFindsOpenChannel'
  BY <1>1 DEF HandleInv, SendFindsOpenChannel, TypeOK
<1>4. QED
  BY <1>2, <1>3 DEF HandleInv

\* Storing a handle: the task enters its loop in the same step.
LEMMA HandleInsert ==
    ASSUME TypeOK, HandleInv, NEW c \in Calls, InsertHandle(c)
    PROVE  HandleInv'
<1> USE DEF HandleInv, HandleHasLiveTask, SendFindsOpenChannel, Connected, TypeOK
<1>1. /\ peerOf[c] \in Peers /\ c # None
      /\ active' = [active EXCEPT ![peerOf[c]] = c]
      /\ phase' = [phase EXCEPT ![c] = "loop"]
      /\ peerOf' = peerOf /\ sender' = sender
  BY ConstantsAssumption DEF InsertHandle, callerVars
<1>2. \A d \in Calls : phase[d] \in Live => phase'[d] \in Live
  BY <1>1 DEF Live
<1>3. phase'[c] \in Live
  BY <1>1 DEF Live
<1>4. HandleHasLiveTask'
  BY <1>1, <1>2, <1>3
<1>5. SendFindsOpenChannel'
  BY <1>1, <1>2, <1>3
<1>6. QED
  BY <1>4, <1>5

\* Removing a handle and ending the task: no guard is on the shard, and the
\* ending task's own handle can be nowhere else.
LEMMA HandleRemove ==
    ASSUME TypeOK, HandleInv, NEW c \in Calls, RemoveHandle(c)
    PROVE  HandleInv'
<1> USE DEF HandleInv, HandleHasLiveTask, SendFindsOpenChannel, Connected, TypeOK
<1>1. /\ peerOf[c] \in Peers
      /\ ShardFree(peerOf[c])
      /\ active' = [active EXCEPT ![peerOf[c]] = None]
      /\ phase' = [phase EXCEPT ![c] = "ended"]
      /\ peerOf' = peerOf /\ sender' = sender
  BY DEF RemoveHandle, callerVars
<1>2. \A p \in Peers : p # peerOf[c] => active'[p] = active[p] /\ active[p] # c
  BY <1>1, ConstantsAssumption
<1>3. HandleHasLiveTask'
  BY <1>1, <1>2
<1>4. \A s \in Senders : sender[s] # peerOf[c]
  BY <1>1, ConstantsAssumption DEF ShardFree
<1>5. SendFindsOpenChannel'
  BY <1>1, <1>2, <1>4
<1>6. QED
  BY <1>3, <1>5

\* Every step of the manager preserves the handle invariant.
LEMMA NextHandleInv == TypeOK /\ HandleInv /\ [Next]_vars => HandleInv'
<1> SUFFICES ASSUME TypeOK, HandleInv, [Next]_vars PROVE HandleInv'
  OBVIOUS
<1> USE DEF peerVars, callerVars
<1>1. ASSUME NEW a \in Adders, NEW p \in Peers, AddPeerCheck(a, p) PROVE HandleInv'
  BY <1>1, HandleFrame DEF AddPeerCheck
<1>2. ASSUME NEW a \in Adders, AddPeerInsert(a) PROVE HandleInv'
  BY <1>2, HandleFrame DEF AddPeerInsert
<1>3. ASSUME cleanup_stale \/ LoadTrusted \/ shutdown PROVE HandleInv'
  BY <1>3, HandleFrame DEF cleanup_stale, LoadTrusted, shutdown
<1>4. ASSUME NEW p \in Peers, trust_peer(p) \/ DisconnectWait(p) PROVE HandleInv'
  BY <1>4, HandleFrame DEF trust_peer, DisconnectWait
<1>5. ASSUME NEW p \in Peers, disconnect(p) PROVE HandleInv'
  <2>1. \A s \in Senders : sender[s] # p
    BY <1>5, ConstantsAssumption DEF disconnect, ShardFree, TypeOK
  <2>2. HandleHasLiveTask'
    BY <1>5 DEF disconnect, HandleInv, HandleHasLiveTask, Connected, TypeOK
  <2>3. SendFindsOpenChannel'
    BY <1>5, <2>1 DEF disconnect, HandleInv, SendFindsOpenChannel, TypeOK
  <2>4. QED
    BY <2>2, <2>3 DEF HandleInv
<1>6. ASSUME NEW c \in Calls, NEW p \in Peers, ConnectCheckActive(c, p) PROVE HandleInv'
  <2>1. phase[c] \notin Live /\ \A d \in Calls : phase[d] \in Live => peerOf'[d] = peerOf[d]
    BY <1>6 DEF ConnectCheckActive, Check, Live, TypeOK
  <2>2. QED
    BY <1>6, <2>1, HandleMove DEF ConnectCheckActive, Check
<1>7. ASSUME NEW c \in Calls, ConnectLookup(c) \/ ConnectCheckTrusted(c) \/ ConnectSpawn(c)
      PROVE  HandleInv'
  <2>1. phase[c] \notin Live
    BY <1>7 DEF ConnectLookup, ConnectCheckTrusted, ConnectSpawn, Check, Live
  <2>2. QED
    BY <1>7, <2>1, HandleMove DEF ConnectLookup, ConnectCheckTrusted, ConnectSpawn, Check
<1>8. ASSUME NEW c \in Calls, PolledStep(c) \/ MapStep(c) PROVE HandleInv'
  <2>1. CASE InsertHandle(c)
    BY <2>1, HandleInsert
  <2>2. CASE RemoveHandle(c)
    BY <2>2, HandleRemove
  <2>3. CASE DialOk(c) \/ DialFail(c)
    <3>1. phase[c] \notin Live
      BY <2>3 DEF DialOk, DialFail, Move, Live
    <3>2. QED
      BY <2>3, <3>1, HandleMove DEF DialOk, DialFail, Move
  <2>4. CASE LoopCancelled(c) \/ LoopTake(c) \/ CloseConn(c)
    <3>1. "closing" \in Live /\ "sending" \in Live /\ "removing" \in Live
      BY DEF Live
    <3>2. QED
      BY <2>4, <3>1, HandleMove DEF LoopCancelled, LoopTake, CloseConn, Move
  <2>5. QED
    BY <1>8, <2>1, <2>2, <2>3, <2>4 DEF PolledStep, MapStep
<1>9. ASSUME NEW c \in Calls, OutsideStep(c) PROVE HandleInv'
  <2>1. "loop" \in Live /\ "closing" \in Live /\ "deliver" \in Live
    BY DEF Live
  <2>2. QED
    BY <1>9, <2>1, HandleMove
    DEF OutsideStep, SendDone, SendError, LoopRecv, LoopRecvError, Deliver,
        DeliverClosed, Move
<1>10. ASSUME NEW s \in Senders, SendPush(s) PROVE HandleInv'
  <2>1. SendFindsOpenChannel'
    BY <1>10 DEF SendPush, HandleInv, SendFindsOpenChannel, TypeOK
  <2>2. HandleHasLiveTask'
    BY <1>10 DEF SendPush, HandleInv, HandleHasLiveTask, Connected, TypeOK
  <2>3. QED
    BY <2>1, <2>2 DEF HandleInv
<1>11. ASSUME NEW s \in Senders, NEW p \in Peers, SendGuard(s, p) PROVE HandleInv'
  <2>1. phase[active[p]] \in Live
    BY <1>11 DEF SendGuard, HandleInv, HandleHasLiveTask, Connected
  <2>2. SendFindsOpenChannel'
    BY <1>11, <2>1 DEF SendGuard, HandleInv, SendFindsOpenChannel, TypeOK
  <2>3. HandleHasLiveTask'
    BY <1>11 DEF SendGuard, HandleInv, HandleHasLiveTask, Connected, TypeOK
  <2>4. QED
    BY <2>2, <2>3 DEF HandleInv
<1>12. CASE UNCHANGED vars
  BY <1>12, HandleFrame DEF vars
<1>13. QED
  BY ConstantsAssumption, <1>1, <1>2, <1>3, <1>4, <1>5, <1>6, <1>7, <1>8, <1>9, <1>10,
     <1>11, <1>12 DEF Next

\* In every reachable state a stored handle belongs to a live task for its
\* peer, and a waiting send_to has an open channel.
THEOREM HandlesSound == Spec => [](HandleHasLiveTask /\ SendFindsOpenChannel)
<1>1. Init => HandleInv
  BY DEF Init, HandleInv, HandleHasLiveTask, SendFindsOpenChannel, Connected
<1>2. QED
  BY <1>1, TypeCorrect, NextHandleInv, PTL DEF Spec, HandleInv

-----------------------------------------------------------------------------
(***************************************************************************)
(* Trust.  Nothing leaves trusted_peers, so a call that has passed the     *)
(* trust check keeps a trusted peer for as long as it lives.               *)
(***************************************************************************)
PastTrustCheck == {"limit"} \cup InFlight \cup Live
TrustInv == \A c \in Calls : phase[c] \in PastTrustCheck => peerOf[c] \in trusted

\* Every step preserves TrustInv: only ConnectCheckTrusted lets a call in.
LEMMA NextTrustInv == TypeOK /\ TrustInv /\ [Next]_vars => TrustInv'
<1> SUFFICES ASSUME TypeOK, TrustInv, [Next]_vars PROVE TrustInv'
  OBVIOUS
<1> USE DEF peerVars, callerVars, TrustInv, PastTrustCheck, InFlight, Live
<1>1. ASSUME trusted \subseteq trusted', UNCHANGED <<phase, peerOf>> PROVE TrustInv'
  BY <1>1
<1>2. ASSUME NEW c \in Calls, NEW p \in Peers, ConnectCheckActive(c, p) PROVE TrustInv'
  BY <1>2 DEF ConnectCheckActive, Check, TypeOK
<1>3. ASSUME NEW c \in Calls, ConnectLookup(c) \/ ConnectCheckTrusted(c) \/ ConnectSpawn(c)
      PROVE  TrustInv'
  BY <1>3 DEF ConnectLookup, ConnectCheckTrusted, ConnectSpawn, Check, TypeOK
<1>4. ASSUME NEW c \in Calls, PolledStep(c) \/ MapStep(c) PROVE TrustInv'
  BY <1>4 DEF PolledStep, MapStep, DialOk, DialFail, InsertHandle, LoopCancelled, LoopTake,
              CloseConn, RemoveHandle, Move, TypeOK
<1>5. ASSUME NEW c \in Calls, OutsideStep(c) PROVE TrustInv'
  BY <1>5 DEF OutsideStep, SendDone, SendError, LoopRecv, LoopRecvError, Deliver,
              DeliverClosed, Move, TypeOK
<1>6. ASSUME \/ cleanup_stale \/ LoadTrusted \/ shutdown
             \/ \E a \in Adders : AddPeerInsert(a) \/ \E p \in Peers : AddPeerCheck(a, p)
             \/ \E p \in Peers : trust_peer(p) \/ DisconnectWait(p) \/ disconnect(p)
             \/ \E s \in Senders : SendPush(s) \/ \E p \in Peers : SendGuard(s, p)
             \/ UNCHANGED vars
      PROVE  TrustInv'
  BY <1>6, <1>1 DEF cleanup_stale, LoadTrusted, shutdown, AddPeerInsert, AddPeerCheck,
                    trust_peer, DisconnectWait, disconnect, SendPush, SendGuard, vars
<1>7. QED
  BY ConstantsAssumption, <1>2, <1>3, <1>4, <1>5, <1>6 DEF Next

\* A connection exists only with a peer on the allowlist.
THEOREM TrustSound == Spec => []ConnectedPeersTrusted
<1>1. Init => TrustInv
  BY DEF Init, TrustInv, PastTrustCheck, InFlight, Live
<1>2. TypeOK /\ TrustInv /\ HandleHasLiveTask => ConnectedPeersTrusted
  BY DEF TypeOK, TrustInv, PastTrustCheck, HandleHasLiveTask, ConnectedPeersTrusted, Connected
<1>3. QED
  BY <1>1, <1>2, TypeCorrect, NextTrustInv, HandlesSound, PTL DEF Spec

-----------------------------------------------------------------------------
(***************************************************************************)
(* The peer table.  What add_peer calls have checked but not yet inserted  *)
(* counts against the bound as well.                                       *)
(***************************************************************************)
Targets(f) == {f[a] : a \in {b \in Adders : f[b] # None}}
Inserting == Targets(adding)
TableInv == Cardinality(peers \cup Inserting) <= MAX_PEERS + Cardinality(Adders) - 1

\* There are no more fingerprints waiting to be inserted than adders.
LEMMA TargetsBound ==
    ASSUME NEW f
    PROVE  /\ IsFiniteSet(Targets(f)) /\ Cardinality(Targets(f)) \in Nat
           /\ Cardinality(Targets(f)) <= Cardinality(Adders)
<1> DEFINE busy == {b \in Adders : f[b] # None}
           g == [b \in busy |-> f[b]]
<1>1. IsFiniteSet(Adders) /\ busy \subseteq Adders
  BY ConstantsAssumption
<1>2. IsFiniteSet(busy) /\ Cardinality(busy) <= Cardinality(Adders)
  BY <1>1, FS_Subset
<1>3. g \in Surjection(busy, Targets(f))
  BY DEF Surjection, Targets
<1>4. IsFiniteSet(Targets(f)) /\ Cardinality(Targets(f)) <= Cardinality(busy)
  BY <1>2, <1>3, FS_Surjection
<1>5. Cardinality(Targets(f)) \in Nat /\ Cardinality(busy) \in Nat /\ Cardinality(Adders) \in Nat
  BY <1>1, <1>2, <1>4, FS_CardinalityType
<1>6. QED
  BY <1>2, <1>4, <1>5

\* The sets of the bound are finite.
LEMMA InsertingFinite ==
    ASSUME TypeOK
    PROVE  /\ IsFiniteSet(peers) /\ Cardinality(peers) \in Nat
           /\ IsFiniteSet(peers \cup Inserting)
           /\ Cardinality(peers \cup Inserting) \in Nat
           /\ Cardinality(Adders) \in Nat
<1>1. IsFiniteSet(peers)
  BY FS_Subset, ConstantsAssumption DEF TypeOK
<1>2. IsFiniteSet(peers \cup Inserting)
  BY <1>1, TargetsBound, FS_Union DEF Inserting
<1>3. QED
  BY <1>1, <1>2, FS_CardinalityType, ConstantsAssumption

\* Every step preserves TableInv: the union grows only in AddPeerCheck, and
\* there only below the limit.
LEMMA NextTableInv == TypeOK /\ TypeOK' /\ TableInv /\ [Next]_vars => TableInv'
<1> SUFFICES ASSUME TypeOK, TypeOK', TableInv, [Next]_vars PROVE TableInv'
  OBVIOUS
<1> USE DEF peerVars, callerVars
<1>1. ASSUME (peers \cup Inserting)' \subseteq peers \cup Inserting PROVE TableInv'
  <2>1. /\ Cardinality((peers \cup Inserting)') <= Cardinality(peers \cup Inserting)
        /\ Cardinality((peers \cup Inserting)') \in Nat
        /\ Cardinality(peers \cup Inserting) \in Nat
    BY <1>1, InsertingFinite, FS_Subset, FS_CardinalityType
  <2>2. QED
    BY <2>1, InsertingFinite, ConstantsAssumption DEF TableInv
<1>2. ASSUME NEW a \in Adders, NEW p \in Peers, AddPeerCheck(a, p) PROVE TableInv'
  <2>1. Inserting' \subseteq Inserting \cup {p} /\ peers' = peers
    BY <1>2, ConstantsAssumption DEF AddPeerCheck, Inserting, Targets, TypeOK
  <2>2. CASE p \in peers
    BY <1>1, <2>1, <2>2
  <2>3. CASE p \notin peers
    <3>1. Cardinality(peers) <= MAX_PEERS - 1
      BY <1>2, <2>3, InsertingFinite, ConstantsAssumption DEF AddPeerCheck
    <3>2. /\ IsFiniteSet(Inserting') /\ Cardinality(Inserting') \in Nat
          /\ Cardinality(Inserting') <= Cardinality(Adders)
      BY TargetsBound DEF Inserting
    <3>3. Cardinality(peers \cap Inserting') \in Nat
      BY InsertingFinite, FS_Intersection, FS_CardinalityType
    <3>4. Cardinality(peers \cup Inserting') =
              Cardinality(peers) + Cardinality(Inserting') - Cardinality(peers \cap Inserting')
      BY <3>2, InsertingFinite, FS_Union
    <3>5. QED
      BY <2>1, <3>1, <3>2, <3>3, <3>4, InsertingFinite, ConstantsAssumption DEF TableInv
  <2>4. QED
    BY <2>2, <2>3
<1>3. ASSUME NEW a \in Adders, AddPeerInsert(a) PROVE TableInv'
  <2>1. /\ peers' = peers \cup {adding[a]} /\ adding[a] \in Inserting
        /\ Inserting' \subseteq Inserting
    BY <1>3 DEF AddPeerInsert, Inserting, Targets, TypeOK
  <2>2. QED
    BY <1>1, <2>1
<1>4. CASE cleanup_stale
  BY <1>1, <1>4 DEF cleanup_stale, Inserting
<1>5. ASSUME UNCHANGED <<peers, adding>> PROVE TableInv'
  BY <1>5, <1>1 DEF Inserting
<1>6. ASSUME NEW c \in Calls,
             \/ \E p \in Peers : ConnectCheckActive(c, p)
             \/ ConnectLookup(c) \/ ConnectCheckTrusted(c) \/ ConnectSpawn(c)
             \/ PolledStep(c) \/ MapStep(c) \/ OutsideStep(c)
      PROVE  TableInv'
  BY <1>5, <1>6 DEF ConnectCheckActive, ConnectLookup, ConnectCheckTrusted, ConnectSpawn,
      Check, PolledStep, MapStep, DialOk, DialFail, InsertHandle, LoopCancelled, LoopTake, CloseConn,
      RemoveHandle, OutsideStep, SendDone, SendError, LoopRecv, LoopRecvError, Deliver,
      DeliverClosed, Move
<1>7. ASSUME \/ LoadTrusted \/ shutdown
             \/ \E p \in Peers : trust_peer(p) \/ DisconnectWait(p) \/ disconnect(p)
             \/ \E s \in Senders : SendPush(s) \/ \E p \in Peers : SendGuard(s, p)
             \/ UNCHANGED vars
      PROVE  TableInv'
  BY <1>5, <1>7 DEF LoadTrusted, shutdown, trust_peer, DisconnectWait, disconnect, SendPush, SendGuard, vars
<1>8. QED
  BY ConstantsAssumption, <1>2, <1>3, <1>4, <1>6, <1>7 DEF Next

\* The peer table never exceeds MAX_PEERS by more than the number of
\* concurrent add_peer callers minus one.
THEOREM PeerTableBounded == Spec => []PeerTableBound
<1>1. Init => TableInv
  <2>1. SUFFICES ASSUME Init PROVE TableInv
    OBVIOUS
  <2>2. peers \cup Inserting = {}
    BY <2>1 DEF Init, Inserting, Targets
  <2>3. Cardinality(Adders) \in Nat \ {0}
    BY ConstantsAssumption, FS_CardinalityType, FS_EmptySet
  <2>4. Cardinality(peers \cup Inserting) = 0
    BY <2>2, FS_EmptySet
  <2>5. QED
    BY <2>3, <2>4, ConstantsAssumption DEF TableInv
<1>2. TypeOK /\ TableInv => PeerTableBound
  <2>1. SUFFICES ASSUME TypeOK, TableInv PROVE PeerTableBound
    OBVIOUS
  <2>2. /\ Cardinality(peers) <= Cardinality(peers \cup Inserting)
        /\ Cardinality(peers \cup Inserting) \in Nat
    BY <2>1, InsertingFinite, FS_Subset, FS_CardinalityType
  <2>3. QED
    BY <2>1, <2>2, InsertingFinite, ConstantsAssumption DEF TableInv, PeerTableBound
<1>3. QED
  BY <1>1, <1>2, TypeCorrect, NextTableInv, PTL DEF Spec

-----------------------------------------------------------------------------
(***************************************************************************)
(* The limit on active connections.  A task that has passed the check and  *)
(* not stored its handle yet counts like a connection; peak remembers how  *)
(* many such tasks there ever were at once.                                *)
(***************************************************************************)
LimitInv ==
    /\ Cardinality(Pending) <= peak
    /\ Cardinality(Connected) + Cardinality(Pending) <= MAX_ACTIVE_CONNECTIONS - 1 + peak

\* Sets of calls and of peers are finite.
LEMMA LimitFinite ==
    /\ IsFiniteSet(Pending) /\ Cardinality(Pending) \in Nat
    /\ IsFiniteSet(Connected) /\ Cardinality(Connected) \in Nat
    /\ Cardinality(Pending') \in Nat /\ Cardinality(Connected') \in Nat
<1>1. IsFiniteSet(Pending) /\ IsFiniteSet(Pending')
  BY FS_Subset, ConstantsAssumption DEF Pending
<1>2. IsFiniteSet(Connected) /\ IsFiniteSet(Connected')
  BY FS_Subset, ConstantsAssumption DEF Connected
<1>3. QED
  BY <1>1, <1>2, FS_CardinalityType

\* A step that adds neither a connection nor a pending task keeps LimitInv.
LEMMA LimitShrink ==
    ASSUME TypeOK, LimitInv, Connected' \subseteq Connected, Pending' \subseteq Pending,
           peak' = peak
    PROVE  LimitInv'
<1>1. Cardinality(Connected') <= Cardinality(Connected)
  BY LimitFinite, FS_Subset
<1>2. Cardinality(Pending') <= Cardinality(Pending)
  BY LimitFinite, FS_Subset
<1>3. QED
  BY <1>1, <1>2, LimitFinite, ConstantsAssumption DEF LimitInv, TypeOK

\* Storing a handle turns one pending task into at most one more connection.
LEMMA LimitInsert ==
    ASSUME TypeOK, LimitInv, NEW c \in Calls, InsertHandle(c)
    PROVE  LimitInv'
<1>1. peerOf[c] \in Peers /\ peak' = peak /\ c \in Pending
  BY DEF InsertHandle, TypeOK, Pending, InFlight
<1>2. Connected' \subseteq Connected \cup {peerOf[c]}
  BY <1>1 DEF InsertHandle, Connected, TypeOK
<1>3. Pending' = Pending \ {c}
  BY DEF InsertHandle, Pending, InFlight, TypeOK
<1>4. Cardinality(Pending') = Cardinality(Pending) - 1
  BY <1>1, <1>3, LimitFinite, FS_RemoveElement
<1>5. Cardinality(Connected') <= Cardinality(Connected) + 1
  <2>1. /\ IsFiniteSet(Connected \cup {peerOf[c]})
        /\ Cardinality(Connected \cup {peerOf[c]}) <= Cardinality(Connected) + 1
        /\ Cardinality(Connected \cup {peerOf[c]}) \in Nat
    BY LimitFinite, FS_AddElement, FS_CardinalityType
  <2>2. Cardinality(Connected') <= Cardinality(Connected \cup {peerOf[c]})
    BY <1>2, <2>1, FS_Subset
  <2>3. QED
    BY <2>1, <2>2, LimitFinite
<1>6. QED
  BY <1>1, <1>4, <1>5, LimitFinite, ConstantsAssumption DEF LimitInv, TypeOK

\* Every step preserves LimitInv: a task becomes pending only below the limit.
LEMMA NextLimitInv == TypeOK /\ LimitInv /\ [Next]_vars => LimitInv'
<1> SUFFICES ASSUME TypeOK, LimitInv, [Next]_vars PROVE LimitInv'
  OBVIOUS
<1> USE DEF peerVars, callerVars
<1>1. ASSUME NEW c \in Calls, ConnectSpawn(c) PROVE LimitInv'
  <2>1. Connected' = Connected
    BY <1>1 DEF ConnectSpawn, Check, Connected
  <2>2. CASE Cardinality(Connected) < MAX_ACTIVE_CONNECTIONS
    <3>1. Cardinality(Pending') <= peak' /\ peak <= peak' /\ peak' \in Nat
      BY <1>1, LimitFinite DEF ConnectSpawn, TypeOK
    <3>2. QED
      BY <2>1, <2>2, <3>1, LimitFinite, ConstantsAssumption DEF LimitInv, TypeOK
  <2>3. CASE ~(Cardinality(Connected) < MAX_ACTIVE_CONNECTIONS)
    <3>1. Pending' \subseteq Pending
      BY <1>1, <2>3 DEF ConnectSpawn, Check, Pending, InFlight, TypeOK
    <3>2. Cardinality(Pending') <= Cardinality(Pending)
      BY <3>1, LimitFinite, FS_Subset
    <3>3. peak' = peak
      BY <1>1, <3>2, LimitFinite DEF ConnectSpawn, LimitInv, TypeOK
    <3>4. QED
      BY <2>1, <3>1, <3>3, LimitShrink
  <2>4. QED
    BY <2>2, <2>3
<1>2. ASSUME NEW c \in Calls, NEW p \in Peers, ConnectCheckActive(c, p) PROVE LimitInv'
  BY <1>2, LimitShrink DEF ConnectCheckActive, Check, Connected, Pending, InFlight, TypeOK
<1>3. ASSUME NEW c \in Calls, ConnectLookup(c) \/ ConnectCheckTrusted(c) PROVE LimitInv'
  BY <1>3, LimitShrink
  DEF ConnectLookup, ConnectCheckTrusted, Check, Connected, Pending, InFlight, TypeOK
<1>4. ASSUME NEW c \in Calls, PolledStep(c) \/ MapStep(c) PROVE LimitInv'
  <2>1. CASE InsertHandle(c)
    BY <2>1, LimitInsert
  <2>2. CASE RemoveHandle(c)
    <3>1. Connected' \subseteq Connected
      BY <2>2 DEF RemoveHandle, Connected, TypeOK
    <3>2. Pending' \subseteq Pending /\ peak' = peak
      BY <2>2 DEF RemoveHandle, Pending, InFlight, TypeOK
    <3>3. QED
      BY <3>1, <3>2, LimitShrink
  <2>3. CASE DialOk(c) \/ DialFail(c) \/ LoopCancelled(c) \/ LoopTake(c) \/ CloseConn(c)
    BY <2>3, LimitShrink
    DEF DialOk, DialFail, LoopCancelled, LoopTake, CloseConn, Move, Connected, Pending,
        InFlight, TypeOK
  <2>4. QED
    BY <1>4, <2>1, <2>2, <2>3 DEF PolledStep, MapStep
<1>5. ASSUME NEW c \in Calls, OutsideStep(c) PROVE LimitInv'
  BY <1>5, LimitShrink
  DEF OutsideStep, SendDone, SendError, LoopRecv, LoopRecvError, Deliver, DeliverClosed,
      Move, Connected, Pending, InFlight, TypeOK
<1>6. ASSUME NEW p \in Peers, disconnect(p) PROVE LimitInv'
  <2>1. Connected' \subseteq Connected
    BY <1>6 DEF disconnect, Connected, TypeOK
  <2>2. QED
    BY <1>6, <2>1, LimitShrink DEF disconnect, Pending
<1>7. ASSUME \/ cleanup_stale \/ LoadTrusted \/ shutdown
             \/ \E a \in Adders : AddPeerInsert(a) \/ \E p \in Peers : AddPeerCheck(a, p)
             \/ \E p \in Peers : trust_peer(p) \/ DisconnectWait(p)
             \/ \E s \in Senders : SendPush(s) \/ \E p \in Peers : SendGuard(s, p)
             \/ UNCHANGED vars
      PROVE  LimitInv'
  <2>1. UNCHANGED <<active, phase, peak>>
    BY <1>7 DEF cleanup_stale, LoadTrusted, shutdown, AddPeerInsert, AddPeerCheck,
                trust_peer, DisconnectWait, SendPush, SendGuard, vars
  <2>2. QED
    BY <2>1, LimitShrink DEF Connected, Pending
<1>8. QED
  BY ConstantsAssumption, <1>1, <1>2, <1>3, <1>4, <1>5, <1>6, <1>7 DEF Next

\* The number of active connections exceeds MAX_ACTIVE_CONNECTIONS by no more
\* than the largest number of overlapping dials minus one.
THEOREM ActiveOvershootBounded == Spec => []ActiveOvershoot
<1>1. Init => LimitInv
  <2>1. SUFFICES ASSUME Init PROVE LimitInv
    OBVIOUS
  <2>2. Pending = {} /\ Connected = {}
    BY <2>1 DEF Init, Pending, Connected, InFlight
  <2>3. Cardinality(Pending) = 0 /\ Cardinality(Connected) = 0
    BY <2>2, FS_EmptySet
  <2>4. QED
    BY <2>1, <2>3, ConstantsAssumption DEF Init, LimitInv
<1>2. TypeOK /\ LimitInv => ActiveOvershoot
  BY LimitFinite, ConstantsAssumption DEF TypeOK, LimitInv, ActiveOvershoot
<1>3. QED
  BY <1>1, <1>2, TypeCorrect, NextLimitInv, PTL DEF Spec

-----------------------------------------------------------------------------
(* Discovery by UDP beacons.                                               *)

Datagram == [id : Nat, ts : Nat, form : Forms]

\* The part of the type invariant that the argument needs.
AirShape ==
    /\ pc \in {"idle", "sending", "ended"}
    /\ clock \in Nat /\ Start <= clock /\ clock <= MaxClock
    /\ skew \in Skews
    /\ sent \in Nat
    /\ net \subseteq Datagram
    /\ accepted \subseteq [id : Nat, at : Nat]

\* A timestamp in flight is one a sender made or the largest that fits; that of
\* a signed datagram is one a sender made.
Stamped(d) ==
    /\ d.id <= sent
    /\ d.ts <= MaxClock + skew \/ d.ts = Top
    /\ d.form = "intact" => d.ts <= MaxClock + skew

\* All signed copies of a beacon carry the timestamp it was created with.
SameStamp(d, e) ==
    d.form = "intact" /\ e.form = "intact" /\ d.id = e.id => d.ts = e.ts

\* What was accepted was in the window of the copies that are still in flight.
InWindow(a, d) ==
    d.form = "intact" /\ d.id = a.id => d.ts <= a.at + MaxAge /\ a.at <= d.ts + MaxAge

BeaconInv ==
    /\ AirShape
    /\ \A d \in net : Stamped(d) /\ \A e \in net : SameStamp(d, e)
    /\ \A a \in accepted : a.id <= sent /\ \A d \in net : InWindow(a, d)
    /\ ReplaysEnd
    /\ ListenerOutlivesDatagrams

\* verify never overflows on what is in flight, and what it accepts is signed
\* and within MaxAge of the clock on both sides.
LEMMA VerifyWindow ==
    ASSUME AirShape, NEW d \in Datagram, Stamped(d)
    PROVE  /\ Verify(d) # "panic"
           /\ Verify(d) = "ok" => /\ d.form = "intact"
                                  /\ d.ts <= clock + MaxAge
                                  /\ clock <= d.ts + MaxAge
<1>1. /\ MaxAge \in Nat /\ MaxClock \in Nat /\ Top \in Nat /\ skew \in Int
      /\ MaxClock + skew + MaxAge < Top /\ MaxClock + MaxAge < Top
  BY ClockAssumption DEF AirShape
<1>2. d.ts \in Nat /\ clock \in Nat /\ clock <= MaxClock
  BY DEF Datagram, AirShape
<1>3. CASE d.ts > clock + MaxAge
  <2>1. ~(d.ts <= clock + MaxAge)
    BY <1>1, <1>2, <1>3
  <2> QED
    BY <1>3, <2>1 DEF Verify
<1>4. CASE ~(d.ts > clock + MaxAge)
  <2>1. d.ts <= clock + MaxAge
    BY <1>1, <1>2, <1>4
  <2>2. d.ts <= MaxClock + skew
    BY <1>1, <1>2, <2>1 DEF Stamped
  <2>3. d.ts + MaxAge \in Nat /\ ~(d.ts + MaxAge > Top) /\ d.ts + MaxAge < Top + 1
    BY <1>1, <1>2, <2>2
  <2>4. (d.ts + MaxAge) % (Top + 1) = d.ts + MaxAge
    BY <1>1, <2>3
  <2>5. Verify(d) # "panic"
    BY <1>4, <2>3 DEF Verify
  <2>6. Verify(d) = "ok" => d.form = "intact" /\ ~((d.ts + MaxAge) % (Top + 1) < clock)
    BY <1>4, <2>1, <2>3 DEF Verify
  <2>7. ~((d.ts + MaxAge) < clock) => clock <= d.ts + MaxAge
    BY <1>2, <2>3
  <2> QED
    BY <2>1, <2>4, <2>5, <2>6, <2>7
<1> QED
  BY <1>3, <1>4

\* A step that changes neither what is in flight nor what was accepted.
LEMMA BeaconFrame ==
    ASSUME BeaconInv, pc' \in {"idle", "sending", "ended"},
           UNCHANGED <<mode, clock, skew, sent, accepted>>, net' \subseteq net,
           mode = "udp" => (stopping => stopping') /\ (pc' = "ended" => pc = "ended" \/ stopping')
    PROVE  BeaconInv'
<1> USE DEF BeaconInv
<1>1. AirShape'
  BY DEF AirShape
<1>2. \A d \in net' : Stamped(d)' /\ \A e \in net' : SameStamp(d, e)
  BY DEF Stamped
<1>3. \A a \in accepted' : a.id <= sent' /\ \A d \in net' : InWindow(a, d)
  OBVIOUS
<1>4. ReplaysEnd' /\ ListenerOutlivesDatagrams'
  BY DEF ReplaysEnd, ListenerOutlivesDatagrams
<1> QED
  BY <1>1, <1>2, <1>3, <1>4 DEF SameStamp, InWindow

\* A new beacon has a number that no copy and no acceptance has yet.
LEMMA BroadcastKeeps ==
    ASSUME BeaconInv, Broadcast
    PROVE  BeaconInv'
<1> USE DEF BeaconInv
<1>1. PICK new : /\ new = Create(sent')
                 /\ sent' = sent + 1 /\ net' \subseteq net \cup {new}
                 /\ UNCHANGED <<mode, pc, stopping, clock, skew, accepted>>
  BY DEF Broadcast, prodVars
<1>2. /\ clock \in Nat /\ clock <= MaxClock /\ skew \in Int /\ sent \in Nat /\ MaxClock \in Nat
      /\ clock + skew \in Nat
  BY ClockAssumption DEF AirShape
<1>3. new \in Datagram /\ new.id = sent + 1 /\ new.ts = clock + skew /\ new.form = "intact"
  BY <1>1, <1>2 DEF Create, Datagram, Forms
<1>4. AirShape'
  BY <1>1, <1>2, <1>3 DEF AirShape
<1>5. \A d \in net : d.id \in Nat /\ d.id # sent + 1 /\ d.id <= sent + 1
  BY <1>2 DEF AirShape, Datagram, Stamped
<1>6. \A d \in net' : Stamped(d)'
  <2>1. \A d \in net : Stamped(d)'
    BY <1>1, <1>5 DEF Stamped
  <2>2. Stamped(new)'
    BY <1>1, <1>2, <1>3 DEF Stamped
  <2> QED
    BY <1>1, <2>1, <2>2
<1>7. \A d, e \in net' : SameStamp(d, e)
  BY <1>1, <1>3, <1>5 DEF SameStamp
<1>8. ASSUME NEW a \in accepted PROVE a.id <= sent' /\ \A d \in net' : InWindow(a, d)
  <2>1. a.id \in Nat /\ a.id <= sent
    BY DEF AirShape
  <2>2. a.id <= sent + 1 /\ a.id # sent + 1
    BY <1>2, <2>1
  <2> QED
    BY <1>1, <1>3, <2>2 DEF InWindow
<1>9. ReplaysEnd' /\ ListenerOutlivesDatagrams'
  BY <1>1 DEF ReplaysEnd, ListenerOutlivesDatagrams
<1> QED
  BY <1>1, <1>4, <1>6, <1>7, <1>8, <1>9 DEF SameStamp, InWindow

\* An altered copy is not signed.
LEMMA AlterKeeps ==
    ASSUME BeaconInv, NEW d \in net, Alter(d)
    PROVE  BeaconInv'
<1> USE DEF BeaconInv
<1>1. PICK new : /\ new \in {[d EXCEPT !.form = "garbled"], [d EXCEPT !.form = "altered"],
                             [d EXCEPT !.form = "altered", !.ts = Top]}
                 /\ net' = net \cup {new}
  BY DEF Alter
<1>2. UNCHANGED <<mode, pc, stopping, clock, skew, sent, accepted>>
  BY DEF Alter, prodVars
<1>3. d \in Datagram /\ Top \in Nat
  BY ClockAssumption DEF AirShape
<1>4. new \in Datagram /\ new.form # "intact" /\ new.id = d.id /\ new.ts \in {d.ts, Top}
  BY <1>1, <1>3 DEF Datagram, Forms
<1>5. AirShape'
  BY <1>1, <1>2, <1>4 DEF AirShape
<1>6. \A e \in net' : Stamped(e)'
  BY <1>1, <1>2, <1>4 DEF Stamped
<1>7. \A e, f \in net' : SameStamp(e, f)
  BY <1>1, <1>4 DEF SameStamp
<1>8. \A a \in accepted' : a.id <= sent' /\ \A e \in net' : InWindow(a, e)
  BY <1>1, <1>2, <1>4 DEF InWindow
<1>9. ReplaysEnd' /\ ListenerOutlivesDatagrams'
  BY <1>2 DEF ReplaysEnd, ListenerOutlivesDatagrams
<1> QED
  BY <1>5, <1>6, <1>7, <1>8, <1>9 DEF SameStamp, InWindow

\* A beacon the listener accepts is in the window of every earlier acceptance.
LEMMA ReceiveKeeps ==
    ASSUME BeaconInv, NEW d \in net, ListenerReceive(d)
    PROVE  BeaconInv'
<1> USE DEF BeaconInv
<1> DEFINE new == [id |-> d.id, at |-> clock]
<1>1. /\ pc = "idle" /\ ~stopping /\ net' \subseteq net
      /\ UNCHANGED <<mode, stopping, clock, skew, sent>>
  BY DEF ListenerReceive
<1>2. d \in Datagram /\ Stamped(d)
  BY DEF AirShape
<1>3. Verify(d) # "panic" /\ ProcessBeacon(d) # "panic"
  BY <1>2, VerifyWindow DEF ProcessBeacon
<1>4. CASE ProcessBeacon(d) # "ok"
  <2>1. pc' = pc /\ accepted' = accepted
    BY <1>3, <1>4 DEF ListenerReceive
  <2> QED
    BY <1>1, <2>1, BeaconFrame
<1>5. CASE ProcessBeacon(d) = "ok"
  <2>1. pc' = "sending" /\ accepted' = accepted \cup {new}
    BY <1>5 DEF ListenerReceive, Offer
  <2>2. d.form = "intact" /\ d.ts <= clock + MaxAge /\ clock <= d.ts + MaxAge
    BY <1>2, <1>5, VerifyWindow DEF ProcessBeacon
  <2>3. d.ts \in Nat /\ d.id \in Nat /\ d.id <= sent /\ clock \in Nat /\ MaxAge \in Nat
    BY <1>2, ClockAssumption DEF AirShape, Datagram, Stamped
  <2>4. new \in [id : Nat, at : Nat] /\ new.id = d.id /\ new.at = clock
    BY <2>3
  <2> HIDE DEF new
  <2>5. AirShape'
    BY <1>1, <2>1, <2>4 DEF AirShape
  <2>6. \A e \in net' : Stamped(e)' /\ \A f \in net' : SameStamp(e, f)
    BY <1>1 DEF Stamped
  <2>7. \A a \in accepted' : a.id <= sent' /\ \A e \in net' : InWindow(a, e)
    <3>1. ASSUME NEW e \in net PROVE InWindow(new, e)
      BY <2>2, <2>4 DEF SameStamp, InWindow
    <3> QED
      BY <1>1, <2>1, <2>3, <2>4, <3>1
  <2>8. ASSUME NEW a \in accepted, a.id = d.id
        PROVE  a.at <= clock + 2 * MaxAge /\ clock <= a.at + 2 * MaxAge
    <3>1. d.ts <= a.at + MaxAge /\ a.at <= d.ts + MaxAge /\ a.at \in Nat
      BY <2>2, <2>8 DEF InWindow, AirShape
    <3> QED
      BY <2>2, <2>3, <3>1
  <2>9. ReplaysEnd'
    <3>1. ASSUME NEW a \in accepted', NEW b \in accepted', a.id = b.id
          PROVE  b.at <= a.at + 2 * MaxAge
      <4>1. CASE a \in accepted /\ b \in accepted
        BY <3>1, <4>1 DEF ReplaysEnd
      <4>2. CASE a = new /\ b = new
        BY <2>3, <2>4, <4>2
      <4>3. CASE a = new /\ b \in accepted
        BY <2>4, <2>8, <3>1, <4>3
      <4>4. CASE a \in accepted /\ b = new
        BY <2>4, <2>8, <3>1, <4>4
      <4> QED
        BY <2>1, <4>1, <4>2, <4>3, <4>4
    <3> QED
      BY <3>1 DEF ReplaysEnd
  <2>10. ListenerOutlivesDatagrams'
    BY <2>1 DEF ListenerOutlivesDatagrams
  <2> QED
    BY <2>5, <2>6, <2>7, <2>9, <2>10 DEF SameStamp, InWindow
<1> QED
  BY <1>4, <1>5

\* What is in flight, what was accepted and where the listener is fit together
\* in every reachable state of the broadcaster, the network and the listener.
THEOREM BeaconInvariant == DiscSpec => []BeaconInv
<1>1. DiscInit => BeaconInv
  BY ClockAssumption DEF DiscInit, BeaconInv, AirShape, ReplaysEnd, ListenerOutlivesDatagrams
<1>2. BeaconInv /\ [DiscNext]_discVars => BeaconInv'
  <2> SUFFICES ASSUME BeaconInv, [DiscNext]_discVars PROVE BeaconInv'
    OBVIOUS
  <2>0. pc \in {"idle", "sending", "ended"} /\ net \subseteq net
    BY DEF BeaconInv, AirShape
  <2>1. CASE SendEvent
    BY <2>0, <2>1, BeaconFrame DEF SendEvent, udpVars
  <2>2. CASE NextEvent \/ DropReceiver \/ UNCHANGED discVars
    BY <2>0, <2>2, BeaconFrame DEF NextEvent, DropReceiver, prodVars, udpVars, discVars
  <2>3. CASE Tick
    <3>1. /\ clock' = clock + 1 /\ clock < MaxClock
          /\ UNCHANGED <<mode, pc, stopping, skew, sent, net, accepted>>
      BY <2>3 DEF Tick, prodVars
    <3>2. AirShape'
      BY <3>1, ClockAssumption DEF BeaconInv, AirShape
    <3> QED
      BY <3>1, <3>2 DEF BeaconInv, Stamped, SameStamp, InWindow, ReplaysEnd,
                        ListenerOutlivesDatagrams
  <2>4. CASE CancelListener \/ ListenerEnd
    BY <2>0, <2>4, BeaconFrame DEF CancelListener, ListenerEnd, prodVars, udpVars
  <2>5. ASSUME NEW d \in net, Lose(d) PROVE BeaconInv'
    BY <2>0, <2>5, BeaconFrame DEF Lose, prodVars
  <2>6. ASSUME NEW s \in Services, Advertise(s) \/ Unadvertise(s) PROVE BeaconInv'
    BY <2>0, <2>6, BeaconFrame DEF Advertise, Unadvertise, prodVars, udpVars
  <2>7. CASE BrowserReceive
    BY <2>0, <2>7, BeaconFrame DEF BrowserReceive, Offer, prodVars, udpVars
  <2>8. CASE BrowserShutdown \/ BrowserEnd
    BY <2>0, <2>8, BeaconFrame DEF BrowserShutdown, BrowserEnd, prodVars, udpVars
  <2> QED
    BY <2>1, <2>2, <2>3, <2>4, <2>5, <2>6, <2>7, <2>8, BroadcastKeeps, AlterKeeps, ReceiveKeeps
       DEF DiscNext
<1> QED
  BY <1>1, <1>2, PTL DEF DiscSpec

\* DiscoveryBeacon::verify accepts the copies of a beacon during twice
\* BEACON_MAX_AGE_SECS and no longer, whatever the clocks and the network do.
THEOREM BeaconReplaysEnd == DiscSpec => []ReplaysEnd
<1>1. BeaconInv => ReplaysEnd
  BY DEF BeaconInv
<1> QED
  BY <1>1, BeaconInvariant, PTL

\* No datagram makes the addition in verify panic: UdpListener::run ends only
\* when it is cancelled.
THEOREM ListenerSurvives == DiscSpec => []ListenerOutlivesDatagrams
<1>1. BeaconInv => ListenerOutlivesDatagrams
  BY DEF BeaconInv
<1> QED
  BY <1>1, BeaconInvariant, PTL

-----------------------------------------------------------------------------
(* Discovery by mDNS.                                                      *)

\* What the daemon reports, and what the browser makes of it.
DaemonEvent == [kind : {"ServiceResolved", "ServiceRemoved"}, service : Services]
Event == [kind : {"Discovered", "Removed"}, peer : Fingerprints]

\* An event, of either sort, makes a reader believe in f, or believe that f went.
Come(e, f) ==
    \/ e.kind = "Discovered" /\ e.peer = f
    \/ e.kind = "ServiceResolved" /\ TxtOf[e.service] = f
Gone(e, f) ==
    \/ e.kind = "Removed" /\ e.peer = f
    \/ e.kind = "ServiceRemoved" /\ NameOf[e.service] = f

\* Who is believed to be there by one who believed in B and hears e; and by one
\* who hears all of q.
Told(e, B) == {f \in Fingerprints : Come(e, f) \/ (f \in B /\ ~Gone(e, f))}

Known(q, B) ==
    {s \in Fingerprints :
        \/ \E i \in 1 .. Len(q) : Come(q[i], s) /\ \A j \in i + 1 .. Len(q) : ~Gone(q[j], s)
        \/ s \in B /\ \A j \in 1 .. Len(q) : ~Gone(q[j], s)}

\* The part of the type invariant that the argument needs.
BrowserShape ==
    /\ pc \in {"idle", "sending", "ended"}
    /\ up \subseteq Services
    /\ mode = "mdns" =>
        /\ chan \in Seq(Event) /\ delivered \in Seq(Event) /\ queue \in Seq(DaemonEvent)
        /\ pc = "sending" => held \in Event
        /\ net = {}

\* What the reader will believe once it has heard all that is on its way: what
\* is in the channel, what the thread holds, and what the daemon has reported.
Queued == Known(chan, View)
Forwarded == IF pc = "sending" THEN Told(held, Queued) ELSE Queued
WillBelieve == Known(queue, Forwarded)

\* What ViewSettles says of the reader's view, of any belief B.
RightAbout(B) ==
    \A f \in Fingerprints :
        /\ Tells(f) \subseteq Named(f) /\ f \in B => Tells(f) \cap up # {}
        /\ (\A s \in Named(f), t \in Tells(f) : s = t) /\ Tells(f) \cap up # {} => f \in B

\* While the reader is there, that will be right about who is up.
BrowserInv ==
    /\ BrowserShape
    /\ mode = "mdns" /\ reading =>
        /\ ~stopping /\ pc # "ended"
        /\ RightAbout(WillBelieve)

\* One who hears nothing keeps the same belief.
LEMMA KnownEmpty ==
    ASSUME NEW B, B \subseteq Fingerprints
    PROVE  Known(<<>>, B) = B
<1>1. 1 .. Len(<<>>) = {}
  BY EmptySeq
<1> QED
  BY <1>1 DEF Known

\* The last event counts last.
LEMMA KnownAppend ==
    ASSUME NEW E, NEW q \in Seq(E), NEW e \in E, NEW B
    PROVE  Known(Append(q, e), B) = Told(e, Known(q, B))
<1> DEFINE r == Append(q, e)
           l == Len(q)
<1>1. l \in Nat
  BY LenProperties
<1>2. Len(r) = l + 1 /\ (\A i \in 1 .. l : r[i] = q[i]) /\ r[l + 1] = e
  BY AppendProperties
<1> HIDE DEF r, l
<1>3. ASSUME NEW s \in Fingerprints
      PROVE  (\A j \in 1 .. Len(r) : ~Gone(r[j], s))
                <=> (\A j \in 1 .. l : ~Gone(q[j], s)) /\ ~Gone(e, s)
  <2>1. \A j \in 1 .. Len(r) : j \in 1 .. l \/ j = l + 1
    BY <1>1, <1>2
  <2>2. l + 1 \in 1 .. Len(r) /\ \A j \in 1 .. l : j \in 1 .. Len(r)
    BY <1>1, <1>2
  <2> QED
    BY <1>2, <2>1, <2>2
<1>4. ASSUME NEW s \in Fingerprints, NEW i \in 1 .. l
      PROVE  (\A j \in i + 1 .. Len(r) : ~Gone(r[j], s))
                <=> (\A j \in i + 1 .. l : ~Gone(q[j], s)) /\ ~Gone(e, s)
  <2>1. \A j \in i + 1 .. Len(r) : j \in i + 1 .. l \/ j = l + 1
    BY <1>1, <1>2
  <2>2. l + 1 \in i + 1 .. Len(r) /\ \A j \in i + 1 .. l : j \in i + 1 .. Len(r) /\ j \in 1 .. l
    BY <1>1, <1>2
  <2>3. \A j \in i + 1 .. l : r[j] = q[j]
    BY <1>2, <2>2
  <2> QED
    BY <1>2, <2>1, <2>2, <2>3
<1>5. ASSUME NEW s \in Fingerprints
      PROVE  (\E i \in 1 .. Len(r) : Come(r[i], s) /\ \A j \in i + 1 .. Len(r) : ~Gone(r[j], s))
                <=> \/ Come(e, s)
                    \/ /\ ~Gone(e, s)
                       /\ \E i \in 1 .. l : Come(q[i], s) /\ \A j \in i + 1 .. l : ~Gone(q[j], s)
  <2>1. \A i \in 1 .. Len(r) : i \in 1 .. l \/ i = l + 1
    BY <1>1, <1>2
  <2>2. l + 1 \in 1 .. Len(r) /\ \A i \in 1 .. l : i \in 1 .. Len(r)
    BY <1>1, <1>2
  <2>3. (l + 1) + 1 .. Len(r) = {}
    BY <1>1, <1>2
  <2> QED
    BY <1>2, <1>4, <2>1, <2>2, <2>3
<1>6. ASSUME NEW s \in Fingerprints
      PROVE  s \in Known(r, B) <=> Come(e, s) \/ (s \in Known(q, B) /\ ~Gone(e, s))
  BY <1>3, <1>5 DEF Known, l
<1>7. Known(r, B) \subseteq Fingerprints /\ Known(q, B) \subseteq Fingerprints
  BY DEF Known
<1> QED
  BY <1>6, <1>7 DEF Told, r

\* The first event counts first.
LEMMA KnownTail ==
    ASSUME NEW E, NEW q \in Seq(E), q # <<>>, NEW B
    PROVE  Known(q, B) = Known(Tail(q), Told(Head(q), B))
<1> DEFINE r == Tail(q)
           h == Head(q)
           l == Len(q)
<1>1. l \in Nat \ {0}
  BY EmptySeq
<1>2. r \in Seq(E) /\ Len(r) = l - 1 /\ (\A i \in 1 .. Len(r) : r[i] = q[i + 1])
  BY HeadTailProperties
<1>3. q[1] = h
  OBVIOUS
<1> HIDE DEF r, h, l
<1>4. \A i \in 1 .. Len(r) : i + 1 \in 1 .. l
  BY <1>1, <1>2
<1>5. \A i \in 1 .. l : i # 1 => i - 1 \in 1 .. Len(r) /\ (i - 1) + 1 = i
  BY <1>1, <1>2
<1>6. 1 \in 1 .. l
  BY <1>1
<1>7. ASSUME NEW s \in Fingerprints
      PROVE  (\A j \in 1 .. l : ~Gone(q[j], s)) <=> (\A j \in 1 .. Len(r) : ~Gone(r[j], s)) /\ ~Gone(h, s)
  <2>1. ASSUME \A j \in 1 .. Len(r) : ~Gone(r[j], s), ~Gone(h, s), NEW j \in 1 .. l
        PROVE  ~Gone(q[j], s)
    BY <1>2, <1>3, <1>5, <2>1
  <2>2. ASSUME \A j \in 1 .. l : ~Gone(q[j], s)
        PROVE  (\A j \in 1 .. Len(r) : ~Gone(r[j], s)) /\ ~Gone(h, s)
    BY <1>2, <1>3, <1>4, <1>6, <2>2
  <2> QED
    BY <2>1, <2>2
<1>8. ASSUME NEW s \in Fingerprints, NEW i \in 1 .. Len(r)
      PROVE  (\A j \in (i + 1) + 1 .. l : ~Gone(q[j], s)) <=> (\A j \in i + 1 .. Len(r) : ~Gone(r[j], s))
  <2>1. \A j \in i + 1 .. Len(r) : j + 1 \in (i + 1) + 1 .. l /\ j \in 1 .. Len(r)
    BY <1>1, <1>2
  <2>2. \A j \in (i + 1) + 1 .. l : j - 1 \in i + 1 .. Len(r) /\ j - 1 \in 1 .. Len(r) /\ (j - 1) + 1 = j
    BY <1>1, <1>2
  <2>3. ASSUME \A j \in i + 1 .. Len(r) : ~Gone(r[j], s), NEW j \in (i + 1) + 1 .. l
        PROVE  ~Gone(q[j], s)
    BY <1>2, <2>2, <2>3
  <2>4. ASSUME \A j \in (i + 1) + 1 .. l : ~Gone(q[j], s), NEW j \in i + 1 .. Len(r)
        PROVE  ~Gone(r[j], s)
    BY <1>2, <2>1, <2>4
  <2> QED
    BY <2>3, <2>4
<1>9. ASSUME NEW s \in Fingerprints
      PROVE  (\A j \in 1 + 1 .. l : ~Gone(q[j], s)) <=> (\A j \in 1 .. Len(r) : ~Gone(r[j], s))
  <2>1. \A j \in 1 + 1 .. l : j - 1 \in 1 .. Len(r) /\ (j - 1) + 1 = j
    BY <1>1, <1>2
  <2>2. \A j \in 1 .. Len(r) : j + 1 \in 1 + 1 .. l
    BY <1>1, <1>2
  <2>3. ASSUME \A j \in 1 .. Len(r) : ~Gone(r[j], s), NEW j \in 1 + 1 .. l
        PROVE  ~Gone(q[j], s)
    BY <1>2, <2>1, <2>3
  <2> QED
    BY <1>2, <2>2, <2>3
<1>10. ASSUME NEW s \in Fingerprints
       PROVE  (\E i \in 1 .. l : Come(q[i], s) /\ \A j \in i + 1 .. l : ~Gone(q[j], s))
                 <=> \/ Come(h, s) /\ \A j \in 1 .. Len(r) : ~Gone(r[j], s)
                     \/ \E i \in 1 .. Len(r) : Come(r[i], s) /\ \A j \in i + 1 .. Len(r) : ~Gone(r[j], s)
  <2>1. ASSUME NEW i \in 1 .. l, Come(q[i], s), \A j \in i + 1 .. l : ~Gone(q[j], s)
        PROVE  \/ Come(h, s) /\ \A j \in 1 .. Len(r) : ~Gone(r[j], s)
               \/ \E k \in 1 .. Len(r) : Come(r[k], s) /\ \A j \in k + 1 .. Len(r) : ~Gone(r[j], s)
    <3>1. CASE i = 1
      BY <1>3, <1>9, <2>1, <3>1
    <3>2. CASE i # 1
      <4>1. i - 1 \in 1 .. Len(r) /\ (i - 1) + 1 = i
        BY <1>5, <3>2
      <4>2. Come(r[i - 1], s)
        BY <1>2, <2>1, <4>1
      <4>3. \A j \in (i - 1) + 1 .. Len(r) : ~Gone(r[j], s)
        BY <1>8, <2>1, <4>1
      <4> QED
        BY <4>1, <4>2, <4>3
    <3> QED
      BY <3>1, <3>2
  <2>2. ASSUME Come(h, s), \A j \in 1 .. Len(r) : ~Gone(r[j], s)
        PROVE  \E i \in 1 .. l : Come(q[i], s) /\ \A j \in i + 1 .. l : ~Gone(q[j], s)
    BY <1>3, <1>6, <1>9, <2>2
  <2>3. ASSUME NEW k \in 1 .. Len(r), Come(r[k], s), \A j \in k + 1 .. Len(r) : ~Gone(r[j], s)
        PROVE  \E i \in 1 .. l : Come(q[i], s) /\ \A j \in i + 1 .. l : ~Gone(q[j], s)
    BY <1>2, <1>4, <1>8, <2>3
  <2> QED
    BY <2>1, <2>2, <2>3
<1>11. ASSUME NEW s \in Fingerprints
       PROVE  s \in Told(h, B) <=> Come(h, s) \/ (s \in B /\ ~Gone(h, s))
  BY DEF Told
<1>12. ASSUME NEW s \in Fingerprints
       PROVE  s \in Known(q, B) <=> s \in Known(r, Told(h, B))
  BY <1>7, <1>10, <1>11 DEF Known, l
<1>13. Known(q, B) \subseteq Fingerprints /\ Known(r, Told(h, B)) \subseteq Fingerprints
  BY DEF Known
<1> QED
  BY <1>12, <1>13 DEF r, h

\* The thread's translation keeps the meaning of an event, and drops only events
\* that have none.
LEMMA Translated ==
    ASSUME NEW e \in DaemonEvent
    PROVE  /\ Translate(e) # NoEvent =>
                /\ Translate(e) \in Event
                /\ \A f \in Fingerprints : /\ Come(Translate(e), f) <=> Come(e, f)
                                           /\ Gone(Translate(e), f) <=> Gone(e, f)
           /\ Translate(e) = NoEvent => \A f \in Fingerprints : ~Come(e, f) /\ ~Gone(e, f)
<1>1. /\ e.service \in Services /\ e.kind \in {"ServiceResolved", "ServiceRemoved"}
      /\ TxtOf[e.service] \in Fingerprints \cup {NoFp}
      /\ NameOf[e.service] \in Fingerprints \cup {NoFp}
  BY ServicesAssumption DEF DaemonEvent
<1>2. CASE e.kind = "ServiceResolved" /\ TxtOf[e.service] # NoFp
  <2>1. Translate(e) = [kind |-> "Discovered", peer |-> TxtOf[e.service]]
    BY <1>2 DEF Translate, ParsePeerInfo
  <2> QED
    BY <1>1, <1>2, <2>1 DEF Event, NoEvent, Come, Gone
<1>3. CASE e.kind = "ServiceRemoved" /\ NameOf[e.service] # NoFp
  <2>1. Translate(e) = [kind |-> "Removed", peer |-> NameOf[e.service]]
    BY <1>3 DEF Translate, ParsePeerInfo
  <2> QED
    BY <1>1, <1>3, <2>1 DEF Event, NoEvent, Come, Gone
<1>4. CASE \/ e.kind = "ServiceResolved" /\ TxtOf[e.service] = NoFp
           \/ e.kind = "ServiceRemoved" /\ NameOf[e.service] = NoFp
  <2>1. Translate(e) = NoEvent
    BY <1>4 DEF Translate, ParsePeerInfo
  <2>2. \A f \in Fingerprints : ~Come(e, f) /\ ~Gone(e, f)
    BY <1>4, ServicesAssumption DEF Come, Gone
  <2> QED
    BY <2>1, <2>2
<1> QED
  BY <1>1, <1>2, <1>3, <1>4

\* The view of a reader that took the events q.
ViewOf(q) ==
    {s \in Fingerprints :
        \E i \in 1 .. Len(q) :
            /\ q[i] = [kind |-> "Discovered", peer |-> s]
            /\ \A j \in i + 1 .. Len(q) : q[j] # [kind |-> "Removed", peer |-> s]}

\* The reader's view is what it knows from the events it took.
LEMMA ViewIsKnown ==
    ASSUME NEW q \in Seq(Event)
    PROVE  ViewOf(q) = Known(q, {})
<1>1. \A i \in 1 .. Len(q) : q[i] \in Event
  BY ElementOfSeq
<1>2. ASSUME NEW s \in Fingerprints, NEW e \in Event
      PROVE  /\ e = [kind |-> "Discovered", peer |-> s] <=> Come(e, s)
             /\ e = [kind |-> "Removed", peer |-> s] <=> Gone(e, s)
  BY DEF Event, Come, Gone
<1>3. Len(q) \in Nat
  BY LenProperties
<1>4. \A i \in 1 .. Len(q) : \A j \in i + 1 .. Len(q) : j \in 1 .. Len(q)
  BY <1>3
<1> QED
  BY <1>1, <1>2, <1>4 DEF ViewOf, Known

\* A step that leaves the browser and its channel alone keeps the invariant.
LEMMA BrowserFrame ==
    ASSUME BrowserInv, mode' = mode, up' = up, pc' \in {"idle", "sending", "ended"},
           mode = "mdns" => UNCHANGED <<chan, delivered, queue, held, pc, net, reading, stopping>>
    PROVE  BrowserInv'
<1>1. CASE mode = "mdns"
  <2>1. UNCHANGED <<chan, delivered, queue, held, pc, net, reading, stopping, mode, up>>
    BY <1>1
  <2>2. View' = View
    BY <2>1 DEF View
  <2>3. WillBelieve' = WillBelieve
    BY <2>1, <2>2 DEF WillBelieve, Forwarded, Queued, Known, Told, Gone, Come
  <2> QED
    BY <2>1, <2>3 DEF BrowserInv, BrowserShape, RightAbout
<1>2. CASE mode # "mdns"
  BY <1>2 DEF BrowserInv, BrowserShape
<1> QED
  BY <1>1, <1>2

\* The thread's send moves what it holds to the end of the channel.
LEMMA SendEventKeeps ==
    ASSUME BrowserInv, SendEvent
    PROVE  BrowserInv'
<1>0. chan' = Append(chan, held) \/ (~reading /\ chan' = chan)
  BY Zenon DEF SendEvent
<1>1. /\ pc = "sending" /\ pc' = "idle"
      /\ UNCHANGED <<mode, reading, delivered, stopping, net, up, queue>>
  BY DEF SendEvent, udpVars, mdnsVars
<1>2. CASE mode # "mdns"
  BY <1>1, <1>2 DEF BrowserInv, BrowserShape
<1>3. CASE mode = "mdns"
  <2>1. chan \in Seq(Event) /\ held \in Event
    BY <1>1, <1>3 DEF BrowserInv, BrowserShape
  <2>2. BrowserShape'
    <3>1. chan' \in Seq(Event)
      BY <1>0, <2>1, AppendProperties
    <3> QED
      BY <1>1, <1>3, <3>1 DEF BrowserInv, BrowserShape
  <2>3. View' = View
    BY <1>1 DEF View
  <2>4. CASE ~reading
    BY <1>1, <2>2, <2>4 DEF BrowserInv
  <2>5. CASE reading
    <3>1. chan' = Append(chan, held)
      BY <1>0, <2>5
    <3>2. Queued' = Known(Append(chan, held), View)
      BY <2>3, <3>1 DEF Queued, Known, Gone, Come
    <3>3. Forwarded' = Forwarded
      BY <1>1, <2>1, <3>2, KnownAppend DEF Forwarded, Queued
    <3>4. WillBelieve' = WillBelieve
      BY <1>1, <3>3 DEF WillBelieve, Known, Gone, Come
    <3> QED
      BY <1>1, <1>3, <2>2, <2>5, <3>4 DEF BrowserInv, RightAbout
  <2> QED
    BY <2>4, <2>5
<1> QED
  BY <1>2, <1>3

\* The reader's step moves the first event of the channel to its view.
LEMMA NextEventKeeps ==
    ASSUME BrowserInv, NextEvent
    PROVE  BrowserInv'
<1>1. /\ chan # <<>> /\ reading /\ delivered' = Append(delivered, Head(chan)) /\ chan' = Tail(chan)
      /\ UNCHANGED <<mode, pc, held, reading, stopping, net, up, queue>>
  BY DEF NextEvent, prodVars, udpVars, mdnsVars
<1>2. CASE mode # "mdns"
  BY <1>1, <1>2 DEF BrowserInv, BrowserShape
<1>3. CASE mode = "mdns"
  <2>1. chan \in Seq(Event) /\ delivered \in Seq(Event)
    BY <1>3 DEF BrowserInv, BrowserShape
  <2>2. Head(chan) \in Event /\ Tail(chan) \in Seq(Event)
    BY <1>1, <2>1, HeadTailProperties
  <2>3. delivered' \in Seq(Event)
    BY <1>1, <2>1, <2>2, AppendProperties
  <2>4. BrowserShape'
    BY <1>1, <1>3, <2>2, <2>3 DEF BrowserInv, BrowserShape
  <2>5. View' = Told(Head(chan), View)
    <3>1. View = Known(delivered, {})
      BY <2>1, ViewIsKnown DEF View, ViewOf
    <3>2. View' = Known(delivered', {})
      <4>1. View' = ViewOf(delivered')
        BY DEF View, ViewOf
      <4> QED
        BY <2>3, <4>1, ViewIsKnown
    <3> QED
      BY <1>1, <2>1, <2>2, <3>1, <3>2, KnownAppend
  <2>6. Queued' = Queued
    <3>1. Queued' = Known(Tail(chan), Told(Head(chan), View))
      BY <1>1, <2>5 DEF Queued, Known, Gone, Come
    <3> QED
      BY <1>1, <2>1, <3>1, KnownTail DEF Queued
  <2>7. WillBelieve' = WillBelieve
    BY <1>1, <2>6 DEF WillBelieve, Forwarded, Known, Told, Gone, Come
  <2> QED
    BY <1>1, <1>3, <2>4, <2>7 DEF BrowserInv, RightAbout
<1> QED
  BY <1>2, <1>3

\* The thread's receive moves what an event of the daemon means into its hands,
\* or drops one that means nothing.
LEMMA BrowserReceiveKeeps ==
    ASSUME BrowserInv, BrowserReceive
    PROVE  BrowserInv'
<1> DEFINE e == Head(queue)
<1>1. /\ mode = "mdns" /\ pc = "idle" /\ queue # <<>> /\ queue' = Tail(queue)
      /\ UNCHANGED <<mode, chan, reading, delivered, stopping, net, up>>
  BY DEF BrowserReceive, udpVars
<1>2. queue \in Seq(DaemonEvent)
  BY <1>1 DEF BrowserInv, BrowserShape
<1>3. e \in DaemonEvent /\ Tail(queue) \in Seq(DaemonEvent)
  BY <1>1, <1>2, HeadTailProperties
<1>4. View' = View
  BY <1>1 DEF View
<1>5. Queued' = Queued /\ Queued \subseteq Fingerprints
  BY <1>1, <1>4 DEF Queued, Known, Gone, Come
<1>6. WillBelieve = Known(Tail(queue), Told(e, Queued))
  BY <1>1, <1>2, KnownTail DEF WillBelieve, Forwarded
<1>7. ASSUME Forwarded' = Told(e, Queued), BrowserShape', pc' # "ended" PROVE BrowserInv'
  <2>1. WillBelieve' = Known(queue', Forwarded')
    BY DEF WillBelieve, Known, Gone, Come
  <2>2. WillBelieve' = WillBelieve
    BY <1>1, <1>6, <1>7, <2>1
  <2> QED
    BY <1>1, <1>7, <2>2 DEF BrowserInv, RightAbout
<1>8. CASE Translate(e) # NoEvent
  <2>1. pc' = "sending" /\ held' = Translate(e)
    BY <1>8 DEF BrowserReceive, Offer
  <2>2. held' \in Event /\ Told(held', Queued) = Told(e, Queued)
    BY <1>3, <1>8, <2>1, Translated DEF Told
  <2>3. BrowserShape'
    BY <1>1, <1>3, <2>1, <2>2 DEF BrowserInv, BrowserShape
  <2>4. Forwarded' = Told(e, Queued)
    BY <1>5, <2>1, <2>2 DEF Forwarded, Told
  <2> QED
    BY <1>7, <2>1, <2>3, <2>4
<1>9. CASE Translate(e) = NoEvent
  <2>1. pc' = pc /\ held' = held
    BY <1>9 DEF BrowserReceive, prodVars
  <2>2. BrowserShape'
    BY <1>1, <1>3, <2>1 DEF BrowserInv, BrowserShape
  <2>3. Told(e, Queued) = Queued
    BY <1>3, <1>5, <1>9, Translated DEF Told
  <2>4. Forwarded' = Told(e, Queued)
    BY <1>1, <1>5, <2>1, <2>3 DEF Forwarded
  <2> QED
    BY <1>1, <1>7, <2>1, <2>2, <2>4
<1> QED
  BY <1>8, <1>9

\* A registration keeps a belief right: it adds the peer that is now up.
LEMMA RightUp ==
    ASSUME NEW B, RightAbout(B), NEW s \in Services, up' = up \cup {s}
    PROVE  RightAbout(Told([kind |-> "ServiceResolved", service |-> s], B))'
<1> DEFINE e == [kind |-> "ServiceResolved", service |-> s]
<1>1. \A f \in Fingerprints : (Come(e, f) <=> s \in Tells(f)) /\ ~Gone(e, f)
  BY DEF Come, Gone, Tells
<1>2. \A f \in Fingerprints : f \in Told(e, B) <=> s \in Tells(f) \/ f \in B
  BY <1>1 DEF Told
<1> HIDE DEF e
<1>3. ASSUME NEW f \in Fingerprints
      PROVE  /\ Tells(f) \subseteq Named(f) /\ f \in Told(e, B) => Tells(f) \cap up' # {}
             /\ (\A n \in Named(f), t \in Tells(f) : n = t) /\ Tells(f) \cap up' # {}
                    => f \in Told(e, B)
  BY <1>2 DEF RightAbout
<1> QED
  BY <1>3 DEF RightAbout, e, Told, Come, Gone, Tells, Named

\* A removal keeps it right: if the service tells a peer it also has its name,
\* and if it has a peer's name nobody else tells that peer.
LEMMA RightDown ==
    ASSUME NEW B, RightAbout(B), NEW s \in Services, up' = up \ {s}
    PROVE  RightAbout(Told([kind |-> "ServiceRemoved", service |-> s], B))'
<1> DEFINE e == [kind |-> "ServiceRemoved", service |-> s]
<1>1. \A f \in Fingerprints : (Gone(e, f) <=> s \in Named(f)) /\ ~Come(e, f)
  BY DEF Come, Gone, Named
<1>2. \A f \in Fingerprints : f \in Told(e, B) <=> f \in B /\ s \notin Named(f)
  BY <1>1 DEF Told
<1> HIDE DEF e
<1>3. ASSUME NEW f \in Fingerprints
      PROVE  /\ Tells(f) \subseteq Named(f) /\ f \in Told(e, B) => Tells(f) \cap up' # {}
             /\ (\A n \in Named(f), t \in Tells(f) : n = t) /\ Tells(f) \cap up' # {}
                    => f \in Told(e, B)
  BY <1>2 DEF RightAbout
<1> QED
  BY <1>3 DEF RightAbout, e, Told, Come, Gone, Tells, Named

\* A registration and a removal are reported in the order they happen.
LEMMA AdvertiseKeeps ==
    ASSUME BrowserInv, NEW s \in Services, Advertise(s) \/ Unadvertise(s)
    PROVE  BrowserInv'
<1> DEFINE Reported(e) ==
              /\ e \in DaemonEvent
              /\ ~stopping => queue' = Append(queue, e)
              /\ stopping => queue' = queue
              /\ \/ e.kind = "ServiceResolved" /\ up' = up \cup {s}
                 \/ e.kind = "ServiceRemoved" /\ up' = up \ {s}
              /\ e = [kind |-> e.kind, service |-> s]
<1>1. UNCHANGED <<mode, pc, held, chan, reading, delivered, stopping, net>> /\ mode = "mdns"
  BY DEF Advertise, Unadvertise, prodVars, chanVars, udpVars
<1>2. PICK e : Reported(e)
  <2>1. CASE Advertise(s)
    <3>1. Reported([kind |-> "ServiceResolved", service |-> s])
      BY <2>1 DEF Advertise, Report, DaemonEvent
    <3> QED
      BY <3>1
  <2>2. CASE Unadvertise(s)
    <3>1. Reported([kind |-> "ServiceRemoved", service |-> s])
      BY <2>2 DEF Unadvertise, Report, DaemonEvent
    <3> QED
      BY <3>1
  <2> QED
    BY <2>1, <2>2
<1>3. queue \in Seq(DaemonEvent) /\ up \subseteq Services
  BY <1>1 DEF BrowserInv, BrowserShape
<1>4. queue' \in Seq(DaemonEvent)
  BY <1>1, <1>2, <1>3, AppendProperties
<1>5. up' \subseteq Services
  BY <1>2, <1>3
<1>6. BrowserShape'
  BY <1>1, <1>4, <1>5 DEF BrowserInv, BrowserShape
<1>7. CASE ~reading
  BY <1>1, <1>6, <1>7 DEF BrowserInv
<1>8. CASE reading
  <2>1. ~stopping /\ RightAbout(WillBelieve) /\ pc # "ended"
    BY <1>1, <1>8 DEF BrowserInv
  <2>2. View' = View
    BY <1>1 DEF View
  <2>3. Forwarded' = Forwarded
    BY <1>1, <2>2 DEF Forwarded, Queued, Known, Told, Gone, Come
  <2>4. WillBelieve' = Known(Append(queue, e), Forwarded)
    BY <1>2, <2>1, <2>3 DEF WillBelieve, Known, Gone, Come
  <2>5. WillBelieve' = Told(e, WillBelieve)
    BY <1>2, <1>3, <2>4, KnownAppend DEF WillBelieve
  <2>6. RightAbout(WillBelieve)'
    <3> DEFINE B == WillBelieve
    <3>1. ASSUME NEW C, C = B, RightAbout(C) PROVE RightAbout(Told(e, C))'
      BY <1>2, <3>1, RightUp, RightDown
    <3> QED
      BY <2>1, <2>5, <3>1 DEF RightAbout
  <2> QED
    BY <1>1, <1>6, <1>8, <2>1, <2>6 DEF BrowserInv
<1> QED
  BY <1>7, <1>8

\* The reader of MdnsBrowser will be right about who is up once it has heard all
\* that is on its way, in every reachable state.
THEOREM BrowserInvariant == DiscSpec => []BrowserInv
<1>1. DiscInit => BrowserInv
  <2> SUFFICES ASSUME DiscInit PROVE BrowserInv
    OBVIOUS
  <2> USE DEF DiscInit
  <2>1. BrowserShape
    BY EmptySeq DEF BrowserShape
  <2>2. View = {}
    <3>1. 1 .. Len(delivered) = {}
      BY EmptySeq
    <3> QED
      BY <3>1 DEF View
  <2>3. Queued = {} /\ Forwarded = {}
    BY <2>2, KnownEmpty DEF Queued, Forwarded
  <2>4. WillBelieve = {}
    BY <2>3, KnownEmpty DEF WillBelieve
  <2> QED
    BY <2>1, <2>4 DEF BrowserInv, RightAbout
<1>2. BrowserInv /\ [DiscNext]_discVars => BrowserInv'
  <2> SUFFICES ASSUME BrowserInv, [DiscNext]_discVars PROVE BrowserInv'
    OBVIOUS
  <2>1. pc \in {"idle", "sending", "ended"} /\ (mode = "mdns" => net = {})
    BY DEF BrowserInv, BrowserShape
  <2>2. CASE DropReceiver \/ BrowserShutdown
    <3>1. ~reading' /\ chan' = <<>> /\ UNCHANGED <<mode, pc, held, delivered, net, up, queue>>
      BY <2>2 DEF DropReceiver, BrowserShutdown, prodVars, udpVars, mdnsVars
    <3> QED
      BY <3>1, EmptySeq DEF BrowserInv, BrowserShape
  <2>3. CASE Tick \/ Broadcast \/ CancelListener \/ ListenerEnd
    BY <2>1, <2>3, BrowserFrame DEF Tick, Broadcast, CancelListener, ListenerEnd, prodVars,
                                    chanVars, mdnsVars, udpVars
  <2>4. ASSUME NEW d \in net, Lose(d) \/ Alter(d) \/ ListenerReceive(d) PROVE BrowserInv'
    <3>1. mode # "mdns"
      BY <2>1
    <3>2. mode' = mode /\ up' = up
      BY <2>4 DEF Lose, Alter, ListenerReceive, mdnsVars
    <3>3. pc' \in {"idle", "sending", "ended"}
      BY <2>1, <2>4 DEF Lose, Alter, ListenerReceive, Offer, prodVars
    <3> QED
      BY <3>1, <3>2, <3>3, BrowserFrame
  <2>5. CASE BrowserEnd
    <3>1. /\ mode = "mdns" /\ stopping /\ pc' = "ended" /\ UNCHANGED <<mode, held, net, up, queue>>
          /\ UNCHANGED <<chan, reading, delivered, stopping>>
      BY <2>5 DEF BrowserEnd, chanVars, udpVars, mdnsVars
    <3> QED
      BY <3>1 DEF BrowserInv, BrowserShape
  <2>6. CASE UNCHANGED discVars
    BY <2>1, <2>6, BrowserFrame DEF discVars
  <2> QED
    BY <2>2, <2>3, <2>4, <2>5, <2>6, SendEventKeeps, NextEventKeeps, BrowserReceiveKeeps,
       AdvertiseKeeps DEF DiscNext
<1> QED
  BY <1>1, <1>2, PTL DEF DiscSpec

\* So once nothing is on its way it is: the bounded channel and the thread's
\* translation lose and reorder nothing that matters, and only a service whose
\* name and TXT record disagree leaves a peer behind or takes one away.
THEOREM ReaderSeesWhoIsUp == DiscSpec => []ViewSettles
<1>1. BrowserInv => ViewSettles
  <2> SUFFICES ASSUME BrowserInv, mode = "mdns", reading, pc = "idle", queue = <<>>, chan = <<>>
               PROVE  RightAbout(View)
    BY DEF ViewSettles, RightAbout
  <2>1. View \subseteq Fingerprints
    BY DEF View
  <2>2. Queued = View /\ Forwarded = View
    BY <2>1, KnownEmpty DEF Queued, Forwarded
  <2>3. WillBelieve = View
    BY <2>1, <2>2, KnownEmpty DEF WillBelieve
  <2> QED
    BY <2>3 DEF BrowserInv, RightAbout
<1> QED
  BY <1>1, BrowserInvariant, PTL
=============================================================================
