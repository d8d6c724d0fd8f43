------------------------- MODULE ConnectPeerProofs --------------------------
(***************************************************************************)
(* Proofs about ConnectPeerUseCase::execute: what it and discoveries make  *)
(* of the peer's row (PeerRow), for any set of connect calls and           *)
(* discoveries, and how often it gets past the limiter (RateLimiter), for  *)
(* any set of attempts, window and limit.                                  *)
(***************************************************************************)
EXTENDS PeerRow, RateLimiter, FiniteSetTheorems, TLAPS

-----------------------------------------------------------------------------
(* The row.  A verification can travel from the trust store through a      *)
(* call's answer, the row and the copies of the row; the invariant follows *)
(* it.                                                                     *)

IsVerified(r) == r # NoRow /\ r.verified

RowInv ==
    /\ TypeOK
    /\ \A c \in Calls : sawTrust[c] => trusted \/ revoked
    /\ \A a \in Actors : IsVerified(loaded[a]) => trusted \/ revoked
    /\ VerifiedOnlyIfTrusted
    /\ OnlineNeedsHandshake

-----------------------------------------------------------------------------
\* Nothing is stored at first.
LEMMA RowInit == Init => RowInv
  BY ActorsAssumption
     DEF Init, RowInv, TypeOK, Actors, IsVerified, VerifiedOnlyIfTrusted,
         OnlineNeedsHandshake

\* A step of a connect call keeps the invariant.
LEMMA ConnectStepInv ==
    ASSUME RowInv, NEW c \in Calls, ConnectStep(c)
    PROVE  RowInv'
<1> USE ActorsAssumption, NoRowAssumption
         DEF RowInv, TypeOK, Actors, Rows, IsVerified, VerifiedOnlyIfTrusted,
             OnlineNeedsHandshake, At, Goto, rowVars, trustVars
<1>1. CASE DialOk(c)      BY <1>1 DEF DialOk
<1>2. CASE DialError(c)   BY <1>2 DEF DialError
<1>3. CASE CheckTrust(c)
  <2>1. PICK answer \in {trusted, FALSE} : sawTrust' = [sawTrust EXCEPT ![c] = answer]
    BY <1>3 DEF CheckTrust
  <2>2. sawTrust' \in [Calls -> BOOLEAN]
    BY <2>1
  <2>3. \A d \in Calls : sawTrust'[d] => trusted \/ revoked
    BY <2>1, Zenon
  <2>4. UNCHANGED <<loaded, row, trusted, revoked, shaken>>
    BY <1>3 DEF CheckTrust
  <2>5. /\ pc' \in [Actors -> {"dial", "trust", "load", "discover", "save", "done"}]
        /\ \A d \in Calls : pc'[d] \in {"trust", "load", "save"} => d \in shaken
    BY <1>3 DEF CheckTrust
  <2> QED
    BY <2>2, <2>3, <2>4, <2>5
<1>4. CASE Load(c)        BY <1>4 DEF Load
<1>5. CASE Save(c)        BY <1>5 DEF Save, Entity, Verify, SetStatus
<1>6. CASE StoreError(c)  BY <1>6 DEF StoreError
<1> QED
  BY <1>1, <1>2, <1>3, <1>4, <1>5, <1>6 DEF ConnectStep

\* A step of a discovery keeps the invariant.
LEMMA DiscoverStepInv ==
    ASSUME RowInv, NEW d \in Discoveries, DiscoverStep(d)
    PROVE  RowInv'
<1> USE ActorsAssumption, NoRowAssumption
         DEF RowInv, TypeOK, Actors, Rows, IsVerified, VerifiedOnlyIfTrusted,
             OnlineNeedsHandshake, At, Goto, rowVars, trustVars
<1>1. CASE DiscoverLoad(d)   BY <1>1 DEF DiscoverLoad
<1>2. CASE DiscoverSave(d)   BY <1>2 DEF DiscoverSave, Entity, SetStatus
<1>3. CASE DiscoverError(d)  BY <1>3 DEF DiscoverError
<1> QED
  BY <1>1, <1>2, <1>3 DEF DiscoverStep

\* Every step keeps the invariant.
LEMMA RowNext ==
    ASSUME RowInv, [Next]_vars
    PROVE  RowInv'
<1> USE DEF RowInv, TypeOK, IsVerified, VerifiedOnlyIfTrusted, OnlineNeedsHandshake
<1>1. CASE UNCHANGED vars
  BY <1>1 DEF vars
<1>2. CASE AddTrusted
  BY <1>2 DEF AddTrusted, rowVars
<1>3. CASE RemoveTrusted
  BY <1>3 DEF RemoveTrusted, rowVars
<1> QED
  BY <1>1, <1>2, <1>3, ConnectStepInv, DiscoverStepInv DEF Next

\* The invariant holds throughout.
THEOREM RowInvariant == Spec => []RowInv
<1>1. Init => RowInv
  BY RowInit
<1>2. RowInv /\ [Next]_vars => RowInv'
  BY RowNext
<1> QED
  BY <1>1, <1>2, PTL DEF Spec

\* Types are kept, and no connect call gets past its dial without a handshake.
THEOREM RowTypeCorrect == Spec => []TypeOK
<1>1. RowInv => TypeOK
  BY DEF RowInv
<1> QED
  BY <1>1, RowInvariant, PTL

\* Trust fails closed and a peer is online only after a handshake, for any
\* number of calls and discoveries that race for the row.
THEOREM RowSound == Spec => [](VerifiedOnlyIfTrusted /\ OnlineNeedsHandshake)
<1>1. RowInv => VerifiedOnlyIfTrusted /\ OnlineNeedsHandshake
  BY DEF RowInv
<1> QED
  BY <1>1, RowInvariant, PTL

\* A verification is lost only by writing back a stale copy of the row.
THEOREM RowLossIsStale == Spec => VerificationLostByStaleWrite
<1> DEFINE StaleLoss ==
        row # NoRow /\ row.verified /\ ~row'.verified =>
            \E a \in Actors :
                /\ At(a, "save") /\ pc'[a] = "done"
                /\ loaded[a] = NoRow \/ ~loaded[a].verified
<1>1. ASSUME RowInv, NEW c \in Calls, ConnectStep(c)
      PROVE  StaleLoss
  <2>1. CASE Save(c)
    BY <1>1, <2>1 DEF Save, Entity, Verify, SetStatus, RowInv, TypeOK, Rows, Actors, At, Goto
  <2>2. CASE row' = row
    BY <2>2
  <2> QED
    BY <1>1, <2>1, <2>2
       DEF ConnectStep, DialOk, DialError, CheckTrust, Load, StoreError, rowVars
<1>2. ASSUME RowInv, NEW d \in Discoveries, DiscoverStep(d)
      PROVE  StaleLoss
  <2>1. CASE DiscoverSave(d)
    BY <1>2, <2>1
       DEF DiscoverSave, Entity, SetStatus, RowInv, TypeOK, Rows, Actors, At, Goto
  <2>2. CASE row' = row
    BY <2>2
  <2> QED
    BY <1>2, <2>1, <2>2 DEF DiscoverStep, DiscoverLoad, DiscoverError, rowVars
<1>3. RowInv /\ [Next]_vars => [StaleLoss]_vars
  BY <1>1, <1>2 DEF Next, AddTrusted, RemoveTrusted, rowVars
<1> QED
  BY <1>3, RowInvariant, PTL DEF Spec, VerificationLostByStaleWrite

-----------------------------------------------------------------------------
(* The limiter.                                                            *)

Live == admitted \ forgotten

\* The part of the types that the argument needs, and what the histories say:
\* an attempt has a reading of the past, and none is decided before its check.
LimiterShape ==
    /\ clock \in Nat
    /\ step \in [Attempts -> {"start", "check", "dial", "refused", "done"}]
    /\ now \in [Attempts -> Nat]
    /\ \A c \in Attempts : now[c] <= clock
    /\ admitted \subseteq Attempts /\ IsFiniteSet(admitted)
    /\ forgotten \subseteq admitted
    /\ \A c \in Attempts : step[c] \in {"start", "check"} => c \notin admitted
    /\ \A c \in Attempts : step[c] = "start" => c \notin late

\* The limiter holds instants of attempts that got through and were not reset,
\* and every one of them that can still matter: a check with a stale reading
\* expires too few of them, never too many.
LimiterHolds ==
    /\ entries \subseteq Live
    /\ \A d \in Live : now[d] + WINDOW > clock => d \in entries

LimiterInv == LimiterShape /\ LimiterHolds /\ RateWindow /\ RefusedOnlyWhenFull

\* A check keeps the instants that can still matter.
LEMMA RetainedHolds ==
    ASSUME LimiterInv, NEW c \in Attempts
    PROVE  /\ Retained(c) \subseteq Live
           /\ IsFiniteSet(Retained(c)) /\ Cardinality(Retained(c)) \in Nat
           /\ \A d \in Live : now[d] + WINDOW > clock => d \in Retained(c)
           /\ now[c] = clock => Retained(c) = InWindow(Live, c)
<1> USE RateAssumption DEF LimiterInv, LimiterShape, LimiterHolds
<1>1. Retained(c) \subseteq Live
  BY DEF Retained
<1>2. IsFiniteSet(Retained(c)) /\ Cardinality(Retained(c)) \in Nat
  BY <1>1, FS_Subset, FS_CardinalityType DEF Live
<1>3. \A d \in Live : now[d] + WINDOW > clock => d \in Retained(c)
  BY DEF Retained, Live
<1>4. ASSUME now[c] = clock PROVE Retained(c) = InWindow(Live, c)
  BY <1>1, <1>3, <1>4 DEF Retained, InWindow, Live
<1> QED
  BY <1>1, <1>2, <1>3, <1>4

\* A larger finite set of attempts fills a window no less.
LEMMA WindowGrows ==
    ASSUME NEW S, NEW T, S \subseteq T, IsFiniteSet(T), NEW c
    PROVE  /\ IsFiniteSet(InWindow(S, c)) /\ IsFiniteSet(InWindow(T, c))
           /\ Cardinality(InWindow(S, c)) \in Nat /\ Cardinality(InWindow(T, c)) \in Nat
           /\ Cardinality(InWindow(S, c)) <= Cardinality(InWindow(T, c))
<1>1. InWindow(S, c) \subseteq InWindow(T, c) /\ InWindow(T, c) \subseteq T
  BY DEF InWindow
<1> QED
  BY <1>1, FS_Subset, FS_CardinalityType

\* An admission keeps what the limiter promises: a prompt one is the latest of
\* its window and counts those the limiter holds, and a late one is excused.
LEMMA AdmitKeeps ==
    ASSUME LimiterInv, NEW a \in Attempts, Admit(a)
    PROVE  LimiterInv'
<1> USE RateAssumption DEF Admit, AtStep, StepTo, NoteLate
<1>1. a \notin admitted /\ a \notin forgotten /\ Live' = Live \cup {a}
  BY DEF LimiterInv, LimiterShape, Live
<1>2. IsFiniteSet(admitted') /\ IsFiniteSet(Live)
  BY FS_AddElement, FS_Subset DEF LimiterInv, LimiterShape, Live
<1>3. LimiterShape'
  BY <1>2 DEF LimiterInv, LimiterShape
<1>4. LimiterHolds'
  BY <1>1, RetainedHolds DEF LimiterHolds
<1>5. RefusedOnlyWhenFull'
  <2> SUFFICES ASSUME NEW c \in Attempts, step'[c] = "refused", c \notin late'
               PROVE  Cardinality(InWindow(admitted', c)) >= MAX_ATTEMPTS
    BY DEF RefusedOnlyWhenFull, InWindow
  <2>1. step[c] = "refused" /\ c \notin late
    BY DEF LimiterInv, LimiterShape
  <2>2. Cardinality(InWindow(admitted, c)) >= MAX_ATTEMPTS
    BY <2>1 DEF LimiterInv, RefusedOnlyWhenFull
  <2>3. /\ Cardinality(InWindow(admitted, c)) \in Nat /\ Cardinality(InWindow(admitted', c)) \in Nat
        /\ Cardinality(InWindow(admitted, c)) <= Cardinality(InWindow(admitted', c))
    BY <1>2, WindowGrows
  <2> QED
    BY <2>2, <2>3
<1>6. RateWindow'
  <2> SUFFICES ASSUME Live' \cap late' = {}, NEW c \in Live'
               PROVE  Cardinality(InWindow(Live', c)) <= MAX_ATTEMPTS
    BY DEF RateWindow, InWindow, Live
  <2>1. now[a] = clock /\ Live \cap late = {}
    BY <1>1 DEF LimiterInv, LimiterShape
  <2>2. /\ IsFiniteSet(InWindow(Live, a)) /\ Cardinality(InWindow(Live, a)) \in Nat
        /\ Cardinality(InWindow(Live, a)) < MAX_ATTEMPTS
    BY <2>1, RetainedHolds DEF HasRoom
  <2>3. InWindow(Live', a) = InWindow(Live, a) \cup {a}
    BY <1>1, <2>1 DEF InWindow, LimiterInv, LimiterShape
  <2>4. Cardinality(InWindow(Live', a)) <= MAX_ATTEMPTS
    <3> HIDE DEF Admit
    <3>1. Cardinality(InWindow(Live, a) \cup {a})
          = IF a \in InWindow(Live, a) THEN Cardinality(InWindow(Live, a))
            ELSE Cardinality(InWindow(Live, a)) + 1
      BY <2>2, FS_AddElement
    <3> QED
      BY <2>2, <2>3, <3>1
  <2>5. c \in Attempts /\ now[c] <= clock /\ now[c] \in Nat /\ clock \in Nat
    BY <1>1 DEF LimiterInv, LimiterShape, Live
  <2>6. CASE now[c] = clock
    BY <2>1, <2>4, <2>6 DEF InWindow
  <2>7. CASE now[c] < clock
    <3>1. c \in Live /\ InWindow(Live', c) = InWindow(Live, c)
      BY <1>1, <2>1, <2>5, <2>7 DEF InWindow
    <3> QED
      BY <2>1, <3>1 DEF LimiterInv, RateWindow, Live
  <2> QED
    BY <2>5, <2>6, <2>7
<1> QED
  BY <1>3, <1>4, <1>5, <1>6 DEF LimiterInv

\* A prompt refusal finds the window full of attempts that got through.
LEMMA RefuseKeeps ==
    ASSUME LimiterInv, NEW a \in Attempts, Refuse(a)
    PROVE  LimiterInv'
<1> USE RateAssumption DEF Refuse, AtStep, StepTo, NoteLate
<1>1. Live' = Live /\ a \notin Live /\ IsFiniteSet(admitted)
  BY DEF LimiterInv, LimiterShape, Live
<1>2. LimiterShape'
  BY DEF LimiterInv, LimiterShape
<1>3. LimiterHolds'
  BY <1>1, RetainedHolds DEF LimiterHolds
<1>4. RateWindow'
  BY <1>1 DEF LimiterInv, RateWindow, InWindow, Live
<1>5. RefusedOnlyWhenFull'
  <2> SUFFICES ASSUME NEW c \in Attempts, step'[c] = "refused", c \notin late'
               PROVE  Cardinality(InWindow(admitted, c)) >= MAX_ATTEMPTS
    BY DEF RefusedOnlyWhenFull, InWindow
  <2>1. CASE c = a
    <3>1. now[a] = clock
      BY <2>1 DEF LimiterInv, LimiterShape
    <3>2. /\ Cardinality(InWindow(Live, a)) \in Nat
          /\ ~(Cardinality(InWindow(Live, a)) < MAX_ATTEMPTS)
      BY <3>1, RetainedHolds DEF HasRoom
    <3>3. /\ Cardinality(InWindow(admitted, a)) \in Nat
          /\ Cardinality(InWindow(Live, a)) <= Cardinality(InWindow(admitted, a))
      BY <1>1, WindowGrows DEF Live
    <3> QED
      BY <2>1, <3>2, <3>3
  <2>2. CASE c # a
    BY <2>2 DEF LimiterInv, LimiterShape, RefusedOnlyWhenFull
  <2> QED
    BY <2>1, <2>2
<1> QED
  BY <1>2, <1>3, <1>4, <1>5 DEF LimiterInv

\* A reading is taken by an attempt that nothing has counted yet.
LEMMA ReadClockKeeps ==
    ASSUME LimiterInv, NEW a \in Attempts, ReadClock(a)
    PROVE  LimiterInv'
<1> USE RateAssumption DEF ReadClock, AtStep, StepTo
<1>1. a \notin admitted /\ Live' = Live /\ a \notin Live
  BY DEF LimiterInv, LimiterShape, Live
<1>2. \A d \in Attempts : d # a => now'[d] = now[d]
  BY DEF LimiterInv, LimiterShape
<1>3. LimiterShape'
  BY DEF LimiterInv, LimiterShape
<1>4. LimiterHolds'
  BY <1>1, <1>2 DEF LimiterInv, LimiterShape, LimiterHolds, Live
<1>5. \A c \in Attempts : c # a => /\ InWindow(Live, c)' = InWindow(Live, c)
                                  /\ InWindow(admitted, c)' = InWindow(admitted, c)
  BY <1>1, <1>2 DEF InWindow, LimiterInv, LimiterShape, Live
<1>6. RateWindow'
  <2> SUFFICES ASSUME Live \cap late = {}, NEW c \in Live
               PROVE  Cardinality(InWindow(Live, c)') <= MAX_ATTEMPTS
    BY <1>1 DEF RateWindow, InWindow, Live
  <2>1. c \in Attempts /\ c # a
    BY <1>1 DEF Live, LimiterInv, LimiterShape
  <2>2. Cardinality(InWindow(Live, c)) <= MAX_ATTEMPTS
    BY DEF LimiterInv, RateWindow, Live
  <2> QED
    BY <1>5, <2>1, <2>2
<1>7. RefusedOnlyWhenFull'
  <2> SUFFICES ASSUME NEW c \in Attempts, step'[c] = "refused", c \notin late
               PROVE  Cardinality(InWindow(admitted, c)') >= MAX_ATTEMPTS
    BY DEF RefusedOnlyWhenFull, AtStep
  <2>1. c # a /\ step[c] = "refused"
    BY DEF LimiterInv, LimiterShape
  <2>2. Cardinality(InWindow(admitted, c)) >= MAX_ATTEMPTS
    BY <2>1 DEF LimiterInv, RefusedOnlyWhenFull
  <2> QED
    BY <1>5, <2>1, <2>2
<1> QED
  BY <1>3, <1>4, <1>6, <1>7 DEF LimiterInv

\* The end of a dial counts nothing; a timeout forgets all there is.
LEMMA DialEndKeeps ==
    ASSUME LimiterInv, NEW a \in Attempts, Dialled(a) \/ TimedOut(a)
    PROVE  LimiterInv'
<1> USE DEF Dialled, TimedOut, AtStep, StepTo
<1>1. LimiterShape'
  BY DEF LimiterInv, LimiterShape
<1>2. LimiterHolds'
  BY DEF LimiterInv, LimiterHolds, Live
<1>3. RateWindow'
  BY DEF LimiterInv, RateWindow, InWindow
<1>4. RefusedOnlyWhenFull'
  <2> SUFFICES ASSUME NEW c \in Attempts, step'[c] = "refused", c \notin late
               PROVE  Cardinality(InWindow(admitted, c)) >= MAX_ATTEMPTS
    BY DEF RefusedOnlyWhenFull, InWindow
  <2>1. step[c] = "refused"
    BY DEF LimiterInv, LimiterShape
  <2> QED
    BY <2>1 DEF LimiterInv, RefusedOnlyWhenFull
<1> QED
  BY <1>1, <1>2, <1>3, <1>4 DEF LimiterInv

\* Time passes.
LEMMA TickKeeps ==
    ASSUME LimiterInv, Tick
    PROVE  LimiterInv'
<1> USE RateAssumption DEF Tick
<1>1. LimiterShape'
  BY DEF LimiterInv, LimiterShape
<1>2. LimiterHolds'
  BY DEF LimiterInv, LimiterShape, LimiterHolds, Live
<1>3. RateWindow' /\ RefusedOnlyWhenFull'
  BY DEF LimiterInv, RateWindow, RefusedOnlyWhenFull, InWindow, AtStep
<1> QED
  BY <1>1, <1>2, <1>3 DEF LimiterInv

\* The invariant of the limiter holds in every reachable state.
THEOREM LimiterInvariant == RLSpec => []LimiterInv
<1>1. RLInit => LimiterInv
  <2> SUFFICES ASSUME RLInit PROVE LimiterInv
    OBVIOUS
  <2> USE DEF RLInit
  <2>1. LimiterShape
    BY FS_EmptySet DEF LimiterShape
  <2>2. LimiterHolds /\ RateWindow /\ RefusedOnlyWhenFull
    BY DEF LimiterHolds, Live, RateWindow, RefusedOnlyWhenFull, AtStep
  <2> QED
    BY <2>1, <2>2 DEF LimiterInv
<1>2. LimiterInv /\ [RLNext]_rlVars => LimiterInv'
  <2> SUFFICES ASSUME LimiterInv, [RLNext]_rlVars PROVE LimiterInv'
    OBVIOUS
  <2>1. CASE UNCHANGED rlVars
    BY <2>1 DEF rlVars, LimiterInv, LimiterShape, LimiterHolds, Live, RateWindow,
                RefusedOnlyWhenFull, InWindow, AtStep
  <2>2. CASE RLNext
    BY <2>2, ReadClockKeeps, AdmitKeeps, RefuseKeeps, DialEndKeeps, TickKeeps DEF RLNext
  <2> QED
    BY <2>1, <2>2
<1> QED
  BY <1>1, <1>2, PTL DEF RLSpec

\* The sliding window: at most MAX_ATTEMPTS attempts get through in any window,
\* as long as no reset intervenes and none of them held a stale reading.
THEOREM WindowIsKept == RLSpec => []RateWindow
<1>1. LimiterInv => RateWindow
  BY DEF LimiterInv
<1> QED
  BY <1>1, LimiterInvariant, PTL

\* An attempt with a prompt reading is refused only when its window is full of
\* attempts that got through.
THEOREM RefusalIsEarned == RLSpec => []RefusedOnlyWhenFull
<1>1. LimiterInv => RefusedOnlyWhenFull
  BY DEF LimiterInv
<1> QED
  BY <1>1, LimiterInvariant, PTL
=============================================================================
