------------------------- MODULE SendMessageProofs --------------------------
(***************************************************************************)
(* Proofs about SendMessage, for any set of calls and any MAX_RETRIES.     *)
(* The invariant says, place by place, what a call has done so far; the    *)
(* properties then need no further induction.                              *)
(***************************************************************************)
EXTENDS SendMessage, TLAPS

\* Nothing has been given to the network.
Unsent(c) == attempt[c] = 0 /\ tried[c] = 0 /\ underway[c] = 0 /\ arrived[c] = 0

\* The states a call can leave send_with_retry in.
Outcome(c) ==
    \/ state[c] = "Sending" /\ tried[c] = 0
    \/ state[c] = "Sent"
    \/ state[c] = "FailedRetryable" /\ tried[c] = MAX_RETRIES + 1

\* What call c has done when it is at pc[c].
Progress(c) ==
    /\ pc[c] \in {"start", "encrypt"} =>
        state[c] = None /\ stored[c] = None /\ Unsent(c)
    /\ At(c, "save") => state[c] = "Pending" /\ stored[c] = None /\ Unsent(c)
    /\ At(c, "connect") => state[c] = "Sending" /\ stored[c] = "Pending" /\ Unsent(c)
    /\ At(c, "send") =>
        state[c] = "Sending" /\ stored[c] = "Pending" /\ tried[c] = attempt[c]
    /\ At(c, "backoff") =>
        /\ state[c] = "Sending" /\ stored[c] = "Pending"
        /\ attempt[c] < MAX_RETRIES /\ tried[c] = attempt[c] + 1
    /\ At(c, "saveFinal") => stored[c] = "Pending" /\ Outcome(c)

\* What holds wherever the call is.
Bounds(c) ==
    /\ underway[c] + arrived[c] <= tried[c]
    /\ tried[c] <= MAX_RETRIES + 1
    /\ underway[c] + arrived[c] > 0 => stored[c] # None
    /\ stored[c] = "Sending" => tried[c] = 0
    /\ stored[c] = "FailedRetryable" => tried[c] = MAX_RETRIES + 1
    /\ result[c] # "none" <=> At(c, "done")

Response(c) ==
    /\ result[c] = "Ok" => stored[c] = state[c]
    /\ result[c] \in Errors => stored[c] \in {None, "Pending"}
    /\ result[c] = "cancelled" => stored[c] \in {None, "Pending", state[c]}

CallInv(c) == Progress(c) /\ Bounds(c) /\ Response(c)

SendInv == TypeOK /\ \A c \in Calls : CallInv(c)

-----------------------------------------------------------------------------
\* The initial state satisfies the invariant.
LEMMA SendInit == Init => SendInv
  BY SendAssumption, NoneAssumption
     DEF Init, SendInv, TypeOK, CallInv, Progress, Bounds, Response, Unsent, At, Errors,
         MessageState

\* A step of one call keeps the types.
LEMMA CallStepType ==
    ASSUME SendInv, NEW c \in Calls, CallStep(c)
    PROVE  TypeOK'
<1> USE SendAssumption
         DEF SendInv, TypeOK, At, Goto, Return, MessageState, Errors, netVars
<1>1. CASE Reject(c)         BY <1>1 DEF Reject
<1>2. CASE Admit(c)          BY <1>2 DEF Admit
<1>3. CASE EncryptError(c)   BY <1>3 DEF EncryptError
<1>4. CASE Encrypt(c)        BY <1>4 DEF Encrypt
<1>5. CASE Save(c)           BY <1>5 DEF Save, Transition
<1>6. CASE SaveError(c)      BY <1>6 DEF SaveError
<1>7. CASE Connect(c)        BY <1>7 DEF Connect
<1>8. CASE ConnectError(c)   BY <1>8 DEF ConnectError, SendReturns
<1>9. CASE SendOk(c)         BY <1>9 DEF SendOk, Transition, SendReturns, Try, Take
<1>10. CASE SendRetry(c)     BY <1>10 DEF SendRetry, SendFails, Try, Take
<1>11. CASE SendGiveUp(c)
  BY <1>11 DEF SendGiveUp, SendFails, Transition, SendReturns, Try, Take
<1>12. CASE Backoff(c)       BY <1>12 DEF Backoff, CallInv, Progress
<1>13. CASE SaveFinal(c)     BY <1>13 DEF SaveFinal
<1>14. CASE SaveFinalError(c) BY <1>14 DEF SaveFinalError
<1> QED
  BY <1>1, <1>2, <1>3, <1>4, <1>5, <1>6, <1>7, <1>8, <1>9, <1>10, <1>11, <1>12,
     <1>13, <1>14 DEF CallStep

\* A step of one call leaves the other calls alone.
LEMMA CallStepLocal ==
    ASSUME TypeOK, NEW c \in Calls, CallStep(c), NEW d \in Calls, d # c
    PROVE  /\ pc'[d] = pc[d] /\ state'[d] = state[d] /\ stored'[d] = stored[d]
           /\ attempt'[d] = attempt[d] /\ result'[d] = result[d]
           /\ tried'[d] = tried[d] /\ underway'[d] = underway[d] /\ arrived'[d] = arrived[d]
  BY DEF netVars, TypeOK, CallStep, Reject, Admit, EncryptError, Encrypt, Save, SaveError,
         Connect, ConnectError, SendOk, SendRetry, SendGiveUp, SendFails, Backoff,
         SaveFinal, SaveFinalError, Goto, Return, Transition, SendReturns, Try, Take

\* A step of one call keeps the invariant of that call.
LEMMA CallStepInv ==
    ASSUME SendInv, NEW c \in Calls, CallStep(c)
    PROVE  CallInv(c)'
<1>0. CallInv(c) /\ TypeOK
  BY DEF SendInv
<1> USE <1>0, SendAssumption, NoneAssumption
         DEF TypeOK, At, Goto, Return, MessageState, Errors, CallInv, Progress,
             Bounds, Response, Unsent, Outcome, netVars
<1>1. CASE Reject(c)         BY <1>1 DEF Reject
<1>2. CASE Admit(c)          BY <1>2 DEF Admit
<1>3. CASE EncryptError(c)   BY <1>3 DEF EncryptError
<1>4. CASE Encrypt(c)        BY <1>4 DEF Encrypt
<1>5. CASE Save(c)           BY <1>5 DEF Save, Transition
<1>6. CASE SaveError(c)      BY <1>6 DEF SaveError
<1>7. CASE Connect(c)        BY <1>7 DEF Connect
<1>8. CASE ConnectError(c)   BY <1>8 DEF ConnectError, SendReturns
<1>9. CASE SendOk(c)         BY <1>9 DEF SendOk, Transition, SendReturns, Try, Take
<1>10. CASE SendRetry(c)     BY <1>10 DEF SendRetry, SendFails, Try, Take
<1>11. CASE SendGiveUp(c)
  BY <1>11 DEF SendGiveUp, SendFails, Transition, SendReturns, Try, Take
<1>12. CASE Backoff(c)       BY <1>12 DEF Backoff
<1>13. CASE SaveFinal(c)     BY <1>13 DEF SaveFinal
<1>14. CASE SaveFinalError(c) BY <1>14 DEF SaveFinalError
<1> QED
  BY <1>1, <1>2, <1>3, <1>4, <1>5, <1>6, <1>7, <1>8, <1>9, <1>10, <1>11, <1>12,
     <1>13, <1>14 DEF CallStep

\* Dropping any set of running calls, whichever of their pending operations
\* took effect, keeps the invariant.
LEMMA DropInv ==
    ASSUME SendInv, NEW dropped \in SUBSET Running, NEW through \in SUBSET dropped,
           Drop(dropped, through)
    PROVE  SendInv'
<1> USE SendAssumption, NoneAssumption DEF At, MessageState, Errors
<1>1. TypeOK'
  BY DEF SendInv, TypeOK, Drop
<1>2. ASSUME NEW c \in Calls
      PROVE  CallInv(c)'
  <2>0. CallInv(c) /\ TypeOK
    BY DEF SendInv
  <2>1. CASE c \in dropped
    <3>1. pc[c] \notin {"start", "done"}
      BY <2>1 DEF Running
    <3>2. pc'[c] = "done" /\ result'[c] = "cancelled" /\ state'[c] = state[c]
      BY <2>1 DEF Drop
    <3>3. Progress(c)' /\ Response(c)'
      BY <2>0, <2>1, <3>1, <3>2
         DEF Drop, TypeOK, CallInv, Progress, Response
    <3>4. Bounds(c)'
      BY <2>0, <2>1, <3>1, <3>2
         DEF Drop, TypeOK, CallInv, Progress, Bounds, Unsent, Outcome
    <3> QED
      BY <3>3, <3>4 DEF CallInv
  <2>2. CASE c \notin dropped
    BY <2>0, <2>2
       DEF Drop, TypeOK, CallInv, Progress, Bounds, Response, Unsent, Outcome
  <2> QED
    BY <2>1, <2>2
<1> QED
  BY <1>1, <1>2 DEF SendInv

\* A copy that arrives or is lost keeps the invariant.
LEMMA NetworkInv ==
    ASSUME SendInv, NEW c \in Calls, Arrive(c) \/ Lose(c)
    PROVE  SendInv'
<1>1. /\ UNCHANGED <<pc, state, stored, attempt, sendResult, result, tried>>
      /\ underway[c] \in Nat /\ underway[c] > 0 /\ arrived[c] \in Nat
      /\ underway' = [underway EXCEPT ![c] = @ - 1]
      /\ arrived' = [arrived EXCEPT ![c] = @ + 1] \/ arrived' = arrived
  BY DEF Arrive, Lose, Leave, SendInv, TypeOK
<1>2. TypeOK'
  BY <1>1 DEF SendInv, TypeOK
<1>3. ASSUME NEW d \in Calls
      PROVE  CallInv(d)'
  <2>1. CallInv(d) /\ TypeOK
    BY DEF SendInv
  <2>2. underway'[d] + arrived'[d] <= underway[d] + arrived[d]
    BY <1>1, <2>1 DEF TypeOK
  <2>3. /\ underway[d] \in Nat /\ arrived[d] \in Nat /\ underway'[d] \in Nat /\ arrived'[d] \in Nat
        /\ tried[d] \in Nat
    BY <1>2, <2>1 DEF TypeOK
  <2>4. Unsent(d) => Unsent(d)'
    BY <1>1, <2>2, <2>3 DEF Unsent
  <2> QED
    BY <1>1, <2>1, <2>2, <2>3, <2>4 DEF CallInv, Progress, Bounds, Response, Outcome, At
<1> QED
  BY <1>2, <1>3 DEF SendInv

\* Every step keeps the invariant.
LEMMA SendNext ==
    ASSUME SendInv, [Next]_vars
    PROVE  SendInv'
<1>1. CASE UNCHANGED vars
  BY <1>1 DEF vars, SendInv, TypeOK, CallInv, Progress, Bounds, Response, Unsent,
              Outcome, At
<1>2. ASSUME NEW c \in Calls, CallStep(c)
      PROVE  SendInv'
  <2>1. TypeOK'
    BY <1>2, CallStepType
  <2>2. ASSUME NEW d \in Calls
        PROVE  CallInv(d)'
    <3>1. CASE d = c
      BY <1>2, <3>1, CallStepInv
    <3>2. CASE d # c
      <4>1. /\ pc'[d] = pc[d] /\ state'[d] = state[d] /\ stored'[d] = stored[d]
            /\ attempt'[d] = attempt[d] /\ result'[d] = result[d]
            /\ tried'[d] = tried[d] /\ underway'[d] = underway[d] /\ arrived'[d] = arrived[d]
        BY <1>2, <3>2, CallStepLocal DEF SendInv
      <4> QED
        BY <4>1 DEF SendInv, CallInv, Progress, Bounds, Response, Unsent, Outcome, At
    <3> QED
      BY <3>1, <3>2
  <2> QED
    BY <2>1, <2>2 DEF SendInv
<1>3. ASSUME NEW c \in Calls, Cancel(c)
      PROVE  SendInv'
  <2>1. PICK through \in SUBSET {c} : Drop({c}, through)
    BY <1>3 DEF Cancel
  <2>2. {c} \in SUBSET Running
    BY <1>3 DEF Cancel
  <2> QED
    BY <2>1, <2>2, DropInv
<1>4. CASE Crash
  <2>1. PICK through \in SUBSET Running : Drop(Running, through)
    BY <1>4 DEF Crash
  <2> QED
    BY <2>1, DropInv
<1> QED
  BY <1>1, <1>2, <1>3, <1>4, NetworkInv DEF Next

\* The invariant holds throughout.
THEOREM SendInvariant == Spec => []SendInv
<1>1. Init => SendInv
  BY SendInit
<1>2. SendInv /\ [Next]_vars => SendInv'
  BY SendNext
<1> QED
  BY <1>1, <1>2, PTL DEF Spec

-----------------------------------------------------------------------------
\* Types are kept, and the retry counter stays within MAX_RETRIES: the
\* unreachable!() behind the retry loop is never reached.
THEOREM SendTypeCorrect == Spec => []TypeOK
<1>1. SendInv => TypeOK
  BY DEF SendInv
<1> QED
  BY <1>1, SendInvariant, PTL

\* A message that is on its way or has arrived is in the store.
THEOREM SendWritesThrough == Spec => []WriteThrough
<1>1. SendInv => WriteThrough
  BY DEF SendInv, CallInv, Bounds, WriteThrough
<1> QED
  BY <1>1, SendInvariant, PTL

\* The response, the error or the cancellation of execute agrees with the store.
THEOREM SendResponseSound == Spec => []ResponseMatchesStore
<1>1. SendInv => ResponseMatchesStore
  BY DEF SendInv, CallInv, Response, ResponseMatchesStore
<1> QED
  BY <1>1, SendInvariant, PTL

\* Failed is stored only after all attempts, and Sending only if there was none.
THEOREM SendOutcomeEarned == Spec => []StoredOutcomeEarned
<1>1. SendInv => StoredOutcomeEarned
  BY DEF SendInv, CallInv, Bounds, StoredOutcomeEarned
<1> QED
  BY <1>1, SendInvariant, PTL

\* No message is given to the network more than MAX_RETRIES + 1 times, and no
\* more copies of it exist than that.
THEOREM SendRetriesBounded == Spec => []RetriesBounded
<1>1. SendInv => RetriesBounded
  BY DEF SendInv, CallInv, Bounds, RetriesBounded
<1> QED
  BY <1>1, SendInvariant, PTL

\* transition_to accepts every transition that the use case asks for.
THEOREM SendTransitionsAccepted == Spec => []TransitionsAccepted
<1>1. SendInv => TransitionsAccepted
  BY DEF SendInv, CallInv, Progress, TransitionsAccepted, TransitionAllowed, At
<1> QED
  BY <1>1, SendInvariant, PTL

\* The stored state never goes back, through errors, cancellations and crashes.
THEOREM SendStoreMonotone == Spec => StoredNeverRollsBack
<1> DEFINE Forward(c) ==
        stored'[c] # stored[c] =>
            \/ stored[c] = None /\ stored'[c] = "Pending"
            \/ stored[c] = "Pending" /\ stored'[c] \in {"Sending", "Sent", "FailedRetryable"}
<1>1. ASSUME SendInv, NEW c \in Calls, CallStep(c), NEW d \in Calls
      PROVE  Forward(d)
  <2>1. CASE d # c
    BY <1>1, <2>1, CallStepLocal DEF SendInv
  <2>2. CASE d = c
    BY <1>1, <2>2
       DEF SendInv, TypeOK, CallInv, Progress, Outcome, At, CallStep, Reject, Admit,
           EncryptError, Encrypt, Save, SaveError, Connect, ConnectError, SendOk,
           SendRetry, SendGiveUp, Backoff, SaveFinal, SaveFinalError
  <2> QED
    BY <2>1, <2>2
<1>2. ASSUME SendInv, NEW D, NEW through, Drop(D, through), NEW d \in Calls
      PROVE  Forward(d)
  BY <1>2 DEF SendInv, CallInv, Progress, Outcome, At, Drop
<1>3. SendInv /\ [Next]_vars => [\A c \in Calls : Forward(c)]_vars
  BY <1>1, <1>2 DEF Next, Cancel, Crash, Arrive, Lose, Leave
<1> QED
  BY <1>3, SendInvariant, PTL DEF Spec, StoredNeverRollsBack
=============================================================================
