---------------------------- MODULE SendMessage -----------------------------
(***************************************************************************)
(* SendMessageUseCase::execute and the message state machine of the domain *)
(* crate.  A call validates the request, encrypts, saves the message,      *)
(* sends it with retries and saves the final state.  Its future may be     *)
(* dropped at any await, and the process may stop: what is left then is    *)
(* the stored state.                                                       *)
(*                                                                         *)
(* The ports are external.  save_message inserts or updates, and on an     *)
(* error changes nothing.  send_to_peer answers Ok when the network has    *)
(* taken the message, which only puts it into a channel: it arrives later  *)
(* or is lost.  When it fails, the network may have taken it nevertheless, *)
(* which the caller cannot tell.                                           *)
(***************************************************************************)
EXTENDS Naturals

CONSTANTS
    Calls,          \* the calls of execute
    MAX_RETRIES,
    None

ASSUME SendAssumption == MAX_RETRIES \in Nat

\* Failed is split by its flag; the timestamps are left out.
MessageState == {"Pending", "Sending", "Sent", "Delivered", "Read",
                 "FailedRetryable", "Failed"}

ASSUME NoneAssumption == None \notin MessageState

VARIABLES
    pc,             \* where the call is
    state,          \* the state of the Message in memory
    stored,         \* the state save_message last stored, or None
    attempt,        \* the loop variable of send_with_retry
    sendResult,     \* what send_with_retry returned: "none", "Ok" or "Err"
    result,         \* what execute returned, "none" before that
    tried,          \* history: calls of send_to_peer
    underway,       \* copies the network has taken and not yet delivered or lost
    arrived         \* history: copies the recipient got

netVars == <<tried, underway, arrived>>
vars == <<pc, state, stored, attempt, sendResult, result, tried, underway, arrived>>

Errors == {"Validation", "RateLimited", "Security", "Domain", "Persistence"}

Init ==
    /\ pc = [c \in Calls |-> "start"]
    /\ state = [c \in Calls |-> None]
    /\ stored = [c \in Calls |-> None]
    /\ attempt = [c \in Calls |-> 0]
    /\ sendResult = [c \in Calls |-> "none"]
    /\ result = [c \in Calls |-> "none"]
    /\ tried = [c \in Calls |-> 0]
    /\ underway = [c \in Calls |-> 0]
    /\ arrived = [c \in Calls |-> 0]

-----------------------------------------------------------------------------
(* MessageState::transition_to.                                            *)

TransitionAllowed(from, to) ==
    \/ <<from, to>> \in {<<"Pending", "Sending">>, <<"Sending", "Sent">>,
                         <<"Sent", "Delivered">>, <<"Delivered", "Read">>}
    \/ /\ from \in {"Pending", "Sending", "Sent", "Delivered"}
       /\ to \in {"FailedRetryable", "Failed"}
    \/ from = "FailedRetryable" /\ to = "Pending"

\* Message::transition_state on the message of call c.  The Domain error of a
\* refused transition has no action: TransitionsAccepted is that it never
\* happens here.
Transition(c, to) ==
    /\ TransitionAllowed(state[c], to)
    /\ state' = [state EXCEPT ![c] = to]

-----------------------------------------------------------------------------
(* execute.                                                                *)

At(c, here) == pc[c] = here
Goto(c, there) == pc' = [pc EXCEPT ![c] = there]

Return(c, r) ==
    /\ Goto(c, "done")
    /\ result' = [result EXCEPT ![c] = r]

\* An invalid request, or the rate limiter refuses.
Reject(c) ==
    /\ At(c, "start")
    /\ \E e \in {"Validation", "RateLimited"} : Return(c, e)
    /\ UNCHANGED <<state, stored, attempt, sendResult, netVars>>

Admit(c) ==
    /\ At(c, "start")
    /\ Goto(c, "encrypt")
    /\ UNCHANGED <<state, stored, attempt, sendResult, result, netVars>>

\* encrypt_for_peer fails, or the ciphertext is longer than a message may be.
EncryptError(c) ==
    /\ At(c, "encrypt")
    /\ \E e \in {"Security", "Domain"} : Return(c, e)
    /\ UNCHANGED <<state, stored, attempt, sendResult, netVars>>

\* The content is encrypted and the Message built.
Encrypt(c) ==
    /\ At(c, "encrypt")
    /\ Goto(c, "save")
    /\ state' = [state EXCEPT ![c] = "Pending"]
    /\ UNCHANGED <<stored, attempt, sendResult, result, netVars>>

\* save_message returns, and send_with_retry marks the message as Sending.
Save(c) ==
    /\ At(c, "save")
    /\ stored' = [stored EXCEPT ![c] = state[c]]
    /\ Transition(c, "Sending")
    /\ Goto(c, "connect")
    /\ UNCHANGED <<attempt, sendResult, result, netVars>>

\* Mutant: a failed save is logged and the message sent nevertheless.
SaveErrorIgnored(c) ==
    /\ At(c, "save")
    /\ Transition(c, "Sending")
    /\ Goto(c, "connect")
    /\ UNCHANGED <<stored, attempt, sendResult, result, netVars>>

SaveError(c) ==
    /\ At(c, "save")
    /\ Return(c, "Persistence")
    /\ UNCHANGED <<state, stored, attempt, sendResult, netVars>>

\* send_with_retry returns r to execute, which goes on to the final save.
SendReturns(c, r) ==
    /\ sendResult' = [sendResult EXCEPT ![c] = r]
    /\ Goto(c, "saveFinal")

Connect(c) ==
    /\ At(c, "connect")
    /\ Goto(c, "send")
    /\ UNCHANGED <<state, stored, attempt, sendResult, result, netVars>>

\* Mutant: a failed connect starts the whole send again, without counting.
ConnectErrorRestarts(c) ==
    /\ At(c, "connect")
    /\ Goto(c, "encrypt")
    /\ UNCHANGED <<state, stored, attempt, sendResult, result, netVars>>

\* resolve_address or connect fails: the question mark leaves send_with_retry
\* with the message still in Sending.
ConnectError(c) ==
    /\ At(c, "connect")
    /\ SendReturns(c, "Err")
    /\ UNCHANGED <<state, stored, attempt, result, netVars>>

Try(c) == tried' = [tried EXCEPT ![c] = @ + 1]
Take(c) == underway' = [underway EXCEPT ![c] = @ + 1]

\* send_to_peer returns Ok.
SendOk(c) ==
    /\ At(c, "send")
    /\ Try(c) /\ Take(c)
    /\ Transition(c, "Sent")
    /\ SendReturns(c, "Ok")
    /\ UNCHANGED <<stored, attempt, result, arrived>>

\* send_to_peer fails, and the network has taken the message or not.
SendFails(c) ==
    /\ At(c, "send")
    /\ Try(c)
    /\ Take(c) \/ UNCHANGED underway
    /\ UNCHANGED arrived

SendRetry(c) ==
    /\ SendFails(c)
    /\ attempt[c] < MAX_RETRIES
    /\ Goto(c, "backoff")
    /\ UNCHANGED <<state, stored, attempt, sendResult, result>>

\* Mutant: a disconnected peer ends the retries at once.
SendGiveUpEarly(c) ==
    /\ SendFails(c)
    /\ Transition(c, "FailedRetryable")
    /\ SendReturns(c, "Err")
    /\ UNCHANGED <<stored, attempt, result>>

SendGiveUp(c) ==
    /\ SendFails(c)
    /\ attempt[c] = MAX_RETRIES
    /\ Transition(c, "FailedRetryable")
    /\ SendReturns(c, "Err")
    /\ UNCHANGED <<stored, attempt, result>>

\* The sleep ends and the loop goes on with the next attempt.
Backoff(c) ==
    /\ At(c, "backoff")
    /\ attempt' = [attempt EXCEPT ![c] = @ + 1]
    /\ Goto(c, "send")
    /\ UNCHANGED <<state, stored, sendResult, result, netVars>>

\* Mutant: a message that could not be delivered is removed from the store.
SaveFinalRemoves(c) ==
    /\ At(c, "saveFinal")
    /\ stored' = [stored EXCEPT ![c] =
                    IF sendResult[c] = "Ok" THEN state[c] ELSE None]
    /\ Return(c, "Ok")
    /\ UNCHANGED <<state, attempt, sendResult, netVars>>

\* The final state is saved; execute returns Ok whatever the send returned.
SaveFinal(c) ==
    /\ At(c, "saveFinal")
    /\ stored' = [stored EXCEPT ![c] = state[c]]
    /\ Return(c, "Ok")
    /\ UNCHANGED <<state, attempt, sendResult, netVars>>

\* Mutant: a failed final save is logged and the response returned.
SaveFinalErrorIgnored(c) ==
    /\ At(c, "saveFinal")
    /\ Return(c, "Ok")
    /\ UNCHANGED <<state, stored, attempt, sendResult, netVars>>

SaveFinalError(c) ==
    /\ At(c, "saveFinal")
    /\ Return(c, "Persistence")
    /\ UNCHANGED <<state, stored, attempt, sendResult, netVars>>

Running == {c \in Calls : pc[c] \notin {"start", "done"}}

\* The futures of the calls in dropped go away.  Of these, the calls in
\* through were waiting for a save or a send that takes effect all the same.
Drop(dropped, through) ==
    /\ pc' = [c \in Calls |-> IF c \in dropped THEN "done" ELSE pc[c]]
    /\ result' = [c \in Calls |-> IF c \in dropped THEN "cancelled" ELSE result[c]]
    /\ stored' = [c \in Calls |->
                    IF c \in through /\ pc[c] \in {"save", "saveFinal"}
                    THEN state[c] ELSE stored[c]]
    /\ tried' = [c \in Calls |->
                    IF c \in through /\ At(c, "send") THEN tried[c] + 1 ELSE tried[c]]
    /\ underway' = [c \in Calls |->
                    IF c \in through /\ At(c, "send") THEN underway[c] + 1 ELSE underway[c]]
    /\ UNCHANGED <<state, attempt, sendResult, arrived>>

\* One call is cancelled at an await.
Cancel(c) ==
    /\ c \in Running
    /\ \E through \in SUBSET {c} : Drop({c}, through)

\* The process stops: every call in progress is gone.
Crash ==
    /\ Running # {}
    /\ \E through \in SUBSET Running : Drop(Running, through)

-----------------------------------------------------------------------------
(* What the network does with a copy it has taken, at any later time.      *)

Leave(c) ==
    /\ underway[c] > 0
    /\ underway' = [underway EXCEPT ![c] = @ - 1]
    /\ UNCHANGED <<pc, state, stored, attempt, sendResult, result, tried>>

Arrive(c) ==
    /\ Leave(c)
    /\ arrived' = [arrived EXCEPT ![c] = @ + 1]

\* The connection's task is cancelled or its write fails.
Lose(c) == Leave(c) /\ UNCHANGED arrived

-----------------------------------------------------------------------------
CallStep(c) ==
    \/ Reject(c) \/ Admit(c)
    \/ EncryptError(c) \/ Encrypt(c)
    \/ Save(c) \/ SaveError(c)
    \/ Connect(c) \/ ConnectError(c)
    \/ SendOk(c) \/ SendRetry(c) \/ SendGiveUp(c) \/ Backoff(c)
    \/ SaveFinal(c) \/ SaveFinalError(c)

Next ==
    \/ \E c \in Calls : CallStep(c) \/ Cancel(c) \/ Arrive(c) \/ Lose(c)
    \/ Crash

\* Ports return and sleeps end, and tokio then polls the call.
Fairness == \A c \in Calls : WF_vars(CallStep(c))

Spec == Init /\ [][Next]_vars /\ Fairness

-----------------------------------------------------------------------------
(* Properties.                                                             *)

TypeOK ==
    /\ pc \in [Calls -> {"start", "encrypt", "save", "connect", "send", "backoff",
                         "saveFinal", "done"}]
    /\ state \in [Calls -> MessageState \cup {None}]
    /\ stored \in [Calls -> MessageState \cup {None}]
    /\ attempt \in [Calls -> 0 .. MAX_RETRIES]
    /\ sendResult \in [Calls -> {"none", "Ok", "Err"}]
    /\ result \in [Calls -> Errors \cup {"none", "Ok", "cancelled"}]
    /\ tried \in [Calls -> Nat]
    /\ underway \in [Calls -> Nat]
    /\ arrived \in [Calls -> Nat]

\* "Persists before sending (write-through) to prevent loss": a message that is
\* on its way to its recipient or has reached it is in the store, whatever
\* failed and whenever the call was dropped.
WriteThrough == \A c \in Calls : underway[c] + arrived[c] > 0 => stored[c] # None

\* What execute reports is what the store holds: an Ok response carries the
\* stored state, a call that returned an error has left at most the first
\* save behind, and a dropped call that or the final state.
ResponseMatchesStore ==
    \A c \in Calls :
        /\ result[c] = "Ok" => stored[c] = state[c]
        /\ result[c] \in Errors => stored[c] \in {None, "Pending"}
        /\ result[c] = "cancelled" => stored[c] \in {None, "Pending", state[c]}

\* A message stored as Failed was given to the network once and MAX_RETRIES
\* times again; one stored as Sending, which is what a failed connect leaves
\* behind, was never given to it, so that no copy of it can be on its way.
\* (Sent promises no more than that the network took the message.)
StoredOutcomeEarned ==
    \A c \in Calls :
        /\ stored[c] = "Sending" => tried[c] = 0
        /\ stored[c] = "FailedRetryable" => tried[c] = MAX_RETRIES + 1

\* The retries are bounded, and so are the copies a recipient can get of one
\* message.
RetriesBounded ==
    \A c \in Calls : tried[c] <= MAX_RETRIES + 1 /\ underway[c] + arrived[c] <= tried[c]

\* send_with_retry never asks for a transition that transition_to refuses.
TransitionsAccepted ==
    \A c \in Calls :
        /\ At(c, "save") => TransitionAllowed(state[c], "Sending")
        /\ At(c, "send") =>
            TransitionAllowed(state[c], "Sent") /\ TransitionAllowed(state[c], "FailedRetryable")

\* "No backward transitions": the store holds a message's states in the
\* order of its life, and once it holds an outcome it keeps it.
StoredNeverRollsBack ==
    [][\A c \in Calls : stored'[c] # stored[c] =>
        \/ stored[c] = None /\ stored'[c] = "Pending"
        \/ stored[c] = "Pending" /\ stored'[c] \in {"Sending", "Sent", "FailedRetryable"}]_vars

\* Every call ends.
CallEnds == \A c \in Calls : ~At(c, "start") ~> At(c, "done")

=============================================================================
