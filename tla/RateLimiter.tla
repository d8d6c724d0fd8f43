---------------------------- MODULE RateLimiter -----------------------------
(***************************************************************************)
(* The sliding-window rate limiter of the application layer, for one key,  *)
(* under the calls of ConnectPeerUseCase::execute for one peer.            *)
(*                                                                         *)
(* The limiter keeps a list of instants per key.  Each instant was pushed  *)
(* by one call, and the list is modelled as the set of these calls.  check *)
(* reads the clock before it takes the lock, so it is two steps, and the   *)
(* checks of two threads may overlap.                                      *)
(***************************************************************************)
EXTENDS Naturals, FiniteSets

CONSTANTS
    Attempts,       \* calls of ConnectPeerUseCase::execute
    WINDOW,
    MAX_ATTEMPTS,   \* CONNECT_RATE_LIMIT
    MaxTime         \* bound on the clock

ASSUME RateAssumption ==
    /\ WINDOW \in Nat \ {0}
    /\ MAX_ATTEMPTS \in Nat \ {0}
    /\ MaxTime \in Nat

VARIABLES
    clock,
    step,           \* where each call is
    now,            \* the clock reading of a call's check
    entries,        \* the calls whose instants the limiter holds
    late,           \* history: calls decided after the clock had left their reading
    admitted,       \* history: calls the limiter let through
    forgotten       \* history: admitted calls whose instants a reset removed

rlVars == <<clock, step, now, entries, late, admitted, forgotten>>

RLInit ==
    /\ clock = 0
    /\ step = [c \in Attempts |-> "start"]
    /\ now = [c \in Attempts |-> 0]
    /\ entries = {}
    /\ late = {} /\ admitted = {} /\ forgotten = {}

AtStep(c, here) == step[c] = here
StepTo(c, there) == step' = [step EXCEPT ![c] = there]

-----------------------------------------------------------------------------
(* RateLimiter::check.                                                     *)

\* Instant::now, before the lock.
ReadClock(c) ==
    /\ AtStep(c, "start")
    /\ now' = [now EXCEPT ![c] = clock]
    /\ StepTo(c, "check")
    /\ UNCHANGED <<clock, entries, late, admitted, forgotten>>

\* Mutant: an instant at the edge of the window is kept.
RetainedTooLong(c) == {d \in entries : now[d] + WINDOW >= now[c]}

\* retain: the instants in the window that ends at c's reading.
Retained(c) == {d \in entries : now[d] + WINDOW > now[c]}

\* Mutant: the limit is off by one.
HasRoomForOneMore(c) == Cardinality(Retained(c)) <= MAX_ATTEMPTS

HasRoom(c) == Cardinality(Retained(c)) < MAX_ATTEMPTS

NoteLate(c) == late' = IF now[c] < clock THEN late \cup {c} ELSE late

\* check returns true.
Admit(c) ==
    /\ AtStep(c, "check") /\ HasRoom(c)
    /\ entries' = Retained(c) \cup {c}
    /\ NoteLate(c)
    /\ admitted' = admitted \cup {c}
    /\ StepTo(c, "dial")
    /\ UNCHANGED <<clock, now, forgotten>>

\* check returns false.
Refuse(c) ==
    /\ AtStep(c, "check") /\ ~HasRoom(c)
    /\ entries' = Retained(c)
    /\ NoteLate(c)
    /\ StepTo(c, "refused")
    /\ UNCHANGED <<clock, now, admitted, forgotten>>

-----------------------------------------------------------------------------
(* The connection attempt that follows.                                    *)

\* network.connect returns in time, with a peer or an error.
Dialled(c) ==
    /\ AtStep(c, "dial")
    /\ StepTo(c, "done")
    /\ UNCHANGED <<clock, now, entries, late, admitted, forgotten>>

\* CONNECT_TIMEOUT passes: execute resets the limiter for this peer.
TimedOut(c) ==
    /\ AtStep(c, "dial")
    /\ entries' = {}
    /\ forgotten' = admitted
    /\ StepTo(c, "done")
    /\ UNCHANGED <<clock, now, late, admitted>>

Tick ==
    /\ clock < MaxTime
    /\ clock' = clock + 1
    /\ UNCHANGED <<step, now, entries, late, admitted, forgotten>>

RLNext ==
    \/ \E c \in Attempts :
        ReadClock(c) \/ Admit(c) \/ Refuse(c) \/ Dialled(c) \/ TimedOut(c)
    \/ Tick

RLSpec == RLInit /\ [][RLNext]_rlVars

-----------------------------------------------------------------------------
(* Properties.                                                             *)

\* The calls of S in the window of the limiter that ends at c's reading.
InWindow(S, c) == {d \in S : now[d] <= now[c] /\ now[c] < now[d] + WINDOW}

\* The sliding window: while no reset intervenes, at most MAX_ATTEMPTS calls
\* get through in any window, provided that no call's clock reading went
\* stale before it got the lock (such a call may slip in after a later one
\* has already expired the instants that would have refused it).
RateWindow ==
    LET live == admitted \ forgotten
    IN  live \cap late = {} =>
            \A c \in live : Cardinality(InWindow(live, c)) <= MAX_ATTEMPTS

\* A call is refused only when the window that ends with it is full: refused,
\* expired and reset calls do not count against it.
RefusedOnlyWhenFull ==
    \A c \in Attempts :
        AtStep(c, "refused") /\ c \notin late =>
            Cardinality(InWindow(admitted, c)) >= MAX_ATTEMPTS

=============================================================================
