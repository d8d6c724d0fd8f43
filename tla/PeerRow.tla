------------------------------ MODULE PeerRow -------------------------------
(***************************************************************************)
(* One peer's row in the store and everything the application layer does   *)
(* to it: ConnectPeerUseCase::execute, from the moment the rate limiter    *)
(* has let it through, and DiscoverPeerUseCase::execute.  Both load the    *)
(* row, change their copy and save it, with awaits between, so that their  *)
(* steps interleave.                                                       *)
(*                                                                         *)
(* The network, persistence and trust ports are external.  Addresses and   *)
(* timestamps of the row are left out.                                     *)
(***************************************************************************)
CONSTANTS
    Calls,              \* calls of ConnectPeerUseCase::execute
    Discoveries,        \* calls of DiscoverPeerUseCase::execute
    NoRow

ASSUME ActorsAssumption == Calls \cap Discoveries = {}

Rows == [verified : BOOLEAN, online : BOOLEAN]
Actors == Calls \cup Discoveries

ASSUME NoRowAssumption == NoRow \notin Rows

VARIABLES
    pc,             \* where each actor is
    trusted,        \* the trust store has the peer
    sawTrust,       \* what is_trusted answered to the call
    loaded,         \* the actor's copy of the row
    row,            \* the stored row
    shaken,         \* history: calls whose handshake succeeded
    revoked         \* history: trust was withdrawn at some time

trustVars == <<trusted, revoked>>
rowVars == <<sawTrust, loaded, row>>
vars == <<pc, trusted, sawTrust, loaded, row, shaken, revoked>>

Init ==
    /\ pc = [a \in Actors |-> IF a \in Calls THEN "dial" ELSE "discover"]
    /\ trusted \in BOOLEAN
    /\ sawTrust = [c \in Calls |-> FALSE]
    /\ loaded = [a \in Actors |-> NoRow]
    /\ row = NoRow
    /\ shaken = {}
    /\ revoked = FALSE

At(a, here) == pc[a] = here
Goto(a, there) == pc' = [pc EXCEPT ![a] = there]

-----------------------------------------------------------------------------
(* ConnectPeerUseCase::execute after the rate check.                       *)

DialOk(c) ==
    /\ At(c, "dial")
    /\ shaken' = shaken \cup {c}
    /\ Goto(c, "trust")
    /\ UNCHANGED <<rowVars, trustVars>>

\* connect fails or CONNECT_TIMEOUT passes.
DialError(c) ==
    /\ At(c, "dial")
    /\ Goto(c, "done")
    /\ UNCHANGED <<rowVars, trustVars, shaken>>

\* Mutant: an error of the trust port counts as trust.
CheckTrustFailOpen(c) ==
    /\ At(c, "trust")
    /\ \E answer \in {trusted, TRUE} : sawTrust' = [sawTrust EXCEPT ![c] = answer]
    /\ Goto(c, "load")
    /\ UNCHANGED <<loaded, row, trustVars, shaken>>

\* is_trusted answers, or fails and unwrap_or(false) answers.
CheckTrust(c) ==
    /\ At(c, "trust")
    /\ \E answer \in {trusted, FALSE} : sawTrust' = [sawTrust EXCEPT ![c] = answer]
    /\ Goto(c, "load")
    /\ UNCHANGED <<loaded, row, trustVars, shaken>>

\* load_peer returns the row.
Load(c) ==
    /\ At(c, "load")
    /\ loaded' = [loaded EXCEPT ![c] = row]
    /\ Goto(c, "save")
    /\ UNCHANGED <<sawTrust, row, trustVars, shaken>>

\* The entity an actor changes: its copy of the row, or a peer that was just
\* built, which is neither verified nor online.
Entity(a) == IF loaded[a] = NoRow THEN [verified |-> FALSE, online |-> FALSE] ELSE loaded[a]

\* Peer::verify and Peer::set_status.
Verify(peer) == [peer EXCEPT !.verified = TRUE]
SetStatus(peer, online) == [peer EXCEPT !.online = online]

\* save_peer: an existing row keeps its verification, and both it and a new one
\* may get it from the trust check.
Save(c) ==
    /\ At(c, "save")
    /\ row' = SetStatus(IF sawTrust[c] THEN Verify(Entity(c)) ELSE Entity(c), TRUE)
    /\ Goto(c, "done")
    /\ UNCHANGED <<sawTrust, loaded, trustVars, shaken>>

\* load_peer or save_peer fails.
StoreError(c) ==
    /\ pc[c] \in {"load", "save"}
    /\ Goto(c, "done")
    /\ UNCHANGED <<rowVars, trustVars, shaken>>

-----------------------------------------------------------------------------
(* DiscoverPeerUseCase::execute, for the one peer, and the rest.           *)

\* discover_peers has heard the peer; load_peer returns its row.
DiscoverLoad(d) ==
    /\ At(d, "discover")
    /\ loaded' = [loaded EXCEPT ![d] = row]
    /\ Goto(d, "save")
    /\ UNCHANGED <<sawTrust, row, trustVars, shaken>>

\* Mutant: the row is rebuilt from the advertisement.
DiscoverSaveRebuilt(d) ==
    /\ At(d, "save")
    /\ row' = [verified |-> FALSE, online |-> FALSE]
    /\ Goto(d, "done")
    /\ UNCHANGED <<sawTrust, loaded, trustVars, shaken>>

\* save_peer: the copy, or a new row, with the peer offline.
DiscoverSave(d) ==
    /\ At(d, "save")
    /\ row' = SetStatus(Entity(d), FALSE)
    /\ Goto(d, "done")
    /\ UNCHANGED <<sawTrust, loaded, trustVars, shaken>>

\* discover_peers, Peer::build or the store fails.
DiscoverError(d) ==
    /\ pc[d] \in {"discover", "save"}
    /\ Goto(d, "done")
    /\ UNCHANGED <<rowVars, trustVars, shaken>>

\* TrustPort::add_trusted and remove_trusted.
AddTrusted ==
    /\ ~trusted
    /\ trusted' = TRUE
    /\ UNCHANGED <<pc, rowVars, revoked, shaken>>

RemoveTrusted ==
    /\ trusted
    /\ trusted' = FALSE /\ revoked' = TRUE
    /\ UNCHANGED <<pc, rowVars, shaken>>

-----------------------------------------------------------------------------
ConnectStep(c) ==
    \/ DialOk(c) \/ DialError(c)
    \/ CheckTrust(c) \/ Load(c) \/ Save(c) \/ StoreError(c)

DiscoverStep(d) == DiscoverLoad(d) \/ DiscoverSave(d) \/ DiscoverError(d)

Next ==
    \/ \E c \in Calls : ConnectStep(c)
    \/ \E d \in Discoveries : DiscoverStep(d)
    \/ AddTrusted \/ RemoveTrusted

Spec == Init /\ [][Next]_vars

-----------------------------------------------------------------------------
(* Properties.                                                             *)

\* "Saves peer only after successful cryptographic handshake": a connect call
\* is past its dial only when the handshake was done.
TypeOK ==
    /\ pc \in [Actors -> {"dial", "trust", "load", "discover", "save", "done"}]
    /\ sawTrust \in [Calls -> BOOLEAN]
    /\ loaded \in [Actors -> Rows \cup {NoRow}]
    /\ row \in Rows \cup {NoRow}
    /\ shaken \subseteq Calls
    /\ \A c \in Calls : pc[c] \in {"trust", "load", "save"} => c \in shaken
    /\ trusted \in BOOLEAN /\ revoked \in BOOLEAN

\* Trust fails closed: the stored peer is verified only if the user trusts
\* it, or did so before withdrawing trust.
VerifiedOnlyIfTrusted == row # NoRow /\ row.verified => trusted \/ revoked

\* "Online status is ONLY set by local network layer, never by peer claim": a
\* peer is stored as online only after a handshake with it.
OnlineNeedsHandshake == row # NoRow /\ row.online => shaken # {}

\* No use case withdraws a verification: it is lost only when an actor writes
\* back a copy that it loaded before the peer was verified.
VerificationLostByStaleWrite ==
    [][row # NoRow /\ row.verified /\ ~row'.verified =>
        \E a \in Actors :
            /\ At(a, "save") /\ pc'[a] = "done"
            /\ loaded[a] = NoRow \/ ~loaded[a].verified]_vars
=============================================================================
