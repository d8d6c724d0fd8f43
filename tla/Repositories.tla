---------------------------- MODULE Repositories ----------------------------
(***************************************************************************)
(* The SQLite tables behind the peer repository, the trust store it        *)
(* implements, and the message repository, used by concurrent callers.     *)
(* A statement is atomic, and so is a transaction; a call made of two      *)
(* statements is two steps.                                                *)
(*                                                                         *)
(* Of a peer row we keep its id, whether keys and addresses can be read    *)
(* back, the verified flag and the trusted flag; of a message row, the     *)
(* state column and the state inside message_json.  A fingerprint is       *)
(* stored as its grouped text, which from_hex reads back unchanged.        *)
(***************************************************************************)
EXTENDS Naturals, FiniteSets

CONSTANTS
    Callers,   \* tasks that use the repositories
    Fps,       \* fingerprints of peers
    MaxIds,    \* bound on peer ids drawn
    MaxMsgs    \* bound on messages inserted

ASSUME BoundsAssumption == MaxIds \in Nat /\ MaxMsgs \in Nat

VARIABLES
    peers,       \* the peers table: a row, or NoRow, for every fingerprint
    messages,    \* the messages table
    recipients,  \* the message_recipients table: pairs of message and text
    caller,      \* what every caller is doing and the entity it holds
    ids,         \* number of peer ids drawn
    drawn,       \* number of message ids drawn
    acked,       \* history: fingerprints whose add_trusted answered Ok
    raced,       \* history: fingerprints inserted between its two statements
    cut          \* history: messages whose delete stopped half way

peerVars == <<peers, ids, acked, raced>>
msgVars == <<messages, recipients, drawn, cut>>
vars == <<peerVars, msgVars, caller>>

NoRow == [id |-> 0, readable |-> FALSE, verified |-> FALSE, trusted |-> FALSE]
NoPeer == [id |-> 0, verified |-> FALSE]
States == {"pending", "sent"}
NoMsg == [state |-> "none", json |-> "none", to |-> {}]
Resting == [pc |-> "idle", fp |-> "none", peer |-> NoPeer, msg |-> 0, out |-> "none"]

Init ==
    /\ peers = [f \in Fps |-> NoRow] /\ ids = 0 /\ acked = {} /\ raced = {}
    /\ messages = [m \in 1..MaxMsgs |-> NoMsg] /\ recipients = {} /\ drawn = 0 /\ cut = {}
    /\ caller = [c \in Callers |-> Resting]

Exists(f) == peers[f].id # 0
Ready(c) == caller[c].pc = "idle"
Answer(c, o) == caller' = [caller EXCEPT ![c] = [Resting EXCEPT !.out = o]]
Hold(c, f, p) == caller' = [caller EXCEPT ![c] = [Resting EXCEPT !.fp = f, !.peer = p, !.out = "ok"]]

-----------------------------------------------------------------------------
(* Peer::builder().build(): a new id, not verified. *)
Build(n) == [id |-> n, verified |-> FALSE]

(* The row of a peer (PeerModel::from); it says nothing of trust. *)
RowOf(p) == [id |-> p.id, readable |-> TRUE, verified |-> p.verified, trusted |-> FALSE]

(* Peer::try_from(PeerModel) goes through the builder again: of a row that *)
(* can be read it makes an entity with an id of its own, not verified.     *)
Rebuilds(row) == row.readable
Rebuild(row, n) == IF Rebuilds(row) THEN Build(n) ELSE NoPeer

(* insert and TrustStore::add_peer: the fingerprint is unique. *)
Insert(c, f) ==
    /\ Ready(c) /\ ids < MaxIds
    /\ ids' = ids + 1
    /\ \E v \in BOOLEAN :
         LET p == [Build(ids + 1) EXCEPT !.verified = v] IN
         IF Exists(f) THEN Answer(c, "exists") /\ UNCHANGED <<peers, raced>>
         ELSE /\ peers' = [peers EXCEPT ![f] = RowOf(p)]
              /\ raced' = IF \E d \in Callers : caller[d].pc = "trust" /\ caller[d].fp = f
                          THEN raced \union {f} ELSE raced
              /\ Hold(c, f, p)
    /\ UNCHANGED <<acked, msgVars>>

(* get_by_fingerprint and get_peer; a row without keys is not rebuilt. *)
Get(c, f) ==
    /\ Ready(c)
    /\ \/ ~Exists(f) /\ Answer(c, "not_found") /\ UNCHANGED ids
       \/ Exists(f) /\ ~Rebuilds(peers[f]) /\ Answer(c, "internal") /\ UNCHANGED ids
       \/ /\ Rebuilds(peers[f]) /\ ids < MaxIds
          /\ ids' = ids + 1
          /\ Hold(c, f, Rebuild(peers[f], ids + 1))
    /\ UNCHANGED <<peers, acked, raced, msgVars>>

\* Mutant: the whole row is written.
UpdateReplaces(c) ==
    /\ Ready(c) /\ caller[c].peer # NoPeer
    /\ \E v \in {caller[c].peer.verified, TRUE} :
         LET f == caller[c].fp IN
         IF ~Exists(f) THEN Answer(c, "not_found") /\ UNCHANGED peers
         ELSE /\ peers' = [peers EXCEPT ![f] = RowOf([id |-> @.id, verified |-> v])]
              /\ Hold(c, f, [caller[c].peer EXCEPT !.verified = v])
    /\ UNCHANGED <<ids, acked, raced, msgVars>>

(* update, after the caller may have called verify: every column but the   *)
(* id, the first time seen and the trust.                                  *)
Update(c) ==
    /\ Ready(c) /\ caller[c].peer # NoPeer
    /\ \E v \in {caller[c].peer.verified, TRUE} :
         LET f == caller[c].fp IN
         IF ~Exists(f) THEN Answer(c, "not_found") /\ UNCHANGED peers
         ELSE /\ peers' = [peers EXCEPT ![f].readable = TRUE, ![f].verified = v]
              /\ Hold(c, f, [caller[c].peer EXCEPT !.verified = v])
    /\ UNCHANGED <<ids, acked, raced, msgVars>>

(* delete, by the id of the entity the caller holds. *)
Delete(c) ==
    /\ Ready(c) /\ caller[c].peer # NoPeer
    /\ LET gone == {f \in Fps : peers[f].id = caller[c].peer.id} IN
       /\ peers' = [f \in Fps |-> IF f \in gone THEN NoRow ELSE peers[f]]
       /\ acked' = acked \ gone
       /\ raced' = raced \ gone
       /\ Answer(c, IF gone = {} THEN "not_found" ELSE "ok")
    /\ UNCHANGED <<ids, msgVars>>

(* add_trusted, the UPDATE: done when it changed a row. *)
Trust(c, f) ==
    /\ Ready(c)
    /\ IF Exists(f)
       THEN /\ peers' = [peers EXCEPT ![f].trusted = TRUE]
            /\ acked' = acked \union {f}
            /\ Answer(c, "ok")
       ELSE /\ caller' = [caller EXCEPT ![c] = [Resting EXCEPT !.pc = "trust", !.fp = f]]
            /\ UNCHANGED <<peers, acked>>
    /\ UNCHANGED <<ids, raced, msgVars>>

\* Mutant: INSERT OR REPLACE.
TrustInsertReplaces(c) ==
    /\ caller[c].pc = "trust" /\ ids < MaxIds
    /\ LET f == caller[c].fp IN
       /\ ids' = ids + 1
       /\ peers' = [peers EXCEPT ![f] = [NoRow EXCEPT !.id = ids + 1, !.trusted = TRUE]]
       /\ acked' = acked \union {f}
       /\ Answer(c, "ok")
    /\ UNCHANGED <<raced, msgVars>>

(* add_trusted, the INSERT OR IGNORE of a row with no keys and no          *)
(* addresses: it does nothing when the row has appeared meanwhile, and the *)
(* call answers Ok all the same.                                           *)
TrustInsert(c) ==
    /\ caller[c].pc = "trust" /\ ids < MaxIds
    /\ LET f == caller[c].fp IN
       /\ ids' = ids + 1
       /\ peers' = IF Exists(f) THEN peers
                   ELSE [peers EXCEPT ![f] = [NoRow EXCEPT !.id = ids + 1, !.trusted = TRUE]]
       /\ acked' = acked \union {f}
       /\ Answer(c, "ok")
    /\ UNCHANGED <<raced, msgVars>>

(* is_trusted, for a fingerprint without a row an error. *)
IsTrusted(c, f) ==
    /\ Ready(c)
    /\ Answer(c, IF ~Exists(f) THEN "not_found" ELSE IF peers[f].trusted THEN "yes" ELSE "no")
    /\ UNCHANGED <<peerVars, msgVars>>

(* list_all stops at the first row it cannot rebuild. *)
ListAll(c) ==
    /\ Ready(c)
    /\ Answer(c, IF \E f \in Fps : Exists(f) /\ ~Rebuilds(peers[f]) THEN "internal" ELSE "ok")
    /\ UNCHANGED <<peerVars, msgVars>>

(* list_trusted parses fingerprints only: a row without keys is no error. *)
ListTrusted(c) ==
    /\ Ready(c)
    /\ Answer(c, "ok")
    /\ UNCHANGED <<peerVars, msgVars>>

(* The pool or the database refuses the statement; a call may stop here    *)
(* between its two statements.                                             *)
Refused(c) ==
    /\ caller[c].pc \in {"trust", "unlink"}
    /\ Answer(c, IF caller[c].pc = "unlink" THEN "ok" ELSE "internal")
    /\ cut' = IF caller[c].pc = "unlink" THEN cut \union {caller[c].msg} ELSE cut
    /\ UNCHANGED <<peerVars, messages, recipients, drawn>>

-----------------------------------------------------------------------------
(* The recipients as they are split for message_recipients.  The column    *)
(* holds a JSON array: between commas its texts keep their quotes and      *)
(* brackets, and none is a bare fingerprint.                               *)
Texts(to) == {[fp |-> f, quoted |-> TRUE] : f \in to}
Bare(f) == [fp |-> f, quoted |-> FALSE]

(* MessageModel::from writes the state twice, as a column and inside the   *)
(* message's JSON; Message::try_from reads the JSON only.                  *)
MessageRow(s, to) == [state |-> s, json |-> s, to |-> to]
StateRead(row) == row.json

(* insert, one transaction over both tables. *)
InsertMessage(c) ==
    /\ Ready(c) /\ drawn < MaxMsgs
    /\ \E to \in SUBSET Fps \ {{}}, s \in States :
         /\ drawn' = drawn + 1
         /\ messages' = [messages EXCEPT ![drawn + 1] = MessageRow(s, to)]
         /\ recipients' = recipients \union ({drawn + 1} \X Texts(to))
    /\ Answer(c, "ok")
    /\ UNCHANGED <<peerVars, cut>>

(* update_state writes the state column and leaves message_json. *)
UpdateState(c, m) ==
    /\ Ready(c)
    /\ \E s \in States :
         IF messages[m] = NoMsg THEN Answer(c, "not_found") /\ UNCHANGED messages
         ELSE messages' = [messages EXCEPT ![m].state = s] /\ Answer(c, "ok")
    /\ UNCHANGED <<peerVars, recipients, drawn, cut>>

(* get answers from message_json; list_for_recipient looks the bare        *)
(* fingerprint up in message_recipients.                                   *)
GetMessage(c, m) ==
    /\ Ready(c)
    /\ Answer(c, IF messages[m] = NoMsg THEN "not_found" ELSE StateRead(messages[m]))
    /\ UNCHANGED <<peerVars, msgVars>>

ListForRecipient(c, f) ==
    /\ Ready(c)
    /\ Answer(c, IF \E m \in 1..MaxMsgs : messages[m] # NoMsg /\ <<m, Bare(f)>> \in recipients
                 THEN "found" ELSE "ok")
    /\ UNCHANGED <<peerVars, msgVars>>

(* delete: the message first, then its recipients, whose failure is        *)
(* ignored; not one transaction.                                           *)
DeleteMessage(c, m) ==
    /\ Ready(c)
    /\ IF messages[m] = NoMsg THEN Answer(c, "not_found") /\ UNCHANGED messages
       ELSE /\ messages' = [messages EXCEPT ![m] = NoMsg]
            /\ caller' = [caller EXCEPT ![c] = [Resting EXCEPT !.pc = "unlink", !.msg = m]]
    /\ UNCHANGED <<peerVars, recipients, drawn, cut>>

\* Mutant: the recipients are not deleted.
UnlinkForgotten(c) ==
    /\ caller[c].pc = "unlink"
    /\ Answer(c, "ok")
    /\ UNCHANGED <<peerVars, msgVars>>

Unlink(c) ==
    /\ caller[c].pc = "unlink"
    /\ recipients' = {r \in recipients : r[1] # caller[c].msg}
    /\ Answer(c, "ok")
    /\ UNCHANGED <<peerVars, messages, drawn, cut>>

Next ==
    \E c \in Callers :
        \/ Update(c) \/ Delete(c) \/ TrustInsert(c) \/ ListAll(c) \/ ListTrusted(c)
        \/ Refused(c)
        \/ InsertMessage(c) \/ Unlink(c)
        \/ \E f \in Fps : Insert(c, f) \/ Get(c, f) \/ Trust(c, f) \/ IsTrusted(c, f)
                        \/ ListForRecipient(c, f)
        \/ \E m \in 1..MaxMsgs : UpdateState(c, m) \/ GetMessage(c, m) \/ DeleteMessage(c, m)

Spec == Init /\ [][Next]_vars
-----------------------------------------------------------------------------
(* A trust decision that was answered Ok lasts as long as the row: no      *)
(* insert, update or second add_trusted of another caller undoes it,       *)
(* unless the peer was inserted between the two statements of add_trusted. *)
TrustLasts == \A f \in acked \ raced : peers[f].trusted

(* A row that can be read back stays readable until it is deleted: the     *)
(* placeholder that add_trusted stores for a peer it did not find never    *)
(* takes the place of one inserted meanwhile, which would make list_all    *)
(* fail for everybody.                                                     *)
ReadableStays ==
    [][\A f \in Fps : peers[f].readable => peers'[f].readable \/ peers'[f] = NoRow]_vars

(* Rows of message_recipients outlive their message only while a delete is *)
(* between its two statements, or after its second statement failed.       *)
RecipientsHaveMessage ==
    \A r \in recipients :
        \/ messages[r[1]] # NoMsg
        \/ r[1] \in cut
        \/ \E c \in Callers : caller[c].pc = "unlink" /\ caller[c].msg = r[1]
=============================================================================
