------------------------- MODULE RepositoriesProofs -------------------------
(***************************************************************************)
(* Trust decisions, readable rows and recipients under concurrent callers, *)
(* for any number of callers, fingerprints, rows and messages.             *)
(***************************************************************************)
EXTENDS Repositories, TLAPS

Rows == [id : Nat, readable : BOOLEAN, verified : BOOLEAN, trusted : BOOLEAN]
Entities == [id : Nat, verified : BOOLEAN]
MessageRows == [state : States \union {"none"}, json : States \union {"none"}, to : SUBSET Fps]
Outs == {"none", "ok", "exists", "not_found", "internal", "yes", "no", "found"} \union States
CallerRecords == [pc : {"idle", "trust", "unlink"}, fp : Fps \union {"none"}, peer : Entities,
                  msg : Nat, out : Outs]

\* An entity that a caller holds is one of a fingerprint.
CallerStates == {r \in CallerRecords : r.peer # NoPeer => r.fp \in Fps}

\* A fingerprint without an id has no row at all.
Shape ==
    /\ ids \in Nat /\ drawn \in Nat
    /\ peers \in [Fps -> Rows]
    /\ \A f \in Fps : peers[f].id = 0 => peers[f] = NoRow
    /\ acked \subseteq Fps /\ raced \subseteq Fps
    /\ messages \in [1 .. MaxMsgs -> MessageRows]
    /\ \A r \in recipients : r[1] \in 1 .. MaxMsgs
    /\ caller \in [Callers -> CallerStates]

\* Between the two statements of add_trusted a row for its fingerprint can only
\* be one that is trusted, or one whose insert was recorded as racing.
BetweenStatements ==
    \A c \in Callers :
        caller[c].pc = "trust" =>
            /\ caller[c].fp \in Fps
            /\ Exists(caller[c].fp) => caller[c].fp \in raced \/ peers[caller[c].fp].trusted

Inv == Shape /\ BetweenStatements /\ TrustLasts /\ RecipientsHaveMessage

-----------------------------------------------------------------------------
(* What a call leaves behind.                                              *)

\* A caller whose call has ended with outcome o.
LEMMA AnswerLeaves ==
    ASSUME Shape, NEW c \in Callers, NEW o \in Outs, Answer(c, o)
    PROVE  /\ caller' \in [Callers -> CallerStates]
           /\ caller'[c].pc = "idle"
           /\ \A d \in Callers : d # c => caller'[d] = caller[d]
<1> DEFINE r == [Resting EXCEPT !.out = o]
<1>1. r \in CallerStates /\ r.pc = "idle"
  BY DEF Resting, NoPeer, CallerStates, CallerRecords, Entities
<1> HIDE DEF r
<1>2. caller' = [caller EXCEPT ![c] = r]
  BY DEF Answer, r
<1> QED
  BY <1>1, <1>2 DEF Shape

\* A caller that holds an entity.
LEMMA HoldLeaves ==
    ASSUME Shape, NEW c \in Callers, NEW f \in Fps, NEW p \in Entities, Hold(c, f, p)
    PROVE  /\ caller' \in [Callers -> CallerStates]
           /\ caller'[c].pc = "idle"
           /\ \A d \in Callers : d # c => caller'[d] = caller[d]
<1> DEFINE r == [Resting EXCEPT !.fp = f, !.peer = p, !.out = "ok"]
<1>1. r \in CallerStates /\ r.pc = "idle"
  BY DEF Resting, NoPeer, CallerStates, CallerRecords, Entities, Outs
<1> HIDE DEF r
<1>2. caller' = [caller EXCEPT ![c] = r]
  BY DEF Hold, r
<1> QED
  BY <1>1, <1>2 DEF Shape

\* The message tables are as they were and the caller was not deleting.
LEMMA MessagesStay ==
    ASSUME Inv, NEW c \in Callers, caller[c].pc # "unlink", UNCHANGED msgVars,
           \A d \in Callers : d # c => caller'[d] = caller[d]
    PROVE  RecipientsHaveMessage'
<1>1. messages' = messages /\ recipients' = recipients /\ cut' = cut
  BY DEF msgVars
<1> SUFFICES ASSUME NEW r \in recipients
             PROVE  \/ messages[r[1]] # NoMsg
                    \/ r[1] \in cut
                    \/ \E d \in Callers : caller'[d].pc = "unlink" /\ caller'[d].msg = r[1]
  BY <1>1 DEF RecipientsHaveMessage
<1> QED
  BY DEF Inv, RecipientsHaveMessage

\* The peers table is as it was and the caller is not about to insert.
LEMMA PeersStay ==
    ASSUME Inv, NEW c \in Callers, UNCHANGED <<peers, acked, raced>>, caller'[c].pc # "trust",
           \A d \in Callers : d # c => caller'[d] = caller[d]
    PROVE  BetweenStatements' /\ TrustLasts'
<1>1. TrustLasts'
  BY DEF Inv, TrustLasts
<1>2. BetweenStatements'
  BY DEF Inv, BetweenStatements, Exists
<1> QED
  BY <1>1, <1>2

\* An answer that changes neither table.
LEMMA AnswerKeeps ==
    ASSUME Inv, NEW c \in Callers, Ready(c), NEW o \in Outs, Answer(c, o),
           UNCHANGED <<peers, acked, raced, msgVars>>, ids' \in Nat
    PROVE  Inv'
<1>1. /\ caller' \in [Callers -> CallerStates]
      /\ caller'[c].pc = "idle"
      /\ \A d \in Callers : d # c => caller'[d] = caller[d]
  BY AnswerLeaves DEF Inv
<1>2. RecipientsHaveMessage'
  BY <1>1, MessagesStay DEF Ready
<1>3. Shape'
  BY <1>1 DEF Inv, Shape, msgVars
<1>4. BetweenStatements' /\ TrustLasts'
  BY <1>1, PeersStay
<1> QED
  BY <1>2, <1>3, <1>4 DEF Inv

-----------------------------------------------------------------------------
(* The peers table.                                                        *)

\* An insert finds the fingerprint or adds a row that is not trusted; a caller
\* that is between the statements of add_trusted makes it a race.
LEMMA InsertKeeps ==
    ASSUME Inv, NEW c \in Callers, NEW f \in Fps, Insert(c, f)
    PROVE  Inv'
<1>1. Ready(c) /\ ids' = ids + 1 /\ ids \in Nat /\ ids' \in Nat
  BY DEF Insert, Inv, Shape
<1>2. PICK v \in BOOLEAN :
        LET p == [Build(ids + 1) EXCEPT !.verified = v] IN
        IF Exists(f) THEN Answer(c, "exists") /\ UNCHANGED <<peers, raced>>
        ELSE /\ peers' = [peers EXCEPT ![f] = RowOf(p)]
             /\ raced' = IF \E d \in Callers : caller[d].pc = "trust" /\ caller[d].fp = f
                         THEN raced \union {f} ELSE raced
             /\ Hold(c, f, p)
  BY DEF Insert
<1>3. UNCHANGED <<acked, msgVars>>
  BY DEF Insert
<1>4. CASE Exists(f)
  BY <1>1, <1>2, <1>3, <1>4, AnswerKeeps DEF Outs
<1>5. CASE ~Exists(f)
  <2> DEFINE p == [Build(ids + 1) EXCEPT !.verified = v]
             row == RowOf(p)
  <2>1. /\ p \in Entities /\ row \in Rows /\ row.id # 0 /\ row.trusted = FALSE
    BY <1>1 DEF Build, RowOf, Entities, Rows
  <2> HIDE DEF p, row
  <2>2. /\ peers' = [peers EXCEPT ![f] = row]
        /\ raced' = IF \E d \in Callers : caller[d].pc = "trust" /\ caller[d].fp = f
                    THEN raced \union {f} ELSE raced
        /\ Hold(c, f, p)
    BY <1>2, <1>5 DEF p, row
  <2>3. /\ caller' \in [Callers -> CallerStates]
        /\ caller'[c].pc = "idle"
        /\ \A d \in Callers : d # c => caller'[d] = caller[d]
    BY <2>1, <2>2, HoldLeaves DEF Inv
  <2>4. /\ peers'[f] = row
        /\ \A g \in Fps : g # f => peers'[g] = peers[g]
    BY <2>2 DEF Inv, Shape
  <2>5. Shape'
    <3>1. peers' \in [Fps -> Rows]
      BY <2>1, <2>2 DEF Inv, Shape
    <3>2. \A g \in Fps : peers'[g].id = 0 => peers'[g] = NoRow
      BY <2>1, <2>4 DEF Inv, Shape
    <3>3. raced' \subseteq Fps
      BY <2>2 DEF Inv, Shape
    <3> QED
      BY <1>1, <1>3, <2>3, <3>1, <3>2, <3>3 DEF Inv, Shape, msgVars
  <2>6. peers[f] = NoRow /\ ~peers[f].trusted
    BY <1>5 DEF Inv, Shape, Exists, NoRow
  <2>7. TrustLasts'
    <3>1. f \notin acked \ raced
      BY <2>6 DEF Inv, TrustLasts
    <3>2. raced \subseteq raced'
      BY <2>2
    <3> QED
      BY <1>3, <2>4, <3>1, <3>2 DEF Inv, Shape, TrustLasts
  <2>8. BetweenStatements'
    <3> SUFFICES ASSUME NEW d \in Callers, caller'[d].pc = "trust"
                 PROVE  /\ caller'[d].fp \in Fps
                        /\ peers'[caller'[d].fp].id # 0
                             => caller'[d].fp \in raced' \/ peers'[caller'[d].fp].trusted
      BY DEF BetweenStatements, Exists
    <3>1. d # c /\ caller'[d] = caller[d] /\ caller[d].pc = "trust"
      BY <2>3
    <3>2. CASE caller[d].fp = f
      BY <2>2, <3>1, <3>2
    <3>3. CASE caller[d].fp # f
      BY <2>2, <2>4, <3>1, <3>3 DEF Inv, BetweenStatements, Exists
    <3> QED
      BY <3>2, <3>3
  <2>9. RecipientsHaveMessage'
    BY <1>1, <1>3, <2>3, MessagesStay DEF Ready
  <2> QED
    BY <2>5, <2>7, <2>8, <2>9 DEF Inv
<1> QED
  BY <1>4, <1>5

\* Reading a row changes nothing but the ids drawn.
LEMMA GetKeeps ==
    ASSUME Inv, NEW c \in Callers, NEW f \in Fps, Get(c, f)
    PROVE  Inv'
<1> USE DEF Get
<1>1. Ready(c) /\ ids \in Nat /\ UNCHANGED <<peers, acked, raced, msgVars>>
  BY DEF Inv, Shape
<1>2. CASE ~Exists(f) /\ Answer(c, "not_found") /\ UNCHANGED ids
  BY <1>1, <1>2, AnswerKeeps DEF Outs
<1>3. CASE Exists(f) /\ Answer(c, "internal") /\ UNCHANGED ids
  BY <1>1, <1>3, AnswerKeeps DEF Outs
<1>4. CASE Rebuilds(peers[f]) /\ ids' = ids + 1 /\ Hold(c, f, Rebuild(peers[f], ids + 1))
  <2>1. Rebuild(peers[f], ids + 1) \in Entities
    BY <1>1, <1>4 DEF Rebuild, Build, Entities
  <2>2. /\ caller' \in [Callers -> CallerStates]
        /\ caller'[c].pc = "idle"
        /\ \A d \in Callers : d # c => caller'[d] = caller[d]
    BY <1>4, <2>1, HoldLeaves DEF Inv
  <2>3. Shape'
    BY <1>1, <1>4, <2>2 DEF Inv, Shape, msgVars
  <2>4. RecipientsHaveMessage' /\ BetweenStatements' /\ TrustLasts'
    BY <1>1, <2>2, MessagesStay, PeersStay DEF Ready
  <2> QED
    BY <2>3, <2>4 DEF Inv
<1> QED
  BY <1>2, <1>3, <1>4

\* A row that exists is changed, and what is trusted stays trusted.
LEMMA ChangeKeeps ==
    ASSUME Inv, NEW c \in Callers, Ready(c), NEW f \in Fps, Exists(f), NEW row \in Rows,
           row.id = peers[f].id, peers[f].trusted => row.trusted,
           peers' = [peers EXCEPT ![f] = row],
           acked' = acked \/ (acked' = acked \union {f} /\ row.trusted),
           UNCHANGED <<ids, raced, msgVars>>,
           caller' \in [Callers -> CallerStates], caller'[c].pc = "idle",
           \A d \in Callers : d # c => caller'[d] = caller[d]
    PROVE  Inv'
<1>1. /\ peers'[f] = row
      /\ \A g \in Fps : g # f => peers'[g] = peers[g]
  BY DEF Inv, Shape
<1>2. Shape'
  <2>1. peers' \in [Fps -> Rows]
    BY DEF Inv, Shape
  <2>2. \A g \in Fps : peers'[g].id = 0 => peers'[g] = NoRow
    BY <1>1 DEF Inv, Shape, Exists
  <2>3. acked' \subseteq Fps
    BY DEF Inv, Shape
  <2> QED
    BY <2>1, <2>2, <2>3 DEF Inv, Shape, msgVars
<1>3. \A g \in Fps : peers[g].trusted => peers'[g].trusted
  BY <1>1
<1>4. TrustLasts'
  BY <1>1, <1>3 DEF Inv, Shape, TrustLasts
<1>5. BetweenStatements'
  BY <1>1, <1>3 DEF Inv, BetweenStatements, Exists
<1>6. RecipientsHaveMessage'
  BY MessagesStay DEF Ready
<1> QED
  BY <1>2, <1>4, <1>5, <1>6 DEF Inv

\* An update leaves the id and the trust of the row.
LEMMA UpdateKeeps ==
    ASSUME Inv, NEW c \in Callers, Update(c)
    PROVE  Inv'
<1> DEFINE f == caller[c].fp
<1>1. /\ Ready(c) /\ caller[c] \in CallerStates /\ ids \in Nat
      /\ UNCHANGED <<ids, acked, raced, msgVars>>
  BY DEF Update, Inv, Shape
<1>2. PICK v \in {caller[c].peer.verified, TRUE} :
        IF ~Exists(f) THEN Answer(c, "not_found") /\ UNCHANGED peers
        ELSE /\ peers' = [peers EXCEPT ![f].readable = TRUE, ![f].verified = v]
             /\ Hold(c, f, [caller[c].peer EXCEPT !.verified = v])
  BY DEF Update
<1>3. v \in BOOLEAN /\ caller[c].peer \in Entities /\ f \in Fps
  BY <1>1 DEF Update, CallerStates, CallerRecords, Entities
<1>4. CASE ~Exists(f)
  BY <1>1, <1>2, <1>4, AnswerKeeps DEF Outs
<1>5. CASE Exists(f)
  <2> DEFINE row == [peers[f] EXCEPT !.readable = TRUE, !.verified = v]
             p == [caller[c].peer EXCEPT !.verified = v]
  <2>1. p \in Entities
    BY <1>3 DEF Entities
  <2>2. peers[f] \in Rows
    BY <1>3 DEF Inv, Shape
  <2>3. row \in Rows /\ row.id = peers[f].id /\ row.trusted = peers[f].trusted
    BY <1>3, <2>2 DEF Rows
  <2>4. peers' = [peers EXCEPT ![f] = row] /\ Hold(c, f, p)
    BY <1>2, <1>3, <1>5 DEF Inv, Shape
  <2> HIDE DEF row, p
  <2>5. /\ caller' \in [Callers -> CallerStates]
        /\ caller'[c].pc = "idle"
        /\ \A d \in Callers : d # c => caller'[d] = caller[d]
    BY <1>3, <2>1, <2>4, HoldLeaves DEF Inv
  <2> QED
    BY <1>1, <1>3, <1>5, <2>3, <2>4, <2>5, ChangeKeeps
<1> QED
  BY <1>4, <1>5

\* A delete forgets the trust together with the row.
LEMMA DeleteKeeps ==
    ASSUME Inv, NEW c \in Callers, Delete(c)
    PROVE  Inv'
<1> DEFINE gone == {f \in Fps : peers[f].id = caller[c].peer.id}
           o == IF gone = {} THEN "not_found" ELSE "ok"
<1>1. /\ Ready(c)
      /\ peers' = [f \in Fps |-> IF f \in gone THEN NoRow ELSE peers[f]]
      /\ acked' = acked \ gone /\ raced' = raced \ gone
      /\ Answer(c, o) /\ o \in Outs
      /\ UNCHANGED <<ids, msgVars>>
  BY DEF Delete, Outs
<1> HIDE DEF gone, o
<1>2. /\ caller' \in [Callers -> CallerStates]
      /\ caller'[c].pc = "idle"
      /\ \A d \in Callers : d # c => caller'[d] = caller[d]
  BY <1>1, AnswerLeaves DEF Inv
<1>3. NoRow \in Rows
  BY DEF NoRow, Rows
<1>4. Shape'
  BY <1>1, <1>2, <1>3 DEF Inv, Shape, msgVars
<1>5. TrustLasts'
  BY <1>1 DEF Inv, Shape, TrustLasts
<1>6. BetweenStatements'
  <2> SUFFICES ASSUME NEW d \in Callers, caller'[d].pc = "trust"
               PROVE  /\ caller'[d].fp \in Fps
                      /\ peers'[caller'[d].fp].id # 0
                           => caller'[d].fp \in raced' \/ peers'[caller'[d].fp].trusted
    BY DEF BetweenStatements, Exists
  <2>1. d # c /\ caller'[d] = caller[d] /\ caller[d].pc = "trust" /\ caller[d].fp \in Fps
    BY <1>2 DEF Inv, BetweenStatements
  <2>2. CASE caller[d].fp \in gone
    BY <1>1, <2>1, <2>2 DEF NoRow
  <2>3. CASE caller[d].fp \notin gone
    BY <1>1, <2>1, <2>3 DEF Inv, BetweenStatements, Exists
  <2> QED
    BY <2>2, <2>3
<1>7. RecipientsHaveMessage'
  BY <1>1, <1>2, MessagesStay DEF Ready
<1> QED
  BY <1>4, <1>5, <1>6, <1>7 DEF Inv

\* The first statement of add_trusted: the row is trusted, or there is none.
LEMMA TrustKeeps ==
    ASSUME Inv, NEW c \in Callers, NEW f \in Fps, Trust(c, f)
    PROVE  Inv'
<1>1. Ready(c) /\ UNCHANGED <<ids, raced, msgVars>>
  BY DEF Trust
<1>2. CASE Exists(f)
  <2> DEFINE row == [peers[f] EXCEPT !.trusted = TRUE]
  <2>1. peers[f] \in Rows
    BY DEF Inv, Shape
  <2>2. row \in Rows /\ row.id = peers[f].id /\ row.trusted
    BY <2>1 DEF Rows
  <2>3. peers' = [peers EXCEPT ![f] = row] /\ acked' = acked \union {f} /\ Answer(c, "ok")
    BY <1>2 DEF Trust, Inv, Shape
  <2> HIDE DEF row
  <2>4. /\ caller' \in [Callers -> CallerStates]
        /\ caller'[c].pc = "idle"
        /\ \A d \in Callers : d # c => caller'[d] = caller[d]
    BY <2>3, AnswerLeaves DEF Inv, Outs
  <2> QED
    BY <1>1, <1>2, <2>2, <2>3, <2>4, ChangeKeeps
<1>3. CASE ~Exists(f)
  <2> DEFINE r == [Resting EXCEPT !.pc = "trust", !.fp = f]
  <2>1. r \in CallerStates /\ r.pc = "trust" /\ r.fp = f
    BY DEF Resting, NoPeer, CallerStates, CallerRecords, Entities, Outs
  <2>2. caller' = [caller EXCEPT ![c] = r] /\ UNCHANGED <<peers, acked>>
    BY <1>3 DEF Trust
  <2> HIDE DEF r
  <2>3. /\ caller' \in [Callers -> CallerStates]
        /\ caller'[c] = r
        /\ \A d \in Callers : d # c => caller'[d] = caller[d]
    BY <2>1, <2>2 DEF Inv, Shape
  <2>4. Shape'
    BY <1>1, <2>2, <2>3 DEF Inv, Shape, msgVars
  <2>5. TrustLasts'
    BY <1>1, <2>2 DEF Inv, TrustLasts
  <2>6. BetweenStatements'
    BY <1>1, <1>3, <2>1, <2>2, <2>3 DEF Inv, BetweenStatements, Exists
  <2>7. RecipientsHaveMessage'
    BY <1>1, <2>3, MessagesStay DEF Ready
  <2> QED
    BY <2>4, <2>5, <2>6, <2>7 DEF Inv
<1> QED
  BY <1>2, <1>3

\* The second statement: a row that appeared meanwhile is left as it is, and was
\* inserted in a race or is trusted.
LEMMA TrustInsertKeeps ==
    ASSUME Inv, NEW c \in Callers, TrustInsert(c)
    PROVE  Inv'
<1> DEFINE f == caller[c].fp
           row == [NoRow EXCEPT !.id = ids + 1, !.trusted = TRUE]
<1>1. /\ caller[c].pc = "trust" /\ ids' = ids + 1 /\ acked' = acked \union {f}
      /\ peers' = IF Exists(f) THEN peers ELSE [peers EXCEPT ![f] = row]
      /\ Answer(c, "ok") /\ UNCHANGED <<raced, msgVars>>
  BY DEF TrustInsert
<1>2. f \in Fps /\ (Exists(f) => f \in raced \/ peers[f].trusted) /\ ids \in Nat
  BY <1>1 DEF Inv, BetweenStatements, Shape
<1>3. row \in Rows /\ row.id # 0 /\ row.trusted
  <2>1. ids + 1 \in Nat /\ ids + 1 # 0
    BY <1>2
  <2> QED
    BY <2>1 DEF NoRow, Rows
<1> HIDE DEF row
<1>4. /\ caller' \in [Callers -> CallerStates]
      /\ caller'[c].pc = "idle"
      /\ \A d \in Callers : d # c => caller'[d] = caller[d]
  BY <1>1, AnswerLeaves DEF Inv, Outs
<1>5. /\ peers' \in [Fps -> Rows]
      /\ ~Exists(f) => peers'[f] = row
      /\ Exists(f) => peers'[f] = peers[f]
      /\ \A g \in Fps : g # f => peers'[g] = peers[g]
  BY <1>1, <1>2, <1>3 DEF Inv, Shape
<1>6. Shape'
  <2>1. \A g \in Fps : peers'[g].id = 0 => peers'[g] = NoRow
    BY <1>3, <1>5 DEF Inv, Shape, Exists
  <2>2. acked' \subseteq Fps /\ ids' \in Nat
    BY <1>1, <1>2 DEF Inv, Shape
  <2> QED
    BY <1>1, <1>4, <1>5, <2>1, <2>2 DEF Inv, Shape, msgVars
<1>7. \A g \in Fps : peers[g].trusted => peers'[g].trusted
  BY <1>3, <1>5
<1>8. f \in raced \/ peers'[f].trusted
  BY <1>2, <1>3, <1>5
<1>9. TrustLasts'
  BY <1>1, <1>7, <1>8 DEF Inv, Shape, TrustLasts
<1>10. BetweenStatements'
  <2> SUFFICES ASSUME NEW d \in Callers, caller'[d].pc = "trust"
               PROVE  /\ caller'[d].fp \in Fps
                      /\ peers'[caller'[d].fp].id # 0
                           => caller'[d].fp \in raced' \/ peers'[caller'[d].fp].trusted
    BY DEF BetweenStatements, Exists
  <2>1. d # c /\ caller'[d] = caller[d] /\ caller[d].pc = "trust" /\ caller[d].fp \in Fps
    BY <1>4 DEF Inv, BetweenStatements
  <2>2. CASE caller[d].fp = f
    BY <1>1, <1>8, <2>1, <2>2
  <2>3. CASE caller[d].fp # f
    BY <1>1, <1>5, <2>1, <2>3 DEF Inv, BetweenStatements, Exists
  <2> QED
    BY <2>2, <2>3
<1>11. RecipientsHaveMessage'
  BY <1>1, <1>4, MessagesStay
<1> QED
  BY <1>6, <1>9, <1>10, <1>11 DEF Inv

-----------------------------------------------------------------------------
(* The message tables.                                                     *)

\* One transaction stores a message with its recipients.
LEMMA InsertMessageKeeps ==
    ASSUME Inv, NEW c \in Callers, InsertMessage(c)
    PROVE  Inv'
<1> DEFINE n == drawn + 1
<1>1. /\ Ready(c) /\ drawn < MaxMsgs /\ Answer(c, "ok") /\ UNCHANGED <<peerVars, cut>>
      /\ drawn \in Nat
  BY DEF InsertMessage, Inv, Shape
<1>2. PICK to \in SUBSET Fps \ {{}}, s \in States :
        /\ drawn' = n
        /\ messages' = [messages EXCEPT ![n] = MessageRow(s, to)]
        /\ recipients' = recipients \union ({n} \X Texts(to))
  BY DEF InsertMessage
<1>3. n \in 1 .. MaxMsgs
  BY <1>1, BoundsAssumption
<1>4. MessageRow(s, to) \in MessageRows /\ MessageRow(s, to) # NoMsg
  BY DEF MessageRow, MessageRows, NoMsg, States
<1>5. /\ caller' \in [Callers -> CallerStates]
      /\ caller'[c].pc = "idle"
      /\ \A d \in Callers : d # c => caller'[d] = caller[d]
  BY <1>1, AnswerLeaves DEF Inv, Outs
<1>6. \A r \in recipients' : r \in recipients \/ r[1] = n
  BY <1>2
<1>7. /\ messages' \in [1 .. MaxMsgs -> MessageRows]
      /\ messages'[n] # NoMsg
      /\ \A m \in 1 .. MaxMsgs : m # n => messages'[m] = messages[m]
  BY <1>2, <1>3, <1>4 DEF Inv, Shape
<1>8. Shape'
  <2>1. \A r \in recipients' : r[1] \in 1 .. MaxMsgs
    BY <1>3, <1>6 DEF Inv, Shape
  <2>2. drawn' \in Nat
    BY <1>1, <1>2
  <2> QED
    BY <1>1, <1>5, <1>7, <2>1, <2>2 DEF Inv, Shape, peerVars
<1>9. RecipientsHaveMessage'
  <2> SUFFICES ASSUME NEW r \in recipients', r[1] # n
               PROVE  \/ messages'[r[1]] # NoMsg
                      \/ r[1] \in cut'
                      \/ \E d \in Callers : caller'[d].pc = "unlink" /\ caller'[d].msg = r[1]
    BY <1>7 DEF RecipientsHaveMessage
  <2>1. r \in recipients /\ messages'[r[1]] = messages[r[1]]
    BY <1>6, <1>7 DEF Inv, Shape
  <2> QED
    BY <1>1, <1>5, <2>1 DEF Inv, RecipientsHaveMessage, Ready
<1>10. BetweenStatements' /\ TrustLasts'
  BY <1>1, <1>5, PeersStay DEF peerVars
<1> QED
  BY <1>8, <1>9, <1>10 DEF Inv

\* A state is written into a row that exists.
LEMMA UpdateStateKeeps ==
    ASSUME Inv, NEW c \in Callers, NEW m \in 1 .. MaxMsgs, UpdateState(c, m)
    PROVE  Inv'
<1>1. Ready(c) /\ UNCHANGED <<peerVars, recipients, drawn, cut>>
  BY DEF UpdateState
<1>2. PICK s \in States :
        IF messages[m] = NoMsg THEN Answer(c, "not_found") /\ UNCHANGED messages
        ELSE messages' = [messages EXCEPT ![m].state = s] /\ Answer(c, "ok")
  BY DEF UpdateState
<1>3. CASE messages[m] = NoMsg
  <2>1. Answer(c, "not_found") /\ UNCHANGED msgVars /\ ids' \in Nat
    BY <1>1, <1>2, <1>3 DEF msgVars, peerVars, Inv, Shape
  <2> QED
    BY <1>1, <2>1, AnswerKeeps DEF Outs, peerVars
<1>4. CASE messages[m] # NoMsg
  <2>1. /\ caller' \in [Callers -> CallerStates]
        /\ caller'[c].pc = "idle"
        /\ \A d \in Callers : d # c => caller'[d] = caller[d]
    BY <1>2, <1>4, AnswerLeaves DEF Inv, Outs
  <2>2. messages' = [messages EXCEPT ![m] = [messages[m] EXCEPT !.state = s]]
    BY <1>2, <1>4
  <2>3. messages[m] \in MessageRows
    BY DEF Inv, Shape
  <2>4. [messages[m] EXCEPT !.state = s] \in MessageRows /\ [messages[m] EXCEPT !.state = s] # NoMsg
    BY <2>3 DEF MessageRows, NoMsg, States
  <2>5. Shape'
    BY <1>1, <2>1, <2>2, <2>4 DEF Inv, Shape, peerVars
  <2>6. \A k \in 1 .. MaxMsgs : messages[k] # NoMsg => messages'[k] # NoMsg
    BY <2>2, <2>4 DEF Inv, Shape
  <2>7. RecipientsHaveMessage'
    BY <1>1, <2>1, <2>6 DEF Inv, Shape, RecipientsHaveMessage, Ready
  <2>8. BetweenStatements' /\ TrustLasts'
    BY <1>1, <2>1, PeersStay DEF peerVars
  <2> QED
    BY <2>5, <2>7, <2>8 DEF Inv
<1> QED
  BY <1>3, <1>4

\* A delete removes the message and goes on to its recipients.
LEMMA DeleteMessageKeeps ==
    ASSUME Inv, NEW c \in Callers, NEW m \in 1 .. MaxMsgs, DeleteMessage(c, m)
    PROVE  Inv'
<1>1. Ready(c) /\ UNCHANGED <<peerVars, recipients, drawn, cut>>
  BY DEF DeleteMessage
<1>2. CASE messages[m] = NoMsg
  <2>1. Answer(c, "not_found") /\ UNCHANGED msgVars /\ ids' \in Nat
    BY <1>1, <1>2 DEF DeleteMessage, msgVars, peerVars, Inv, Shape
  <2> QED
    BY <1>1, <2>1, AnswerKeeps DEF Outs, peerVars
<1>3. CASE messages[m] # NoMsg
  <2> DEFINE r == [Resting EXCEPT !.pc = "unlink", !.msg = m]
  <2>1. r \in CallerStates /\ r.pc = "unlink" /\ r.msg = m
    <3>1. m \in Nat
      BY BoundsAssumption
    <3> QED
      BY <3>1 DEF Resting, NoPeer, CallerStates, CallerRecords, Entities, Outs
  <2>2. caller' = [caller EXCEPT ![c] = r] /\ messages' = [messages EXCEPT ![m] = NoMsg]
    BY <1>3 DEF DeleteMessage
  <2> HIDE DEF r
  <2>3. /\ caller' \in [Callers -> CallerStates]
        /\ caller'[c] = r
        /\ \A d \in Callers : d # c => caller'[d] = caller[d]
    BY <2>1, <2>2 DEF Inv, Shape
  <2>4. NoMsg \in MessageRows
    BY DEF NoMsg, MessageRows
  <2>5. Shape'
    BY <1>1, <2>2, <2>3, <2>4 DEF Inv, Shape, peerVars
  <2>6. \A k \in 1 .. MaxMsgs : k # m => messages'[k] = messages[k]
    BY <2>2 DEF Inv, Shape
  <2>7. RecipientsHaveMessage'
    BY <1>1, <2>1, <2>3, <2>6 DEF Inv, Shape, RecipientsHaveMessage, Ready
  <2>8. BetweenStatements' /\ TrustLasts'
    BY <1>1, <2>1, <2>3, PeersStay DEF peerVars
  <2> QED
    BY <2>5, <2>7, <2>8 DEF Inv
<1> QED
  BY <1>2, <1>3

\* The second statement of a delete removes what the first left over.
LEMMA UnlinkKeeps ==
    ASSUME Inv, NEW c \in Callers, Unlink(c)
    PROVE  Inv'
<1> USE DEF Unlink
<1>1. /\ caller' \in [Callers -> CallerStates]
      /\ caller'[c].pc = "idle"
      /\ \A d \in Callers : d # c => caller'[d] = caller[d]
  BY AnswerLeaves DEF Inv, Outs
<1>2. Shape'
  BY <1>1 DEF Inv, Shape, peerVars
<1>3. RecipientsHaveMessage'
  BY <1>1 DEF Inv, RecipientsHaveMessage
<1>4. BetweenStatements' /\ TrustLasts'
  BY <1>1, PeersStay DEF peerVars
<1> QED
  BY <1>2, <1>3, <1>4 DEF Inv

\* A call that stops between its statements leaves a record of the recipients
\* it did not remove.
LEMMA RefusedKeeps ==
    ASSUME Inv, NEW c \in Callers, Refused(c)
    PROVE  Inv'
<1> USE DEF Refused
<1> DEFINE o == IF caller[c].pc = "unlink" THEN "ok" ELSE "internal"
<1>1. /\ caller' \in [Callers -> CallerStates]
      /\ caller'[c].pc = "idle"
      /\ \A d \in Callers : d # c => caller'[d] = caller[d]
  <2>1. o \in Outs /\ Answer(c, o)
    BY DEF Outs
  <2> QED
    BY <2>1, AnswerLeaves DEF Inv
<1>2. Shape'
  BY <1>1 DEF Inv, Shape, peerVars
<1>3. RecipientsHaveMessage'
  <2> SUFFICES ASSUME NEW r \in recipients
               PROVE  \/ messages[r[1]] # NoMsg
                      \/ r[1] \in cut'
                      \/ \E d \in Callers : caller'[d].pc = "unlink" /\ caller'[d].msg = r[1]
    BY DEF RecipientsHaveMessage
  <2>1. CASE caller[c].pc = "unlink"
    BY <1>1, <2>1 DEF Inv, RecipientsHaveMessage
  <2>2. CASE caller[c].pc # "unlink"
    BY <1>1, <2>2 DEF Inv, RecipientsHaveMessage
  <2> QED
    BY <2>1, <2>2
<1>4. BetweenStatements' /\ TrustLasts'
  BY <1>1, PeersStay DEF peerVars
<1> QED
  BY <1>2, <1>3, <1>4 DEF Inv

\* The calls that only read.
LEMMA ReadsKeep ==
    ASSUME Inv, NEW c \in Callers,
           \/ ListAll(c) \/ ListTrusted(c)
           \/ \E f \in Fps : IsTrusted(c, f) \/ ListForRecipient(c, f)
           \/ \E m \in 1 .. MaxMsgs : GetMessage(c, m)
    PROVE  Inv'
<1>1. ids \in Nat
  BY DEF Inv, Shape
<1>2. \A m \in 1 .. MaxMsgs : messages[m].json \in States \union {"none"}
  BY DEF Inv, Shape, MessageRows
<1>3. \E o \in Outs : Ready(c) /\ Answer(c, o) /\ UNCHANGED <<peerVars, msgVars>>
  <2>1. CASE ListAll(c) \/ ListTrusted(c)
    BY <2>1 DEF ListAll, ListTrusted, Outs
  <2>2. CASE \E f \in Fps : IsTrusted(c, f) \/ ListForRecipient(c, f)
    BY <2>2 DEF IsTrusted, ListForRecipient, Outs
  <2>3. CASE \E m \in 1 .. MaxMsgs : GetMessage(c, m)
    BY <1>2, <2>3 DEF GetMessage, StateRead, Outs
  <2> QED
    BY <2>1, <2>2, <2>3
<1> QED
  BY <1>1, <1>3, AnswerKeeps DEF peerVars

-----------------------------------------------------------------------------
\* The invariant holds in every reachable state.
THEOREM RepositoriesInvariant == Spec => []Inv
<1>1. Init => Inv
  <2> SUFFICES ASSUME Init PROVE Inv
    OBVIOUS
  <2> USE DEF Init
  <2>1. Resting \in CallerStates /\ Resting.pc = "idle"
    BY DEF Resting, NoPeer, CallerStates, CallerRecords, Entities, Outs
  <2>2. NoRow \in Rows /\ NoMsg \in MessageRows
    BY DEF NoRow, Rows, NoMsg, MessageRows
  <2>3. Shape
    BY <2>1, <2>2 DEF Shape
  <2>4. BetweenStatements
    BY <2>1 DEF BetweenStatements
  <2>5. TrustLasts /\ RecipientsHaveMessage
    BY DEF TrustLasts, RecipientsHaveMessage
  <2> QED
    BY <2>3, <2>4, <2>5 DEF Inv
<1>2. Inv /\ [Next]_vars => Inv'
  <2> SUFFICES ASSUME Inv, [Next]_vars PROVE Inv'
    OBVIOUS
  <2>1. CASE UNCHANGED vars
    BY <2>1 DEF vars, peerVars, msgVars, Inv, Shape, BetweenStatements, Exists, TrustLasts,
                RecipientsHaveMessage
  <2>2. CASE Next
    BY <2>2, InsertKeeps, GetKeeps, UpdateKeeps, DeleteKeeps, TrustKeeps, TrustInsertKeeps,
       InsertMessageKeeps, UpdateStateKeeps, DeleteMessageKeeps, UnlinkKeeps, RefusedKeeps,
       ReadsKeep DEF Next
  <2> QED
    BY <2>1, <2>2
<1> QED
  BY <1>1, <1>2, PTL DEF Spec

\* A trust decision answered Ok lasts as long as the row, unless the peer was
\* inserted between the two statements of add_trusted.
THEOREM TrustIsKept == Spec => []TrustLasts
<1>1. Inv => TrustLasts
  BY DEF Inv
<1> QED
  BY <1>1, RepositoriesInvariant, PTL

\* Recipients outlive their message only while a delete is half way or after it
\* stopped there.
THEOREM NoStrayRecipients == Spec => []RecipientsHaveMessage
<1>1. Inv => RecipientsHaveMessage
  BY DEF Inv
<1> QED
  BY <1>1, RepositoriesInvariant, PTL

\* A row that can be read back stays readable until it is deleted.
THEOREM ReadableRowsStay == Spec => ReadableStays
<1> DEFINE Stays == \A f \in Fps : peers[f].readable => peers'[f].readable \/ peers'[f] = NoRow
<1>1. Inv /\ [Next]_vars => [Stays]_vars
  <2> SUFFICES ASSUME Inv, Next, NEW f \in Fps, peers[f].readable
               PROVE  peers'[f].readable \/ peers'[f] = NoRow
    OBVIOUS
  <2>1. Exists(f)
    BY DEF Inv, Shape, Exists, NoRow
  <2>2. PICK c \in Callers :
          \/ Update(c) \/ Delete(c) \/ TrustInsert(c)
          \/ \E g \in Fps : Insert(c, g) \/ Trust(c, g)
          \/ UNCHANGED peers
    BY DEF Next, ListAll, ListTrusted, Refused, InsertMessage, Unlink, Get, IsTrusted,
           ListForRecipient, UpdateState, GetMessage, DeleteMessage, peerVars
  <2>3. CASE Update(c)
    BY <2>3 DEF Update, Inv, Shape, Rows
  <2>4. CASE Delete(c)
    BY <2>4 DEF Delete
  <2>5. CASE TrustInsert(c)
    BY <2>1, <2>5 DEF TrustInsert, Inv, Shape
  <2>6. CASE \E g \in Fps : Insert(c, g)
    BY <2>1, <2>6 DEF Insert, Inv, Shape
  <2>7. CASE \E g \in Fps : Trust(c, g)
    BY <2>7 DEF Trust, Inv, Shape, Rows
  <2> QED
    BY <2>2, <2>3, <2>4, <2>5, <2>6, <2>7
<1> QED
  BY <1>1, RepositoriesInvariant, PTL DEF Spec, ReadableStays
=============================================================================
