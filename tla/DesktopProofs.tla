---------------------------- MODULE DesktopProofs ----------------------------
(***************************************************************************)
(* Proofs about the desktop program: about Services, for any number of     *)
(* concurrent resets, identities, messages and crashes, and about Ui, for  *)
(* any peers, timeouts and number of commands and drain tasks.             *)
(*                                                                         *)
(* IdentityDurable speaks of a program at rest.  To be inductive it needs  *)
(* to know what holds while a reset is between its save and its swap: the  *)
(* disk already has the identity that it will put in memory, no other      *)
(* reset is there as well unless the two have crossed, and no reset runs   *)
(* before bootstrap has returned, which is when bootstrap itself writes.   *)
(***************************************************************************)
EXTENDS Services, Ui, SequenceTheorems, TLAPS

ResetType ==
    reset \in [Resets -> [pc : {"idle", "save", "swap", "broadcast"}, new : Nat,
                          out : {"none", "security", "network", "ok"}]]

ResetsNeedBoot == boot # "up" => \A r \in Resets : reset[r].pc = "idle"

SwapIsStored ==
    ~crossed => \A r \in Resets : reset[r].pc = "swap" =>
        /\ disk = reset[r].new
        /\ \A q \in Resets : reset[q].pc = "swap" => q = r

NewIsStored ==
    \A r \in Resets : reset[r].pc \in {"swap", "broadcast"} => reset[r].new \in stored

Inv ==
    /\ ResetType /\ generated \in Nat
    /\ ResetsNeedBoot /\ SwapIsStored /\ NewIsStored
    /\ IdentityDurable

\* The program before its first start.
LEMMA InvInit == Init => Inv
BY DEF Init, Inv, Idle, ResetType, ResetsNeedBoot, SwapIsStored, NewIsStored, IdentityDurable

\* The end of the program, by a crash or a failed start, forgets the resets
\* and the identity in memory and nothing else.
LEMMA InvHalt ==
    ASSUME Inv, Halt
    PROVE  Inv'
BY DEF Inv, Halt, Idle, ResetType, ResetsNeedBoot, SwapIsStored, NewIsStored, IdentityDurable

\* Every step of bootstrap: no reset is running, and what is put in memory is
\* what the disk holds.
LEMMA InvBoot ==
    ASSUME Inv, BootLoad \/ BootGenerate \/ BootReturn
    PROVE  Inv'
<1>1. CASE BootLoad
  BY <1>1 DEF Inv, BootLoad, ResetType, ResetsNeedBoot, SwapIsStored, NewIsStored, IdentityDurable
<1>2. CASE BootGenerate
  BY <1>2 DEF Inv, BootGenerate, SaveIdentity, ResetType, ResetsNeedBoot, SwapIsStored,
              NewIsStored, IdentityDurable
<1>3. CASE BootReturn
  BY <1>3 DEF Inv, BootReturn, idVars, ResetType, ResetsNeedBoot, SwapIsStored, NewIsStored,
              IdentityDurable
<1> QED BY <1>1, <1>2, <1>3

\* A reset starts with an identity nobody has seen.
LEMMA InvResetGenerate ==
    ASSUME Inv, NEW r \in Resets, ResetGenerate(r)
    PROVE  Inv'
BY DEF Inv, ResetGenerate, ResetType, ResetsNeedBoot, SwapIsStored, NewIsStored, IdentityDurable

\* The save of a reset: on success it is the only one between save and swap,
\* or the two have crossed; on failure nothing has changed.
LEMMA InvResetSave ==
    ASSUME Inv, NEW r \in Resets, ResetSave(r)
    PROVE  Inv'
<1> USE DEF Inv, ResetType
<1>1. CASE Finish(r, "security") /\ UNCHANGED <<disk, stored, crossed>>
  BY <1>1 DEF ResetSave, Finish, Idle, ResetsNeedBoot, SwapIsStored, NewIsStored, IdentityDurable
<1>2. CASE /\ SaveIdentity(reset[r].new)
           /\ reset' = [reset EXCEPT ![r].pc = "swap"]
           /\ crossed' = (crossed \/ \E q \in Resets \ {r} : reset[q].pc = "swap")
  <2>1. ResetType' /\ (generated \in Nat)'
    BY <1>2 DEF ResetSave
  <2>2. ResetsNeedBoot'
    BY <1>2 DEF ResetSave, ResetsNeedBoot
  <2>3. SwapIsStored'
    BY <1>2 DEF ResetSave, SaveIdentity, SwapIsStored
  <2>4. NewIsStored'
    BY <1>2 DEF ResetSave, SaveIdentity, NewIsStored
  <2>5. IdentityDurable'
    BY <1>2 DEF ResetSave, SaveIdentity, IdentityDurable
  <2> QED BY <2>1, <2>2, <2>3, <2>4, <2>5
<1> QED BY <1>1, <1>2 DEF ResetSave

\* The swap puts in memory what the save put on the disk.
LEMMA InvResetSwap ==
    ASSUME Inv, NEW r \in Resets, ResetSwap(r)
    PROVE  Inv'
BY DEF Inv, ResetSwap, ResetType, ResetsNeedBoot, SwapIsStored, NewIsStored, IdentityDurable

\* The broadcast announces an identity that was saved.
LEMMA InvResetBroadcast ==
    ASSUME Inv, NEW r \in Resets, ResetBroadcast(r)
    PROVE  Inv'
BY DEF Inv, ResetBroadcast, Finish, Idle, ResetType, ResetsNeedBoot, SwapIsStored, NewIsStored,
       IdentityDurable

\* The receive loop leaves the identity alone.
LEMMA InvReceiver ==
    ASSUME Inv, Arrive \/ Take \/ Spin \/ Process \/ UNCHANGED vars
    PROVE  Inv'
<1>1. UNCHANGED <<boot, idVars>>
  BY DEF Arrive, Take, Spin, Process, vars
<1> QED BY <1>1 DEF Inv, idVars, ResetType, ResetsNeedBoot, SwapIsStored, NewIsStored,
                    IdentityDurable

\* Whatever fails and whenever the program stops: at rest, the identity in use
\* is the one on disk, and no identity was announced that was never stored
\* (ResetIdentityUseCase::execute and bootstrap).
THEOREM IdentitySound == Spec => []IdentityDurable
<1>1. Init => Inv BY InvInit
<1>2. Inv /\ [Next]_vars => Inv'
  <2> SUFFICES ASSUME Inv, [Next]_vars PROVE Inv' OBVIOUS
  <2>1. CASE BootLoad \/ BootGenerate \/ BootReturn BY <2>1, InvBoot
  <2>2. CASE BootFail \/ Crash BY <2>2, InvHalt DEF BootFail, Crash
  <2>3. CASE \E r \in Resets : ResetGenerate(r) \/ ResetSave(r) \/ ResetSwap(r) \/ ResetBroadcast(r)
    BY <2>3, InvResetGenerate, InvResetSave, InvResetSwap, InvResetBroadcast
  <2>4. CASE Arrive \/ Take \/ Spin \/ Process \/ UNCHANGED vars BY <2>4, InvReceiver
  <2> QED BY <2>1, <2>2, <2>3, <2>4 DEF Next
<1>3. Inv => IdentityDurable BY DEF Inv
<1> QED BY <1>1, <1>2, <1>3, PTL DEF Spec

-----------------------------------------------------------------------------
(* The user interface.                                                     *)

SettingsType == [dark : BOOLEAN, notify : BOOLEAN, timeout : Timeouts]

PeerCommand == [kind : {"SelectPeer", "SendMessage", "UntrustPeer", "TrustPeer"}, peer : Peers]
SettingsCommand == [kind : {"UpdateSettings"}, new : SettingsType]
OtherCommand == [kind : {"DiscoverPeers", "ResetIdentity", "Shutdown"}]
Command == PeerCommand \cup SettingsCommand \cup OtherCommand

\* A command of this kind is in the queue q.
HasKind(q, k) == \E i \in 1 .. Len(q) : q[i].kind = k

\* Every change of settings in q asks for w.
AllAskFor(q, w) == \A i \in 1 .. Len(q) : q[i].kind = "UpdateSettings" => q[i].new = w

\* The last choice of a peer in q, if there is one, is p.
LastChoice(q, p) ==
    \A i \in 1 .. Len(q) :
        q[i].kind = "SelectPeer" /\ (\A j \in i + 1 .. Len(q) : q[j].kind # "SelectPeer")
            => q[i].peer = p

\* The part of the type invariant that the argument needs.
UiShape ==
    /\ pc \in {"out", "sidebar", "content", "render", "shown", "exited", "ended"}
    /\ commands \in Seq(Command)
    /\ worker \in {"up", "gone"}
    /\ selected \in Peers \cup {None}
    /\ settings \in SettingsType /\ wanted \in SettingsType
    /\ stale \in BOOLEAN
    /\ pc = "shown" => /\ copy.selected \in Peers \cup {None}
                       /\ copy.settings \in SettingsType
                       /\ copy.settled \in BOOLEAN /\ copy.current \in BOOLEAN

\* What is queued leads to the user's last choice, and a copy that was made with
\* no choice queued still shows it: nothing is sent before the frame is over.
ChoiceInStep ==
    /\ LastChoice(commands, clicked)
    /\ ~HasKind(commands, "SelectPeer") => selected = clicked
    /\ pc = "shown" /\ copy.settled = TRUE =>
        ~HasKind(commands, "SelectPeer") /\ copy.selected = clicked

\* The same of the settings, as long as no change was made on an outdated copy.
SettingsInStep ==
    /\ stale = FALSE => /\ AllAskFor(commands, wanted)
                        /\ ~HasKind(commands, "UpdateSettings") => settings = wanted
    /\ pc = "shown" /\ copy.current = TRUE =>
        ~HasKind(commands, "UpdateSettings") /\ copy.settings = settings

UiInv == UiShape /\ (worker = "up" => ChoiceInStep /\ SettingsInStep)

\* What holds of a queue with one more command.
LEMMA QueueAppend ==
    ASSUME NEW q \in Seq(Command), NEW c \in Command
    PROVE  /\ Append(q, c) \in Seq(Command)
           /\ \A k : HasKind(Append(q, c), k) <=> HasKind(q, k) \/ c.kind = k
           /\ \A w : AllAskFor(Append(q, c), w)
                        <=> AllAskFor(q, w) /\ (c.kind = "UpdateSettings" => c.new = w)
           /\ c.kind = "SelectPeer" => LastChoice(Append(q, c), c.peer)
           /\ \A p : c.kind # "SelectPeer" /\ LastChoice(q, p) => LastChoice(Append(q, c), p)
<1> DEFINE r == Append(q, c)
           l == Len(q)
<1>1. l \in Nat
  BY LenProperties
<1>2. r \in Seq(Command) /\ Len(r) = l + 1 /\ (\A i \in 1 .. l : r[i] = q[i]) /\ r[l + 1] = c
  BY AppendProperties
<1> HIDE DEF r
<1>3. \A i \in 1 .. Len(r) : i \in 1 .. l \/ i = l + 1
  BY <1>1, <1>2
<1>4. l + 1 \in 1 .. Len(r) /\ \A i \in 1 .. l : i \in 1 .. Len(r) /\ l + 1 \in i + 1 .. Len(r)
  BY <1>1, <1>2
<1>5. \A k : HasKind(r, k) <=> HasKind(q, k) \/ c.kind = k
  BY <1>2, <1>3, <1>4 DEF HasKind
<1>6. \A w : AllAskFor(r, w) <=> AllAskFor(q, w) /\ (c.kind = "UpdateSettings" => c.new = w)
  BY <1>2, <1>3, <1>4 DEF AllAskFor
<1>7. ASSUME c.kind = "SelectPeer" PROVE LastChoice(r, c.peer)
  BY <1>2, <1>3, <1>4, <1>7 DEF LastChoice
<1>8. ASSUME NEW p, c.kind # "SelectPeer", LastChoice(q, p) PROVE LastChoice(r, p)
  <2>1. ASSUME NEW i \in 1 .. Len(r), r[i].kind = "SelectPeer",
               \A j \in i + 1 .. Len(r) : r[j].kind # "SelectPeer"
        PROVE  r[i].peer = p
    <3>1. i \in 1 .. l
      BY <1>2, <1>3, <1>8, <2>1
    <3>2. \A j \in i + 1 .. l : j \in i + 1 .. Len(r) /\ j \in 1 .. l
      BY <1>1, <1>2, <3>1
    <3> QED
      BY <1>2, <1>8, <2>1, <3>1, <3>2 DEF LastChoice
  <2> QED
    BY <2>1 DEF LastChoice
<1> QED
  BY <1>2, <1>5, <1>6, <1>7, <1>8 DEF r

\* What holds of a queue whose first command was taken.
LEMMA QueueTail ==
    ASSUME NEW q \in Seq(Command), q # <<>>
    PROVE  /\ Head(q) \in Command /\ Tail(q) \in Seq(Command)
           /\ \A k : HasKind(q, k) <=> HasKind(Tail(q), k) \/ Head(q).kind = k
           /\ \A w : AllAskFor(q, w)
                        <=> AllAskFor(Tail(q), w) /\ (Head(q).kind = "UpdateSettings" => Head(q).new = w)
           /\ \A p : LastChoice(q, p) =>
                /\ LastChoice(Tail(q), p)
                /\ Head(q).kind = "SelectPeer" /\ ~HasKind(Tail(q), "SelectPeer") => Head(q).peer = p
<1> DEFINE r == Tail(q)
           h == Head(q)
           l == Len(q)
<1>1. l \in Nat \ {0}
  BY EmptySeq
<1>2. /\ r \in Seq(Command) /\ Len(r) = l - 1 /\ (\A i \in 1 .. Len(r) : r[i] = q[i + 1])
      /\ h \in Command
  BY HeadTailProperties
<1>3. q[1] = h
  OBVIOUS
<1> HIDE DEF r, h
<1>4. 1 \in 1 .. l /\ \A i \in 1 .. Len(r) : i + 1 \in 1 .. l
  BY <1>1, <1>2
<1>5. \A i \in 1 .. l : i = 1 \/ (i - 1 \in 1 .. Len(r) /\ (i - 1) + 1 = i)
  BY <1>1, <1>2
<1>6. \A i \in 1 .. l : q[i] = h \/ \E j \in 1 .. Len(r) : q[i] = r[j]
  BY <1>2, <1>3, <1>5
<1>7. \A j \in 1 .. Len(r) : \E i \in 1 .. l : q[i] = r[j]
  BY <1>2, <1>4
<1>8. \A k : HasKind(q, k) <=> HasKind(r, k) \/ h.kind = k
  BY <1>3, <1>4, <1>6, <1>7 DEF HasKind
<1>9. \A w : AllAskFor(q, w) <=> AllAskFor(r, w) /\ (h.kind = "UpdateSettings" => h.new = w)
  BY <1>3, <1>4, <1>6, <1>7 DEF AllAskFor
<1>10. ASSUME NEW p, LastChoice(q, p) PROVE LastChoice(r, p)
  <2>1. ASSUME NEW i \in 1 .. Len(r), r[i].kind = "SelectPeer",
               \A j \in i + 1 .. Len(r) : r[j].kind # "SelectPeer"
        PROVE  r[i].peer = p
    <3>1. i + 1 \in 1 .. l /\ q[i + 1] = r[i]
      BY <1>2, <1>4
    <3>2. \A j \in (i + 1) + 1 .. l : /\ j - 1 \in i + 1 .. Len(r) /\ j - 1 \in 1 .. Len(r)
                                      /\ (j - 1) + 1 = j
      BY <1>1, <1>2
    <3>3. ASSUME NEW j \in (i + 1) + 1 .. l PROVE q[j].kind # "SelectPeer"
      <4>1. q[j] = r[j - 1]
        BY <1>2, <3>2
      <4> QED
        BY <2>1, <3>2, <4>1
    <3> QED
      BY <1>10, <2>1, <3>1, <3>3 DEF LastChoice
  <2> QED
    BY <2>1 DEF LastChoice
<1>11. ASSUME NEW p, LastChoice(q, p), h.kind = "SelectPeer", ~HasKind(r, "SelectPeer")
       PROVE  h.peer = p
  <2>1. ASSUME NEW j \in 1 + 1 .. l PROVE q[j].kind # "SelectPeer"
    <3>1. j - 1 \in 1 .. Len(r) /\ (j - 1) + 1 = j
      BY <1>1, <1>2
    <3>2. q[j] = r[j - 1]
      BY <1>2, <3>1
    <3> QED
      BY <1>11, <3>1, <3>2 DEF HasKind
  <2> QED
    BY <1>3, <1>4, <1>11, <2>1 DEF LastChoice
<1> QED
  BY <1>2, <1>8, <1>9, <1>10, <1>11 DEF r, h

\* A step that leaves the state, the queue and the history alone and shows
\* nothing new keeps the invariant.
LEMMA UiFrame ==
    ASSUME UiInv, UNCHANGED <<commands, worker, selected, settings, wanted, clicked, stale>>,
           pc' \in {"out", "sidebar", "content", "render", "exited"} \/ UNCHANGED <<pc, copy>>
    PROVE  UiInv'
<1>1. UiShape'
  BY DEF UiInv, UiShape
<1>2. worker = "up" => ChoiceInStep' /\ SettingsInStep'
  BY DEF UiInv, ChoiceInStep, SettingsInStep
<1> QED
  BY <1>1, <1>2 DEF UiInv

\* So does a command that chooses no peer and changes no setting.
LEMMA SendKeeps ==
    ASSUME UiInv, NEW c \in Command, c.kind \notin {"SelectPeer", "UpdateSettings"},
           commands' = IF worker = "up" THEN Append(commands, c) ELSE commands,
           UNCHANGED <<worker, selected, settings, wanted, clicked, stale>>,
           pc' \in {"out", "exited"}
    PROVE  UiInv'
<1>1. commands \in Seq(Command)
  BY DEF UiInv, UiShape
<1>2. commands' \in Seq(Command)
  BY <1>1, QueueAppend
<1>3. UiShape'
  BY <1>2 DEF UiInv, UiShape
<1>4. ASSUME worker = "up" PROVE ChoiceInStep' /\ SettingsInStep'
  <2>1. commands' = Append(commands, c)
    BY <1>4
  <2>2. ChoiceInStep'
    BY <1>1, <1>4, <2>1, QueueAppend DEF UiInv, ChoiceInStep
  <2>3. SettingsInStep'
    BY <1>1, <1>4, <2>1, QueueAppend DEF UiInv, SettingsInStep
  <2> QED
    BY <2>2, <2>3
<1> QED
  BY <1>3, <1>4 DEF UiInv

\* The copy a screen makes is in step with what it copies.
LEMMA RenderKeeps ==
    ASSUME UiInv, Render
    PROVE  UiInv'
<1>1. /\ pc' = "shown" /\ copy' = Copy
      /\ UNCHANGED <<commands, worker, selected, settings, wanted, clicked, stale>>
  BY DEF Render, stateVars, history
<1>2. /\ copy'.selected = selected /\ copy'.settings = settings
      /\ copy'.settled = ~HasKind(commands, "SelectPeer")
      /\ copy'.current = ~HasKind(commands, "UpdateSettings")
  BY <1>1 DEF Copy, Queued, HasKind
<1>3. UiShape'
  BY <1>1, <1>2 DEF UiInv, UiShape
<1>4. ASSUME worker = "up" PROVE ChoiceInStep' /\ SettingsInStep'
  <2>1. ChoiceInStep'
    BY <1>1, <1>2, <1>4 DEF UiInv, ChoiceInStep
  <2>2. SettingsInStep'
    BY <1>1, <1>2, <1>4 DEF UiInv, SettingsInStep
  <2> QED
    BY <2>1, <2>2
<1> QED
  BY <1>1, <1>3, <1>4 DEF UiInv

\* A choice of a peer is the last one in the queue.
LEMMA ClickPeerKeeps ==
    ASSUME UiInv, NEW p \in Peers, ClickPeer(p)
    PROVE  UiInv'
<1> DEFINE c == [kind |-> "SelectPeer", peer |-> p]
<1>1. /\ commands' = IF worker = "up" THEN Append(commands, c) ELSE commands
      /\ clicked' = p /\ pc' = "out"
      /\ UNCHANGED <<worker, selected, settings, wanted, stale>>
  BY DEF ClickPeer, SendCommand, EndFrame
<1>2. c \in Command /\ c.kind = "SelectPeer" /\ c.peer = p
  BY DEF Command, PeerCommand
<1> HIDE DEF c
<1>3. commands \in Seq(Command)
  BY DEF UiInv, UiShape
<1>4. commands' \in Seq(Command)
  BY <1>1, <1>2, <1>3, QueueAppend
<1>5. UiShape'
  BY <1>1, <1>4 DEF UiInv, UiShape
<1>6. ASSUME worker = "up" PROVE ChoiceInStep' /\ SettingsInStep'
  <2>1. commands' = Append(commands, c)
    BY <1>1, <1>6
  <2>2. ChoiceInStep'
    BY <1>1, <1>2, <1>3, <2>1, QueueAppend DEF ChoiceInStep
  <2>3. SettingsInStep'
    BY <1>1, <1>2, <1>3, <1>6, <2>1, QueueAppend DEF UiInv, SettingsInStep
  <2> QED
    BY <2>2, <2>3
<1> QED
  BY <1>1, <1>5, <1>6 DEF UiInv

\* A change made on a copy that is not outdated asks for what the user wants.
LEMMA ChangeSettingKeeps ==
    ASSUME UiInv, ChangeSetting
    PROVE  UiInv'
<1> DEFINE Asks(new) == /\ new \in SettingsType /\ wanted' \in SettingsType
                        /\ copy.settings = wanted => new = wanted'
                        /\ SendCommand([kind |-> "UpdateSettings", new |-> new])
<1>1. /\ pc = "shown" /\ pc' = "out" /\ stale' = (stale \/ ~copy.current)
      /\ UNCHANGED <<worker, selected, settings, clicked>>
  BY DEF ChangeSetting, EndFrame
<1>2. /\ copy.settings \in SettingsType /\ wanted \in SettingsType /\ commands \in Seq(Command)
      /\ copy.current \in BOOLEAN /\ stale \in BOOLEAN
  BY <1>1 DEF UiInv, UiShape
<1>3. PICK new : Asks(new)
  <2>1. CASE /\ SendCommand([kind |-> "UpdateSettings", new |-> [copy.settings EXCEPT !.dark = ~@]])
             /\ wanted' = [wanted EXCEPT !.dark = ~copy.settings.dark]
    <3>1. Asks([copy.settings EXCEPT !.dark = ~@])
      BY <1>2, <2>1 DEF SettingsType
    <3> QED
      BY <3>1
  <2>2. CASE /\ SendCommand([kind |-> "UpdateSettings", new |-> [copy.settings EXCEPT !.notify = ~@]])
             /\ wanted' = [wanted EXCEPT !.notify = ~copy.settings.notify]
    <3>1. Asks([copy.settings EXCEPT !.notify = ~@])
      BY <1>2, <2>2 DEF SettingsType
    <3> QED
      BY <3>1
  <2>3. ASSUME NEW t \in Timeouts,
               SendCommand([kind |-> "UpdateSettings", new |-> [copy.settings EXCEPT !.timeout = t]]),
               wanted' = [wanted EXCEPT !.timeout = t]
        PROVE  \E new : Asks(new)
    <3>1. Asks([copy.settings EXCEPT !.timeout = t])
      BY <1>2, <2>3 DEF SettingsType
    <3> QED
      BY <3>1
  <2> QED
    BY <2>1, <2>2, <2>3 DEF ChangeSetting
<1> DEFINE c == [kind |-> "UpdateSettings", new |-> new]
<1>4. commands' = IF worker = "up" THEN Append(commands, c) ELSE commands
  BY <1>3 DEF SendCommand
<1>5. c \in Command /\ c.kind = "UpdateSettings" /\ c.new = new
  BY <1>3 DEF Command, SettingsCommand
<1> HIDE DEF c
<1>6. commands' \in Seq(Command)
  BY <1>2, <1>4, <1>5, QueueAppend
<1>7. UiShape'
  BY <1>1, <1>2, <1>3, <1>6 DEF UiInv, UiShape
<1>8. ASSUME worker = "up" PROVE ChoiceInStep' /\ SettingsInStep'
  <2>1. commands' = Append(commands, c)
    BY <1>4, <1>8
  <2>2. ChoiceInStep'
    BY <1>1, <1>2, <1>5, <1>8, <2>1, QueueAppend DEF UiInv, ChoiceInStep
  <2>3. ASSUME stale' = FALSE PROVE AllAskFor(commands', wanted')
    <3>1. stale = FALSE /\ copy.current = TRUE
      BY <1>1, <1>2, <2>3
    <3>2. ~HasKind(commands, "UpdateSettings") /\ copy.settings = settings /\ settings = wanted
      BY <1>1, <1>8, <3>1 DEF UiInv, SettingsInStep
    <3>3. new = wanted'
      BY <1>3, <3>2
    <3>4. AllAskFor(commands, wanted')
      BY <3>2 DEF AllAskFor, HasKind
    <3> QED
      BY <1>2, <1>5, <2>1, <3>3, <3>4, QueueAppend
  <2>4. HasKind(commands', "UpdateSettings")
    BY <1>2, <1>5, <2>1, QueueAppend
  <2>5. SettingsInStep'
    <3>1. stale' = FALSE => AllAskFor(commands, wanted)'
      BY <2>3 DEF AllAskFor
    <3>2. HasKind(commands, "UpdateSettings")'
      BY <2>4 DEF HasKind
    <3> QED
      BY <1>1, <3>1, <3>2 DEF SettingsInStep
  <2> QED
    BY <2>2, <2>5
<1> QED
  BY <1>1, <1>7, <1>8 DEF UiInv

\* The worker applies the commands in the order they were sent.
LEMMA HandleKeeps ==
    ASSUME UiInv, Handle
    PROVE  UiInv'
<1> DEFINE c == Head(commands)
<1>1. /\ worker = "up" /\ commands # <<>> /\ Apply(c)
      /\ worker' = IF c.kind = "Shutdown" THEN "gone" ELSE "up"
      /\ commands' = IF c.kind = "Shutdown" THEN <<>> ELSE Tail(commands)
      /\ UNCHANGED <<pc, copy, clicked, wanted, stale>>
  BY DEF Handle, thread, history
<1>2. commands \in Seq(Command) /\ ChoiceInStep /\ SettingsInStep
  BY <1>1 DEF UiInv, UiShape
<1>3. c \in Command /\ Tail(commands) \in Seq(Command)
  BY <1>1, <1>2, QueueTail
<1>4. c.kind = "SelectPeer" => c.peer \in Peers
  BY <1>3 DEF Command, PeerCommand, SettingsCommand, OtherCommand
<1>5. c.kind = "UpdateSettings" => c.new \in SettingsType
  BY <1>3 DEF Command, PeerCommand, SettingsCommand, OtherCommand
<1> HIDE DEF c
<1>6. /\ selected' = IF c.kind = "SelectPeer" THEN c.peer ELSE selected
      /\ settings' = IF c.kind = "UpdateSettings" THEN c.new ELSE settings
  BY <1>1 DEF Apply
<1>7. commands' \in Seq(Command)
  BY <1>1, <1>3, EmptySeq
<1>8. UiShape'
  BY <1>1, <1>4, <1>5, <1>6, <1>7 DEF UiInv, UiShape
<1>9. ASSUME c.kind # "Shutdown" PROVE ChoiceInStep' /\ SettingsInStep'
  <2>1. commands' = Tail(commands)
    BY <1>1, <1>9
  <2>2. /\ \A k : HasKind(commands, k) <=> HasKind(commands', k) \/ c.kind = k
        /\ \A w : AllAskFor(commands, w)
                     <=> AllAskFor(commands', w) /\ (c.kind = "UpdateSettings" => c.new = w)
        /\ \A p : LastChoice(commands, p) =>
             /\ LastChoice(commands', p)
             /\ c.kind = "SelectPeer" /\ ~HasKind(commands', "SelectPeer") => c.peer = p
    BY <1>1, <1>2, <2>1, QueueTail DEF c
  <2>3. ChoiceInStep'
    BY <1>1, <1>2, <1>6, <2>2 DEF ChoiceInStep
  <2>4. SettingsInStep'
    BY <1>1, <1>2, <1>6, <2>2 DEF SettingsInStep
  <2> QED
    BY <2>3, <2>4
<1> QED
  BY <1>1, <1>8, <1>9 DEF UiInv

\* What the worker will have applied is what the user asked for, in every
\* reachable state of the egui thread, the worker and the drain tasks.
THEOREM UiInvariant == UiSpec => []UiInv
<1>1. UiInit => UiInv
  <2> SUFFICES ASSUME UiInit PROVE UiInv
    OBVIOUS
  <2> USE DEF UiInit
  <2>1. settings \in SettingsType /\ wanted \in SettingsType
    BY TimeoutsAssumption DEF SettingsType
  <2>2. commands \in Seq(Command) /\ 1 .. Len(commands) = {}
    BY EmptySeq
  <2>3. UiShape
    BY <2>1, <2>2 DEF UiShape
  <2>4. ChoiceInStep /\ SettingsInStep
    BY <2>2 DEF ChoiceInStep, SettingsInStep, HasKind, AllAskFor, LastChoice
  <2> QED
    BY <2>3, <2>4 DEF UiInv
<1>2. UiInv /\ [UiNext]_uiVars => UiInv'
  <2> SUFFICES ASSUME UiInv, [UiNext]_uiVars PROVE UiInv'
    OBVIOUS
  <2>1. CASE Frame \/ Sidebar \/ RenderContent \/ DrainLock \/ DrainTake \/ UNCHANGED uiVars
    BY <2>1, UiFrame DEF Frame, Sidebar, RenderContent, DrainLock, DrainTake, uiVars, stateVars,
                         thread, history
  <2>2. CASE Nothing
    BY <2>2, UiFrame DEF Nothing, EndFrame, history
  <2>3. CASE Discover
    <3>1. [kind |-> "DiscoverPeers"] \in Command
      BY DEF Command, OtherCommand
    <3> QED
      BY <2>3, <3>1, SendKeeps DEF Discover, SendCommand, EndFrame, history
  <2>4. CASE ChatInput
    <3>1. pc = "shown" /\ pc' = "out" /\ UNCHANGED <<worker, selected, settings, wanted, clicked, stale>>
      BY <2>4 DEF ChatInput, EndFrame, history
    <3>2. CASE commands' = commands
      BY <3>1, <3>2, UiFrame
    <3>3. CASE copy.selected # None /\ SendCommand([kind |-> "SendMessage", peer |-> copy.selected])
      <4>1. copy.selected \in Peers
        BY <3>1, <3>3 DEF UiInv, UiShape
      <4>2. [kind |-> "SendMessage", peer |-> copy.selected] \in Command
        BY <4>1 DEF Command, PeerCommand
      <4> QED
        BY <3>1, <3>3, <4>2, SendKeeps DEF SendCommand
    <3> QED
      BY <2>4, <3>2, <3>3 DEF ChatInput
  <2>5. CASE ProfileClick
    <3>1. pc' = "out" /\ UNCHANGED <<worker, selected, settings, wanted, clicked, stale>>
      BY <2>5 DEF ProfileClick, EndFrame, history
    <3>2. [kind |-> "ResetIdentity"] \in Command
      BY DEF Command, OtherCommand
    <3>3. \A p \in Peers : /\ [kind |-> "UntrustPeer", peer |-> p] \in Command
                           /\ [kind |-> "TrustPeer", peer |-> p] \in Command
      BY DEF Command, PeerCommand
    <3>4. CASE SendCommand([kind |-> "ResetIdentity"])
      BY <3>1, <3>2, <3>4, SendKeeps DEF SendCommand
    <3>5. ASSUME NEW p \in Verified, SendCommand([kind |-> "UntrustPeer", peer |-> p]) PROVE UiInv'
      BY <3>1, <3>3, <3>5, SendKeeps, PeersAssumption DEF SendCommand
    <3>6. ASSUME NEW p \in Peers, SendCommand([kind |-> "TrustPeer", peer |-> p]) PROVE UiInv'
      BY <3>1, <3>3, <3>6, SendKeeps DEF SendCommand
    <3> QED
      BY <2>5, <3>4, <3>5, <3>6 DEF ProfileClick
  <2>6. CASE OnExit
    <3>1. [kind |-> "Shutdown"] \in Command
      BY DEF Command, OtherCommand
    <3> QED
      BY <2>6, <3>1, SendKeeps DEF OnExit, stateVars, history
  <2>7. CASE RuntimeDropped
    <3>1. /\ pc' = "ended" /\ worker' = "gone" /\ commands' = <<>>
          /\ UNCHANGED <<selected, settings, wanted, clicked, stale>>
      BY <2>7 DEF RuntimeDropped, stateVars, history
    <3>2. UiShape'
      BY <3>1, EmptySeq DEF UiInv, UiShape
    <3> QED
      BY <3>1, <3>2 DEF UiInv
  <2> QED
    BY <2>1, <2>2, <2>3, <2>4, <2>5, <2>6, <2>7, RenderKeeps, ClickPeerKeeps, ChangeSettingKeeps,
       HandleKeeps DEF UiNext
<1> QED
  BY <1>1, <1>2, PTL DEF UiSpec

\* The handler of UpdateSettings leaves the settings the user asked for, unless
\* the settings screen changed a copy while another change was queued.
THEOREM SettingsAreKept == UiSpec => []SettingsKept
<1>1. UiInv => SettingsKept
  BY DEF UiInv, UiShape, SettingsInStep, SettingsKept, Queued, HasKind
<1> QED
  BY <1>1, UiInvariant, PTL

\* A queue with one more command ends in that command, and is longer.
LEMMA LastIsAppended ==
    ASSUME UiInv, NEW c \in Command, commands' = IF worker = "up" THEN Append(commands, c) ELSE commands,
           Len(commands') > Len(commands)
    PROVE  worker = "up" /\ commands'[Len(commands')] = c
<1>1. commands \in Seq(Command)
  BY DEF UiInv, UiShape
<1>2. Len(commands) \in Nat
  BY <1>1, LenProperties
<1>3. worker = "up" /\ commands' = Append(commands, c)
  BY <1>2
<1>4. Len(commands') = Len(commands) + 1 /\ commands'[Len(commands) + 1] = c
  BY <1>1, <1>3, AppendProperties
<1> QED
  BY <1>3, <1>4

\* The chat screen sends to the peer chosen last, unless its copy of the state
\* was made while the choice was still queued.
THEOREM MessagesGoToChosen == UiSpec => SendsGoToChosen
<1> DEFINE last == commands'[Len(commands')]
<1>1. ASSUME UiInv, UiNext, Len(commands') > Len(commands), last.kind = "SendMessage", copy.settled
      PROVE  last.peer = clicked
  <2>1. commands \in Seq(Command) /\ Len(commands) \in Nat
    BY <1>1, LenProperties DEF UiInv, UiShape
  <2>2. commands' # commands
    BY <1>1, <2>1
  <2>3. ASSUME NEW c \in Command, SendCommand(c), c.kind # "SendMessage" PROVE FALSE
    BY <1>1, <2>3, LastIsAppended DEF SendCommand
  <2>4. CASE ChatInput
    <3>1. pc = "shown" /\ copy.selected # None /\ SendCommand([kind |-> "SendMessage", peer |-> copy.selected])
      BY <2>2, <2>4 DEF ChatInput
    <3>2. copy.selected \in Peers
      BY <1>1, <3>1 DEF UiInv, UiShape
    <3>3. [kind |-> "SendMessage", peer |-> copy.selected] \in Command
      BY <3>2 DEF Command, PeerCommand
    <3>4. worker = "up" /\ last = [kind |-> "SendMessage", peer |-> copy.selected]
      BY <1>1, <3>1, <3>3, LastIsAppended DEF SendCommand
    <3>5. copy.settled = TRUE
      BY <1>1, <3>1 DEF UiInv, UiShape
    <3>6. copy.selected = clicked
      BY <1>1, <3>1, <3>4, <3>5 DEF UiInv, ChoiceInStep
    <3> QED
      BY <3>4, <3>6
  <2>5. CASE Handle \/ RuntimeDropped
    <3>1. \/ commands' = <<>>
          \/ commands # <<>> /\ commands' = Tail(commands)
      BY <2>5 DEF Handle, RuntimeDropped
    <3>2. Len(commands') <= Len(commands)
      BY <2>1, <3>1, EmptySeq, HeadTailProperties
    <3> QED
      BY <1>1, <2>1, <3>2
  <2>6. CASE Frame \/ Sidebar \/ RenderContent \/ Render \/ Nothing \/ DrainLock \/ DrainTake
    BY <2>2, <2>6 DEF Frame, Sidebar, RenderContent, Render, Nothing, DrainLock, DrainTake
  <2>7. ASSUME NEW p \in Peers, ClickPeer(p) PROVE FALSE
    <3>1. [kind |-> "SelectPeer", peer |-> p] \in Command
      BY DEF Command, PeerCommand
    <3> QED
      BY <2>3, <2>7, <3>1 DEF ClickPeer
  <2>8. CASE Discover
    <3>1. [kind |-> "DiscoverPeers"] \in Command
      BY DEF Command, OtherCommand
    <3> QED
      BY <2>3, <2>8, <3>1 DEF Discover
  <2>9. CASE ProfileClick
    <3>1. [kind |-> "ResetIdentity"] \in Command
      BY DEF Command, OtherCommand
    <3>2. \A p \in Peers : /\ [kind |-> "UntrustPeer", peer |-> p] \in Command
                           /\ [kind |-> "TrustPeer", peer |-> p] \in Command
      BY DEF Command, PeerCommand
    <3> QED
      BY <2>3, <2>9, <3>1, <3>2, PeersAssumption DEF ProfileClick
  <2>10. CASE ChangeSetting
    <3>1. PICK new \in SettingsType : SendCommand([kind |-> "UpdateSettings", new |-> new])
      <4>1. copy.settings \in SettingsType
        BY <1>1, <2>10 DEF ChangeSetting, UiInv, UiShape
      <4>2. /\ [copy.settings EXCEPT !.dark = ~@] \in SettingsType
            /\ [copy.settings EXCEPT !.notify = ~@] \in SettingsType
            /\ \A t \in Timeouts : [copy.settings EXCEPT !.timeout = t] \in SettingsType
        BY <4>1 DEF SettingsType
      <4> QED
        BY <2>10, <4>2 DEF ChangeSetting
    <3>2. [kind |-> "UpdateSettings", new |-> new] \in Command
      BY DEF Command, SettingsCommand
    <3> QED
      BY <2>3, <3>1, <3>2
  <2>11. CASE OnExit
    <3>1. [kind |-> "Shutdown"] \in Command
      BY DEF Command, OtherCommand
    <3>2. last = [kind |-> "Shutdown"]
      BY <1>1, <2>11, <3>1, LastIsAppended DEF OnExit
    <3> QED
      BY <1>1, <3>2
  <2> QED
    BY <1>1, <2>4, <2>5, <2>6, <2>7, <2>8, <2>9, <2>10, <2>11 DEF UiNext
<1>2. UiInv /\ [UiNext]_uiVars =>
        [Len(commands') > Len(commands) /\ last.kind = "SendMessage" /\ copy.settled
            => last.peer = clicked]_uiVars
  BY <1>1
<1> QED
  BY <1>2, UiInvariant, PTL DEF UiSpec, SendsGoToChosen
=============================================================================
