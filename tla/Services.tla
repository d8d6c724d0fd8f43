------------------------------ MODULE Services ------------------------------
(***************************************************************************)
(* The desktop program from start to crash: bootstrap with the local       *)
(* identity it loads or makes, the background receiver it spawns, and the  *)
(* reset-identity use case, several calls of which may run at once.        *)
(*                                                                         *)
(* Identities are numbered in the order they are generated.  Every port    *)
(* may fail.  save_identity replaces what is stored or fails and leaves it *)
(* (SecureStore).  An incoming message is the fate the ports have ready    *)
(* for it.                                                                 *)
(***************************************************************************)
EXTENDS Naturals, Sequences

CONSTANTS
    Resets,         \* concurrent callers of ResetIdentityUseCase::execute
    MaxIdentities,  \* bound on identities generated
    MaxMessages,    \* bound on incoming messages
    MaxCrashes      \* bound on crashes

ASSUME BoundsAssumption == MaxIdentities \in Nat /\ MaxMessages \in Nat /\ MaxCrashes \in Nat

VARIABLES
    boot,        \* where bootstrap is; "up" once it has returned a controller
    disk,        \* the stored identity, 0 when there is none
    mem,         \* the identity in Arc<RwLock<Identity>>, 0 before bootstrap set it
    generated,   \* number of identities generated
    presence,    \* the identity last broadcast to the LAN, 0 if none
    reset,       \* what every caller of the reset is doing
    receiver,    \* where the receive loop is
    queue,       \* incoming messages not yet taken
    arrived,     \* number of messages that arrived
    spinning,    \* the loop has gone round on a closed shutdown channel
    crashes,     \* number of crashes so far
    crossed,     \* history: two resets were between save and swap at once
    stored       \* history: identities that were on disk

idVars == <<disk, mem, generated, presence, reset, crossed, stored>>
recvVars == <<receiver, queue, arrived, spinning>>
vars == <<boot, idVars, recvVars, crashes>>

(* What the ports answer about a message: an error of the store, a sender  *)
(* unknown to it, one that is not trusted (or whose trust cannot be read), *)
(* a ciphertext that does not decrypt, or nothing amiss.                   *)
Fates == {"store_error", "unknown", "untrusted", "undecryptable", "good"}
Ids == 1..MaxIdentities
Idle == [pc |-> "idle", new |-> 0, out |-> "none"]

Init ==
    /\ boot = "off" /\ disk = 0 /\ mem = 0 /\ generated = 0 /\ presence = 0
    /\ reset = [r \in Resets |-> Idle]
    /\ receiver = [pc |-> "off", msg |-> "none"] /\ queue = <<>> /\ arrived = 0 /\ spinning = FALSE
    /\ crashes = 0 /\ crossed = FALSE /\ stored = {}

(* Put identity n in secure storage. *)
SaveIdentity(n) == disk' = n /\ stored' = stored \union {n}

(* The program ends: all but the disk, and the history, is gone. *)
Halt ==
    /\ boot' = "off" /\ mem' = 0
    /\ reset' = [r \in Resets |-> Idle]
    /\ receiver' = [pc |-> "off", msg |-> "none"] /\ queue' = <<>> /\ spinning' = FALSE
    /\ UNCHANGED <<disk, generated, presence, arrived, crossed, stored>>

-----------------------------------------------------------------------------
(* Persistence and security come up, then the stored identity is loaded;   *)
(* any of them may fail, which ends the program.                           *)
BootLoad ==
    /\ boot = "off"
    /\ \/ disk # 0 /\ mem' = disk /\ boot' = "ports"
       \/ disk = 0 /\ mem' = 0 /\ boot' = "generate"
    /\ UNCHANGED <<disk, generated, presence, reset, crossed, stored, recvVars, crashes>>

(* No identity: one is generated, saved, and only then used. *)
BootGenerate ==
    /\ boot = "generate" /\ generated < MaxIdentities
    /\ generated' = generated + 1
    /\ SaveIdentity(generated + 1)
    /\ mem' = generated + 1
    /\ boot' = "ports"
    /\ UNCHANGED <<presence, reset, crossed, recvVars, crashes>>

(* The other ports, the use cases, and the receiver in a task of its own.  *)
(* The sender of the shutdown channel goes away when bootstrap returns.    *)
BootReturn ==
    /\ boot = "ports"
    /\ boot' = "up"
    /\ receiver' = [pc |-> "select", msg |-> "none"]
    /\ UNCHANGED <<idVars, queue, arrived, spinning, crashes>>

BootFail ==
    /\ boot \in {"generate", "ports"}
    /\ Halt
    /\ UNCHANGED crashes

Crash ==
    /\ boot # "off" /\ crashes < MaxCrashes
    /\ crashes' = crashes + 1
    /\ Halt

-----------------------------------------------------------------------------
Finish(r, o) == reset' = [reset EXCEPT ![r] = [Idle EXCEPT !.out = o]]

ResetGenerate(r) ==
    /\ boot = "up" /\ reset[r].pc = "idle" /\ generated < MaxIdentities
    /\ generated' = generated + 1
    /\ reset' = [reset EXCEPT ![r] = [pc |-> "save", new |-> generated + 1, out |-> "none"]]
    /\ UNCHANGED <<boot, disk, mem, presence, crossed, stored, recvVars, crashes>>

\* Mutant: memory before storage.
ResetSwapFirst(r) ==
    /\ reset[r].pc = "save"
    /\ mem' = reset[r].new
    /\ \/ SaveIdentity(reset[r].new) /\ reset' = [reset EXCEPT ![r].pc = "broadcast"]
       \/ Finish(r, "security") /\ UNCHANGED <<disk, stored>>
    /\ UNCHANGED <<boot, generated, presence, crossed, recvVars, crashes>>

(* Secure storage first; a failure leaves everything as it was. *)
ResetSave(r) ==
    /\ reset[r].pc = "save"
    /\ \/ /\ SaveIdentity(reset[r].new)
          /\ reset' = [reset EXCEPT ![r].pc = "swap"]
          /\ crossed' = (crossed \/ \E q \in Resets \ {r} : reset[q].pc = "swap")
       \/ Finish(r, "security") /\ UNCHANGED <<disk, stored, crossed>>
    /\ UNCHANGED <<boot, mem, generated, presence, recvVars, crashes>>

(* Then the identity in memory, under the write lock. *)
ResetSwap(r) ==
    /\ reset[r].pc = "swap"
    /\ mem' = reset[r].new
   
    /\ reset' = [reset EXCEPT ![r].pc = "broadcast"]
    /\ UNCHANGED <<boot, disk, generated, presence, crossed, stored, recvVars, crashes>>

(* Then the LAN: no connection is closed, and a failed broadcast is an     *)
(* error although the identity has changed.                                *)
ResetBroadcast(r) ==
    /\ reset[r].pc = "broadcast"
    /\ \/ presence' = reset[r].new /\ Finish(r, "ok")
       \/ Finish(r, "network") /\ UNCHANGED presence
    /\ UNCHANGED <<boot, disk, mem, generated, crossed, stored, recvVars, crashes>>

-----------------------------------------------------------------------------
(* A message from the network reaches the channel the receiver reads. *)
Arrive ==
    /\ boot = "up" /\ arrived < MaxMessages
    /\ arrived' = arrived + 1
    /\ \E f \in Fates : queue' = Append(queue, f)
    /\ UNCHANGED <<boot, idVars, receiver, spinning, crashes>>

At(pc, msg) == receiver' = [pc |-> pc, msg |-> msg]

(* The select takes a message ... *)
Take ==
    /\ receiver.pc = "select" /\ queue # <<>>
    /\ At("trust", Head(queue))
    /\ queue' = Tail(queue)
    /\ UNCHANGED <<boot, idVars, arrived, spinning, crashes>>

(* ... or finds the shutdown channel closed: changed fails at once, the    *)
(* value is still false, and the loop goes round.                          *)
Spin ==
    /\ receiver.pc = "select" /\ boot = "up"
    /\ spinning' = TRUE
    /\ UNCHANGED <<boot, idVars, receiver, queue, arrived, crashes>>

\* Mutant: an error of process ends the loop.
ProcessFatal ==
    /\ receiver.pc \in {"trust", "decrypt", "build"}
    /\ At("off", "none")
    /\ UNCHANGED <<boot, idVars, queue, arrived, spinning, crashes>>

(* process: the sender's row is loaded, its trust read, the content        *)
(* decrypted, each step ending the call with an error when it fails.  The  *)
(* message is built Pending, which mark_delivered refuses: the call ends   *)
(* with an error for a good message as well, and the loop logs it.         *)
Process ==
    /\ \/ /\ receiver.pc = "trust"
          /\ At(IF receiver.msg \in {"store_error", "unknown", "untrusted"} THEN "select" ELSE "decrypt",
                receiver.msg)
       \/ /\ receiver.pc = "decrypt"
          /\ At(IF receiver.msg = "undecryptable" THEN "select" ELSE "build", receiver.msg)
       \/ /\ receiver.pc = "build"
          /\ At("select", "none")
    /\ UNCHANGED <<boot, idVars, queue, arrived, spinning, crashes>>

Next ==
    \/ BootLoad \/ BootGenerate \/ BootReturn \/ BootFail \/ Crash
    \/ \E r \in Resets : ResetGenerate(r) \/ ResetSave(r) \/ ResetSwap(r) \/ ResetBroadcast(r)
    \/ Arrive \/ Take \/ Spin \/ Process

Fairness == WF_vars(Take) /\ WF_vars(Process)
Spec == Init /\ [][Next]_vars /\ Fairness
-----------------------------------------------------------------------------
(* The identity outlives the process.  A running program whose resets are *)
(* all complete uses the identity that is on disk, and so the one it will  *)
(* have after a restart: saving before swapping keeps the two together     *)
(* through every failure and crash, as long as two resets were never       *)
(* between save and swap at once.  And peers never learn of an identity    *)
(* that was not on disk before, which a crash could lose.                  *)
IdentityDurable ==
    /\ mem # 0 /\ ~crossed /\ (\A r \in Resets : reset[r].pc # "swap") => mem = disk
    /\ presence # 0 => presence \in stored

(* The receive loop survives every error of process: while the program     *)
(* runs, the messages that arrived are all taken in the end.               *)
MessagesTaken == (queue # <<>>) ~> (queue = <<>>)
=============================================================================
