---------------------------- MODULE SecureStore ----------------------------
(***************************************************************************)
(* The encrypted identity file (secure_store.rs), used by several          *)
(* instances of the program that share one configuration directory.        *)
(*                                                                         *)
(* A save is numbered; its number names the blob it encrypts and the inode *)
(* it creates when no temporary file exists.  An inode holds Parts pieces, *)
(* the calls of write a blob may be split into; a piece is the number of   *)
(* the blob it comes from, 0 where nothing was written.  Keys are named by *)
(* the save that first stored them.  fs::write keeps the inode it opened:  *)
(* its pieces reach that inode even after it was renamed or removed.  A    *)
(* crash ends the process, not the machine: save does not sync, so no      *)
(* order of writes on the disk is promised.                                *)
(***************************************************************************)
EXTENDS Naturals

CONSTANTS
    Procs,        \* the running instances of the program
    Passphrases,  \* what the users may type
    SavePhrases,  \* bound: the passphrases that saves use
    Parts,        \* pieces a blob is written in
    MaxSaves,     \* bound on saves
    MaxCrashes    \* bound on crashes

ASSUME PartsAssumption == Parts \in Nat \ {0}
ASSUME BoundsAssumption == MaxSaves \in Nat /\ MaxCrashes \in Nat
ASSUME PhrasesAssumption == SavePhrases \subseteq Passphrases /\ SavePhrases # {}

VARIABLES
    inodes,      \* the pieces of every inode
    enc,         \* inode at identity.enc, 0 when there is none
    tmp,         \* inode at identity.tmp, 0 when there is none
    blobs,       \* the keys and the passphrase every blob was made of
    saves,       \* number of saves begun
    proc,        \* what every instance is doing
    crashes,     \* number of crashes so far
    overlapped,  \* history: two saves were between their open and their rename
    last,        \* history: the blob of the last save that renamed
    installed    \* history: the blobs identity.enc has held whole

vars == <<inodes, enc, tmp, blobs, saves, proc, crashes, overlapped, last, installed>>
files == <<inodes, enc, tmp, blobs, saves, overlapped, last, installed>>

Ids == 1..MaxSaves
Pieces == 1..Parts
NoPieces == [i \in Pieces |-> 0]

\* The fields of an instance: pc, the keys it holds (0: none), the passphrase of
\* its call, the save it makes, the pieces it has written, its open inode, the
\* outcome of its last call, and whether it stores new keys.
Down == [pc |-> "down", held |-> 0, pass |-> CHOOSE s \in Passphrases : TRUE, blob |-> 0,
         pos |-> 0, fd |-> 0, out |-> "none", creating |-> FALSE]

Init ==
    /\ inodes = [n \in Ids |-> NoPieces]
    /\ enc = 0 /\ tmp = 0
    /\ blobs = [n \in Ids |-> [keys |-> 0, pass |-> CHOOSE s \in Passphrases : TRUE]]
    /\ saves = 0
    /\ proc = [p \in Procs |-> Down]
    /\ crashes = 0
    /\ overlapped = FALSE /\ last = 0 /\ installed = {}

(* What a file decodes to: a file that ends early is refused as truncated, *)
(* one whose first piece is a hole has version 0; pieces of two blobs, or  *)
(* the key derived from another passphrase, do not authenticate.           *)
FromBytes(f) == f[Parts] # 0
Version(f) == IF f[1] = 0 THEN 0 ELSE 1
Authentic(f) == \A i \in Pieces : f[i] = f[1] /\ f[i] # 0
DeriveKey(b, pass) == blobs[b].pass = pass

\* Mutant: the cipher does not authenticate.
DecryptUnauthenticated(f, pass) ==
    CASE ~FromBytes(f) \/ Version(f) # 1 -> "storage"
      [] FromBytes(f) /\ Version(f) = 1 /\ ~DeriveKey(f[1], pass) -> "invalid_passphrase"
      [] OTHER -> "ok"

Decrypt(f, pass) ==
    CASE ~FromBytes(f) \/ Version(f) # 1 -> "storage"
      [] FromBytes(f) /\ Version(f) = 1 /\ ~(Authentic(f) /\ DeriveKey(f[1], pass)) -> "invalid_passphrase"
      [] OTHER -> "ok"

(* The plaintext as keys; pieces of two blobs are nobody's keys. *)
KeysIn(f) == IF Authentic(f) THEN blobs[f[1]].keys ELSE 0

(* IdentityKeys::generate: keys nobody had before, named by their save. *)
Generate(n) == n

(* encrypt: blob n is made of keys k under pass, with its own salt and nonce. *)
Encrypt(k, pass, n) == [blobs EXCEPT ![n] = [keys |-> k, pass |-> pass]]

(* A call ends with outcome o; k are the keys the instance then holds. *)
Done(k, o) == [Down EXCEPT !.pc = "idle", !.held = k, !.out = o]
Fail(p, o) == proc' = [proc EXCEPT ![p] = Done(proc[p].held, o)]
Saving(q) == proc[q].pc \in {"write", "rename"}

(* new: every temporary file of the directory is taken for an orphan. *)
Open(p) ==
    /\ proc[p].pc = "down"
    /\ proc' = [proc EXCEPT ![p].pc = "idle"]
    /\ tmp' = 0
    /\ UNCHANGED <<inodes, enc, blobs, saves, crashes, overlapped, last, installed>>

(* load: the file is looked for, then read and decrypted. *)
Load(p, pass) ==
    /\ proc[p].pc = "idle"
    /\ IF enc = 0 THEN Fail(p, "not_found")
       ELSE proc' = [proc EXCEPT ![p] = [Done(proc[p].held, "none")
                                           EXCEPT !.pc = "read", !.pass = pass]]
    /\ UNCHANGED <<files, crashes>>

LoadRead(p) ==
    /\ proc[p].pc = "read"
    /\ LET o == Decrypt(inodes[enc], proc[p].pass) IN
       IF o # "ok" THEN Fail(p, o)
       ELSE proc' = [proc EXCEPT ![p].pc = "idle", ![p].out = "ok",
                                 ![p].held = KeysIn(inodes[enc])]
    /\ UNCHANGED <<files, crashes>>

(* Keys, new ones or those the instance holds, go to save. *)
StartSave(p, new, pass) ==
    proc' = [proc EXCEPT ![p] = [Done(proc[p].held, "none")
                                   EXCEPT !.pc = "save", !.pass = pass, !.creating = new]]

(* create: refused when the file exists, else new keys go to save. *)
Create(p, pass) ==
    /\ proc[p].pc = "idle" \/ (proc[p].pc = "create" /\ proc[p].pass = pass)
    /\ IF enc # 0 THEN Fail(p, "exists") ELSE StartSave(p, TRUE, pass)
    /\ UNCHANGED <<files, crashes>>

(* load_or_create looks first; create looks again. *)
LoadOrCreate(p, pass) ==
    \/ enc # 0 /\ Load(p, pass)
    \/ /\ enc = 0 /\ proc[p].pc = "idle"
       /\ proc' = [proc EXCEPT ![p] = [Done(proc[p].held, "none")
                                          EXCEPT !.pc = "create", !.pass = pass]]
       /\ UNCHANGED <<files, crashes>>

(* save called with the keys the instance holds, or with new ones. *)
Save(p, pass) ==
    /\ proc[p].pc = "idle"
    /\ \E new \in BOOLEAN : (new \/ proc[p].held # 0) /\ StartSave(p, new, pass)
    /\ UNCHANGED <<files, crashes>>

(* encrypt, then open the one temporary path and truncate what is there. *)
SaveOpen(p) ==
    /\ proc[p].pc = "save"
    /\ saves < MaxSaves
    /\ LET n == saves + 1
           f == IF tmp = 0 THEN n ELSE tmp
           k == IF proc[p].creating THEN Generate(n) ELSE proc[p].held
       IN /\ saves' = n
          /\ blobs' = Encrypt(k, proc[p].pass, n)
          /\ tmp' = f
          /\ inodes' = [inodes EXCEPT ![f] = NoPieces]
          /\ proc' = [proc EXCEPT ![p].pc = "write", ![p].blob = n, ![p].fd = f, ![p].pos = 0]
    /\ overlapped' = (overlapped \/ \E q \in Procs \ {p} : Saving(q))
    /\ UNCHANGED <<enc, crashes, last, installed>>

\* Mutant: the rest of a short write is forgotten.
SaveWriteShort(p) ==
    /\ proc[p].pc = "write"
    /\ inodes' = [inodes EXCEPT ![proc[p].fd][1] = proc[p].blob]
    /\ proc' = [proc EXCEPT ![p].pos = 1, ![p].pc = "rename"]
    /\ UNCHANGED <<enc, tmp, blobs, saves, crashes, overlapped, last, installed>>

(* fs::write puts the next piece where the instance's own offset is. *)
SaveWrite(p) ==
    /\ proc[p].pc = "write"
    /\ LET i == proc[p].pos + 1 IN
       /\ inodes' = [inodes EXCEPT ![proc[p].fd][i] = proc[p].blob]
       /\ proc' = [proc EXCEPT ![p].pos = i, ![p].pc = IF i = Parts THEN "rename" ELSE "write"]
    /\ UNCHANGED <<enc, tmp, blobs, saves, crashes, overlapped, last, installed>>

(* What a successful rename does: whatever is at the temporary path now is *)
(* the identity file.                                                      *)
Install(p) ==
    /\ enc' = tmp /\ tmp' = 0
    /\ last' = proc[p].blob
    /\ installed' = installed \union {n \in Ids : \A i \in Pieces : inodes[tmp][i] = n}

(* A save that answers Ok. *)
SaveOk(p) ==
    proc' = [proc EXCEPT ![p] = [Done(blobs[proc[p].blob].keys, "ok")
                                   EXCEPT !.blob = proc[p].blob]]

\* Mutant: the result of the rename is ignored.
SaveRenameUnchecked(p) ==
    /\ proc[p].pc = "rename"
    /\ SaveOk(p)
    /\ IF tmp = 0 THEN UNCHANGED <<enc, tmp, last, installed>> ELSE Install(p)
    /\ UNCHANGED <<inodes, blobs, saves, crashes, overlapped>>

(* The rename fails when another instance has removed or moved the         *)
(* temporary file.  Setting the permissions afterwards is best effort.     *)
SaveRename(p) ==
    /\ proc[p].pc = "rename"
    /\ IF tmp = 0
       THEN Fail(p, "storage") /\ UNCHANGED <<enc, tmp, last, installed>>
       ELSE SaveOk(p) /\ Install(p)
    /\ UNCHANGED <<inodes, blobs, saves, crashes, overlapped>>

(* The file system may refuse any step of a save; what was written stays. *)
SaveError(p) ==
    /\ proc[p].pc \in {"save", "write", "rename"}
    /\ Fail(p, "storage")
    /\ UNCHANGED <<files, crashes>>

(* The instance is killed at any point; what it wrote stays. *)
Crash(p) ==
    /\ proc[p].pc # "down"
    /\ crashes < MaxCrashes
    /\ crashes' = crashes + 1
    /\ proc' = [proc EXCEPT ![p] = Down]
    /\ UNCHANGED files

Next ==
    \E p \in Procs :
        \/ Open(p) \/ LoadRead(p)
        \/ SaveOpen(p) \/ SaveWrite(p) \/ SaveRename(p) \/ SaveError(p) \/ Crash(p)
        \/ \E pass \in Passphrases : Load(p, pass)
        \/ \E pass \in SavePhrases :
             Create(p, pass) \/ LoadOrCreate(p, pass) \/ Save(p, pass)

Spec == Init /\ [][Next]_vars
-----------------------------------------------------------------------------
(* identity.enc is what the last completed save wrote, whole: neither a    *)
(* crash or an error at any step of a save, nor an instance that starts up *)
(* and removes the temporary file, damages it, as long as two saves never  *)
(* overlapped.                                                             *)
LastSaveStored ==
    ~overlapped => /\ enc = 0 <=> last = 0
                   /\ enc # 0 => inodes[enc] = [i \in Pieces |-> last]

(* A save, or a create, that answered Ok had its own keys on disk, as long *)
(* as two saves never overlapped.                                          *)
OkSaveInstalled ==
    \A p \in Procs :
        proc[p].pc = "idle" /\ proc[p].blob # 0 /\ proc[p].out = "ok" /\ ~overlapped
            => proc[p].blob \in installed

(* Whatever interleaved saves do to the file, load never answers Ok with   *)
(* keys other than some instance stored under the passphrase given.        *)
LoadedKeysStored ==
    \A p \in Procs :
        proc[p].pc = "idle" /\ proc[p].blob = 0 /\ proc[p].out = "ok"
            => \E n \in 1..saves : blobs[n] = [keys |-> proc[p].held, pass |-> proc[p].pass]
=============================================================================
