-------------------------- MODULE SecureStoreProofs --------------------------
(***************************************************************************)
(* The identity file survives crashes, errors and other instances, for any *)
(* number of instances, passphrases, pieces of a blob, saves and crashes.  *)
(***************************************************************************)
EXTENDS SecureStore, TLAPS

Pcs == {"down", "idle", "read", "create", "save", "write", "rename"}
Outs == {"none", "ok", "not_found", "exists", "storage", "invalid_passphrase"}

Blobs == [keys : Nat, pass : Passphrases]
Instances == [pc : Pcs, held : Nat, pass : Passphrases, blob : Nat, pos : Nat, fd : Nat,
              out : Outs, creating : BOOLEAN]

\* Nothing refers to a save that has not begun.
StoreShape ==
    /\ saves \in Nat /\ saves <= MaxSaves
    /\ inodes \in [Ids -> [Pieces -> 0 .. saves]]
    /\ enc \in 0 .. saves /\ tmp \in 0 .. saves /\ last \in 0 .. saves
    /\ blobs \in [Ids -> Blobs]
    /\ proc \in [Procs -> Instances]
    /\ overlapped \in BOOLEAN

\* What an instance is doing fits what it remembers: a save has a blob and an
\* inode of its own, and a file that was looked for and found is not removed.
InstanceFits(p) ==
    /\ proc[p].pc = "down" => proc[p].out = "none"
    /\ proc[p].pc = "read" => enc # 0 /\ proc[p].blob = 0
    /\ Saving(p) => proc[p].blob \in 1 .. saves /\ proc[p].fd \in 1 .. saves
    /\ proc[p].pc = "write" => proc[p].pos < Parts
    /\ proc[p].pc = "rename" => proc[p].pos = Parts

StoreInv == StoreShape /\ \A p \in Procs : InstanceFits(p)

\* The pieces of an inode into which a save has written its first k pieces.
Written(b, k) == [i \in Pieces |-> IF i <= k THEN b ELSE 0]

\* What holds as long as no two saves overlapped: at most one instance saves, its
\* inode holds what it has written and is not the identity file, and the
\* temporary path leads to that inode or, between saves, to some leftover.
AloneInv ==
    /\ \A p, q \in Procs : Saving(p) /\ Saving(q) => p = q
    /\ \A p \in Procs : Saving(p) =>
         /\ tmp \in {0, proc[p].fd}
         /\ proc[p].fd # enc
         /\ inodes[proc[p].fd] = Written(proc[p].blob, proc[p].pos)
    /\ tmp # 0 => tmp # enc
    /\ enc = 0 <=> last = 0
    /\ enc # 0 => inodes[enc] = [i \in Pieces |-> last]
    /\ \A p \in Procs :
         proc[p].pc = "idle" /\ proc[p].blob # 0 /\ proc[p].out = "ok"
            => proc[p].blob \in installed

Alone == ~overlapped => AloneInv

\* All of it.
Inv == StoreInv /\ Alone /\ LoadedKeysStored

-----------------------------------------------------------------------------
(* What the operators of a call return.                                    *)

\* An instance that is down, and one whose call has ended.
LEMMA CallRecords ==
    /\ Down \in Instances /\ Down.pc = "down" /\ Down.out = "none" /\ Down.blob = 0
    /\ \A k \in Nat, o \in Outs :
         /\ Done(k, o) \in Instances
         /\ Done(k, o).pc = "idle" /\ Done(k, o).blob = 0
         /\ Done(k, o).out = o /\ Done(k, o).held = k
<1>1. (CHOOSE s \in Passphrases : TRUE) \in Passphrases
  BY PhrasesAssumption
<1>2. Down \in Instances /\ Down.pc = "down" /\ Down.out = "none" /\ Down.blob = 0
  BY <1>1 DEF Down, Instances, Pcs, Outs
<1>3. ASSUME NEW k \in Nat, NEW o \in Outs
      PROVE  /\ Done(k, o) \in Instances
             /\ Done(k, o).pc = "idle" /\ Done(k, o).blob = 0
             /\ Done(k, o).out = o /\ Done(k, o).held = k
  BY <1>2 DEF Done, Instances, Pcs
<1> QED
  BY <1>2, <1>3

\* A file decrypts only when all its pieces are of one blob, and that blob was
\* made with the passphrase.
LEMMA DecryptAnswers ==
    ASSUME NEW f, NEW pass
    PROVE  /\ Decrypt(f, pass) \in {"ok", "storage", "invalid_passphrase"}
           /\ Decrypt(f, pass) = "ok" => Authentic(f) /\ DeriveKey(f[1], pass)
<1>1. CASE ~FromBytes(f) \/ Version(f) # 1
  BY <1>1 DEF Decrypt
<1>2. CASE FromBytes(f) /\ Version(f) = 1 /\ ~(Authentic(f) /\ DeriveKey(f[1], pass))
  BY <1>2 DEF Decrypt
<1>3. CASE FromBytes(f) /\ Version(f) = 1 /\ Authentic(f) /\ DeriveKey(f[1], pass)
  BY <1>3 DEF Decrypt
<1> QED
  BY <1>1, <1>2, <1>3

-----------------------------------------------------------------------------
(* The steps of a call that leave the files alone.                         *)

\* An instance may go on to anything but a save that writes, as long as what it
\* then says it loaded was stored.
LEMMA CallKeeps ==
    ASSUME Inv, NEW p \in Procs, NEW r \in Instances,
           proc' = [proc EXCEPT ![p] = r], UNCHANGED files,
           r.pc \notin {"write", "rename"},
           r.pc = "down" => r.out = "none",
           r.pc = "read" => enc # 0 /\ r.blob = 0,
           r.pc = "idle" => r.blob = 0,
           r.pc = "idle" /\ r.out = "ok" =>
               \E n \in 1 .. saves : blobs[n] = [keys |-> r.held, pass |-> r.pass]
    PROVE  Inv'
<1> USE DEF Inv, files
<1>1. StoreShape'
  BY DEF StoreInv, StoreShape
<1>2. /\ proc'[p] = r
      /\ \A q \in Procs : q # p => proc'[q] = proc[q]
  BY DEF StoreInv, StoreShape
<1>3. ~Saving(p)' /\ \A q \in Procs : q # p => Saving(q)' = Saving(q)
  BY <1>2 DEF Saving
<1>4. ASSUME NEW q \in Procs PROVE InstanceFits(q)'
  <2>1. CASE q = p
    BY <1>2, <1>3, <2>1 DEF InstanceFits
  <2>2. CASE q # p
    BY <1>2, <1>3, <2>2 DEF InstanceFits, StoreInv
  <2> QED
    BY <2>1, <2>2
<1>5. Alone'
  <2> SUFFICES ASSUME ~overlapped PROVE AloneInv'
    BY DEF Alone
  <2>1. AloneInv
    BY DEF Alone
  <2>2. \A q \in Procs : Saving(q)' => q # p /\ Saving(q) /\ proc'[q] = proc[q]
    BY <1>2, <1>3
  <2>3. \A q1, q2 \in Procs : Saving(q1)' /\ Saving(q2)' => q1 = q2
    BY <2>1, <2>2 DEF AloneInv
  <2>4. \A q \in Procs : Saving(q)' =>
          /\ tmp' \in {0, proc'[q].fd}
          /\ proc'[q].fd # enc'
          /\ inodes'[proc'[q].fd] = Written(proc'[q].blob, proc'[q].pos)
    BY <2>1, <2>2 DEF AloneInv
  <2>5. \A q \in Procs :
          proc'[q].pc = "idle" /\ proc'[q].blob # 0 /\ proc'[q].out = "ok"
             => proc'[q].blob \in installed'
    BY <1>2, <2>1 DEF AloneInv
  <2>6. /\ tmp' # 0 => tmp' # enc'
        /\ enc' = 0 <=> last' = 0
        /\ enc' # 0 => inodes'[enc'] = [i \in Pieces |-> last']
    BY <2>1 DEF AloneInv
  <2> QED
    BY <2>3, <2>4, <2>5, <2>6 DEF AloneInv, Written
<1>6. LoadedKeysStored'
  BY <1>2 DEF LoadedKeysStored
<1> QED
  BY <1>1, <1>4, <1>5, <1>6 DEF StoreInv

\* A call that fails.
LEMMA FailKeeps ==
    ASSUME Inv, NEW p \in Procs, NEW o \in Outs \ {"ok"}, Fail(p, o), UNCHANGED files
    PROVE  Inv'
<1>1. proc[p].held \in Nat
  BY DEF Inv, StoreInv, StoreShape, Instances
<1> DEFINE r == Done(proc[p].held, o)
<1>2. r \in Instances /\ r.pc = "idle" /\ r.blob = 0 /\ r.out # "ok"
  BY <1>1, CallRecords
<1>3. proc' = [proc EXCEPT ![p] = r]
  BY DEF Fail
<1> QED
  BY <1>2, <1>3, CallKeeps

\* A call goes on to its next step, which is not yet a write.
LEMMA GoOnKeeps ==
    ASSUME Inv, NEW p \in Procs, NEW pc \in {"read", "create", "save"},
           NEW pass \in Passphrases, NEW new \in BOOLEAN, pc = "read" => enc # 0,
           proc' = [proc EXCEPT ![p] = [Done(proc[p].held, "none")
                                          EXCEPT !.pc = pc, !.pass = pass, !.creating = new]],
           UNCHANGED files
    PROVE  Inv'
<1>1. proc[p].held \in Nat
  BY DEF Inv, StoreInv, StoreShape, Instances
<1> DEFINE r == [Done(proc[p].held, "none") EXCEPT !.pc = pc, !.pass = pass, !.creating = new]
<1>2. Done(proc[p].held, "none") \in Instances /\ Done(proc[p].held, "none").blob = 0
  BY <1>1, CallRecords DEF Outs
<1>3. r \in Instances /\ r.pc = pc /\ r.blob = 0
  BY <1>2 DEF Instances, Pcs
<1> QED
  BY <1>3, CallKeeps

\* The calls of an instance up to their first write, and the reading of the file.
LEMMA CallsKeep ==
    ASSUME Inv, NEW p \in Procs, NEW pass \in Passphrases,
           Load(p, pass) \/ Create(p, pass) \/ LoadOrCreate(p, pass) \/ Save(p, pass)
    PROVE  Inv'
<1>1. Done(proc[p].held, "none").creating = FALSE
      /\ Done(proc[p].held, "none") \in Instances
  <2>1. proc[p].held \in Nat
    BY DEF Inv, StoreInv, StoreShape, Instances
  <2> QED
    BY <2>1, CallRecords DEF Done, Down, Outs
<1>2. ASSUME NEW pc
      PROVE [Done(proc[p].held, "none") EXCEPT !.pc = pc, !.pass = pass]
            = [Done(proc[p].held, "none") EXCEPT !.pc = pc, !.pass = pass, !.creating = FALSE]
  BY <1>1 DEF Instances
<1>3. CASE Load(p, pass)
  <2>1. CASE enc = 0
    BY <1>3, <2>1, FailKeeps DEF Load, Outs
  <2>2. CASE enc # 0
    <3>1. /\ proc' = [proc EXCEPT ![p] = [Done(proc[p].held, "none")
                        EXCEPT !.pc = "read", !.pass = pass, !.creating = FALSE]]
          /\ UNCHANGED files
      BY <1>2, <1>3, <2>2 DEF Load
    <3> QED
      BY <2>2, <3>1, GoOnKeeps
  <2> QED
    BY <2>1, <2>2
<1>4. CASE Create(p, pass)
  <2>1. CASE enc # 0
    BY <1>4, <2>1, FailKeeps DEF Create, Outs
  <2>2. CASE enc = 0
    BY <1>4, <2>2, GoOnKeeps DEF Create, StartSave
  <2> QED
    BY <2>1, <2>2
<1>5. CASE LoadOrCreate(p, pass) /\ enc = 0
  <2>1. /\ proc' = [proc EXCEPT ![p] = [Done(proc[p].held, "none")
                      EXCEPT !.pc = "create", !.pass = pass, !.creating = FALSE]]
        /\ UNCHANGED files
    BY <1>2, <1>5 DEF LoadOrCreate
  <2> QED
    BY <2>1, GoOnKeeps
<1>6. CASE LoadOrCreate(p, pass) /\ enc # 0
  BY <1>3, <1>6 DEF LoadOrCreate
<1>7. CASE Save(p, pass)
  BY <1>7, GoOnKeeps DEF Save, StartSave
<1> QED
  BY <1>3, <1>4, <1>5, <1>6, <1>7

\* Whatever the file holds, a load that answers Ok has the keys of a blob that
\* was saved under the passphrase.
LEMMA LoadReadKeeps ==
    ASSUME Inv, NEW p \in Procs, LoadRead(p)
    PROVE  Inv'
<1> DEFINE f == inodes[enc]
           o == Decrypt(f, proc[p].pass)
<1>1. enc \in Ids /\ f \in [Pieces -> 0 .. saves] /\ 1 \in Pieces
  BY PartsAssumption, BoundsAssumption
  DEF Inv, StoreInv, StoreShape, InstanceFits, LoadRead, Ids, Pieces
<1>2. o \in {"ok", "storage", "invalid_passphrase"}
  BY DecryptAnswers
<1>3. CASE o # "ok"
  <2>1. o \in Outs \ {"ok"} /\ Fail(p, o) /\ UNCHANGED files
    BY <1>2, <1>3 DEF LoadRead, Outs
  <2> QED
    BY <2>1, FailKeeps
<1>4. CASE o = "ok"
  <2> DEFINE r == [proc[p] EXCEPT !.pc = "idle", !.out = "ok", !.held = KeysIn(f)]
  <2>1. Authentic(f) /\ DeriveKey(f[1], proc[p].pass)
    BY <1>4, DecryptAnswers
  <2>2. f[1] \in 1 .. saves /\ f[1] \in Ids
    BY <1>1, <2>1, BoundsAssumption DEF Authentic, Ids, Inv, StoreInv, StoreShape
  <2>3. KeysIn(f) = blobs[f[1]].keys /\ blobs[f[1]].pass = proc[p].pass
    BY <2>1 DEF KeysIn, DeriveKey
  <2>4. blobs[f[1]] \in Blobs
    BY <2>2 DEF Inv, StoreInv, StoreShape
  <2>5. proc[p] \in Instances /\ proc[p].blob = 0
    BY DEF Inv, StoreInv, StoreShape, InstanceFits, LoadRead
  <2>6. /\ r \in Instances /\ r.pc = "idle" /\ r.blob = 0 /\ r.held = KeysIn(f)
        /\ r.pass = proc[p].pass
    BY <2>3, <2>4, <2>5 DEF Instances, Pcs, Outs, Blobs
  <2>7. blobs[f[1]] = [keys |-> r.held, pass |-> r.pass]
    BY <2>3, <2>4, <2>6 DEF Blobs
  <2>8. proc' = [proc EXCEPT ![p] = r] /\ UNCHANGED files
    BY <1>4 DEF LoadRead
  <2> QED
    BY <2>2, <2>6, <2>7, <2>8, CallKeeps
<1> QED
  BY <1>3, <1>4

\* An error of the file system, and the end of an instance, at any point.
LEMMA StopKeeps ==
    ASSUME Inv, NEW p \in Procs, SaveError(p) \/ Crash(p)
    PROVE  Inv'
<1>1. CASE SaveError(p)
  BY <1>1, FailKeeps DEF SaveError, Outs
<1>2. CASE Crash(p)
  BY <1>2, CallRecords, CallKeeps DEF Crash
<1> QED
  BY <1>1, <1>2

-----------------------------------------------------------------------------
(* The steps that change the files.                                        *)

\* An instance that starts removes the temporary file, whoever's it is.
LEMMA OpenKeeps ==
    ASSUME Inv, NEW p \in Procs, Open(p)
    PROVE  Inv'
<1> USE DEF Inv, Open
<1>1. StoreShape'
  BY DEF StoreInv, StoreShape, Instances, Pcs
<1>2. /\ proc[p] \in Instances /\ proc[p].out = "none"
      /\ proc'[p] = [proc[p] EXCEPT !.pc = "idle"]
      /\ \A q \in Procs : q # p => proc'[q] = proc[q]
  BY DEF StoreInv, StoreShape, InstanceFits
<1>3. proc'[p].pc = "idle" /\ proc'[p].out = "none"
  BY <1>2 DEF Instances
<1>4. \A q \in Procs : Saving(q)' => q # p /\ Saving(q) /\ proc'[q] = proc[q]
  BY <1>2, <1>3 DEF Saving
<1>5. ASSUME NEW q \in Procs PROVE InstanceFits(q)'
  <2>1. CASE q = p
    BY <1>3, <2>1 DEF InstanceFits, Saving
  <2>2. CASE q # p
    BY <1>2, <2>2 DEF InstanceFits, StoreInv, Saving
  <2> QED
    BY <2>1, <2>2
<1>6. Alone'
  <2> SUFFICES ASSUME ~overlapped PROVE AloneInv'
    BY DEF Alone
  <2>1. AloneInv
    BY DEF Alone
  <2>2. \A q1, q2 \in Procs : Saving(q1)' /\ Saving(q2)' => q1 = q2
    BY <1>4, <2>1 DEF AloneInv
  <2>3. \A q \in Procs : Saving(q)' =>
          /\ tmp' \in {0, proc'[q].fd}
          /\ proc'[q].fd # enc'
          /\ inodes'[proc'[q].fd] = Written(proc'[q].blob, proc'[q].pos)
    BY <1>4, <2>1 DEF AloneInv
  <2>4. \A q \in Procs :
          proc'[q].pc = "idle" /\ proc'[q].blob # 0 /\ proc'[q].out = "ok"
             => proc'[q].blob \in installed'
    BY <1>2, <1>3, <2>1 DEF AloneInv
  <2>5. /\ tmp' # 0 => tmp' # enc'
        /\ enc' = 0 <=> last' = 0
        /\ enc' # 0 => inodes'[enc'] = [i \in Pieces |-> last']
    BY <2>1 DEF AloneInv
  <2> QED
    BY <2>2, <2>3, <2>4, <2>5 DEF AloneInv, Written
<1>7. LoadedKeysStored'
  BY <1>2, <1>3 DEF LoadedKeysStored
<1> QED
  BY <1>1, <1>5, <1>6, <1>7 DEF StoreInv

\* Opening the temporary file begins an inode that is not the identity file,
\* unless a save that overlaps has just renamed it.
LEMMA SaveOpenKeeps ==
    ASSUME Inv, NEW p \in Procs, SaveOpen(p)
    PROVE  Inv'
<1> DEFINE n == saves + 1
           f == IF tmp = 0 THEN n ELSE tmp
           k == IF proc[p].creating THEN Generate(n) ELSE proc[p].held
           r == [proc[p] EXCEPT !.pc = "write", !.blob = n, !.fd = f, !.pos = 0]
<1>1. /\ proc[p].pc = "save" /\ saves < MaxSaves
      /\ saves' = n /\ blobs' = [blobs EXCEPT ![n] = [keys |-> k, pass |-> proc[p].pass]]
      /\ tmp' = f /\ inodes' = [inodes EXCEPT ![f] = NoPieces]
      /\ proc' = [proc EXCEPT ![p] = r]
      /\ overlapped' = (overlapped \/ \E q \in Procs \ {p} : Saving(q))
      /\ enc' = enc /\ last' = last /\ installed' = installed
  BY DEF SaveOpen, Encrypt
<1>2. /\ n \in Ids /\ f \in Ids /\ f \in 1 .. n /\ saves \in Nat /\ k \in Nat
      /\ n = saves + 1 /\ n \in Nat /\ n <= MaxSaves /\ f \in Nat
      /\ tmp = 0 => f = n
      /\ tmp # 0 => f = tmp
      /\ proc[p] \in Instances
  <2>1. saves \in Nat /\ tmp \in 0 .. saves /\ proc[p] \in Instances
    BY DEF Inv, StoreInv, StoreShape
  <2>2. /\ n \in Ids /\ f \in Ids /\ f \in 1 .. n
        /\ n \in Nat /\ n <= MaxSaves /\ f \in Nat
        /\ tmp = 0 => f = n
        /\ tmp # 0 => f = tmp
    BY <1>1, <2>1, BoundsAssumption DEF Ids
  <2>3. k \in Nat
    BY <2>1 DEF Instances, Generate
  <2> QED
    BY <2>1, <2>2, <2>3
<1> HIDE DEF n, f, k
<1>3. /\ r \in Instances /\ r.pc = "write" /\ r.blob = n /\ r.fd = f /\ r.pos = 0
  BY <1>2 DEF Instances, Pcs
<1> HIDE DEF r
<1>4. /\ proc'[p] = r
      /\ \A q \in Procs : q # p => proc'[q] = proc[q]
  BY <1>1 DEF Inv, StoreInv, StoreShape
<1>5. NoPieces \in [Pieces -> 0 .. n] /\ \A g \in [Pieces -> 0 .. saves] : g \in [Pieces -> 0 .. n]
  BY <1>2 DEF NoPieces
<1>6. StoreShape'
  <2>1. inodes' \in [Ids -> [Pieces -> 0 .. n]]
    BY <1>1, <1>2, <1>5 DEF Inv, StoreInv, StoreShape
  <2>2. proc' \in [Procs -> Instances]
    BY <1>1, <1>3 DEF Inv, StoreInv, StoreShape
  <2>3. blobs' \in [Ids -> Blobs]
    BY <1>1, <1>2 DEF Inv, StoreInv, StoreShape, Blobs, Instances
  <2>4. overlapped' \in BOOLEAN
    BY <1>1
  <2>5. enc' \in 0 .. n /\ tmp' \in 0 .. n /\ last' \in 0 .. n /\ n \in Nat /\ n <= MaxSaves
    BY <1>1, <1>2 DEF Inv, StoreInv, StoreShape
  <2> QED
    BY <1>1, <2>1, <2>2, <2>3, <2>4, <2>5 DEF StoreShape
<1>7. ASSUME NEW q \in Procs PROVE InstanceFits(q)'
  <2>1. CASE q = p
    BY <1>1, <1>2, <1>3, <1>4, <2>1, PartsAssumption DEF InstanceFits, Saving
  <2>2. CASE q # p
    BY <1>1, <1>2, <1>4, <2>2 DEF InstanceFits, Inv, StoreInv, Saving
  <2> QED
    BY <2>1, <2>2
<1>8. Alone'
  <2> SUFFICES ASSUME ~overlapped' PROVE AloneInv'
    BY DEF Alone
  <2>1. AloneInv
    BY <1>1 DEF Inv, Alone, StoreInv, StoreShape
  <2>2. \A q \in Procs : q # p => ~Saving(q)
    BY <1>1
  <2>3. \A q \in Procs : Saving(q)' => q = p
    BY <1>4, <2>2 DEF Saving
  <2>4. f # enc
    BY <1>2, <2>1 DEF AloneInv, Inv, StoreInv, StoreShape
  <2>5. inodes'[f] = Written(n, 0)
    <3>1. inodes'[f] = NoPieces
      BY <1>1, <1>2 DEF Inv, StoreInv, StoreShape
    <3> QED
      BY <3>1 DEF NoPieces, Written, Pieces
  <2>6. enc # 0 => inodes'[enc] = inodes[enc]
    <3>1. enc # 0 => enc \in Ids
      BY <1>2, BoundsAssumption DEF Inv, StoreInv, StoreShape, Ids
    <3> QED
      BY <1>1, <2>4, <3>1 DEF Inv, StoreInv, StoreShape
  <2>7. \A q \in Procs : Saving(q)' =>
          /\ tmp' \in {0, proc'[q].fd}
          /\ proc'[q].fd # enc'
          /\ inodes'[proc'[q].fd] = Written(proc'[q].blob, proc'[q].pos)
    BY <1>1, <1>3, <1>4, <2>3, <2>4, <2>5
  <2>8. \A q \in Procs :
          proc'[q].pc = "idle" /\ proc'[q].blob # 0 /\ proc'[q].out = "ok"
             => proc'[q].blob \in installed'
    BY <1>1, <1>3, <1>4, <2>1 DEF AloneInv
  <2>9. /\ tmp' # 0 => tmp' # enc'
        /\ enc' = 0 <=> last' = 0
        /\ enc' # 0 => inodes'[enc'] = [i \in Pieces |-> last']
    BY <1>1, <2>1, <2>4, <2>6 DEF AloneInv
  <2> QED
    BY <2>3, <2>7, <2>8, <2>9 DEF AloneInv, Written
<1>9. LoadedKeysStored'
  <2> SUFFICES ASSUME NEW q \in Procs, proc'[q].pc = "idle", proc'[q].blob = 0, proc'[q].out = "ok"
               PROVE  \E m \in 1 .. saves' : blobs'[m] = [keys |-> proc'[q].held, pass |-> proc'[q].pass]
    BY DEF LoadedKeysStored
  <2>1. q # p /\ proc'[q] = proc[q]
    BY <1>3, <1>4
  <2>2. PICK m \in 1 .. saves : blobs[m] = [keys |-> proc[q].held, pass |-> proc[q].pass]
    BY <2>1 DEF Inv, LoadedKeysStored
  <2>3. m \in 1 .. saves' /\ m # n /\ m \in Ids
    BY <1>1, <1>2, BoundsAssumption DEF Ids
  <2>4. blobs'[m] = blobs[m]
    BY <1>1, <2>3 DEF Inv, StoreInv, StoreShape
  <2> QED
    BY <2>1, <2>2, <2>3, <2>4
<1> QED
  BY <1>6, <1>7, <1>8, <1>9 DEF Inv, StoreInv

\* The next piece goes into the inode of the save.
LEMMA SaveWriteKeeps ==
    ASSUME Inv, NEW p \in Procs, SaveWrite(p)
    PROVE  Inv'
<1> DEFINE b == proc[p].blob
           g == proc[p].fd
           i == proc[p].pos + 1
           c == IF i = Parts THEN "rename" ELSE "write"
           r == [proc[p] EXCEPT !.pos = i, !.pc = c]
<1>1. /\ proc[p].pc = "write"
      /\ inodes' = [inodes EXCEPT ![g] = [inodes[g] EXCEPT ![i] = b]]
      /\ proc' = [proc EXCEPT ![p] = r]
      /\ UNCHANGED <<enc, tmp, blobs, saves, overlapped, last, installed>>
  BY DEF SaveWrite
<1>2. /\ proc[p] \in Instances
      /\ b \in 1 .. saves /\ g \in 1 .. saves /\ g \in Ids
      /\ i \in Pieces /\ proc[p].pos \in Nat
  <2>1. proc[p] \in Instances /\ saves \in Nat /\ saves <= MaxSaves
    BY DEF Inv, StoreInv, StoreShape
  <2>2. b \in 1 .. saves /\ g \in 1 .. saves /\ proc[p].pos < Parts
    BY <1>1 DEF Inv, StoreInv, InstanceFits, Saving
  <2> QED
    BY <2>1, <2>2, BoundsAssumption, PartsAssumption DEF Instances, Ids, Pieces
<1>3. /\ r \in Instances /\ r.pc \in {"write", "rename"} /\ r.pos = i
      /\ r.blob = b /\ r.fd = g
      /\ r.pc = "write" => i < Parts
      /\ r.pc = "rename" => i = Parts
  <2>1. i \in Nat /\ i <= Parts /\ c \in {"write", "rename"}
        /\ (c = "write" => i < Parts) /\ (c = "rename" => i = Parts)
    BY <1>2, PartsAssumption DEF Pieces
  <2> HIDE DEF c, i
  <2>2. r \in Instances /\ r.pos = i /\ r.pc = c /\ r.blob = b /\ r.fd = g
    BY <1>2, <2>1 DEF Instances, Pcs
  <2> QED
    BY <2>1, <2>2
<1>4. /\ proc'[p] = r
      /\ \A q \in Procs : q # p => proc'[q] = proc[q]
  BY <1>1 DEF Inv, StoreInv, StoreShape
<1>5. /\ inodes'[g] = [inodes[g] EXCEPT ![i] = b]
      /\ inodes[g] \in [Pieces -> 0 .. saves]
      /\ \A j \in Ids : j # g => inodes'[j] = inodes[j]
  BY <1>1, <1>2 DEF Inv, StoreInv, StoreShape
<1> HIDE DEF r
<1>6. StoreShape'
  <2>1. inodes'[g] \in [Pieces -> 0 .. saves]
    BY <1>2, <1>5
  <2>2. inodes' \in [Ids -> [Pieces -> 0 .. saves]]
    BY <1>1, <1>5, <2>1 DEF Inv, StoreInv, StoreShape
  <2>3. proc' \in [Procs -> Instances]
    BY <1>1, <1>3 DEF Inv, StoreInv, StoreShape
  <2> QED
    BY <1>1, <2>2, <2>3 DEF Inv, StoreInv, StoreShape
<1>7. Saving(p) /\ Saving(p)' /\ \A q \in Procs : Saving(q)' = Saving(q)
  BY <1>1, <1>3, <1>4 DEF Saving
<1>8. ASSUME NEW q \in Procs PROVE InstanceFits(q)'
  <2>1. CASE q = p
    BY <1>1, <1>2, <1>3, <1>4, <2>1 DEF InstanceFits
  <2>2. CASE q # p
    BY <1>1, <1>4, <1>7, <2>2 DEF InstanceFits, Inv, StoreInv
  <2> QED
    BY <2>1, <2>2
<1>9. Alone'
  <2> SUFFICES ASSUME ~overlapped PROVE AloneInv'
    BY <1>1 DEF Alone
  <2>1. AloneInv
    BY DEF Inv, Alone
  <2>2. \A q \in Procs : Saving(q)' => q = p
    BY <1>7, <2>1 DEF AloneInv
  <2>3. tmp \in {0, g} /\ g # enc /\ inodes[g] = Written(b, proc[p].pos)
    BY <1>7, <2>1 DEF AloneInv
  <2>4. inodes'[g] = Written(b, i)
    <3>1. inodes'[g] = [j \in Pieces |-> IF j = i THEN b ELSE inodes[g][j]]
      BY <1>2, <1>5
    <3>2. \A j \in Pieces : inodes[g][j] = IF j <= proc[p].pos THEN b ELSE 0
      BY <2>3 DEF Written
    <3>3. \A j \in Pieces : (IF j = i THEN b ELSE inodes[g][j]) = IF j <= i THEN b ELSE 0
      BY <1>2, <3>2 DEF Pieces
    <3> QED
      BY <3>1, <3>3 DEF Written
  <2>5. enc # 0 => inodes'[enc] = inodes[enc]
    <3>1. enc # 0 => enc \in Ids
      BY BoundsAssumption DEF Inv, StoreInv, StoreShape, Ids
    <3> QED
      BY <1>5, <2>3, <3>1
  <2>6. \A q \in Procs : Saving(q)' =>
          /\ tmp' \in {0, proc'[q].fd}
          /\ proc'[q].fd # enc'
          /\ inodes'[proc'[q].fd] = Written(proc'[q].blob, proc'[q].pos)
    BY <1>1, <1>3, <1>4, <2>2, <2>3, <2>4
  <2>7. \A q \in Procs :
          proc'[q].pc = "idle" /\ proc'[q].blob # 0 /\ proc'[q].out = "ok"
             => proc'[q].blob \in installed'
    BY <1>1, <1>3, <1>4, <2>1 DEF AloneInv
  <2>8. /\ tmp' # 0 => tmp' # enc'
        /\ enc' = 0 <=> last' = 0
        /\ enc' # 0 => inodes'[enc'] = [j \in Pieces |-> last']
    BY <1>1, <2>1, <2>5 DEF AloneInv
  <2> QED
    BY <2>2, <2>6, <2>7, <2>8 DEF AloneInv, Written
<1>10. LoadedKeysStored'
  BY <1>1, <1>3, <1>4 DEF Inv, LoadedKeysStored
<1> QED
  BY <1>6, <1>8, <1>9, <1>10 DEF Inv, StoreInv

\* The rename installs what is at the temporary path, which is what the save
\* wrote unless another save overlapped.
LEMMA SaveRenameKeeps ==
    ASSUME Inv, NEW p \in Procs, SaveRename(p)
    PROVE  Inv'
<1>1. CASE tmp = 0
  BY <1>1, FailKeeps DEF SaveRename, Outs, files
<1>2. CASE tmp # 0
  <2> DEFINE b == proc[p].blob
             r == [Done(blobs[b].keys, "ok") EXCEPT !.blob = b]
  <2>1. /\ proc[p].pc = "rename" /\ proc' = [proc EXCEPT ![p] = r]
        /\ enc' = tmp /\ tmp' = 0 /\ last' = b
        /\ installed' = installed \union {n \in Ids : \A i \in Pieces : inodes[tmp][i] = n}
        /\ UNCHANGED <<inodes, blobs, saves, overlapped>>
    BY <1>2 DEF SaveRename, SaveOk, Install
  <2>2. /\ b \in 1 .. saves /\ b \in Ids /\ b \in Nat /\ b # 0 /\ proc[p].pos = Parts
        /\ saves \in Nat /\ saves <= MaxSaves
    BY <2>1, BoundsAssumption DEF Inv, StoreInv, StoreShape, InstanceFits, Saving, Ids
  <2>3. blobs[b].keys \in Nat
    BY <2>2 DEF Inv, StoreInv, StoreShape, Blobs
  <2>4. r \in Instances /\ r.pc = "idle" /\ r.blob = b
    <3>1. Done(blobs[b].keys, "ok") \in Instances /\ Done(blobs[b].keys, "ok").pc = "idle"
      BY <2>3, CallRecords DEF Outs
    <3> QED
      BY <2>2, <3>1 DEF Instances
  <2> HIDE DEF r
  <2>5. /\ proc'[p] = r
        /\ \A q \in Procs : q # p => proc'[q] = proc[q]
    BY <2>1 DEF Inv, StoreInv, StoreShape
  <2>6. StoreShape'
    BY <2>1, <2>2, <2>4 DEF Inv, StoreInv, StoreShape
  <2>7. \A q \in Procs : Saving(q)' => q # p /\ Saving(q) /\ proc'[q] = proc[q]
    BY <2>4, <2>5 DEF Saving
  <2>8. ASSUME NEW q \in Procs PROVE InstanceFits(q)'
    <3>1. CASE q = p
      BY <2>4, <2>5, <3>1 DEF InstanceFits, Saving
    <3>2. CASE q # p
      BY <1>2, <2>1, <2>5, <3>2 DEF InstanceFits, Inv, StoreInv, Saving
    <3> QED
      BY <3>1, <3>2
  <2>9. Alone'
    <3> SUFFICES ASSUME ~overlapped PROVE AloneInv'
      BY <2>1 DEF Alone
    <3>1. AloneInv
      BY DEF Inv, Alone
    <3>2. Saving(p) /\ \A q \in Procs : ~Saving(q)'
      BY <2>1, <2>7, <3>1 DEF AloneInv, Saving
    <3>3. inodes[tmp] = Written(b, Parts)
      BY <1>2, <2>2, <3>1, <3>2 DEF AloneInv
    <3>4. inodes[tmp] = [i \in Pieces |-> b]
      BY <3>3, PartsAssumption DEF Written, Pieces
    <3>5. b \in installed'
      BY <2>1, <2>2, <3>4
    <3>6. \A q \in Procs :
            proc'[q].pc = "idle" /\ proc'[q].blob # 0 /\ proc'[q].out = "ok"
               => proc'[q].blob \in installed'
      BY <2>1, <2>4, <2>5, <3>1, <3>5 DEF AloneInv
    <3>7. /\ tmp' # 0 => tmp' # enc'
          /\ enc' = 0 <=> last' = 0
          /\ enc' # 0 => inodes'[enc'] = [j \in Pieces |-> last']
      BY <1>2, <2>1, <2>2, <3>4
    <3> QED
      BY <3>2, <3>6, <3>7 DEF AloneInv, Written
  <2>10. LoadedKeysStored'
    BY <2>1, <2>2, <2>4, <2>5 DEF Inv, LoadedKeysStored
  <2> QED
    BY <2>6, <2>8, <2>9, <2>10 DEF Inv, StoreInv
<1> QED
  BY <1>1, <1>2

-----------------------------------------------------------------------------
\* The invariant holds in every reachable state.
THEOREM StoreInvariant == Spec => []Inv
<1>1. Init => Inv
  <2> SUFFICES ASSUME Init PROVE Inv
    OBVIOUS
  <2> USE DEF Init
  <2>1. \A p \in Procs : proc[p] = Down
    OBVIOUS
  <2>2. (CHOOSE s \in Passphrases : TRUE) \in Passphrases
    BY PhrasesAssumption
  <2>3. blobs \in [Ids -> Blobs]
    BY <2>2 DEF Blobs
  <2>4. overlapped \in BOOLEAN
    OBVIOUS
  <2>5. inodes \in [Ids -> [Pieces -> 0 .. saves]]
    BY DEF NoPieces
  <2>6. StoreShape
    BY <2>3, <2>4, <2>5, CallRecords, BoundsAssumption DEF StoreShape
  <2>7. \A p \in Procs : InstanceFits(p) /\ ~Saving(p)
    BY <2>1, CallRecords DEF InstanceFits, Saving
  <2>8. Alone
    BY <2>1, <2>7, CallRecords DEF Alone, AloneInv
  <2>9. LoadedKeysStored
    BY <2>1, CallRecords DEF LoadedKeysStored
  <2> QED
    BY <2>6, <2>7, <2>8, <2>9 DEF Inv, StoreInv
<1>2. Inv /\ [Next]_vars => Inv'
  <2> SUFFICES ASSUME Inv, [Next]_vars PROVE Inv'
    OBVIOUS
  <2>1. CASE UNCHANGED vars
    BY <2>1 DEF vars, Inv, StoreInv, StoreShape, InstanceFits, Saving, Alone, AloneInv, Written,
                LoadedKeysStored
  <2>2. CASE Next
    <3>1. PICK p \in Procs :
            \/ Open(p) \/ LoadRead(p)
            \/ SaveOpen(p) \/ SaveWrite(p) \/ SaveRename(p) \/ SaveError(p) \/ Crash(p)
            \/ \E pass \in Passphrases : Load(p, pass)
            \/ \E pass \in SavePhrases :
                 Create(p, pass) \/ LoadOrCreate(p, pass) \/ Save(p, pass)
      BY <2>2 DEF Next
    <3>2. CASE Open(p) \/ LoadRead(p) \/ SaveOpen(p) \/ SaveWrite(p) \/ SaveRename(p)
      BY <3>2, OpenKeeps, LoadReadKeeps, SaveOpenKeeps, SaveWriteKeeps, SaveRenameKeeps
    <3>3. CASE SaveError(p) \/ Crash(p)
      BY <3>3, StopKeeps
    <3>4. CASE \E pass \in Passphrases : Load(p, pass)
      BY <3>4, CallsKeep
    <3>5. CASE \E pass \in SavePhrases :
                 Create(p, pass) \/ LoadOrCreate(p, pass) \/ Save(p, pass)
      BY <3>5, CallsKeep, PhrasesAssumption
    <3> QED
      BY <3>1, <3>2, <3>3, <3>4, <3>5
  <2> QED
    BY <2>1, <2>2
<1> QED
  BY <1>1, <1>2, PTL DEF Spec

\* identity.enc is what the last completed save wrote, whole, whatever crashed,
\* failed or started up, as long as two saves never overlapped.
THEOREM LastSaveSurvives == Spec => []LastSaveStored
<1>1. Inv => LastSaveStored
  BY DEF Inv, Alone, AloneInv, LastSaveStored
<1> QED
  BY <1>1, StoreInvariant, PTL

\* A save that answered Ok had its own keys on disk, as long as two saves never
\* overlapped.
THEOREM OkSaveWasInstalled == Spec => []OkSaveInstalled
<1>1. Inv => OkSaveInstalled
  BY DEF Inv, Alone, AloneInv, OkSaveInstalled
<1> QED
  BY <1>1, StoreInvariant, PTL

\* load never answers Ok with keys that were not stored under the passphrase it
\* was given, however saves interleave.
THEOREM LoadsOnlyStoredKeys == Spec => []LoadedKeysStored
<1>1. Inv => LoadedKeysStored
  BY DEF Inv
<1> QED
  BY <1>1, StoreInvariant, PTL
=============================================================================
