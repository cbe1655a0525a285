---------------------------- MODULE KeyringStore ----------------------------
(***************************************************************************)
(* How keys.json and keys.salt are loaded, converted and saved             *)
(* (crates/keyroost-keyring/src/lib.rs and fingerprint.rs).                *)
(*                                                                         *)
(* A process is one keyroost run (the command line, the app, or the app's  *)
(* scan thread).  It loads the registry, edits the ring in memory and      *)
(* saves it; every system call on the way is an action of its own, so the  *)
(* processes interleave between any two calls, and a process can die or a  *)
(* call can fail at each of them.  There is no lock.                       *)
(*                                                                         *)
(* A directory entry holds the file's contents and, while a process still  *)
(* writes it through an open descriptor, that process.  A process has one  *)
(* file open for writing at a time, so this tells apart which file a write *)
(* reaches after the entry was removed or renamed by somebody else.        *)
(***************************************************************************)
EXTENDS KeyRecords, Naturals

CONSTANTS
    Procs,        \* the keyroost runs that may be under way at once
    OldFiles,     \* key sets a version 1 keys.json may hold
    MaxCrashes,   \* bound: process deaths in a behaviour
    MaxErrors,    \* bound: failed system calls in a behaviour
    MaxForeign,   \* bound: times keys.json is replaced by another program
    MaxSaltLosses \* bound: times the user deletes keys.salt

ASSUME KeyringStoreAssumption ==
    /\ MaxCrashes \in Nat /\ MaxErrors \in Nat /\ MaxForeign \in Nat /\ MaxSaltLosses \in Nat
    /\ OldFiles \subseteq SUBSET [name   : Names,
                                  serial : Serials,
                                  salt   : {NoSalt},
                                  stored : {"computer"}]

VARIABLES
    dir,      \* file name -> contents
    writer,   \* file name -> processes holding it open for writing
    pc,       \* process -> the call it makes next
    mode,     \* process -> inside load_from or inside save_to
    ring,     \* process -> the Keyring value it holds
    orig,     \* process -> the version 1 contents being converted, or Absent
    crashes, errors, foreign, saltLosses

vars == <<dir, writer, pc, mode, ring, orig, crashes, errors, foreign, saltLosses>>

----------------------------------------------------------------------------
(* Files.                                                                  *)

Keys   == "keys.json"
Tmp    == "keys.json.tmp"
Backup == "keys.json.v1-backup"
Salt   == "keys.salt"
Files  == {Keys, Tmp, Backup, Salt}

File(fmt, keys, salt) == [fmt |-> fmt, keys |-> keys, salt |-> salt]
Absent        == File("absent", {}, NoSalt)
Torn          == File("torn", {}, NoSalt)   \* empty, half-written or damaged
Newer         == File("newer", {}, NoSalt)  \* a format version above 2
V1(keys)      == File("v1", keys, NoSalt)
V2(keys)      == File("v2", keys, NoSalt)   \* to_json
SaltFile(s)   == File("salt", {}, s)

Contents == [fmt  : {"absent", "torn", "newer", "v1", "v2", "salt"},
             keys : SUBSET Records,
             salt : Salts \cup {NoSalt}]

\* The entry f after the process p wrote `c` through its descriptor, wherever
\* that file is by now.
Written(p, c) == [f \in Files |-> IF p \in writer[f] THEN c ELSE dir[f]]
Closed(p)     == [f \in Files |-> writer[f] \ {p}]
Removed(f)    == /\ dir' = [dir EXCEPT ![f] = Absent]
                 /\ writer' = [writer EXCEPT ![f] = {}]
\* OpenOptions::create_new: the caller has checked that nothing is there.
Created(p, f) == /\ dir' = [dir EXCEPT ![f] = Torn]
                 /\ writer' = [writer EXCEPT ![f] = {p}]

\* The call fails.
Error == errors < MaxErrors /\ errors' = errors + 1
Ok == UNCHANGED errors
UnchangedEnv == UNCHANGED <<crashes, foreign, saltLosses>>

----------------------------------------------------------------------------
(* Rings.                                                                  *)

Ring(keys, salt, persisted, origin) ==
    [keys |-> keys, salt |-> salt, persisted |-> persisted, origin |-> origin]
\* Keyring::default: origin Fresh.
EmptyRing == Ring({}, NoSalt, FALSE, "fresh")

WithKeys(r, keys) == Ring(keys, r.salt, r.persisted, r.origin)
WithOrigin(r, origin) == Ring(r.keys, r.salt, r.persisted, origin)

\* "pending" and "converted" are ConvertedFromV1 with backup_pending true, false.
Rings == [keys      : SUBSET Records,
          salt      : Salts \cup {NoSalt},
          persisted : BOOLEAN,
          origin    : {"fresh", "v2", "pending", "converted"}]

SaltsInUse ==
    UNION { {dir[Salt].salt},
            {ring[p].salt : p \in Procs},
            UNION {{r.salt : r \in dir[f].keys} : f \in Files} }

\* generate_salt: the operating system's randomness never repeats a salt.
FreshSalts == Salts \ SaltsInUse
\* ensure_salt: the salts a ring may have after it.
EnsuredSalts(r) == IF r.salt = NoSalt THEN FreshSalts ELSE {r.salt}

----------------------------------------------------------------------------
(* Where a call returns to.                                                *)

Pcs == {"idle", "load_rm", "load_salt", "conv_salt", "ready", "edited", "learned",
        "salt_create", "salt_write", "salt_sync", "salt_undo", "salt_check",
        "backup_rm", "backup_create", "backup_write",
        "tmp_rm", "tmp_create", "tmp_write", "rename", "dir_sync",
        "undo_backup", "verify", "backup_drop"}

Goto(p, l) == pc' = [pc EXCEPT ![p] = l]

\* A load that fails returns no ring; a save that fails, like one that
\* succeeds, ends the caller's use of the ring.
Finish(p) == /\ Goto(p, "idle")
             /\ ring' = [ring EXCEPT ![p] = EmptyRing]
             /\ orig' = [orig EXCEPT ![p] = Absent]
             /\ mode' = [mode EXCEPT ![p] = "load"]

\* convert ignores the outcome of finish_conversion and hands out the ring, with
\* the origin r.origin it has by then; save_to returns.
Return(p, r) ==
    IF mode[p] = "load"
    THEN /\ Goto(p, "ready")
         /\ ring' = [ring EXCEPT ![p] = r]
         /\ orig' = [orig EXCEPT ![p] = Absent]
         /\ UNCHANGED mode
    ELSE Finish(p)

Converting(p) == orig[p].fmt = "v1"
\* After the salt is on disk: finish_conversion, or write_atomic at once.
AfterSalt(p) == IF Converting(p) THEN "backup_rm" ELSE "tmp_rm"

----------------------------------------------------------------------------
(* load_from and convert.                                                  *)

\* fs::read_to_string(path) and parse.  Unreadable and newer files end the load.
LoadRead(p) ==
    /\ pc[p] = "idle"
    /\ \/ /\ dir[Keys] = Absent
          /\ ring' = [ring EXCEPT ![p] = EmptyRing]
          /\ Goto(p, "load_rm")
          /\ UNCHANGED orig
       \/ /\ dir[Keys].fmt = "v2"
          /\ ring' = [ring EXCEPT ![p] = Ring(dir[Keys].keys, NoSalt, FALSE, "v2")]
          /\ Goto(p, "load_rm")
          /\ UNCHANGED orig
       \/ /\ dir[Keys].fmt = "v1"
          /\ orig' = [orig EXCEPT ![p] = dir[Keys]]
          /\ ring' = [ring EXCEPT ![p] = Ring({}, NoSalt, FALSE, "pending")]
          /\ Goto(p, "conv_salt")
    /\ mode' = [mode EXCEPT ![p] = "load"]
    /\ Ok /\ UnchangedEnv /\ UNCHANGED <<dir, writer>>

\* Mutant: a stale backup is left alone.
LoadKeepsBackup(p) ==
    /\ pc[p] = "load_rm"
    /\ Goto(p, "load_salt")
    /\ Ok /\ UnchangedEnv /\ UNCHANGED <<dir, writer, mode, ring, orig>>

\* remove_stale_backup, best effort.
LoadRemoveBackup(p) ==
    /\ pc[p] = "load_rm"
    /\ \/ Removed(Backup) /\ Ok
       \/ Error /\ UNCHANGED <<dir, writer>>
    /\ Goto(p, "load_salt")
    /\ UnchangedEnv /\ UNCHANGED <<mode, ring, orig>>

\* load_salt at the end of load_from.
LoadSalt(p) ==
    /\ pc[p] = "load_salt"
    /\ \/ /\ dir[Salt] = Absent
          /\ ring' = [ring EXCEPT ![p] = WithKeys(@, Unmatched(@.keys))]
          /\ Goto(p, "ready")
          /\ UNCHANGED <<orig, mode>>
       \/ /\ dir[Salt].fmt = "salt"
          /\ ring' = [ring EXCEPT ![p] = Ring(@.keys, dir[Salt].salt, TRUE, @.origin)]
          /\ Goto(p, "ready")
          /\ UNCHANGED <<orig, mode>>
       \/ dir[Salt].fmt = "torn" /\ Finish(p)              \* MalformedSalt
    /\ Ok /\ UnchangedEnv /\ UNCHANGED <<dir, writer>>

\* convert: the salt from disk, or a fresh one still to be written.
ConvertSalt(p) ==
    /\ pc[p] = "conv_salt"
    /\ \/ /\ dir[Salt].fmt = "salt"
          /\ ring' = [ring EXCEPT ![p] =
                 Ring(ConvertV1(orig[p].keys, dir[Salt].salt), dir[Salt].salt, TRUE, "pending")]
          /\ Goto(p, "backup_rm")
          /\ UNCHANGED <<orig, mode>>
       \/ /\ dir[Salt] = Absent
          /\ \E s \in FreshSalts : ring' = [ring EXCEPT ![p] =
                 Ring(ConvertV1(orig[p].keys, s), s, FALSE, "pending")]
          /\ Goto(p, "salt_create")
          /\ UNCHANGED <<orig, mode>>
       \/ dir[Salt].fmt = "torn" /\ Finish(p)              \* MalformedSalt
    /\ Ok /\ UnchangedEnv /\ UNCHANGED <<dir, writer>>

----------------------------------------------------------------------------
(* persist_salt_if_needed and persist_salt.                                *)

SaltCreate(p) ==
    /\ pc[p] = "salt_create"
    /\ \/ /\ dir[Salt] = Absent
          /\ Created(p, Salt)
          /\ Goto(p, "salt_write")
       \/ /\ dir[Salt] # Absent                            \* AlreadyExists
          /\ Goto(p, "salt_check")
          /\ UNCHANGED <<dir, writer>>
    /\ Ok /\ UnchangedEnv /\ UNCHANGED <<mode, ring, orig>>

SaltWrite(p) ==
    /\ pc[p] = "salt_write"
    /\ dir' = Written(p, SaltFile(ring[p].salt))
    /\ Goto(p, "salt_sync")
    /\ Ok /\ UnchangedEnv /\ UNCHANGED <<writer, mode, ring, orig>>

SaltPersisted(p) ==
    /\ ring' = [ring EXCEPT ![p] = Ring(@.keys, @.salt, TRUE, @.origin)]
    /\ Goto(p, AfterSalt(p))
    /\ UNCHANGED <<orig, mode>>

SaltSync(p) ==
    /\ pc[p] = "salt_sync"
    /\ writer' = Closed(p)
    /\ SaltPersisted(p)
    /\ Ok /\ UnchangedEnv /\ UNCHANGED dir

\* A failed write or sync is undone by removing the file; a failed open is not.
SaltError(p) ==
    /\ \/ /\ pc[p] = "salt_create"
          /\ Return(p, ring[p])
          /\ UNCHANGED writer
       \/ /\ pc[p] \in {"salt_write", "salt_sync"}
          /\ writer' = Closed(p)
          /\ Goto(p, "salt_undo")
          /\ UNCHANGED <<mode, ring, orig>>
    /\ Error /\ UnchangedEnv /\ UNCHANGED dir

\* Mutant: convert and save_to ignore that the salt could not be written.
SaltUndoIgnored(p) ==
    /\ pc[p] = "salt_undo"
    /\ Removed(Salt)
    /\ SaltPersisted(p)
    /\ Ok /\ UnchangedEnv

SaltUndo(p) ==
    /\ pc[p] = "salt_undo"
    /\ \/ Removed(Salt) /\ Ok
       \/ Error /\ UNCHANGED <<dir, writer>>
    /\ Return(p, ring[p])
    /\ UnchangedEnv

\* Mutant: any salt that is already there will do.
SaltCheckAnySalt(p) ==
    /\ pc[p] = "salt_check"
    /\ SaltPersisted(p)
    /\ Ok /\ UnchangedEnv /\ UNCHANGED <<dir, writer>>

\* Another process created the salt: only the very same one is acceptable.
SaltCheck(p) ==
    /\ pc[p] = "salt_check"
    /\ IF dir[Salt] = SaltFile(ring[p].salt)
       THEN SaltPersisted(p)
       ELSE Return(p, ring[p])
    /\ Ok /\ UnchangedEnv /\ UNCHANGED <<dir, writer>>

----------------------------------------------------------------------------
(* finish_conversion, steps c to e.                                        *)

BackupRemove(p) ==
    /\ pc[p] = "backup_rm"
    /\ \/ Removed(Backup) /\ Ok
       \/ Error /\ UNCHANGED <<dir, writer>>
    /\ Goto(p, "backup_create")
    /\ UnchangedEnv /\ UNCHANGED <<mode, ring, orig>>

BackupCreate(p) ==
    /\ pc[p] = "backup_create"
    /\ \/ /\ dir[Backup] = Absent
          /\ Created(p, Backup)
          /\ Goto(p, "backup_write")
          /\ UNCHANGED <<ring, orig, mode>>
       \/ /\ dir[Backup] # Absent
          /\ Return(p, ring[p])
          /\ UNCHANGED <<dir, writer>>
    /\ Ok /\ UnchangedEnv

BackupWrite(p) ==
    /\ pc[p] = "backup_write"
    /\ dir' = Written(p, orig[p])
    /\ writer' = Closed(p)
    /\ Goto(p, "tmp_rm")
    /\ Ok /\ UnchangedEnv /\ UNCHANGED <<mode, ring, orig>>

BackupError(p) ==
    /\ pc[p] \in {"backup_create", "backup_write"}
    /\ writer' = Closed(p)
    /\ Return(p, ring[p])
    /\ Error /\ UnchangedEnv /\ UNCHANGED dir

\* write_atomic failed: drop the backup only if the original is still in place.
UndoBackup(p) ==
    /\ pc[p] = "undo_backup"
    /\ \/ dir[Keys] = orig[p] /\ Removed(Backup) /\ Ok
       \/ dir[Keys] = orig[p] /\ Error /\ UNCHANGED <<dir, writer>>
       \/ dir[Keys] # orig[p] /\ Ok /\ UNCHANGED <<dir, writer>>
    /\ Return(p, ring[p])
    /\ UnchangedEnv

\* Step e: the backup goes only once keys.json is seen to hold the new file.
Verify(p) ==
    /\ pc[p] = "verify"
    /\ \/ /\ dir[Keys] = V2(ring[p].keys)
          /\ Goto(p, "backup_drop")
          /\ UNCHANGED <<ring, orig, mode>>
       \/ dir[Keys] # V2(ring[p].keys) /\ Return(p, ring[p])
    /\ Ok /\ UnchangedEnv /\ UNCHANGED <<dir, writer>>

BackupDrop(p) ==
    /\ pc[p] = "backup_drop"
    /\ \/ /\ Removed(Backup)
          /\ Return(p, IF Converting(p) /\ dir[Backup] = Absent
                       THEN ring[p] ELSE WithOrigin(ring[p], "v2"))
          /\ Ok
       \/ /\ Error
          /\ Return(p, ring[p])
          /\ UNCHANGED <<dir, writer>>
    /\ UnchangedEnv

----------------------------------------------------------------------------
(* write_atomic.                                                           *)

\* Its error: finish_conversion looks at the backup, save_to just returns.
WriteFailed(p) ==
    IF Converting(p)
    THEN Goto(p, "undo_backup") /\ UNCHANGED <<ring, orig, mode>>
    ELSE Finish(p)

\* A temp file that cannot be removed makes create_new fail.
TmpRemove(p) ==
    /\ pc[p] = "tmp_rm"
    /\ \/ Removed(Tmp) /\ Ok
       \/ Error /\ UNCHANGED <<dir, writer>>
    /\ Goto(p, "tmp_create")
    /\ UnchangedEnv /\ UNCHANGED <<mode, ring, orig>>

TmpCreate(p) ==
    /\ pc[p] = "tmp_create"
    /\ \/ /\ dir[Tmp] = Absent
          /\ Created(p, Tmp)
          /\ Goto(p, "tmp_write")
          /\ UNCHANGED <<ring, orig, mode>>
       \/ /\ dir[Tmp] # Absent
          /\ WriteFailed(p)
          /\ UNCHANGED <<dir, writer>>
    /\ Ok /\ UnchangedEnv

\* Mutant: the last buffered bytes are never flushed.
TmpWriteUnflushed(p) ==
    /\ pc[p] = "tmp_write"
    /\ writer' = Closed(p)
    /\ Goto(p, "rename")
    /\ Ok /\ UnchangedEnv /\ UNCHANGED <<dir, mode, ring, orig>>

\* write_all, sync_all and the close.
TmpWrite(p) ==
    /\ pc[p] = "tmp_write"
    /\ dir' = Written(p, V2(ring[p].keys))
    /\ writer' = Closed(p)
    /\ Goto(p, "rename")
    /\ Ok /\ UnchangedEnv /\ UNCHANGED <<mode, ring, orig>>

\* Mutant: a failed write is not noticed.
TmpErrorIgnored(p) ==
    /\ pc[p] = "tmp_write"
    /\ writer' = Closed(p)
    /\ Goto(p, "rename")
    /\ Error /\ UnchangedEnv /\ UNCHANGED <<dir, mode, ring, orig>>

TmpError(p) ==
    /\ pc[p] \in {"tmp_create", "tmp_write", "rename"}
    /\ writer' = Closed(p)
    /\ WriteFailed(p)
    /\ Error /\ UnchangedEnv /\ UNCHANGED dir

\* fs::rename moves whatever file the temp name leads to.
Rename(p) ==
    /\ pc[p] = "rename"
    /\ \/ /\ dir[Tmp] # Absent
          /\ dir' = [dir EXCEPT ![Keys] = dir[Tmp], ![Tmp] = Absent]
          /\ writer' = [writer EXCEPT ![Keys] = writer[Tmp], ![Tmp] = {}]
          /\ Goto(p, "dir_sync")
          /\ UNCHANGED <<ring, orig, mode>>
       \/ /\ dir[Tmp] = Absent
          /\ WriteFailed(p)
          /\ UNCHANGED <<dir, writer>>
    /\ Ok /\ UnchangedEnv

\* After the directory sync: verify a conversion; a save by a ring converted
\* earlier removes a backup that outlived the conversion; or done.
DirSync(p) ==
    /\ pc[p] = "dir_sync"
    /\ \/ /\ Converting(p)
          /\ ring' = [ring EXCEPT ![p] = WithOrigin(@, "converted")]
          /\ Goto(p, "verify")
          /\ UNCHANGED <<orig, mode>>
       \/ /\ ~Converting(p) /\ ring[p].origin \in {"pending", "converted"}
          /\ Goto(p, "backup_drop")
          /\ UNCHANGED <<ring, orig, mode>>
       \/ /\ ~Converting(p) /\ ring[p].origin \in {"fresh", "v2"}
          /\ Finish(p)
    /\ Ok /\ UnchangedEnv /\ UNCHANGED <<dir, writer>>

DirSyncError(p) ==
    /\ pc[p] = "dir_sync"
    /\ WriteFailed(p)
    /\ Error /\ UnchangedEnv /\ UNCHANGED <<dir, writer>>

----------------------------------------------------------------------------
(* What a caller does with a loaded ring.                                  *)

Edited(p, keys, salt) ==
    ring' = [ring EXCEPT ![p] = Ring(keys, salt, @.persisted, @.origin)]

\* name set, on this computer or after writing the name to the key.
EditSetName(p) ==
    \E n \in Names, row \in Rows, st \in {"computer", "key"} :
        \E k \in row, others \in SUBSET row, s \in EnsuredSalts(ring[p]) :
            LET kept == DropOthers(ring[p].keys, n, others \ {k}, ring[p].salt, st) IN
            /\ ~HeldElsewhere(kept, n, k, s)
            /\ Edited(p, SetName(kept, n, k, s, st), s)

\* A scan records a name first seen on a key, or drops the key's stale names.
EditLearn(p) ==
    \E n \in Names, k \in Serials :
        \/ \E s \in EnsuredSalts(ring[p]) :
               Edited(p, RecordFirstSeen(ring[p].keys, n, k, s), s)
        \/ Edited(p, DropStale(ring[p].keys, n, k, ring[p].salt), ring[p].salt)

\* name clear, by key or by name.
EditClear(p) ==
    \/ \E row \in Rows : \E ks \in SUBSET row :
           Edited(p, ClearKey(ring[p].keys, ks, ring[p].salt), ring[p].salt)
    \/ \E n \in Names   : Edited(p, RemoveName(ring[p].keys, n), ring[p].salt)

\* One command, or one of the updates a scan has for apply_updates.
Edit(p) ==
    /\ \/ pc[p] = "ready" /\ (EditSetName(p) \/ EditClear(p)) /\ Goto(p, "edited")
       \/ pc[p] \in {"ready", "learned"} /\ EditLearn(p) /\ Goto(p, "learned")
    /\ ring'[p].keys # ring[p].keys
    /\ Ok /\ UnchangedEnv /\ UNCHANGED <<dir, writer, mode, orig>>

\* A caller that only reads, or whose edit is refused, drops the ring.
Discard(p) ==
    /\ pc[p] = "ready"
    /\ Finish(p)
    /\ Ok /\ UnchangedEnv /\ UNCHANGED <<dir, writer>>

\* Mutants: save_to without its check for version 1, and without the others.
SaveOverwritesV1(p) == dir[Keys].fmt \in {"torn", "newer"}
SaveOverwritesUnreadable(p) == dir[Keys].fmt = "v1" /\ ring[p].origin # "pending"

\* The guards at the head of save_to: Damaged, NewerFormat, Unconverted.
SaveRefused(p) ==
    \/ dir[Keys].fmt \in {"torn", "newer"}
    \/ dir[Keys].fmt = "v1" /\ ring[p].origin # "pending"

SaveCheck(p) ==
    /\ pc[p] \in {"edited", "learned"}
    /\ \/ SaveRefused(p) /\ Finish(p)
       \/ /\ ~SaveRefused(p)
          /\ orig' = [orig EXCEPT ![p] = IF dir[Keys].fmt = "v1" THEN dir[Keys] ELSE Absent]
          /\ mode' = [mode EXCEPT ![p] = "save"]
          /\ \E s \in EnsuredSalts(ring[p]) : 
                 ring' = [ring EXCEPT ![p] = Ring(@.keys, s, @.persisted, @.origin)]
          /\ Goto(p, IF ~ring[p].persisted THEN "salt_create"
                     ELSE IF dir[Keys].fmt = "v1" THEN "backup_rm" ELSE "tmp_rm")
    /\ Ok /\ UnchangedEnv /\ UNCHANGED <<dir, writer>>

----------------------------------------------------------------------------
(* The world around.                                                       *)

\* The process dies; the kernel closes its files.
Crash(p) ==
    /\ pc[p] # "idle"
    /\ writer' = Closed(p)
    /\ Finish(p)
    /\ crashes < MaxCrashes /\ crashes' = crashes + 1
    /\ UNCHANGED <<dir, errors, foreign, saltLosses>>

\* Somebody else replaces keys.json while no save is under way here (a save that
\* already passed its checks would simply win or lose the race): an older keyroost
\* saves a version 1 file, a newer one its own format, or the user damages it.
ForeignSave ==
    /\ foreign < MaxForeign
    /\ \A p \in Procs : pc[p] \in {"idle", "ready", "edited", "learned"}
    /\ \E c \in {Newer, Torn} \cup {V1(keys) : keys \in OldFiles} :
           dir' = [dir EXCEPT ![Keys] = c]
    /\ writer' = [writer EXCEPT ![Keys] = {}]
    /\ foreign' = foreign + 1
    /\ UNCHANGED <<pc, mode, ring, orig, crashes, errors, saltLosses>>

\* The user deletes keys.salt while keyroost is not running.
LoseSalt ==
    /\ saltLosses < MaxSaltLosses
    /\ \A p \in Procs : pc[p] = "idle"
    /\ dir[Salt].fmt = "salt"
    /\ Removed(Salt)
    /\ saltLosses' = saltLosses + 1
    /\ UNCHANGED <<pc, mode, ring, orig, crashes, errors, foreign>>

----------------------------------------------------------------------------
Init ==
    /\ \E c \in {Absent, Newer, Torn} \cup {V1(keys) : keys \in OldFiles} :
           dir = [f \in Files |-> IF f = Keys THEN c ELSE Absent]
    /\ writer = [f \in Files |-> {}]
    /\ pc = [p \in Procs |-> "idle"]
    /\ mode = [p \in Procs |-> "load"]
    /\ ring = [p \in Procs |-> EmptyRing]
    /\ orig = [p \in Procs |-> Absent]
    /\ crashes = 0 /\ errors = 0 /\ foreign = 0 /\ saltLosses = 0

\* The calls of a process that return (well or badly) without a fault.
Load(p) == LoadRead(p) \/ LoadRemoveBackup(p) \/ LoadSalt(p) \/ ConvertSalt(p)
PersistSalt(p) == SaltCreate(p) \/ SaltWrite(p) \/ SaltSync(p) \/ SaltUndo(p) \/ SaltCheck(p)
FinishConversion(p) ==
    BackupRemove(p) \/ BackupCreate(p) \/ BackupWrite(p) \/ UndoBackup(p)
        \/ Verify(p) \/ BackupDrop(p)
WriteAtomic(p) == TmpRemove(p) \/ TmpCreate(p) \/ TmpWrite(p) \/ Rename(p) \/ DirSync(p)
Failure(p) == SaltError(p) \/ BackupError(p) \/ TmpError(p) \/ DirSyncError(p)

Step(p) == Load(p) \/ PersistSalt(p) \/ FinishConversion(p) \/ WriteAtomic(p) \/ SaveCheck(p)

Next ==
    \/ \E p \in Procs : Step(p) \/ Failure(p) \/ Edit(p) \/ Discard(p) \/ Crash(p)
    \/ ForeignSave
    \/ LoseSalt

Spec == Init /\ [][Next]_vars

\* A process that started goes on, and keyroost is run again sooner or later.
FairSpec == Spec /\ \A p \in Procs : WF_vars(Step(p)) /\ WF_vars(Edit(p) \/ Discard(p))

----------------------------------------------------------------------------
(* Properties.                                                             *)

\* Every variable has its type.
FilesOK == dir \in [Files -> Contents] /\ writer \in [Files -> SUBSET Procs]
ProcsOK ==
    /\ pc \in [Procs -> Pcs]
    /\ mode \in [Procs -> {"load", "save"}]
    /\ ring \in [Procs -> Rings]
    /\ orig \in [Procs -> Contents]
BoundsOK ==
    /\ crashes \in 0..MaxCrashes /\ errors \in 0..MaxErrors
    /\ foreign \in 0..MaxForeign /\ saltLosses \in 0..MaxSaltLosses
TypeOK == FilesOK /\ ProcsOK /\ BoundsOK

\* save_to: "a reader always sees a complete old or new file".  A readable (or
\* missing) keys.json never becomes an unreadable one.
RegistryNeverTorn ==
    [][dir[Keys].fmt # "torn" /\ foreign' = foreign => dir'[Keys].fmt # "torn"]_vars

\* save_to: a file from a newer keyroost, and one that cannot be read, are never
\* overwritten.
UnreadableNeverOverwritten ==
    [][dir[Keys].fmt \in {"newer", "torn"} /\ foreign' = foreign
           => dir'[Keys] = dir[Keys]]_vars

\* The names of the records `old` that `keys` lacks are those of one key at most,
\* or one name.
KeepsNames(old, keys) ==
    LET lost == {r \in old : r.name \notin NamesOf(keys)} IN
    \/ \E row \in Rows \cup {{}} : \A r \in lost : r.serial \in row
    \/ \E n \in Names : NamesOf(lost) = {n}

\* save_to: "a file still in version 1 is overwritten only by the ring that
\* converted it".  One command renames or clears one key, so what replaces a
\* version 1 file lacks the names of one key at most, or one name.
ConversionKeepsNames ==
    [][dir[Keys].fmt = "v1" /\ foreign' = foreign /\ dir'[Keys] # dir[Keys] =>
           dir'[Keys].fmt = "v2" /\ KeepsNames(dir[Keys].keys, dir'[Keys].keys)]_vars

\* Every fingerprint in `keys` can be made again from the salt on disk.
Reproducible(keys) ==
    \A r \in keys : r.salt # NoSalt => dir[Salt] = SaltFile(r.salt)

\* save_to: "no fingerprint is ever saved without the salt that reproduces it",
\* as long as nobody deletes the salt.
FingerprintsReproducible == saltLosses = 0 => Reproducible(dir[Keys].keys)

\* The same for any number of processes, while no call of theirs fails.
SaltPairing == errors = 0 /\ saltLosses = 0 => Reproducible(dir[Keys].keys)

\* A record that names a key does so by a fingerprint.
Fingerprinted(keys) == \A r \in keys : r.serial # NoSerial => r.salt # NoSalt

\* "No serial number is ever stored": a version 2 file, the temp file it is
\* written through included, holds fingerprints only.
NoPlainSerials ==
    \A f \in {Keys, Tmp} : dir[f].fmt = "v2" => Fingerprinted(dir[f].keys)

\* No two records have one name, and a key has one name saved on this computer
\* at most.
Unique(keys) ==
    \A r1, r2 \in keys : r1 # r2 =>
        /\ r1.name # r2.name
        /\ ~ /\ r1.stored = "computer" /\ r2.stored = "computer"
             /\ r1.serial # NoSerial
             /\ r1.serial = r2.serial /\ r1.salt = r2.salt

\* set_name and record_first_seen keep names unique in the file, and a key has
\* one name saved on this computer at most.
NamesUnique == Unique(dir[Keys].keys)

\* Plain serials are in keys.json (version 1) or in the backup of a conversion.
SerialsOnDisk == dir[Keys].fmt = "v1" \/ dir[Backup] # Absent

\* "The serials leave the disk": once the deaths and failed calls are over, the
\* loads finish every conversion and remove every backup, except where keys.json
\* is not ours to read, or where a death in the middle of persist_salt left a
\* keys.salt that no load accepts.
SerialsLeaveDisk ==
    <>[](~SerialsOnDisk \/ dir[Salt].fmt = "torn" \/ dir[Keys].fmt \in {"torn", "newer"})

\* Last writer wins, and the shared temp file may show a reader a half-written
\* keys.json; without deaths and failed calls that passes: the file is readable
\* whenever nobody is at work on it.  (A file damaged by hand makes every load
\* fail, so no salt was ever made beside it.)
QuiescentReadable ==
    crashes = 0 /\ errors = 0 /\ foreign = 0 /\ (\A p \in Procs : pc[p] = "idle") /\ dir[Salt] # Absent
        => dir[Keys].fmt # "torn"

----------------------------------------------------------------------------
(* Why SaltPairing holds: an inductive invariant.                          *)

\* keys.salt holds nothing, a file being made (or half of one), or a salt, which
\* the process that writes it has; the records of a version 1 file carry no
\* fingerprint.
PersistPcs == {"salt_create", "salt_write", "salt_sync", "salt_check"}
SaltShape ==
    /\ dir[Salt] \in {Absent, Torn} \cup {SaltFile(s) : s \in Salts}
    /\ \A f \in Files : dir[f].fmt = "v1" => \A r \in dir[f].keys : r.salt = NoSalt
    /\ \A p \in Procs : \A r \in orig[p].keys : r.salt = NoSalt
    /\ \A p \in Procs : pc[p] \in PersistPcs => ring[p].salt # NoSalt

\* Which file a process may hold open, by the call it is about to make.
WritersInv ==
    \A f \in Files : \A p \in writer[f] :
        \/ f = Salt /\ pc[p] \in {"salt_write", "salt_sync"}
        \/ f = Backup /\ pc[p] = "backup_write"
        \/ f \in {Tmp, Keys} /\ pc[p] = "tmp_write"

AfterSaltPcs == {"backup_rm", "backup_create", "backup_write", "tmp_rm", "tmp_create",
                 "tmp_write", "rename", "dir_sync", "undo_backup", "verify", "backup_drop"}

\* A ring past its load holds fingerprints under its own salt only, and when it
\* believes that salt is on disk, it is; only such rings are written.
RingInv(p) ==
    /\ ring[p].persisted => ring[p].salt # NoSalt /\ dir[Salt] = SaltFile(ring[p].salt)
    /\ IF pc[p] \in {"load_rm", "load_salt"}
       THEN Reproducible(ring[p].keys)
       ELSE \A r \in ring[p].keys : r.salt \in {NoSalt, ring[p].salt}
    /\ pc[p] \in AfterSaltPcs => ring[p].persisted
    /\ pc[p] = "salt_write" => dir[Salt] = Torn /\ writer[Salt] = {p}
    /\ pc[p] = "salt_sync" => dir[Salt] = SaltFile(ring[p].salt)
    /\ pc[p] # "salt_undo"

Paired == /\ \A f \in Files : Reproducible(dir[f].keys)
          /\ \A p \in Procs : RingInv(p)

SaltInv == SaltShape /\ WritersInv /\ (errors = 0 /\ saltLosses = 0 => Paired)
=============================================================================
