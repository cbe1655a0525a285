--------------------------- MODULE KeyringOneProofs ---------------------------
(***************************************************************************)
(* Theorems about KeyringStore for one keyroost process at a time, with    *)
(* any names, keys and salts, and any deaths, failed calls, foreign edits  *)
(* and lost salts.  With two processes the first fails, as the run         *)
(* keyring_tmp_race shows.                                                 *)
(***************************************************************************)
EXTENDS KeyringProofs, KeyringRefinement

OneProcess == \A p, q \in Procs : p = q

----------------------------------------------------------------------------
(* What the process knows about keys.json and the temp file.               *)

\* The calls from the checks of load_from or save_to to their return.
WorkPcs == PersistPcs \cup AfterSaltPcs \cup {"conv_salt", "salt_undo"}

\* The temp file the process is about to write is its own, and the one it is
\* about to rename is whole; it works only on a file that it could read, and
\* after the rename that is the new one.
OwnFiles(p) ==
    /\ pc[p] = "tmp_write" => p \in writer[Tmp]
    /\ pc[p] = "rename" => dir[Tmp] = V2(ring[p].keys)
    /\ pc[p] \in WorkPcs => dir[Keys].fmt \notin {"torn", "newer"}
    /\ pc[p] \in {"dir_sync", "verify", "backup_drop"} => dir[Keys].fmt = "v2"

FilesInv == writer[Keys] = {} /\ \A p \in Procs : OwnFiles(p)

\* keys.json changes by a rename of a whole file only.
KeysStep(p) == \/ dir'[Keys] = dir[Keys]
               \/ pc[p] = "rename" /\ dir'[Keys] = V2(ring[p].keys)

\* The step of the one process.
FilesStep(p) == writer'[Keys] = {} /\ OwnFiles(p)' /\ KeysStep(p)

LEMMA LoadFiles ==
    ASSUME TypeOK, FilesInv, NEW p \in Procs, Load(p)
    PROVE  FilesStep(p)
<1> USE FileNames, DistinctFiles, NoRecords
    DEF TypeOK, FilesOK, ProcsOK, FilesStep, KeysStep, OwnFiles, FilesInv,
        WorkPcs, PersistPcs, AfterSaltPcs
<1>1. CASE LoadRead(p)
  BY <1>1 DEF LoadRead, Goto
<1>2. CASE LoadRemoveBackup(p)
  BY <1>2 DEF LoadRemoveBackup, Goto, Removed
<1>3. CASE LoadSalt(p)
  BY <1>3, Returns DEF LoadSalt, Goto
<1>4. CASE ConvertSalt(p)
  BY <1>4, Returns DEF ConvertSalt, Goto
<1> QED BY <1>1, <1>2, <1>3, <1>4 DEF Load

LEMMA PersistSaltFiles ==
    ASSUME TypeOK, WritersInv, FilesInv, NEW p \in Procs, PersistSalt(p) \/ SaltError(p)
    PROVE  FilesStep(p)
<1> USE FileNames, DistinctFiles, NoRecords
    DEF TypeOK, FilesOK, ProcsOK, FilesStep, KeysStep, OwnFiles, FilesInv,
        WorkPcs, PersistPcs, AfterSaltPcs
<1>1. CASE SaltCreate(p)
  BY <1>1 DEF SaltCreate, Goto, Created
<1>2. CASE SaltWrite(p)
  BY <1>2 DEF SaltWrite, Goto, Written
<1>3. CASE SaltSync(p)
  BY <1>3 DEF SaltSync, Goto, Closed, SaltPersisted, AfterSalt
<1>4. CASE SaltUndo(p)
  BY <1>4, Returns DEF SaltUndo, Removed
<1>5. CASE SaltCheck(p)
  <2>1. CASE SaltPersisted(p)
    BY <1>5, <2>1 DEF SaltCheck, Goto, SaltPersisted, AfterSalt
  <2>2. CASE ~SaltPersisted(p)
    BY <1>5, <2>2, Returns DEF SaltCheck
  <2> QED BY <2>1, <2>2
<1>6. CASE SaltError(p)
  BY <1>6, Returns DEF SaltError, Goto, Closed
<1> QED BY <1>1, <1>2, <1>3, <1>4, <1>5, <1>6 DEF PersistSalt

LEMMA FinishConversionFiles ==
    ASSUME TypeOK, WritersInv, FilesInv, NEW p \in Procs, FinishConversion(p) \/ BackupError(p)
    PROVE  FilesStep(p)
<1> USE FileNames, DistinctFiles, NoRecords
    DEF TypeOK, FilesOK, ProcsOK, FilesStep, KeysStep, OwnFiles, FilesInv,
        WorkPcs, PersistPcs, AfterSaltPcs
<1>1. CASE BackupRemove(p)
  BY <1>1 DEF BackupRemove, Goto, Removed
<1>2. CASE BackupCreate(p)
  BY <1>2, Returns DEF BackupCreate, Goto, Created
<1>3. CASE BackupWrite(p)
  BY <1>3 DEF BackupWrite, Goto, Written, Closed
<1>4. CASE UndoBackup(p)
  BY <1>4, Returns DEF UndoBackup, Removed
<1>5. CASE Verify(p)
  BY <1>5, Returns DEF Verify, Goto
<1>6. CASE BackupDrop(p)
  BY <1>6, Returns DEF BackupDrop, Removed
<1>7. CASE BackupError(p)
  BY <1>7, Returns DEF BackupError, Closed
<1> QED BY <1>1, <1>2, <1>3, <1>4, <1>5, <1>6, <1>7 DEF FinishConversion

LEMMA WriteAtomicFiles ==
    ASSUME OneProcess, TypeOK, WritersInv, FilesInv, NEW p \in Procs,
           WriteAtomic(p) \/ TmpError(p) \/ DirSyncError(p)
    PROVE  FilesStep(p)
<1> USE FileNames, DistinctFiles, NoRecords
    DEF TypeOK, FilesOK, ProcsOK, FilesStep, KeysStep, OwnFiles, FilesInv,
        WorkPcs, PersistPcs, AfterSaltPcs
<1>f. WriteFailed(p) => pc'[p] \in {"idle", "undo_backup"}
  BY Returns
<1>1. CASE TmpRemove(p)
  BY <1>1 DEF TmpRemove, Goto, Removed
<1>2. CASE TmpCreate(p)
  BY <1>2, <1>f DEF TmpCreate, Goto, Created
<1>3. CASE TmpWrite(p)
  BY <1>3 DEF TmpWrite, Goto, Written, Closed
<1>4. CASE Rename(p)
  <2>1. writer[Tmp] = {}
    BY <1>4 DEF Rename, WritersInv, OneProcess
  <2>2. CASE dir[Tmp] # Absent
    BY <1>4, <2>1, <2>2 DEF Rename, Goto
  <2>3. CASE dir[Tmp] = Absent
    BY <1>4, <2>3, <1>f DEF Rename
  <2> QED BY <2>2, <2>3
<1>5. CASE DirSync(p)
  BY <1>5, Returns DEF DirSync, Goto
<1>6. CASE TmpError(p)
  BY <1>6, <1>f DEF TmpError, Closed
<1>7. CASE DirSyncError(p)
  BY <1>7, <1>f DEF DirSyncError
<1> QED BY <1>1, <1>2, <1>3, <1>4, <1>5, <1>6, <1>7 DEF WriteAtomic

LEMMA CallerFiles ==
    ASSUME TypeOK, FilesInv, NEW p \in Procs, Edit(p) \/ Discard(p) \/ SaveCheck(p) \/ Crash(p)
    PROVE  FilesStep(p)
<1> USE FileNames, DistinctFiles, NoRecords
    DEF TypeOK, FilesOK, ProcsOK, FilesStep, KeysStep, OwnFiles, FilesInv,
        WorkPcs, PersistPcs, AfterSaltPcs
<1>1. CASE Edit(p)
  BY <1>1, EditSteps DEF Goto
<1>2. CASE Discard(p)
  BY <1>2, Returns DEF Discard
<1>3. CASE SaveCheck(p)
  BY <1>3, Returns DEF SaveCheck, SaveRefused, Goto
<1>4. CASE Crash(p)
  BY <1>4, Returns DEF Crash, Closed
<1> QED BY <1>1, <1>2, <1>3, <1>4

LEMMA ProcessFiles ==
    ASSUME OneProcess, TypeOK, WritersInv, FilesInv, NEW p \in Procs,
           Step(p) \/ Failure(p) \/ Edit(p) \/ Discard(p) \/ Crash(p)
    PROVE  FilesStep(p)
BY LoadFiles, PersistSaltFiles, FinishConversionFiles, WriteAtomicFiles, CallerFiles
   DEF Step, Failure

LEMMA NextFiles ==
    ASSUME OneProcess, TypeOK, WritersInv, FilesInv, [Next]_vars
    PROVE  FilesInv'
<1>1. CASE UNCHANGED vars
  BY <1>1 DEF vars, FilesInv, OwnFiles
<1>2. ASSUME NEW p \in Procs, Step(p) \/ Failure(p) \/ Edit(p) \/ Discard(p) \/ Crash(p)
      PROVE  FilesInv'
  <2>1. writer'[Keys] = {} /\ OwnFiles(p)'
    BY <1>2, ProcessFiles DEF FilesStep
  <2> QED BY <2>1 DEF FilesInv, OneProcess
<1>3. CASE ForeignSave
  BY <1>3, FileNames DEF ForeignSave, FilesInv, OwnFiles, WorkPcs, PersistPcs, AfterSaltPcs, TypeOK, FilesOK
<1>4. CASE LoseSalt
  BY <1>4, FileNames, DistinctFiles
     DEF LoseSalt, Removed, FilesInv, OwnFiles, WorkPcs, PersistPcs, AfterSaltPcs, TypeOK, FilesOK
<1> QED BY <1>1, <1>2, <1>3, <1>4 DEF Next

LEMMA FilesInvHolds ==
    ASSUME OneProcess
    PROVE  Spec => []FilesInv
<1>1. Init => FilesInv
  BY FileNames DEF Init, FilesInv, OwnFiles, WorkPcs, PersistPcs, AfterSaltPcs
<1>2. TypeOK /\ SaltInv /\ FilesInv /\ [Next]_vars => FilesInv'
  BY NextFiles DEF SaltInv
<1> QED BY <1>1, <1>2, TypeCorrect, SaltInvHolds, PTL DEF Spec

\* keys.json after a step that is not somebody else's.
LEMMA KeysSteps ==
    ASSUME OneProcess, TypeOK, WritersInv, FilesInv, [Next]_vars, foreign' = foreign
    PROVE  dir'[Keys] = dir[Keys] \/ \E p \in Procs : pc[p] = "rename" /\ dir'[Keys] = V2(ring[p].keys)
<1>1. CASE UNCHANGED vars
  BY <1>1 DEF vars
<1>2. CASE \E p \in Procs : Step(p) \/ Failure(p) \/ Edit(p) \/ Discard(p) \/ Crash(p)
  BY <1>2, ProcessFiles DEF FilesStep, KeysStep
<1>3. CASE ForeignSave
  BY <1>3 DEF ForeignSave, TypeOK, BoundsOK
<1>4. CASE LoseSalt
  BY <1>4, FileNames, DistinctFiles DEF LoseSalt, Removed, TypeOK, FilesOK
<1> QED BY <1>1, <1>2, <1>3, <1>4 DEF Next

\* With one process at a time, write_atomic's temp file and rename never turn a
\* readable or missing keys.json into an unreadable one, whatever call fails and
\* wherever the process dies.
THEOREM NeverTorn ==
    ASSUME OneProcess
    PROVE  Spec => RegistryNeverTorn
<1>1. TypeOK /\ SaltInv /\ FilesInv /\ [Next]_vars =>
          [dir[Keys].fmt # "torn" /\ foreign' = foreign => dir'[Keys].fmt # "torn"]_vars
  BY KeysSteps, NoRecords DEF SaltInv
<1> QED BY <1>1, FilesInvHolds, TypeCorrect, SaltInvHolds, PTL DEF Spec, RegistryNeverTorn

\* save_to checks the file before it changes anything, and with one process at a
\* time the answer still holds at the rename: a file from a newer keyroost, or
\* one that cannot be read, is never replaced.
THEOREM UnreadableKept ==
    ASSUME OneProcess
    PROVE  Spec => UnreadableNeverOverwritten
<1>1. TypeOK /\ SaltInv /\ FilesInv /\ [Next]_vars =>
          [dir[Keys].fmt \in {"newer", "torn"} /\ foreign' = foreign => dir'[Keys] = dir[Keys]]_vars
  BY KeysSteps DEF SaltInv, FilesInv, OwnFiles, WorkPcs, AfterSaltPcs
<1> QED BY <1>1, FilesInvHolds, TypeCorrect, SaltInvHolds, PTL DEF Spec, UnreadableNeverOverwritten

----------------------------------------------------------------------------
(* The names of a version 1 file.                                          *)
(*                                                                         *)
(* A ring remembers that it converted a version 1 file, not which one.  So *)
(* what it writes keeps the names of the file on disk only where every     *)
(* version 1 file has the same names: see the run keyring_stale.           *)

OneOldFile == \A a, b \in OldFiles : a = b

\* Until the command's edit, a ring converted from a version 1 file has all its
\* records; the edit takes the names of one key, or one name.
PendingKeys(p) ==
    ring[p].origin = "pending" /\ pc[p] # "conv_salt" =>
        /\ ring[p].salt # NoSalt
        /\ \A old \in OldFiles :
              /\ KeepsNames(old, ring[p].keys)
              /\ mode[p] = "load" /\ pc[p] # "edited" => ConvertV1(old, ring[p].salt) \subseteq ring[p].keys

OwnNames(p) ==
    /\ orig[p].fmt = "v1" => orig[p].keys \in OldFiles
    /\ pc[p] = "conv_salt" => orig[p].fmt = "v1"
    /\ pc[p] \in {"load_rm", "load_salt", "conv_salt", "ready", "learned"} => mode[p] = "load"
    /\ pc[p] \in {"load_rm", "load_salt"} => ring[p].origin # "pending"
    /\ pc[p] \in WorkPcs /\ dir[Keys].fmt = "v1" => ring[p].origin = "pending"
    /\ PendingKeys(p)

NamesInv == /\ dir[Keys].fmt = "v1" => dir[Keys].keys \in OldFiles
            /\ \A p \in Procs : OwnNames(p)

\* The record that a version 1 entry became.
LEMMA ConvertedRecord ==
    ASSUME NEW old \in OldFiles, NEW s, NEW r \in old
    PROVE  \E c \in ConvertV1(old, s) : /\ c.name = r.name /\ c.serial = r.serial
                                        /\ c.salt = s /\ c.stored = "computer"
<1> DEFINE c == RecordOf(r.name, r.serial, IF r.serial = NoSerial THEN NoSalt ELSE s, "computer")
<1>1. r.serial # NoSerial
  BY KeyringStoreAssumption, KeyRecordsAssumption
<1>2. /\ c.name = r.name /\ c.serial = r.serial
      /\ c.salt = s /\ c.stored = "computer"
  BY <1>1 DEF RecordOf
<1>3. c \in ConvertV1(old, s)
  BY DEF ConvertV1
<1> QED BY <1>2, <1>3

LEMMA ConvertedNames ==
    ASSUME NEW old \in OldFiles, NEW keys, NEW s, ConvertV1(old, s) \subseteq keys
    PROVE  KeepsNames(old, keys)
<1>1. ASSUME NEW r \in old PROVE r.name \in NamesOf(keys)
  <2>1. PICK c \in ConvertV1(old, s) : c.name = r.name
    BY ConvertedRecord
  <2> QED BY <2>1 DEF NamesOf
<1> QED BY <1>1 DEF KeepsNames

LEMMA SetNameKeeps ==
    ASSUME NEW old \in OldFiles, NEW keys, NEW s, ConvertV1(old, s) \subseteq keys,
           NEW n, NEW row \in Rows, NEW k \in row, NEW others \in SUBSET row, NEW st
    PROVE  KeepsNames(old, SetName(DropOthers(keys, n, others \ {k}, s, st), n, k, s, st))
<1> DEFINE new == SetName(DropOthers(keys, n, others \ {k}, s, st), n, k, s, st)
<1>1. \A c \in keys : c.serial \notin row => c \in new
  BY DEF SetName, DropOthers, IsOf
<1> HIDE DEF new
<1>2. \A r \in old : r.name \notin NamesOf(new) => r.serial \in row
  <2> SUFFICES ASSUME NEW r \in old, r.name \notin NamesOf(new), r.serial \notin row
               PROVE  FALSE
    OBVIOUS
  <2>1. PICK c \in ConvertV1(old, s) : c.name = r.name /\ c.serial = r.serial
    BY ConvertedRecord
  <2> QED BY <1>1, <2>1 DEF NamesOf
<1>3. KeepsNames(old, new)
  BY <1>2 DEF KeepsNames
<1> QED BY <1>3 DEF new

LEMMA ClearKeeps ==
    ASSUME NEW old \in OldFiles, NEW keys, NEW s, ConvertV1(old, s) \subseteq keys
    PROVE  /\ \A row \in Rows : \A ks \in SUBSET row : KeepsNames(old, ClearKey(keys, ks, s))
           /\ \A n \in Names : KeepsNames(old, RemoveName(keys, n))
<1>1. ASSUME NEW row \in Rows, NEW ks \in SUBSET row
      PROVE  KeepsNames(old, ClearKey(keys, ks, s))
  <2> DEFINE new == ClearKey(keys, ks, s)
  <2>1. \A c \in keys : c.serial \notin row => c \in new
    BY DEF ClearKey, IsOf
  <2> HIDE DEF new
  <2>2. \A r \in old : r.name \notin NamesOf(new) => r.serial \in row
    <3> SUFFICES ASSUME NEW r \in old, r.name \notin NamesOf(new), r.serial \notin row
                 PROVE  FALSE
      OBVIOUS
    <3>1. PICK c \in ConvertV1(old, s) : c.name = r.name /\ c.serial = r.serial
      BY ConvertedRecord
    <3> QED BY <2>1, <3>1 DEF NamesOf
  <2>3. KeepsNames(old, new)
    BY <2>2 DEF KeepsNames
  <2> QED BY <2>3 DEF new
<1>2. ASSUME NEW n \in Names
      PROVE  KeepsNames(old, RemoveName(keys, n))
  <2> DEFINE new == RemoveName(keys, n)
             lost == {r \in old : r.name \notin NamesOf(new)}
  <2>1. \A c \in keys : c.name # n => c \in new
    BY DEF RemoveName, Holders
  <2> HIDE DEF new
  <2>2. \A r \in lost : r.name = n
    <3> SUFFICES ASSUME NEW r \in old, r.name \notin NamesOf(new), r.name # n
                 PROVE  FALSE
      OBVIOUS
    <3>1. PICK c \in ConvertV1(old, s) : c.name = r.name
      BY ConvertedRecord
    <3> QED BY <2>1, <3>1 DEF NamesOf
  <2>3. lost = {} \/ NamesOf(lost) = {n}
    BY <2>2 DEF NamesOf
  <2>4. KeepsNames(old, new)
    BY <2>3 DEF KeepsNames
  <2> QED BY <2>4 DEF new
<1> QED BY <1>1, <1>2

LEMMA LearnKeeps ==
    ASSUME NEW old \in OldFiles, NEW keys, NEW s, ConvertV1(old, s) \subseteq keys, NEW n, NEW k
    PROVE  /\ ConvertV1(old, s) \subseteq RecordFirstSeen(keys, n, k, s)
           /\ ConvertV1(old, s) \subseteq DropStale(keys, n, k, s)
BY DEF ConvertV1, RecordOf, RecordFirstSeen, DropStale

\* What a call that only copies its ring does, by the ring and the mode it leaves.
KeptRing(p) ==
    /\ ring[p].origin = "pending" /\ pc[p] # "conv_salt"
    /\ ring'[p].keys = ring[p].keys /\ ring'[p].salt = ring[p].salt
    /\ mode'[p] = "load" /\ pc'[p] # "edited" => mode[p] = "load" /\ pc[p] # "edited"
NamesKept(p) ==
    /\ ring'[p].origin # "pending" \/ KeptRing(p)
    /\ orig'[p] \in {Absent, orig[p], dir[Keys]}
    /\ pc'[p] \notin {"conv_salt", "load_rm", "load_salt", "learned"}
    /\ pc'[p] = "ready" => mode'[p] = "load"
    /\ pc'[p] \in WorkPcs => pc[p] \in WorkPcs /\ ring'[p].origin = ring[p].origin

LEMMA KeptNames ==
    ASSUME NamesInv, NEW p \in Procs, KeysStep(p), NamesKept(p)
    PROVE  OwnNames(p)'
<1> USE NoRecords
<1>1. orig'[p].fmt = "v1" => orig'[p].keys \in OldFiles
  BY DEF NamesInv, OwnNames, NamesKept
<1>2. pc'[p] \in WorkPcs /\ dir'[Keys].fmt = "v1" => ring'[p].origin = "pending"
  BY DEF NamesInv, OwnNames, NamesKept, KeysStep
<1>3. PendingKeys(p)'
  <2>1. CASE ring'[p].origin # "pending"
    BY <2>1 DEF PendingKeys
  <2>2. CASE KeptRing(p)
    BY <2>2 DEF NamesInv, OwnNames, PendingKeys, KeptRing
  <2> QED BY <2>1, <2>2 DEF NamesKept
<1> QED BY <1>1, <1>2, <1>3 DEF OwnNames, NamesKept

\* Return and WriteFailed keep the ring or drop it.
LEMMA ReturnNames ==
    ASSUME ProcsOK, NEW p \in Procs, pc[p] \in WorkPcs \ {"conv_salt"}
    PROVE  /\ Finish(p) => NamesKept(p)
           /\ Return(p, ring[p]) => NamesKept(p)
           /\ WriteFailed(p) => NamesKept(p)
<1> USE NoRecords DEF WorkPcs, PersistPcs, AfterSaltPcs, NamesKept, KeptRing
<1>0. EmptyRing.origin = "fresh"
  BY DEF EmptyRing, Ring
<1>1. Finish(p) => NamesKept(p)
  BY <1>0, Returns
<1>2. Return(p, ring[p]) => NamesKept(p)
  <2>1. CASE mode[p] = "load"
    BY <2>1 DEF Return, Goto, ProcsOK
  <2>2. CASE mode[p] # "load"
    BY <2>2, <1>1 DEF Return
  <2> QED BY <2>1, <2>2
<1>3. WriteFailed(p) => NamesKept(p)
  BY <1>1 DEF WriteFailed, Goto, ProcsOK
<1> QED BY <1>1, <1>2, <1>3

LEMMA PersistSaltNames ==
    ASSUME TypeOK, NEW p \in Procs, PersistSalt(p) \/ SaltError(p)
    PROVE  NamesKept(p)
<1>w. pc[p] \in WorkPcs \ {"conv_salt"}
  BY DEF PersistSalt, SaltCreate, SaltWrite, SaltSync, SaltUndo, SaltCheck, SaltError,
         WorkPcs, PersistPcs
<1>s. SaltPersisted(p) => NamesKept(p)
  <2> SUFFICES ASSUME SaltPersisted(p) PROVE NamesKept(p)
    OBVIOUS
  <2>1. /\ ring'[p].keys = ring[p].keys /\ ring'[p].salt = ring[p].salt
        /\ ring'[p].origin = ring[p].origin /\ orig'[p] = orig[p] /\ mode'[p] = mode[p]
    BY DEF SaltPersisted, Ring, TypeOK, ProcsOK
  <2>2. pc'[p] \in {"backup_rm", "tmp_rm"}
    BY DEF SaltPersisted, Goto, AfterSalt, TypeOK, ProcsOK
  <2>3. pc[p] # "edited"
    BY <1>w DEF WorkPcs, PersistPcs, AfterSaltPcs
  <2> QED BY <1>w, <2>1, <2>2, <2>3 DEF NamesKept, KeptRing
<1>k. ASSUME UNCHANGED <<ring, orig, mode>>, pc'[p] \in PersistPcs \cup {"salt_undo"}
      PROVE  NamesKept(p)
  BY <1>w, <1>k DEF NamesKept, KeptRing, WorkPcs, PersistPcs, AfterSaltPcs
<1>1. CASE SaltCreate(p)
  BY <1>1, <1>k DEF SaltCreate, Goto, PersistPcs, TypeOK, ProcsOK
<1>2. CASE SaltWrite(p)
  BY <1>2, <1>k DEF SaltWrite, Goto, PersistPcs, TypeOK, ProcsOK
<1>3. CASE SaltSync(p)
  BY <1>3, <1>s DEF SaltSync
<1>4. CASE SaltUndo(p)
  BY <1>4, <1>w, ReturnNames DEF SaltUndo, TypeOK
<1>5. CASE SaltCheck(p)
  BY <1>5, <1>s, <1>w, ReturnNames DEF SaltCheck, TypeOK
<1>6. CASE SaltError(p)
  <2>1. CASE Return(p, ring[p])
    BY <2>1, <1>w, ReturnNames DEF TypeOK
  <2>2. CASE ~Return(p, ring[p])
    BY <1>6, <2>2, <1>k DEF SaltError, Goto, TypeOK, ProcsOK
  <2> QED BY <2>1, <2>2
<1> QED BY <1>1, <1>2, <1>3, <1>4, <1>5, <1>6 DEF PersistSalt

LEMMA FinishConversionNames ==
    ASSUME TypeOK, NEW p \in Procs, FinishConversion(p) \/ BackupError(p)
    PROVE  NamesKept(p)
<1>w. pc[p] \in WorkPcs \ {"conv_salt"}
  BY DEF FinishConversion, BackupRemove, BackupCreate, BackupWrite, UndoBackup, Verify, BackupDrop,
         BackupError, WorkPcs, AfterSaltPcs
<1>k. ASSUME UNCHANGED <<ring, orig, mode>>, pc'[p] \in AfterSaltPcs
      PROVE  NamesKept(p)
  BY <1>w, <1>k DEF NamesKept, KeptRing, WorkPcs, PersistPcs, AfterSaltPcs
<1>1. CASE BackupRemove(p)
  BY <1>1, <1>k DEF BackupRemove, Goto, AfterSaltPcs, TypeOK, ProcsOK
<1>2. CASE BackupCreate(p)
  <2>1. CASE Return(p, ring[p])
    BY <2>1, <1>w, ReturnNames DEF TypeOK
  <2>2. CASE ~Return(p, ring[p])
    BY <1>2, <2>2, <1>k DEF BackupCreate, Goto, AfterSaltPcs, TypeOK, ProcsOK
  <2> QED BY <2>1, <2>2
<1>3. CASE BackupWrite(p)
  BY <1>3, <1>k DEF BackupWrite, Goto, AfterSaltPcs, TypeOK, ProcsOK
<1>4. CASE UndoBackup(p)
  BY <1>4, <1>w, ReturnNames DEF UndoBackup, TypeOK
<1>5. CASE Verify(p)
  <2>1. CASE Return(p, ring[p])
    BY <2>1, <1>w, ReturnNames DEF TypeOK
  <2>2. CASE ~Return(p, ring[p])
    BY <1>5, <2>2, <1>k DEF Verify, Goto, AfterSaltPcs, TypeOK, ProcsOK
  <2> QED BY <2>1, <2>2
<1>6. CASE BackupDrop(p)
  <2>1. CASE Return(p, ring[p])
    BY <2>1, <1>w, ReturnNames DEF TypeOK
  <2>2. CASE Return(p, WithOrigin(ring[p], "v2"))
    <3>1. /\ pc'[p] \in {"idle", "ready"} /\ orig'[p] = Absent
          /\ ring'[p] \in {EmptyRing, WithOrigin(ring[p], "v2")}
      BY <2>2, Returns DEF TypeOK
    <3>2. ring'[p].origin # "pending"
      BY <3>1 DEF EmptyRing, WithOrigin, Ring
    <3>3. pc'[p] = "ready" => mode'[p] = "load"
      BY <2>2 DEF Return, Finish, Goto, TypeOK, ProcsOK
    <3> QED BY <3>1, <3>2, <3>3 DEF NamesKept, WorkPcs, PersistPcs, AfterSaltPcs
  <2> QED BY <1>6, <2>1, <2>2 DEF BackupDrop
<1>7. CASE BackupError(p)
  BY <1>7, <1>w, ReturnNames DEF BackupError, TypeOK
<1> QED BY <1>1, <1>2, <1>3, <1>4, <1>5, <1>6, <1>7 DEF FinishConversion

LEMMA WriteAtomicNames ==
    ASSUME TypeOK, NEW p \in Procs, WriteAtomic(p) \/ TmpError(p) \/ DirSyncError(p), ~DirSync(p)
    PROVE  NamesKept(p)
<1>w. pc[p] \in WorkPcs \ {"conv_salt"}
  BY DEF WriteAtomic, TmpRemove, TmpCreate, TmpWrite, Rename, DirSync, TmpError, DirSyncError,
         WorkPcs, AfterSaltPcs
<1>k. ASSUME UNCHANGED <<ring, orig, mode>>, pc'[p] \in AfterSaltPcs
      PROVE  NamesKept(p)
  BY <1>w, <1>k DEF NamesKept, KeptRing, WorkPcs, PersistPcs, AfterSaltPcs
<1>f. WriteFailed(p) => NamesKept(p)
  BY <1>w, ReturnNames DEF TypeOK
<1>1. CASE TmpRemove(p)
  BY <1>1, <1>k DEF TmpRemove, Goto, AfterSaltPcs, TypeOK, ProcsOK
<1>2. CASE TmpCreate(p)
  BY <1>2, <1>f, <1>k DEF TmpCreate, Goto, AfterSaltPcs, TypeOK, ProcsOK
<1>3. CASE TmpWrite(p)
  BY <1>3, <1>k DEF TmpWrite, Goto, AfterSaltPcs, TypeOK, ProcsOK
<1>4. CASE Rename(p)
  BY <1>4, <1>f, <1>k DEF Rename, Goto, AfterSaltPcs, TypeOK, ProcsOK
<1>5. CASE TmpError(p)
  BY <1>5, <1>f DEF TmpError
<1>6. CASE DirSyncError(p)
  BY <1>6, <1>f DEF DirSyncError
<1> QED BY <1>1, <1>2, <1>3, <1>4, <1>5, <1>6 DEF WriteAtomic

LEMMA DirSyncNames ==
    ASSUME TypeOK, FilesInv, NamesInv, NEW p \in Procs, DirSync(p)
    PROVE  OwnNames(p)'
<1>1. pc[p] = "dir_sync" /\ dir' = dir /\ dir[Keys].fmt = "v2"
  BY DEF DirSync, FilesInv, OwnFiles
<1>2. CASE Converting(p)
  <2>1. pc'[p] = "verify" /\ ring'[p].origin = "converted" /\ orig'[p] = orig[p]
    BY <1>2 DEF DirSync, Goto, WithOrigin, Ring, TypeOK, ProcsOK
  <2> QED BY <1>1, <2>1 DEF NamesInv, OwnNames, PendingKeys
<1>3. CASE ~Converting(p)
  <2>1. pc[p] \in WorkPcs \ {"conv_salt"} /\ KeysStep(p)
    BY <1>1 DEF WorkPcs, AfterSaltPcs, KeysStep
  <2>2. Finish(p) => NamesKept(p)
    BY <2>1, ReturnNames DEF TypeOK
  <2>3. ASSUME ~Finish(p) PROVE NamesKept(p)
    <3>1. pc'[p] = "backup_drop" /\ UNCHANGED <<ring, orig, mode>>
      BY <1>3, <2>3 DEF DirSync, Goto, TypeOK, ProcsOK
    <3> QED BY <1>1, <3>1 DEF NamesKept, KeptRing, WorkPcs, AfterSaltPcs
  <2> QED BY <2>1, <2>2, <2>3, KeptNames
<1> QED BY <1>2, <1>3

LEMMA LoadNames ==
    ASSUME OneOldFile, TypeOK, SaltShape, NamesInv, NEW p \in Procs, Load(p), KeysStep(p)
    PROVE  OwnNames(p)'
<1> USE NoRecords, FileNames DEF TypeOK, FilesOK, ProcsOK
<1>o. OwnNames(p) /\ (dir[Keys].fmt = "v1" => dir[Keys].keys \in OldFiles)
  BY DEF NamesInv
<1>f. Finish(p) => OwnNames(p)'
  <2> SUFFICES ASSUME Finish(p) PROVE OwnNames(p)'
    OBVIOUS
  <2>1. pc'[p] = "idle" /\ orig'[p] = Absent /\ ring'[p] = EmptyRing
    BY Returns
  <2>2. ring'[p].origin = "fresh"
    BY <2>1 DEF EmptyRing, Ring
  <2> QED BY <2>1, <2>2 DEF OwnNames, PendingKeys, WorkPcs, PersistPcs, AfterSaltPcs
<1>1. CASE LoadRead(p)
  <2>1. mode'[p] = "load" /\ dir' = dir
    BY <1>1 DEF LoadRead
  <2>2. CASE dir[Keys].fmt = "v1"
    <3>1. pc'[p] = "conv_salt" /\ orig'[p] = dir[Keys] /\ ring'[p].origin = "pending"
      BY <1>1, <2>2 DEF LoadRead, Goto, Ring
    <3> QED BY <1>o, <2>1, <2>2, <3>1 DEF OwnNames, PendingKeys
  <2>3. CASE dir[Keys].fmt # "v1"
    <3>1. pc'[p] = "load_rm" /\ orig'[p] = orig[p] /\ ring'[p].origin \in {"fresh", "v2"}
      BY <1>1, <2>3 DEF LoadRead, Goto, Ring, EmptyRing
    <3> QED BY <1>o, <2>1, <3>1 DEF OwnNames, PendingKeys, WorkPcs, PersistPcs, AfterSaltPcs
  <2> QED BY <2>2, <2>3
<1>2. CASE LoadRemoveBackup(p)
  <2>1. /\ pc[p] = "load_rm" /\ pc'[p] = "load_salt" /\ orig'[p] = orig[p]
        /\ ring'[p] = ring[p] /\ mode'[p] = mode[p]
    BY <1>2 DEF LoadRemoveBackup, Goto
  <2> QED BY <1>o, <2>1 DEF OwnNames, PendingKeys, WorkPcs, PersistPcs, AfterSaltPcs
<1>3. CASE LoadSalt(p)
  <2>1. CASE Finish(p)
    BY <2>1, <1>f
  <2>2. CASE ~Finish(p)
    <3>1. /\ pc[p] = "load_salt" /\ pc'[p] = "ready" /\ orig'[p] = orig[p] /\ mode'[p] = mode[p]
          /\ ring'[p].origin = ring[p].origin
      BY <1>3, <2>2 DEF LoadSalt, Goto, WithKeys, Ring
    <3> QED BY <1>o, <3>1 DEF OwnNames, PendingKeys, WorkPcs, PersistPcs, AfterSaltPcs
  <2> QED BY <2>1, <2>2
<1>4. CASE ConvertSalt(p)
  <2>1. CASE Finish(p)
    BY <2>1, <1>f
  <2>2. CASE ~Finish(p)
    <3>1. /\ pc[p] = "conv_salt" /\ pc'[p] \in {"backup_rm", "salt_create"}
          /\ orig'[p] = orig[p] /\ mode'[p] = mode[p]
      BY <1>4, <2>2 DEF ConvertSalt, Goto
    <3>2. orig[p].keys \in OldFiles
      BY <1>o, <3>1 DEF OwnNames
    <3>3. PICK s \in Salts, b \in BOOLEAN :
              ring'[p] = Ring(ConvertV1(orig[p].keys, s), s, b, "pending")
      <4>1. CASE dir[Salt].fmt = "salt"
        <5>1. ring'[p] = Ring(ConvertV1(orig[p].keys, dir[Salt].salt), dir[Salt].salt, TRUE, "pending")
          BY <1>4, <2>2, <4>1 DEF ConvertSalt
        <5>2. dir[Salt].salt \in Salts
          BY <4>1 DEF SaltShape
        <5> QED BY <5>1, <5>2
      <4>2. CASE dir[Salt] = Absent
        <5>1. PICK s \in FreshSalts : ring' = [ring EXCEPT ![p] =
                  Ring(ConvertV1(orig[p].keys, s), s, FALSE, "pending")]
          BY <1>4, <2>2, <4>2 DEF ConvertSalt
        <5> QED BY <5>1 DEF FreshSalts
      <4> QED BY <1>4, <2>2, <4>1, <4>2 DEF ConvertSalt
    <3>4. /\ ring'[p].keys = ConvertV1(orig[p].keys, s) /\ ring'[p].salt = s
          /\ ring'[p].origin = "pending" /\ s # NoSalt
      BY <3>3, KeyRecordsAssumption DEF Ring
    <3>5. \A old \in OldFiles : KeepsNames(old, ring'[p].keys) /\ ConvertV1(old, s) \subseteq ring'[p].keys
      BY <3>2, <3>4, ConvertedNames DEF OneOldFile
    <3>6. PendingKeys(p)'
      BY <3>4, <3>5 DEF PendingKeys
    <3> QED BY <1>o, <3>1, <3>2, <3>4, <3>6 DEF OwnNames
  <2> QED BY <2>1, <2>2
<1> QED BY <1>1, <1>2, <1>3, <1>4 DEF Load

LEMMA EditNames ==
    ASSUME TypeOK, NamesInv, NEW p \in Procs, Edit(p)
    PROVE  OwnNames(p)'
<1> USE DEF TypeOK, ProcsOK
<1>1. /\ pc[p] \in {"ready", "learned"} /\ pc'[p] \in {"edited", "learned"}
      /\ orig'[p] = orig[p] /\ mode'[p] = mode[p]
      /\ ring'[p].origin = ring[p].origin
  BY EditSteps DEF Edit, Goto, Edited, Ring
<1>2. ASSUME NEW keys, NEW s, Edited(p, keys, s)
      PROVE  ring'[p].keys = keys /\ ring'[p].salt = s
  BY <1>2 DEF Edited, Ring
<1>o. OwnNames(p)
  BY DEF NamesInv
<1>3. ASSUME ring[p].origin = "pending"
      PROVE  /\ ring'[p].salt = ring[p].salt /\ ring[p].salt # NoSalt
             /\ \A old \in OldFiles : /\ KeepsNames(old, ring'[p].keys)
                                      /\ pc'[p] # "edited" => ConvertV1(old, ring[p].salt) \subseteq ring'[p].keys
  <2>1. /\ ring[p].salt # NoSalt
        /\ \A old \in OldFiles : ConvertV1(old, ring[p].salt) \subseteq ring[p].keys
    BY <1>o, <1>1, <1>3 DEF OwnNames, PendingKeys
  <2>2. \A s \in EnsuredSalts(ring[p]) : s = ring[p].salt
    BY <2>1 DEF EnsuredSalts
  <2>3. CASE EditSetName(p) /\ pc'[p] = "edited"
    <3>1. PICK n \in Names, row \in Rows, st \in {"computer", "key"} :
              \E k \in row, others \in SUBSET row, s \in EnsuredSalts(ring[p]) :
                  Edited(p, SetName(DropOthers(ring[p].keys, n, others \ {k}, ring[p].salt, st),
                                    n, k, s, st), s)
      BY <2>3 DEF EditSetName
    <3>2. PICK k \in row, others \in SUBSET row :
              Edited(p, SetName(DropOthers(ring[p].keys, n, others \ {k}, ring[p].salt, st),
                                n, k, ring[p].salt, st), ring[p].salt)
      BY <2>2, <3>1
    <3> DEFINE new == SetName(DropOthers(ring[p].keys, n, others \ {k}, ring[p].salt, st),
                              n, k, ring[p].salt, st)
    <3>3. \A old \in OldFiles : KeepsNames(old, new)
      BY <2>1, SetNameKeeps
    <3>4. ring'[p].keys = new /\ ring'[p].salt = ring[p].salt
      BY <1>2, <3>2
    <3> HIDE DEF new
    <3> QED BY <2>1, <2>3, <3>3, <3>4
  <2>4. CASE EditClear(p) /\ pc'[p] = "edited"
    <3>1. CASE \E row \in Rows : \E ks \in SUBSET row :
              Edited(p, ClearKey(ring[p].keys, ks, ring[p].salt), ring[p].salt)
      <4>0. PICK row \in Rows : \E ks \in SUBSET row :
                Edited(p, ClearKey(ring[p].keys, ks, ring[p].salt), ring[p].salt)
        BY <3>1
      <4>1. PICK ks \in SUBSET row :
                Edited(p, ClearKey(ring[p].keys, ks, ring[p].salt), ring[p].salt)
        BY <4>0
      <4>2. /\ ring'[p].keys = ClearKey(ring[p].keys, ks, ring[p].salt)
            /\ ring'[p].salt = ring[p].salt
        BY <1>2, <4>1
      <4> QED BY <2>1, <2>4, <4>2, ClearKeeps
    <3>2. CASE \E n \in Names : Edited(p, RemoveName(ring[p].keys, n), ring[p].salt)
      <4>1. PICK n \in Names : Edited(p, RemoveName(ring[p].keys, n), ring[p].salt)
        BY <3>2
      <4>2. ring'[p].keys = RemoveName(ring[p].keys, n) /\ ring'[p].salt = ring[p].salt
        BY <1>2, <4>1
      <4> QED BY <2>1, <2>4, <4>2, ClearKeeps
    <3> QED BY <2>4, <3>1, <3>2 DEF EditClear
  <2>5. CASE EditLearn(p)
    <3>1. PICK n \in Names, k \in Serials :
              \/ Edited(p, RecordFirstSeen(ring[p].keys, n, k, ring[p].salt), ring[p].salt)
              \/ Edited(p, DropStale(ring[p].keys, n, k, ring[p].salt), ring[p].salt)
      BY <2>2, <2>5 DEF EditLearn
    <3>2. /\ ring'[p].salt = ring[p].salt
          /\ ring'[p].keys \in {RecordFirstSeen(ring[p].keys, n, k, ring[p].salt),
                                DropStale(ring[p].keys, n, k, ring[p].salt)}
      BY <1>2, <3>1
    <3>3. \A old \in OldFiles : ConvertV1(old, ring[p].salt) \subseteq ring'[p].keys
      BY <2>1, <3>2, LearnKeeps
    <3> QED BY <2>1, <3>2, <3>3, ConvertedNames
  <2> QED BY <1>1, <2>3, <2>4, <2>5 DEF Edit, Goto
<1>4. PendingKeys(p)'
  BY <1>1, <1>3 DEF PendingKeys
<1> QED BY <1>o, <1>1, <1>4 DEF OwnNames, WorkPcs, PersistPcs, AfterSaltPcs

LEMMA CallerNames ==
    ASSUME TypeOK, NamesInv, NEW p \in Procs, Discard(p) \/ SaveCheck(p) \/ Crash(p)
    PROVE  OwnNames(p)'
<1> USE NoRecords, FileNames DEF TypeOK, FilesOK, ProcsOK
<1>o. OwnNames(p) /\ (dir[Keys].fmt = "v1" => dir[Keys].keys \in OldFiles)
  BY DEF NamesInv
<1>f. Finish(p) => OwnNames(p)'
  <2> SUFFICES ASSUME Finish(p) PROVE OwnNames(p)'
    OBVIOUS
  <2>1. pc'[p] = "idle" /\ orig'[p] = Absent /\ ring'[p] = EmptyRing
    BY Returns
  <2>2. ring'[p].origin = "fresh"
    BY <2>1 DEF EmptyRing, Ring
  <2> QED BY <2>1, <2>2 DEF OwnNames, PendingKeys, WorkPcs, PersistPcs, AfterSaltPcs
<1>1. CASE SaveCheck(p) /\ ~SaveRefused(p)
  <2>1. /\ pc[p] \in {"edited", "learned"} /\ pc'[p] \in {"salt_create", "backup_rm", "tmp_rm"}
        /\ mode'[p] = "save" /\ dir' = dir
    BY <1>1 DEF SaveCheck, Goto
  <2>2. orig'[p] \in {Absent, dir[Keys]}
    BY <1>1 DEF SaveCheck
  <2>3. PICK s \in EnsuredSalts(ring[p]) : ring'[p] = Ring(ring[p].keys, s, ring[p].persisted, ring[p].origin)
    BY <1>1 DEF SaveCheck
  <2>4. ring'[p].keys = ring[p].keys /\ ring'[p].salt = s /\ ring'[p].origin = ring[p].origin
    BY <2>3 DEF Ring
  <2>5. dir[Keys].fmt = "v1" => ring[p].origin = "pending"
    BY <1>1 DEF SaveRefused
  <2>6. PendingKeys(p)'
    BY <1>o, <2>1, <2>3, <2>4 DEF OwnNames, PendingKeys, EnsuredSalts
  <2> QED BY <1>o, <2>1, <2>2, <2>4, <2>5, <2>6 DEF OwnNames
<1> QED BY <1>1, <1>f DEF Discard, Crash, SaveCheck

LEMMA NextNames ==
    ASSUME OneProcess, OneOldFile, TypeOK, SaltShape, WritersInv, FilesInv, NamesInv, [Next]_vars
    PROVE  NamesInv'
<1>1. CASE UNCHANGED vars
  BY <1>1 DEF vars, NamesInv, OwnNames, PendingKeys
<1>2. ASSUME NEW p \in Procs, Step(p) \/ Failure(p) \/ Edit(p) \/ Discard(p) \/ Crash(p)
      PROVE  NamesInv'
  <2>1. KeysStep(p)
    BY <1>2, ProcessFiles DEF FilesStep
  <2>2. OwnNames(p)'
    BY <1>2, <2>1, KeptNames, PersistSaltNames, FinishConversionNames, WriteAtomicNames,
       DirSyncNames, LoadNames, EditNames, CallerNames
       DEF Step, Failure, WriteAtomic
  <2>3. dir'[Keys].fmt = "v1" => dir'[Keys].keys \in OldFiles
    BY <2>1, NoRecords DEF KeysStep, NamesInv
  <2> QED BY <2>2, <2>3 DEF NamesInv, OneProcess
<1>3. CASE ForeignSave
  <2>1. dir'[Keys].fmt = "v1" => dir'[Keys].keys \in OldFiles
    BY <1>3, NoRecords, FileNames DEF ForeignSave, TypeOK, FilesOK
  <2>2. ASSUME NEW p \in Procs PROVE OwnNames(p)'
    BY <1>3 DEF ForeignSave, NamesInv, OwnNames, PendingKeys, WorkPcs, PersistPcs, AfterSaltPcs
  <2> QED BY <2>1, <2>2 DEF NamesInv
<1>4. CASE LoseSalt
  <2>1. dir'[Keys] = dir[Keys] /\ UNCHANGED <<pc, mode, ring, orig>>
    BY <1>4, FileNames, DistinctFiles DEF LoseSalt, Removed, TypeOK, FilesOK
  <2> QED BY <2>1 DEF NamesInv, OwnNames, PendingKeys
<1> QED BY <1>1, <1>2, <1>3, <1>4 DEF Next

LEMMA NamesInvHolds ==
    ASSUME OneProcess, OneOldFile
    PROVE  Spec => []NamesInv
<1>1. Init => NamesInv
  <2> SUFFICES ASSUME Init PROVE NamesInv
    OBVIOUS
  <2>1. dir[Keys].fmt = "v1" => dir[Keys].keys \in OldFiles
    BY NoRecords, FileNames DEF Init
  <2>2. \A p \in Procs : pc[p] = "idle" /\ orig[p] = Absent /\ ring[p].origin = "fresh"
    BY DEF Init, EmptyRing, Ring
  <2> QED BY <2>1, <2>2, NoRecords
          DEF NamesInv, OwnNames, PendingKeys, WorkPcs, PersistPcs, AfterSaltPcs
<1>2. TypeOK /\ SaltInv /\ FilesInv /\ NamesInv /\ [Next]_vars => NamesInv'
  BY NextNames DEF SaltInv
<1> QED BY <1>1, <1>2, FilesInvHolds, TypeCorrect, SaltInvHolds, PTL DEF Spec

\* With one process at a time, and version 1 files that all have the same names,
\* what replaces a version 1 file is a whole version 2 file with all its names but
\* those that the one command cleared or renamed, whatever failed in between and
\* however many saves and loads the conversion took.
THEOREM ConversionKeeps ==
    ASSUME OneProcess, OneOldFile
    PROVE  Spec => ConversionKeepsNames
<1>1. TypeOK /\ SaltInv /\ FilesInv /\ NamesInv /\ [Next]_vars =>
          [dir[Keys].fmt = "v1" /\ foreign' = foreign /\ dir'[Keys] # dir[Keys] =>
               dir'[Keys].fmt = "v2" /\ KeepsNames(dir[Keys].keys, dir'[Keys].keys)]_vars
  <2> SUFFICES ASSUME TypeOK, SaltInv, FilesInv, NamesInv, [Next]_vars,
                      dir[Keys].fmt = "v1", foreign' = foreign, dir'[Keys] # dir[Keys]
               PROVE  dir'[Keys].fmt = "v2" /\ KeepsNames(dir[Keys].keys, dir'[Keys].keys)
    OBVIOUS
  <2>1. PICK p \in Procs : pc[p] = "rename" /\ dir'[Keys] = V2(ring[p].keys)
    BY KeysSteps DEF SaltInv
  <2>2. ring[p].origin = "pending" /\ dir[Keys].keys \in OldFiles
    BY <2>1 DEF NamesInv, OwnNames, WorkPcs, AfterSaltPcs
  <2>3. KeepsNames(dir[Keys].keys, ring[p].keys)
    BY <2>1, <2>2 DEF NamesInv, OwnNames, PendingKeys
  <2> QED BY <2>1, <2>3, NoRecords
<1> QED BY <1>1, NamesInvHolds, FilesInvHolds, TypeCorrect, SaltInvHolds, PTL
        DEF Spec, ConversionKeepsNames

----------------------------------------------------------------------------
(* Fingerprints and the salt, when calls may fail.                         *)

NoPrints == \A f \in Files : \A r \in dir[f].keys : r.salt = NoSalt

\* What RingInv says, for one process: it may undo a salt that it made, because
\* it made it where there was none, and then nothing is fingerprinted yet.
OwnPrints(p) ==
    /\ ring[p].persisted => ring[p].salt # NoSalt /\ dir[Salt] = SaltFile(ring[p].salt)
    /\ IF pc[p] \in {"load_rm", "load_salt"}
       THEN Reproducible(ring[p].keys)
       ELSE \A r \in ring[p].keys : r.salt \in {NoSalt, ring[p].salt}
    /\ pc[p] \in AfterSaltPcs => ring[p].persisted
    /\ pc[p] \in PersistPcs \cup {"salt_undo"} => ~ring[p].persisted
    /\ pc[p] = "salt_write" => p \in writer[Salt]
    /\ pc[p] = "salt_sync" => dir[Salt] = SaltFile(ring[p].salt)
    /\ pc[p] \in {"salt_write", "salt_sync", "salt_undo"} => NoPrints

Prints == (\A f \in Files : Reproducible(dir[f].keys)) /\ \A p \in Procs : OwnPrints(p)

PrintsInv == saltLosses = 0 => Prints

\* The step of the one process.
PrintsStep(p) == (\A f \in Files : Reproducible(dir[f].keys)') /\ OwnPrints(p)'

SameSalt == dir'[Salt] = dir[Salt]

\* The ring goes, or stays with a process that has not to write a salt.
CopiedRing(p) ==
    \/ ring'[p] = EmptyRing /\ pc'[p] \in {"idle", "ready"}
    \/ /\ ring'[p].keys = ring[p].keys /\ ring'[p].salt = ring[p].salt
       /\ ring'[p].persisted = ring[p].persisted
       /\ pc'[p] \in AfterSaltPcs \cup {"idle", "ready"}

LEMMA ReturnCopies ==
    ASSUME ProcsOK, NEW p \in Procs
    PROVE  /\ Finish(p) => CopiedRing(p)
           /\ Return(p, ring[p]) => CopiedRing(p)
           /\ Return(p, WithOrigin(ring[p], "v2")) => CopiedRing(p)
           /\ WriteFailed(p) => CopiedRing(p)
<1>1. /\ WithOrigin(ring[p], "v2").keys = ring[p].keys
      /\ WithOrigin(ring[p], "v2").salt = ring[p].salt
      /\ WithOrigin(ring[p], "v2").persisted = ring[p].persisted
  BY DEF WithOrigin, Ring
<1>2. Finish(p) => CopiedRing(p)
  BY Returns DEF CopiedRing
<1>3. Return(p, ring[p]) => CopiedRing(p)
  BY Returns DEF CopiedRing
<1>4. Return(p, WithOrigin(ring[p], "v2")) => CopiedRing(p)
  BY <1>1, Returns DEF CopiedRing
<1>5. WriteFailed(p) => CopiedRing(p)
  BY Returns DEF CopiedRing, AfterSaltPcs
<1> QED BY <1>2, <1>3, <1>4, <1>5

\* The ring of a process past its load keeps what is said of it.
LEMMA CopiedPrints ==
    ASSUME NEW p \in Procs, OwnPrints(p), SameSalt, CopiedRing(p),
           pc[p] \notin {"load_rm", "load_salt"},
           pc'[p] \in AfterSaltPcs => pc[p] \in AfterSaltPcs
    PROVE  OwnPrints(p)'
<1>1. CASE ring'[p] = EmptyRing /\ pc'[p] \in {"idle", "ready"}
  BY <1>1, NoRecords DEF OwnPrints, AfterSaltPcs, PersistPcs
<1>2. CASE ~(ring'[p] = EmptyRing /\ pc'[p] \in {"idle", "ready"})
  BY <1>2 DEF OwnPrints, CopiedRing, SameSalt, AfterSaltPcs, PersistPcs
<1> QED BY <1>1, <1>2

LEMMA AfterSaltPrints ==
    ASSUME TypeOK, SaltShape, Prints, NEW p \in Procs, pc[p] \in AfterSaltPcs,
           Copies(p), SameSalt, CopiedRing(p)
    PROVE  PrintsStep(p)
<1>1. OwnPrints(p) /\ \A f \in Files : Reproducible(dir[f].keys)
  BY DEF Prints
<1>2. OwnPrints(p)'
  BY <1>1, CopiedPrints DEF AfterSaltPcs
<1>3. Reproducible(ring[p].keys)
  BY <1>1 DEF OwnPrints, Reproducible, AfterSaltPcs
<1>4. ASSUME NEW f \in Files PROVE Reproducible(dir[f].keys)'
  BY <1>1, <1>3, NoRecords DEF Copies, Reproducible, SameSalt, SaltShape
<1> QED BY <1>2, <1>4 DEF PrintsStep

LEMMA FinishConversionRing ==
    ASSUME TypeOK, WritersInv, NEW p \in Procs, FinishConversion(p) \/ BackupError(p)
    PROVE  pc[p] \in AfterSaltPcs /\ SameSalt /\ CopiedRing(p)
<1> USE FileNames, DistinctFiles DEF TypeOK, FilesOK
<1>w. pc[p] \in AfterSaltPcs
  BY DEF FinishConversion, BackupRemove, BackupCreate, BackupWrite, UndoBackup, Verify, BackupDrop,
         BackupError, AfterSaltPcs
<1>k. ASSUME UNCHANGED ring, pc'[p] \in AfterSaltPcs PROVE CopiedRing(p)
  BY <1>k DEF CopiedRing
<1>1. SameSalt
  <2>1. CASE BackupWrite(p)
    BY <2>1 DEF BackupWrite, Written, WritersInv, SameSalt
  <2>2. CASE ~BackupWrite(p)
    BY <2>2 DEF FinishConversion, BackupRemove, BackupCreate, UndoBackup, Verify, BackupDrop,
                BackupError, Removed, Created, SameSalt
  <2> QED BY <2>1, <2>2
<1>2. CopiedRing(p)
  <2> USE DEF ProcsOK
  <2>1. CASE BackupRemove(p) \/ BackupWrite(p)
    BY <2>1, <1>k DEF BackupRemove, BackupWrite, Goto, AfterSaltPcs
  <2>2. CASE BackupCreate(p)
    BY <2>2, <1>k, ReturnCopies DEF BackupCreate, Goto, AfterSaltPcs
  <2>3. CASE UndoBackup(p) \/ BackupError(p)
    BY <2>3, ReturnCopies DEF UndoBackup, BackupError
  <2>4. CASE Verify(p)
    BY <2>4, <1>k, ReturnCopies DEF Verify, Goto, AfterSaltPcs
  <2>5. CASE BackupDrop(p)
    <3>1. Return(p, ring[p]) \/ Return(p, WithOrigin(ring[p], "v2"))
      BY <2>5 DEF BackupDrop
    <3> QED BY <3>1, ReturnCopies
  <2> QED BY <2>1, <2>2, <2>3, <2>4, <2>5 DEF FinishConversion
<1> QED BY <1>w, <1>1, <1>2

LEMMA FinishConversionPrints ==
    ASSUME TypeOK, SaltShape, WritersInv, Prints, NEW p \in Procs, FinishConversion(p) \/ BackupError(p)
    PROVE  PrintsStep(p)
BY FinishConversionRing, FinishConversionCopies, AfterSaltPrints

LEMMA WriteAtomicRing ==
    ASSUME TypeOK, WritersInv, NEW p \in Procs,
           WriteAtomic(p) \/ TmpError(p) \/ DirSyncError(p)
    PROVE  pc[p] \in AfterSaltPcs /\ SameSalt /\ CopiedRing(p)
<1> USE FileNames, DistinctFiles DEF TypeOK, FilesOK
<1>w. pc[p] \in AfterSaltPcs
  BY DEF WriteAtomic, TmpRemove, TmpCreate, TmpWrite, Rename, DirSync, TmpError, DirSyncError, AfterSaltPcs
<1>k. ASSUME UNCHANGED ring, pc'[p] \in AfterSaltPcs PROVE CopiedRing(p)
  BY <1>k DEF CopiedRing
<1>1. SameSalt
  <2>1. CASE TmpWrite(p)
    BY <2>1 DEF TmpWrite, Written, WritersInv, SameSalt
  <2>2. CASE ~TmpWrite(p)
    BY <2>2 DEF WriteAtomic, TmpRemove, TmpCreate, Rename, DirSync, TmpError, DirSyncError,
                Removed, Created, SameSalt
  <2> QED BY <2>1, <2>2
<1>2. CopiedRing(p)
  <2> USE DEF ProcsOK
  <2>1. CASE TmpRemove(p) \/ TmpWrite(p)
    BY <2>1, <1>k DEF TmpRemove, TmpWrite, Goto, AfterSaltPcs
  <2>2. CASE TmpCreate(p) \/ Rename(p)
    BY <2>2, <1>k, ReturnCopies DEF TmpCreate, Rename, Goto, AfterSaltPcs
  <2>3. CASE TmpError(p) \/ DirSyncError(p)
    BY <2>3, ReturnCopies DEF TmpError, DirSyncError
  <2>4. CASE DirSync(p)
    <3>1. CASE Converting(p)
      <4>1. ring'[p] = WithOrigin(ring[p], "converted") /\ pc'[p] = "verify"
        BY <2>4, <3>1 DEF DirSync, Goto
      <4> QED BY <4>1 DEF CopiedRing, WithOrigin, Ring, AfterSaltPcs
    <3>2. CASE ~Converting(p)
      BY <2>4, <3>2, <1>k, ReturnCopies DEF DirSync, Goto, AfterSaltPcs
    <3> QED BY <3>1, <3>2
  <2> QED BY <2>1, <2>2, <2>3, <2>4 DEF WriteAtomic
<1> QED BY <1>w, <1>1, <1>2

LEMMA WriteAtomicPrints ==
    ASSUME TypeOK, SaltShape, WritersInv, Prints, NEW p \in Procs,
           WriteAtomic(p) \/ TmpError(p) \/ DirSyncError(p)
    PROVE  PrintsStep(p)
BY WriteAtomicRing, WriteAtomicCopies, AfterSaltPrints

LEMMA LoadPrints ==
    ASSUME TypeOK, SaltShape, Prints, NEW p \in Procs, Load(p)
    PROVE  PrintsStep(p)
<1> USE FileNames, DistinctFiles, NoRecords DEF TypeOK, FilesOK, ProcsOK
<1>r. OwnPrints(p) /\ \A f \in Files : Reproducible(dir[f].keys)
  BY DEF Prints
<1>s. SameSalt
  BY DEF Load, LoadRead, LoadRemoveBackup, LoadSalt, ConvertSalt, Removed, SameSalt
<1>d. ASSUME NEW f \in Files PROVE Reproducible(dir[f].keys)'
  <2>1. dir'[f] \in {dir[f], Absent}
    BY DEF Load, LoadRead, LoadRemoveBackup, LoadSalt, ConvertSalt, Removed
  <2> QED BY <1>r, <1>s, <2>1 DEF Reproducible, SameSalt
<1>f. Finish(p) => OwnPrints(p)'
  BY Returns DEF OwnPrints, AfterSaltPcs, PersistPcs
<1>1. CASE LoadRead(p)
  <2>1. pc'[p] \in {"load_rm", "conv_salt"} /\ ring'[p].persisted = FALSE
    BY <1>1 DEF LoadRead, Goto, Ring
  <2>2. (ring'[p].keys = {}) \/ (ring'[p].keys = dir[Keys].keys /\ pc'[p] = "load_rm")
    <3>1. CASE dir[Keys].fmt = "v2" /\ ring' = [ring EXCEPT ![p] = Ring(dir[Keys].keys, NoSalt, FALSE, "v2")]
      BY <1>1, <3>1 DEF LoadRead, Goto, Ring, Absent
    <3>2. CASE ring' = [ring EXCEPT ![p] = EmptyRing] \/ ring' = [ring EXCEPT ![p] = Ring({}, NoSalt, FALSE, "pending")]
      BY <3>2 DEF Ring
    <3> QED BY <1>1, <3>1, <3>2 DEF LoadRead
  <2>3. pc'[p] = "load_rm" => Reproducible(ring[p].keys)'
    BY <1>r, <1>s, <2>2 DEF Reproducible, SameSalt
  <2>4. OwnPrints(p)'
    BY <2>1, <2>2, <2>3 DEF OwnPrints, AfterSaltPcs, PersistPcs
  <2> QED BY <1>d, <2>4 DEF PrintsStep
<1>2. CASE LoadRemoveBackup(p)
  <2>1. pc[p] = "load_rm" /\ pc'[p] = "load_salt" /\ ring'[p] = ring[p]
    BY <1>2 DEF LoadRemoveBackup, Goto
  <2>2. OwnPrints(p)'
    BY <1>r, <1>s, <2>1 DEF OwnPrints, AfterSaltPcs, PersistPcs, Reproducible, SameSalt
  <2> QED BY <1>d, <2>2 DEF PrintsStep
<1>3. CASE LoadSalt(p)
  <2>0. pc[p] = "load_salt" /\ Reproducible(ring[p].keys)
    BY <1>3, <1>r DEF LoadSalt, OwnPrints
  <2>1. CASE Finish(p)
    BY <2>1, <1>d, <1>f DEF PrintsStep
  <2>2. CASE dir[Salt] = Absent /\ ~Finish(p)
    <3>1. pc'[p] = "ready" /\ ring'[p] = WithKeys(ring[p], Unmatched(ring[p].keys))
      BY <1>3, <2>2 DEF LoadSalt, Goto
    <3>2. ring'[p].keys = Unmatched(ring[p].keys) /\ ring'[p].persisted = ring[p].persisted
      BY <3>1 DEF WithKeys, Ring
    <3>3. \A r \in ring'[p].keys : r.salt = NoSalt
      BY <3>2 DEF Unmatched, RecordOf
    <3>4. ~ring[p].persisted
      BY <1>r, <2>2 DEF OwnPrints
    <3>5. OwnPrints(p)'
      BY <3>1, <3>2, <3>3, <3>4 DEF OwnPrints, AfterSaltPcs, PersistPcs
    <3> QED BY <1>d, <3>5 DEF PrintsStep
  <2>3. CASE dir[Salt].fmt = "salt" /\ ~Finish(p)
    <3>1. pc'[p] = "ready" /\ ring'[p] = Ring(ring[p].keys, dir[Salt].salt, TRUE, ring[p].origin)
      BY <1>3, <2>3 DEF LoadSalt, Goto
    <3>2. ring'[p].keys = ring[p].keys /\ ring'[p].salt = dir[Salt].salt
      BY <3>1 DEF Ring
    <3>3. dir[Salt] = SaltFile(dir[Salt].salt) /\ dir[Salt].salt # NoSalt
      BY <2>3, KeyRecordsAssumption DEF SaltShape
    <3>4. \A r \in ring[p].keys : r.salt \in {NoSalt, dir[Salt].salt}
      BY <2>0 DEF Reproducible
    <3>5. OwnPrints(p)'
      BY <1>s, <3>1, <3>2, <3>3, <3>4 DEF OwnPrints, AfterSaltPcs, PersistPcs, SameSalt
    <3> QED BY <1>d, <3>5 DEF PrintsStep
  <2> QED BY <1>3, <2>1, <2>2, <2>3 DEF LoadSalt
<1>4. CASE ConvertSalt(p)
  <2>1. CASE Finish(p)
    BY <2>1, <1>d, <1>f DEF PrintsStep
  <2>2. CASE ~Finish(p)
    <3>1. \A s : \A r \in ConvertV1(orig[p].keys, s) : r.salt \in {NoSalt, s}
      BY DEF ConvertV1, RecordOf
    <3>2. CASE dir[Salt].fmt = "salt"
      <4>1. /\ pc'[p] = "backup_rm"
            /\ ring'[p] = Ring(ConvertV1(orig[p].keys, dir[Salt].salt), dir[Salt].salt, TRUE, "pending")
        BY <1>4, <2>2, <3>2 DEF ConvertSalt, Goto
      <4>2. /\ ring'[p].keys = ConvertV1(orig[p].keys, dir[Salt].salt)
            /\ ring'[p].salt = dir[Salt].salt /\ ring'[p].persisted
        BY <4>1 DEF Ring
      <4>3. dir[Salt] = SaltFile(dir[Salt].salt) /\ dir[Salt].salt # NoSalt
        BY <3>2, KeyRecordsAssumption DEF SaltShape
      <4>4. \A r \in ring'[p].keys : r.salt \in {NoSalt, ring'[p].salt}
        BY <3>1, <4>2
      <4>5. OwnPrints(p)'
        BY <1>s, <4>1, <4>2, <4>3, <4>4 DEF OwnPrints, AfterSaltPcs, PersistPcs, SameSalt
      <4> QED BY <1>d, <4>5 DEF PrintsStep
    <3>3. CASE dir[Salt] = Absent
      <4>1. PICK s \in FreshSalts : ring' = [ring EXCEPT ![p] =
                Ring(ConvertV1(orig[p].keys, s), s, FALSE, "pending")]
        BY <1>4, <2>2, <3>3 DEF ConvertSalt
      <4>2. /\ ring'[p].keys = ConvertV1(orig[p].keys, s)
            /\ ring'[p].salt = s /\ ring'[p].persisted = FALSE /\ pc'[p] = "salt_create"
        BY <1>4, <2>2, <3>3, <4>1 DEF Ring, ConvertSalt, Goto
      <4>3. OwnPrints(p)'
        BY <3>1, <4>2 DEF OwnPrints, AfterSaltPcs, PersistPcs
      <4> QED BY <1>d, <4>3 DEF PrintsStep
    <3> QED BY <1>4, <2>2, <3>2, <3>3 DEF ConvertSalt
  <2> QED BY <2>1, <2>2
<1> QED BY <1>1, <1>2, <1>3, <1>4 DEF Load

LEMMA PersistSaltPrints ==
    ASSUME TypeOK, SaltShape, WritersInv, Prints, NEW p \in Procs, PersistSalt(p) \/ SaltError(p)
    PROVE  PrintsStep(p)
<1> USE FileNames, DistinctFiles, NoRecords DEF TypeOK, FilesOK, ProcsOK
<1>r. OwnPrints(p) /\ \A f \in Files : Reproducible(dir[f].keys)
  BY DEF Prints
<1>w. /\ pc[p] \in PersistPcs \cup {"salt_undo"} /\ ~ring[p].persisted
      /\ pc[p] \in PersistPcs => ring[p].salt # NoSalt
      /\ \A r \in ring[p].keys : r.salt \in {NoSalt, ring[p].salt}
  <2>1. pc[p] \in PersistPcs \cup {"salt_undo"}
    BY DEF PersistSalt, SaltCreate, SaltWrite, SaltSync, SaltUndo, SaltCheck, SaltError, PersistPcs
  <2> QED BY <1>r, <2>1 DEF OwnPrints, SaltShape, PersistPcs
<1>n. NoPrints' => \A f \in Files : Reproducible(dir[f].keys)'
  BY DEF NoPrints, Reproducible
<1>d. dir' = dir => \A f \in Files : Reproducible(dir[f].keys)'
  BY <1>r DEF Reproducible
\* A ring that the call leaves as it is.
<1>k. ASSUME ring'[p] = ring[p], pc'[p] \in PersistPcs \cup {"salt_undo"},
             pc'[p] = "salt_write" => p \in writer'[Salt],
             pc'[p] = "salt_sync" => dir'[Salt] = SaltFile(ring[p].salt),
             pc'[p] # "salt_check" => NoPrints'
      PROVE  OwnPrints(p)'
  BY <1>k, <1>w DEF OwnPrints, PersistPcs, AfterSaltPcs
<1>p. SaltPersisted(p) /\ dir' = dir /\ dir[Salt] = SaltFile(ring[p].salt) /\ ring[p].salt # NoSalt
          => OwnPrints(p)'
  <2> SUFFICES ASSUME SaltPersisted(p), dir' = dir, dir[Salt] = SaltFile(ring[p].salt), ring[p].salt # NoSalt
               PROVE  OwnPrints(p)'
    OBVIOUS
  <2>1. pc'[p] \in {"backup_rm", "tmp_rm"} /\ ring'[p].keys = ring[p].keys /\ ring'[p].salt = ring[p].salt
        /\ ring'[p].persisted
    BY DEF SaltPersisted, Goto, AfterSalt, Ring
  <2>2. \A r \in ring'[p].keys : r.salt \in {NoSalt, ring'[p].salt}
    BY <1>w, <2>1
  <2>3. ring'[p].salt # NoSalt /\ dir'[Salt] = SaltFile(ring'[p].salt)
    BY <2>1
  <2> QED BY <2>1, <2>2, <2>3 DEF OwnPrints, PersistPcs, AfterSaltPcs
<1>t. Return(p, ring[p]) => OwnPrints(p)'
  <2> SUFFICES ASSUME Return(p, ring[p]) PROVE OwnPrints(p)'
    OBVIOUS
  <2>1. pc'[p] \in {"idle", "ready"} /\ ring'[p] \in {EmptyRing, ring[p]}
    BY Returns
  <2> QED BY <1>w, <2>1 DEF OwnPrints, PersistPcs, AfterSaltPcs
<1>1. CASE SaltCreate(p)
  <2>1. CASE dir[Salt] = Absent
    <3>1. dir'[Salt] = Torn /\ writer'[Salt] = {p} /\ \A f \in Files : f # Salt => dir'[f] = dir[f]
      BY <1>1, <2>1 DEF SaltCreate, Created
    <3>2. NoPrints'
      BY <1>r, <2>1, <3>1 DEF NoPrints, Reproducible
    <3>3. ring'[p] = ring[p] /\ pc'[p] = "salt_write"
      BY <1>1, <2>1 DEF SaltCreate, Goto
    <3> QED BY <1>k, <1>n, <3>1, <3>2, <3>3 DEF PrintsStep, PersistPcs
  <2>2. CASE dir[Salt] # Absent
    <3>1. ring'[p] = ring[p] /\ pc'[p] = "salt_check" /\ dir' = dir
      BY <1>1, <2>2 DEF SaltCreate, Goto
    <3> QED BY <1>k, <1>d, <3>1 DEF PrintsStep, PersistPcs
  <2> QED BY <2>1, <2>2
<1>2. CASE SaltWrite(p)
  <2>1. ring'[p] = ring[p] /\ pc[p] = "salt_write" /\ pc'[p] = "salt_sync"
    BY <1>2 DEF SaltWrite, Goto
  <2>2. NoPrints /\ \A f \in Files : p \in writer[f] <=> f = Salt
    BY <1>r, <2>1 DEF OwnPrints, WritersInv
  <2>3. dir'[Salt] = SaltFile(ring[p].salt) /\ \A f \in Files : f # Salt => dir'[f] = dir[f]
    BY <1>2, <2>2 DEF SaltWrite, Written
  <2>4. NoPrints'
    BY <2>2, <2>3 DEF NoPrints
  <2> QED BY <1>k, <1>n, <2>1, <2>3, <2>4 DEF PrintsStep, PersistPcs
<1>3. CASE SaltSync(p)
  <2>1. SaltPersisted(p) /\ dir' = dir /\ dir[Salt] = SaltFile(ring[p].salt) /\ ring[p].salt # NoSalt
    BY <1>3, <1>r, <1>w DEF SaltSync, OwnPrints, PersistPcs
  <2> QED BY <1>p, <1>d, <2>1 DEF PrintsStep
<1>4. CASE SaltUndo(p)
  <2>1. NoPrints /\ Return(p, ring[p]) /\ \A f \in Files : dir'[f] \in {dir[f], Absent}
    BY <1>4, <1>r DEF SaltUndo, OwnPrints, Removed
  <2>2. NoPrints'
    BY <2>1 DEF NoPrints
  <2> QED BY <1>n, <1>t, <2>1, <2>2 DEF PrintsStep
<1>5. CASE SaltCheck(p)
  <2>1. dir' = dir /\ ring[p].salt # NoSalt
    BY <1>5, <1>w DEF SaltCheck, PersistPcs
  <2> QED BY <1>5, <1>d, <1>p, <1>t, <2>1 DEF SaltCheck, PrintsStep
<1>6. CASE SaltError(p)
  <2>1. CASE pc[p] = "salt_create"
    BY <1>6, <2>1, <1>d, <1>t DEF SaltError, PrintsStep
  <2>2. CASE pc[p] \in {"salt_write", "salt_sync"}
    <3>1. ring'[p] = ring[p] /\ pc'[p] = "salt_undo" /\ dir' = dir
      BY <1>6, <2>2 DEF SaltError, Goto
    <3>2. NoPrints'
      BY <1>r, <2>2, <3>1 DEF OwnPrints, NoPrints
    <3> QED BY <1>k, <1>d, <3>1, <3>2 DEF PrintsStep
  <2> QED BY <1>6, <2>1, <2>2 DEF SaltError
<1> QED BY <1>1, <1>2, <1>3, <1>4, <1>5, <1>6 DEF PersistSalt

LEMMA CallerPrints ==
    ASSUME TypeOK, Prints, NEW p \in Procs, Edit(p) \/ Discard(p) \/ SaveCheck(p) \/ Crash(p)
    PROVE  PrintsStep(p)
<1> USE NoRecords DEF TypeOK, ProcsOK
<1>r. OwnPrints(p) /\ \A f \in Files : Reproducible(dir[f].keys)
  BY DEF Prints
<1>d. dir' = dir
  BY EditSteps DEF Discard, SaveCheck, Crash
<1>e. \A f \in Files : Reproducible(dir[f].keys)'
  BY <1>r, <1>d DEF Reproducible
<1>f. Finish(p) => OwnPrints(p)'
  BY Returns DEF OwnPrints, AfterSaltPcs, PersistPcs
<1>1. CASE Edit(p)
  <2>1. /\ pc[p] \in {"ready", "learned"} /\ pc'[p] \in {"edited", "learned"}
        /\ ring'[p].persisted = ring[p].persisted
    BY <1>1, EditSteps DEF Edit, Goto, Edited, Ring
  <2>2. /\ ring[p].salt # NoSalt => ring'[p].salt = ring[p].salt
        /\ \A r \in ring'[p].keys : r \in ring[p].keys \/ r.salt \in {NoSalt, ring'[p].salt}
    BY <1>1, EditedSalts
  <2>3. OwnPrints(p)'
    BY <1>r, <1>d, <2>1, <2>2 DEF OwnPrints, AfterSaltPcs, PersistPcs
  <2> QED BY <1>e, <2>3 DEF PrintsStep
<1>2. CASE SaveCheck(p) /\ ~SaveRefused(p)
  <2>1. PICK s \in EnsuredSalts(ring[p]) :
            ring'[p] = Ring(ring[p].keys, s, ring[p].persisted, ring[p].origin)
    BY <1>2 DEF SaveCheck
  <2>2. /\ ring'[p].keys = ring[p].keys /\ ring'[p].salt = s
        /\ ring'[p].persisted = ring[p].persisted
        /\ ring[p].salt # NoSalt => s = ring[p].salt
    BY <2>1 DEF Ring, EnsuredSalts
  <2>3. /\ pc[p] \in {"edited", "learned"} /\ pc'[p] \in {"salt_create", "backup_rm", "tmp_rm"}
        /\ pc'[p] # "salt_create" <=> ring[p].persisted
    BY <1>2 DEF SaveCheck, Goto
  <2>4. OwnPrints(p)'
    BY <1>r, <1>d, <2>2, <2>3 DEF OwnPrints, AfterSaltPcs, PersistPcs
  <2> QED BY <1>e, <2>4 DEF PrintsStep
<1> QED BY <1>1, <1>2, <1>e, <1>f DEF Discard, SaveCheck, Crash, PrintsStep

LEMMA NextPrints ==
    ASSUME OneProcess, TypeOK, SaltShape, WritersInv, PrintsInv, [Next]_vars
    PROVE  PrintsInv'
<1>1. CASE UNCHANGED vars
  BY <1>1 DEF vars, PrintsInv, Prints, OwnPrints, Reproducible, NoPrints
<1>2. ASSUME NEW p \in Procs, Step(p) \/ Failure(p) \/ Edit(p) \/ Discard(p) \/ Crash(p)
      PROVE  PrintsInv'
  <2> SUFFICES ASSUME saltLosses' = 0 PROVE Prints'
    BY DEF PrintsInv
  <2>1. saltLosses' = saltLosses
    BY <1>2
       DEF Step, Failure, Load, PersistSalt, FinishConversion, WriteAtomic, Edit, Discard,
           Crash, SaveCheck, LoadRead, LoadRemoveBackup, LoadSalt, ConvertSalt,
           SaltCreate, SaltWrite, SaltSync, SaltUndo, SaltCheck, SaltError,
           BackupRemove, BackupCreate, BackupWrite, UndoBackup, Verify, BackupDrop,
           BackupError, TmpRemove, TmpCreate, TmpWrite, Rename, DirSync, TmpError,
           DirSyncError, UnchangedEnv
  <2>2. PrintsStep(p)
    BY <1>2, <2>1, LoadPrints, PersistSaltPrints, FinishConversionPrints, WriteAtomicPrints, CallerPrints
       DEF Step, Failure, PrintsInv
  <2> QED BY <2>2 DEF PrintsStep, Prints, OneProcess
<1>3. CASE ForeignSave
  <2>1. /\ UNCHANGED <<pc, ring, saltLosses>>
        /\ \A f \in Files : f # Keys => dir'[f] = dir[f] /\ writer'[f] = writer[f]
        /\ \A r \in dir'[Keys].keys : r.salt = NoSalt
    BY <1>3, NoRecords, FileNames, KeyringStoreAssumption DEF ForeignSave, TypeOK, FilesOK
  <2>2. dir'[Salt] = dir[Salt] /\ writer'[Salt] = writer[Salt]
    BY <2>1, FileNames, DistinctFiles
  <2>3. NoPrints => NoPrints'
    BY <2>1 DEF NoPrints
  <2>4. Prints => Prints'
    BY <2>1, <2>2, <2>3 DEF Prints, OwnPrints, Reproducible
  <2> QED BY <2>1, <2>4 DEF PrintsInv
<1>4. CASE LoseSalt
  BY <1>4 DEF LoseSalt, PrintsInv, TypeOK, BoundsOK
<1> QED BY <1>1, <1>2, <1>3, <1>4 DEF Next

\* With one process at a time, and unless the user deletes keys.salt, every
\* fingerprint in keys.json is reproduced by the salt on disk, also where a write
\* or a sync of the salt fails and persist_salt removes the file again.
THEOREM PrintsReproducible ==
    ASSUME OneProcess
    PROVE  Spec => []FingerprintsReproducible
<1>1. Init => PrintsInv
  <2> SUFFICES ASSUME Init PROVE PrintsInv
    OBVIOUS
  <2>1. \A f \in Files : \A r \in dir[f].keys : r.salt = NoSalt
    BY NoRecords, KeyringStoreAssumption DEF Init
  <2>2. Prints
    BY <2>1, NoRecords DEF Init, Prints, OwnPrints, Reproducible, AfterSaltPcs, PersistPcs
  <2> QED BY <2>2 DEF PrintsInv
<1>2. TypeOK /\ SaltInv /\ PrintsInv /\ [Next]_vars => PrintsInv'
  BY NextPrints DEF SaltInv
<1>3. PrintsInv => FingerprintsReproducible
  BY FileNames DEF PrintsInv, Prints, FingerprintsReproducible
<1> QED BY <1>1, <1>2, <1>3, TypeCorrect, SaltInvHolds, PTL DEF Spec

----------------------------------------------------------------------------
(* What a caller sees of the records.                                      *)

LEMMA SeenFields ==
    ASSUME NEW r, NEW t
    PROVE  /\ SeenAs(r, t).name = r.name /\ SeenAs(r, t).salt = NoSalt
           /\ SeenAs(r, t).stored = r.stored
           /\ SeenAs(r, t).serial = IF r.salt \in {NoSalt, t} THEN r.serial ELSE NoSerial
BY DEF SeenAs, RecordOf

\* A fingerprinted record is matched to a key under a salt if it is seen to be.
LEMMA SeenMatch ==
    ASSUME NEW r, NEW t, r.serial # NoSerial => r.salt # NoSalt, NEW k \in Serials
    PROVE  IsOf(r, k, t) <=> IsOf(SeenAs(r, t), k, NoSalt)
<1>1. k # NoSerial
  BY KeyRecordsAssumption
<1> QED BY <1>1, SeenFields DEF IsOf

\* Filters on what is seen.
LEMMA SeenFilter ==
    ASSUME NEW keys, NEW t, NEW new \in SUBSET keys, NEW seen,
           seen \subseteq Seen(keys, t),
           \A r \in keys : r \in new <=> SeenAs(r, t) \in seen
    PROVE  Seen(new, t) = seen
BY DEF Seen

\* Where no record has a fingerprint, every salt shows the same.
LEMMA SeenUnprinted ==
    ASSUME NEW keys, \A r \in keys : r.salt = NoSalt, NEW s, NEW t
    PROVE  Seen(keys, s) = Seen(keys, t)
<1>1. \A r \in keys : SeenAs(r, s) = SeenAs(r, t)
  BY DEF SeenAs
<1> QED BY <1>1 DEF Seen

\* A salt that no record uses shows what none shows.
LEMMA SeenUnused ==
    ASSUME NEW keys, NEW s, NEW t, \A r \in keys : r.salt # NoSalt => r.salt # s /\ r.salt # t
    PROVE  Seen(keys, s) = Seen(keys, t)
<1>1. \A r \in keys : SeenAs(r, s) = SeenAs(r, t)
  BY DEF SeenAs
<1> QED BY <1>1 DEF Seen

LEMMA SeenOld ==
    ASSUME NEW old \in OldFiles, NEW s
    PROVE  /\ Seen(old, s) = old
           /\ Seen(ConvertV1(old, s), s) = old
<1>1. ASSUME NEW r \in old
      PROVE  /\ SeenAs(r, s) = r
             /\ SeenAs(RecordOf(r.name, r.serial, IF r.serial = NoSerial THEN NoSalt ELSE s, "computer"), s) = r
  <2>1. r = RecordOf(r.name, r.serial, NoSalt, "computer") /\ r.serial # NoSerial /\ r.salt = NoSalt
        /\ r.stored = "computer"
    BY KeyringStoreAssumption, KeyRecordsAssumption DEF RecordOf
  <2>2. SeenAs(r, s) = r
    BY <2>1 DEF SeenAs
  <2> DEFINE c == RecordOf(r.name, r.serial, IF r.serial = NoSerial THEN NoSalt ELSE s, "computer")
  <2>3. c.name = r.name /\ c.serial = r.serial /\ c.salt = s /\ c.stored = "computer"
    BY <2>1 DEF RecordOf
  <2>4. SeenAs(c, s) = RecordOf(r.name, r.serial, NoSalt, "computer")
    BY <2>3 DEF SeenAs
  <2> QED BY <2>1, <2>2, <2>4
<1>2. Seen(old, s) = old
  BY <1>1 DEF Seen
<1>3. Seen(ConvertV1(old, s), s) = old
  BY <1>1 DEF Seen, ConvertV1
<1> QED BY <1>2, <1>3

\* A lost salt takes the keys from the names.
LEMMA SeenUnmatched ==
    ASSUME NEW keys, NEW s, Fingerprinted(keys)
    PROVE  /\ Seen(keys, NoSalt) = Unmatched(keys)
           /\ Seen(Unmatched(keys), s) = Unmatched(keys)
           /\ Unmatched(Seen(keys, s)) = Unmatched(keys)
<1>1. ASSUME NEW r \in keys
      PROVE  SeenAs(r, NoSalt) = RecordOf(r.name, NoSerial, NoSalt, r.stored)
  BY DEF SeenAs, Fingerprinted
<1>2. ASSUME NEW r \in keys
      PROVE  /\ SeenAs(RecordOf(r.name, NoSerial, NoSalt, r.stored), s) = RecordOf(r.name, NoSerial, NoSalt, r.stored)
             /\ SeenAs(r, s).name = r.name /\ SeenAs(r, s).stored = r.stored
  BY DEF SeenAs, RecordOf
<1>3. Seen(keys, NoSalt) = Unmatched(keys)
  BY <1>1 DEF Seen, Unmatched
<1>4. Seen(Unmatched(keys), s) = Unmatched(keys)
  BY <1>2 DEF Seen, Unmatched
<1>5. Unmatched(Seen(keys, s)) = Unmatched(keys)
  BY <1>2 DEF Seen, Unmatched
<1> QED BY <1>3, <1>4, <1>5

LEMMA SeenNames ==
    ASSUME NEW keys, NEW s, Unique(keys)
    PROVE  Abstract!UniqueNames(Seen(keys, s))
<1> SUFFICES ASSUME NEW r1 \in Seen(keys, s), NEW r2 \in Seen(keys, s), r1.name = r2.name
             PROVE  r1 = r2
  BY DEF Abstract!UniqueNames
<1>1. PICK a \in keys, b \in keys : r1 = SeenAs(a, s) /\ r2 = SeenAs(b, s)
  BY DEF Seen
<1>2. a.name = b.name
  BY <1>1, SeenFields
<1> QED BY <1>1, <1>2 DEF Unique

----------------------------------------------------------------------------
(* An edit of the records is an edit of what is seen of them.              *)

\* The operations of Registry are those of KeyRecords.
LEMMA SameOperations ==
    ASSUME NEW keys, NEW n, NEW k, NEW ks, NEW s, NEW st
    PROVE  /\ Abstract!SetName(keys, n, k, s, st) = SetName(keys, n, k, s, st)
           /\ Abstract!DropOthers(keys, n, ks, s, st) = DropOthers(keys, n, ks, s, st)
           /\ Abstract!ClearKey(keys, ks, s) = ClearKey(keys, ks, s)
           /\ Abstract!RemoveName(keys, n) = RemoveName(keys, n)
           /\ Abstract!Unmatched(keys) = Unmatched(keys)
BY DEF Abstract!SetName, Abstract!DropOthers, Abstract!ClearKey, Abstract!RemoveName, Abstract!Unmatched,
       Abstract!IsOf, Abstract!Holders, Abstract!RecordOf,
       SetName, DropOthers, ClearKey, RemoveName, Unmatched, IsOf, Holders, RecordOf

LEMMA EditsSeen ==
    ASSUME NEW keys
    PROVE  /\ \A row \in Rows : \A n \in Names, k \in row, others \in SUBSET row, st \in {"computer", "key"} :
                  SetName(DropOthers(keys, n, others \ {k}, NoSalt, st), n, k, NoSalt, st) \in Abstract!Edits(keys)
           /\ \A row \in Rows : \A ks \in SUBSET row : ClearKey(keys, ks, NoSalt) \in Abstract!Edits(keys)
           /\ \A n \in Names : RemoveName(keys, n) \in Abstract!Edits(keys)
<1>1. ASSUME NEW row \in Rows, NEW n \in Names, NEW k \in row, NEW others \in SUBSET row,
             NEW st \in {"computer", "key"}
      PROVE  SetName(DropOthers(keys, n, others \ {k}, NoSalt, st), n, k, NoSalt, st) \in Abstract!Edits(keys)
  <2> DEFINE N(m, j, ks, at) == Abstract!SetName(Abstract!DropOthers(keys, m, ks \ {j}, NoSalt, at), m, j, NoSalt, at)
  <2>0. Abstract!Named(keys, row) =
            {N(m, j, ks, at) : m \in Names, j \in row, ks \in SUBSET row, at \in {"computer", "key"}}
    BY DEF Abstract!Named
  <2>n. N(n, k, others, st) = SetName(DropOthers(keys, n, others \ {k}, NoSalt, st), n, k, NoSalt, st)
    BY SameOperations
  <2> HIDE DEF N
  <2>1. N(n, k, others, st) \in Abstract!Named(keys, row)
    BY <2>0
  <2>2. Abstract!Named(keys, row) \subseteq Abstract!Edits(keys)
    BY DEF Abstract!Edits
  <2> QED BY <2>n, <2>1, <2>2
<1>2. ASSUME NEW row \in Rows, NEW ks \in SUBSET row
      PROVE  ClearKey(keys, ks, NoSalt) \in Abstract!Edits(keys)
  <2>1. Abstract!ClearKey(keys, ks, NoSalt) \in Abstract!Edits(keys)
    BY DEF Abstract!Edits
  <2> QED BY <2>1, SameOperations
<1>3. ASSUME NEW n \in Names
      PROVE  RemoveName(keys, n) \in Abstract!Edits(keys)
  <2>1. Abstract!RemoveName(keys, n) \in Abstract!Edits(keys)
    BY DEF Abstract!Edits
  <2> QED BY <2>1, SameOperations
<1> QED BY <1>1, <1>2, <1>3

LEMMA DropOthersSeen ==
    ASSUME NEW keys, Fingerprinted(keys), NEW n, NEW ks \in SUBSET Serials, NEW s, NEW st
    PROVE  Seen(DropOthers(keys, n, ks, s, st), s) = DropOthers(Seen(keys, s), n, ks, NoSalt, st)
<1>1. \A r \in keys : \A k \in ks : IsOf(r, k, s) <=> IsOf(SeenAs(r, s), k, NoSalt)
  BY SeenMatch DEF Fingerprinted
<1>2. \A r \in keys : SeenAs(r, s) \in Seen(keys, s)
  BY DEF Seen
<1>3. \A r \in keys : r \in DropOthers(keys, n, ks, s, st)
                          <=> SeenAs(r, s) \in DropOthers(Seen(keys, s), n, ks, NoSalt, st)
  BY <1>1, <1>2, SeenFields DEF DropOthers
<1>4. /\ DropOthers(keys, n, ks, s, st) \in SUBSET keys
      /\ DropOthers(Seen(keys, s), n, ks, NoSalt, st) \subseteq Seen(keys, s)
  BY DEF DropOthers
<1> QED BY <1>3, <1>4, SeenFilter

LEMMA ClearKeySeen ==
    ASSUME NEW keys, Fingerprinted(keys), NEW ks \in SUBSET Serials, NEW s
    PROVE  Seen(ClearKey(keys, ks, s), s) = ClearKey(Seen(keys, s), ks, NoSalt)
<1>1. \A r \in keys : \A k \in ks : IsOf(r, k, s) <=> IsOf(SeenAs(r, s), k, NoSalt)
  BY SeenMatch DEF Fingerprinted
<1>2. \A r \in keys : SeenAs(r, s) \in Seen(keys, s)
  BY DEF Seen
<1>3. \A r \in keys : r \in ClearKey(keys, ks, s) <=> SeenAs(r, s) \in ClearKey(Seen(keys, s), ks, NoSalt)
  BY <1>1, <1>2 DEF ClearKey
<1>4. /\ ClearKey(keys, ks, s) \in SUBSET keys
      /\ ClearKey(Seen(keys, s), ks, NoSalt) \subseteq Seen(keys, s)
  BY DEF ClearKey
<1> QED BY <1>3, <1>4, SeenFilter

LEMMA RemoveNameSeen ==
    ASSUME NEW keys, NEW n, NEW s
    PROVE  Seen(RemoveName(keys, n), s) = RemoveName(Seen(keys, s), n)
<1>1. \A r \in keys : r \in RemoveName(keys, n) <=> SeenAs(r, s) \in RemoveName(Seen(keys, s), n)
  BY SeenFields DEF RemoveName, Holders, Seen
<1>2. RemoveName(keys, n) \in SUBSET keys /\ RemoveName(Seen(keys, s), n) \subseteq Seen(keys, s)
  BY DEF RemoveName
<1> QED BY <1>1, <1>2, SeenFilter

LEMMA SeenRecord ==
    ASSUME NEW n, NEW k, NEW s, NEW st
    PROVE  SeenAs(RecordOf(n, k, s, st), s) = RecordOf(n, k, NoSalt, st)
BY DEF SeenAs, RecordOf

LEMMA SetNameSeen ==
    ASSUME NEW keys, Fingerprinted(keys), NEW n, NEW k \in Serials, NEW s, NEW st
    PROVE  Seen(SetName(keys, n, k, s, st), s) = SetName(Seen(keys, s), n, k, NoSalt, st)
<1> DEFINE Kept(ks, t) == {r \in ks : ~ /\ IsOf(r, k, t)
                                        /\ st = "key" \/ r.stored = "computer" \/ r.name = n}
<1>1. \A r \in keys : IsOf(r, k, s) <=> IsOf(SeenAs(r, s), k, NoSalt)
  BY SeenMatch DEF Fingerprinted
<1>2. \A r \in keys : SeenAs(r, s) \in Seen(keys, s)
  BY DEF Seen
<1>3. \A r \in keys : r \in Kept(keys, s) <=> SeenAs(r, s) \in Kept(Seen(keys, s), NoSalt)
  BY <1>1, <1>2, SeenFields
<1>4. Kept(keys, s) \in SUBSET keys /\ Kept(Seen(keys, s), NoSalt) \subseteq Seen(keys, s)
  OBVIOUS
<1> HIDE DEF Kept
<1>5. Seen(Kept(keys, s), s) = Kept(Seen(keys, s), NoSalt)
  BY <1>3, <1>4, SeenFilter
<1>6. /\ SetName(keys, n, k, s, st) = Kept(keys, s) \cup {RecordOf(n, k, s, st)}
      /\ SetName(Seen(keys, s), n, k, NoSalt, st) = Kept(Seen(keys, s), NoSalt) \cup {RecordOf(n, k, NoSalt, st)}
  BY DEF SetName, Kept
<1>7. Seen(Kept(keys, s) \cup {RecordOf(n, k, s, st)}, s)
          = Seen(Kept(keys, s), s) \cup {SeenAs(RecordOf(n, k, s, st), s)}
  BY DEF Seen
<1> QED BY <1>5, <1>6, <1>7, SeenRecord

\* What a scan changes.
LEMMA LearntSeen ==
    ASSUME NEW keys, NEW n, NEW k \in Serials, NEW s
    PROVE  /\ Abstract!Learnt(Seen(keys, s), Seen(RecordFirstSeen(keys, n, k, s), s))
           /\ Abstract!Learnt(Seen(keys, s), Seen(DropStale(keys, n, k, s), s))
<1>1. RecordFirstSeen(keys, n, k, s) \in {keys, keys \cup {RecordOf(n, k, s, "key")}}
  BY DEF RecordFirstSeen
<1>2. Seen(keys \cup {RecordOf(n, k, s, "key")}, s) = Seen(keys, s) \cup {RecordOf(n, k, NoSalt, "key")}
  BY SeenRecord DEF Seen
<1>3. RecordOf(n, k, NoSalt, "key").stored = "key" /\ RecordOf(n, k, NoSalt, "key").serial = k /\ k # NoSerial
  BY KeyRecordsAssumption DEF RecordOf
<1>4. Abstract!Learnt(Seen(keys, s), Seen(RecordFirstSeen(keys, n, k, s), s))
  BY <1>1, <1>2, <1>3 DEF Abstract!Learnt
<1>5. \A r \in Seen(keys, s) \ Seen(DropStale(keys, n, k, s), s) : r.stored = "key"
  <2> SUFFICES ASSUME NEW r \in Seen(keys, s), r \notin Seen(DropStale(keys, n, k, s), s)
               PROVE  r.stored = "key"
    OBVIOUS
  <2>1. PICK o \in keys : r = SeenAs(o, s)
    BY DEF Seen
  <2>2. o \notin DropStale(keys, n, k, s)
    BY <2>1 DEF Seen
  <2> QED BY <2>1, <2>2, SeenFields DEF DropStale
<1>6. Seen(DropStale(keys, n, k, s), s) \subseteq Seen(keys, s)
  BY DEF Seen, DropStale
<1> QED BY <1>4, <1>5, <1>6 DEF Abstract!Learnt

LEMMA LearntOrder ==
    ASSUME NEW a, NEW b, NEW c
    PROVE  /\ Abstract!Learnt(a, a)
           /\ Abstract!Learnt(a, b) /\ Abstract!Learnt(b, c) => Abstract!Learnt(a, c)
BY DEF Abstract!Learnt

----------------------------------------------------------------------------
(* What the one process knows about keys.json, as a caller sees it.        *)

\* As OwnPrints, but whatever became of earlier salts: a salt that the process
\* has and that is not on disk yet is in no record of keys.json.
OwnSalt(p) ==
    /\ ring[p].persisted => ring[p].salt # NoSalt /\ dir[Salt] = SaltFile(ring[p].salt)
    /\ pc[p] \in AfterSaltPcs => ring[p].persisted
    /\ pc[p] \in PersistPcs \cup {"idle", "salt_undo"} => ~ring[p].persisted
    /\ pc[p] = "salt_write" => p \in writer[Salt]
    /\ pc[p] = "salt_sync" => dir[Salt] = SaltFile(ring[p].salt)
    /\ pc[p] \in {"salt_write", "salt_undo"} => dir[Salt] \in {Torn, SaltFile(ring[p].salt)}
    /\ pc[p] \notin {"load_rm", "load_salt"} /\ ring[p].salt = NoSalt =>
           \A r \in ring[p].keys : r.salt = NoSalt
    /\ ~ring[p].persisted => \A r \in dir[Keys].keys : r.salt # NoSalt => r.salt # ring[p].salt

\* The ring as its salt shows it.
RingView(p) == Seen(ring[p].keys, ring[p].salt)

\* A loaded ring is what a caller saw on disk; it differs by what a scan learnt,
\* and then by the one edit of a command.
Saved(base, new) == new \in Abstract!Edits(base) \/ Abstract!Learnt(base, new)
Amounts(p, base) ==
    /\ Saved(base, RingView(p))
    /\ mode[p] = "load" /\ pc[p] # "edited" => Abstract!Learnt(base, RingView(p))
    /\ mode[p] = "load" /\ pc[p] \notin {"edited", "learned"} => RingView(p) = base

\* The process still has a ring to hand out or to save.
Holding(p) ==
    /\ pc[p] \notin {"idle", "load_rm", "load_salt", "conv_salt"}
    /\ mode[p] = "save" => pc[p] \notin {"dir_sync", "verify", "backup_drop", "undo_backup"}

OwnView(p) ==
    /\ pc[p] \in {"load_rm", "load_salt"} =>
           dir[Keys].fmt \in {"absent", "v2"} /\ ring[p].keys = dir[Keys].keys
    /\ pc[p] = "conv_salt" => dir[Keys].fmt = "v1"
    /\ Holding(p) /\ ring[p].origin = "pending" =>
           \E old \in OldFiles : /\ Amounts(p, old)
                                 /\ dir[Keys].fmt \in {"absent", "v2"} => SeenKeys = old
    /\ Holding(p) /\ ring[p].origin # "pending" /\ dir[Keys].fmt \in {"absent", "v2"} =>
           Amounts(p, SeenKeys)

ViewInv == dir[Keys].fmt # "salt" /\ \A p \in Procs : OwnSalt(p) /\ OwnView(p)

\* The process drops its ring, or keeps it through a call of load_from or save_to.
HeldRing(p) ==
    \/ pc'[p] = "idle" /\ ring'[p] = EmptyRing
    \/ /\ ring'[p].keys = ring[p].keys /\ ring'[p].salt = ring[p].salt /\ mode'[p] = mode[p]
       /\ ring'[p].origin = ring[p].origin \/ (ring'[p].origin # "pending" /\ dir[Keys].fmt = "v2")
       /\ pc[p] \in WorkPcs \ {"conv_salt"} /\ pc'[p] \in (WorkPcs \ {"conv_salt"}) \cup {"ready"}
       /\ Holding(p)' => Holding(p)

LEMMA HeldAmounts ==
    ASSUME NEW p \in Procs, HeldRing(p), pc'[p] # "idle", NEW base, Amounts(p, base)
    PROVE  Amounts(p, base)'
<1>1. RingView(p)' = RingView(p)
  BY DEF HeldRing, RingView
<1>2. mode'[p] = mode[p] /\ pc[p] \notin {"edited", "learned"} /\ pc'[p] \notin {"edited", "learned"}
  BY DEF HeldRing, WorkPcs, PersistPcs, AfterSaltPcs
<1> QED BY <1>1, <1>2 DEF Amounts

LEMMA HeldView ==
    ASSUME NEW p \in Procs, OwnView(p), HeldRing(p), SeenKeys' = SeenKeys, dir'[Keys].fmt = dir[Keys].fmt
    PROVE  OwnView(p)'
<1>1. CASE pc'[p] = "idle"
  BY <1>1 DEF OwnView, Holding
<1>2. CASE pc'[p] # "idle"
  <2>1. pc'[p] \notin {"load_rm", "load_salt", "conv_salt"}
    BY <1>2 DEF HeldRing, WorkPcs, PersistPcs, AfterSaltPcs
  <2>2. ASSUME Holding(p)', ring'[p].origin = "pending"
        PROVE  \E old \in OldFiles : /\ Amounts(p, old)'
                                     /\ dir'[Keys].fmt \in {"absent", "v2"} => SeenKeys' = old
    <3>1. Holding(p) /\ ring[p].origin = "pending"
      BY <1>2, <2>2 DEF HeldRing
    <3>2. PICK old \in OldFiles : Amounts(p, old) /\ (dir[Keys].fmt \in {"absent", "v2"} => SeenKeys = old)
      BY <3>1 DEF OwnView
    <3>3. Amounts(p, old)'
      BY <1>2, <3>2, HeldAmounts
    <3> QED BY <3>2, <3>3
  <2>3. ASSUME Holding(p)', ring'[p].origin # "pending", dir'[Keys].fmt \in {"absent", "v2"}
        PROVE  Amounts(p, SeenKeys)'
    <3>1. Holding(p)
      BY <1>2, <2>3 DEF HeldRing
    <3>2. Amounts(p, SeenKeys)
      BY <2>3, <3>1 DEF OwnView
    <3>3. \A base : Amounts(p, base) => Amounts(p, base)'
      BY <1>2, HeldAmounts
    <3>4. \A base : base = SeenKeys' => (Amounts(p, base)' => Amounts(p, SeenKeys)')
      BY DEF Amounts, Saved
    <3> QED BY <3>2, <3>3, <3>4
  <2> QED BY <2>1, <2>2, <2>3 DEF OwnView
<1> QED BY <1>1, <1>2

LEMMA ReturnHeld ==
    ASSUME ProcsOK, NEW p \in Procs, pc[p] \in WorkPcs \ {"conv_salt"}
    PROVE  /\ Finish(p) => HeldRing(p)
           /\ Return(p, ring[p]) => HeldRing(p)
           /\ dir[Keys].fmt = "v2" /\ Return(p, WithOrigin(ring[p], "v2")) => HeldRing(p)
           /\ WriteFailed(p) => HeldRing(p)
<1> USE DEF WorkPcs, PersistPcs, AfterSaltPcs
<1>1. Finish(p) => HeldRing(p)
  BY Returns DEF HeldRing
<1>2. Return(p, ring[p]) => HeldRing(p)
  <2>1. CASE mode[p] = "load"
    BY <2>1 DEF Return, Goto, ProcsOK, HeldRing, Holding
  <2>2. CASE mode[p] # "load"
    BY <2>2, <1>1 DEF Return
  <2> QED BY <2>1, <2>2
<1>3. dir[Keys].fmt = "v2" /\ Return(p, WithOrigin(ring[p], "v2")) => HeldRing(p)
  <2> SUFFICES ASSUME dir[Keys].fmt = "v2", Return(p, WithOrigin(ring[p], "v2")) PROVE HeldRing(p)
    OBVIOUS
  <2>1. /\ WithOrigin(ring[p], "v2").keys = ring[p].keys
        /\ WithOrigin(ring[p], "v2").salt = ring[p].salt
        /\ WithOrigin(ring[p], "v2").origin = "v2"
    BY DEF WithOrigin, Ring
  <2>2. CASE mode[p] = "load"
    BY <2>1, <2>2 DEF Return, Goto, ProcsOK, HeldRing, Holding
  <2>3. CASE mode[p] # "load"
    BY <2>3, <1>1 DEF Return
  <2> QED BY <2>2, <2>3
<1>4. WriteFailed(p) => HeldRing(p)
  BY <1>1 DEF WriteFailed, Goto, ProcsOK, HeldRing, Holding
<1> QED BY <1>1, <1>2, <1>3, <1>4

LEMMA PersistSaltHeld ==
    ASSUME TypeOK, NEW p \in Procs, PersistSalt(p) \/ SaltError(p)
    PROVE  HeldRing(p)
<1>w. pc[p] \in PersistPcs \cup {"salt_undo"}
  BY DEF PersistSalt, SaltCreate, SaltWrite, SaltSync, SaltUndo, SaltCheck, SaltError, PersistPcs
<1>v. pc[p] \in WorkPcs \ {"conv_salt"} /\ Holding(p)
  BY <1>w DEF WorkPcs, PersistPcs, Holding
<1>s. SaltPersisted(p) => HeldRing(p)
  <2> SUFFICES ASSUME SaltPersisted(p) PROVE HeldRing(p)
    OBVIOUS
  <2>1. /\ ring'[p].keys = ring[p].keys /\ ring'[p].salt = ring[p].salt
        /\ ring'[p].origin = ring[p].origin /\ mode'[p] = mode[p]
    BY DEF SaltPersisted, Ring, TypeOK, ProcsOK
  <2>2. pc'[p] \in {"backup_rm", "tmp_rm"}
    BY DEF SaltPersisted, Goto, AfterSalt, TypeOK, ProcsOK
  <2> QED BY <1>v, <2>1, <2>2 DEF HeldRing, WorkPcs, AfterSaltPcs
<1>k. ASSUME UNCHANGED <<ring, mode>>, pc'[p] \in PersistPcs \cup {"salt_undo"}
      PROVE  HeldRing(p)
  BY <1>v, <1>k DEF HeldRing, WorkPcs, PersistPcs
<1>1. CASE SaltCreate(p)
  BY <1>1, <1>k DEF SaltCreate, Goto, PersistPcs, TypeOK, ProcsOK
<1>2. CASE SaltWrite(p)
  BY <1>2, <1>k DEF SaltWrite, Goto, PersistPcs, TypeOK, ProcsOK
<1>3. CASE SaltSync(p)
  BY <1>3, <1>s DEF SaltSync
<1>4. CASE SaltUndo(p)
  BY <1>4, <1>v, ReturnHeld DEF SaltUndo, TypeOK
<1>5. CASE SaltCheck(p)
  BY <1>5, <1>s, <1>v, ReturnHeld DEF SaltCheck, TypeOK
<1>6. CASE SaltError(p)
  <2>1. CASE Return(p, ring[p])
    BY <2>1, <1>v, ReturnHeld DEF TypeOK
  <2>2. CASE ~Return(p, ring[p])
    BY <1>6, <2>2, <1>k DEF SaltError, Goto, TypeOK, ProcsOK
  <2> QED BY <2>1, <2>2
<1> QED BY <1>1, <1>2, <1>3, <1>4, <1>5, <1>6 DEF PersistSalt

LEMMA FinishConversionHeld ==
    ASSUME TypeOK, FilesInv, NEW p \in Procs, FinishConversion(p) \/ BackupError(p)
    PROVE  HeldRing(p)
<1>w. pc[p] \in WorkPcs \ {"conv_salt"}
  BY DEF FinishConversion, BackupRemove, BackupCreate, BackupWrite, UndoBackup, Verify, BackupDrop,
         BackupError, WorkPcs, AfterSaltPcs
<1>k. ASSUME UNCHANGED <<ring, mode>>, pc'[p] \in {"backup_create", "backup_write", "tmp_rm", "backup_drop"},
             pc[p] \in {"verify", "backup_drop"} => pc'[p] = "backup_drop",
             pc[p] # "undo_backup", pc[p] # "dir_sync"
      PROVE  HeldRing(p)
  BY <1>w, <1>k DEF HeldRing, Holding, WorkPcs, PersistPcs, AfterSaltPcs
<1>1. CASE BackupRemove(p)
  BY <1>1, <1>k DEF BackupRemove, Goto, TypeOK, ProcsOK
<1>2. CASE BackupCreate(p)
  <2>1. CASE Return(p, ring[p])
    BY <2>1, <1>w, ReturnHeld DEF TypeOK
  <2>2. CASE ~Return(p, ring[p])
    BY <1>2, <2>2, <1>k DEF BackupCreate, Goto, TypeOK, ProcsOK
  <2> QED BY <2>1, <2>2
<1>3. CASE BackupWrite(p)
  BY <1>3, <1>k DEF BackupWrite, Goto, TypeOK, ProcsOK
<1>4. CASE UndoBackup(p)
  BY <1>4, <1>w, ReturnHeld DEF UndoBackup, TypeOK
<1>5. CASE Verify(p)
  <2>1. CASE Return(p, ring[p])
    BY <2>1, <1>w, ReturnHeld DEF TypeOK
  <2>2. CASE ~Return(p, ring[p])
    BY <1>5, <2>2, <1>k DEF Verify, Goto, TypeOK, ProcsOK
  <2> QED BY <2>1, <2>2
<1>6. CASE BackupDrop(p)
  <2>1. Return(p, ring[p]) \/ Return(p, WithOrigin(ring[p], "v2"))
    BY <1>6 DEF BackupDrop
  <2>2. dir[Keys].fmt = "v2"
    BY <1>6 DEF BackupDrop, FilesInv, OwnFiles
  <2> QED BY <1>w, <2>1, <2>2, ReturnHeld DEF TypeOK
<1>7. CASE BackupError(p)
  BY <1>7, <1>w, ReturnHeld DEF BackupError, TypeOK
<1> QED BY <1>1, <1>2, <1>3, <1>4, <1>5, <1>6, <1>7 DEF FinishConversion

LEMMA WriteAtomicHeld ==
    ASSUME TypeOK, FilesInv, NEW p \in Procs, WriteAtomic(p) \/ TmpError(p) \/ DirSyncError(p)
    PROVE  HeldRing(p)
<1>w. pc[p] \in WorkPcs \ {"conv_salt"}
  BY DEF WriteAtomic, TmpRemove, TmpCreate, TmpWrite, Rename, DirSync, TmpError, DirSyncError,
         WorkPcs, AfterSaltPcs
<1>k. ASSUME UNCHANGED <<ring, mode>>, pc[p] \in {"tmp_rm", "tmp_create", "tmp_write", "rename"},
             pc'[p] \in {"tmp_create", "tmp_write", "rename", "dir_sync"}
      PROVE  HeldRing(p)
  BY <1>w, <1>k DEF HeldRing, Holding, WorkPcs, PersistPcs, AfterSaltPcs
<1>f. WriteFailed(p) => HeldRing(p)
  BY <1>w, ReturnHeld DEF TypeOK
<1>1. CASE TmpRemove(p)
  BY <1>1, <1>k DEF TmpRemove, Goto, TypeOK, ProcsOK
<1>2. CASE TmpCreate(p)
  BY <1>2, <1>f, <1>k DEF TmpCreate, Goto, TypeOK, ProcsOK
<1>3. CASE TmpWrite(p)
  BY <1>3, <1>k DEF TmpWrite, Goto, TypeOK, ProcsOK
<1>4. CASE Rename(p)
  BY <1>4, <1>f, <1>k DEF Rename, Goto, TypeOK, ProcsOK
<1>5. CASE DirSync(p)
  <2>0. pc[p] = "dir_sync" /\ dir[Keys].fmt = "v2"
    BY <1>5 DEF DirSync, FilesInv, OwnFiles
  <2>1. CASE Finish(p)
    BY <2>1, <1>w, ReturnHeld DEF TypeOK
  <2>2. CASE ~Finish(p)
    <3>1. /\ ring'[p].keys = ring[p].keys /\ ring'[p].salt = ring[p].salt /\ mode'[p] = mode[p]
          /\ ring'[p].origin \in {ring[p].origin, "converted"} /\ pc'[p] \in {"verify", "backup_drop"}
      BY <1>5, <2>2 DEF DirSync, Goto, WithOrigin, Ring, TypeOK, ProcsOK
    <3> QED BY <1>w, <2>0, <3>1 DEF HeldRing, Holding, WorkPcs, AfterSaltPcs
  <2> QED BY <2>1, <2>2
<1>6. CASE TmpError(p)
  BY <1>6, <1>f DEF TmpError
<1>7. CASE DirSyncError(p)
  BY <1>7, <1>f DEF DirSyncError
<1> QED BY <1>1, <1>2, <1>3, <1>4, <1>5, <1>6, <1>7 DEF WriteAtomic

\* A dropped ring has nothing to say.
LEMMA DroppedSalt ==
    ASSUME NEW p \in Procs, ring'[p] = EmptyRing, pc'[p] \in {"idle", "ready"}
    PROVE  OwnSalt(p)'
BY NoRecords DEF OwnSalt, AfterSaltPcs, PersistPcs

LEMMA AfterSaltView ==
    ASSUME NEW p \in Procs, OwnSalt(p), OwnView(p), pc[p] \in AfterSaltPcs,
           SameSalt, CopiedRing(p), HeldRing(p)
    PROVE  /\ OwnSalt(p)'
           /\ dir'[Keys] = dir[Keys] => OwnView(p)' /\ SeenKeys' = SeenKeys
<1>1. OwnSalt(p)'
  <2>1. CASE ring'[p] = EmptyRing /\ pc'[p] \in {"idle", "ready"}
    BY <2>1, DroppedSalt
  <2>2. CASE ~(ring'[p] = EmptyRing /\ pc'[p] \in {"idle", "ready"})
    <3>1. /\ ring'[p].keys = ring[p].keys /\ ring'[p].salt = ring[p].salt /\ ring'[p].persisted
          /\ pc'[p] \in AfterSaltPcs \cup {"ready"}
      BY <2>2 DEF CopiedRing, HeldRing, OwnSalt, WorkPcs, PersistPcs, AfterSaltPcs
    <3> QED BY <3>1 DEF OwnSalt, SameSalt, AfterSaltPcs, PersistPcs
  <2> QED BY <2>1, <2>2
<1>2. dir'[Keys] = dir[Keys] => SeenKeys' = SeenKeys
  BY DEF SeenKeys, SameSalt
<1> QED BY <1>1, <1>2, HeldView

\* The rename puts the process's ring in place of what a caller saw before.
LEMMA RenameView ==
    ASSUME TypeOK, WritersInv, FilesInv, NEW p \in Procs, OwnSalt(p), OwnView(p),
           pc[p] = "rename", pc'[p] = "dir_sync", dir'[Keys] = V2(ring[p].keys), SameSalt, HeldRing(p)
    PROVE  OwnView(p)' /\ SeenKeys' = RingView(p)
<1>1. SeenKeys' = RingView(p)
  BY NoRecords DEF SeenKeys, RingView, SameSalt, OwnSalt, AfterSaltPcs
<1>2. RingView(p)' = RingView(p) /\ mode'[p] = mode[p] /\ mode[p] \in {"load", "save"}
  BY DEF HeldRing, RingView, TypeOK, ProcsOK
<1>3. CASE mode[p] = "save"
  <2>1. ~Holding(p)'
    BY <1>2, <1>3 DEF Holding
  <2> QED BY <1>1, <2>1 DEF OwnView
<1>4. CASE mode[p] = "load"
  <2>1. Holding(p)
    BY <1>4 DEF Holding
  <2>2. ASSUME ring'[p].origin = "pending"
        PROVE  \E old \in OldFiles : /\ Amounts(p, old)'
                                     /\ dir'[Keys].fmt \in {"absent", "v2"} => SeenKeys' = old
    <3>1. ring[p].origin = "pending"
      BY <2>2 DEF HeldRing
    <3>2. PICK old \in OldFiles : Amounts(p, old)
      BY <2>1, <3>1 DEF OwnView
    <3>3. Amounts(p, old)'
      BY <3>2, HeldAmounts
    <3>4. RingView(p) = old
      BY <1>4, <3>2 DEF Amounts
    <3> QED BY <1>1, <3>3, <3>4
  <2>3. Amounts(p, SeenKeys)'
    BY <1>1, <1>2, LearntOrder DEF Amounts, Saved
  <2> QED BY <1>1, <2>2, <2>3 DEF OwnView
<1> QED BY <1>2, <1>3, <1>4

\* A salt that no record of keys.json uses comes and goes unseen.
LEMMA SaltUnseen ==
    ASSUME NEW p \in Procs, OwnSalt(p), ~ring[p].persisted, dir'[Keys] = dir[Keys],
           \/ SameSalt
           \/ dir[Salt].salt \in {NoSalt, ring[p].salt} /\ dir'[Salt].salt \in {NoSalt, ring[p].salt}
    PROVE  SeenKeys' = SeenKeys
<1>1. CASE SameSalt
  BY <1>1 DEF SameSalt, SeenKeys
<1>2. CASE dir[Salt].salt \in {NoSalt, ring[p].salt} /\ dir'[Salt].salt \in {NoSalt, ring[p].salt}
  <2>1. \A r \in dir[Keys].keys : r.salt # NoSalt => r.salt # dir[Salt].salt /\ r.salt # dir'[Salt].salt
    BY <1>2 DEF OwnSalt
  <2>2. Seen(dir[Keys].keys, dir[Salt].salt) = Seen(dir[Keys].keys, dir'[Salt].salt)
    BY <2>1, SeenUnused
  <2> QED BY <2>2 DEF SeenKeys
<1> QED BY <1>1, <1>2

LEMMA PersistSaltView ==
    ASSUME TypeOK, SaltShape, WritersInv, NEW p \in Procs, OwnSalt(p), OwnView(p),
           PersistSalt(p) \/ SaltError(p), dir'[Keys] = dir[Keys]
    PROVE  OwnSalt(p)' /\ OwnView(p)' /\ SeenKeys' = SeenKeys
<1> USE FileNames, DistinctFiles, NoRecords DEF TypeOK, FilesOK, ProcsOK
<1>w. /\ pc[p] \in PersistPcs \cup {"salt_undo"} /\ ~ring[p].persisted
      /\ pc[p] \in PersistPcs => ring[p].salt # NoSalt
  <2>1. pc[p] \in PersistPcs \cup {"salt_undo"}
    BY DEF PersistSalt, SaltCreate, SaltWrite, SaltSync, SaltUndo, SaltCheck, SaltError, PersistPcs
  <2> QED BY <2>1 DEF OwnSalt, SaltShape
<1>n. Absent.salt = NoSalt /\ Torn.salt = NoSalt
  BY DEF Absent, Torn, File
\* A ring that the call leaves as it is.
<1>k. ASSUME ring'[p] = ring[p], pc'[p] \in PersistPcs \cup {"salt_undo"},
             pc'[p] = "salt_write" => p \in writer'[Salt],
             pc'[p] = "salt_sync" => dir'[Salt] = SaltFile(ring[p].salt),
             pc'[p] \in {"salt_write", "salt_undo"} => dir'[Salt] \in {Torn, SaltFile(ring[p].salt)}
      PROVE  OwnSalt(p)'
  BY <1>k, <1>w DEF OwnSalt, PersistPcs, AfterSaltPcs
<1>p. SaltPersisted(p) /\ SameSalt /\ dir[Salt] = SaltFile(ring[p].salt) /\ ring[p].salt # NoSalt
          => OwnSalt(p)'
  <2> SUFFICES ASSUME SaltPersisted(p), SameSalt, dir[Salt] = SaltFile(ring[p].salt), ring[p].salt # NoSalt
               PROVE  OwnSalt(p)'
    OBVIOUS
  <2>1. pc'[p] \in {"backup_rm", "tmp_rm"} /\ ring'[p].salt = ring[p].salt /\ ring'[p].persisted
    BY DEF SaltPersisted, Goto, AfterSalt, Ring
  <2> QED BY <2>1 DEF OwnSalt, SameSalt, PersistPcs, AfterSaltPcs
<1>t. Return(p, ring[p]) => OwnSalt(p)'
  <2> SUFFICES ASSUME Return(p, ring[p]) PROVE OwnSalt(p)'
    OBVIOUS
  <2>1. (ring'[p] = EmptyRing /\ pc'[p] = "idle") \/ (ring'[p] = ring[p] /\ pc'[p] = "ready")
    BY DEF Return, Finish, Goto
  <2>2. CASE ring'[p] = EmptyRing /\ pc'[p] = "idle"
    BY <2>2, DroppedSalt
  <2>3. CASE ring'[p] = ring[p] /\ pc'[p] = "ready"
    BY <1>w, <2>3 DEF OwnSalt, PersistPcs, AfterSaltPcs
  <2> QED BY <2>1, <2>2, <2>3
<1>v. SeenKeys' = SeenKeys => OwnView(p)'
  BY PersistSaltHeld, HeldView
<1>1. CASE SaltCreate(p)
  <2>1. CASE dir[Salt] = Absent
    <3>1. dir'[Salt] = Torn /\ writer'[Salt] = {p} /\ ring'[p] = ring[p] /\ pc'[p] = "salt_write"
      BY <1>1, <2>1 DEF SaltCreate, Created, Goto
    <3>2. OwnSalt(p)'
      BY <1>k, <3>1 DEF PersistPcs
    <3>3. SeenKeys' = SeenKeys
      BY <1>n, <1>w, <2>1, <3>1, SaltUnseen
    <3> QED BY <1>v, <3>2, <3>3
  <2>2. CASE dir[Salt] # Absent
    <3>1. ring'[p] = ring[p] /\ pc'[p] = "salt_check" /\ SameSalt
      BY <1>1, <2>2 DEF SaltCreate, Goto, SameSalt
    <3> QED BY <1>k, <1>v, <1>w, <3>1, SaltUnseen DEF PersistPcs
  <2> QED BY <2>1, <2>2
<1>2. CASE SaltWrite(p)
  <2>1. ring'[p] = ring[p] /\ pc[p] = "salt_write" /\ pc'[p] = "salt_sync"
    BY <1>2 DEF SaltWrite, Goto
  <2>2. p \in writer[Salt] /\ dir[Salt] \in {Torn, SaltFile(ring[p].salt)}
    BY <2>1 DEF OwnSalt
  <2>3. dir'[Salt] = SaltFile(ring[p].salt)
    BY <1>2, <2>2 DEF SaltWrite, Written
  <2>4. OwnSalt(p)'
    BY <1>k, <2>1, <2>3 DEF PersistPcs
  <2>5. SeenKeys' = SeenKeys
    BY <1>n, <1>w, <2>2, <2>3, SaltUnseen
  <2> QED BY <1>v, <2>4, <2>5
<1>3. CASE SaltSync(p)
  <2>1. SaltPersisted(p) /\ SameSalt /\ dir[Salt] = SaltFile(ring[p].salt) /\ ring[p].salt # NoSalt
    BY <1>3, <1>w DEF SaltSync, OwnSalt, PersistPcs, SameSalt
  <2> QED BY <1>p, <1>v, <1>w, <2>1, SaltUnseen
<1>4. CASE SaltUndo(p)
  <2>1. Return(p, ring[p]) /\ dir[Salt] \in {Torn, SaltFile(ring[p].salt)} /\ (SameSalt \/ dir'[Salt] = Absent)
    BY <1>4 DEF SaltUndo, OwnSalt, Removed, SameSalt
  <2>2. SeenKeys' = SeenKeys
    BY <1>n, <1>w, <2>1, SaltUnseen
  <2> QED BY <1>t, <1>v, <2>1, <2>2
<1>5. CASE SaltCheck(p)
  <2>1. SameSalt /\ ring[p].salt # NoSalt
    BY <1>5, <1>w DEF SaltCheck, PersistPcs, SameSalt
  <2>2. SeenKeys' = SeenKeys
    BY <1>w, <2>1, SaltUnseen
  <2> QED BY <1>5, <1>p, <1>t, <1>v, <2>1, <2>2 DEF SaltCheck
<1>6. CASE SaltError(p)
  <2>1. SameSalt
    BY <1>6 DEF SaltError, SameSalt
  <2>2. SeenKeys' = SeenKeys
    BY <1>w, <2>1, SaltUnseen
  <2>3. CASE pc[p] = "salt_create"
    BY <1>6, <2>2, <2>3, <1>t, <1>v DEF SaltError
  <2>4. CASE pc[p] \in {"salt_write", "salt_sync"}
    <3>1. ring'[p] = ring[p] /\ pc'[p] = "salt_undo"
      BY <1>6, <2>4 DEF SaltError, Goto
    <3>2. dir'[Salt] \in {Torn, SaltFile(ring[p].salt)}
      BY <2>1, <2>4 DEF OwnSalt, SameSalt
    <3> QED BY <1>k, <1>v, <2>2, <3>1, <3>2
  <2> QED BY <1>6, <2>3, <2>4 DEF SaltError
<1> QED BY <1>1, <1>2, <1>3, <1>4, <1>5, <1>6 DEF PersistSalt

\* A ring that is what a caller sees.
LEMMA ExactAmounts ==
    ASSUME NEW p \in Procs, NEW base, RingView(p)' = base
    PROVE  Amounts(p, base)'
BY LearntOrder DEF Amounts, Saved

\* What is said of a ring and of what a caller sees now, where that has not changed.
LEMMA SeenAmounts ==
    ASSUME NEW p \in Procs, NEW base, SeenKeys' = base, Amounts(p, base)'
    PROVE  Amounts(p, SeenKeys)'
BY DEF Amounts, Saved

LEMMA FinishView ==
    ASSUME TypeOK, NEW p \in Procs, OwnView(p), Finish(p), dir'[Keys] = dir[Keys], SameSalt
    PROVE  OwnSalt(p)' /\ OwnView(p)' /\ SeenKeys' = SeenKeys
<1>1. pc'[p] = "idle" /\ ring'[p] = EmptyRing
  BY Returns DEF TypeOK
<1>2. SeenKeys' = SeenKeys
  BY DEF SeenKeys, SameSalt
<1> QED BY <1>1, <1>2, DroppedSalt, HeldView DEF HeldRing

LEMMA LoadView ==
    ASSUME TypeOK, SaltShape, RecordsInv, NamesInv, NEW p \in Procs, OwnSalt(p), OwnView(p),
           Load(p), dir'[Keys] = dir[Keys]
    PROVE  OwnSalt(p)' /\ OwnView(p)' /\ SeenKeys' = SeenKeys
<1> USE FileNames, DistinctFiles, NoRecords DEF TypeOK, FilesOK, ProcsOK
<1>s. SameSalt
  BY DEF Load, LoadRead, LoadRemoveBackup, LoadSalt, ConvertSalt, Removed, SameSalt
<1>v. SeenKeys' = SeenKeys
  BY <1>s DEF SeenKeys, SameSalt
<1>f. Finish(p) => OwnSalt(p)' /\ OwnView(p)'
  BY <1>s, FinishView
<1>o. OwnNames(p)
  BY DEF NamesInv
<1>1. CASE LoadRead(p)
  <2>1. /\ pc'[p] \in {"load_rm", "conv_salt"}
        /\ ring'[p].persisted = FALSE /\ ring'[p].salt = NoSalt
        /\ pc'[p] = "conv_salt" => ring'[p].keys = {} /\ dir[Keys].fmt = "v1"
    BY <1>1 DEF LoadRead, Goto, Ring
  <2>2. pc'[p] = "load_rm" => dir[Keys].fmt \in {"absent", "v2"} /\ ring'[p].keys = dir[Keys].keys
    <3>1. CASE dir[Keys].fmt = "v2" /\ ring' = [ring EXCEPT ![p] = Ring(dir[Keys].keys, NoSalt, FALSE, "v2")]
      BY <3>1 DEF Ring
    <3>2. CASE dir[Keys] = Absent /\ ring' = [ring EXCEPT ![p] = EmptyRing]
      BY <3>2
    <3>3. CASE Goto(p, "conv_salt")
      BY <3>3 DEF Goto
    <3> QED BY <1>1, <3>1, <3>2, <3>3 DEF LoadRead
  <2>3. OwnSalt(p)'
    BY <2>1 DEF OwnSalt, AfterSaltPcs, PersistPcs
  <2>4. ~Holding(p)'
    BY <2>1 DEF Holding
  <2>5. OwnView(p)'
    BY <2>1, <2>2, <2>4 DEF OwnView
  <2> QED BY <1>v, <2>3, <2>5
<1>2. CASE LoadRemoveBackup(p)
  <2>1. pc[p] = "load_rm" /\ pc'[p] = "load_salt" /\ ring'[p] = ring[p]
    BY <1>2 DEF LoadRemoveBackup, Goto
  <2>2. OwnSalt(p)'
    BY <1>s, <2>1 DEF OwnSalt, SameSalt, AfterSaltPcs, PersistPcs
  <2>3. ~Holding(p)'
    BY <2>1 DEF Holding
  <2>4. OwnView(p)'
    BY <2>1, <2>3 DEF OwnView
  <2> QED BY <1>v, <2>2, <2>4
<1>3. CASE LoadSalt(p) /\ ~Finish(p)
  <2>0. pc[p] = "load_salt" /\ pc'[p] = "ready" /\ Fingerprinted(ring[p].keys)
    BY <1>3 DEF LoadSalt, Goto, RecordsInv, GoodKeys
  <2>1. ring[p].keys = dir[Keys].keys /\ ring[p].origin # "pending"
    BY <1>o, <2>0 DEF OwnView, OwnNames
  <2>2. OwnSalt(p)' /\ RingView(p)' = SeenKeys' /\ ring'[p].origin # "pending"
    <3>1. CASE dir[Salt] = Absent
      <4>1. ring'[p] = WithKeys(ring[p], Unmatched(ring[p].keys))
        BY <1>3, <3>1 DEF LoadSalt
      <4>2. /\ ring'[p].keys = Unmatched(ring[p].keys) /\ ring'[p].persisted = ring[p].persisted
            /\ ring'[p].salt = ring[p].salt /\ ring'[p].origin = ring[p].origin
        BY <4>1 DEF WithKeys, Ring
      <4>3. \A r \in ring'[p].keys : r.salt = NoSalt
        BY <4>2 DEF Unmatched, RecordOf
      <4>4. ~ring[p].persisted
        BY <3>1 DEF OwnSalt
      <4>5. OwnSalt(p)'
        BY <2>0, <4>2, <4>3, <4>4 DEF OwnSalt, AfterSaltPcs, PersistPcs
      <4>6. RingView(p)' = Unmatched(ring[p].keys)
        BY <2>0, <4>2, SeenUnmatched DEF RingView
      <4>7. SeenKeys = Unmatched(ring[p].keys)
        <5>1. dir[Salt].salt = NoSalt
          BY <3>1 DEF Absent, File
        <5> QED BY <2>0, <2>1, <5>1, SeenUnmatched DEF SeenKeys
      <4> QED BY <1>v, <2>1, <4>2, <4>5, <4>6, <4>7
    <3>2. CASE dir[Salt].fmt = "salt"
      <4>1. ring'[p] = Ring(ring[p].keys, dir[Salt].salt, TRUE, ring[p].origin)
        BY <1>3, <3>2 DEF LoadSalt
      <4>2. /\ ring'[p].keys = ring[p].keys /\ ring'[p].salt = dir[Salt].salt /\ ring'[p].persisted
            /\ ring'[p].origin = ring[p].origin
        BY <4>1 DEF Ring
      <4>3. dir[Salt] = SaltFile(dir[Salt].salt) /\ dir[Salt].salt # NoSalt
        BY <3>2, KeyRecordsAssumption DEF SaltShape
      <4>4. OwnSalt(p)'
        BY <1>s, <2>0, <4>2, <4>3 DEF OwnSalt, AfterSaltPcs, PersistPcs, SameSalt
      <4>5. RingView(p)' = SeenKeys
        BY <2>1, <4>2 DEF RingView, SeenKeys
      <4> QED BY <1>v, <2>1, <4>2, <4>4, <4>5
    <3> QED BY <1>3, <3>1, <3>2 DEF LoadSalt
  <2>3. Amounts(p, SeenKeys)'
    BY <2>2, ExactAmounts, SeenAmounts
  <2>4. OwnView(p)'
    BY <2>0, <2>2, <2>3 DEF OwnView
  <2> QED BY <1>v, <2>2, <2>4
<1>4. CASE ConvertSalt(p) /\ ~Finish(p)
  <2>0. pc[p] = "conv_salt" /\ pc'[p] \in {"backup_rm", "salt_create"}
    BY <1>4 DEF ConvertSalt, Goto
  <2>1. orig[p].keys \in OldFiles /\ dir[Keys].fmt = "v1"
    BY <1>o, <2>0 DEF OwnNames, OwnView
  <2>2. OwnSalt(p)' /\ ring'[p].keys = ConvertV1(orig[p].keys, ring'[p].salt)
    <3>1. CASE dir[Salt].fmt = "salt"
      <4>1. /\ pc'[p] = "backup_rm"
            /\ ring'[p] = Ring(ConvertV1(orig[p].keys, dir[Salt].salt), dir[Salt].salt, TRUE, "pending")
        BY <1>4, <3>1 DEF ConvertSalt, Goto
      <4>2. /\ ring'[p].keys = ConvertV1(orig[p].keys, dir[Salt].salt)
            /\ ring'[p].salt = dir[Salt].salt /\ ring'[p].persisted
        BY <4>1 DEF Ring
      <4>3. dir[Salt] = SaltFile(dir[Salt].salt) /\ dir[Salt].salt # NoSalt
        BY <3>1, KeyRecordsAssumption DEF SaltShape
      <4>4. OwnSalt(p)'
        BY <1>s, <4>1, <4>2, <4>3 DEF OwnSalt, AfterSaltPcs, PersistPcs, SameSalt
      <4> QED BY <4>2, <4>4
    <3>2. CASE dir[Salt] = Absent
      <4>1. PICK t \in FreshSalts : ring' = [ring EXCEPT ![p] =
                Ring(ConvertV1(orig[p].keys, t), t, FALSE, "pending")]
        BY <1>4, <3>2 DEF ConvertSalt
      <4>2. /\ ring'[p].keys = ConvertV1(orig[p].keys, t)
            /\ ring'[p].salt = t /\ ring'[p].persisted = FALSE /\ pc'[p] = "salt_create" /\ t # NoSalt
        BY <1>4, <3>2, <4>1, KeyRecordsAssumption DEF Ring, ConvertSalt, Goto, FreshSalts
      <4>3. \A r \in dir[Keys].keys : r.salt = NoSalt
        BY <2>1 DEF SaltShape
      <4>4. OwnSalt(p)'
        BY <4>2, <4>3 DEF OwnSalt, AfterSaltPcs, PersistPcs
      <4> QED BY <4>2, <4>4
    <3> QED BY <1>4, <3>1, <3>2 DEF ConvertSalt
  <2>3. RingView(p)' = orig[p].keys
    BY <2>1, <2>2, SeenOld DEF RingView
  <2>4. PICK old \in OldFiles : RingView(p)' = old
    BY <2>1, <2>3
  <2>5. ring'[p].origin = "pending"
    BY <1>4 DEF ConvertSalt, Ring
  <2>6. Amounts(p, old)'
    BY <2>4, ExactAmounts
  <2>7. OwnView(p)'
    BY <2>0, <2>1, <2>5, <2>6 DEF OwnView
  <2> QED BY <1>v, <2>2, <2>7
<1> QED BY <1>1, <1>2, <1>3, <1>4, <1>v, <1>f DEF Load, LoadSalt, ConvertSalt

\* ensure_salt gives the ring a salt that nothing uses, or the one it has.
LEMMA EnsuredSalt ==
    ASSUME NEW p \in Procs, ring[p] \in Rings, NEW s \in EnsuredSalts(ring[p])
    PROVE  /\ s # NoSalt
           /\ ring[p].salt # NoSalt => s = ring[p].salt
           /\ s # ring[p].salt => \A r \in dir[Keys].keys : r.salt # s
<1>1. CASE ring[p].salt = NoSalt
  <2>1. s \in Salts /\ s \notin SaltsInUse
    BY <1>1 DEF EnsuredSalts, FreshSalts
  <2>2. ASSUME NEW r \in dir[Keys].keys PROVE r.salt \in SaltsInUse
    <3>1. r.salt \in {x.salt : x \in dir[Keys].keys}
      OBVIOUS
    <3>2. r.salt \in UNION {{x.salt : x \in dir[f].keys} : f \in Files}
      BY <3>1, FileNames
    <3> QED BY <3>2 DEF SaltsInUse
  <2> QED BY <1>1, <2>1, <2>2, KeyRecordsAssumption
<1>2. CASE ring[p].salt # NoSalt
  BY <1>2 DEF EnsuredSalts
<1> QED BY <1>1, <1>2

\* The salt that a ring gets shows what it showed without one.
LEMMA EnsuredSeen ==
    ASSUME NEW p \in Procs, OwnSalt(p), pc[p] \notin {"load_rm", "load_salt"}, ring[p] \in Rings,
           NEW s \in EnsuredSalts(ring[p]), NEW keys \in SUBSET ring[p].keys
    PROVE  Seen(keys, s) = Seen(keys, ring[p].salt)
<1>1. CASE ring[p].salt = NoSalt
  <2>1. \A r \in keys : r.salt = NoSalt
    BY <1>1 DEF OwnSalt
  <2> QED BY <2>1, SeenUnprinted
<1>2. CASE ring[p].salt # NoSalt
  BY <1>2, EnsuredSalt
<1> QED BY <1>1, <1>2

LEMMA EditAmount ==
    ASSUME TypeOK, NEW p \in Procs, OwnSalt(p), Fingerprinted(ring[p].keys), Edit(p)
    PROVE  /\ ring'[p].salt = ring[p].salt \/ ring'[p].salt \in EnsuredSalts(ring[p])
           /\ \/ /\ pc[p] = "ready" /\ pc'[p] = "edited"
                 /\ RingView(p)' \in Abstract!Edits(RingView(p))
              \/ /\ pc[p] \in {"ready", "learned"} /\ pc'[p] = "learned"
                 /\ Abstract!Learnt(RingView(p), RingView(p)')
<1> DEFINE keys == ring[p].keys
           t == ring[p].salt
<1>r. ring[p] \in Rings /\ pc[p] \notin {"load_rm", "load_salt"}
  BY EditSteps DEF TypeOK, ProcsOK, Edit
<1>e. ASSUME NEW ks, NEW s, Edited(p, ks, s)
      PROVE  ring'[p].salt = s /\ RingView(p)' = Seen(ks, s)
  <2>1. ring'[p].keys = ks /\ ring'[p].salt = s
    BY <1>e DEF Edited, Ring, TypeOK, ProcsOK
  <2> QED BY <2>1 DEF RingView
<1>1. CASE EditSetName(p) /\ pc[p] = "ready" /\ pc'[p] = "edited"
  <2>1. PICK n \in Names, row \in Rows, st \in {"computer", "key"} :
            \E k \in row, others \in SUBSET row, s \in EnsuredSalts(ring[p]) :
                Edited(p, SetName(DropOthers(keys, n, others \ {k}, t, st), n, k, s, st), s)
    BY <1>1 DEF EditSetName
  <2>2. PICK k \in row, others \in SUBSET row, s \in EnsuredSalts(ring[p]) :
            Edited(p, SetName(DropOthers(keys, n, others \ {k}, t, st), n, k, s, st), s)
    BY <2>1
  <2> DEFINE kept == DropOthers(keys, n, others \ {k}, t, st)
  <2>3. kept \in SUBSET keys
    BY DEF DropOthers
  <2>4. k \in Serials /\ others \ {k} \in SUBSET Serials
    BY KeyRecordsAssumption
  <2>5. Seen(kept, t) = DropOthers(RingView(p), n, others \ {k}, NoSalt, st)
    BY <2>4, DropOthersSeen DEF RingView
  <2>6. ring'[p].salt = s /\ RingView(p)' = Seen(SetName(kept, n, k, s, st), s)
    BY <1>e, <2>2
  <2> HIDE DEF kept
  <2>7. Fingerprinted(kept)
    BY <2>3 DEF Fingerprinted
  <2>8. RingView(p)' = SetName(Seen(kept, s), n, k, NoSalt, st)
    BY <2>4, <2>6, <2>7, SetNameSeen
  <2>9. Seen(kept, s) = Seen(kept, t)
    BY <1>r, <2>3, EnsuredSeen
  <2>10. SetName(DropOthers(RingView(p), n, others \ {k}, NoSalt, st), n, k, NoSalt, st)
             \in Abstract!Edits(RingView(p))
    BY EditsSeen
  <2> QED BY <1>1, <2>5, <2>6, <2>8, <2>9, <2>10
<1>2. CASE EditClear(p) /\ pc[p] = "ready" /\ pc'[p] = "edited"
  <2>1. CASE \E row \in Rows : \E ks \in SUBSET row : Edited(p, ClearKey(keys, ks, t), t)
    <3>0. PICK row \in Rows : \E ks \in SUBSET row : Edited(p, ClearKey(keys, ks, t), t)
      BY <2>1
    <3>1. PICK ks \in SUBSET row : Edited(p, ClearKey(keys, ks, t), t)
      BY <3>0
    <3>2. ks \in SUBSET Serials
      BY KeyRecordsAssumption
    <3>3. ring'[p].salt = t /\ RingView(p)' = Seen(ClearKey(keys, ks, t), t)
      BY <1>e, <3>1
    <3>4. RingView(p)' = ClearKey(RingView(p), ks, NoSalt)
      BY <3>2, <3>3, ClearKeySeen DEF RingView
    <3> QED BY <1>2, <3>3, <3>4, EditsSeen
  <2>2. CASE \E n \in Names : Edited(p, RemoveName(keys, n), t)
    <3>1. PICK n \in Names : Edited(p, RemoveName(keys, n), t)
      BY <2>2
    <3>2. ring'[p].salt = t /\ RingView(p)' = Seen(RemoveName(keys, n), t)
      BY <1>e, <3>1
    <3>3. RingView(p)' = RemoveName(RingView(p), n)
      BY <3>2, RemoveNameSeen DEF RingView
    <3> QED BY <1>2, <3>2, <3>3, EditsSeen
  <2> QED BY <1>2, <2>1, <2>2 DEF EditClear
<1>3. CASE EditLearn(p) /\ pc[p] \in {"ready", "learned"} /\ pc'[p] = "learned"
  <2>1. CASE \E n \in Names, k \in Serials, s \in EnsuredSalts(ring[p]) :
                 Edited(p, RecordFirstSeen(keys, n, k, s), s)
    <3>1. PICK n \in Names, k \in Serials, s \in EnsuredSalts(ring[p]) :
              Edited(p, RecordFirstSeen(keys, n, k, s), s)
      BY <2>1
    <3>2. ring'[p].salt = s /\ RingView(p)' = Seen(RecordFirstSeen(keys, n, k, s), s)
      BY <1>e, <3>1
    <3>3. Seen(keys, s) = RingView(p)
      BY <1>r, EnsuredSeen DEF RingView
    <3>4. Abstract!Learnt(Seen(keys, s), Seen(RecordFirstSeen(keys, n, k, s), s))
      BY LearntSeen
    <3> QED BY <1>3, <3>2, <3>3, <3>4
  <2>2. CASE \E n \in Names, k \in Serials : Edited(p, DropStale(keys, n, k, t), t)
    <3>1. PICK n \in Names, k \in Serials : Edited(p, DropStale(keys, n, k, t), t)
      BY <2>2
    <3>2. ring'[p].salt = t /\ RingView(p)' = Seen(DropStale(keys, n, k, t), t)
      BY <1>e, <3>1
    <3>3. Abstract!Learnt(Seen(keys, t), Seen(DropStale(keys, n, k, t), t))
      BY LearntSeen
    <3> QED BY <1>3, <3>2, <3>3 DEF RingView
  <2> QED BY <1>3, <2>1, <2>2 DEF EditLearn
<1> QED BY <1>1, <1>2, <1>3 DEF Edit, Goto, TypeOK, ProcsOK

LEMMA EditView ==
    ASSUME TypeOK, RecordsInv, NamesInv, NEW p \in Procs, OwnSalt(p), OwnView(p), Edit(p)
    PROVE  OwnSalt(p)' /\ OwnView(p)' /\ SeenKeys' = SeenKeys
<1> USE DEF TypeOK, ProcsOK
<1>d. dir' = dir /\ SeenKeys' = SeenKeys
  BY EditSteps DEF SeenKeys
<1>1. /\ pc[p] \in {"ready", "learned"} /\ pc'[p] \in {"edited", "learned"}
      /\ mode'[p] = mode[p] /\ mode[p] = "load"
      /\ ring'[p].origin = ring[p].origin /\ ring'[p].persisted = ring[p].persisted
  BY EditSteps DEF Edit, Goto, Edited, Ring, NamesInv, OwnNames
<1>2. /\ ring'[p].salt = ring[p].salt \/ ring'[p].salt \in EnsuredSalts(ring[p])
      /\ \/ /\ pc[p] = "ready" /\ pc'[p] = "edited"
            /\ RingView(p)' \in Abstract!Edits(RingView(p))
         \/ /\ pc'[p] = "learned" /\ Abstract!Learnt(RingView(p), RingView(p)')
  BY EditAmount DEF RecordsInv, GoodKeys
<1>3. /\ ring[p].salt # NoSalt => ring'[p].salt = ring[p].salt
      /\ \A r \in ring'[p].keys : r \in ring[p].keys \/ r.salt \in {NoSalt, ring'[p].salt}
  BY EditedSalts
<1>4. OwnSalt(p)'
  <2>1. \A r \in dir[Keys].keys : ~ring[p].persisted /\ r.salt # NoSalt => r.salt # ring'[p].salt
    BY <1>2, EnsuredSalt DEF OwnSalt
  <2>2. ring'[p].salt = NoSalt => \A r \in ring'[p].keys : r.salt = NoSalt
    BY <1>1, <1>3 DEF OwnSalt
  <2> QED BY <1>1, <1>3, <1>d, <2>1, <2>2 DEF OwnSalt, AfterSaltPcs, PersistPcs
<1>5. ASSUME NEW base, Amounts(p, base) PROVE Amounts(p, base)'
  <2>1. CASE pc'[p] = "edited"
    <3>1. RingView(p) = base /\ RingView(p)' \in Abstract!Edits(RingView(p))
      BY <1>1, <1>2, <1>5, <2>1 DEF Amounts
    <3> QED BY <2>1, <3>1 DEF Amounts, Saved
  <2>2. CASE pc'[p] = "learned"
    <3>1. Abstract!Learnt(base, RingView(p)) /\ Abstract!Learnt(RingView(p), RingView(p)')
      BY <1>1, <1>2, <1>5, <2>2 DEF Amounts
    <3>2. Abstract!Learnt(base, RingView(p)')
      BY <3>1, LearntOrder
    <3> QED BY <2>2, <3>2 DEF Amounts, Saved
  <2> QED BY <1>1, <2>1, <2>2
<1>6. Holding(p)
  BY <1>1 DEF Holding
<1>7. OwnView(p)'
  <2>1. ASSUME ring'[p].origin = "pending"
        PROVE  \E old \in OldFiles : /\ Amounts(p, old)'
                                     /\ dir'[Keys].fmt \in {"absent", "v2"} => SeenKeys' = old
    BY <1>1, <1>5, <1>6, <1>d, <2>1 DEF OwnView
  <2>2. ASSUME ring'[p].origin # "pending", dir'[Keys].fmt \in {"absent", "v2"}
        PROVE  Amounts(p, SeenKeys)'
    <3>1. Amounts(p, SeenKeys)
      BY <1>1, <1>6, <1>d, <2>2 DEF OwnView
    <3> QED BY <1>5, <1>d, <3>1, SeenAmounts
  <2> QED BY <1>1, <2>1, <2>2 DEF OwnView
<1> QED BY <1>4, <1>7, <1>d

LEMMA SaveCheckView ==
    ASSUME TypeOK, NEW p \in Procs, OwnSalt(p), OwnView(p), SaveCheck(p), ~SaveRefused(p)
    PROVE  OwnSalt(p)' /\ OwnView(p)' /\ SeenKeys' = SeenKeys
<1> USE DEF TypeOK, ProcsOK
<1>d. dir' = dir /\ SeenKeys' = SeenKeys
  BY DEF SaveCheck, SeenKeys
<1>1. PICK s \in EnsuredSalts(ring[p]) :
          ring'[p] = Ring(ring[p].keys, s, ring[p].persisted, ring[p].origin)
  BY DEF SaveCheck
<1>2. /\ ring'[p].keys = ring[p].keys /\ ring'[p].salt = s
      /\ ring'[p].persisted = ring[p].persisted /\ ring'[p].origin = ring[p].origin
  BY <1>1 DEF Ring
<1>3. /\ pc[p] \in {"edited", "learned"} /\ pc'[p] \in {"salt_create", "backup_rm", "tmp_rm"}
      /\ pc'[p] # "salt_create" <=> ring[p].persisted
      /\ mode'[p] = "save"
  BY DEF SaveCheck, Goto
<1>4. OwnSalt(p)'
  <2>1. \A r \in dir[Keys].keys : ~ring[p].persisted /\ r.salt # NoSalt => r.salt # s
    BY EnsuredSalt DEF OwnSalt
  <2>2. s # NoSalt /\ (ring[p].salt # NoSalt => s = ring[p].salt)
    BY EnsuredSalt
  <2> QED BY <1>2, <1>3, <1>d, <2>1, <2>2 DEF OwnSalt, AfterSaltPcs, PersistPcs
<1>5. RingView(p)' = RingView(p)
  BY <1>2, <1>3, EnsuredSeen DEF RingView
<1>6. ASSUME NEW base, Amounts(p, base) PROVE Amounts(p, base)'
  BY <1>3, <1>5, <1>6 DEF Amounts
<1>7. Holding(p)
  BY <1>3 DEF Holding
<1>8. OwnView(p)'
  <2>1. ASSUME ring'[p].origin = "pending"
        PROVE  \E old \in OldFiles : /\ Amounts(p, old)'
                                     /\ dir'[Keys].fmt \in {"absent", "v2"} => SeenKeys' = old
    BY <1>2, <1>6, <1>7, <1>d, <2>1 DEF OwnView
  <2>2. ASSUME ring'[p].origin # "pending", dir'[Keys].fmt \in {"absent", "v2"}
        PROVE  Amounts(p, SeenKeys)'
    <3>1. Amounts(p, SeenKeys)
      BY <1>2, <1>7, <1>d, <2>2 DEF OwnView
    <3> QED BY <1>6, <1>d, <3>1, SeenAmounts
  <2> QED BY <1>3, <2>1, <2>2 DEF OwnView
<1> QED BY <1>4, <1>8, <1>d

----------------------------------------------------------------------------
(* Every step is a step of the registry.                                   *)

Unseen == dir'[Keys] = dir[Keys] /\ SeenKeys' = SeenKeys
Saving(p) == pc[p] = "rename" /\ dir'[Keys] = V2(ring[p].keys) /\ SeenKeys' = RingView(p)

LEMMA RenameOnly ==
    ASSUME TypeOK, NEW p \in Procs, Step(p) \/ Failure(p) \/ Edit(p) \/ Discard(p) \/ Crash(p),
           pc[p] = "rename", dir'[Keys] # dir[Keys]
    PROVE  Rename(p) /\ pc'[p] = "dir_sync"
<1>1. Rename(p)
  BY DEF Step, Failure, Load, PersistSalt, FinishConversion, WriteAtomic, Edit, Discard, Crash, SaveCheck,
         LoadRead, LoadRemoveBackup, LoadSalt, ConvertSalt,
         SaltCreate, SaltWrite, SaltSync, SaltUndo, SaltCheck, SaltError,
         BackupRemove, BackupCreate, BackupWrite, UndoBackup, Verify, BackupDrop, BackupError,
         TmpRemove, TmpCreate, TmpWrite, DirSync, TmpError, DirSyncError
<1> QED BY <1>1 DEF Rename, Goto, TypeOK, ProcsOK

LEMMA ProcessView ==
    ASSUME OneProcess, TypeOK, SaltShape, WritersInv, FilesInv, RecordsInv, NamesInv, ViewInv,
           NEW p \in Procs, Step(p) \/ Failure(p) \/ Edit(p) \/ Discard(p) \/ Crash(p)
    PROVE  OwnSalt(p)' /\ OwnView(p)' /\ (Unseen \/ Saving(p))
<1>v. OwnSalt(p) /\ OwnView(p)
  BY DEF ViewInv
<1>1. CASE dir'[Keys] = dir[Keys]
  <2>1. CASE Load(p)
    BY <1>1, <1>v, <2>1, LoadView DEF Unseen
  <2>2. CASE PersistSalt(p) \/ SaltError(p)
    BY <1>1, <1>v, <2>2, PersistSaltView DEF Unseen
  <2>3. CASE FinishConversion(p) \/ BackupError(p)
    BY <1>1, <1>v, <2>3, FinishConversionRing, FinishConversionHeld, AfterSaltView DEF Unseen
  <2>4. CASE WriteAtomic(p) \/ TmpError(p) \/ DirSyncError(p)
    BY <1>1, <1>v, <2>4, WriteAtomicRing, WriteAtomicHeld, AfterSaltView DEF Unseen
  <2>5. CASE Edit(p)
    BY <1>1, <1>v, <2>5, EditView DEF Unseen
  <2>6. CASE SaveCheck(p) /\ ~SaveRefused(p)
    BY <1>1, <1>v, <2>6, SaveCheckView DEF Unseen
  <2>7. CASE Discard(p) \/ Crash(p) \/ (SaveCheck(p) /\ SaveRefused(p))
    <3>1. Finish(p) /\ SameSalt
      BY <2>7 DEF Discard, Crash, SaveCheck, SameSalt
    <3> QED BY <1>1, <1>v, <3>1, FinishView DEF Unseen
  <2> QED BY <2>1, <2>2, <2>3, <2>4, <2>5, <2>6, <2>7 DEF Step, Failure
<1>2. CASE dir'[Keys] # dir[Keys]
  <2>1. pc[p] = "rename" /\ dir'[Keys] = V2(ring[p].keys)
    BY <1>2, ProcessFiles DEF FilesStep, KeysStep
  <2>2. Rename(p) /\ pc'[p] = "dir_sync"
    BY <1>2, <2>1, RenameOnly
  <2>3. pc[p] \in AfterSaltPcs /\ SameSalt /\ CopiedRing(p) /\ HeldRing(p)
    BY <2>2, WriteAtomicRing, WriteAtomicHeld DEF WriteAtomic
  <2>4. OwnSalt(p)'
    BY <1>v, <2>3, AfterSaltView
  <2>5. OwnView(p)' /\ SeenKeys' = RingView(p)
    BY <1>v, <2>1, <2>2, <2>3, RenameView
  <2> QED BY <2>1, <2>4, <2>5 DEF Saving
<1> QED BY <1>1, <1>2

LEMMA NextView ==
    ASSUME OneProcess, TypeOK, SaltShape, WritersInv, FilesInv, RecordsInv, NamesInv, ViewInv, [Next]_vars
    PROVE  ViewInv'
<1>1. CASE UNCHANGED vars
  <2>1. SeenKeys' = SeenKeys
    BY <1>1 DEF vars, SeenKeys
  <2>2. ASSUME NEW p \in Procs PROVE OwnSalt(p)'
    BY <1>1 DEF vars, ViewInv, OwnSalt
  <2>3. ASSUME NEW p \in Procs PROVE OwnView(p)'
    BY <1>1, <2>1 DEF vars, ViewInv, OwnView, Holding, Amounts, RingView
  <2> QED BY <1>1, <2>2, <2>3 DEF vars, ViewInv
<1>2. ASSUME NEW p \in Procs, Step(p) \/ Failure(p) \/ Edit(p) \/ Discard(p) \/ Crash(p)
      PROVE  ViewInv'
  <2>1. OwnSalt(p)' /\ OwnView(p)' /\ (Unseen \/ Saving(p))
    BY <1>2, ProcessView
  <2>2. dir'[Keys].fmt # "salt"
    BY <2>1, NoRecords DEF Unseen, Saving, ViewInv
  <2> QED BY <2>1, <2>2 DEF ViewInv, OneProcess
<1>3. CASE ForeignSave
  <2>1. /\ UNCHANGED <<pc, mode, ring>>
        /\ \A p \in Procs : pc[p] \in {"idle", "ready", "edited", "learned"}
        /\ dir'[Keys].fmt \in {"newer", "torn", "v1"}
        /\ \A r \in dir'[Keys].keys : r.salt = NoSalt
        /\ dir'[Salt] = dir[Salt]
    BY <1>3, NoRecords, FileNames, DistinctFiles, KeyringStoreAssumption DEF ForeignSave, TypeOK, FilesOK
  <2>2. ASSUME NEW p \in Procs PROVE OwnSalt(p)'
    BY <2>1 DEF ViewInv, OwnSalt, AfterSaltPcs, PersistPcs
  <2>3. ASSUME NEW p \in Procs PROVE OwnView(p)'
    <3>1. \A base : Amounts(p, base) => Amounts(p, base)'
      BY <2>1 DEF Amounts, RingView
    <3>2. Holding(p)' => Holding(p)
      BY <2>1 DEF Holding
    <3> QED BY <2>1, <3>1, <3>2 DEF ViewInv, OwnView
  <2> QED BY <2>1, <2>2, <2>3 DEF ViewInv
<1>4. CASE LoseSalt
  <2>1. UNCHANGED <<pc, ring>> /\ dir'[Keys] = dir[Keys] /\ \A p \in Procs : pc[p] = "idle"
    BY <1>4, FileNames, DistinctFiles DEF LoseSalt, Removed, TypeOK, FilesOK
  <2>2. ASSUME NEW p \in Procs PROVE OwnSalt(p)'
    BY <2>1 DEF ViewInv, OwnSalt, AfterSaltPcs, PersistPcs
  <2>3. ASSUME NEW p \in Procs PROVE OwnView(p)'
    BY <2>1 DEF OwnView, Holding
  <2> QED BY <2>1, <2>2, <2>3 DEF ViewInv
<1> QED BY <1>1, <1>2, <1>3, <1>4 DEF Next


\* A rename saves what one command, or a scan, made of the registry that a caller saw.
LEMMA SavingStep ==
    ASSUME OneOldFile, OldNamesUnique, TypeOK, FilesInv, RecordsInv, NamesInv, ViewInv,
           NEW p \in Procs, Saving(p)
    PROVE  Abstract!Save
<1>p. pc[p] \in WorkPcs /\ Holding(p) /\ OwnView(p) /\ OwnNames(p)
  BY DEF Saving, WorkPcs, AfterSaltPcs, Holding, ViewInv, NamesInv
<1>1. dir[Keys].fmt \in {"absent", "v1", "v2"}
  <2>1. dir[Keys] \in Contents
    BY FileNames DEF TypeOK, FilesOK
  <2>2. dir[Keys].fmt \notin {"torn", "newer", "salt"}
    BY <1>p DEF FilesInv, OwnFiles, ViewInv
  <2> QED BY <2>1, <2>2 DEF Contents
<1>2. SeenFormat = dir[Keys].fmt /\ SeenFormat' = "v2"
  BY <1>1, NoRecords DEF SeenFormat, Saving
<1>3. Amounts(p, SeenKeys)
  <2>1. CASE ring[p].origin # "pending"
    <3>1. dir[Keys].fmt # "v1"
      BY <1>p, <2>1 DEF OwnNames
    <3> QED BY <1>1, <1>p, <2>1, <3>1 DEF OwnView
  <2>2. CASE ring[p].origin = "pending"
    <3>1. PICK old \in OldFiles : Amounts(p, old) /\ (dir[Keys].fmt \in {"absent", "v2"} => SeenKeys = old)
      BY <1>p, <2>2 DEF OwnView
    <3>2. ASSUME dir[Keys].fmt = "v1" PROVE SeenKeys = old
      <4>1. dir[Keys].keys = old
        BY <3>2 DEF NamesInv, OneOldFile
      <4> QED BY <4>1, SeenOld DEF SeenKeys
    <3> QED BY <1>1, <3>1, <3>2
  <2> QED BY <2>1, <2>2
<1>4. SeenKeys' \in Abstract!Edits(SeenKeys) \/ Abstract!Learnt(SeenKeys, SeenKeys')
  BY <1>3 DEF Amounts, Saved, Saving
<1>5. Abstract!UniqueNames(SeenKeys')
  <2>1. Unique(ring[p].keys)
    BY DEF RecordsInv, GoodKeys
  <2>2. Abstract!UniqueNames(RingView(p))
    BY <2>1, SeenNames DEF RingView
  <2> QED BY <2>2 DEF Saving
<1> QED BY <1>1, <1>2, <1>4, <1>5 DEF Abstract!Save

\* Without its salt the registry forgets whose names they are.
LEMMA LoseSaltStep ==
    ASSUME TypeOK, SaltShape, RecordsInv, NamesInv, LoseSalt
    PROVE  Abstract!Forget \/ UNCHANGED <<SeenFormat, SeenKeys>>
<1>1. dir'[Keys] = dir[Keys] /\ dir'[Salt].salt = NoSalt
  <2>1. dir'[Keys] = dir[Keys] /\ dir'[Salt] = Absent
    BY FileNames, DistinctFiles DEF LoseSalt, Removed, TypeOK, FilesOK
  <2> QED BY <2>1 DEF Absent, File
<1>2. SeenFormat' = SeenFormat /\ SeenKeys' = Seen(dir[Keys].keys, NoSalt)
  BY <1>1 DEF SeenFormat, SeenKeys
<1>3. GoodFile(dir[Keys])
  BY FileNames DEF RecordsInv
<1>4. CASE dir[Keys].fmt = "v2"
  <2>1. Fingerprinted(dir[Keys].keys)
    BY <1>3, <1>4 DEF GoodFile, GoodKeys
  <2>2. SeenKeys' = Abstract!Unmatched(SeenKeys)
    BY <1>2, <2>1, SeenUnmatched, SameOperations DEF SeenKeys
  <2>3. SeenFormat = "v2"
    BY <1>4 DEF SeenFormat
  <2> QED BY <1>2, <2>2, <2>3 DEF Abstract!Forget
<1>5. CASE dir[Keys].fmt = "v1"
  BY <1>2, <1>5, SeenOld DEF NamesInv, SeenKeys
<1>6. CASE dir[Keys].fmt \notin {"v1", "v2"}
  <2>1. dir[Keys].keys = {}
    BY <1>3, <1>6 DEF GoodFile
  <2> QED BY <1>2, <2>1 DEF SeenKeys, Seen
<1> QED BY <1>4, <1>5, <1>6

LEMMA ForeignSaveStep ==
    ASSUME OldNamesUnique, TypeOK, ForeignSave
    PROVE  Abstract!Replaced
<1>1. dir'[Keys] \in {Newer, Torn} \cup {V1(keys) : keys \in OldFiles}
  BY FileNames DEF ForeignSave, TypeOK, FilesOK
<1>2. CASE dir'[Keys] \in {Newer, Torn}
  <2>1. SeenFormat' = "unknown" /\ SeenKeys' = {}
    BY <1>2, NoRecords DEF SeenFormat, SeenKeys, Seen
  <2> QED BY <2>1 DEF Abstract!Replaced, Abstract!UniqueNames
<1>3. CASE dir'[Keys] \in {V1(keys) : keys \in OldFiles}
  <2>1. PICK old \in OldFiles : dir'[Keys] = V1(old)
    BY <1>3
  <2>2. SeenFormat' = "v1" /\ SeenKeys' = Seen(old, dir'[Salt].salt)
    BY <2>1, NoRecords DEF SeenFormat, SeenKeys
  <2>3. Abstract!UniqueNames(Seen(old, dir'[Salt].salt))
    BY SeenNames DEF OldNamesUnique
  <2> QED BY <2>2, <2>3 DEF Abstract!Replaced
<1> QED BY <1>1, <1>2, <1>3

LEMMA RegistryStep ==
    ASSUME OneProcess, OneOldFile, OldNamesUnique, TypeOK, SaltShape, WritersInv,
           FilesInv, RecordsInv, NamesInv, ViewInv, [Next]_vars
    PROVE  [Abstract!RegistryNext]_(Abstract!regVars)
<1> USE DEF Abstract!RegistryNext, Abstract!regVars
<1>1. CASE UNCHANGED vars
  BY <1>1 DEF vars, SeenKeys, SeenFormat
<1>2. ASSUME NEW p \in Procs, Step(p) \/ Failure(p) \/ Edit(p) \/ Discard(p) \/ Crash(p)
      PROVE  [Abstract!RegistryNext]_(Abstract!regVars)
  <2>1. Unseen \/ Saving(p)
    BY <1>2, ProcessView
  <2>2. CASE Unseen
    BY <2>2 DEF Unseen, SeenFormat
  <2>3. CASE Saving(p)
    BY <2>3, SavingStep
  <2> QED BY <2>1, <2>2, <2>3
<1>3. CASE ForeignSave
  BY <1>3, ForeignSaveStep
<1>4. CASE LoseSalt
  BY <1>4, LoseSaltStep
<1> QED BY <1>1, <1>2, <1>3, <1>4 DEF Next

LEMMA RegistryStart ==
    ASSUME OldNamesUnique, Init
    PROVE  ViewInv /\ Abstract!RegistryInit
<1>1. /\ dir[Keys] \in {Absent, Newer, Torn} \cup {V1(keys) : keys \in OldFiles}
      /\ \A p \in Procs : pc[p] = "idle" /\ ring[p] = EmptyRing
  BY FileNames DEF Init
<1>2. ASSUME NEW p \in Procs PROVE OwnSalt(p) /\ OwnView(p)
  <2>1. OwnSalt(p)
    BY <1>1, NoRecords DEF OwnSalt, AfterSaltPcs, PersistPcs
  <2>2. ~Holding(p)
    BY <1>1 DEF Holding
  <2> QED BY <1>1, <2>1, <2>2 DEF OwnView
<1>3. CASE dir[Keys] \in {Absent, Newer, Torn}
  <2>1. SeenFormat \in {"absent", "unknown"} /\ SeenKeys = {} /\ dir[Keys].fmt # "salt"
    BY <1>3, NoRecords DEF SeenFormat, SeenKeys, Seen
  <2> QED BY <1>2, <2>1 DEF ViewInv, Abstract!RegistryInit, Abstract!UniqueNames
<1>4. CASE dir[Keys] \in {V1(keys) : keys \in OldFiles}
  <2>1. PICK old \in OldFiles : dir[Keys] = V1(old)
    BY <1>4
  <2>2. SeenFormat = "v1" /\ SeenKeys = Seen(old, dir[Salt].salt) /\ dir[Keys].fmt # "salt"
    BY <2>1, NoRecords DEF SeenFormat, SeenKeys
  <2>3. Abstract!UniqueNames(Seen(old, dir[Salt].salt))
    BY SeenNames DEF OldNamesUnique
  <2> QED BY <1>2, <2>2, <2>3 DEF ViewInv, Abstract!RegistryInit
<1> QED BY <1>1, <1>3, <1>4

\* With one process at a time, and version 1 files that have the same names, each
\* once, load_from, a command and save_to amount to one edit of one registry:
\* whatever call fails and wherever the process dies, keys.json read with keys.salt
\* changes by a whole edit, by what a scan learnt, or not at all, and a lost salt
\* takes the keys from the names and leaves the names.
THEOREM RegistryImplemented ==
    ASSUME OneProcess, OneOldFile, OldNamesUnique
    PROVE  Spec => ImplementsRegistry
<1>1. Init => ViewInv /\ Abstract!RegistryInit
  BY RegistryStart
<1>2. TypeOK /\ SaltInv /\ FilesInv /\ RecordsInv /\ NamesInv /\ ViewInv /\ [Next]_vars => ViewInv'
  BY NextView DEF SaltInv
<1>3. TypeOK /\ SaltInv /\ FilesInv /\ RecordsInv /\ NamesInv /\ ViewInv /\ [Next]_vars
          => [Abstract!RegistryNext]_(Abstract!regVars)
  BY RegistryStep DEF SaltInv
<1> QED BY <1>1, <1>2, <1>3, TypeCorrect, SaltInvHolds, FilesInvHolds, RecordsInvHolds, NamesInvHolds, PTL
        DEF Spec, ImplementsRegistry, Abstract!RegistrySpec
=============================================================================
