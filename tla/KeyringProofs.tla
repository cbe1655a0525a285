---------------------------- MODULE KeyringProofs ----------------------------
(***************************************************************************)
(* Theorems about KeyringStore, for any set of processes, names, keys,     *)
(* salts and bounds.                                                       *)
(***************************************************************************)
EXTENDS KeyringStore, TLAPS

----------------------------------------------------------------------------
(* Type correctness.                                                       *)

LEMMA FileTypes ==
    /\ Absent \in Contents /\ Torn \in Contents /\ Newer \in Contents
    /\ \A keys \in SUBSET Records : V1(keys) \in Contents /\ V2(keys) \in Contents
    /\ \A s \in Salts \cup {NoSalt} : SaltFile(s) \in Contents
BY DEF Absent, Torn, Newer, V1, V2, SaltFile, File, Contents

LEMMA RingTypes ==
    /\ EmptyRing \in Rings
    /\ \A keys \in SUBSET Records, s \in Salts \cup {NoSalt}, b \in BOOLEAN,
          o \in {"fresh", "v2", "pending", "converted"} : Ring(keys, s, b, o) \in Rings
    /\ \A r \in Rings : /\ r.keys \in SUBSET Records
                        /\ r.salt \in Salts \cup {NoSalt}
                        /\ r.persisted \in BOOLEAN
                        /\ r.origin \in {"fresh", "v2", "pending", "converted"}
BY DEF EmptyRing, Ring, Rings

\* The edits of KeyRecords return records.
LEMMA EditTypes ==
    ASSUME NEW keys \in SUBSET Records, NEW n \in Names, NEW k \in Serials,
           NEW s \in Salts \cup {NoSalt}, NEW st \in {"computer", "key"}
    PROVE  /\ SetName(keys, n, k, s, st) \in SUBSET Records
           /\ RecordFirstSeen(keys, n, k, s) \in SUBSET Records
           /\ DropStale(keys, n, k, s) \in SUBSET Records
           /\ RemoveName(keys, n) \in SUBSET Records
BY DEF SetName, RecordFirstSeen, DropStale, RemoveName, RecordOf, Records

LEMMA ConvertTypes ==
    ASSUME NEW keys \in SUBSET Records, NEW s \in Salts \cup {NoSalt}
    PROVE  /\ Unmatched(keys) \in SUBSET Records
           /\ ConvertV1(keys, s) \in SUBSET Records
BY DEF Unmatched, ConvertV1, RecordOf, Records

\* The ways a call returns keep the types of the processes' variables.
LEMMA ReturnTypes ==
    ASSUME ProcsOK, NEW p \in Procs, NEW r \in Rings
    PROVE  /\ Finish(p) => ProcsOK'
           /\ Return(p, r) => ProcsOK'
           /\ WriteFailed(p) => ProcsOK'
<1>1. Finish(p) => ProcsOK'
  BY FileTypes, RingTypes DEF Finish, Goto, Pcs, ProcsOK
<1>2. Return(p, r) => ProcsOK'
  BY <1>1, FileTypes DEF Return, Goto, Pcs, ProcsOK
<1>3. WriteFailed(p) => ProcsOK'
  BY <1>1 DEF WriteFailed, Goto, Pcs, ProcsOK
<1> QED BY <1>1, <1>2, <1>3

LEMMA FileSteps ==
    ASSUME FilesOK, NEW p \in Procs, NEW c \in Contents, NEW f \in Files
    PROVE  /\ Written(p, c) \in [Files -> Contents]
           /\ Closed(p) \in [Files -> SUBSET Procs]
           /\ Removed(f) => FilesOK'
           /\ Created(p, f) => FilesOK'
BY FileTypes DEF FilesOK, Written, Closed, Removed, Created

LEMMA BoundSteps ==
    ASSUME BoundsOK
    PROVE  UnchangedEnv /\ (Ok \/ Error) => BoundsOK'
BY KeyringStoreAssumption DEF BoundsOK, UnchangedEnv, Ok, Error

LEMMA FileNames == Keys \in Files /\ Tmp \in Files /\ Backup \in Files /\ Salt \in Files
BY DEF Files

\* A conversion starts with the salt from disk or with a fresh one.
LEMMA ConvertCases ==
    ASSUME NEW p \in Procs, ConvertSalt(p), ~(dir[Salt].fmt = "torn" /\ Finish(p))
    PROVE  \E s \in FreshSalts \cup {dir[Salt].salt}, b \in BOOLEAN :
              ring' = [ring EXCEPT ![p] = Ring(ConvertV1(orig[p].keys, s), s, b, "pending")]
<1>1. CASE dir[Salt].fmt = "salt" /\ ring' = [ring EXCEPT ![p] =
               Ring(ConvertV1(orig[p].keys, dir[Salt].salt), dir[Salt].salt, TRUE, "pending")]
  BY <1>1
<1>2. CASE \E s \in FreshSalts : ring' = [ring EXCEPT ![p] =
               Ring(ConvertV1(orig[p].keys, s), s, FALSE, "pending")]
  BY <1>2
<1> QED BY <1>1, <1>2 DEF ConvertSalt

LEMMA LoadTypes ==
    ASSUME TypeOK, NEW p \in Procs, Load(p)
    PROVE  TypeOK'
<1> USE FileTypes, RingTypes, FileNames DEF TypeOK
<1>c. Contents = [fmt  : {"absent", "torn", "newer", "v1", "v2", "salt"},
                  keys : SUBSET Records,
                  salt : Salts \cup {NoSalt}]
  BY DEF Contents
<1>1. CASE LoadRead(p)
  <2>1. dir[Keys] \in Contents /\ dir[Keys].keys \in SUBSET Records
    BY <1>c DEF FilesOK
  <2>2. /\ Ring(dir[Keys].keys, NoSalt, FALSE, "v2") \in Rings
        /\ Ring({}, NoSalt, FALSE, "pending") \in Rings
    BY <2>1
  <2>3. ProcsOK'
    <3>1. pc' \in [Procs -> Pcs]
      BY <1>1 DEF LoadRead, ProcsOK, Goto, Pcs
    <3>2. ring' \in [Procs -> Rings]
      BY <1>1, <2>2 DEF LoadRead, ProcsOK
    <3>3. orig' \in [Procs -> Contents] /\ mode' \in [Procs -> {"load", "save"}]
      BY <1>1, <2>1 DEF LoadRead, ProcsOK
    <3> QED BY <3>1, <3>2, <3>3 DEF ProcsOK
  <2> QED BY <1>1, <2>3, BoundSteps DEF LoadRead, FilesOK
<1>2. CASE LoadRemoveBackup(p)
  <2>1. ProcsOK'
    BY <1>2 DEF LoadRemoveBackup, ProcsOK, Goto, Pcs
  <2>2. FilesOK'
    BY <1>2, FileSteps DEF LoadRemoveBackup, FilesOK
  <2> QED BY <1>2, <2>1, <2>2, BoundSteps DEF LoadRemoveBackup
<1>3. CASE LoadSalt(p)
  <2>1. ring[p] \in Rings /\ dir[Salt].salt \in Salts \cup {NoSalt}
    BY <1>c DEF ProcsOK, FilesOK
  <2>2. /\ WithKeys(ring[p], Unmatched(ring[p].keys)) \in Rings
        /\ Ring(ring[p].keys, dir[Salt].salt, TRUE, ring[p].origin) \in Rings
    BY <2>1, ConvertTypes DEF WithKeys
  <2>3. ProcsOK'
    BY <1>3, <2>1, <2>2, ReturnTypes DEF LoadSalt, ProcsOK, Goto, Pcs
  <2> QED BY <1>3, <2>3, BoundSteps DEF LoadSalt, FilesOK
<1>4. CASE ConvertSalt(p)
  <2>1. /\ ring[p] \in Rings /\ dir[Salt].salt \in Salts \cup {NoSalt}
        /\ orig[p].keys \in SUBSET Records
    BY <1>c DEF ProcsOK, FilesOK
  <2>2. \A s \in Salts \cup {NoSalt}, b \in BOOLEAN :
            Ring(ConvertV1(orig[p].keys, s), s, b, "pending") \in Rings
    BY <2>1, ConvertTypes
  <2>3. FreshSalts \subseteq Salts
    BY DEF FreshSalts
  <2>4. ProcsOK'
    <3>1. CASE dir[Salt].fmt = "torn" /\ Finish(p)
      BY <3>1, <2>1, ReturnTypes
    <3>2. CASE ~(dir[Salt].fmt = "torn" /\ Finish(p))
      <4>1. ring' \in [Procs -> Rings]
        <5>1. PICK s \in FreshSalts \cup {dir[Salt].salt}, b \in BOOLEAN :
                ring' = [ring EXCEPT ![p] = Ring(ConvertV1(orig[p].keys, s), s, b, "pending")]
          BY <1>4, <3>2, ConvertCases
        <5>2. Ring(ConvertV1(orig[p].keys, s), s, b, "pending") \in Rings
          BY <5>1, <2>1, <2>2, <2>3
        <5> QED BY <5>1, <5>2 DEF ProcsOK
      <4>2. pc' \in [Procs -> Pcs]
        BY <1>4, <3>2 DEF ConvertSalt, ProcsOK, Goto, Pcs
      <4> QED BY <1>4, <3>2, <4>1, <4>2 DEF ConvertSalt, ProcsOK
    <3> QED BY <3>1, <3>2
  <2> QED BY <1>4, <2>4, BoundSteps DEF ConvertSalt, FilesOK
<1> QED BY <1>1, <1>2, <1>3, <1>4 DEF Load

LEMMA PersistSaltTypes ==
    ASSUME TypeOK, NEW p \in Procs, PersistSalt(p) \/ SaltError(p)
    PROVE  TypeOK'
<1> USE FileTypes, RingTypes, FileNames, BoundSteps DEF TypeOK
<1>r. ring[p] \in Rings
  BY DEF ProcsOK
<1>s. SaltPersisted(p) => ProcsOK'
  <2>1. Ring(ring[p].keys, ring[p].salt, TRUE, ring[p].origin) \in Rings
    BY <1>r
  <2> QED BY <2>1 DEF SaltPersisted, ProcsOK, Goto, AfterSalt, Pcs
<1>1. CASE SaltCreate(p)
  BY <1>1, FileSteps DEF SaltCreate, ProcsOK, FilesOK, Goto, Pcs
<1>2. CASE SaltWrite(p)
  BY <1>2, <1>r, FileSteps DEF SaltWrite, ProcsOK, FilesOK, Goto, Pcs
<1>3. CASE SaltSync(p)
  BY <1>3, <1>s, FileSteps DEF SaltSync, FilesOK
<1>4. CASE SaltUndo(p)
  BY <1>4, <1>r, FileSteps, ReturnTypes DEF SaltUndo, FilesOK
<1>5. CASE SaltCheck(p)
  BY <1>5, <1>r, <1>s, ReturnTypes DEF SaltCheck, FilesOK
<1>6. CASE SaltError(p)
  BY <1>6, <1>r, FileSteps, ReturnTypes DEF SaltError, ProcsOK, FilesOK, Goto, Pcs
<1> QED BY <1>1, <1>2, <1>3, <1>4, <1>5, <1>6 DEF PersistSalt

LEMMA FinishConversionTypes ==
    ASSUME TypeOK, NEW p \in Procs, FinishConversion(p) \/ BackupError(p)
    PROVE  TypeOK'
<1> USE FileTypes, RingTypes, FileNames, BoundSteps DEF TypeOK
<1>r. ring[p] \in Rings /\ orig[p] \in Contents /\ WithOrigin(ring[p], "v2") \in Rings
  BY DEF ProcsOK, WithOrigin
<1>1. CASE BackupRemove(p)
  BY <1>1, FileSteps DEF BackupRemove, ProcsOK, FilesOK, Goto, Pcs
<1>2. CASE BackupCreate(p)
  BY <1>2, <1>r, FileSteps, ReturnTypes DEF BackupCreate, ProcsOK, FilesOK, Goto, Pcs
<1>3. CASE BackupWrite(p)
  BY <1>3, <1>r, FileSteps DEF BackupWrite, ProcsOK, FilesOK, Goto, Pcs
<1>4. CASE UndoBackup(p)
  BY <1>4, <1>r, FileSteps, ReturnTypes DEF UndoBackup, FilesOK
<1>5. CASE Verify(p)
  BY <1>5, <1>r, ReturnTypes DEF Verify, ProcsOK, FilesOK, Goto, Pcs
<1>6. CASE BackupDrop(p)
  BY <1>6, <1>r, FileSteps, ReturnTypes DEF BackupDrop, FilesOK
<1>7. CASE BackupError(p)
  BY <1>7, <1>r, FileSteps, ReturnTypes DEF BackupError, FilesOK
<1> QED BY <1>1, <1>2, <1>3, <1>4, <1>5, <1>6, <1>7 DEF FinishConversion

LEMMA WriteAtomicTypes ==
    ASSUME TypeOK, NEW p \in Procs, WriteAtomic(p) \/ TmpError(p) \/ DirSyncError(p)
    PROVE  TypeOK'
<1> USE FileTypes, RingTypes, FileNames, BoundSteps DEF TypeOK
<1>r. ring[p] \in Rings /\ WithOrigin(ring[p], "converted") \in Rings
  BY DEF ProcsOK, WithOrigin
<1>1. CASE TmpRemove(p)
  BY <1>1, FileSteps DEF TmpRemove, ProcsOK, FilesOK, Goto, Pcs
<1>2. CASE TmpCreate(p)
  BY <1>2, <1>r, FileSteps, ReturnTypes DEF TmpCreate, ProcsOK, FilesOK, Goto, Pcs
<1>3. CASE TmpWrite(p)
  BY <1>3, <1>r, FileSteps DEF TmpWrite, ProcsOK, FilesOK, Goto, Pcs
<1>4. CASE Rename(p)
  BY <1>4, <1>r, ReturnTypes DEF Rename, ProcsOK, FilesOK, Goto, Pcs
<1>5. CASE DirSync(p)
  BY <1>5, <1>r, ReturnTypes DEF DirSync, ProcsOK, FilesOK, Goto, Pcs
<1>6. CASE TmpError(p)
  BY <1>6, <1>r, FileSteps, ReturnTypes DEF TmpError, FilesOK
<1>7. CASE DirSyncError(p)
  BY <1>7, <1>r, ReturnTypes DEF DirSyncError, FilesOK
<1> QED BY <1>1, <1>2, <1>3, <1>4, <1>5, <1>6, <1>7 DEF WriteAtomic

LEMMA CallerTypes ==
    ASSUME TypeOK, NEW p \in Procs, Edit(p) \/ Discard(p) \/ SaveCheck(p) \/ Crash(p)
    PROVE  TypeOK'
<1> USE FileTypes, RingTypes, FileNames, BoundSteps DEF TypeOK
<1>r. ring[p] \in Rings
  BY DEF ProcsOK
<1>e. EnsuredSalts(ring[p]) \subseteq Salts
  BY <1>r DEF EnsuredSalts, FreshSalts
<1>1. CASE Edit(p)
  <2>1. ASSUME NEW keys \in SUBSET Records, NEW s \in Salts \cup {NoSalt}, Edited(p, keys, s)
        PROVE  ring' \in [Procs -> Rings]
    BY <2>1, <1>r DEF Edited, ProcsOK
  <2>2. ring' \in [Procs -> Rings]
    <3>1. CASE EditSetName(p)
      <4>1. PICK n \in Names, row \in Rows, st \in {"computer", "key"} :
                \E k \in row, others \in SUBSET row, s \in EnsuredSalts(ring[p]) :
                    Edited(p, SetName(DropOthers(ring[p].keys, n, others \ {k}, ring[p].salt, st),
                                      n, k, s, st), s)
        BY <3>1 DEF EditSetName
      <4>2. PICK k \in row, others \in SUBSET row, s \in EnsuredSalts(ring[p]) :
                Edited(p, SetName(DropOthers(ring[p].keys, n, others \ {k}, ring[p].salt, st),
                                  n, k, s, st), s)
        BY <4>1
      <4> DEFINE kept == DropOthers(ring[p].keys, n, others \ {k}, ring[p].salt, st)
      <4>3. kept \in SUBSET Records
        BY <1>r DEF DropOthers
      <4>4. k \in Serials
        BY KeyRecordsAssumption
      <4> HIDE DEF kept
      <4>5. SetName(kept, n, k, s, st) \in SUBSET Records
        BY <4>3, <4>4, <1>e, EditTypes
      <4>6. Edited(p, SetName(kept, n, k, s, st), s)
        BY <4>2 DEF kept
      <4> QED BY <4>5, <4>6, <2>1, <1>e
    <3>2. CASE EditLearn(p)
      BY <3>2, <2>1, <1>r, <1>e, EditTypes DEF EditLearn
    <3>3. CASE EditClear(p)
      <4>1. ASSUME NEW row \in Rows, NEW ks \in SUBSET row,
                   Edited(p, ClearKey(ring[p].keys, ks, ring[p].salt), ring[p].salt)
            PROVE  ring' \in [Procs -> Rings]
        <5>1. ClearKey(ring[p].keys, ks, ring[p].salt) \in SUBSET Records
          BY <1>r DEF ClearKey
        <5> QED BY <4>1, <5>1, <2>1, <1>r
      <4>2. ASSUME NEW n \in Names, Edited(p, RemoveName(ring[p].keys, n), ring[p].salt)
            PROVE  ring' \in [Procs -> Rings]
        <5>1. RemoveName(ring[p].keys, n) \in SUBSET Records
          BY <1>r DEF RemoveName
        <5> QED BY <4>2, <5>1, <2>1, <1>r
      <4> QED BY <3>3, <4>1, <4>2 DEF EditClear
    <3> QED BY <1>1, <3>1, <3>2, <3>3 DEF Edit
  <2> QED BY <1>1, <2>2 DEF Edit, ProcsOK, FilesOK, Goto, Pcs
<1>2. CASE Discard(p)
  BY <1>2, <1>r, ReturnTypes DEF Discard, FilesOK
<1>3. CASE SaveCheck(p)
  <2>1. ProcsOK'
    <3>1. CASE SaveRefused(p) /\ Finish(p)
      BY <3>1, <1>r, ReturnTypes
    <3>2. CASE ~SaveRefused(p)
      BY <1>3, <3>2, <1>r, <1>e DEF SaveCheck, ProcsOK, FilesOK, Goto, Pcs
    <3> QED BY <1>3, <3>1, <3>2 DEF SaveCheck
  <2> QED BY <1>3, <2>1 DEF SaveCheck, FilesOK
<1>4. CASE Crash(p)
  BY <1>4, <1>r, FileSteps, ReturnTypes, KeyringStoreAssumption DEF Crash, FilesOK, BoundsOK
<1> QED BY <1>1, <1>2, <1>3, <1>4

\* load_from, save_to and everything they call keep every variable in its type.
THEOREM TypeCorrect == Spec => []TypeOK
<1>1. Init => TypeOK
  <2> SUFFICES ASSUME Init PROVE TypeOK
    OBVIOUS
  <2>1. \A keys \in OldFiles : V1(keys) \in Contents
    BY FileTypes, KeyringStoreAssumption DEF Records
  <2> QED
    BY <2>1, FileTypes, RingTypes, KeyringStoreAssumption
       DEF Init, TypeOK, FilesOK, ProcsOK, BoundsOK, Pcs
<1>2. TypeOK /\ [Next]_vars => TypeOK'
  <2> SUFFICES ASSUME TypeOK, [Next]_vars PROVE TypeOK'
    OBVIOUS
  <2>1. CASE UNCHANGED vars
    BY <2>1 DEF TypeOK, FilesOK, ProcsOK, BoundsOK, vars
  <2>2. CASE \E p \in Procs : Step(p) \/ Failure(p) \/ Edit(p) \/ Discard(p) \/ Crash(p)
    BY <2>2, LoadTypes, PersistSaltTypes, FinishConversionTypes, WriteAtomicTypes, CallerTypes
       DEF Step, Failure
  <2>3. CASE ForeignSave
    <3>1. \A keys \in OldFiles : V1(keys) \in Contents
      BY FileTypes, KeyringStoreAssumption DEF Records
    <3> QED
      BY <2>3, <3>1, FileTypes, FileNames, KeyringStoreAssumption
         DEF ForeignSave, TypeOK, FilesOK, ProcsOK, BoundsOK
  <2>4. CASE LoseSalt
    BY <2>4, FileTypes, FileNames, KeyringStoreAssumption
       DEF LoseSalt, Removed, TypeOK, FilesOK, ProcsOK, BoundsOK
  <2> QED BY <2>1, <2>2, <2>3, <2>4 DEF Next
<1> QED BY <1>1, <1>2, PTL DEF Spec

----------------------------------------------------------------------------
(* Fingerprints and the salt that reproduces them.                         *)
(*                                                                         *)
(* SaltShape and WritersInv hold whatever fails.  The rest of SaltInv is   *)
(* proved for steps after which no call has failed and no salt was lost.   *)

\* What an action of p leaves alone: the other processes' variables.
OthersKept(p) == \A q \in Procs \ {p} :
                     pc'[q] = pc[q] /\ ring'[q] = ring[q] /\ orig'[q] = orig[q]

LEMMA Returns ==
    ASSUME ProcsOK, NEW p \in Procs, NEW r
    PROVE  /\ Finish(p) => /\ pc'[p] = "idle" /\ ring'[p] = EmptyRing
                           /\ orig'[p] = Absent /\ OthersKept(p)
           /\ Return(p, r) => /\ pc'[p] \in {"idle", "ready"} /\ ring'[p] \in {EmptyRing, r}
                              /\ orig'[p] = Absent /\ OthersKept(p)
           /\ WriteFailed(p) => /\ pc'[p] \in {"idle", "undo_backup"}
                                /\ ring'[p] \in {EmptyRing, ring[p]}
                                /\ pc'[p] = "undo_backup" => ring'[p] = ring[p]
                                /\ orig'[p] \in {Absent, orig[p]} /\ OthersKept(p)
<1>1. Finish(p) => /\ pc'[p] = "idle" /\ ring'[p] = EmptyRing
                   /\ orig'[p] = Absent /\ OthersKept(p)
  BY DEF Finish, Goto, OthersKept, ProcsOK
<1>2. Return(p, r) => /\ pc'[p] \in {"idle", "ready"} /\ ring'[p] \in {EmptyRing, r}
                      /\ orig'[p] = Absent /\ OthersKept(p)
  BY <1>1 DEF Return, Goto, OthersKept, ProcsOK
<1>3. WriteFailed(p) => /\ pc'[p] \in {"idle", "undo_backup"}
                        /\ ring'[p] \in {EmptyRing, ring[p]}
                        /\ pc'[p] = "undo_backup" => ring'[p] = ring[p]
                        /\ orig'[p] \in {Absent, orig[p]} /\ OthersKept(p)
  BY <1>1 DEF WriteFailed, Goto, OthersKept, ProcsOK
<1> QED BY <1>1, <1>2, <1>3

LEMMA NoRecords ==
    /\ Absent.keys = {} /\ Torn.keys = {} /\ Newer.keys = {} /\ EmptyRing.keys = {}
    /\ Absent.fmt = "absent" /\ Torn.fmt = "torn" /\ Newer.fmt = "newer"
    /\ EmptyRing.salt = NoSalt /\ EmptyRing.persisted = FALSE
    /\ \A keys : V2(keys).keys = keys /\ V2(keys).fmt = "v2"
    /\ \A keys : V1(keys).keys = keys /\ V1(keys).fmt = "v1"
    /\ \A s : SaltFile(s).keys = {} /\ SaltFile(s).fmt = "salt" /\ SaltFile(s).salt = s
BY DEF Absent, Torn, Newer, EmptyRing, Ring, V1, V2, SaltFile, File

LEMMA DistinctFiles ==
    /\ Keys # Tmp /\ Keys # Backup /\ Keys # Salt /\ Tmp # Backup /\ Tmp # Salt /\ Backup # Salt
    /\ \A f \in Files : f \in {Keys, Tmp, Backup, Salt}
BY DEF Keys, Tmp, Backup, Salt, Files

(* One step keeps SaltShape and WritersInv if the process p that makes it  *)
(* has these four.                                                         *)
OwnShape(p) == /\ \A r \in orig'[p].keys : r.salt = NoSalt
               /\ pc'[p] \in PersistPcs => ring'[p].salt # NoSalt
FileShape == /\ dir'[Salt] \in {Absent, Torn} \cup {SaltFile(s) : s \in Salts}
             /\ \A f \in Files : dir'[f].fmt = "v1" => \A r \in dir'[f].keys : r.salt = NoSalt
OpenFiles(p) == /\ \A f \in Files : writer'[f] \subseteq writer[f] \cup {p}
                /\ \A f \in Files : p \in writer'[f] =>
                       \/ f = Salt /\ pc'[p] \in {"salt_write", "salt_sync"}
                       \/ f = Backup /\ pc'[p] = "backup_write"
                       \/ f \in {Tmp, Keys} /\ pc'[p] = "tmp_write"

LEMMA ShapeStep ==
    ASSUME TypeOK, SaltShape, WritersInv, NEW p \in Procs,
           OthersKept(p), OwnShape(p), FileShape, OpenFiles(p)
    PROVE  SaltShape' /\ WritersInv'
<1>1. SaltShape'
  BY DEF SaltShape, OwnShape, FileShape, OthersKept
<1>2. WritersInv'
  <2> SUFFICES ASSUME NEW f \in Files, NEW q \in writer'[f]
               PROVE  \/ f = Salt /\ pc'[q] \in {"salt_write", "salt_sync"}
                      \/ f = Backup /\ pc'[q] = "backup_write"
                      \/ f \in {Tmp, Keys} /\ pc'[q] = "tmp_write"
    BY DEF WritersInv
  <2>1. CASE q = p
    BY <2>1 DEF OpenFiles
  <2>2. CASE q # p
    <3>1. q \in writer[f] /\ q \in Procs /\ pc'[q] = pc[q]
      BY <2>2 DEF TypeOK, FilesOK, OthersKept, OpenFiles
    <3> QED BY <3>1 DEF WritersInv
  <2> QED BY <2>1, <2>2
<1> QED BY <1>1, <1>2

LEMMA LoadShape ==
    ASSUME TypeOK, SaltShape, WritersInv, NEW p \in Procs, Load(p)
    PROVE  SaltShape' /\ WritersInv'
<1> USE FileNames, DistinctFiles, NoRecords DEF SaltShape, WritersInv, TypeOK, FilesOK, ProcsOK
<1>1. CASE LoadRead(p)
  <2>1. OthersKept(p)
    BY <1>1 DEF LoadRead, OthersKept, Goto
  <2>2. OwnShape(p)
    <3>1. orig'[p] = orig[p] \/ (orig'[p] = dir[Keys] /\ dir[Keys].fmt = "v1")
      <4>1. CASE dir[Keys].fmt = "v1"
        BY <1>1, <4>1 DEF LoadRead
      <4>2. CASE dir[Keys].fmt # "v1"
        BY <1>1, <4>2 DEF LoadRead
      <4> QED BY <4>1, <4>2
    <3>2. pc'[p] \notin PersistPcs
      BY <1>1 DEF LoadRead, Goto, PersistPcs
    <3> QED BY <3>1, <3>2 DEF OwnShape, PersistPcs
  <2>3. FileShape
    BY <1>1 DEF LoadRead, FileShape, Removed, Created, Written, PersistPcs
  <2>4. OpenFiles(p)
    BY <1>1 DEF LoadRead, OpenFiles, Removed, Created, Closed, Goto
  <2> QED BY <2>1, <2>2, <2>3, <2>4, ShapeStep
<1>2. CASE LoadRemoveBackup(p)
  <2>1. OthersKept(p)
    BY <1>2 DEF LoadRemoveBackup, OthersKept, Goto
  <2>2. OwnShape(p)
    BY <1>2 DEF LoadRemoveBackup, OwnShape, PersistPcs, Goto
  <2>3. FileShape
    BY <1>2 DEF LoadRemoveBackup, FileShape, Removed, Created, Written, PersistPcs
  <2>4. OpenFiles(p)
    BY <1>2 DEF LoadRemoveBackup, OpenFiles, Removed, Created, Closed, Goto
  <2> QED BY <2>1, <2>2, <2>3, <2>4, ShapeStep
<1>3. CASE LoadSalt(p)
  <2>1. OthersKept(p)
    BY <1>3, Returns DEF LoadSalt, OthersKept, Goto
  <2>2. OwnShape(p)
    <3>1. orig'[p] \in {orig[p], Absent}
      BY <1>3, Returns DEF LoadSalt
    <3>2. pc'[p] \notin PersistPcs
      BY <1>3, Returns DEF LoadSalt, Goto, PersistPcs
    <3> QED BY <3>1, <3>2 DEF OwnShape, PersistPcs
  <2>3. FileShape
    BY <1>3 DEF LoadSalt, FileShape, Removed, Created, Written, PersistPcs
  <2>4. OpenFiles(p)
    BY <1>3, Returns DEF LoadSalt, OpenFiles, Removed, Created, Closed, Goto
  <2> QED BY <2>1, <2>2, <2>3, <2>4, ShapeStep
<1>4. CASE ConvertSalt(p)
  <2>1. OthersKept(p)
    BY <1>4, Returns DEF ConvertSalt, OthersKept, Goto
  <2>2. OwnShape(p)
    <3>1. orig'[p] \in {orig[p], Absent}
      BY <1>4, Returns DEF ConvertSalt
    <3>2. pc'[p] \in PersistPcs => ring'[p].salt # NoSalt
      <4>1. CASE Finish(p)
        BY <4>1, Returns DEF PersistPcs
      <4>2. CASE dir[Salt] = Absent /\ ~Finish(p)
        <5>1. PICK s \in FreshSalts : ring' = [ring EXCEPT ![p] =
                  Ring(ConvertV1(orig[p].keys, s), s, FALSE, "pending")]
          BY <1>4, <4>2 DEF ConvertSalt
        <5> QED BY <5>1, KeyRecordsAssumption DEF Ring, FreshSalts
      <4>3. CASE dir[Salt].fmt = "salt" /\ ~Finish(p)
        BY <1>4, <4>3 DEF ConvertSalt, Goto, PersistPcs
      <4> QED BY <1>4, <4>1, <4>2, <4>3 DEF ConvertSalt
    <3> QED BY <3>1, <3>2 DEF OwnShape, PersistPcs
  <2>3. FileShape
    BY <1>4 DEF ConvertSalt, FileShape, Removed, Created, Written, PersistPcs
  <2>4. OpenFiles(p)
    BY <1>4, Returns DEF ConvertSalt, OpenFiles, Removed, Created, Closed, Goto
  <2> QED BY <2>1, <2>2, <2>3, <2>4, ShapeStep
<1> QED BY <1>1, <1>2, <1>3, <1>4 DEF Load

LEMMA PersistSaltShape ==
    ASSUME TypeOK, SaltShape, WritersInv, NEW p \in Procs, PersistSalt(p) \/ SaltError(p)
    PROVE  SaltShape' /\ WritersInv'
<1> USE FileNames, DistinctFiles, NoRecords DEF SaltShape, WritersInv, TypeOK, FilesOK, ProcsOK
<1>1. CASE SaltCreate(p)
  <2>1. OthersKept(p)
    BY <1>1 DEF SaltCreate, OthersKept, Goto
  <2>2. OwnShape(p)
    BY <1>1 DEF SaltCreate, OwnShape, PersistPcs, Goto
  <2>3. FileShape
    BY <1>1 DEF SaltCreate, FileShape, Removed, Created, Written, PersistPcs
  <2>4. OpenFiles(p)
    BY <1>1 DEF SaltCreate, OpenFiles, Removed, Created, Closed, Goto
  <2> QED BY <2>1, <2>2, <2>3, <2>4, ShapeStep
<1>2. CASE SaltWrite(p)
  <2>1. OthersKept(p)
    BY <1>2 DEF SaltWrite, OthersKept, Goto
  <2>2. OwnShape(p)
    BY <1>2 DEF SaltWrite, OwnShape, PersistPcs, Goto
  <2>3. FileShape
    <3>1. ring[p].salt \in Salts /\ \A f \in Files : p \in writer[f] => f = Salt
      BY <1>2, RingTypes DEF SaltWrite, PersistPcs
    <3> QED BY <1>2, <3>1 DEF SaltWrite, FileShape, Written
  <2>4. OpenFiles(p)
    BY <1>2 DEF SaltWrite, OpenFiles, Removed, Created, Closed, Goto
  <2> QED BY <2>1, <2>2, <2>3, <2>4, ShapeStep
<1>3. CASE SaltSync(p)
  <2>1. OthersKept(p)
    BY <1>3 DEF SaltSync, OthersKept, Goto, SaltPersisted, AfterSalt
  <2>2. OwnShape(p)
    BY <1>3 DEF SaltSync, OwnShape, PersistPcs, Goto, SaltPersisted, AfterSalt
  <2>3. FileShape
    BY <1>3 DEF SaltSync, FileShape, Removed, Created, Written, PersistPcs
  <2>4. OpenFiles(p)
    BY <1>3 DEF SaltSync, OpenFiles, Removed, Created, Closed, Goto, SaltPersisted, AfterSalt
  <2> QED BY <2>1, <2>2, <2>3, <2>4, ShapeStep
<1>4. CASE SaltUndo(p)
  <2>1. OthersKept(p)
    BY <1>4, Returns DEF SaltUndo, OthersKept, Goto
  <2>2. OwnShape(p)
    BY <1>4, Returns DEF SaltUndo, OwnShape, PersistPcs, Goto
  <2>3. FileShape
    BY <1>4 DEF SaltUndo, FileShape, Removed, Created, Written, PersistPcs
  <2>4. OpenFiles(p)
    BY <1>4, Returns DEF SaltUndo, OpenFiles, Removed, Created, Closed, Goto
  <2> QED BY <2>1, <2>2, <2>3, <2>4, ShapeStep
<1>5. CASE SaltCheck(p)
  <2>1. OthersKept(p)
    <3>1. SaltPersisted(p) => OthersKept(p)
      BY DEF SaltPersisted, OthersKept, Goto
    <3> QED BY <1>5, <3>1, Returns DEF SaltCheck
  <2>2. OwnShape(p)
    <3>1. orig'[p] \in {orig[p], Absent}
      BY <1>5, Returns DEF SaltCheck, SaltPersisted, AfterSalt
    <3>2. pc'[p] \notin PersistPcs
      BY <1>5, Returns DEF SaltCheck, Goto, PersistPcs, SaltPersisted, AfterSalt
    <3> QED BY <3>1, <3>2 DEF OwnShape, PersistPcs
  <2>3. FileShape
    BY <1>5 DEF SaltCheck, FileShape, Removed, Created, Written, PersistPcs
  <2>4. OpenFiles(p)
    BY <1>5, Returns DEF SaltCheck, OpenFiles, Removed, Created, Closed, Goto, SaltPersisted, AfterSalt
  <2> QED BY <2>1, <2>2, <2>3, <2>4, ShapeStep
<1>6. CASE SaltError(p)
  <2>1. OthersKept(p)
    BY <1>6, Returns DEF SaltError, OthersKept, Goto
  <2>2. OwnShape(p)
    BY <1>6, Returns DEF SaltError, OwnShape, PersistPcs, Goto
  <2>3. FileShape
    BY <1>6 DEF SaltError, FileShape, Removed, Created, Written, PersistPcs
  <2>4. OpenFiles(p)
    BY <1>6, Returns DEF SaltError, OpenFiles, Removed, Created, Closed, Goto
  <2> QED BY <2>1, <2>2, <2>3, <2>4, ShapeStep
<1> QED BY <1>1, <1>2, <1>3, <1>4, <1>5, <1>6 DEF PersistSalt

LEMMA FinishConversionShape ==
    ASSUME TypeOK, SaltShape, WritersInv, NEW p \in Procs, FinishConversion(p) \/ BackupError(p)
    PROVE  SaltShape' /\ WritersInv'
<1> USE FileNames, DistinctFiles, NoRecords DEF SaltShape, WritersInv, TypeOK, FilesOK, ProcsOK
<1>1. CASE BackupRemove(p)
  <2>1. OthersKept(p)
    BY <1>1 DEF BackupRemove, OthersKept, Goto
  <2>2. OwnShape(p)
    BY <1>1 DEF BackupRemove, OwnShape, PersistPcs, Goto
  <2>3. FileShape
    BY <1>1 DEF BackupRemove, FileShape, Removed, Created, Written, PersistPcs
  <2>4. OpenFiles(p)
    BY <1>1 DEF BackupRemove, OpenFiles, Removed, Created, Closed, Goto
  <2> QED BY <2>1, <2>2, <2>3, <2>4, ShapeStep
<1>2. CASE BackupCreate(p)
  <2>1. OthersKept(p)
    BY <1>2, Returns DEF BackupCreate, OthersKept, Goto
  <2>2. OwnShape(p)
    BY <1>2, Returns DEF BackupCreate, OwnShape, PersistPcs, Goto
  <2>3. FileShape
    BY <1>2 DEF BackupCreate, FileShape, Removed, Created, Written, PersistPcs
  <2>4. OpenFiles(p)
    BY <1>2, Returns DEF BackupCreate, OpenFiles, Removed, Created, Closed, Goto
  <2> QED BY <2>1, <2>2, <2>3, <2>4, ShapeStep
<1>3. CASE BackupWrite(p)
  <2>1. OthersKept(p)
    BY <1>3 DEF BackupWrite, OthersKept, Goto
  <2>2. OwnShape(p)
    BY <1>3 DEF BackupWrite, OwnShape, PersistPcs, Goto
  <2>3. FileShape
    BY <1>3 DEF BackupWrite, FileShape, Removed, Created, Written, PersistPcs
  <2>4. OpenFiles(p)
    BY <1>3 DEF BackupWrite, OpenFiles, Removed, Created, Closed, Goto
  <2> QED BY <2>1, <2>2, <2>3, <2>4, ShapeStep
<1>4. CASE UndoBackup(p)
  <2>1. OthersKept(p)
    BY <1>4, Returns DEF UndoBackup, OthersKept, Goto
  <2>2. OwnShape(p)
    BY <1>4, Returns DEF UndoBackup, OwnShape, PersistPcs, Goto
  <2>3. FileShape
    BY <1>4 DEF UndoBackup, FileShape, Removed, Created, Written, PersistPcs
  <2>4. OpenFiles(p)
    BY <1>4, Returns DEF UndoBackup, OpenFiles, Removed, Created, Closed, Goto
  <2> QED BY <2>1, <2>2, <2>3, <2>4, ShapeStep
<1>5. CASE Verify(p)
  <2>1. OthersKept(p)
    BY <1>5, Returns DEF Verify, OthersKept, Goto
  <2>2. OwnShape(p)
    BY <1>5, Returns DEF Verify, OwnShape, PersistPcs, Goto
  <2>3. FileShape
    BY <1>5 DEF Verify, FileShape, Removed, Created, Written, PersistPcs
  <2>4. OpenFiles(p)
    BY <1>5, Returns DEF Verify, OpenFiles, Removed, Created, Closed, Goto
  <2> QED BY <2>1, <2>2, <2>3, <2>4, ShapeStep
<1>6. CASE BackupDrop(p)
  <2>1. OthersKept(p)
    BY <1>6, Returns DEF BackupDrop, OthersKept, Goto
  <2>2. OwnShape(p)
    BY <1>6, Returns DEF BackupDrop, OwnShape, PersistPcs, Goto
  <2>3. FileShape
    BY <1>6 DEF BackupDrop, FileShape, Removed, Created, Written, PersistPcs
  <2>4. OpenFiles(p)
    BY <1>6, Returns DEF BackupDrop, OpenFiles, Removed, Created, Closed, Goto
  <2> QED BY <2>1, <2>2, <2>3, <2>4, ShapeStep
<1>7. CASE BackupError(p)
  <2>1. OthersKept(p)
    BY <1>7, Returns DEF BackupError, OthersKept, Goto
  <2>2. OwnShape(p)
    BY <1>7, Returns DEF BackupError, OwnShape, PersistPcs, Goto
  <2>3. FileShape
    BY <1>7 DEF BackupError, FileShape, Removed, Created, Written, PersistPcs
  <2>4. OpenFiles(p)
    BY <1>7, Returns DEF BackupError, OpenFiles, Removed, Created, Closed, Goto
  <2> QED BY <2>1, <2>2, <2>3, <2>4, ShapeStep
<1> QED BY <1>1, <1>2, <1>3, <1>4, <1>5, <1>6, <1>7 DEF FinishConversion

LEMMA WriteAtomicShape ==
    ASSUME TypeOK, SaltShape, WritersInv, NEW p \in Procs, WriteAtomic(p) \/ TmpError(p) \/ DirSyncError(p)
    PROVE  SaltShape' /\ WritersInv'
<1> USE FileNames, DistinctFiles, NoRecords DEF SaltShape, WritersInv, TypeOK, FilesOK, ProcsOK
<1>1. CASE TmpRemove(p)
  <2>1. OthersKept(p)
    BY <1>1 DEF TmpRemove, OthersKept, Goto
  <2>2. OwnShape(p)
    BY <1>1 DEF TmpRemove, OwnShape, PersistPcs, Goto
  <2>3. FileShape
    BY <1>1 DEF TmpRemove, FileShape, Removed, Created, Written, PersistPcs
  <2>4. OpenFiles(p)
    BY <1>1 DEF TmpRemove, OpenFiles, Removed, Created, Closed, Goto
  <2> QED BY <2>1, <2>2, <2>3, <2>4, ShapeStep
<1>2. CASE TmpCreate(p)
  <2>1. OthersKept(p)
    BY <1>2, Returns DEF TmpCreate, OthersKept, Goto
  <2>2. OwnShape(p)
    <3>1. orig'[p] \in {orig[p], Absent}
      BY <1>2, Returns DEF TmpCreate
    <3>2. pc'[p] \notin PersistPcs
      BY <1>2, Returns DEF TmpCreate, Goto, PersistPcs
    <3> QED BY <3>1, <3>2 DEF OwnShape, PersistPcs
  <2>3. FileShape
    BY <1>2 DEF TmpCreate, FileShape, Removed, Created, Written, PersistPcs
  <2>4. OpenFiles(p)
    BY <1>2, Returns DEF TmpCreate, OpenFiles, Removed, Created, Closed, Goto
  <2> QED BY <2>1, <2>2, <2>3, <2>4, ShapeStep
<1>3. CASE TmpWrite(p)
  <2>1. OthersKept(p)
    BY <1>3 DEF TmpWrite, OthersKept, Goto
  <2>2. OwnShape(p)
    BY <1>3 DEF TmpWrite, OwnShape, PersistPcs, Goto
  <2>3. FileShape
    BY <1>3 DEF TmpWrite, FileShape, Removed, Created, Written, PersistPcs
  <2>4. OpenFiles(p)
    BY <1>3 DEF TmpWrite, OpenFiles, Removed, Created, Closed, Goto
  <2> QED BY <2>1, <2>2, <2>3, <2>4, ShapeStep
<1>4. CASE Rename(p)
  <2>1. OthersKept(p)
    BY <1>4, Returns DEF Rename, OthersKept, Goto
  <2>2. OwnShape(p)
    <3>1. orig'[p] \in {orig[p], Absent}
      BY <1>4, Returns DEF Rename
    <3>2. pc'[p] \notin PersistPcs
      BY <1>4, Returns DEF Rename, Goto, PersistPcs
    <3> QED BY <3>1, <3>2 DEF OwnShape, PersistPcs
  <2>3. FileShape
    BY <1>4 DEF Rename, FileShape, Removed, Created, Written, PersistPcs
  <2>4. WritersInv'
    <3> SUFFICES ASSUME NEW f \in Files, NEW q \in writer'[f]
                 PROVE  \/ f = Salt /\ pc'[q] \in {"salt_write", "salt_sync"}
                        \/ f = Backup /\ pc'[q] = "backup_write"
                        \/ f \in {Tmp, Keys} /\ pc'[q] = "tmp_write"
      OBVIOUS
    <3>1. \E g \in Files : q \in writer[g] /\ (g = f \/ {f, g} \subseteq {Keys, Tmp})
      BY <1>4 DEF Rename
    <3>2. q # p /\ q \in Procs
      BY <1>4, <3>1 DEF Rename
    <3> QED BY <2>1, <3>1, <3>2 DEF OthersKept
  <2>5. SaltShape'
    BY <2>1, <2>2, <2>3 DEF OwnShape, FileShape, OthersKept
  <2> QED BY <2>4, <2>5
<1>5. CASE DirSync(p)
  <2>1. OthersKept(p)
    BY <1>5, Returns DEF DirSync, OthersKept, Goto
  <2>2. OwnShape(p)
    <3>1. orig'[p] \in {orig[p], Absent}
      BY <1>5, Returns DEF DirSync
    <3>2. pc'[p] \notin PersistPcs
      BY <1>5, Returns DEF DirSync, Goto, PersistPcs
    <3> QED BY <3>1, <3>2 DEF OwnShape, PersistPcs
  <2>3. FileShape
    BY <1>5 DEF DirSync, FileShape, Removed, Created, Written, PersistPcs
  <2>4. OpenFiles(p)
    BY <1>5, Returns DEF DirSync, OpenFiles, Removed, Created, Closed, Goto
  <2> QED BY <2>1, <2>2, <2>3, <2>4, ShapeStep
<1>6. CASE TmpError(p)
  <2>1. OthersKept(p)
    BY <1>6, Returns DEF TmpError, OthersKept, Goto
  <2>2. OwnShape(p)
    <3>1. orig'[p] \in {orig[p], Absent}
      BY <1>6, Returns DEF TmpError
    <3>2. pc'[p] \notin PersistPcs
      BY <1>6, Returns DEF TmpError, Goto, PersistPcs
    <3> QED BY <3>1, <3>2 DEF OwnShape, PersistPcs
  <2>3. FileShape
    BY <1>6 DEF TmpError, FileShape, Removed, Created, Written, PersistPcs
  <2>4. OpenFiles(p)
    BY <1>6, Returns DEF TmpError, OpenFiles, Removed, Created, Closed, Goto
  <2> QED BY <2>1, <2>2, <2>3, <2>4, ShapeStep
<1>7. CASE DirSyncError(p)
  <2>1. OthersKept(p)
    BY <1>7, Returns DEF DirSyncError, OthersKept, Goto
  <2>2. OwnShape(p)
    <3>1. orig'[p] \in {orig[p], Absent}
      BY <1>7, Returns DEF DirSyncError
    <3>2. pc'[p] \notin PersistPcs
      BY <1>7, Returns DEF DirSyncError, Goto, PersistPcs
    <3> QED BY <3>1, <3>2 DEF OwnShape, PersistPcs
  <2>3. FileShape
    BY <1>7 DEF DirSyncError, FileShape, Removed, Created, Written, PersistPcs
  <2>4. OpenFiles(p)
    BY <1>7, Returns DEF DirSyncError, OpenFiles, Removed, Created, Closed, Goto
  <2> QED BY <2>1, <2>2, <2>3, <2>4, ShapeStep
<1> QED BY <1>1, <1>2, <1>3, <1>4, <1>5, <1>6, <1>7 DEF WriteAtomic

\* An edit changes the ring of its process in memory and nothing else.
LEMMA EditSteps ==
    ASSUME NEW p \in Procs, Edit(p)
    PROVE  /\ \E keys, s : Edited(p, keys, s)
           /\ Goto(p, "edited") \/ Goto(p, "learned")
           /\ UNCHANGED <<dir, writer, orig>>
<1>1. EditSetName(p) => \E keys, s : Edited(p, keys, s)
  BY DEF EditSetName
<1>2. EditLearn(p) => \E keys, s : Edited(p, keys, s)
  BY DEF EditLearn
<1>3. EditClear(p) => \E keys, s : Edited(p, keys, s)
  BY DEF EditClear
<1> QED BY <1>1, <1>2, <1>3 DEF Edit

LEMMA CallerShape ==
    ASSUME TypeOK, SaltShape, WritersInv, NEW p \in Procs, Edit(p) \/ Discard(p) \/ SaveCheck(p) \/ Crash(p)
    PROVE  SaltShape' /\ WritersInv'
<1> USE FileNames, DistinctFiles, NoRecords DEF SaltShape, WritersInv, TypeOK, FilesOK, ProcsOK
<1>1. CASE Edit(p)
  <2>0. PICK keys, s : Edited(p, keys, s)
    BY <1>1, EditSteps
  <2>1. OthersKept(p)
    BY <1>1, <2>0, EditSteps DEF OthersKept, Goto, Edited
  <2>2. OwnShape(p)
    BY <1>1, EditSteps DEF OwnShape, PersistPcs, Goto
  <2>3. FileShape
    BY <1>1, EditSteps DEF FileShape
  <2>4. OpenFiles(p)
    <3>1. pc[p] \in {"ready", "learned"}
      BY <1>1 DEF Edit
    <3> QED BY <1>1, <3>1, EditSteps DEF OpenFiles
  <2> QED BY <2>1, <2>2, <2>3, <2>4, ShapeStep
<1>2. CASE Discard(p)
  <2>1. OthersKept(p)
    BY <1>2, Returns DEF Discard, OthersKept, Goto
  <2>2. OwnShape(p)
    BY <1>2, Returns DEF Discard, OwnShape, PersistPcs, Goto
  <2>3. FileShape
    BY <1>2 DEF Discard, FileShape, Removed, Created, Written, PersistPcs
  <2>4. OpenFiles(p)
    BY <1>2, Returns DEF Discard, OpenFiles, Removed, Created, Closed, Goto
  <2> QED BY <2>1, <2>2, <2>3, <2>4, ShapeStep
<1>3. CASE SaveCheck(p)
  <2>1. OthersKept(p)
    BY <1>3, Returns DEF SaveCheck, OthersKept, Goto
  <2>2. OwnShape(p)
    <3>1. orig'[p] = Absent \/ (orig'[p] = dir[Keys] /\ dir[Keys].fmt = "v1")
      <4>1. CASE SaveRefused(p)
        BY <1>3, <4>1, Returns DEF SaveCheck
      <4>2. CASE ~SaveRefused(p)
        <5>1. orig' = [orig EXCEPT ![p] = IF dir[Keys].fmt = "v1" THEN dir[Keys] ELSE Absent]
          BY <1>3, <4>2 DEF SaveCheck
        <5> QED BY <5>1
      <4> QED BY <4>1, <4>2
    <3>2. pc'[p] \in PersistPcs => ring'[p].salt # NoSalt
      <4>1. CASE SaveRefused(p)
        BY <1>3, <4>1, Returns DEF SaveCheck, PersistPcs
      <4>2. CASE ~SaveRefused(p)
        <5>1. PICK s \in EnsuredSalts(ring[p]) :
                  ring' = [ring EXCEPT ![p] = Ring(@.keys, s, @.persisted, @.origin)]
          BY <1>3, <4>2 DEF SaveCheck
        <5>2. s # NoSalt
          BY <5>1, KeyRecordsAssumption DEF EnsuredSalts, FreshSalts
        <5> QED BY <5>1, <5>2 DEF Ring
      <4> QED BY <4>1, <4>2
    <3> QED BY <3>1, <3>2 DEF OwnShape, PersistPcs
  <2>3. FileShape
    BY <1>3 DEF SaveCheck, FileShape, Removed, Created, Written, PersistPcs
  <2>4. OpenFiles(p)
    BY <1>3, Returns DEF SaveCheck, OpenFiles, Removed, Created, Closed, Goto
  <2> QED BY <2>1, <2>2, <2>3, <2>4, ShapeStep
<1>4. CASE Crash(p)
  <2>1. OthersKept(p)
    BY <1>4, Returns DEF Crash, OthersKept, Goto
  <2>2. OwnShape(p)
    BY <1>4, Returns DEF Crash, OwnShape, PersistPcs, Goto
  <2>3. FileShape
    BY <1>4 DEF Crash, FileShape, Removed, Created, Written, PersistPcs
  <2>4. OpenFiles(p)
    BY <1>4, Returns DEF Crash, OpenFiles, Removed, Created, Closed, Goto
  <2> QED BY <2>1, <2>2, <2>3, <2>4, ShapeStep
<1> QED BY <1>1, <1>2, <1>3, <1>4

(* The step of a process that leaves keys.salt alone keeps Paired if its   *)
(* own ring and the files it wrote are in order.                           *)
Quiet(p) == /\ OthersKept(p)
            /\ dir'[Salt] = dir[Salt]
            /\ writer'[Salt] \in {writer[Salt], writer[Salt] \ {p}}
FilesPaired == \A f \in Files : Reproducible(dir'[f].keys)

LEMMA QuietStep ==
    ASSUME TypeOK, Paired, NEW p \in Procs, Quiet(p), RingInv(p)', FilesPaired
    PROVE  Paired'
<1>1. \A f \in Files : Reproducible(dir[f].keys)'
  BY DEF FilesPaired, Reproducible, Quiet
<1>2. ASSUME NEW q \in Procs, q # p PROVE RingInv(q)'
  <2>1. RingInv(q) /\ pc'[q] = pc[q] /\ ring'[q] = ring[q]
    BY <1>2 DEF Paired, Quiet, OthersKept
  <2>2. pc[q] = "salt_write" => writer'[Salt] = {q}
    BY <1>2, <2>1 DEF RingInv, Quiet
  <2> QED BY <2>1, <2>2 DEF RingInv, Reproducible, Quiet
<1> QED BY <1>1, <1>2 DEF Paired

\* A call that returns hands back the ring it was given, or none.
LEMMA ReturnedRing ==
    ASSUME NEW p \in Procs, RingInv(p), pc[p] \notin {"load_rm", "load_salt"},
           dir'[Salt] = dir[Salt],
           \/ pc'[p] \in {"idle", "ready"} /\ ring'[p] \in {EmptyRing, ring[p]}
           \/ pc[p] \in AfterSaltPcs /\ pc'[p] \in AfterSaltPcs /\ ring'[p] = ring[p]
    PROVE  RingInv(p)'
<1>1. CASE ring'[p] = EmptyRing
  BY <1>1, NoRecords DEF RingInv, AfterSaltPcs
<1>2. CASE ring'[p] = ring[p]
  BY <1>2 DEF RingInv, AfterSaltPcs
<1> QED BY <1>1, <1>2

LEMMA NoErrorYet ==
    ASSUME BoundsOK, errors' = 0
    PROVE  ~Error
BY DEF BoundsOK, Error

LEMMA LoadPaired ==
    ASSUME TypeOK, SaltShape, WritersInv, Paired, NEW p \in Procs, errors' = 0, Load(p)
    PROVE  Paired'
<1> USE FileNames, DistinctFiles, NoRecords, NoErrorYet DEF TypeOK, FilesOK, ProcsOK
<1>r. RingInv(p) /\ ring[p] \in Rings /\ \A f \in Files : Reproducible(dir[f].keys)
  BY DEF Paired
<1>1. CASE LoadRead(p)
  <2>1. Quiet(p)
    BY <1>1 DEF LoadRead, Quiet, OthersKept, Goto, Removed, Created, Closed, Written, WritersInv
  <2>2. RingInv(p)'
    <3>1. pc'[p] \in {"load_rm", "conv_salt"}
      BY <1>1 DEF LoadRead, Goto
    <3>2. /\ ring'[p].keys \in {{}, dir[Keys].keys} /\ ring'[p].persisted = FALSE
          /\ pc'[p] = "conv_salt" => ring'[p].keys = {}
      BY <1>1 DEF LoadRead, Goto, Ring
    <3> QED BY <3>1, <3>2, <1>r, <2>1 DEF RingInv, AfterSaltPcs, Quiet, Reproducible
  <2>3. FilesPaired
    BY <1>1, <1>r DEF LoadRead, FilesPaired, Reproducible, Removed, Created
  <2> QED BY <2>1, <2>2, <2>3, QuietStep
<1>2. CASE LoadRemoveBackup(p)
  <2>1. Quiet(p)
    BY <1>2 DEF LoadRemoveBackup, Quiet, OthersKept, Goto, Removed, Created, Closed, Written, WritersInv
  <2>2. RingInv(p)'
    BY <1>2, <1>r, <2>1 DEF LoadRemoveBackup, RingInv, Goto, AfterSaltPcs, Quiet, Reproducible
  <2>3. FilesPaired
    BY <1>2, <1>r DEF LoadRemoveBackup, FilesPaired, Reproducible, Removed, Created
  <2> QED BY <2>1, <2>2, <2>3, QuietStep
<1>3. CASE LoadSalt(p)
  <2>1. Quiet(p)
    BY <1>3, Returns DEF LoadSalt, Quiet, OthersKept, Goto, Removed, Created, Closed, Written, WritersInv
  <2>2. RingInv(p)'
    <3>1. CASE Finish(p)
      BY <3>1, Returns DEF RingInv, AfterSaltPcs
    <3>2. CASE dir[Salt] = Absent /\ ~Finish(p)
      <4>1. pc'[p] = "ready" /\ ring'[p] = WithKeys(ring[p], Unmatched(ring[p].keys))
        BY <1>3, <3>2 DEF LoadSalt, Goto
      <4>2. \A r \in ring'[p].keys : r.salt = NoSalt
        BY <4>1 DEF WithKeys, Ring, Unmatched, RecordOf
      <4>3. ring'[p].persisted = ring[p].persisted /\ ring'[p].salt = ring[p].salt
        BY <4>1 DEF WithKeys, Ring
      <4> QED BY <4>1, <4>2, <4>3, <1>r, <2>1 DEF RingInv, AfterSaltPcs, Quiet
    <3>3. CASE dir[Salt].fmt = "salt" /\ ~Finish(p)
      <4>1. pc'[p] = "ready" /\ ring'[p] = Ring(ring[p].keys, dir[Salt].salt, TRUE, ring[p].origin)
        BY <1>3, <3>3 DEF LoadSalt, Goto
      <4>2. PICK s \in Salts : dir[Salt] = SaltFile(s)
        BY <3>3 DEF SaltShape
      <4>3. \A r \in ring[p].keys : r.salt \in {NoSalt, s}
        BY <1>3, <1>r, <4>2 DEF LoadSalt, RingInv, Reproducible
      <4>4. ring'[p].keys = ring[p].keys /\ ring'[p].salt = s /\ s # NoSalt
        BY <4>1, <4>2, KeyRecordsAssumption DEF Ring
      <4> QED BY <4>1, <4>2, <4>3, <4>4, <2>1 DEF RingInv, AfterSaltPcs, Quiet
    <3> QED BY <1>3, <3>1, <3>2, <3>3 DEF LoadSalt
  <2>3. FilesPaired
    BY <1>3, <1>r DEF LoadSalt, FilesPaired, Reproducible, Removed, Created
  <2> QED BY <2>1, <2>2, <2>3, QuietStep
<1>4. CASE ConvertSalt(p)
  <2>1. Quiet(p)
    BY <1>4, Returns DEF ConvertSalt, Quiet, OthersKept, Goto, Removed, Created, Closed, Written, WritersInv
  <2>2. RingInv(p)'
    <3>1. CASE Finish(p)
      BY <3>1, Returns DEF RingInv, AfterSaltPcs
    <3>2. CASE dir[Salt] = Absent /\ ~Finish(p)
      <4>1. PICK s \in FreshSalts : ring' = [ring EXCEPT ![p] =
                Ring(ConvertV1(orig[p].keys, s), s, FALSE, "pending")]
        BY <1>4, <3>2 DEF ConvertSalt
      <4>2. /\ ring'[p].salt = s /\ ring'[p].persisted = FALSE
            /\ \A r \in ring'[p].keys : r.salt \in {NoSalt, s}
        BY <4>1 DEF Ring, ConvertV1, RecordOf
      <4>3. pc'[p] = "salt_create"
        BY <1>4, <3>2 DEF ConvertSalt, Goto
      <4> QED BY <4>2, <4>3 DEF RingInv, AfterSaltPcs
    <3>3. CASE dir[Salt].fmt = "salt" /\ ~Finish(p)
      <4>1. /\ pc'[p] = "backup_rm"
            /\ ring'[p] = Ring(ConvertV1(orig[p].keys, dir[Salt].salt), dir[Salt].salt, TRUE, "pending")
        BY <1>4, <3>3 DEF ConvertSalt, Goto
      <4>2. PICK s \in Salts : dir[Salt] = SaltFile(s)
        BY <3>3 DEF SaltShape
      <4>3. /\ ring'[p].salt = s /\ s # NoSalt
            /\ \A r \in ring'[p].keys : r.salt \in {NoSalt, s}
        BY <4>1, <4>2, KeyRecordsAssumption DEF Ring, ConvertV1, RecordOf
      <4>4. ring'[p].persisted = TRUE
        BY <4>1 DEF Ring
      <4> QED BY <4>1, <4>2, <4>3, <4>4, <2>1 DEF RingInv, AfterSaltPcs, Quiet
    <3> QED BY <1>4, <3>1, <3>2, <3>3 DEF ConvertSalt
  <2>3. FilesPaired
    BY <1>4, <1>r DEF ConvertSalt, FilesPaired, Reproducible, Removed, Created
  <2> QED BY <2>1, <2>2, <2>3, QuietStep
<1> QED BY <1>1, <1>2, <1>3, <1>4 DEF Load

LEMMA PersistSaltPaired ==
    ASSUME TypeOK, SaltShape, WritersInv, Paired, NEW p \in Procs, errors' = 0, PersistSalt(p) \/ SaltError(p)
    PROVE  Paired'
<1> USE FileNames, DistinctFiles, NoRecords, NoErrorYet DEF TypeOK, FilesOK, ProcsOK
<1>r. RingInv(p) /\ ring[p] \in Rings /\ \A f \in Files : Reproducible(dir[f].keys)
  BY DEF Paired
<1>1. CASE SaltCreate(p)
  <2>1. OthersKept(p) /\ ring'[p] = ring[p]
    BY <1>1 DEF SaltCreate, OthersKept, Goto
  <2>2. CASE dir[Salt] # Absent
    <3>1. Quiet(p)
      BY <1>1, <2>1, <2>2 DEF SaltCreate, Quiet
    <3>2. RingInv(p)'
      BY <1>1, <1>r, <2>1, <2>2 DEF SaltCreate, RingInv, Goto, AfterSaltPcs
    <3>3. FilesPaired
      BY <1>1, <1>r, <2>2 DEF SaltCreate, FilesPaired
    <3> QED BY <3>1, <3>2, <3>3, QuietStep
  <2>3. CASE dir[Salt] = Absent
    <3>1. /\ \A f \in Files : \A r \in dir[f].keys : r.salt = NoSalt
          /\ \A q \in Procs : ring[q].persisted = FALSE
          /\ \A q \in Procs : pc[q] \notin {"salt_write", "salt_sync"}
      <4>1. Absent # Torn /\ \A s : Absent # SaltFile(s)
        OBVIOUS
      <4>2. \A q \in Procs : ring[q].persisted \in BOOLEAN
        BY RingTypes
      <4> QED BY <2>3, <4>1, <4>2 DEF Paired, RingInv, Reproducible
    <3>2. /\ pc'[p] = "salt_write" /\ writer'[Salt] = {p}
          /\ dir' = [dir EXCEPT ![Salt] = Torn]
      BY <1>1, <2>3 DEF SaltCreate, Created, Goto
    <3>3. \A f \in Files : Reproducible(dir[f].keys)'
      BY <3>1, <3>2 DEF Reproducible
    <3>4. RingInv(p)'
      BY <1>1, <1>r, <2>1, <3>1, <3>2 DEF SaltCreate, RingInv, AfterSaltPcs
    <3>5. ASSUME NEW q \in Procs, q # p PROVE RingInv(q)'
      <4>1. RingInv(q) /\ pc'[q] = pc[q] /\ ring'[q] = ring[q]
        BY <3>5, <2>1 DEF Paired, OthersKept
      <4>2. \A r \in ring[q].keys : Absent = SaltFile(r.salt) <=> FALSE
        OBVIOUS
      <4> QED BY <2>3, <3>1, <4>1, <4>2 DEF RingInv, Reproducible
    <3> QED BY <3>3, <3>4, <3>5 DEF Paired
  <2> QED BY <2>2, <2>3
<1>2. CASE SaltWrite(p)
  <2>1. /\ OthersKept(p) /\ ring'[p] = ring[p] /\ pc'[p] = "salt_sync"
        /\ dir[Salt] = Torn /\ writer[Salt] = {p} /\ UNCHANGED writer
    BY <1>2, <1>r DEF SaltWrite, OthersKept, Goto, RingInv
  <2>2. dir' = [dir EXCEPT ![Salt] = SaltFile(ring[p].salt)]
    <3>1. \A f \in Files : p \in writer[f] <=> f = Salt
      BY <1>2, <2>1 DEF SaltWrite, WritersInv
    <3> QED BY <1>2, <3>1 DEF SaltWrite, Written
  <2>3. /\ \A f \in Files : \A r \in dir[f].keys : r.salt = NoSalt
        /\ \A q \in Procs : ring[q].persisted = FALSE
        /\ \A q \in Procs : pc[q] # "salt_sync"
        /\ \A q \in Procs : pc[q] = "salt_write" => q = p
    <3>1. \A s : Torn # SaltFile(s)
      OBVIOUS
    <3>2. \A q \in Procs : ring[q].persisted \in BOOLEAN
      BY RingTypes
    <3>3. \A f \in Files : \A r \in dir[f].keys : r.salt = NoSalt
      BY <2>1, <3>1 DEF Paired, Reproducible
    <3>4. \A q \in Procs : ring[q].persisted = FALSE /\ pc[q] # "salt_sync"
      BY <2>1, <3>1, <3>2 DEF Paired, RingInv
    <3>5. \A q \in Procs : pc[q] = "salt_write" => q = p
      BY <2>1 DEF Paired, RingInv
    <3> QED BY <3>3, <3>4, <3>5
  <2>4. \A f \in Files : Reproducible(dir[f].keys)'
    BY <2>2, <2>3 DEF Reproducible
  <2>5. RingInv(p)'
    BY <1>2, <1>r, <2>1, <2>2, <2>3 DEF SaltWrite, RingInv, AfterSaltPcs
  <2>6. ASSUME NEW q \in Procs, q # p PROVE RingInv(q)'
    <3>1. RingInv(q) /\ pc'[q] = pc[q] /\ ring'[q] = ring[q]
      BY <2>6, <2>1 DEF Paired, OthersKept
    <3>2. \A r \in ring[q].keys : Torn = SaltFile(r.salt) <=> FALSE
      OBVIOUS
    <3> QED BY <2>1, <2>3, <2>6, <3>1, <3>2 DEF RingInv, Reproducible
  <2> QED BY <2>4, <2>5, <2>6 DEF Paired
<1>3. CASE SaltSync(p)
  <2>1. Quiet(p)
    BY <1>3 DEF SaltSync, SaltPersisted, Quiet, OthersKept, Goto, Closed
  <2>2. RingInv(p)'
    <3>1. /\ ring'[p] = Ring(ring[p].keys, ring[p].salt, TRUE, ring[p].origin)
          /\ pc'[p] \in {"backup_rm", "tmp_rm"}
      BY <1>3 DEF SaltSync, SaltPersisted, AfterSalt, Goto
    <3>2. ring'[p].keys = ring[p].keys /\ ring'[p].salt = ring[p].salt /\ ring'[p].persisted = TRUE
      BY <3>1 DEF Ring
    <3> QED BY <1>3, <1>r, <2>1, <3>1, <3>2 DEF SaltSync, RingInv, AfterSaltPcs, Quiet, SaltShape, PersistPcs
  <2>3. FilesPaired
    BY <1>3, <1>r DEF SaltSync, FilesPaired, Reproducible, Removed, Created
  <2> QED BY <2>1, <2>2, <2>3, QuietStep
<1>4. CASE SaltUndo(p)
  BY <1>4, <1>r DEF SaltUndo, RingInv
<1>5. CASE SaltCheck(p)
  <2>1. Quiet(p)
    <3>1. SaltPersisted(p) => OthersKept(p)
      BY DEF SaltPersisted, OthersKept, Goto
    <3> QED BY <1>5, <3>1, Returns DEF SaltCheck, Quiet
  <2>2. RingInv(p)'
    <3>1. CASE dir[Salt] = SaltFile(ring[p].salt)
      <4>1. /\ ring'[p] = Ring(ring[p].keys, ring[p].salt, TRUE, ring[p].origin)
            /\ pc'[p] \in {"backup_rm", "tmp_rm"}
        BY <1>5, <3>1 DEF SaltCheck, SaltPersisted, AfterSalt, Goto
      <4>2. ring'[p].keys = ring[p].keys /\ ring'[p].salt = ring[p].salt /\ ring'[p].persisted = TRUE
        BY <4>1 DEF Ring
      <4> QED BY <1>5, <1>r, <2>1, <3>1, <4>1, <4>2
              DEF SaltCheck, RingInv, AfterSaltPcs, Quiet, SaltShape, PersistPcs
    <3>2. CASE dir[Salt] # SaltFile(ring[p].salt)
      BY <1>5, <1>r, <2>1, <3>2, Returns, ReturnedRing DEF SaltCheck, Quiet, AfterSaltPcs
    <3> QED BY <3>1, <3>2
  <2>3. FilesPaired
    BY <1>5, <1>r DEF SaltCheck, FilesPaired
  <2> QED BY <2>1, <2>2, <2>3, QuietStep
<1>6. CASE SaltError(p)
  BY <1>6 DEF SaltError
<1> QED BY <1>1, <1>2, <1>3, <1>4, <1>5, <1>6 DEF PersistSalt

LEMMA FinishConversionPaired ==
    ASSUME TypeOK, SaltShape, WritersInv, Paired, NEW p \in Procs, errors' = 0, FinishConversion(p) \/ BackupError(p)
    PROVE  Paired'
<1> USE FileNames, DistinctFiles, NoRecords, NoErrorYet DEF TypeOK, FilesOK, ProcsOK
<1>r. RingInv(p) /\ ring[p] \in Rings /\ \A f \in Files : Reproducible(dir[f].keys)
  BY DEF Paired
<1>1. CASE BackupRemove(p)
  <2>1. Quiet(p)
    BY <1>1 DEF BackupRemove, Quiet, OthersKept, Goto, Removed, Created, Closed, Written, WritersInv
  <2>2. RingInv(p)'
    BY <1>1, <1>r, <2>1, Returns, ReturnedRing DEF BackupRemove, Quiet, Goto, AfterSaltPcs
  <2>3. FilesPaired
    BY <1>1, <1>r DEF BackupRemove, FilesPaired, Reproducible, Removed, Created
  <2> QED BY <2>1, <2>2, <2>3, QuietStep
<1>2. CASE BackupCreate(p)
  <2>1. Quiet(p)
    BY <1>2, Returns DEF BackupCreate, Quiet, OthersKept, Goto, Removed, Created, Closed, Written, WritersInv
  <2>2. RingInv(p)'
    BY <1>2, <1>r, <2>1, Returns, ReturnedRing DEF BackupCreate, Quiet, Goto, AfterSaltPcs
  <2>3. FilesPaired
    BY <1>2, <1>r DEF BackupCreate, FilesPaired, Reproducible, Removed, Created
  <2> QED BY <2>1, <2>2, <2>3, QuietStep
<1>3. CASE BackupWrite(p)
  <2>1. Quiet(p)
    BY <1>3 DEF BackupWrite, Quiet, OthersKept, Goto, Removed, Created, Closed, Written, WritersInv
  <2>2. RingInv(p)'
    BY <1>3, <1>r, <2>1, Returns, ReturnedRing DEF BackupWrite, Quiet, Goto, AfterSaltPcs
  <2>3. FilesPaired
    BY <1>3, <1>r DEF BackupWrite, FilesPaired, Reproducible, Written, SaltShape
  <2> QED BY <2>1, <2>2, <2>3, QuietStep
<1>4. CASE UndoBackup(p)
  <2>1. Quiet(p)
    BY <1>4, Returns DEF UndoBackup, Quiet, OthersKept, Goto, Removed, Created, Closed, Written, WritersInv
  <2>2. RingInv(p)'
    BY <1>4, <1>r, <2>1, Returns, ReturnedRing DEF UndoBackup, Quiet, Goto, AfterSaltPcs
  <2>3. FilesPaired
    BY <1>4, <1>r DEF UndoBackup, FilesPaired, Reproducible, Removed, Created
  <2> QED BY <2>1, <2>2, <2>3, QuietStep
<1>5. CASE Verify(p)
  <2>1. Quiet(p)
    BY <1>5, Returns DEF Verify, Quiet, OthersKept, Goto, Removed, Created, Closed, Written, WritersInv
  <2>2. RingInv(p)'
    BY <1>5, <1>r, <2>1, Returns, ReturnedRing DEF Verify, Quiet, Goto, AfterSaltPcs
  <2>3. FilesPaired
    BY <1>5, <1>r DEF Verify, FilesPaired, Reproducible, Removed, Created
  <2> QED BY <2>1, <2>2, <2>3, QuietStep
<1>6. CASE BackupDrop(p)
  <2>1. Quiet(p)
    BY <1>6, Returns DEF BackupDrop, Quiet, OthersKept, Goto, Removed, Created, Closed, Written, WritersInv
  <2>2. RingInv(p)'
    <3>1. PICK r \in {ring[p], WithOrigin(ring[p], "v2")} :
              pc'[p] \in {"idle", "ready"} /\ ring'[p] \in {EmptyRing, r}
      BY <1>6, Returns DEF BackupDrop
    <3>2. r.keys = ring[p].keys /\ r.salt = ring[p].salt /\ r.persisted = ring[p].persisted
      BY <3>1 DEF WithOrigin, Ring
    <3> QED BY <1>6, <1>r, <2>1, <3>1, <3>2 DEF BackupDrop, RingInv, AfterSaltPcs, Quiet
  <2>3. FilesPaired
    BY <1>6, <1>r DEF BackupDrop, FilesPaired, Reproducible, Removed, Created
  <2> QED BY <2>1, <2>2, <2>3, QuietStep
<1>7. CASE BackupError(p)
  BY <1>7 DEF BackupError
<1> QED BY <1>1, <1>2, <1>3, <1>4, <1>5, <1>6, <1>7 DEF FinishConversion

LEMMA WriteAtomicPaired ==
    ASSUME TypeOK, SaltShape, WritersInv, Paired, NEW p \in Procs, errors' = 0, WriteAtomic(p) \/ TmpError(p) \/ DirSyncError(p)
    PROVE  Paired'
<1> USE FileNames, DistinctFiles, NoRecords, NoErrorYet DEF TypeOK, FilesOK, ProcsOK
<1>r. RingInv(p) /\ ring[p] \in Rings /\ \A f \in Files : Reproducible(dir[f].keys)
  BY DEF Paired
<1>1. CASE TmpRemove(p)
  <2>1. Quiet(p)
    BY <1>1 DEF TmpRemove, Quiet, OthersKept, Goto, Removed, Created, Closed, Written, WritersInv
  <2>2. RingInv(p)'
    BY <1>1, <1>r, <2>1, Returns, ReturnedRing DEF TmpRemove, Quiet, Goto, AfterSaltPcs
  <2>3. FilesPaired
    BY <1>1, <1>r DEF TmpRemove, FilesPaired, Reproducible, Removed, Created
  <2> QED BY <2>1, <2>2, <2>3, QuietStep
<1>2. CASE TmpCreate(p)
  <2>1. Quiet(p)
    BY <1>2, Returns DEF TmpCreate, Quiet, OthersKept, Goto, Removed, Created, Closed, Written, WritersInv
  <2>2. RingInv(p)'
    BY <1>2, <1>r, <2>1, Returns, ReturnedRing DEF TmpCreate, Quiet, Goto, AfterSaltPcs
  <2>3. FilesPaired
    BY <1>2, <1>r DEF TmpCreate, FilesPaired, Reproducible, Removed, Created
  <2> QED BY <2>1, <2>2, <2>3, QuietStep
<1>3. CASE TmpWrite(p)
  <2>1. Quiet(p)
    BY <1>3 DEF TmpWrite, Quiet, OthersKept, Goto, Removed, Created, Closed, Written, WritersInv
  <2>2. RingInv(p)'
    BY <1>3, <1>r, <2>1, Returns, ReturnedRing DEF TmpWrite, Quiet, Goto, AfterSaltPcs
  <2>3. FilesPaired
    <3>1. Reproducible(ring[p].keys)
      BY <1>3, <1>r DEF TmpWrite, RingInv, AfterSaltPcs, Reproducible
    <3> QED BY <1>3, <1>r, <3>1 DEF TmpWrite, FilesPaired, Reproducible, Written
  <2> QED BY <2>1, <2>2, <2>3, QuietStep
<1>4. CASE Rename(p)
  <2>1. Quiet(p)
    BY <1>4, Returns DEF Rename, Quiet, OthersKept, Goto, Removed, Created, Closed, Written, WritersInv
  <2>2. RingInv(p)'
    BY <1>4, <1>r, <2>1, Returns, ReturnedRing DEF Rename, Quiet, Goto, AfterSaltPcs
  <2>3. FilesPaired
    BY <1>4, <1>r DEF Rename, FilesPaired, Reproducible, Removed, Created
  <2> QED BY <2>1, <2>2, <2>3, QuietStep
<1>5. CASE DirSync(p)
  <2>1. Quiet(p)
    BY <1>5, Returns DEF DirSync, Quiet, OthersKept, Goto, Removed, Created, Closed, Written, WritersInv
  <2>2. RingInv(p)'
    <3>1. CASE Converting(p)
      <4>1. pc'[p] = "verify" /\ ring'[p] = WithOrigin(ring[p], "converted")
        BY <1>5, <3>1 DEF DirSync, Goto
      <4>2. /\ ring'[p].keys = ring[p].keys /\ ring'[p].salt = ring[p].salt
            /\ ring'[p].persisted = ring[p].persisted
        BY <4>1 DEF WithOrigin, Ring
      <4> QED BY <1>5, <1>r, <2>1, <4>1, <4>2 DEF DirSync, RingInv, AfterSaltPcs, Quiet
    <3>2. CASE ~Converting(p)
      BY <1>5, <1>r, <2>1, <3>2, Returns, ReturnedRing DEF DirSync, Quiet, Goto, AfterSaltPcs
    <3> QED BY <3>1, <3>2
  <2>3. FilesPaired
    BY <1>5, <1>r DEF DirSync, FilesPaired, Reproducible, Removed, Created
  <2> QED BY <2>1, <2>2, <2>3, QuietStep
<1>6. CASE TmpError(p)
  BY <1>6 DEF TmpError
<1>7. CASE DirSyncError(p)
  BY <1>7 DEF DirSyncError
<1> QED BY <1>1, <1>2, <1>3, <1>4, <1>5, <1>6, <1>7 DEF WriteAtomic

\* An edit adds fingerprints under the salt of its ring only, and a ring that
\* has a salt keeps it.
LEMMA EditedSalts ==
    ASSUME ProcsOK, NEW p \in Procs, Edit(p)
    PROVE  /\ ring[p].salt # NoSalt => ring'[p].salt = ring[p].salt
           /\ \A r \in ring'[p].keys : r \in ring[p].keys \/ r.salt \in {NoSalt, ring'[p].salt}
<1>1. PICK keys, s : /\ Edited(p, keys, s)
                     /\ ring[p].salt # NoSalt => s = ring[p].salt
                     /\ \A r \in keys : r \in ring[p].keys \/ r.salt \in {NoSalt, s}
  <2>1. CASE EditSetName(p)
    <3>1. PICK n, row, st : \E k, others : \E s \in EnsuredSalts(ring[p]) :
              Edited(p, SetName(DropOthers(ring[p].keys, n, others, ring[p].salt, st),
                                n, k, s, st), s)
      BY <2>1 DEF EditSetName
    <3>2. PICK k, others, s : /\ s \in EnsuredSalts(ring[p])
                              /\ Edited(p, SetName(DropOthers(ring[p].keys, n, others, ring[p].salt, st),
                                                   n, k, s, st), s)
      BY <3>1
    <3>3. \A r \in SetName(DropOthers(ring[p].keys, n, others, ring[p].salt, st), n, k, s, st) :
              r \in ring[p].keys \/ r.salt = s
      BY DEF SetName, DropOthers, RecordOf
    <3> QED BY <3>2, <3>3 DEF EnsuredSalts
  <2>2. CASE EditLearn(p)
    <3>1. CASE \E n \in Names, k \in Serials : \E s \in EnsuredSalts(ring[p]) :
              Edited(p, RecordFirstSeen(ring[p].keys, n, k, s), s)
      <4>1. PICK n \in Names, k \in Serials, s \in EnsuredSalts(ring[p]) :
                Edited(p, RecordFirstSeen(ring[p].keys, n, k, s), s)
        BY <3>1
      <4>2. \A r \in RecordFirstSeen(ring[p].keys, n, k, s) : r \in ring[p].keys \/ r.salt = s
        BY DEF RecordFirstSeen, RecordOf
      <4> QED BY <4>1, <4>2 DEF EnsuredSalts
    <3>2. CASE \E n \in Names, k \in Serials :
              Edited(p, DropStale(ring[p].keys, n, k, ring[p].salt), ring[p].salt)
      BY <3>2 DEF DropStale
    <3> QED BY <2>2, <3>1, <3>2 DEF EditLearn
  <2>3. CASE EditClear(p)
    <3>1. CASE \E row \in Rows : \E ks \in SUBSET row :
              Edited(p, ClearKey(ring[p].keys, ks, ring[p].salt), ring[p].salt)
      BY <3>1 DEF ClearKey
    <3>2. CASE \E n \in Names : Edited(p, RemoveName(ring[p].keys, n), ring[p].salt)
      BY <3>2 DEF RemoveName
    <3> QED BY <2>3, <3>1, <3>2 DEF EditClear
  <2> QED BY <2>1, <2>2, <2>3 DEF Edit
<1>2. ring'[p].keys = keys /\ ring'[p].salt = s
  BY <1>1 DEF Edited, Ring, ProcsOK
<1> QED BY <1>1, <1>2

LEMMA CallerPaired ==
    ASSUME TypeOK, SaltShape, WritersInv, Paired, NEW p \in Procs, errors' = 0, Edit(p) \/ Discard(p) \/ SaveCheck(p) \/ Crash(p)
    PROVE  Paired'
<1> USE FileNames, DistinctFiles, NoRecords, NoErrorYet DEF TypeOK, FilesOK, ProcsOK
<1>r. RingInv(p) /\ ring[p] \in Rings /\ \A f \in Files : Reproducible(dir[f].keys)
  BY DEF Paired
<1>1. CASE Edit(p)
  <2>1. Quiet(p)
    BY <1>1, EditSteps DEF Edited, Quiet, OthersKept, Goto
  <2>2. RingInv(p)'
    <3>1. pc[p] \in {"ready", "learned"} /\ pc'[p] \in {"edited", "learned"}
      BY <1>1 DEF Edit, Goto
    <3>2. /\ ring[p].salt # NoSalt => ring'[p].salt = ring[p].salt
          /\ \A r \in ring'[p].keys : r \in ring[p].keys \/ r.salt \in {NoSalt, ring'[p].salt}
      BY <1>1, EditedSalts
    <3>3. ring'[p].persisted = ring[p].persisted
      BY <1>1, EditSteps DEF Edited, Ring
    <3> QED BY <1>r, <2>1, <3>1, <3>2, <3>3 DEF RingInv, AfterSaltPcs, Quiet
  <2>3. FilesPaired
    BY <1>1, <1>r, EditSteps DEF FilesPaired, Reproducible
  <2> QED BY <2>1, <2>2, <2>3, QuietStep
<1>2. CASE Discard(p)
  <2>1. Quiet(p)
    BY <1>2, Returns DEF Discard, Quiet, OthersKept, Goto, Removed, Created, Closed, Written, WritersInv
  <2>2. RingInv(p)'
    BY <1>2, <1>r, <2>1, Returns, ReturnedRing DEF Discard, Quiet, Goto, AfterSaltPcs
  <2>3. FilesPaired
    BY <1>2, <1>r DEF Discard, FilesPaired, Reproducible, Removed, Created
  <2> QED BY <2>1, <2>2, <2>3, QuietStep
<1>3. CASE SaveCheck(p)
  <2>1. Quiet(p)
    BY <1>3, Returns DEF SaveCheck, Quiet, OthersKept, Goto, Removed, Created, Closed, Written, WritersInv
  <2>2. RingInv(p)'
    <3>1. CASE SaveRefused(p)
      BY <1>3, <1>r, <2>1, <3>1, Returns, ReturnedRing DEF SaveCheck, Quiet
    <3>2. CASE ~SaveRefused(p)
      <4>1. PICK s \in EnsuredSalts(ring[p]) :
                ring' = [ring EXCEPT ![p] = Ring(@.keys, s, @.persisted, @.origin)]
        BY <1>3, <3>2 DEF SaveCheck
      <4>2. /\ ring'[p].keys = ring[p].keys /\ ring'[p].salt = s
            /\ ring'[p].persisted = ring[p].persisted
            /\ ring[p].salt # NoSalt => s = ring[p].salt
        BY <4>1 DEF Ring, EnsuredSalts
      <4>3. /\ pc[p] \in {"edited", "learned"} /\ pc'[p] \in {"salt_create", "backup_rm", "tmp_rm"}
            /\ pc'[p] # "salt_create" => ring[p].persisted
        BY <1>3, <3>2 DEF SaveCheck, Goto
      <4> QED BY <1>r, <2>1, <4>2, <4>3 DEF RingInv, AfterSaltPcs, Quiet
    <3> QED BY <3>1, <3>2
  <2>3. FilesPaired
    BY <1>3, <1>r DEF SaveCheck, FilesPaired, Reproducible, Removed, Created
  <2> QED BY <2>1, <2>2, <2>3, QuietStep
<1>4. CASE Crash(p)
  <2>1. Quiet(p)
    BY <1>4, Returns DEF Crash, Quiet, OthersKept, Goto, Removed, Created, Closed, Written, WritersInv
  <2>2. RingInv(p)'
    BY <1>4, <2>1, Returns DEF Crash, RingInv, AfterSaltPcs
  <2>3. FilesPaired
    BY <1>4, <1>r DEF Crash, FilesPaired, Reproducible, Removed, Created
  <2> QED BY <2>1, <2>2, <2>3, QuietStep
<1> QED BY <1>1, <1>2, <1>3, <1>4

LEMMA SaltInvHolds == Spec => []SaltInv
<1>1. Init => SaltInv
  <2> SUFFICES ASSUME Init PROVE SaltInv
    OBVIOUS
  <2>1. \A f \in Files : \A r \in dir[f].keys : r.salt = NoSalt
    BY NoRecords, KeyringStoreAssumption DEF Init
  <2>2. SaltShape
    BY <2>1, NoRecords, FileNames, DistinctFiles DEF Init, SaltShape, PersistPcs
  <2>3. Paired
    BY <2>1, NoRecords DEF Init, Paired, RingInv, Reproducible, AfterSaltPcs
  <2> QED BY <2>2, <2>3 DEF SaltInv, WritersInv, Init
<1>2. TypeOK /\ SaltInv /\ [Next]_vars => SaltInv'
  <2> SUFFICES ASSUME TypeOK, SaltInv, [Next]_vars PROVE SaltInv'
    OBVIOUS
  <2>1. CASE UNCHANGED vars
    BY <2>1 DEF vars, SaltInv, SaltShape, WritersInv, Paired, RingInv, Reproducible
  <2>2. ASSUME NEW p \in Procs, Step(p) \/ Failure(p) \/ Edit(p) \/ Discard(p) \/ Crash(p)
        PROVE  SaltInv'
    <3>1. SaltShape' /\ WritersInv'
      BY <2>2, LoadShape, PersistSaltShape, FinishConversionShape, WriteAtomicShape, CallerShape
         DEF Step, Failure, SaltInv
    <3>2. ASSUME errors' = 0, saltLosses' = 0 PROVE Paired'
      <4>1. errors = 0 /\ saltLosses = 0
        <5>1. /\ saltLosses' = saltLosses
              /\ errors' \in {errors, errors + 1}
          BY <2>2 DEF Step, Failure, Load, PersistSalt, FinishConversion, WriteAtomic, Edit, Discard,
                      Crash, SaveCheck, LoadRead, LoadRemoveBackup, LoadSalt, ConvertSalt,
                      SaltCreate, SaltWrite, SaltSync, SaltUndo, SaltCheck, SaltError,
                      BackupRemove, BackupCreate, BackupWrite, UndoBackup, Verify, BackupDrop,
                      BackupError, TmpRemove, TmpCreate, TmpWrite, Rename, DirSync, TmpError,
                      DirSyncError, Ok, Error, UnchangedEnv
        <5> QED BY <3>2, <5>1 DEF TypeOK, BoundsOK
      <4>2. Paired
        BY <4>1 DEF SaltInv
      <4> QED
        BY <2>2, <3>2, <4>2, LoadPaired, PersistSaltPaired, FinishConversionPaired,
           WriteAtomicPaired, CallerPaired
           DEF Step, Failure, SaltInv
    <3> QED BY <3>1, <3>2 DEF SaltInv
  <2>3. CASE ForeignSave
    <3>1. /\ UNCHANGED <<pc, ring, orig, errors, saltLosses>>
          /\ \A f \in Files : f # Keys => dir'[f] = dir[f] /\ writer'[f] = writer[f]
          /\ writer'[Keys] = {}
          /\ \A r \in dir'[Keys].keys : r.salt = NoSalt
      BY <2>3, NoRecords, FileNames, KeyringStoreAssumption DEF ForeignSave, TypeOK, FilesOK
    <3>2. dir'[Salt] = dir[Salt] /\ writer'[Salt] = writer[Salt]
      BY <3>1, FileNames, DistinctFiles
    <3>3. SaltShape' /\ WritersInv'
      BY <3>1, <3>2, FileNames DEF SaltInv, SaltShape, WritersInv
    <3>4. Paired => Paired'
      BY <3>1, <3>2 DEF Paired, RingInv, Reproducible
    <3> QED BY <3>1, <3>3, <3>4 DEF SaltInv
  <2>4. CASE LoseSalt
    <3>1. saltLosses' # 0
      BY <2>4 DEF LoseSalt, TypeOK, BoundsOK
    <3>2. SaltShape'
      BY <2>4, NoRecords, FileNames DEF LoseSalt, Removed, SaltInv, SaltShape, TypeOK, FilesOK
    <3>3. WritersInv'
      BY <2>4, FileNames DEF LoseSalt, Removed, SaltInv, WritersInv, TypeOK, FilesOK
    <3> QED BY <3>1, <3>2, <3>3 DEF SaltInv
  <2> QED BY <2>1, <2>2, <2>3, <2>4 DEF Next
<1> QED BY <1>1, <1>2, TypeCorrect, PTL DEF Spec

\* Deaths of processes, interleavings of any number of them and the edits they
\* make never leave a fingerprint in keys.json that keys.salt does not reproduce,
\* as long as no system call of theirs fails and nobody deletes the salt.
THEOREM SaltPairingHolds == Spec => []SaltPairing
<1>1. SaltInv => SaltPairing
  BY FileNames DEF SaltInv, Paired, SaltPairing
<1> QED BY <1>1, SaltInvHolds, PTL


----------------------------------------------------------------------------
(* What the records of a ring and of a file are like, whatever fails.      *)
(*                                                                         *)
(* Uniqueness starts with the version 1 files: nothing in a load makes the *)
(* records of a file unique, so it is proved for files that an older       *)
(* keyroost, which refused a duplicate name, can have written.             *)

OldNamesUnique == \A keys \in OldFiles : Unique(keys)

GoodKeys(keys) == Fingerprinted(keys) /\ (OldNamesUnique => Unique(keys))

\* What convert_v1 relies on: plain serials, and names kept on this computer.
OldKeys(keys) == /\ \A r \in keys : r.salt = NoSalt /\ r.stored = "computer"
                 /\ OldNamesUnique => Unique(keys)

GoodFile(c) == /\ c.fmt = "v2" => GoodKeys(c.keys)
               /\ c.fmt = "v1" => OldKeys(c.keys)
               /\ c.fmt \notin {"v1", "v2"} => c.keys = {}

RecordsInv == /\ \A f \in Files : GoodFile(dir[f])
              /\ \A p \in Procs : /\ GoodKeys(ring[p].keys)
                                  /\ GoodFile(orig[p]) /\ orig[p].fmt # "v2"

LEMMA SubsetGood ==
    ASSUME NEW keys, NEW new, GoodKeys(keys), new \subseteq keys
    PROVE  GoodKeys(new)
BY DEF GoodKeys, Fingerprinted, Unique

\* Keyring::set_name after its refusal of a duplicate name.
LEMMA SetNameGood ==
    ASSUME NEW keys \in SUBSET Records, NEW n, NEW k, NEW s, NEW st,
           s # NoSalt, GoodKeys(keys), ~HeldElsewhere(keys, n, k, s)
    PROVE  GoodKeys(SetName(keys, n, k, s, st))
<1> DEFINE new == SetName(keys, n, k, s, st)
           rec == RecordOf(n, k, s, st)
<1>1. rec.name = n /\ rec.serial = k /\ rec.salt = s /\ rec.stored = st
  BY DEF RecordOf
<1>2. \A r \in new : r = rec \/ r \in keys
  BY DEF SetName
<1>3. \A r \in new : r # rec => r.name # n
  BY DEF SetName, HeldElsewhere, Holders
<1>4. \A r \in new : r # rec /\ st = "computer" /\ r.stored = "computer" =>
          ~(r.serial = k /\ r.salt = s)
  BY DEF SetName, IsOf
<1> HIDE DEF new, rec
<1>5. Fingerprinted(new)
  BY <1>1, <1>2 DEF GoodKeys, Fingerprinted
<1>6. ASSUME OldNamesUnique PROVE Unique(new)
  <2> SUFFICES ASSUME NEW r1 \in new, NEW r2 \in new, r1 # r2
               PROVE  /\ r1.name # r2.name
                      /\ ~ /\ r1.stored = "computer" /\ r2.stored = "computer"
                           /\ r1.serial # NoSerial
                           /\ r1.serial = r2.serial /\ r1.salt = r2.salt
    BY DEF Unique
  <2>1. CASE r1 \in keys /\ r2 \in keys
    BY <1>6, <2>1 DEF GoodKeys, Unique
  <2>2. CASE r1 = rec
    BY <2>2, <1>1, <1>3, <1>4
  <2>3. CASE r2 = rec
    BY <2>3, <1>1, <1>3, <1>4
  <2> QED BY <2>1, <2>2, <2>3, <1>2
<1> QED BY <1>5, <1>6 DEF GoodKeys, new

\* Keyring::record_first_seen.
LEMMA FirstSeenGood ==
    ASSUME NEW keys \in SUBSET Records, NEW n, NEW k, NEW s, s # NoSalt, GoodKeys(keys)
    PROVE  GoodKeys(RecordFirstSeen(keys, n, k, s))
<1> DEFINE rec == RecordOf(n, k, s, "key")
<1>1. CASE Holders(keys, n) # {}
  BY <1>1 DEF RecordFirstSeen
<1>2. CASE Holders(keys, n) = {}
  <2>1. rec.name = n /\ rec.salt = s /\ rec.stored = "key"
    BY DEF RecordOf
  <2>2. \A r \in keys : r.name # n
    BY <1>2 DEF Holders
  <2>3. RecordFirstSeen(keys, n, k, s) = keys \cup {rec}
    BY <1>2 DEF RecordFirstSeen
  <2> HIDE DEF rec
  <2> QED BY <2>1, <2>2, <2>3 DEF GoodKeys, Fingerprinted, Unique
<1> QED BY <1>1, <1>2

\* load_from without a salt.
LEMMA UnmatchedGood ==
    ASSUME NEW keys \in SUBSET Records, GoodKeys(keys)
    PROVE  GoodKeys(Unmatched(keys))
<1>1. \A r \in Unmatched(keys) : /\ r.serial = NoSerial
                                 /\ \E o \in keys : /\ r = RecordOf(o.name, NoSerial, NoSalt, o.stored)
                                                    /\ r.name = o.name
  BY DEF Unmatched, RecordOf
<1>2. Fingerprinted(Unmatched(keys))
  BY <1>1 DEF Fingerprinted
<1>3. ASSUME OldNamesUnique, NEW r1 \in Unmatched(keys), NEW r2 \in Unmatched(keys), r1 # r2
      PROVE  r1.name # r2.name
  BY <1>1, <1>3 DEF GoodKeys, Unique
<1> QED BY <1>1, <1>2, <1>3 DEF GoodKeys, Unique

\* convert_v1.
LEMMA ConvertedGood ==
    ASSUME NEW keys \in SUBSET Records, NEW s, s # NoSalt, OldKeys(keys)
    PROVE  GoodKeys(ConvertV1(keys, s))
<1>1. \A r \in ConvertV1(keys, s) :
          /\ r.serial # NoSerial => r.salt = s
          /\ \E o \in keys :
                 /\ r = RecordOf(o.name, o.serial, IF o.serial = NoSerial THEN NoSalt ELSE s, "computer")
                 /\ r.name = o.name /\ r.serial = o.serial
  BY DEF ConvertV1, RecordOf
<1>2. Fingerprinted(ConvertV1(keys, s))
  BY <1>1 DEF Fingerprinted
<1>3. ASSUME OldNamesUnique, NEW r1 \in ConvertV1(keys, s), NEW r2 \in ConvertV1(keys, s), r1 # r2
      PROVE  /\ r1.name # r2.name
             /\ ~(r1.serial # NoSerial /\ r1.serial = r2.serial)
  <2>1. PICK o1 \in keys, o2 \in keys :
            /\ o1 # o2
            /\ r1.name = o1.name /\ r1.serial = o1.serial
            /\ r2.name = o2.name /\ r2.serial = o2.serial
    BY <1>1, <1>3
  <2> QED BY <1>3, <2>1 DEF OldKeys, Unique
<1> QED BY <1>2, <1>3 DEF GoodKeys, Unique

(* Every action but the loads and the edits only copies rings and files.   *)
Copies(p) ==
    /\ OthersKept(p)
    /\ ring'[p].keys \in {{}, ring[p].keys}
    /\ orig'[p] \in {Absent, orig[p]} \/ (orig'[p] = dir[Keys] /\ dir[Keys].fmt = "v1")
    /\ \A f \in Files : \/ dir'[f] \in {Absent, Torn, SaltFile(ring[p].salt), orig[p], V2(ring[p].keys)}
                        \/ \E g \in Files : dir'[f] = dir[g]

LEMMA PersistSaltCopies ==
    ASSUME TypeOK, NEW p \in Procs, PersistSalt(p) \/ SaltError(p)
    PROVE  Copies(p)
<1> USE FileNames, DistinctFiles, NoRecords DEF TypeOK, FilesOK, ProcsOK
<1>s. SaltPersisted(p) => OthersKept(p) /\ ring'[p].keys = ring[p].keys /\ orig'[p] = orig[p]
  BY DEF SaltPersisted, OthersKept, Goto, Ring
<1>1. CASE SaltCreate(p)
  BY <1>1 DEF SaltCreate, Copies, OthersKept, Goto, Created
<1>2. CASE SaltWrite(p)
  BY <1>2 DEF SaltWrite, Copies, OthersKept, Goto, Written
<1>3. CASE SaltSync(p)
  BY <1>3, <1>s DEF SaltSync, Copies
<1>4. CASE SaltUndo(p)
  BY <1>4, Returns DEF SaltUndo, Copies, Removed
<1>5. CASE SaltCheck(p)
  BY <1>5, <1>s, Returns DEF SaltCheck, Copies
<1>6. CASE SaltError(p)
  BY <1>6, Returns DEF SaltError, Copies, OthersKept, Goto
<1> QED BY <1>1, <1>2, <1>3, <1>4, <1>5, <1>6 DEF PersistSalt

LEMMA FinishConversionCopies ==
    ASSUME TypeOK, NEW p \in Procs, FinishConversion(p) \/ BackupError(p)
    PROVE  Copies(p)
<1> USE FileNames, DistinctFiles, NoRecords DEF TypeOK, FilesOK, ProcsOK
<1>1. CASE BackupRemove(p)
  BY <1>1 DEF BackupRemove, Copies, OthersKept, Goto, Removed
<1>2. CASE BackupCreate(p)
  BY <1>2, Returns DEF BackupCreate, Copies, OthersKept, Goto, Created
<1>3. CASE BackupWrite(p)
  BY <1>3 DEF BackupWrite, Copies, OthersKept, Goto, Written
<1>4. CASE UndoBackup(p)
  BY <1>4, Returns DEF UndoBackup, Copies, Removed
<1>5. CASE Verify(p)
  BY <1>5, Returns DEF Verify, Copies, OthersKept, Goto
<1>6. CASE BackupDrop(p)
  <2>1. PICK r \in {ring[p], WithOrigin(ring[p], "v2")} : Return(p, r)
    BY <1>6 DEF BackupDrop
  <2>2. r.keys = ring[p].keys
    BY <2>1 DEF WithOrigin, Ring
  <2> QED BY <1>6, <2>1, <2>2, Returns DEF BackupDrop, Copies, Removed
<1>7. CASE BackupError(p)
  BY <1>7, Returns DEF BackupError, Copies
<1> QED BY <1>1, <1>2, <1>3, <1>4, <1>5, <1>6, <1>7 DEF FinishConversion

LEMMA WriteAtomicCopies ==
    ASSUME TypeOK, NEW p \in Procs, WriteAtomic(p) \/ TmpError(p) \/ DirSyncError(p)
    PROVE  Copies(p)
<1> USE FileNames, DistinctFiles, NoRecords DEF TypeOK, FilesOK, ProcsOK
<1>f. WriteFailed(p) => /\ OthersKept(p) /\ ring'[p].keys \in {{}, ring[p].keys}
                        /\ orig'[p] \in {Absent, orig[p]}
  BY Returns
<1>1. CASE TmpRemove(p)
  BY <1>1 DEF TmpRemove, Copies, OthersKept, Goto, Removed
<1>2. CASE TmpCreate(p)
  BY <1>2, <1>f DEF TmpCreate, Copies, OthersKept, Goto, Created
<1>3. CASE TmpWrite(p)
  BY <1>3 DEF TmpWrite, Copies, OthersKept, Goto, Written
<1>4. CASE Rename(p)
  BY <1>4, <1>f DEF Rename, Copies, OthersKept, Goto
<1>5. CASE DirSync(p)
  <2>1. ring'[p].keys \in {{}, ring[p].keys}
    BY <1>5, Returns DEF DirSync, WithOrigin, Ring
  <2>2. OthersKept(p) /\ orig'[p] \in {Absent, orig[p]}
    BY <1>5, Returns DEF DirSync, OthersKept, Goto
  <2> QED BY <1>5, <2>1, <2>2 DEF DirSync, Copies
<1>6. CASE TmpError(p)
  BY <1>6, <1>f DEF TmpError, Copies
<1>7. CASE DirSyncError(p)
  BY <1>7, <1>f DEF DirSyncError, Copies
<1> QED BY <1>1, <1>2, <1>3, <1>4, <1>5, <1>6, <1>7 DEF WriteAtomic

LEMMA CallerCopies ==
    ASSUME TypeOK, NEW p \in Procs, Discard(p) \/ SaveCheck(p) \/ Crash(p) \/ LoadRemoveBackup(p)
    PROVE  Copies(p)
<1> USE FileNames, DistinctFiles, NoRecords DEF TypeOK, FilesOK, ProcsOK
<1>1. CASE Discard(p)
  BY <1>1, Returns DEF Discard, Copies
<1>2. CASE SaveCheck(p)
  <2>1. CASE SaveRefused(p) /\ Finish(p)
    BY <1>2, <2>1, Returns DEF SaveCheck, Copies
  <2>2. CASE ~SaveRefused(p)
    <3>1. ring'[p].keys = ring[p].keys /\ OthersKept(p)
      BY <1>2, <2>2 DEF SaveCheck, Ring, OthersKept, Goto
    <3>2. orig'[p] = Absent \/ (orig'[p] = dir[Keys] /\ dir[Keys].fmt = "v1")
      BY <1>2, <2>2 DEF SaveCheck
    <3> QED BY <1>2, <3>1, <3>2 DEF SaveCheck, Copies
  <2> QED BY <1>2, <2>1, <2>2 DEF SaveCheck
<1>3. CASE Crash(p)
  BY <1>3, Returns DEF Crash, Copies
<1>4. CASE LoadRemoveBackup(p)
  BY <1>4 DEF LoadRemoveBackup, Copies, OthersKept, Goto, Removed
<1> QED BY <1>1, <1>2, <1>3, <1>4

LEMMA CopiedRecords ==
    ASSUME TypeOK, RecordsInv, NEW p \in Procs, Copies(p)
    PROVE  RecordsInv'
<1> USE NoRecords
<1>1. GoodKeys({})
  BY DEF GoodKeys, Fingerprinted, Unique
<1>2. /\ GoodKeys(ring[p].keys) /\ GoodFile(orig[p]) /\ orig[p].fmt # "v2"
      /\ \A f \in Files : GoodFile(dir[f])
  BY DEF RecordsInv
<1>3. /\ GoodFile(Absent) /\ GoodFile(Torn) /\ GoodFile(SaltFile(ring[p].salt))
      /\ GoodFile(V2(ring[p].keys))
  BY <1>2 DEF GoodFile
<1>4. \A f \in Files : GoodFile(dir'[f])
  BY <1>2, <1>3 DEF Copies
<1>5. GoodKeys(ring'[p].keys) /\ GoodFile(orig'[p]) /\ orig'[p].fmt # "v2"
  BY <1>1, <1>2, <1>3, FileNames DEF Copies
<1>6. \A q \in Procs \ {p} : ring'[q] = ring[q] /\ orig'[q] = orig[q]
  BY DEF Copies, OthersKept
<1> QED BY <1>4, <1>5, <1>6 DEF RecordsInv

\* A load or an edit changes what its own process holds, and no file.
LEMMA OwnRecords ==
    ASSUME RecordsInv, NEW p \in Procs, OthersKept(p), dir' = dir,
           GoodKeys(ring'[p].keys),
           orig'[p] \in {Absent, orig[p]} \/ (orig'[p] = dir[Keys] /\ dir[Keys].fmt = "v1")
    PROVE  RecordsInv'
<1>1. GoodFile(orig'[p]) /\ orig'[p].fmt # "v2"
  BY NoRecords, FileNames DEF RecordsInv, GoodFile
<1>2. \A q \in Procs \ {p} : ring'[q] = ring[q] /\ orig'[q] = orig[q]
  BY DEF OthersKept
<1> QED BY <1>1, <1>2 DEF RecordsInv

LEMMA LoadRecords ==
    ASSUME TypeOK, SaltShape, RecordsInv, NEW p \in Procs,
           LoadRead(p) \/ LoadSalt(p) \/ ConvertSalt(p)
    PROVE  RecordsInv'
<1> USE FileNames, NoRecords DEF TypeOK, FilesOK, ProcsOK
<1>e. GoodKeys({}) /\ GoodKeys(ring[p].keys) /\ ring[p].keys \in SUBSET Records
  BY RingTypes DEF GoodKeys, Fingerprinted, Unique, RecordsInv
<1>1. CASE LoadRead(p)
  <2>1. OthersKept(p) /\ dir' = dir
    BY <1>1 DEF LoadRead, OthersKept, Goto
  <2>2. ring'[p].keys = {} \/ (ring'[p].keys = dir[Keys].keys /\ dir[Keys].fmt = "v2")
    BY <1>1 DEF LoadRead, Ring, EmptyRing
  <2>3. orig'[p] = orig[p] \/ (orig'[p] = dir[Keys] /\ dir[Keys].fmt = "v1")
    <3>1. CASE dir[Keys].fmt = "v1"
      BY <1>1, <3>1 DEF LoadRead
    <3>2. CASE dir[Keys].fmt # "v1"
      BY <1>1, <3>2 DEF LoadRead
    <3> QED BY <3>1, <3>2
  <2>4. GoodKeys(ring'[p].keys)
    BY <1>e, <2>2 DEF RecordsInv, GoodFile
  <2> QED BY <2>1, <2>3, <2>4, OwnRecords
<1>2. CASE LoadSalt(p)
  <2>1. OthersKept(p) /\ dir' = dir /\ orig'[p] \in {Absent, orig[p]}
    BY <1>2, Returns DEF LoadSalt, OthersKept, Goto
  <2>2. ring'[p].keys \in {{}, ring[p].keys, Unmatched(ring[p].keys)}
    BY <1>2, Returns DEF LoadSalt, WithKeys, Ring
  <2> QED BY <1>e, <2>1, <2>2, UnmatchedGood, OwnRecords
<1>3. CASE ConvertSalt(p)
  <2>1. OthersKept(p) /\ dir' = dir /\ orig'[p] \in {Absent, orig[p]}
    BY <1>3, Returns DEF ConvertSalt, OthersKept, Goto
  <2>2. GoodKeys(ring'[p].keys)
    <3>1. CASE Finish(p)
      BY <3>1, <1>e, Returns
    <3>2. CASE ~Finish(p)
      <4>1. OldKeys(orig[p].keys) /\ orig[p].keys \in SUBSET Records
        BY DEF RecordsInv, GoodFile, OldKeys, Unique, Contents
      <4>2. PICK s \in Salts : ring'[p].keys = ConvertV1(orig[p].keys, s)
        <5>1. CASE dir[Salt].fmt = "salt"
          BY <1>3, <3>2, <5>1 DEF ConvertSalt, SaltShape, Ring
        <5>2. CASE dir[Salt] = Absent
          <6>1. PICK s \in FreshSalts : ring' = [ring EXCEPT ![p] =
                    Ring(ConvertV1(orig[p].keys, s), s, FALSE, "pending")]
            BY <1>3, <3>2, <5>2 DEF ConvertSalt
          <6> QED BY <6>1 DEF FreshSalts, Ring
        <5> QED BY <1>3, <3>2, <5>1, <5>2 DEF ConvertSalt
      <4> QED BY <4>1, <4>2, ConvertedGood, KeyRecordsAssumption
    <3> QED BY <3>1, <3>2
  <2> QED BY <2>1, <2>2, OwnRecords
<1> QED BY <1>1, <1>2, <1>3

LEMMA EditRecords ==
    ASSUME TypeOK, RecordsInv, NEW p \in Procs, Edit(p)
    PROVE  RecordsInv'
<1> USE DEF TypeOK, ProcsOK
<1>r. GoodKeys(ring[p].keys) /\ ring[p].keys \in SUBSET Records /\ ring[p] \in Rings
  BY RingTypes DEF RecordsInv
<1>s. \A s \in EnsuredSalts(ring[p]) : s # NoSalt
  BY <1>r, RingTypes, KeyRecordsAssumption DEF EnsuredSalts, FreshSalts
<1>1. OthersKept(p) /\ dir' = dir /\ orig'[p] = orig[p]
  BY EditSteps DEF OthersKept, Edited, Goto
<1>2. ASSUME NEW keys, NEW s, Edited(p, keys, s) PROVE ring'[p].keys = keys
  BY <1>2 DEF Edited, Ring
<1>3. CASE EditSetName(p)
  <2>1. PICK n, row, st : \E k, others : \E s \in EnsuredSalts(ring[p]) :
            /\ ~HeldElsewhere(DropOthers(ring[p].keys, n, others, ring[p].salt, st), n, k, s)
            /\ Edited(p, SetName(DropOthers(ring[p].keys, n, others, ring[p].salt, st),
                                 n, k, s, st), s)
    BY <1>3 DEF EditSetName
  <2>2. PICK k, others, s : /\ s \in EnsuredSalts(ring[p])
                            /\ ~HeldElsewhere(DropOthers(ring[p].keys, n, others, ring[p].salt, st), n, k, s)
                            /\ Edited(p, SetName(DropOthers(ring[p].keys, n, others, ring[p].salt, st),
                                                 n, k, s, st), s)
    BY <2>1
  <2> DEFINE kept == DropOthers(ring[p].keys, n, others, ring[p].salt, st)
  <2>3. kept \subseteq ring[p].keys
    BY DEF DropOthers
  <2>4. ~HeldElsewhere(kept, n, k, s) /\ ring'[p].keys = SetName(kept, n, k, s, st)
    BY <2>2, <1>2
  <2> HIDE DEF kept
  <2>5. GoodKeys(kept) /\ kept \in SUBSET Records
    BY <1>r, <2>3, SubsetGood
  <2>6. GoodKeys(SetName(kept, n, k, s, st))
    BY <1>s, <2>2, <2>4, <2>5, SetNameGood
  <2> QED BY <1>1, <2>4, <2>6, OwnRecords
<1>4. CASE EditLearn(p)
  <2>1. CASE \E n \in Names, k \in Serials : \E s \in EnsuredSalts(ring[p]) :
            Edited(p, RecordFirstSeen(ring[p].keys, n, k, s), s)
    BY <1>1, <1>2, <1>r, <1>s, <2>1, FirstSeenGood, OwnRecords
  <2>2. CASE \E n \in Names, k \in Serials :
            Edited(p, DropStale(ring[p].keys, n, k, ring[p].salt), ring[p].salt)
    <3>1. ring'[p].keys \subseteq ring[p].keys
      BY <1>2, <2>2 DEF DropStale
    <3> QED BY <1>1, <1>r, <3>1, SubsetGood, OwnRecords
  <2> QED BY <1>4, <2>1, <2>2 DEF EditLearn
<1>5. CASE EditClear(p)
  <2>1. ring'[p].keys \subseteq ring[p].keys
    BY <1>2, <1>5 DEF EditClear, ClearKey, RemoveName
  <2> QED BY <1>1, <1>r, <2>1, SubsetGood, OwnRecords
<1> QED BY <1>3, <1>4, <1>5 DEF Edit

LEMMA InitRecords == Init => RecordsInv
<1> SUFFICES ASSUME Init PROVE RecordsInv
  OBVIOUS
<1> USE NoRecords
<1>1. \A keys \in OldFiles : GoodFile(V1(keys))
  BY KeyringStoreAssumption DEF GoodFile, OldKeys, OldNamesUnique
<1>2. GoodFile(Absent) /\ GoodFile(Newer) /\ GoodFile(Torn)
  BY DEF GoodFile
<1>3. GoodKeys({})
  BY DEF GoodKeys, Fingerprinted, Unique
<1>4. \A f \in Files : GoodFile(dir[f])
  BY <1>1, <1>2 DEF Init
<1>5. \A p \in Procs : ring[p].keys = {} /\ orig[p] = Absent
  BY DEF Init
<1> QED BY <1>2, <1>3, <1>4, <1>5 DEF RecordsInv

LEMMA NextRecords ==
    ASSUME TypeOK, SaltShape, RecordsInv, [Next]_vars
    PROVE  RecordsInv'
<1>1. CASE UNCHANGED vars
  BY <1>1 DEF vars, RecordsInv
<1>2. CASE \E p \in Procs : Step(p) \/ Failure(p) \/ Edit(p) \/ Discard(p) \/ Crash(p)
  BY <1>2, LoadRecords, EditRecords, PersistSaltCopies, FinishConversionCopies,
     WriteAtomicCopies, CallerCopies, CopiedRecords
     DEF Step, Failure, Load
<1>3. CASE ForeignSave
  <2>1. \A keys \in OldFiles : GoodFile(V1(keys))
    BY NoRecords, KeyringStoreAssumption DEF GoodFile, OldKeys, OldNamesUnique
  <2>2. GoodFile(Newer) /\ GoodFile(Torn)
    BY NoRecords DEF GoodFile
  <2>3. GoodFile(dir'[Keys]) /\ \A f \in Files \ {Keys} : dir'[f] = dir[f]
    BY <1>3, <2>1, <2>2, FileNames DEF ForeignSave, TypeOK, FilesOK
  <2> QED BY <1>3, <2>3 DEF ForeignSave, RecordsInv
<1>4. CASE LoseSalt
  <2>1. GoodFile(Absent)
    BY NoRecords DEF GoodFile
  <2>2. GoodFile(dir'[Salt]) /\ \A f \in Files \ {Salt} : dir'[f] = dir[f]
    BY <1>4, <2>1, FileNames DEF LoseSalt, Removed, TypeOK, FilesOK
  <2> QED BY <1>4, <2>2 DEF LoseSalt, RecordsInv
<1> QED BY <1>1, <1>2, <1>3, <1>4 DEF Next

LEMMA RecordsInvHolds == Spec => []RecordsInv
<1>1. SaltInv => SaltShape
  BY DEF SaltInv
<1>2. TypeOK /\ SaltShape /\ RecordsInv /\ [Next]_vars => RecordsInv'
  BY NextRecords
<1> QED BY <1>1, <1>2, InitRecords, TypeCorrect, SaltInvHolds, PTL DEF Spec

\* convert_v1, set_name and record_first_seen are the only sources of a record
\* that names a key, and each fingerprints the serial under a salt: whatever
\* fails, and however the processes interleave, no version 2 file, nor the temp
\* file it is written through, holds a plain serial.
THEOREM NoSerialStored == Spec => []NoPlainSerials
<1>1. RecordsInv => NoPlainSerials
  BY FileNames DEF RecordsInv, GoodFile, GoodKeys, NoPlainSerials
<1> QED BY <1>1, RecordsInvHolds, PTL

\* Starting from version 1 files with unique names, set_name's refusal, the
\* records it replaces and record_first_seen's check keep the names of keys.json
\* unique, and the names kept on this computer one per key, through any edits,
\* conversions, lost salts, failures and interleavings.
THEOREM NamesStayUnique ==
    ASSUME OldNamesUnique
    PROVE  Spec => []NamesUnique
<1>1. RecordsInv => NamesUnique
  BY FileNames DEF RecordsInv, GoodFile, GoodKeys, OldKeys, NamesUnique, Unique
<1> QED BY <1>1, RecordsInvHolds, PTL

----------------------------------------------------------------------------
(* The shared temp file.                                                   *)
(*                                                                         *)
(* A rename can put another process's half-written file in place.  As long *)
(* as no call fails and nobody dies or meddles, somebody still holds such  *)
(* a file open and is about to complete it.                                *)

TornFilesOpen == \A f \in {Keys, Tmp} : dir[f].fmt = "torn" => writer[f] # {}

\* keys.json was unreadable from the start, so no load ever succeeded.
NeverStarted == /\ dir[Keys].fmt = "torn" /\ dir[Salt] = Absent
                /\ \A p \in Procs : pc[p] = "idle"

TornInv == crashes = 0 /\ errors = 0 /\ foreign = 0 => TornFilesOpen \/ NeverStarted

\* An action that leaves keys.json and the temp file alone.
OtherFiles == \A f \in {Keys, Tmp} : dir'[f] = dir[f] /\ writer'[f] = writer[f]

LEMMA OtherFilesTorn == TornFilesOpen /\ OtherFiles => TornFilesOpen'
BY DEF TornFilesOpen, OtherFiles

LEMMA LoadTorn ==
    ASSUME TypeOK, NEW p \in Procs, Load(p)
    PROVE  OtherFiles
BY FileNames, DistinctFiles
   DEF Load, LoadRead, LoadRemoveBackup, LoadSalt, ConvertSalt, Removed, OtherFiles, TypeOK, FilesOK

LEMMA PersistSaltTorn ==
    ASSUME TypeOK, WritersInv, NEW p \in Procs, errors' = 0, PersistSalt(p) \/ SaltError(p)
    PROVE  OtherFiles
<1> USE FileNames, DistinctFiles, NoErrorYet DEF TypeOK, FilesOK, OtherFiles
<1>1. CASE SaltCreate(p)
  BY <1>1 DEF SaltCreate, Created
<1>2. CASE SaltWrite(p)
  BY <1>2 DEF SaltWrite, Written, WritersInv
<1>3. CASE SaltSync(p)
  BY <1>3 DEF SaltSync, Closed, WritersInv
<1>4. CASE SaltUndo(p)
  BY <1>4 DEF SaltUndo, Removed
<1>5. CASE SaltCheck(p)
  BY <1>5 DEF SaltCheck
<1>6. CASE SaltError(p)
  BY <1>6 DEF SaltError
<1> QED BY <1>1, <1>2, <1>3, <1>4, <1>5, <1>6 DEF PersistSalt

LEMMA FinishConversionTorn ==
    ASSUME TypeOK, WritersInv, NEW p \in Procs, errors' = 0, FinishConversion(p) \/ BackupError(p)
    PROVE  OtherFiles
<1> USE FileNames, DistinctFiles, NoErrorYet DEF TypeOK, FilesOK, OtherFiles
<1>1. CASE BackupRemove(p)
  BY <1>1 DEF BackupRemove, Removed
<1>2. CASE BackupCreate(p)
  BY <1>2 DEF BackupCreate, Created
<1>3. CASE BackupWrite(p)
  BY <1>3 DEF BackupWrite, Written, Closed, WritersInv
<1>4. CASE UndoBackup(p)
  BY <1>4 DEF UndoBackup, Removed
<1>5. CASE Verify(p)
  BY <1>5 DEF Verify
<1>6. CASE BackupDrop(p)
  BY <1>6 DEF BackupDrop, Removed
<1>7. CASE BackupError(p)
  BY <1>7 DEF BackupError
<1> QED BY <1>1, <1>2, <1>3, <1>4, <1>5, <1>6, <1>7 DEF FinishConversion

LEMMA WriteAtomicTorn ==
    ASSUME TypeOK, WritersInv, TornFilesOpen, NEW p \in Procs, errors' = 0,
           WriteAtomic(p) \/ TmpError(p) \/ DirSyncError(p)
    PROVE  TornFilesOpen'
<1> USE FileNames, DistinctFiles, NoRecords, NoErrorYet DEF TypeOK, FilesOK
<1>1. CASE TmpRemove(p)
  BY <1>1 DEF TmpRemove, Removed, TornFilesOpen
<1>2. CASE TmpCreate(p)
  BY <1>2 DEF TmpCreate, Created, TornFilesOpen
<1>3. CASE TmpWrite(p)
  <2> SUFFICES ASSUME NEW f \in {Keys, Tmp}, dir'[f].fmt = "torn" PROVE writer'[f] # {}
    BY DEF TornFilesOpen
  <2>1. f \in Files
    OBVIOUS
  <2>2. p \notin writer[f] /\ dir'[f] = dir[f]
    BY <1>3, <2>1 DEF TmpWrite, Written
  <2>3. writer'[f] = writer[f]
    BY <1>3, <2>1, <2>2 DEF TmpWrite, Closed
  <2> QED BY <2>2, <2>3 DEF TornFilesOpen
<1>4. CASE Rename(p)
  BY <1>4 DEF Rename, TornFilesOpen
<1>5. CASE DirSync(p)
  BY <1>5 DEF DirSync, TornFilesOpen
<1>6. CASE TmpError(p)
  BY <1>6 DEF TmpError
<1>7. CASE DirSyncError(p)
  BY <1>7 DEF DirSyncError
<1> QED BY <1>1, <1>2, <1>3, <1>4, <1>5, <1>6, <1>7 DEF WriteAtomic

\* Where no load has succeeded nothing can run.
LEMMA NotStarted ==
    ASSUME NEW p \in Procs, NeverStarted
    PROVE  ~(Step(p) \/ Failure(p) \/ Edit(p) \/ Discard(p) \/ Crash(p))
<1>1. pc[p] = "idle" /\ dir[Keys].fmt = "torn"
  BY DEF NeverStarted
<1>2. ~LoadRead(p)
  BY <1>1, NoRecords DEF LoadRead
<1>3. ~LoadRemoveBackup(p) /\ ~LoadSalt(p) /\ ~ConvertSalt(p) /\ ~SaveCheck(p)
  BY <1>1 DEF LoadRemoveBackup, LoadSalt, ConvertSalt, SaveCheck
<1>4. ~PersistSalt(p)
  BY <1>1 DEF PersistSalt, SaltCreate, SaltWrite, SaltSync, SaltUndo, SaltCheck
<1>5. ~FinishConversion(p)
  BY <1>1 DEF FinishConversion, BackupRemove, BackupCreate, BackupWrite, UndoBackup, Verify, BackupDrop
<1>6. ~WriteAtomic(p)
  BY <1>1 DEF WriteAtomic, TmpRemove, TmpCreate, TmpWrite, Rename, DirSync
<1>7. ~Failure(p)
  BY <1>1 DEF Failure, SaltError, BackupError, TmpError, DirSyncError
<1>8. ~Edit(p) /\ ~Discard(p) /\ ~Crash(p)
  BY <1>1 DEF Edit, Discard, Crash
<1> QED BY <1>2, <1>3, <1>4, <1>5, <1>6, <1>7, <1>8 DEF Step, Load

\* The counters only grow.
LEMMA CountersGrow ==
    ASSUME TypeOK, NEW p \in Procs, Step(p) \/ Failure(p) \/ Edit(p) \/ Discard(p) \/ Crash(p)
    PROVE  /\ foreign' = foreign
           /\ crashes' = 0 => crashes = 0
           /\ errors' = 0 => errors = 0
<1>1. /\ foreign' = foreign
      /\ errors' \in {errors, errors + 1}
      /\ crashes' \in {crashes, crashes + 1}
  BY DEF Step, Failure, Load, PersistSalt, FinishConversion, WriteAtomic, Edit, Discard,
         Crash, SaveCheck, LoadRead, LoadRemoveBackup, LoadSalt, ConvertSalt,
         SaltCreate, SaltWrite, SaltSync, SaltUndo, SaltCheck, SaltError,
         BackupRemove, BackupCreate, BackupWrite, UndoBackup, Verify, BackupDrop,
         BackupError, TmpRemove, TmpCreate, TmpWrite, Rename, DirSync, TmpError,
         DirSyncError, Ok, Error, UnchangedEnv
<1> QED BY <1>1 DEF TypeOK, BoundsOK

LEMMA NextTorn ==
    ASSUME TypeOK, WritersInv, TornInv, [Next]_vars
    PROVE  TornInv'
<1>1. CASE UNCHANGED vars
  BY <1>1 DEF vars, TornInv, TornFilesOpen, NeverStarted
<1>2. ASSUME NEW p \in Procs, Step(p) \/ Failure(p) \/ Edit(p) \/ Discard(p) \/ Crash(p)
      PROVE  TornInv'
  <2> SUFFICES ASSUME crashes' = 0, errors' = 0, foreign' = 0 PROVE TornFilesOpen'
    BY DEF TornInv
  <2>1. TornFilesOpen
    BY <1>2, CountersGrow, NotStarted DEF TornInv
  <2>2. ~Crash(p)
    BY DEF Crash, TypeOK, BoundsOK
  <2>3. Edit(p) \/ Discard(p) \/ SaveCheck(p) => OtherFiles
    BY EditSteps DEF Discard, SaveCheck, OtherFiles
  <2> QED
    BY <1>2, <2>1, <2>2, <2>3, OtherFilesTorn, LoadTorn, PersistSaltTorn, FinishConversionTorn,
       WriteAtomicTorn
       DEF Step, Failure
<1>3. CASE ForeignSave
  BY <1>3 DEF ForeignSave, TornInv, TypeOK, BoundsOK
<1>4. CASE LoseSalt
  <2>1. OtherFiles /\ UNCHANGED <<crashes, errors, foreign>> /\ ~NeverStarted
    BY <1>4, FileNames, DistinctFiles, NoRecords
       DEF LoseSalt, Removed, OtherFiles, NeverStarted, TypeOK, FilesOK
  <2> QED BY <2>1, OtherFilesTorn DEF TornInv
<1> QED BY <1>1, <1>2, <1>3, <1>4 DEF Next

\* Without deaths, failed calls and foreign edits, and for any number of saves
\* that share the one temp path, keys.json is a whole file whenever nobody is at
\* work: a half-written file that a rename put in place is completed in place by
\* the process that holds it open.
THEOREM QuietRegistryReadable == Spec => []QuiescentReadable
<1>1. Init => TornInv
  BY NoRecords, FileNames, DistinctFiles DEF Init, TornInv, TornFilesOpen, NeverStarted
<1>2. TypeOK /\ SaltInv /\ TornInv /\ [Next]_vars => TornInv'
  BY NextTorn DEF SaltInv
<1>3. TypeOK /\ SaltInv /\ TornInv => QuiescentReadable
  BY FileNames DEF SaltInv, WritersInv, TornInv, TornFilesOpen, NeverStarted, QuiescentReadable,
                   TypeOK, FilesOK
<1> QED BY <1>1, <1>2, <1>3, TypeCorrect, SaltInvHolds, PTL DEF Spec
=============================================================================
