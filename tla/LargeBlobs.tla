------------------------------ MODULE LargeBlobs ------------------------------
(***************************************************************************)
(* Changing the large-blob array of one key                                *)
(* (crates/keyroost-ctap/src/large_blobs.rs, device_label.rs), as the app  *)
(* (crates/keyroost/src/main.rs) and keyroostctl do it, while the app's    *)
(* scan thread reads the key's name (crates/keyroost-resolve/src/          *)
(* device.rs) and other programs use the key.                              *)
(*                                                                         *)
(* A process runs one operation at a time; every command to the key is a   *)
(* step of its own, so the processes interleave between any two commands.  *)
(* The array is read and written in fragments of Frag cells.               *)
(*                                                                         *)
(* The key is external: it answers reads, keeps the fragments of one write *)
(* until they are complete and takes the array over only then, forgets     *)
(* them at any time, and honours only the PIN token it issued last.        *)
(***************************************************************************)
EXTENDS BlobArray

CONSTANTS
    Procs,       \* the processes that change the array
    Apps,        \* those that are the app; the others are runs of keyroostctl
    Scanners,    \* the apps whose scan thread runs
    Frag,        \* max_fragment_length, in cells
    MaxCells,    \* maxSerializedLargeBlobArray, in cells
    Stored,      \* bound: the arrays the key may hold at first
    MaxOps,      \* bound: operations started
    MaxForeign   \* bound: tokens and writes of other programs

ASSUME LargeBlobsAssumption ==
    /\ Apps \subseteq Procs /\ Scanners \subseteq Apps /\ NoItem \notin Procs
    /\ Frag \in Nat \ {0} /\ MaxCells \in Nat \ {0} 
    /\ Stored \subseteq Arrays /\ MaxOps \in Nat /\ MaxForeign \in Nat

VARIABLES
    array,    \* the array on the key
    token,    \* the process whose token the key honours, or NoItem
    pending,  \* the cells of a write the key has so far, and its length
    foreign,  \* tokens and writes of other programs so far
    begun,    \* operations started
    work,     \* process -> the operation under way
    seen,     \* process -> ghost: the arrays the key had since its read began
    shown,    \* app -> the array its storage tab lists (<<NoItem>>: none)
    scan,     \* process -> the scan thread's read of the key's name
    cache     \* process -> LABEL_CACHE

key == <<array, token, pending, foreign>>
names == <<scan, cache>>
vars == <<key, begun, work, seen, shown, names>>

----------------------------------------------------------------------------
(* Operations.                                                             *)

\* kind  what is asked for; "keep" is a clear that keeps the key's name
\* item  the new note or name (NoItem: remove the name), the app's entry to delete
\* at    the entry's index where the operation goes by index
\* was   the name the app's dialog showed
Op(kind, item, at, was) == [kind |-> kind, item |-> item, at |-> at, was |-> was]
Load == Op("load", NoItem, 0, NoItem)

\* A process:
\*   pc    its next command to the key: a read ("show", "plan", "check", "back"),
\*         "token", "write", or none ("written", "failed")
\*   op    what it was asked for
\*   data  cells of the read under way
\*   base  the array its plan was made from; before, the one keyroostctl showed
\*   sent  cells of its write that the key took
At(step, o, b) == [pc |-> step, op |-> o, data |-> <<>>, base |-> b, sent |-> 0]
Idle == At("idle", Load, <<>>)
Failed(p) == At("failed", work[p].op, <<>>)
pc(p) == work[p].pc
op(p) == work[p].op
data(p) == work[p].data
sent(p) == work[p].sent
Kinds == {"load", "add", "edit", "delete", "clear", "keep", "name"}
ValidNames == Names \ BadNames

\* The app re-reads the array once it has the token, and so does every change of
\* the name (large_blob_write_token, apply_label_plan); the other operations of
\* keyroostctl write without.
Rechecks(p) == p \in Apps \/ op(p).kind = "name"

\* The entry to delete: keyroostctl goes by index, the app looks for the first
\* that is equal to the one picked.
ToDelete(p, a) ==
    IF p \in Apps THEN Nth({i \in 1..Len(a) : a[i] = op(p).item}, 1)
                  ELSE ItemIndex(a, op(p).at)

\* The array p wants instead of a.
Changed(p, a) ==
    LET o == op(p)
    IN  CASE o.kind = "add"    -> WithTextNote(a, o.item)
          [] o.kind = "edit"   -> WithReplacedNote(a, o.at, o.item)
          [] o.kind = "delete" -> WithoutItem(a, ToDelete(p, a))
          [] o.kind = "keep"   -> OnlyLabel(a)
          [] o.kind = "name"   -> WithLabel(a, o.item)
          [] OTHER             -> <<>>

\* Mutant: the app trusts that nothing changed since it listed the array.
AsShownByCtl(p, a) ==
    p \notin Apps /\ op(p).kind \in {"delete", "clear", "keep"} => a = work[p].base

\* A destructive change is of what the person saw: the app clears the array it
\* lists and replaces the name its dialog showed; keyroostctl deletes from and
\* clears the array it showed before it asked.
AsShown(p, a) ==
    LET o == op(p)
    IN  IF p \in Apps
        THEN /\ o.kind \in {"clear", "keep"} => a = shown[p]
             /\ o.kind = "name" => ReadableLabel(a) = o.was
        ELSE o.kind \in {"delete", "clear", "keep"} => a = work[p].base

\* plan_label_change: the array can be rewritten, and has room for the name.
Nameable(p, a) == ~Trailing(a) /\ Len(Cells(Changed(p, a))) <= MaxCells

\* What is known before the PIN is used to be impossible, or unneeded, is refused.
\* A clear writes the empty array and never looks at trailing bytes.
Plannable(p, a) ==
    LET o == op(p)
    IN  /\ AsShown(p, a)
        /\ o.kind \in {"add", "edit", "delete"} => ~Trailing(a)
        /\ o.kind = "keep" => ~Trailing(a) \/ Label(a) = NoItem
        /\ o.kind = "edit" => HasEntry(a, o.at) /\ IsNote(EntryAt(a, o.at))
        /\ o.kind = "delete" /\ p \in Apps => \E k \in EntryPositions(a) : a[k] = o.item
        /\ o.kind = "delete" /\ p \notin Apps => HasEntry(a, o.at)
        /\ o.kind = "name" => /\ Nameable(p, a)
                              /\ (IF p \in Apps THEN ReadableLabel(a) ELSE Label(a)) # o.item

----------------------------------------------------------------------------
(* Reading in fragments, until one is shorter than asked for.              *)

Reading == {"show", "plan", "check", "back"}

FragmentAt(s, from) == SubSeq(s, from + 1, IF from + Frag < Len(s) THEN from + Frag ELSE Len(s))
MoreAfter(s, from) == from + Frag <= Len(s)
LastFragment(s, from) == from <= Len(s) /\ ~MoreAfter(s, from)

\* p's next step is that of `state`, a read from the start if it is one.
Goes(p, state) ==
    /\ work' = [work EXCEPT ![p] = state]
    /\ seen' = [seen EXCEPT ![p] = IF state.pc \in Reading THEN {array} ELSE {}]

\* All that p has read once it reads the next fragment; it is kept only with a
\* checksum that fits.
AllRead(p) == data(p) \o FragmentAt(Cells(array), Len(data(p)))
ReadEnds(p, at) == pc(p) = at /\ LastFragment(Cells(array), Len(data(p)))
Accepted(p) == ChecksumHolds(AllRead(p))
ReadArray(p) == CellsIn(AllRead(p))

\* p reads a full fragment, so there may be more.
ReadMore(p) ==
    /\ pc(p) \in Reading /\ MoreAfter(Cells(array), Len(data(p)))
    /\ work' = [work EXCEPT ![p].data = AllRead(p)]
    /\ UNCHANGED <<key, seen, shown, names, begun>>

----------------------------------------------------------------------------
(* The names read from the key: which name a read gave matters to nothing  *)
(* here, only whether it may be used again.  The generation of LABEL_CACHE *)
(* is kept as the answer to the one question asked of it: whether a forget *)
(* ran since the read began (fresh).  old is a ghost: this process changed *)
(* the array since the read began.                                         *)

NoScan == [on |-> FALSE, fresh |-> FALSE, old |-> FALSE]
NoLabel == [on |-> FALSE, old |-> FALSE]

\* Mutant: the cache is emptied, the generation stays.
ForgetCacheOnly(p) ==
    /\ cache' = [cache EXCEPT ![p] = NoLabel]
    /\ UNCHANGED scan

ForgetKeyNames(p) ==
    /\ scan' = [scan EXCEPT ![p].fresh = FALSE]
    /\ cache' = [cache EXCEPT ![p] = NoLabel]

\* A name still in the cache is used again without a read.
ScanStart(p) ==
    /\ ~scan[p].on /\ ~cache[p].on
    /\ scan' = [scan EXCEPT ![p] = [on |-> TRUE, fresh |-> TRUE, old |-> FALSE]]
    /\ UNCHANGED <<key, work, seen, shown, cache, begun>>

\* cache_label: the outcome, a failed read too, is kept unless a forget ran.
ScanEnd(p) ==
    /\ scan[p].on
    /\ scan' = [scan EXCEPT ![p] = NoScan]
    /\ cache' = IF scan[p].fresh
                THEN [cache EXCEPT ![p] = [on |-> TRUE, old |-> scan[p].old]]
                ELSE cache
    /\ UNCHANGED <<key, work, seen, shown, begun>>

\* LABEL_CACHE_TTL passes.
LabelExpires(p) ==
    /\ cache[p].on
    /\ cache' = [cache EXCEPT ![p] = NoLabel]
    /\ UNCHANGED <<key, work, seen, shown, scan, begun>>

----------------------------------------------------------------------------
(* Starting an operation.                                                  *)

Begin(p, o, step) ==
    /\ pc(p) = "idle"
    /\ begun < MaxOps /\ begun' = begun + 1
    /\ Goes(p, At(step, o, <<>>))
    /\ UNCHANGED <<key, shown, names>>

\* The app's storage tab lists an array.
IsShown(p) == shown[p] # <<NoItem>>

AppStarts(p) ==
    /\ p \in Apps
    /\ \/ Begin(p, Load, "show")
       \/ \E note \in Notes : Begin(p, Op("add", note, 0, NoItem), "plan")
       \/ \E name \in ValidNames \cup {NoItem}, was \in ValidNames \cup {NoItem} :
             Begin(p, Op("name", name, 0, was), "plan")
       \/ /\ IsShown(p)
          /\ \/ \E i \in 1..Len(shown[p]), note \in Notes :
                   /\ HasEntry(shown[p], i) /\ IsNote(EntryAt(shown[p], i))
                   /\ Begin(p, Op("edit", note, i, NoItem), "plan")
             \/ \E i \in 1..Len(shown[p]) :
                   /\ HasEntry(shown[p], i)
                   /\ Begin(p, Op("delete", EntryAt(shown[p], i), 0, NoItem), "plan")
             \/ \E kind \in {"clear", "keep"} : Begin(p, Op(kind, NoItem, 0, NoItem), "plan")

CtlStarts(p) ==
    /\ p \notin Apps
    /\ \/ \E note \in Notes : Begin(p, Op("add", note, 0, NoItem), "plan")
       \/ \E note \in Notes, i \in 1..(MaxCells - 1) : Begin(p, Op("edit", note, i, NoItem), "plan")
       \/ \E name \in ValidNames \cup {NoItem} : Begin(p, Op("name", name, 0, NoItem), "plan")
       \/ \E i \in 1..(MaxCells - 1) : Begin(p, Op("delete", NoItem, i, NoItem), "show")
       \/ \E kind \in {"clear", "keep"} : Begin(p, Op(kind, NoItem, 0, NoItem), "show")

\* The read that is only for the person to see: the app's tab is done, while
\* keyroostctl asks, takes the PIN and opens the key again.
ShowRead(p) ==
    /\ ReadEnds(p, "show")
    /\ shown' = IF Accepted(p) /\ p \in Apps THEN [shown EXCEPT ![p] = ReadArray(p)] ELSE shown
    /\ Goes(p, IF Accepted(p) /\ p \notin Apps THEN At("plan", op(p), ReadArray(p)) ELSE Idle)
    /\ UNCHANGED <<key, names, begun>>

----------------------------------------------------------------------------
(* Planning, the token, and the second read.                               *)

\* The app reads a readable name other than the dialog's (Stale), or the one asked
\* for (AlreadySo).
NamePlanned(p) ==
    /\ p \in Apps /\ op(p).kind = "name"
    /\ Accepted(p) /\ Nameable(p, ReadArray(p))
Stale(p) == NamePlanned(p) /\ ReadableLabel(ReadArray(p)) # op(p).was
AlreadySo(p) ==
    NamePlanned(p) /\ ~Stale(p) /\ ReadableLabel(ReadArray(p)) = op(p).item

\* A name other than the dialog's makes the app forget the names it read; one that
\* is already so counts as written, and the tab's copy is dropped.
PlanRead(p) ==
    /\ ReadEnds(p, "plan")
    /\ Goes(p, IF Accepted(p) /\ Plannable(p, ReadArray(p))
               THEN At("token", op(p), ReadArray(p)) ELSE Idle)
    /\ IF Stale(p) THEN ForgetKeyNames(p) ELSE UNCHANGED names
    /\ shown' = IF AlreadySo(p) THEN [shown EXCEPT ![p] = <<NoItem>>] ELSE shown
    /\ UNCHANGED <<key, begun>>

\* get_pin_uv_auth_token: the key honours no earlier token any more.  Names are
\* forgotten before the write, and before the second read when that is part of
\* apply_label_plan.
GetToken(p) ==
    /\ pc(p) = "token"
    /\ token' = p
    /\ Goes(p, At(IF Rechecks(p) THEN "check" ELSE "write", op(p), work[p].base))
    /\ IF p \in Apps /\ op(p).kind # "name" THEN UNCHANGED names ELSE ForgetKeyNames(p)
    /\ UNCHANGED <<array, pending, foreign, shown, begun>>

\* Mutant: what the second read gives is not compared with the plan's array.
CheckReadable(p) ==
    /\ ReadEnds(p, "check") /\ Accepted(p)
    /\ Goes(p, At("write", op(p), work[p].base))
    /\ IF op(p).kind = "name" THEN UNCHANGED names ELSE ForgetKeyNames(p)
    /\ UNCHANGED <<key, shown, begun>>

\* Written only over the array the plan was made from.
CheckRead(p) ==
    /\ ReadEnds(p, "check")
    /\ IF Accepted(p) /\ ReadArray(p) = work[p].base
       THEN /\ Goes(p, At("write", op(p), work[p].base))
            /\ IF op(p).kind = "name" THEN UNCHANGED names ELSE ForgetKeyNames(p)
       ELSE /\ Goes(p, IF op(p).kind = "name" THEN Failed(p) ELSE Idle)
            /\ UNCHANGED names
    /\ UNCHANGED <<key, shown, begun>>

----------------------------------------------------------------------------
(* Writing in fragments.                                                   *)

NoWrite == [cells |-> <<>>, length |-> 0]
Output(p) == Cells(Changed(p, work[p].base))

\* What the key has when it takes p's next fragment: the first one starts over
\* and declares the length, the others must follow on.
KeyHas(p) ==
    [cells  |-> (IF sent(p) = 0 THEN <<>> ELSE pending.cells) \o FragmentAt(Output(p), sent(p)),
     length |-> IF sent(p) = 0 THEN Len(Output(p)) ELSE pending.length]
KeyTakes(p) ==
    /\ token = p
    /\ IF sent(p) = 0 THEN Len(Output(p)) <= MaxCells ELSE Len(pending.cells) = sent(p)

\* Everyone who reads meanwhile sees the new array too.
ArrayBecomes(a) ==
    /\ array' = a
    /\ seen' = [q \in Procs |-> IF pc(q) \in Reading THEN seen[q] \cup {a} ELSE seen[q]]

WritePart(p) ==
    /\ pc(p) = "write" /\ KeyTakes(p) /\ Len(KeyHas(p).cells) < KeyHas(p).length
    /\ pending' = KeyHas(p)
    /\ work' = [work EXCEPT ![p].sent = @ + Len(FragmentAt(Output(p), @))]
    /\ UNCHANGED <<array, token, foreign, seen, shown, names, begun>>

\* The last fragment: the key takes the array over.  Its answer may be lost, and
\* then the write failed for the process.
WriteLast(p) ==
    /\ pc(p) = "write" /\ KeyTakes(p) /\ Len(KeyHas(p).cells) = KeyHas(p).length
    /\ ArrayBecomes(CellsIn(KeyHas(p).cells))
    /\ pending' = NoWrite
    /\ \E end \in {"written", "failed"} : work' = [work EXCEPT ![p] = At(end, op(p), <<>>)]
    /\ scan' = [scan EXCEPT ![p].old = @ \/ scan[p].on]
    /\ cache' = [cache EXCEPT ![p].old = @ \/ cache[p].on]
    /\ UNCHANGED <<token, foreign, shown, begun>>

WriteRefused(p) ==
    /\ pc(p) = "write" /\ ~KeyTakes(p)
    /\ Goes(p, Failed(p))
    /\ UNCHANGED <<key, shown, names, begun>>

\* The second forget of with_key_names_forgotten; the app then reads back what
\* the key made of it.
AfterWrite(p) ==
    /\ pc(p) \in {"written", "failed"}
    /\ ForgetKeyNames(p)
    /\ Goes(p, IF pc(p) = "written" /\ p \in Apps THEN At("back", op(p), <<>>) ELSE Idle)
    /\ UNCHANGED <<key, shown, begun>>

\* After a new name the tab's copy is stale and dropped, unless the key did not
\* keep the name.
BackRead(p) ==
    /\ ReadEnds(p, "back")
    /\ shown' = IF ~Accepted(p) \/ (op(p).kind = "name" /\ Label(ReadArray(p)) # op(p).item)
                THEN shown
                ELSE [shown EXCEPT ![p] = IF op(p).kind = "name" THEN <<NoItem>> ELSE ReadArray(p)]
    /\ Goes(p, Idle)
    /\ UNCHANGED <<key, names, begun>>

\* Any call fails, the key is gone, the PIN is wrong, the person says no.
Fails(p) ==
    /\ pc(p) \notin {"idle", "written", "failed"}
    /\ Goes(p, IF pc(p) = "write" \/ (pc(p) = "check" /\ op(p).kind = "name")
               THEN Failed(p) ELSE Idle)
    /\ UNCHANGED <<key, shown, names, begun>>

----------------------------------------------------------------------------
(* The key and other programs.                                             *)

\* The key gives an unfinished write up: its 30 seconds passed, or another
\* command came.
KeyForgetsWrite ==
    /\ pending # NoWrite
    /\ pending' = NoWrite
    /\ UNCHANGED <<array, token, foreign, work, seen, shown, names, begun>>

\* Another program gets a token, for whatever use.
ForeignToken ==
    /\ token # NoItem
    /\ foreign < MaxForeign /\ foreign' = foreign + 1
    /\ token' = NoItem
    /\ UNCHANGED <<array, pending, work, seen, shown, names, begun>>

\* Another program adds an element, takes one away, or leaves bytes at the end.
ForeignWrite ==
    /\ foreign < MaxForeign
    /\ foreign' = foreign + 1
    /\ \/ \E e \in Opaque \cup Names \cup Skipped \cup {Junk} :
             ~Trailing(array) /\ Len(array) + 1 < MaxCells /\ ArrayBecomes(Append(array, e))
       \/ \E i \in 1..Len(array) :
             ArrayBecomes(WithoutItem(array, i))
    /\ token' = NoItem
    /\ pending' = NoWrite
    /\ UNCHANGED <<work, shown, names, begun>>

----------------------------------------------------------------------------
Init ==
    /\ array \in Stored /\ begun = 0 /\ token = NoItem /\ pending = NoWrite /\ foreign = 0
    /\ work = [p \in Procs |-> Idle]
    /\ seen = [p \in Procs |-> {}]
    \* the storage tab was not opened yet, or read the array before
    /\ shown \in {[p \in Apps |-> <<NoItem>>], [p \in Apps |-> array]}
    /\ scan = [p \in Procs |-> NoScan]
    /\ cache = [p \in Procs |-> NoLabel]

Work(p) ==
    \/ ReadMore(p) \/ ShowRead(p) \/ PlanRead(p) \/ GetToken(p) \/ CheckRead(p)
    \/ WritePart(p) \/ WriteLast(p) \/ WriteRefused(p) \/ AfterWrite(p) \/ BackRead(p)
    \/ Fails(p)
Scan(p) == ScanStart(p) \/ ScanEnd(p) \/ LabelExpires(p)

Next ==
    \/ \E p \in Procs : AppStarts(p) \/ CtlStarts(p) \/ Work(p)
    \/ \E p \in Scanners : Scan(p)
    \/ KeyForgetsWrite \/ ForeignToken \/ ForeignWrite

Spec == Init /\ [][Next]_vars

----------------------------------------------------------------------------
(* Properties.                                                             *)

Steps == Reading \cup {"idle", "token", "write", "written", "failed"}
OpType == [kind : Kinds, item : Elements \cup {NoItem}, at : Nat, was : Names \cup {NoItem}]
WorkType == [pc : Steps, op : OpType, data : Seq(CellValues), base : Arrays, sent : Nat]

\* The type invariant of the key, the operations, the tab and the name cache.
TypeOK ==
    /\ array \in Arrays /\ token \in Procs \cup {NoItem}
    /\ foreign \in 0..MaxForeign /\ begun \in 0..MaxOps
    /\ pending \in [cells : Seq(CellValues), length : Nat]
    /\ work \in [Procs -> WorkType]
    /\ scan \in [Procs -> [on : BOOLEAN, fresh : BOOLEAN, old : BOOLEAN]]
    /\ cache \in [Procs -> [on : BOOLEAN, old : BOOLEAN]]
    /\ shown \in [Apps -> Arrays \cup {<<NoItem>>}]

\* p's write is what changes the array in this step.
Writes(p) == pc(p) = "write" /\ work'[p].pc \in {"written", "failed"} /\ array' # array

\* device_label.rs, apply_label_plan, and main.rs, large_blob_write_token: a write
\* that re-reads the array once it has the token makes its change to the array the
\* key has at that moment, so what another program wrote in between is never lost.
WritesOnCurrent ==
    [][\A p \in Procs : Writes(p) /\ Rechecks(p) => array' = Changed(p, array)]_vars

\* main.rs, delete_large_blob_entry, clear_large_blob_storage, write_key_name: what
\* the app destroys is what the person saw when they asked: the entry picked, the
\* array listed, the name in the dialog (or one that cannot be shown).
DestroysOnlyShown ==
    [][\A p \in Apps :
         Writes(p) =>
           /\ op(p).kind = "delete" =>
                \A i \in 1..Len(array) :
                   (\A j \in 1..Len(array') : array'[j] # array[i]) => array[i] = op(p).item
           /\ op(p).kind \in {"clear", "keep"} => array = shown[p]
           /\ op(p).kind = "name" => ReadableLabel(array) = op(p).was]_vars

\* large_blobs.rs, read: an array put together from fragments is one that the key
\* had while it was read, whatever was written between the fragments.
ReadsWhole ==
    \A p \in Procs :
      pc(p) \in Reading /\ LastFragment(Cells(array), Len(data(p))) /\ Accepted(p)
        => ReadArray(p) \in seen[p]

\* device.rs, with_key_names_forgotten: once a write is over, no name whose read
\* began before it is in the cache for a scan to use.
NoStaleName == \A p \in Apps : cache[p].on /\ cache[p].old => pc(p) \in {"written", "failed"}
=============================================================================
