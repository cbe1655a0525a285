# keyroost in TLA+

keyroost manages hardware security keys from a command line (`keyroostctl`) and a
desktop app (`keyroost`). This directory holds TLA+ models of the parts of it where
time, failure and concurrency matter, the TLC configurations that check them on small
instances, and theorems about them that TLAPS checks for every value of the constants.
`PROJECT.json` maps each definition to the source lines it models and lists the runs,
the findings, the hazards and the theorems.

## The system

| Component | State | Operations | Talks to | What is hard | What makes it correct |
|---|---|---|---|---|---|
| Key-name registry, `keyroost-keyring` | `keys.json`, its temp file and its version 1 backup; a `Keyring` in memory | load, convert, edit, save | the app, its scan thread and the CLI, each a process or thread with no lock between them | a death between two system calls, a call that fails halfway, another process in between, a file of another version | names are never lost or doubled, the file is always readable, unreadable files stay untouched, plain serials leave the disk |
| Fingerprint salt, `fingerprint.rs` | `keys.salt` | create, write, sync, undo, reload | registry | two first runs, a failed sync, a lost file | every fingerprint on disk is reproducible from the salt on disk |
| CTAP HID transport, `keyroost-ctap/hid.rs` | one channel per open, the call under way, the cancel flag | open, transact, busy retry, cancel | the key; other programs see and cause the same reports | foreign frames, lost reports, a key that is busy, slow, late or silent | a call gets its own whole answer or an error, ends, and makes the key act once |
| GUI device state and worker, `keyroost/main.rs` | device list, selection, panes, one background job, armed reset | clicks, hotplug, scans, job completions, idle lock | worker thread, hotplug watchers, transports | a completion that arrives after the selection, the session or the key changed | nothing of one key reaches another key or its pane; no late answer undoes a lock; a reset needs the replug; the list and the info come |
| Device discovery, `keyroost-resolve` | scan rows, cache of key names | merge readers and HID paths, match selectors, name rows, forget names around a write | keyring, transports, large blobs | a name read before a write and cached after it, keys without a serial | a cached name is not older than the last write |
| Large blobs and key names, `keyroost-ctap/large_blobs.rs`, `device_label.rs` | the key's array, PIN token, the list the app shows | read, add, edit, delete, clear, write or remove the name, in fragments | CTAP HID, the scan thread, other programs on the key | read-modify-write of a shared array, a write of which some fragments arrive, an index into a list that is old | entries of others survive, what is destroyed is what was shown |
| Import, `keyroost-import`, `transport/import.rs`, both front ends | file, plan, per-entry outcome, unlocking | read, plan, ask, read again, write, report | OATH, Token2 OTP, Molto2 | the key changes between preview and write, a refusal or a lost answer between two writes, a key that forgets its unlocking | the report is what happened; no listed code is lost unasked; a given secret costs one wrong try at most; it ends |
| PIV, `transport/piv.rs`, `piv_import.rs`, the app's pane | the card's keys, certificates and counters; session state kept between jobs | status, PIN and PUK, generate, import, certificate, move, delete, reset | PC/SC, other programs between jobs | caches that must follow every write, a kept state after a replug, a PKCS#12 import that stops at any step | the caches are the card's, the import reports what the slot holds, a certificate names the slot's key |
| CTAP2 commands: ClientPIN, credentials, config, enrollment | PIN token, enrollment under way | one exchange each, the capture loop | CTAP HID / PC/SC | an enrollment that is canceled | an enrollment ends |
| Other applets: OpenPGP, OATH, Token2 OTP, Molto2 | card state behind a PC/SC session | per-applet commands | `keyroost-transport` | several writes of which one fails, retry counters | no half-imported key, no needless PIN attempt |
| Settings, QR, screen capture, key-file parsers, cryptography, Windows wrappers | none or a small file | pure functions, OS calls | | | not a subject for a state model |

`PROJECT.json` lists all of them under `components`, with the reason for each that is
left out.

## Modules

| Module | Models |
|---|---|
| `KeyRecords` | the records of a `NameStore` and the edits of them, as functions on sets |
| `KeyringStore` | `Keyring::load_from`, `convert`, `finish_conversion`, `save_to`, `persist_salt`, `write_atomic`: one action per system call, per process |
| `Registry` | the abstract registry: one value that changes by whole edits |
| `KeyringRefinement` | the registry a caller of `KeyringStore` sees in the two files: the refinement mapping |
| `KeyringProofs`, `KeyringOneProofs` | the theorems about `KeyringStore`, for any processes and for one at a time |
| `CtapHid`, `CtapHidProofs` | `CtapHidDevice` against a key and the other programs that use it, and the theorems about it |
| `AppSession`, `AppSessionProofs` | the `App`'s device state, its worker, the FIDO2 and Molto2 panes, and the theorems about them |
| `BlobArray` | the large-blob array and the edits of it, its cells and checksum, as functions on sequences |
| `LargeBlobs` | the operations of the app and of keyroostctl on one key's array, command by command, beside the scan thread's name cache |
| `BlobArrayProofs`, `LargeBlobsProofs` | the lemmas about the edits of an array and the theorems about `LargeBlobs` |
| `ImportPlan` | the rules of `plan.rs`: names, slots, duplicates, room, what fits a command |
| `ImportRun` | one import of either front end, from the first look at the key to the report |
| `ImportRunProofs` | the theorems about `ImportRun` |
| `PivSlots`, `PivSlotsProofs` | the app's PIV jobs over `PivSession` and `run_import_with`, with the kept session state, and the theorems about them |
| `MCKeyring`, `MCCtapHid`, `MCAppSession`, `MCLargeBlobs`, `MCImportRun`, `MCPivSlots` | instances for TLC |

`KeyringStore` and `ImportRun` are built on the pure modules `KeyRecords` and `ImportPlan`,
`LargeBlobs` on `BlobArray`. `LargeBlobs` composes three programs and the scan thread on one
key; `AppSession` is the app around such operations, seen from the selection.

### KeyringStore

A process is one run of keyroost, or the app's scan thread. Its program counter names
the next system call, so two processes interleave between any two calls, and at each of
them the process may die (`Crash`) or the call may fail (`...Error`). A directory entry
carries its contents and the processes that still hold that file open for writing, which
is what tells a file from its name: a write reaches the file it was opened for even if
another process removed or renamed its entry. Files are `Absent`, `Torn` (empty,
half-written or damaged), `Newer`, or a version with a set of records. A fingerprint is
the pair of a serial and a salt, the injective reading of the HMAC. `Rows` are keys that
have two serials (the HID and the smart-card one), which a rename or a clear treats as one
key. Validation and case folding of names are left to the constant `Names`; dates and
other descriptive fields are dropped. `ForeignSave` is an older or newer keyroost, or the
user's editor, and `LoseSalt` is a user who deletes `keys.salt`. A death of a process keeps
what was written: power loss, which could undo an entry that was not synced, is not
modelled.

### CtapHid

A host is one `CtapHidDevice`. Every handle gets every input report, through a queue of
`MaxInbox` reports that loses what does not fit. The other program (another keyroost
looks the same) and the key are external; the key serves one request at a time, answers `ERR_CHANNEL_BUSY` to others, sends
KEEPALIVEs for as long as it likes, may fail, answer too late or fall silent for ever. What
a frame carries is a ghost tag naming which part of which message it is; the host never
looks at it. Time is an age per wait that `Tick` raises up to the deadline. A session ends
at its first transport error, as the callers do; the two callers that go on are listed as
hazards.

### AppSession

Clicks and apply closures each run to their end on the UI thread, so each is one action;
between them a job runs in the worker, keys come and go, and scans fail. What a field holds
is abstracted to the key it came from or was typed for, which the code does not record.
`CompletionStillValid` is `completion_still_valid`, and every place that calls it in the
code calls it in the model; the places that do not (`ApplyPin`, `ApplyTokenOp`) do not there
either. `ApplyDelete` is the end of `delete_credential`, which puts the session it read in
place, and unlike `ApplyRefresh` does not ask whether the one it started in is still open. A device id stands for a serial, so a key that comes back is the same key. The order
of steps within a frame of `update` is replaced by free interleaving, which allows more.
Not modelled here: the other applets' panes, the in-place reset of a card in a reader, the rename
field that holds scans off, the worker's respawn after its thread died.

### LargeBlobs

A process is the app's worker or a run of keyroostctl, with one operation under way; every
fragment read, every PIN token and every fragment written is a step. An array is a sequence
of elements (`BlobArray`), each of which stands for its bytes: a relying party's entry, a
note, a name, an element that is no entry, or bytes after the end. Read or written, an
element is one cell and the trailing checksum another, so that `Frag` cells a time give
arrays of several fragments and a checksum that can be split from its data; pieces of two
arrays put together do not pass it. The key is external: it keeps one unfinished
write, forgets it whenever it likes, takes an array over when its last fragment is there, and
honours the last token it gave. An answer can be lost at any step. The scan thread reads the
key's name as a whole and caches it under the generation rule of
`with_key_names_forgotten`. Not modelled: the limit of 64 KiB on a read, the encryption of a
name (its nonce makes two writes of one name differ in bytes).

### ImportRun

`ImportPlan` keeps of a label only what the rules of `plan.rs` ask for: its length, whether
it would be read back wrongly, whether it is ASCII, and which other labels it begins. The
plan's wording of refusals is one verdict "skip". `ImportRun` takes one import through: the
key is read (a locked one after its password or PIN), the plan is shown, the key is read
again and the import refused when the plan is no longer the same, and `run.rs`'s loop writes
row after row, a delete and a second add where a row replaces. When the key cannot be opened,
keyroostctl stops. The app's dialog asks for the secret of a locked key (`Unlock`) and forgets
one that was refused, except at Add on a Token2 key, where a wrong PIN is an error like any
other: plan and PIN stay, and Add can be clicked again. `given` is the secret the import has,
`spent` the tries it cost: counted anew for each secret given, and for each click on Add where
the app keeps a refused PIN. Each command is a step, which
the key answers by `KeyAnswer`. Between commands the key may forget its unlocking, and another
program may store, delete or change the secret, except where an OATH session holds its PC/SC
transaction. A Molto2 slot is written in three parts. The secret's cryptography, reading the
file and the codes' contents beyond their parts are left out.

### PivSlots

A job opens a transaction, takes the kept `PivSessionState` along if the PC/SC event count
says it is still good, sends commands, reads the status through the caches and hands the
state back; the background re-read that follows a write is a job as well. Between jobs other
programs may write and the card may be replugged, noticed or not; within one it may be
pulled, and any command may be refused or lose its answer. A card names its keys (GET
METADATA), only attests them, or does neither, which decides what `resolve_slot_from_device`
and `slot_policy` can learn. A certificate is the key it names and a policy the key it was
read for. A key write of an import that the card refused and one that did not finish are
undone and reported apart, as `ImportFailure::KeyNotWritten` words them. The ghost `doubt` records that the card's state may have left the caches behind
for a reason the code accepts. Not modelled: retired slots and their lazy read, CHUID, the
management key, CSR, export, the PUK's counter, the tables of vendor compatibility, X.509
and compressed certificates.

## Runs

All runs finish within five minutes with two workers.

| Run | Configuration | States | Shows |
|---|---|---|---|
| `keyring_one` | one process, 2 keys, 2 names, 2 salts, one death, one failed call, one foreign edit, one lost salt | 495,606 | `TypeOK`, `FingerprintsReproducible`, `NoPlainSerials`, `NamesUnique`, `RegistryNeverTorn`, `UnreadableNeverOverwritten`, `ConversionKeepsNames`; it implements `Registry` (`ImplementsRegistry`); `SerialsLeaveDisk` |
| `keyring_two` | two processes, 1 key, 2 names, 3 salts, one death | 748,263 | `SaltPairing`, `QuiescentReadable` |
| `keyring_tmp_race`, `keyring_stale` | see Findings | | violation |
| `ctaphid` | one host and another program, requests of 2 frames, answers of 3 or one too many, a queue of 2, 2 attempts, deadlines of 2 ticks | 473,304 | `AnswerMatches`, `ChannelsDistinct`, `RunsOnce`, `CallEnds` |
| `app_keys` | 2 FIDO2 keys, 2 plug events, 1 panic, 1 failed scan | 5,016,659 | `PaneOfSelected`, `PinToItsKey`, `ListSettled`, `LockOutlivesJobs`, `ResetAfterReplug` |
| `app_tokens` | 1 FIDO2 key and 2 Molto2s, 1 panic | 790,302 | `TokenJobs`, `InfoComes` |
| `app_lock` | see Findings | | violation |
| `blobs` | app and keyroostctl, 2 operations, 1 token or write of another program, an array of a note and a name at first, fragments of 3 cells, room for 4 | 1,513,564 | `ReadsWhole`, `NoStaleName`, `WritesOnCurrent`, `DestroysOnlyShown` |
| `import_run` | 7 stores, both front ends, files of up to 3 entries and 49 single unusual ones, keys that hold 2 or 3 codes, 2 steps of other programs | 230,621 | `ReportTrue`, `RoomAsPlanned`, `PlannedFits`, `OneWrongTry`, `KeepsListed`, `RunEnds` |
| `piv_slots` | 2 slots, 2 keys, 3 kinds of card, 2 operations that write, any number that read, 2 PIN tries, 1 fault | 1,649,274 | `CacheCurrent`, `ImportSays`, `StoresMatching` |
| `piv_move` | see Findings | | violation |

What some of the properties mean in the code's terms: `WritesOnCurrent` is why the app and every
change of a name read the array again once they have the token; `ReadsWhole` is why the
checksum is checked before anything is parsed; `DestroysOnlyShown` is the comparison of the
fresh read with the list on screen; `NoStaleName` is the generation of the name cache.
`ReportTrue` ties every outcome of an import to what the run did in that place;
`RoomAsPlanned` needs the count of codes the listing does not show; `OneWrongTry` and
`RunEnds` are the two halves of answering a key that asks again, once. `CacheCurrent` says
that every cached key, certificate, policy and PIN count is the card's, unless another program
wrote, an answer was lost, a job failed after a write or a key was moved unread (the finding);
`ImportSays`, which has no such exception, that each `ImportFailure` describes the slot.

**Bounds.** Two of everything is where the hazards are: two processes to race, two keys to
mix up, two salts to disagree and a third for a second loser. One death, one failure and one
foreign edit can each fall at every call, and the processes go on for ever around them, so a
behaviour holds any number of loads, edits and saves. In `CtapHid`, three frames tell a first,
a middle and a last frame apart, a queue of two overflows, and a channel id is freed and
handed out again. In `AppSession`, an unplug and a replug of one key, or one event for each,
need two plug events; the user acts any number of times. The burst is 4 scans in the code; one
scan a burst is enough because a refresh can always add more. In `app_tokens` the selection
moves by clicks only; hotplugs and failed scans beside tokens are left to the theorem
`TokenJobsOfSelected`. In
`LargeBlobs`, an array of two elements and its checksum fills a fragment exactly, a third element
takes a second fragment to read and to write, and a fourth does not fit; two operations are
one of each program or two in turn, and one foreign change can fall between any two commands. In `ImportRun`, lengths are taken on both sides of
each limit in the rule table, a key has room for two codes of a file of three, and two foreign
steps suffice to add a code and take one away; the run ends by itself, so its behaviours are
not cut. In `PivSlots`, the card starts with any keys, so two writing operations are
enough to change a slot and use what was changed, around any number of reads, with one fault at
any command of either.
Symmetry (salts, names, processes, keys, tokens, slots) is used only in runs without liveness properties.

**Fairness.** `KeyringStore!FairSpec`: a process goes on to its next call and returns, and
keyroost is run again sooner or later; nothing forces a death or a failed call. `CtapHid!FairSpec`:
the host thread takes its next step and the clock runs; nothing is assumed of the key or of
other programs. `AppSession!FairSpec`: the worker thread runs the job it has, the frame loop
applies results and notices hotplugs (weak fairness; both ask for a repaint), and the due scan
and the info retry happen (strong fairness): `update` drains the worker, retries the read and
drives the scan burst before it draws the widgets whose clicks could take the worker again, so
the user cannot starve them. `ImportRun!FairSpec`: every command of a run that writes ends,
with an answer or an error of the driver; nothing is assumed of the key or of the person.

## What is proved

Eight modules hold theorems. Each theorem is about `Spec` and every value of the constants
that the named assumptions allow: any number of processes, keys, names, slots, entries and
frames, and any bounds on deaths, failures and foreign steps. Every invariant of every run is
proved, every action property, and the refinement; the list under "Only model-checked" is what is left.

### KeyringProofs: any number of processes

- `TypeCorrect` (`TypeOK`), by cases over the calls of a process.
- `SaltPairingHolds` (`SaltPairing`): every fingerprint in `keys.json` can be made again from
  the salt on disk, as long as no system call failed and nobody deleted the salt.
- `NoSerialStored` (`NoPlainSerials`): no version 2 file, nor the temp file, has a plain serial.
- `NamesStayUnique` (`NamesUnique`), from the hypothesis `OldNamesUnique`: version 1 files repeat
  no name. Nothing in a load enforces that; an older keyroost refused a duplicate when it saved.
- `QuietRegistryReadable` (`QuiescentReadable`).

`SaltPairing` is not inductive: it says nothing of the rings in memory and of the temp file
that will become `keys.json`. The inductive invariant `SaltInv` adds

- `SaltShape`: `keys.salt` holds nothing, a file being made or a salt; version 1 records have
  no fingerprints; a process that persists a salt has one;
- `WritersInv`: which file a process may hold open, by the call it makes next, so that a write
  of one process never lands in a salt or a registry another one relies on;
- `Paired`: every file's fingerprints are reproducible, a ring past its load holds fingerprints
  under its own salt only, a ring that believes its salt is on disk is right, and only such
  rings are ever written; a salt being written is written by one process.

`SaltShape` and `WritersInv` hold whatever fails; `Paired` only while nothing failed, which is
the case of a failed sync described under Findings. `RecordsInv` says of every file, ring and
remembered original what the two properties on records say of `keys.json`, since each of them
may become it. `TornInv` says why a half-written file passes: whoever opened it still holds it
open and will write it whole, unless the file was damaged before the first load. The lemmas come
in families (`...Types`, `...Shape`, `...Paired`, `...Good`, `...Torn`), one lemma per group of
calls: load, persist the salt, finish a conversion, write atomically, and what the caller does.

### KeyringOneProofs: one process at a time

The hypothesis `OneProcess` is the one under which the code promises these; with two processes
`RegistryNeverTorn` fails (`keyring_tmp_race`). Deaths, failed calls, foreign edits and lost
salts are unlimited.

- `NeverTorn` (`RegistryNeverTorn`) and `UnreadableKept` (`UnreadableNeverOverwritten`).
  `FilesInv`: the temp file a process is about to rename is its own and whole, and the check it
  made of `keys.json` at the start of a load or save still holds at the rename.
- `ConversionKeeps` (`ConversionKeepsNames`), with the second hypothesis `OneOldFile`: all version
  1 files are the same. A ring remembers that it converted a version 1 file and not which one,
  so without it the property fails (`keyring_stale`). `NamesInv`: until its one edit, a ring whose
  conversion is pending has every record of the version 1 file, after it all but the names of
  one key or one name, and a process past its checks over a version 1 file has such a ring.
- `PrintsReproducible` (`FingerprintsReproducible`): as `SaltPairing`, with failed calls.
  `PrintsInv` adds the reason: `persist_salt` undoes only a salt that it made where there was
  none, and then no file has a fingerprint yet.
- `RegistryImplemented` (`ImplementsRegistry`), with `OneOldFile` and `OldNamesUnique`: the
  refinement. `KeyringRefinement` maps the two files to the value of `Registry`: a record whose
  fingerprint the salt on disk does not reproduce is a name without a key. A save is the one
  rename, a lost salt is `Forget`, somebody else's file is `Replaced`, and every other call of a
  process changes nothing a caller can see.

`ViewInv` is the invariant of the refinement. `OwnSalt`: a salt that a process has and that is not
on disk yet is in no record of `keys.json` (salts never repeat), so creating it, writing it and
undoing it is invisible; this holds after lost salts too, where `PrintsInv` says nothing.
`OwnView`: until its edit a ring, seen under its own salt, is the registry as seen on disk, then it
differs by what a scan learnt or by one edit; for a pending conversion the registry is the
version 1 file. The `...Seen` lemmas show that an edit of the records under the ring's salt is
the abstract edit of what is seen of them.

### CtapHidProofs: any number of programs, channels, frames, attempts and queue sizes

- `TypeCorrect` (`TypeOK`), `NoSharedChannel` (`ChannelsDistinct`), `OwnAnswer`
  (`AnswerMatches`), `CarriedOutOnce` (`RunsOnce`).

One invariant carries all four. `HostInv` and `DeviceInv` say what a host and the key hold at
each step. `Chans`: the answer to an INIT that nobody has read yet names a channel nothing has
been sent on, and every copy of it is for the same program. `Sessions` ties the three places
where an answer can be (the key's work, the queue, what the host has read): they are
consecutive parts of the one answer to the one request, nothing is under way on an idle
channel, and after a busy answer or a last frame nothing more comes. `Results` then follows for
the call that ends. The run has one host of the model beside the other program, the theorems
any number of both. The assumption on the key (external) is that it answers one transaction at
a time, on the channel it came on, and hands out unused channels.

### AppSessionProofs: any keys, tokens, plug events, panics and failed scans

- `TypeCorrect` (`TypeOK`), `PaneFollowsSelection` (`PaneOfSelected`), `LockHolds`
  (`LockOutlivesJobs`), `ListHolds` (`ListSettled`), `PinsStayHome` (`PinToItsKey`), `TokenJobsOfSelected` (`TokenJobs`),
  `ResetOnlyAfterReplug` (`ResetAfterReplug`).

The properties speak of the job under way and of the pane; what makes them inductive is what
will become a job: `PaneInv` adds that the PIN and the form were typed for the selected key,
`MoltoInv` that an open token pane holds the session and authentication of its token, `ArmInv`
that an armed key seen gone and back was plugged in again, and `JobInv` that no unlock runs
while there is a session, so that no lock can come between an unlock and its end. `LockHolds`
is an action property on top of that: of the steps after a lock, only the end of a deletion
puts a session in place (the finding `app_lock`); the end of a Refresh finds none open and drops
its own. `ListHolds` (`ListSettled`) rests on `ListInv`: with no flag and no scan due, a scan is under
way that has not looked yet or saw what is connected now, or the list is current, or the last
scan failed or panicked.

### BlobArrayProofs and LargeBlobsProofs: any processes, arrays, fragment size

- `TypeCorrect` (`TypeOK`), `CurrentHolds` (`WritesOnCurrent`), `ReadsAreWhole` (`ReadsWhole`),
  `NamesAreFresh` (`NoStaleName`), `OnlyShownDestroyed` (`DestroysOnlyShown`).

`BlobArrayProofs` has the lemmas on the edits of an array: picking positions keeps those
elements once each and in order (`NthIs`, `PickedElements`), and every edit the code allows of
an array is an array again, with trailing bytes only at its end. `CurrentHolds` needs
`Shape /\ Sequential /\ Held`: while a process has the token the key honours, nobody else can
have changed the array, so its second read is a prefix of the array, the base of its change is
the array, and the fragments the key has are a prefix of what it writes. The others add what a
process without the token knows (`Known`): its plan fits the array it was made from and what the
person saw, and each cell it has read is an element or the checksum of an array the key had
since the read began, so that a checksum that fits its data can only be that array's; and
`NamesKnown`: a name whose read a write overtook is in nobody's hands once the write is over.
Assumed: a new token ends the old one and a fragment without it is refused (the key), and no
element is the checksum of other elements (`ChecksumAssumption`, the collision-freeness of the
truncated SHA-256).

### ImportRunProofs: any file, store, key, capacity, secret and foreign steps

- `TypeCorrect` (`TypeOK`), `ReportHolds` (`ReportTrue`), `ListedHolds` (`KeepsListed`),
  `PlanSendable` (`PlannedFits`), `TriesBounded` (`OneWrongTry`), `RoomHolds` (`RoomAsPlanned`).

The report and the listed codes come from one invariant: the rows before the one being written
are settled as the report says (`Before`), those after it are untouched (`After`), and the
command about to be sent tells what was done for the row itself (`Current`): only a row whose
code was deleted is added again. It needs that two rows of a plan never write to one place,
which is a fact about the planner: `PlanRows`, proved from the equation of the recursive
function that walks over the file (`SeenEquation`, `SeenGrows`), and for a Molto2 from its slots
counting up. `AddsNew` says that what the key listed is not added to. `FitsInv` is that of
the plan shown and the plan written; the work is in the lemmas that compare the rule table of
`limits` with the commands (`Token2Limits`, `Molto2Limits`, `OathLimits`), for every entry that
`check_secret` and `finish` let through. `Types` follows the codes, the key and the session.
`TriesInv`: nothing is spent while the key is read or a run writes, at most one try when the
dialog asks for the secret or for Add, where `Kept` forgets it, and a run begun on a locked
Token2 key verified its PIN. So a PIN the app keeps after a refusal costs one try a click, and
every other secret one in all. `RoomInv`: there was a set of codes at the start such that what the key has now is
among them and the places added since, and it left room for every row that adds; a replaced
code is still there until its turn. Assumed of the constants, beside null values and bounds:
labels are not empty, and the places other programs use are finitely many.

### PivSlotsProofs: any slots, keys, tries, operations and faults

- `TypeCorrect` (`TypeOK`), `CachesFollowTheCard` (`CacheCurrent`), `ImportReportsTruly`
  (`ImportSays`), `CertificatesMatch` (`StoresMatching`).

`Flow` says which operation can be at which step; `SessInv` that the session's caches follow the
card at every step of a job, except for the slot of a key just generated, until the tail of
`generate` has run; `StoredInv` that the kept state is right until the job changes the card;
`ImportInv` what a key import has done to its slot at each step, on which each outcome rests;
`SignInv` that a certificate is made for the key the slot still has. `EmptyIsEmpty` is the
finding, and no theorem.

### Only model-checked

- Liveness (`CallEnds`, `RunEnds`, `SerialsLeaveDisk`, `InfoComes`): proofs under
  fairness are out of reach of the provers used here.
- The four violations, which are counterexamples.

A remark on recursion: the induction theorems of the library take an operator as a parameter,
which these provers cannot instantiate. Where a recursive function's equation is enough
(`SeenIn`, `Nth`) the proofs argue with the least element for which the claim would fail.

## Findings

Each is a run whose property states what the repository says, and that TLC finds violated.

1. `keyring_tmp_race`: all saves use one temp path. Two processes that save at once can rename
   each other's half-written file over `keys.json`; the doc comment of `save_to` says a reader
   always sees a complete file. Without a death it heals (`QuiescentReadable`).
2. `keyring_stale`: a conversion that failed leaves its ring pending, and the next save of that ring
   overwrites any version 1 file it finds, one that an older keyroost saved meanwhile too. The
   doc comment of `save_to` says that a version 1 file is overwritten only by the ring that
   converted it, to keep a ring from destroying names it never read.
3. `piv_move`: `move_key` asks only whether the destination is free, which caches "no key"
   for it, and then carries the source's cache entry over, which does nothing if the session
   had not read the source. The pane then takes the slot that holds the moved key as empty,
   though `PivOccupancy` promises to fail closed, and generating there asks no confirmation.
4. `app_lock`: the end of a passkey's deletion puts its session in place without the check
   `apply_refreshed_session` makes, so a key locked during the deletion is unlocked again,
   which that function's comment rules out for a Refresh and a test asserts.

Seen while modelling, where a reader of the code may want to look:

- Registry: `persist_salt` removes a salt whose sync failed, though another process may have
  loaded it and saved fingerprints under it; a death between creating and writing `keys.salt`
  leaves an empty one, which every later run refuses and none replaces (`SerialsLeaveDisk`
  exempts it).
- App: `submit_change_pin`, `submit_set_pin` and `resweep_slot_meta` do not check the selection
  when they end, so an error, a lock or a slot list can land in another key's pane; selecting a
  Molto2 while a job runs leaves its pane unopened, since nothing retries `open_molto`; an
  operation that clears the error of a failed info read, when the one retry is used up, leaves
  the pane with neither; when the last scan of a burst fails, the list stays empty until a
  hotplug or a Refresh.
- Large blobs: keyroostctl's add, edit, delete and clear read the array before they get the
  token and not again, so another program's entry written in between is lost; the app's edit
  of a note goes by the index in its list and does not compare the entry.
- Import: the two bytes of a required touch are not counted by `oath_put_fits`, so such a
  code can be planned, refused when sent, and stop the run; the app's import to a Molto2 does
  not read the slots again; a wrong OTP PIN at Add is kept and sent again by the
  next click; a write to a key without a PIN marks the typed PIN as proven; a
  delete whose answer was lost is reported as failed though the code is gone; a slot of a
  Molto2 can stay half written; a job that panics leaves the dialog at "Adding".
- PIV: a job that fails drops its state and the older one is used again, so a PIN count
  from before a wrong PIN, or after a generate whose clearing of the certificate failed an old
  public key, survives until a refresh, though the doc comment of `pin_retries_cache` says a
  stale count never survives past the call that changed it (of the state that is dropped it holds); a GET METADATA that fails is cached like one that names nothing; a PKCS#12 import
  whose clearing or storing lost its answer leaves the old certificate cached;
  `confirmed_slot_key` uses the cache even when the card says there is no key.

## Not modelled

Parsers, encodings, cryptography, image decoding and operating-system wrappers have no state
that time or failure could bring into disorder; they are most of the repository's lines, with
the interface code that lays out the panes. With state, and left out: pairing of readers with
HID paths and the naming pass of a scan, the OpenPGP card, the enrollment loop, PC/SC chaining
and the recovery of a card, the reset ceremony's identity of keys without a serial, power loss
for the registry. `PROJECT.json` gives the reason for each under `components`.

## Plan

Done: the registry with its refinement, the CTAP HID transport, the app's device state, large
blobs with the name cache, imports, PIV jobs, and the theorems above. Next, in this order:

1. OpenPGP: key generation and import per slot with the writes that follow, and the reset.
2. `BioEnroll`: the capture loop with cancellation over `CtapHid`, with the callers that go on
   after an error.
3. `Scan`: merging of readers and HID paths into rows, and the naming pass, composed with
   `KeyringStore`'s edits and the name cache.
4. Power loss for `KeyringStore`.
