----------------------------- MODULE AppSession -----------------------------
(***************************************************************************)
(* The desktop app's device state (crates/keyroost/src/main.rs): the list  *)
(* of keys, the selected one, what its pane shows and holds, and the one   *)
(* background worker that talks to keys.                                   *)
(*                                                                         *)
(* The UI thread starts a job, goes on handling clicks, and applies the    *)
(* job's result in a later frame, when another key may be selected, the    *)
(* session locked or the key gone.  A click and an apply closure each run  *)
(* to their end on the UI thread: one action each.                         *)
(*                                                                         *)
(* What a field holds is abstracted to the key it came from or was typed   *)
(* for, which the code does not record: info, an error, a PIN, a slot list *)
(* stand for "the one of that key".  A key's id stands for its serial, as  *)
(* in a "serial:" DeviceId.  Keys are FIDO2 keys, tokens are Molto2s.      *)
(***************************************************************************)
EXTENDS Naturals

CONSTANTS
    Keys,      \* FIDO2 keys
    Tokens,    \* Molto2 tokens
    NoDev,
    Burst,     \* scans of a burst (4 in schedule_scan_burst)
    MaxPlugs,  \* bound: times a key is plugged in or out
    MaxPanics, \* bound: jobs that panic
    MaxFails   \* bound: scans that fail

Devices == Keys \cup Tokens
Ids     == Devices \cup {NoDev}

ASSUME AppSessionAssumption ==
    /\ NoDev \notin Devices /\ Keys \cap Tokens = {}
    /\ Burst \in Nat \ {0} /\ MaxPlugs \in Nat /\ MaxPanics \in Nat /\ MaxFails \in Nat

VARIABLES
    plugged,   \* the keys connected
    dirty,     \* devices_dirty, set by the hotplug watchers
    scans,     \* pending_scans
    reread,    \* reread_after_scan
    devices,   \* the list of the last scan
    selected,  \* selected_device
    lost,      \* lost_selection
    job,       \* the job under way, which busy_jobs counts
    fido,      \* security_keys
    retried,   \* info_retried_for
    molto,     \* the Molto2 pane
    arm,       \* reset_arm
    locked,    \* ghost: the user locked the session and did not unlock since
    plugs, panics, fails,
    missed     \* ghost: the last scan that ran failed or panicked

vars == <<plugged, dirty, scans, reread, devices, selected, lost, job, fido, retried,
          molto, arm, locked, plugs, panics, fails, missed>>

\* Variables grouped by what changes them together.
hotplug == <<plugged, dirty, plugs>>
list    == <<scans, reread, devices, lost>>
bounds  == <<panics, fails, missed>>

----------------------------------------------------------------------------
(* Jobs.                                                                   *)

\* kind     which dispatcher started it
\* dev      the key it talks to
\* sel      for_device: the selection it was started under
\* secret   whose PIN, or whose authentication, it uses
\* out      "none" until the worker has run it
\* seen     the keys a scan found
Job(kind, dev, secret) ==
    [kind |-> kind, dev |-> dev, sel |-> selected, secret |-> secret, out |-> "none", seen |-> {}]
NoJob == [kind |-> "none", dev |-> NoDev, sel |-> NoDev, secret |-> NoDev, out |-> "none", seen |-> {}]

\* Writing a profile or a title, and syncing the time, need authentication.
SecureOps == {"write", "sync"}
TokenOps  == SecureOps \cup {"auth", "delete", "resweep", "tokenReset"}
Busy == job.kind # "none"

\* Mutant: whatever is selected now will do.
AlwaysValid(captured, current) == TRUE

CompletionStillValid(captured, current) == captured # NoDev /\ captured = current

Finished(kind) == job.kind = kind /\ job.out # "none"
StillValid     == CompletionStillValid(job.sel, selected)

\* The worker runs the job: the key answers, fails, reports that the PIN or the
\* token is no longer good, or the job panics and is caught.
RunJob ==
    /\ Busy /\ job.out = "none"
    /\ \/ /\ job.kind = "scan"
          /\ \/ /\ job' = [job EXCEPT !.out = "ok", !.seen = plugged]
                /\ missed' = FALSE /\ UNCHANGED <<panics, fails>>
             \/ /\ fails < MaxFails /\ fails' = fails + 1
                /\ job' = [job EXCEPT !.out = "fail"]
                /\ missed' = TRUE /\ UNCHANGED panics
       \/ /\ job.kind # "scan"
          /\ \E out \in {"fail", "relock"} \cup (IF job.dev \in plugged THEN {"ok"} ELSE {}) :
                 job' = [job EXCEPT !.out = out]
          /\ UNCHANGED bounds
       \/ /\ panics < MaxPanics /\ panics' = panics + 1
          /\ job' = [job EXCEPT !.out = "panic"]
          /\ missed' = (missed \/ job.kind = "scan") /\ UNCHANGED fails
    /\ UNCHANGED <<hotplug, list, selected, fido, retried, molto, arm, locked>>

\* drain_worker: a job that panicked leaves nothing but a log line (and, when it
\* had taken it, the loss of the Molto2 session).
ApplyPanic ==
    /\ job.out = "panic" /\ job' = NoJob
    /\ UNCHANGED <<hotplug, list, selected, fido, retried, molto, arm, locked, bounds>>

----------------------------------------------------------------------------
(* Selection.                                                              *)

EmptyFido == [session |-> NoDev, sessionDevice |-> NoDev, pin |-> NoDev, form |-> NoDev,
              info |-> NoDev, error |-> NoDev]
NoMolto   == [session |-> NoDev, device |-> NoDev, auth |-> NoDev, slots |-> NoDev]
NoArm     == [dev |-> NoDev, gone |-> FALSE, inserted |-> FALSE]

\* The read a selection starts, when no job is under way.
ReadJob(d) ==
    IF d \in Keys THEN [Job("info", d, NoDev) EXCEPT !.sel = d]
    ELSE IF d \in Tokens THEN [Job("open", d, NoDev) EXCEPT !.sel = d]
    ELSE NoJob

\* Mutant: the typed PINs stay.
KeepTypedPins == [EmptyFido EXCEPT !.pin = fido.pin, !.form = fido.form]

\* What on_device_selected leaves of the FIDO state.
ClearedFido == EmptyFido

\* on_device_selected(previous), with d selected now.
OnDeviceSelected(d, busy) ==
    /\ selected' = d
    /\ fido' = ClearedFido
    /\ molto' = NoMolto
    /\ arm' = NoArm
    /\ retried' = NoDev
    /\ job' = IF busy THEN job ELSE ReadJob(d)

SelectDevice(d) ==
    /\ d \in devices
    /\ lost' = NoDev
    /\ IF d = selected
       THEN UNCHANGED <<selected, fido, molto, arm, retried, job>>
       ELSE OnDeviceSelected(d, Busy)
    /\ UNCHANGED <<hotplug, scans, reread, devices, locked, bounds>>

----------------------------------------------------------------------------
(* Hotplug and scans.                                                      *)

Plug(k) ==
    /\ plugs < MaxPlugs /\ plugs' = plugs + 1
    /\ plugged' = IF k \in plugged THEN plugged \ {k} ELSE plugged \cup {k}
    /\ dirty' = TRUE
    /\ arm' = IF k = arm.dev /\ k \notin plugged THEN [arm EXCEPT !.inserted = TRUE] ELSE arm
    /\ UNCHANGED <<list, selected, job, fido, retried, molto, locked, bounds>>

\* Mutant: a hotplug during a job is dropped.
DropHotplugWhileBusy == IF Busy THEN scans ELSE Burst

\* pending_scans after a hotplug was noticed (schedule_scan_burst).
ScheduledScans == Burst

NoticeHotplug ==
    /\ arm.dev = NoDev /\ dirty
    /\ dirty' = FALSE /\ scans' = ScheduledScans
    /\ UNCHANGED <<plugged, plugs, reread, devices, lost, selected, job, fido, retried,
                   molto, arm, locked, bounds>>

\* The Refresh button.
UserRefresh ==
    /\ scans' = Burst /\ reread' = TRUE
    /\ UNCHANGED <<hotplug, devices, lost, selected, job, fido, retried, molto, arm, locked, bounds>>

RefreshDevices ==
    /\ arm.dev = NoDev /\ scans > 0 /\ ~Busy
    /\ scans' = scans - 1
    /\ job' = Job("scan", NoDev, NoDev)
    /\ UNCHANGED <<hotplug, reread, devices, lost, selected, fido, retried, molto, arm, locked, bounds>>

\* Mutant: the selection stays though its key is gone.
KeepSelection(new) == {<<selected, lost>>}

\* reconcile_selection; the first row is any of the new ones.
Reconciled(new) ==
    IF lost \in new THEN {<<lost, NoDev>>}
    ELSE IF selected \in new THEN {<<selected, lost>>}
    ELSE LET l == IF lost = NoDev /\ selected \in devices THEN selected ELSE lost
         IN  IF new = {} THEN {<<NoDev, l>>} ELSE {<<d, l>> : d \in new}

\* Mutant: a stored session will do for whatever token is selected.
AnySession == TRUE

\* molto_session_usable, fido_session: a session serves only the selected key.
MoltoUsable == CompletionStillValid(molto.device, selected)
FidoSession == IF CompletionStillValid(fido.sessionDevice, selected) THEN fido.session ELSE NoDev

\* take_molto_session, with `m` the pane so far: a job of `kind` takes the session
\* along, or the pane stays "not connected"; `none` is the worker then.
TakeSession(kind, m, none) ==
    IF MoltoUsable /\ m.session # NoDev
    THEN /\ job' = Job(kind, m.session, m.auth)
         /\ molto' = [m EXCEPT !.session = NoDev]
    ELSE /\ job' = none
         /\ molto' = IF MoltoUsable THEN m ELSE [m EXCEPT !.session = NoDev, !.device = NoDev]

\* The read that Refresh makes: the slots of the open token, or the selected key's
\* info or one of its lists (the other applets' tabs change nothing here).
RereadOpenTab ==
    IF selected \in Tokens
    THEN TakeSession("resweep", molto, NoJob) /\ UNCHANGED fido
    ELSE /\ UNCHANGED molto
         /\ \/ FidoSession # NoDev /\ job' = Job("refresh", selected, FidoSession) /\ UNCHANGED fido
            \/ FidoSession # NoDev /\ job' = Job("fidoOp", selected, FidoSession) /\ UNCHANGED fido
            \/ job' = ReadJob(selected) /\ fido' = [fido EXCEPT !.info = NoDev, !.error = NoDev]
            \/ job' = NoJob /\ UNCHANGED fido

ApplyScan ==
    /\ Finished("scan") /\ job.out = "ok"
    /\ devices' = job.seen
    /\ \E r \in Reconciled(job.seen) :
           /\ lost' = r[2]
           /\ \/ r[1] # selected /\ OnDeviceSelected(r[1], FALSE)
              \/ /\ r[1] = selected
                 /\ IF reread /\ selected # NoDev THEN RereadOpenTab
                    ELSE job' = NoJob /\ UNCHANGED <<fido, molto>>
                 /\ UNCHANGED <<selected, arm, retried>>
    /\ reread' = FALSE
    /\ UNCHANGED <<hotplug, scans, locked, bounds>>

ApplyScanFailure ==
    /\ Finished("scan") /\ job.out = "fail"
    /\ reread' = FALSE
    /\ lost' = IF lost = NoDev /\ selected \in devices THEN selected ELSE lost
    /\ devices' = {}
    /\ IF selected # NoDev THEN OnDeviceSelected(NoDev, FALSE)
       ELSE job' = NoJob /\ UNCHANGED <<selected, fido, molto, arm, retried>>
    /\ UNCHANGED <<hotplug, scans, locked, bounds>>

----------------------------------------------------------------------------
(* FIDO2: reading info, unlocking, working in a session, locking.          *)

\* Unchanged by what only touches the FIDO pane and the worker.
fidoFrame == <<hotplug, list, selected, molto, arm, bounds>>

\* fetch_selected_info from an apply closure, after `f`.
FetchInfo(f) ==
    /\ fido' = [f EXCEPT !.info = NoDev, !.error = NoDev]
    /\ job' = IF selected \in Keys THEN Job("info", selected, NoDev) ELSE NoJob

\* Mutant: a read that was refused is never made up for.
NeverRetried == FALSE

\* info_retry_due: once per selection.
InfoRetryDue == retried = NoDev \/ retried # selected

RetryDroppedInfoRead ==
    /\ ~Busy /\ selected \in Keys /\ InfoRetryDue
    /\ fido.info = NoDev /\ fido.error = NoDev
    /\ retried' = selected
    /\ FetchInfo(fido)
    /\ UNCHANGED <<fidoFrame, locked>>

ApplyInfo ==
    /\ Finished("info") /\ job.out # "panic"
    /\ fido' = IF ~StillValid THEN fido
               ELSE IF job.out = "ok" THEN [fido EXCEPT !.info = job.dev]
               ELSE [fido EXCEPT !.error = job.dev]
    /\ job' = NoJob
    /\ UNCHANGED <<fidoFrame, retried, locked>>

\* The user types into the unlock box or the PIN form, which the pane draws once it
\* has the key's info, or opens, closes or cancels the form.
TypePin ==
    /\ selected \in Keys /\ fido.info # NoDev
    /\ \/ fido.session = NoDev /\ fido' = [fido EXCEPT !.pin = selected]
       \/ fido' = [fido EXCEPT !.form = selected]
       \/ \E error \in {NoDev, fido.error} : fido' = [fido EXCEPT !.form = NoDev, !.error = error]
    /\ UNCHANGED <<fidoFrame, job, retried, locked>>

TryUnlock ==
    /\ ~Busy /\ selected \in Keys /\ fido.info # NoDev /\ fido.session = NoDev
    /\ \/ /\ fido.pin # NoDev
          /\ job' = Job("unlock", selected, fido.pin)
          /\ fido' = [fido EXCEPT !.pin = NoDev]
          /\ locked' = FALSE
       \/ /\ fido.pin = NoDev                                \* "PIN is empty"
          /\ fido' = [fido EXCEPT !.error = selected]
          /\ UNCHANGED <<job, locked>>
    /\ UNCHANGED <<fidoFrame, retried>>

\* A rejected PIN is an error; a PIN that must be changed first moves into the form.
ApplyUnlock ==
    /\ Finished("unlock") /\ job.out # "panic"
    /\ \/ ~StillValid /\ UNCHANGED fido
       \/ /\ StillValid /\ job.out = "ok"
          /\ fido' = [fido EXCEPT !.session = job.dev, !.sessionDevice = job.sel, !.error = NoDev]
       \/ /\ StillValid /\ job.out # "ok"
          /\ fido' = [fido EXCEPT !.error = job.dev]
       \/ /\ StillValid /\ job.out = "relock"
          /\ fido' = [fido EXCEPT !.form = job.secret, !.error = NoDev]
    /\ job' = NoJob
    /\ UNCHANGED <<fidoFrame, retried, locked>>

Locked(f) == [f EXCEPT !.session = NoDev, !.sessionDevice = NoDev, !.pin = NoDev]

\* The Lock button.
LockSession ==
    /\ fido.session # NoDev
    /\ fido' = Locked(fido)
    /\ locked' = TRUE
    /\ UNCHANGED <<fidoFrame, job, retried>>

\* The inactivity lock, when it is due and nothing is under way.
IdleLock ==
    /\ ~Busy /\ arm.dev = NoDev
    /\ \E f \in {fido.session, fido.pin, fido.form} : f # NoDev
    /\ fido' = [(IF fido.session = NoDev THEN fido ELSE Locked(fido)) EXCEPT
                    !.pin = NoDev, !.form = NoDev,
                    !.error = IF fido.session = NoDev /\ fido.form = NoDev THEN @ ELSE selected]
    /\ locked' = TRUE
    /\ UNCHANGED <<fidoFrame, job, retried>>

\* An operation of the unlocked session: Refresh, deleting a passkey, enrolling a
\* finger, and the others ("fidoOp": fingerprints and settings).
SessionOp ==
    /\ ~Busy /\ selected \in Keys /\ FidoSession # NoDev
    /\ \E kind \in {"refresh", "deleteCred", "fidoOp", "enroll"} : job' = Job(kind, selected, FidoSession)
    /\ UNCHANGED <<fidoFrame, fido, retried, locked>>

FailSessionOp == IF job.out = "relock" THEN [Locked(fido) EXCEPT !.error = job.dev]
                 ELSE [fido EXCEPT !.error = job.dev]

\* A change of settings reads the info again.
ApplySessionOp ==
    /\ job.kind \in {"fidoOp", "enroll"} /\ job.out \notin {"none", "panic"}
    /\ IF ~StillValid THEN UNCHANGED fido /\ job' = NoJob
       ELSE IF job.out # "ok" THEN fido' = FailSessionOp /\ job' = NoJob
       ELSE \/ fido' \in {fido, [fido EXCEPT !.error = NoDev]} /\ job' = NoJob
            \/ job.kind = "fidoOp" /\ FetchInfo(fido)
    /\ UNCHANGED <<fidoFrame, retried, locked>>

\* delete_credential: the passkeys are listed again in the same job, and the session
\* that comes with them is put in place whether or not one is still open.
ApplyDelete ==
    /\ Finished("deleteCred") /\ job.out # "panic"
    /\ fido' = IF ~StillValid THEN fido
               ELSE IF job.out = "ok"
               THEN [fido EXCEPT !.session = job.dev, !.sessionDevice = job.sel, !.error = NoDev]
               ELSE FailSessionOp
    /\ job' = NoJob
    /\ UNCHANGED <<fidoFrame, retried, locked>>

\* An enrollment the user canceled reads the list of fingerprints again, or asks to
\* unlock if the session was locked meanwhile.
ApplyCanceledEnroll ==
    /\ Finished("enroll") /\ job.out = "fail" /\ StillValid
    /\ IF FidoSession # NoDev
       THEN /\ fido' = [fido EXCEPT !.error = NoDev]
            /\ job' = Job("fidoOp", selected, FidoSession)
       ELSE /\ fido' = [fido EXCEPT !.error = selected]
            /\ job' = NoJob
    /\ UNCHANGED <<fidoFrame, retried, locked>>

\* Mutant: the fresh session lands whether or not the old one was locked.
RefreshWhateverHappened == TRUE

\* The session the refresh was started in is still open.
SessionStillOpen == fido.session # NoDev /\ fido.sessionDevice = job.sel

\* apply_refreshed_session
ApplyRefresh ==
    /\ Finished("refresh") /\ job.out # "panic"
    /\ fido' = IF ~StillValid
               THEN IF fido.sessionDevice = job.sel
                    THEN [fido EXCEPT !.session = NoDev, !.sessionDevice = NoDev] ELSE fido
               ELSE IF ~SessionStillOpen THEN fido
               ELSE IF job.out = "ok" THEN [fido EXCEPT !.session = job.dev]
               ELSE FailSessionOp
    /\ job' = NoJob
    /\ UNCHANGED <<fidoFrame, retried, locked>>

\* submit_change_pin takes the PINs typed into the form; submit_set_pin likewise.
\* PINs that are missing, too short or different are refused with an error.
SubmitPin ==
    /\ ~Busy /\ selected \in Keys /\ fido.info # NoDev
    /\ \/ /\ fido.form # NoDev
          /\ fido' = [fido EXCEPT !.form = NoDev]
          /\ \E kind \in {"changePin", "setPin"} : job' = Job(kind, selected, fido.form)
       \/ fido' = [fido EXCEPT !.form = NoDev, !.error = selected] /\ UNCHANGED job
    /\ UNCHANGED <<fidoFrame, retried, locked>>

\* Its end looks at no selection: it acts on the pane as it is now.
ApplyPin ==
    /\ job.kind \in {"changePin", "setPin"} /\ job.out \notin {"none", "panic"}
    /\ IF job.out # "ok" THEN fido' = [fido EXCEPT !.error = job.dev] /\ job' = NoJob /\ UNCHANGED locked
       ELSE IF job.kind = "changePin" THEN FetchInfo(Locked(fido)) /\ locked' = TRUE
       ELSE FetchInfo([fido EXCEPT !.form = NoDev]) /\ UNCHANGED locked
    /\ UNCHANGED <<fidoFrame, retried>>

----------------------------------------------------------------------------
(* The armed FIDO reset.                                                   *)

resetFrame == <<hotplug, list, selected, retried, molto, locked, bounds>>

\* "Arm reset", confirmed by typing "reset".
ArmFidoReset ==
    /\ selected \in Keys /\ arm.dev # selected
    /\ arm' = [NoArm EXCEPT !.dev = selected]
    /\ UNCHANGED <<resetFrame, job, fido>>

CancelReset ==
    /\ arm.dev # NoDev /\ arm' = NoArm
    /\ UNCHANGED <<resetFrame, job, fido>>

\* Mutant: a key that is there has come back.
AnyReconnect == arm.dev \in plugged

\* The armed key is there again after it was seen to be gone.
Reconnected == arm.gone /\ arm.dev \in plugged

\* poll_reset_arm, every frame while armed.  A busy worker refuses the reset, and
\* the next poll tries again.
PollResetArm ==
    /\ arm.dev # NoDev
    /\ IF ~CompletionStillValid(arm.dev, selected) THEN arm' = NoArm /\ UNCHANGED job
       ELSE \/ /\ arm.dev \notin plugged
               /\ arm' = [arm EXCEPT !.gone = TRUE] /\ UNCHANGED job
            \/ /\ Reconnected /\ ~Busy
               /\ job' = Job("reset", arm.dev, NoDev)
               /\ arm' = NoArm
    /\ UNCHANGED <<resetFrame, fido>>

\* apply_reset_path_outcome
ApplyReset ==
    /\ Finished("reset") /\ job.out # "panic"
    /\ IF ~StillValid THEN UNCHANGED fido /\ job' = NoJob
       ELSE IF job.out = "ok" THEN FetchInfo([fido EXCEPT !.session = NoDev])
       ELSE fido' = [fido EXCEPT !.error = job.dev] /\ job' = NoJob
    /\ UNCHANGED <<resetFrame, arm>>

----------------------------------------------------------------------------
(* The Molto2 pane.                                                        *)

moltoFrame == <<hotplug, list, selected, fido, retried, arm, locked, bounds>>

\* The sweep of the slots may fail without failing the open.
ApplyOpen ==
    /\ Finished("open") /\ job.out # "panic"
    /\ \/ (~StillValid \/ job.out # "ok") /\ UNCHANGED molto
       \/ /\ StillValid /\ job.out = "ok"
          /\ \E slots \in {job.dev, NoDev} :
                 molto' = [session |-> job.dev, device |-> job.sel, auth |-> NoDev, slots |-> slots]
    /\ job' = NoJob
    /\ UNCHANGED moltoFrame

\* A click on Authenticate, Write (a profile or a title), Sync time, Delete seed or
\* Factory reset.
TokenOp(kind) ==
    /\ ~Busy /\ selected \in Tokens
    /\ kind \in SecureOps => molto.auth # NoDev                    \* ensure_auth
    /\ TakeSession(kind, molto, job)
    /\ UNCHANGED moltoFrame

\* The session is handed back to the pane, whichever token that shows now.
HandedBack == [molto EXCEPT !.session = job.dev]

ApplyTokenOp ==
    /\ job.kind \in TokenOps /\ job.out \notin {"none", "panic"}
    /\ IF job.out # "ok" \/ job.kind = "sync" THEN molto' = HandedBack /\ job' = NoJob
       ELSE \/ /\ job.kind = "auth"
               /\ molto' = [HandedBack EXCEPT !.auth = job.dev] /\ job' = NoJob
            \/ /\ job.kind \in {"write", "delete"}
               /\ IF molto.slots = NoDev THEN TakeSession("resweep", HandedBack, NoJob)
                  ELSE molto' = HandedBack /\ job' = NoJob
            \/ /\ job.kind = "resweep"
               /\ molto' = [HandedBack EXCEPT !.slots = job.dev] /\ job' = NoJob
            \/ /\ job.kind = "tokenReset"
               /\ molto' = [HandedBack EXCEPT !.slots = NoDev] /\ job' = NoJob
    /\ UNCHANGED moltoFrame

----------------------------------------------------------------------------
Init ==
    /\ plugged \in SUBSET Devices
    /\ dirty = FALSE /\ scans = Burst /\ reread = FALSE \* the first frame scans
    /\ devices = {} /\ selected = NoDev /\ lost = NoDev
    /\ job = NoJob /\ fido = EmptyFido /\ retried = NoDev
    /\ molto = NoMolto /\ arm = NoArm /\ locked = FALSE
    /\ plugs = 0 /\ panics = 0 /\ fails = 0 /\ missed = FALSE

Apply ==
    \/ ApplyPanic \/ ApplyScan \/ ApplyScanFailure \/ ApplyInfo \/ ApplyUnlock \/ ApplySessionOp
    \/ ApplyDelete \/ ApplyCanceledEnroll \/ ApplyRefresh \/ ApplyPin \/ ApplyReset \/ ApplyOpen \/ ApplyTokenOp

User ==
    \/ \E d \in Devices : SelectDevice(d)
    \/ UserRefresh \/ TypePin \/ TryUnlock \/ LockSession \/ SessionOp \/ SubmitPin
    \/ ArmFidoReset \/ CancelReset
    \/ \E kind \in TokenOps \ {"resweep"} : TokenOp(kind)

Next ==
    \/ RunJob \/ Apply \/ User \/ IdleLock
    \/ NoticeHotplug \/ RefreshDevices \/ RetryDroppedInfoRead \/ PollResetArm
    \/ \E k \in Devices : Plug(k)

Spec == Init /\ [][Next]_vars

\* The worker runs its job and the frame loop goes on; the user does as he likes.
FairSpec ==
    Spec /\ WF_vars(RunJob) /\ WF_vars(Apply) /\ WF_vars(NoticeHotplug)
         /\ SF_vars(RefreshDevices) /\ SF_vars(RetryDroppedInfoRead)

----------------------------------------------------------------------------
(* Properties.                                                             *)

Kinds == {"none", "scan", "info", "unlock", "refresh", "deleteCred", "fidoOp", "enroll",
          "changePin", "setPin", "reset", "open"} \cup TokenOps
Jobs == [kind : Kinds, dev : Ids, sel : Ids, secret : Ids,
         out : {"none", "ok", "fail", "relock", "panic"}, seen : SUBSET Devices]
FidoPanes == [session : Ids, sessionDevice : Ids, pin : Ids, form : Ids, info : Ids, error : Ids]
MoltoPanes == [session : Ids, device : Ids, auth : Ids, slots : Ids]
Arms == [dev : Ids, gone : BOOLEAN, inserted : BOOLEAN]

\* Every field of the app holds a value of its kind, and at most one burst of scans
\* is pending (pending_scans never underflows).
TypeOK ==
    /\ plugged \subseteq Devices /\ devices \subseteq Devices
    /\ dirty \in BOOLEAN /\ reread \in BOOLEAN /\ locked \in BOOLEAN /\ missed \in BOOLEAN
    /\ scans \in 0 .. Burst
    /\ selected \in devices \cup {NoDev} /\ lost \in Ids /\ retried \in Ids
    /\ job \in Jobs
    /\ fido \in FidoPanes /\ molto \in MoltoPanes /\ arm \in Arms
    /\ plugs \in 0 .. MaxPlugs /\ panics \in 0 .. MaxPanics /\ fails \in 0 .. MaxFails

\* The pane shows the info of the selected key and holds the session of no other:
\* a read or an unlock that ends after the selection moved is dropped
\* (completion_still_valid in the apply closures).
PaneOfSelected ==
    /\ fido.info \in {NoDev, selected}
    /\ fido.session # NoDev => fido.session = selected /\ fido.sessionDevice = selected

\* "Never re-unlocking a key the user just locked" (apply_refreshed_session): between a
\* lock, by the user or the idle lock, and the next unlocking, no job that was under way
\* opens a session, with one exception: the end of delete_credential, which does not
\* look whether one is still open (LockSticks).
LockOutlivesJobs ==
    [][locked /\ fido.session = NoDev /\ fido'.session # NoDev => job.kind = "deleteCred"]_vars

\* What the user expects of Lock, which "ends access to passkeys, fingerprints and
\* settings alike" (cap_fido2): a key that was locked stays so until it is unlocked
\* again.  The end of delete_credential breaks it.
LockSticks == locked => fido.session = NoDev

\* A PIN is sent to the key it was typed for, and to no other key, however the
\* selection moved since it was typed (on_device_selected wipes what was typed,
\* fido_session refuses the session of another key).
PinToItsKey ==
    job.kind \in {"unlock", "changePin", "setPin", "refresh", "deleteCred", "fidoOp", "enroll"}
        => job.secret = job.dev

\* A Molto2 job talks to the token that was selected when it started, and one that
\* writes to the token does so under an authentication made to that token
\* (take_molto_session, ensure_auth).
TokenJobs ==
    /\ job.kind \in TokenOps => job.dev = job.sel
    /\ job.kind \in SecureOps => job.secret = job.dev

\* A FIDO reset goes out only while armed, to the key it was armed for and that is
\* selected, and only after that key was plugged in again (poll_reset_arm).
ResetAfterReplug ==
    [][job'.kind = "reset" /\ job.kind # "reset" =>
           arm.inserted /\ job'.dev = arm.dev /\ arm.dev = selected]_vars

\* No hotplug is forgotten: once no flag is raised, no scan is due and none is under way,
\* the list shows the keys that are connected, whatever jobs, armed resets, failed scans
\* and panics came in between (devices_dirty and the scan burst in update).  After a last
\* scan that failed, apply_device_scan_failure leaves an empty list and nothing scans
\* again until a hotplug or Refresh.
ListSettled ==
    ~dirty /\ scans = 0 /\ job.kind # "scan" /\ ~missed => devices = plugged

\* A key that was selected comes to show its info or an error, even if the read its
\* selection started was refused because another job was running
\* (retry_dropped_info_read).  A job that panicked may use up the one retry.
InfoComes ==
    \A k \in Keys :
        (selected = k /\ retried # k /\ panics = 0)
            ~> (fido.info # NoDev \/ fido.error # NoDev \/ selected # k \/ panics > 0)
=============================================================================
