--------------------------- MODULE AppSessionProofs ---------------------------
(***************************************************************************)
(* Theorems about AppSession, for any keys, tokens and bounds.             *)
(***************************************************************************)
EXTENDS AppSession, TLAPS

----------------------------------------------------------------------------
(* Type correctness.                                                       *)

LEMMA EmptyTypes ==
    /\ NoDev \in Ids
    /\ NoJob \in Jobs /\ EmptyFido \in FidoPanes /\ NoMolto \in MoltoPanes /\ NoArm \in Arms
BY DEF NoJob, EmptyFido, NoMolto, NoArm, Jobs, Kinds, FidoPanes, MoltoPanes, Arms, Ids

LEMMA SelectedType == TypeOK => selected \in Ids
BY DEF TypeOK, Ids

LEMMA JobTypes ==
    ASSUME TypeOK, NEW kind \in Kinds, NEW d \in Ids, NEW s \in Ids
    PROVE  Job(kind, d, s) \in Jobs
BY SelectedType DEF Job, Jobs

LEMMA ReadJobTypes ==
    ASSUME TypeOK, NEW d \in Ids
    PROVE  ReadJob(d) \in Jobs
BY EmptyTypes, SelectedType DEF ReadJob, Job, Jobs, Kinds

LEMMA SelectTypes ==
    ASSUME TypeOK, NEW d \in Ids, NEW busy \in BOOLEAN, OnDeviceSelected(d, busy)
    PROVE  /\ selected' = d /\ retried' \in Ids /\ job' \in Jobs
           /\ fido' \in FidoPanes /\ molto' \in MoltoPanes /\ arm' \in Arms
BY EmptyTypes, ReadJobTypes DEF OnDeviceSelected, ClearedFido, TypeOK

LEMMA TakeTypes ==
    ASSUME TypeOK, NEW kind \in TokenOps, NEW m \in MoltoPanes, NEW none \in Jobs,
           TakeSession(kind, m, none)
    PROVE  job' \in Jobs /\ molto' \in MoltoPanes
<1>1. kind \in Kinds
  BY DEF Kinds
<1>2. m.session \in Ids /\ m.auth \in Ids
  BY DEF MoltoPanes
<1>3. Job(kind, m.session, m.auth) \in Jobs
  BY <1>1, <1>2, JobTypes
<1>4. /\ [m EXCEPT !.session = NoDev] \in MoltoPanes
      /\ [m EXCEPT !.session = NoDev, !.device = NoDev] \in MoltoPanes
  BY EmptyTypes DEF MoltoPanes
<1> QED BY <1>3, <1>4 DEF TakeSession

LEMMA FetchTypes ==
    ASSUME TypeOK, NEW f \in FidoPanes, FetchInfo(f)
    PROVE  job' \in Jobs /\ fido' \in FidoPanes
<1>1. Job("info", selected, NoDev) \in Jobs
  BY EmptyTypes, SelectedType, JobTypes DEF Kinds
<1> QED BY <1>1, EmptyTypes DEF FetchInfo, FidoPanes

LEMMA FidoTypes ==
    ASSUME TypeOK,
           \/ ApplyInfo \/ ApplyUnlock \/ TypePin \/ TryUnlock \/ LockSession \/ IdleLock
           \/ SessionOp \/ ApplySessionOp \/ ApplyDelete \/ ApplyCanceledEnroll \/ ApplyRefresh
           \/ SubmitPin \/ ApplyPin \/ RetryDroppedInfoRead
    PROVE  TypeOK'
<1> USE EmptyTypes, SelectedType
<1>1. /\ fido \in FidoPanes /\ job \in Jobs
      /\ job.dev \in Ids /\ job.sel \in Ids /\ job.secret \in Ids
  BY DEF TypeOK, Jobs
<1>2. FidoSession \in Ids
  BY <1>1 DEF FidoSession, FidoPanes
<1>3. Locked(fido) \in FidoPanes
  BY <1>1 DEF Locked, FidoPanes
<1>4. FailSessionOp \in FidoPanes
  BY <1>1, <1>3 DEF FailSessionOp, FidoPanes
<1>5. job' \in Jobs /\ fido' \in FidoPanes /\ retried' \in Ids /\ locked' \in BOOLEAN
  <2>1. CASE ApplyInfo
    BY <2>1, <1>1 DEF ApplyInfo, FidoPanes, TypeOK
  <2>2. CASE ApplyUnlock
    BY <2>2, <1>1 DEF ApplyUnlock, FidoPanes, TypeOK
  <2>3. CASE TypePin
    BY <2>3, <1>1 DEF TypePin, FidoPanes, TypeOK
  <2>4. CASE TryUnlock
    <3>1. Job("unlock", selected, fido.pin) \in Jobs
      BY <1>1, JobTypes DEF FidoPanes, Kinds
    <3> QED BY <3>1, <2>4, <1>1 DEF TryUnlock, FidoPanes, TypeOK
  <2>5. CASE LockSession
    BY <2>5, <1>1, <1>3 DEF LockSession, TypeOK
  <2>6. CASE IdleLock
    BY <2>6, <1>1, <1>3 DEF IdleLock, FidoPanes, TypeOK
  <2>7. CASE SessionOp
    <3>1. \A kind \in {"refresh", "deleteCred", "fidoOp", "enroll"} : Job(kind, selected, FidoSession) \in Jobs
      BY <1>2, JobTypes DEF Kinds
    <3> QED BY <3>1, <2>7, <1>1 DEF SessionOp, TypeOK
  <2>8. CASE ApplySessionOp
    <3>1. FetchInfo(fido) => job' \in Jobs /\ fido' \in FidoPanes
      BY <1>1, FetchTypes
    <3>2. [fido EXCEPT !.error = NoDev] \in FidoPanes
      BY <1>1 DEF FidoPanes
    <3> QED BY <3>1, <3>2, <2>8, <1>1, <1>4 DEF ApplySessionOp, TypeOK
  <2>9. CASE ApplyCanceledEnroll
    <3>1. Job("fidoOp", selected, FidoSession) \in Jobs
      BY <1>2, JobTypes DEF Kinds
    <3>2. [fido EXCEPT !.error = NoDev] \in FidoPanes /\ [fido EXCEPT !.error = selected] \in FidoPanes
      BY <1>1 DEF FidoPanes
    <3> QED BY <3>1, <3>2, <2>9, <1>1 DEF ApplyCanceledEnroll, TypeOK
  <2>10. CASE ApplyRefresh
    <3>1. [fido EXCEPT !.session = NoDev, !.sessionDevice = NoDev] \in FidoPanes
      BY <1>1 DEF FidoPanes
    <3>2. [fido EXCEPT !.session = job.dev] \in FidoPanes
      BY <1>1 DEF FidoPanes
    <3> QED BY <3>1, <3>2, <2>10, <1>1, <1>4 DEF ApplyRefresh, TypeOK
  <2>11. CASE SubmitPin
    <3>1. \A kind \in {"changePin", "setPin"} : Job(kind, selected, fido.form) \in Jobs
      BY <1>1, JobTypes DEF Kinds, FidoPanes
    <3> QED BY <3>1, <2>11, <1>1 DEF SubmitPin, FidoPanes, TypeOK
  <2>12. CASE ApplyPin
    <3>1. \A f \in FidoPanes : FetchInfo(f) => job' \in Jobs /\ fido' \in FidoPanes
      BY FetchTypes
    <3>2. [fido EXCEPT !.form = NoDev] \in FidoPanes /\ [fido EXCEPT !.error = job.dev] \in FidoPanes
      BY <1>1 DEF FidoPanes
    <3> QED BY <3>1, <3>2, <2>12, <1>1, <1>3 DEF ApplyPin, TypeOK
  <2>13. CASE RetryDroppedInfoRead
    <3>1. FetchInfo(fido) => job' \in Jobs /\ fido' \in FidoPanes
      BY <1>1, FetchTypes
    <3> QED BY <3>1, <2>13 DEF RetryDroppedInfoRead, TypeOK
  <2>14. CASE ApplyDelete
    <3>1. [fido EXCEPT !.session = job.dev, !.sessionDevice = job.sel, !.error = NoDev] \in FidoPanes
      BY <1>1 DEF FidoPanes
    <3> QED BY <3>1, <2>14, <1>1, <1>4 DEF ApplyDelete, TypeOK
  <2> QED BY <2>1, <2>2, <2>3, <2>4, <2>5, <2>6, <2>7, <2>8, <2>9, <2>10, <2>11, <2>12, <2>13, <2>14
<1>6. UNCHANGED fidoFrame
  BY DEF ApplyInfo, ApplyUnlock, TypePin, TryUnlock, LockSession, IdleLock, SessionOp,
         ApplySessionOp, ApplyDelete, ApplyCanceledEnroll, ApplyRefresh, SubmitPin, ApplyPin,
         RetryDroppedInfoRead
<1> QED BY <1>5, <1>6 DEF TypeOK, fidoFrame, hotplug, list, bounds

LEMMA ResetTypes ==
    ASSUME TypeOK, ArmFidoReset \/ CancelReset \/ PollResetArm \/ ApplyReset
    PROVE  TypeOK'
<1> USE EmptyTypes, SelectedType
<1>1. /\ fido \in FidoPanes /\ arm \in Arms /\ job \in Jobs /\ job.dev \in Ids /\ arm.dev \in Ids
  BY DEF TypeOK, Jobs, Arms
<1>2. job' \in Jobs /\ fido' \in FidoPanes /\ arm' \in Arms
  <2>1. CASE ArmFidoReset
    BY <2>1, <1>1 DEF ArmFidoReset, NoArm, Arms
  <2>2. CASE CancelReset
    BY <2>2, <1>1 DEF CancelReset
  <2>3. CASE PollResetArm
    <3>1. Job("reset", arm.dev, NoDev) \in Jobs
      BY <1>1, JobTypes DEF Kinds
    <3> QED BY <3>1, <2>3, <1>1 DEF PollResetArm, Arms
  <2>4. CASE ApplyReset
    <3>1. /\ [fido EXCEPT !.session = NoDev] \in FidoPanes
          /\ [fido EXCEPT !.error = job.dev] \in FidoPanes
      BY <1>1 DEF FidoPanes
    <3>2. FetchInfo([fido EXCEPT !.session = NoDev]) => job' \in Jobs /\ fido' \in FidoPanes
      BY <3>1, FetchTypes
    <3> QED BY <3>1, <3>2, <2>4, <1>1 DEF ApplyReset
  <2> QED BY <2>1, <2>2, <2>3, <2>4
<1>3. UNCHANGED resetFrame
  BY DEF ArmFidoReset, CancelReset, PollResetArm, ApplyReset
<1> QED BY <1>2, <1>3 DEF TypeOK, resetFrame, hotplug, list, bounds

LEMMA MoltoTypes ==
    ASSUME TypeOK, ApplyOpen \/ ApplyTokenOp \/ \E kind \in TokenOps : TokenOp(kind)
    PROVE  TypeOK'
<1> USE EmptyTypes, SelectedType
<1>1. /\ molto \in MoltoPanes /\ job \in Jobs /\ job.dev \in Ids /\ job.sel \in Ids
  BY DEF TypeOK, Jobs
<1>2. HandedBack \in MoltoPanes
  BY <1>1 DEF HandedBack, MoltoPanes
<1>3. job' \in Jobs /\ molto' \in MoltoPanes
  <2>1. CASE ApplyOpen
    BY <2>1, <1>1 DEF ApplyOpen, MoltoPanes
  <2>2. CASE ApplyTokenOp
    <3>1. TakeSession("resweep", HandedBack, NoJob) => job' \in Jobs /\ molto' \in MoltoPanes
      BY <1>2, TakeTypes DEF TokenOps
    <3>2. /\ [HandedBack EXCEPT !.auth = job.dev] \in MoltoPanes
          /\ [HandedBack EXCEPT !.slots = job.dev] \in MoltoPanes
          /\ [HandedBack EXCEPT !.slots = NoDev] \in MoltoPanes
      BY <1>1, <1>2 DEF MoltoPanes
    <3> QED BY <3>1, <3>2, <2>2, <1>2 DEF ApplyTokenOp
  <2>3. ASSUME NEW kind \in TokenOps, TokenOp(kind) PROVE job' \in Jobs /\ molto' \in MoltoPanes
    BY <2>3, <1>1, TakeTypes DEF TokenOp
  <2> QED BY <2>1, <2>2, <2>3
<1>4. UNCHANGED moltoFrame
  BY DEF ApplyOpen, ApplyTokenOp, TokenOp
<1> QED BY <1>3, <1>4 DEF TypeOK, moltoFrame, hotplug, list, bounds

\* What a scan makes of the selection: the selected key is on the new list, or none is.
LEMMA ReconciledTypes ==
    ASSUME TypeOK, NEW new \in SUBSET Devices, NEW r \in Reconciled(new)
    PROVE  r[1] \in new \cup {NoDev} /\ r[1] \in Ids /\ r[2] \in Ids
BY EmptyTypes, SelectedType DEF Reconciled, TypeOK, Ids

LEMMA RereadTypes ==
    ASSUME TypeOK, RereadOpenTab
    PROVE  job' \in Jobs /\ fido' \in FidoPanes /\ molto' \in MoltoPanes
<1> USE EmptyTypes, SelectedType
<1>1. fido \in FidoPanes /\ molto \in MoltoPanes /\ FidoSession \in Ids
  BY DEF TypeOK, FidoSession, FidoPanes
<1>2. TakeSession("resweep", molto, NoJob) => job' \in Jobs /\ molto' \in MoltoPanes
  BY <1>1, TakeTypes DEF TokenOps
<1>3. /\ Job("refresh", selected, FidoSession) \in Jobs /\ Job("fidoOp", selected, FidoSession) \in Jobs
      /\ ReadJob(selected) \in Jobs
  BY <1>1, JobTypes, ReadJobTypes DEF Kinds
<1>4. [fido EXCEPT !.info = NoDev, !.error = NoDev] \in FidoPanes
  BY <1>1 DEF FidoPanes
<1> QED BY <1>1, <1>2, <1>3, <1>4 DEF RereadOpenTab

LEMMA ScanTypes ==
    ASSUME TypeOK, ApplyScan \/ ApplyScanFailure
    PROVE  TypeOK'
<1> USE EmptyTypes, SelectedType
<1>1. UNCHANGED <<plugged, dirty, plugs, scans, locked, panics, fails, missed>> /\ reread' = FALSE
  BY DEF ApplyScan, ApplyScanFailure, hotplug, bounds
<1>2. /\ devices' \subseteq Devices /\ selected' \in devices' \cup {NoDev}
      /\ lost' \in Ids /\ retried' \in Ids /\ job' \in Jobs
      /\ fido' \in FidoPanes /\ molto' \in MoltoPanes /\ arm' \in Arms
  <2>1. CASE ApplyScan
    <3>1. job.seen \in SUBSET Devices
      BY DEF TypeOK, Jobs
    <3>2. PICK r \in Reconciled(job.seen) :
              /\ lost' = r[2]
              /\ \/ r[1] # selected /\ OnDeviceSelected(r[1], FALSE)
                 \/ /\ r[1] = selected
                    /\ IF reread /\ selected # NoDev THEN RereadOpenTab
                       ELSE job' = NoJob /\ UNCHANGED <<fido, molto>>
                    /\ UNCHANGED <<selected, arm, retried>>
      BY <2>1 DEF ApplyScan
    <3>3. r[1] \in job.seen \cup {NoDev} /\ r[1] \in Ids /\ r[2] \in Ids
      BY <3>1, <3>2, ReconciledTypes
    <3>4. devices' = job.seen
      BY <2>1 DEF ApplyScan
    <3>5. CASE r[1] # selected /\ OnDeviceSelected(r[1], FALSE)
      BY <3>1, <3>2, <3>3, <3>4, <3>5, SelectTypes
    <3>6. CASE r[1] = selected
      BY <3>1, <3>2, <3>3, <3>4, <3>6, RereadTypes DEF OnDeviceSelected, TypeOK
    <3> QED BY <3>2, <3>5, <3>6
  <2>2. CASE ApplyScanFailure
    <3>1. OnDeviceSelected(NoDev, FALSE) =>
              /\ selected' = NoDev /\ retried' \in Ids /\ job' \in Jobs
              /\ fido' \in FidoPanes /\ molto' \in MoltoPanes /\ arm' \in Arms
      BY SelectTypes
    <3> QED BY <3>1, <2>2 DEF ApplyScanFailure, TypeOK
  <2> QED BY <2>1, <2>2
<1> QED BY <1>1, <1>2 DEF TypeOK

LEMMA WorkerTypes ==
    ASSUME TypeOK,
           \/ RunJob \/ ApplyPanic \/ NoticeHotplug \/ UserRefresh \/ RefreshDevices
           \/ \E d \in Devices : SelectDevice(d) \/ Plug(d)
    PROVE  TypeOK'
<1> USE EmptyTypes, SelectedType, AppSessionAssumption
<1>1. CASE RunJob
  <2>1. job \in Jobs /\ plugged \in SUBSET Devices
    BY DEF TypeOK
  <2>2. \E out \in {"ok", "fail", "relock", "panic"}, seen \in {job.seen, plugged} :
            job' = [job EXCEPT !.out = out, !.seen = seen]
    BY <2>1, <1>1 DEF RunJob, Jobs
  <2>3. job' \in Jobs
    BY <2>1, <2>2 DEF Jobs
  <2>4. panics \in 0 .. MaxPanics /\ fails \in 0 .. MaxFails
    BY DEF TypeOK
  <2>5. panics' \in 0 .. MaxPanics /\ fails' \in 0 .. MaxFails
    BY <2>4, <1>1 DEF RunJob, bounds
  <2>6. missed' \in BOOLEAN
    BY <1>1, Zenon DEF RunJob, TypeOK, bounds
  <2> QED BY <2>3, <2>5, <2>6, <1>1 DEF RunJob, TypeOK, hotplug, list
<1>2. CASE ApplyPanic
  BY <1>2 DEF ApplyPanic, TypeOK, hotplug, list, bounds
<1>3. CASE NoticeHotplug
  <2>1. scans' \in 0 .. Burst
    BY <1>3 DEF NoticeHotplug, ScheduledScans
  <2> QED BY <2>1, <1>3 DEF NoticeHotplug, TypeOK, bounds
<1>4. CASE UserRefresh
  BY <1>4 DEF UserRefresh, TypeOK, hotplug, bounds
<1>5. CASE RefreshDevices
  <2>1. Job("scan", NoDev, NoDev) \in Jobs
    BY JobTypes DEF Kinds
  <2>2. scans' \in 0 .. Burst
    BY <1>5 DEF RefreshDevices, TypeOK
  <2> QED BY <2>1, <2>2, <1>5 DEF RefreshDevices, TypeOK, hotplug, bounds
<1>6. ASSUME NEW d \in Devices, SelectDevice(d) PROVE TypeOK'
  <2>1. d \in Ids /\ Busy \in BOOLEAN
    BY DEF Ids, Busy
  <2>2. OnDeviceSelected(d, Busy) =>
            /\ selected' = d /\ retried' \in Ids /\ job' \in Jobs
            /\ fido' \in FidoPanes /\ molto' \in MoltoPanes /\ arm' \in Arms
    BY <2>1, SelectTypes
  <2> QED BY <2>2, <1>6 DEF SelectDevice, TypeOK, hotplug, bounds
<1>7. ASSUME NEW d \in Devices, Plug(d) PROVE TypeOK'
  <2>1. arm \in Arms /\ plugs \in 0 .. MaxPlugs /\ plugged \subseteq Devices
    BY DEF TypeOK
  <2>2. plugs' \in 0 .. MaxPlugs
    BY <2>1, <1>7 DEF Plug
  <2>3. arm' \in Arms /\ plugged' \subseteq Devices
    BY <2>1, <1>7 DEF Plug, Arms
  <2> QED BY <2>2, <2>3, <1>7 DEF Plug, TypeOK, list, bounds
<1> QED BY <1>1, <1>2, <1>3, <1>4, <1>5, <1>6, <1>7

LEMMA InitTypes == Init => TypeOK
<1>1. Init => /\ scans \in 0 .. Burst /\ plugs \in 0 .. MaxPlugs
              /\ panics \in 0 .. MaxPanics /\ fails \in 0 .. MaxFails
  BY AppSessionAssumption DEF Init
<1> QED BY <1>1, EmptyTypes DEF Init, TypeOK

\* Every action keeps the types.
LEMMA StepTypes ==
    ASSUME TypeOK, [Next]_vars
    PROVE  TypeOK'
<1>1. CASE UNCHANGED vars
  BY <1>1 DEF TypeOK, vars
<1>2. CASE Next
  <2>1. CASE Apply
    BY <2>1, FidoTypes, ResetTypes, MoltoTypes, ScanTypes, WorkerTypes DEF Apply
  <2>2. CASE User
    BY <2>2, FidoTypes, ResetTypes, MoltoTypes, WorkerTypes DEF User
  <2> QED BY <1>2, <2>1, <2>2, FidoTypes, ResetTypes, WorkerTypes DEF Next
<1> QED BY <1>1, <1>2

\* The app's fields keep their types and no more than one burst of scans is pending,
\* for any number of keys, tokens, hotplugs, panics and failed scans.
THEOREM TypeCorrect == Spec => []TypeOK
<1>1. Init => TypeOK
  BY InitTypes
<1>2. TypeOK /\ [Next]_vars => TypeOK'
  BY StepTypes
<1> QED BY <1>1, <1>2, PTL DEF Spec

----------------------------------------------------------------------------
(* The inductive invariant.                                                *)

PinOps == {"unlock", "changePin", "setPin", "refresh", "deleteCred", "fidoOp", "enroll"}

\* A job talks to the key that was selected when it started, under a PIN or an
\* authentication of that key, and a token's job to the token the pane is open on, if
\* it is open.  While an unlock is under way there is no session, so nothing locks.
JobInv ==
    /\ job.kind \notin {"none", "scan"} => job.dev = job.sel
    /\ job.kind \in PinOps \cup SecureOps => job.secret = job.dev
    /\ job.kind = "unlock" => ~locked /\ fido.session = NoDev
    /\ job.kind \in TokenOps /\ molto.device # NoDev => job.dev = molto.device

\* What was typed was typed for the selected key.
PaneInv ==
    /\ PaneOfSelected
    /\ fido.pin \in {NoDev, selected} /\ fido.form \in {NoDev, selected}

\* An open Molto2 pane holds the session and the authentication of its token.
MoltoInv ==
    molto.device # NoDev =>
        molto.session \in {NoDev, molto.device} /\ molto.auth \in {NoDev, molto.device}

\* A key that was seen gone and is there again was plugged in after it was armed.
ArmInv == arm.gone /\ arm.dev \in plugged => arm.inserted

Inv == TypeOK /\ JobInv /\ PaneInv /\ MoltoInv /\ ArmInv

\* The records, as the provers use them.
LEMMA Fields ==
    ASSUME Inv
    PROVE  /\ job \in Jobs /\ fido \in FidoPanes /\ molto \in MoltoPanes /\ arm \in Arms
           /\ selected \in Ids /\ NoDev \in Ids
BY SelectedType, EmptyTypes DEF Inv, TypeOK

LEMMA JobFields ==
    ASSUME NEW kind, NEW d, NEW s
    PROVE  /\ Job(kind, d, s).kind = kind /\ Job(kind, d, s).dev = d
           /\ Job(kind, d, s).sel = selected /\ Job(kind, d, s).secret = s
           /\ NoJob.kind = "none"
BY DEF Job, NoJob

LEMMA ReadJobFields ==
    ASSUME NEW d
    PROVE  /\ ReadJob(d).kind \in {"none", "info", "open"}
           /\ ReadJob(d).kind # "none" => ReadJob(d).dev = d /\ ReadJob(d).sel = d
BY DEF ReadJob, Job, NoJob

\* A change of the selection empties the panes and leaves the job, which then talks
\* to a key that is not shown, or starts a read of the newly selected key.
LEMMA SelectKeeps ==
    ASSUME Inv, NEW d \in Ids, NEW busy \in BOOLEAN, OnDeviceSelected(d, busy), UNCHANGED locked
    PROVE  JobInv' /\ PaneInv' /\ MoltoInv' /\ ArmInv'
<1>1. /\ selected' = d /\ fido' = EmptyFido /\ molto' = NoMolto /\ arm' = NoArm
      /\ job' \in {job, ReadJob(d)}
  BY DEF OnDeviceSelected, ClearedFido
<1>2. PaneInv' /\ MoltoInv' /\ ArmInv'
  BY <1>1 DEF PaneInv, PaneOfSelected, EmptyFido, MoltoInv, NoMolto, ArmInv, NoArm
<1>3. JobInv'
  BY <1>1, ReadJobFields DEF JobInv, Inv, EmptyFido, NoMolto, PinOps, SecureOps, TokenOps
<1> QED BY <1>2, <1>3

\* Taking the session along: the job talks to the token the pane is open on.
LEMMA TakeKeeps ==
    ASSUME Inv, NEW kind \in TokenOps, NEW m \in MoltoPanes, NEW none \in Jobs,
           TakeSession(kind, m, none), none.kind = "none",
           m.device = molto.device,
           m.device # NoDev => m.session \in {NoDev, m.device} /\ m.auth \in {NoDev, m.device},
           kind \in SecureOps => m.auth # NoDev
    PROVE  MoltoInv' /\ (UNCHANGED <<fido, locked>> => JobInv')
<1>1. CASE MoltoUsable /\ m.session # NoDev
  <2>1. /\ job'.kind = kind /\ job'.dev = m.session /\ job'.secret = m.auth /\ job'.sel = selected
        /\ molto' = [m EXCEPT !.session = NoDev]
    BY <1>1, JobFields DEF TakeSession
  <2>2. m.device = selected /\ m.session = selected /\ m.auth \in {NoDev, selected}
    BY <1>1 DEF MoltoUsable, CompletionStillValid
  <2>3. molto'.device = selected /\ molto'.session = NoDev /\ molto'.auth = m.auth
    BY <2>1, <2>2 DEF MoltoPanes
  <2> QED BY <2>1, <2>2, <2>3 DEF JobInv, MoltoInv, PinOps, TokenOps, SecureOps
<1>2. CASE ~(MoltoUsable /\ m.session # NoDev)
  <2>1. job' = none /\ molto' \in {m, [m EXCEPT !.session = NoDev, !.device = NoDev]}
    BY <1>2 DEF TakeSession
  <2> QED BY <2>1 DEF JobInv, MoltoInv, MoltoPanes, PinOps, TokenOps, SecureOps
<1> QED BY <1>1, <1>2

\* A job for the selected key, started while the panes are `fido'` and `molto'`.
LEMMA StartsJob ==
    ASSUME NEW kind \in {"info", "refresh", "deleteCred", "fidoOp", "enroll", "changePin", "setPin"},
           NEW s,
           job' \in {Job(kind, selected, s), NoJob},
           kind # "info" => s = selected
    PROVE  JobInv'
BY JobFields DEF JobInv, PinOps, SecureOps, TokenOps

LEMMA NoJobKeeps == job' = NoJob => JobInv'
BY JobFields DEF JobInv, PinOps, SecureOps, TokenOps

LEMMA FetchKeeps ==
    ASSUME NEW f, FetchInfo(f)
    PROVE  JobInv'
BY StartsJob DEF FetchInfo

\* The session that may be used is the selected key's.
LEMMA SessionOfSelected ==
    ASSUME Inv, FidoSession # NoDev
    PROVE  FidoSession = selected
BY DEF Inv, PaneInv, PaneOfSelected, FidoSession

\* The FIDO pane after an action that touches only it and the worker.
LEMMA FidoKeeps ==
    ASSUME Inv,
           \/ ApplyInfo \/ ApplyUnlock \/ TypePin \/ TryUnlock \/ LockSession \/ IdleLock
           \/ SessionOp \/ ApplySessionOp \/ ApplyDelete \/ ApplyCanceledEnroll \/ ApplyRefresh
           \/ SubmitPin \/ ApplyPin \/ RetryDroppedInfoRead
    PROVE  Inv'
<1> USE Fields DEF FidoPanes
<1>1. TypeOK'
  BY FidoTypes DEF Inv
<1>2. UNCHANGED fidoFrame
  BY DEF ApplyInfo, ApplyUnlock, TypePin, TryUnlock, LockSession, IdleLock, SessionOp,
         ApplySessionOp, ApplyDelete, ApplyCanceledEnroll, ApplyRefresh, SubmitPin, ApplyPin,
         RetryDroppedInfoRead
<1>3. selected' = selected /\ molto' = molto /\ MoltoInv' /\ ArmInv'
  BY <1>2 DEF fidoFrame, hotplug, Inv, MoltoInv, ArmInv
<1>4. StillValid => job.sel = selected
  BY DEF StillValid, CompletionStillValid
<1>5. JobInv' /\ PaneInv'
  <2> USE <1>3 DEF PaneInv, PaneOfSelected
  <2>1. CASE ApplyInfo
    <3>1. JobInv'
      BY <2>1, NoJobKeeps DEF ApplyInfo
    <3>2. PaneInv'
      BY <2>1, <1>4 DEF ApplyInfo, Finished, Inv, JobInv
    <3> QED BY <3>1, <3>2
  <2>2. CASE ApplyUnlock
    <3>1. JobInv'
      BY <2>2, NoJobKeeps DEF ApplyUnlock
    <3>2. PaneInv'
      BY <2>2, <1>4 DEF ApplyUnlock, Finished, Inv, JobInv, PinOps
    <3> QED BY <3>1, <3>2
  <2>3. CASE TypePin
    <3>1. JobInv'
      BY <2>3 DEF TypePin, Inv, JobInv
    <3>2. PaneInv'
      BY <2>3 DEF TypePin, Inv
    <3> QED BY <3>1, <3>2
  <2>4. CASE TryUnlock
    <3>1. JobInv'
      <4>1. CASE fido.pin # NoDev
        <5>1. /\ job' = Job("unlock", selected, fido.pin) /\ locked' = FALSE
              /\ fido.session = NoDev /\ fido' = [fido EXCEPT !.pin = NoDev]
          BY <4>1, <2>4 DEF TryUnlock
        <5>2. fido.pin = selected /\ fido'.session = NoDev
          BY <4>1, <5>1 DEF Inv
        <5> QED BY <5>1, <5>2, JobFields DEF JobInv, PinOps, SecureOps, TokenOps
      <4>2. CASE fido.pin = NoDev
        BY <4>2, <2>4 DEF TryUnlock, Inv, JobInv
      <4> QED BY <4>1, <4>2
    <3>2. PaneInv'
      BY <2>4 DEF TryUnlock, Inv
    <3> QED BY <3>1, <3>2
  <2>5. CASE LockSession
    <3>1. JobInv'
      BY <2>5 DEF LockSession, Inv, JobInv
    <3>2. PaneInv'
      BY <2>5 DEF LockSession, Locked, Inv
    <3> QED BY <3>1, <3>2
  <2>6. CASE IdleLock
    <3>1. JobInv'
      BY <2>6 DEF IdleLock, Busy, Inv, JobInv, PinOps, SecureOps, TokenOps
    <3>2. PaneInv'
      BY <2>6 DEF IdleLock, Locked, Inv
    <3> QED BY <3>1, <3>2
  <2>7. CASE SessionOp
    <3>1. JobInv'
      BY <2>7, SessionOfSelected, StartsJob DEF SessionOp
    <3>2. PaneInv'
      BY <2>7 DEF SessionOp, Inv
    <3> QED BY <3>1, <3>2
  <2>8. CASE ApplySessionOp
    <3>1. JobInv'
      BY <2>8, NoJobKeeps, FetchKeeps DEF ApplySessionOp
    <3>2. PaneInv'
      BY <2>8, <1>4 DEF ApplySessionOp, FailSessionOp, Locked, FetchInfo, Inv
    <3> QED BY <3>1, <3>2
  <2>9. CASE ApplyCanceledEnroll
    <3>1. JobInv'
      BY <2>9, NoJobKeeps, SessionOfSelected, StartsJob DEF ApplyCanceledEnroll
    <3>2. PaneInv'
      BY <2>9 DEF ApplyCanceledEnroll, Inv
    <3> QED BY <3>1, <3>2
  <2>10. CASE ApplyRefresh
    <3>1. JobInv'
      BY <2>10, NoJobKeeps DEF ApplyRefresh
    <3>2. PaneInv'
      BY <2>10, <1>4 DEF ApplyRefresh, SessionStillOpen, FailSessionOp, Locked, Finished, Inv, JobInv
    <3> QED BY <3>1, <3>2
  <2>11. CASE SubmitPin
    <3>1. JobInv'
      <4>1. CASE fido.form # NoDev /\ \E kind \in {"changePin", "setPin"} : job' = Job(kind, selected, fido.form)
        BY <4>1, StartsJob DEF Inv
      <4>2. CASE fido' = [fido EXCEPT !.form = NoDev, !.error = selected] /\ UNCHANGED job
        BY <4>2, <2>11 DEF SubmitPin, Inv, JobInv
      <4> QED BY <4>1, <4>2, <2>11 DEF SubmitPin
    <3>2. PaneInv'
      BY <2>11 DEF SubmitPin, Inv
    <3> QED BY <3>1, <3>2
  <2>12. CASE ApplyPin
    <3>1. JobInv'
      BY <2>12, NoJobKeeps, FetchKeeps DEF ApplyPin
    <3>2. PaneInv'
      BY <2>12 DEF ApplyPin, FetchInfo, Locked, Inv
    <3> QED BY <3>1, <3>2
  <2>13. CASE RetryDroppedInfoRead
    <3>1. JobInv'
      BY <2>13, FetchKeeps DEF RetryDroppedInfoRead
    <3>2. PaneInv'
      BY <2>13 DEF RetryDroppedInfoRead, FetchInfo, Inv
    <3> QED BY <3>1, <3>2
  <2>14. CASE ApplyDelete
    <3>1. JobInv'
      BY <2>14, NoJobKeeps DEF ApplyDelete
    <3>2. PaneInv'
      BY <2>14, <1>4 DEF ApplyDelete, FailSessionOp, Locked, Finished, Inv, JobInv
    <3> QED BY <3>1, <3>2
  <2> QED BY <2>1, <2>2, <2>3, <2>4, <2>5, <2>6, <2>7, <2>8, <2>9, <2>10, <2>11, <2>12, <2>13, <2>14
<1> QED BY <1>1, <1>3, <1>5 DEF Inv

LEMMA ResetKeeps ==
    ASSUME Inv, ArmFidoReset \/ CancelReset \/ PollResetArm \/ ApplyReset
    PROVE  Inv'
<1> USE Fields DEF Arms
<1>1. TypeOK'
  BY ResetTypes DEF Inv
<1>2. UNCHANGED resetFrame
  BY DEF ArmFidoReset, CancelReset, PollResetArm, ApplyReset
<1>3. UNCHANGED <<selected, molto, plugged, locked>> /\ MoltoInv'
  BY <1>2 DEF resetFrame, hotplug, Inv, MoltoInv
<1>4. JobInv' /\ PaneInv' /\ ArmInv'
  <2> USE <1>3
  <2>1. CASE ArmFidoReset
    BY <2>1 DEF ArmFidoReset, NoArm, Inv, JobInv, PaneInv, PaneOfSelected, ArmInv
  <2>2. CASE CancelReset
    BY <2>2 DEF CancelReset, NoArm, Inv, JobInv, PaneInv, PaneOfSelected, ArmInv
  <2>3. CASE PollResetArm
    <3>1. ArmInv'
      BY <2>3 DEF PollResetArm, NoArm, Inv, ArmInv
    <3>2. job' = job \/ (job' = Job("reset", arm.dev, NoDev) /\ arm.dev = selected)
      BY <2>3 DEF PollResetArm, CompletionStillValid
    <3>3. fido' = fido
      BY <2>3 DEF PollResetArm
    <3>4. JobInv'
      BY <3>2, <3>3, JobFields DEF Inv, JobInv, PinOps, SecureOps, TokenOps
    <3> QED BY <3>1, <3>3, <3>4 DEF Inv, PaneInv, PaneOfSelected
  <2>4. CASE ApplyReset
    <3>1. JobInv'
      BY <2>4, NoJobKeeps, FetchKeeps DEF ApplyReset
    <3>2. PaneInv'
      BY <2>4 DEF ApplyReset, FetchInfo, FidoPanes, Inv, PaneInv, PaneOfSelected
    <3>3. ArmInv'
      BY <2>4 DEF ApplyReset, Inv, ArmInv
    <3> QED BY <3>1, <3>2, <3>3
  <2> QED BY <2>1, <2>2, <2>3, <2>4
<1> QED BY <1>1, <1>3, <1>4 DEF Inv

LEMMA MoltoKeeps ==
    ASSUME Inv, ApplyOpen \/ ApplyTokenOp \/ \E kind \in TokenOps : TokenOp(kind)
    PROVE  Inv'
<1> USE Fields
<1>1. TypeOK'
  BY MoltoTypes DEF Inv
<1>2. UNCHANGED moltoFrame
  BY DEF ApplyOpen, ApplyTokenOp, TokenOp
<1>3. UNCHANGED <<fido, locked>> /\ PaneInv' /\ ArmInv'
  BY <1>2 DEF moltoFrame, hotplug, Inv, PaneInv, PaneOfSelected, ArmInv
<1>4. JobInv' /\ MoltoInv'
  <2>1. CASE ApplyOpen
    <3>1. JobInv'
      BY <2>1, NoJobKeeps DEF ApplyOpen
    <3>2. MoltoInv'
      BY <2>1 DEF ApplyOpen, Finished, Inv, JobInv, MoltoInv
    <3> QED BY <3>1, <3>2
  <2>2. CASE ApplyTokenOp
    <3>1. /\ HandedBack \in MoltoPanes /\ HandedBack.device = molto.device
          /\ HandedBack.session = job.dev /\ HandedBack.auth = molto.auth
      BY DEF HandedBack, MoltoPanes, Jobs
    <3>2. molto.device # NoDev => job.dev = molto.device /\ molto.auth \in {NoDev, molto.device}
      BY <2>2 DEF ApplyTokenOp, Inv, JobInv, MoltoInv
    <3>3. CASE TakeSession("resweep", HandedBack, NoJob)
      <4>1. NoJob \in Jobs /\ NoJob.kind = "none" /\ "resweep" \in TokenOps /\ "resweep" \notin SecureOps
        BY EmptyTypes, JobFields DEF TokenOps, SecureOps
      <4>2. MoltoInv' /\ (UNCHANGED <<fido, locked>> => JobInv')
        BY <3>1, <3>2, <3>3, <4>1, TakeKeeps
      <4> QED BY <4>2, <1>3
    <3>4. CASE /\ job' = NoJob
               /\ \E a \in {molto.auth, job.dev}, sl \in {molto.slots, job.dev, NoDev} :
                      molto' = [HandedBack EXCEPT !.auth = a, !.slots = sl]
      <4>1. MoltoInv'
        BY <3>1, <3>2, <3>4 DEF MoltoInv, MoltoPanes
      <4> QED BY <4>1, <3>4, NoJobKeeps
    <3>5. /\ HandedBack = [HandedBack EXCEPT !.auth = molto.auth, !.slots = molto.slots]
          /\ [HandedBack EXCEPT !.auth = job.dev] = [HandedBack EXCEPT !.auth = job.dev, !.slots = molto.slots]
          /\ [HandedBack EXCEPT !.slots = job.dev] = [HandedBack EXCEPT !.auth = molto.auth, !.slots = job.dev]
          /\ [HandedBack EXCEPT !.slots = NoDev] = [HandedBack EXCEPT !.auth = molto.auth, !.slots = NoDev]
      BY DEF HandedBack, MoltoPanes
    <3> QED BY <3>3, <3>4, <3>5, <2>2 DEF ApplyTokenOp
  <2>3. ASSUME NEW kind \in TokenOps, TokenOp(kind) PROVE JobInv' /\ MoltoInv'
    <3>1. /\ TakeSession(kind, molto, job) /\ job.kind = "none"
          /\ kind \in SecureOps => molto.auth # NoDev
      BY <2>3 DEF TokenOp, Busy
    <3>2. MoltoInv' /\ (UNCHANGED <<fido, locked>> => JobInv')
      BY <3>1, TakeKeeps DEF Inv, MoltoInv
    <3> QED BY <3>2, <1>3
  <2> QED BY <2>1, <2>2, <2>3
<1> QED BY <1>1, <1>3, <1>4 DEF Inv

LEMMA RereadKeeps ==
    ASSUME Inv, RereadOpenTab, UNCHANGED <<selected, arm, plugged, locked>>
    PROVE  JobInv' /\ PaneInv' /\ MoltoInv' /\ ArmInv'
<1> USE Fields
<1>1. ArmInv'
  BY DEF ArmInv, Inv
<1>2. CASE selected \in Tokens
  <2>1. TakeSession("resweep", molto, NoJob) /\ UNCHANGED fido
    BY <1>2 DEF RereadOpenTab
  <2>2. NoJob \in Jobs /\ NoJob.kind = "none" /\ "resweep" \in TokenOps /\ "resweep" \notin SecureOps
    BY EmptyTypes, JobFields DEF TokenOps, SecureOps
  <2>3. MoltoInv' /\ JobInv'
    BY <2>1, <2>2, TakeKeeps DEF Inv, MoltoInv
  <2> QED BY <1>1, <2>1, <2>3 DEF Inv, PaneInv, PaneOfSelected
<1>3. CASE selected \notin Tokens
  <2>1. PaneInv' /\ MoltoInv'
    BY <1>3 DEF RereadOpenTab, FidoPanes, Inv, PaneInv, PaneOfSelected, MoltoInv
  <2>2. JobInv'
    <3>1. CASE FidoSession # NoDev /\ job' = Job("refresh", selected, FidoSession)
      BY <3>1, SessionOfSelected, StartsJob
    <3>2. CASE FidoSession # NoDev /\ job' = Job("fidoOp", selected, FidoSession)
      BY <3>2, SessionOfSelected, StartsJob
    <3>3. CASE job' = ReadJob(selected)
      BY <3>3, ReadJobFields DEF JobInv, PinOps, SecureOps, TokenOps
    <3> QED BY <3>1, <3>2, <3>3, <1>3, NoJobKeeps DEF RereadOpenTab
  <2> QED BY <1>1, <2>1, <2>2
<1> QED BY <1>2, <1>3

LEMMA ScanKeeps ==
    ASSUME Inv, ApplyScan \/ ApplyScanFailure
    PROVE  Inv'
<1> USE Fields
<1>1. TypeOK'
  BY ScanTypes DEF Inv
<1>2. UNCHANGED <<plugged, locked>>
  BY DEF ApplyScan, ApplyScanFailure, hotplug
<1>3. ASSUME job' = NoJob, UNCHANGED <<selected, fido, molto, arm>>
      PROVE  JobInv' /\ PaneInv' /\ MoltoInv' /\ ArmInv'
  BY <1>2, <1>3, NoJobKeeps DEF Inv, PaneInv, PaneOfSelected, MoltoInv, ArmInv
<1>4. \A d \in Ids : OnDeviceSelected(d, FALSE) => JobInv' /\ PaneInv' /\ MoltoInv' /\ ArmInv'
  BY <1>2, SelectKeeps
<1>5. JobInv' /\ PaneInv' /\ MoltoInv' /\ ArmInv'
  <2>1. CASE ApplyScan
    <3>1. PICK r \in Reconciled(job.seen) :
              \/ r[1] # selected /\ OnDeviceSelected(r[1], FALSE)
              \/ /\ IF reread /\ selected # NoDev THEN RereadOpenTab
                    ELSE job' = NoJob /\ UNCHANGED <<fido, molto>>
                 /\ UNCHANGED <<selected, arm, retried>>
      BY <2>1 DEF ApplyScan
    <3>2. r[1] \in Ids
      BY ReconciledTypes DEF Inv, Jobs
    <3> QED BY <3>1, <3>2, <1>2, <1>3, <1>4, RereadKeeps
  <2>2. CASE ApplyScanFailure
    BY <2>2, <1>3, <1>4 DEF ApplyScanFailure
  <2> QED BY <2>1, <2>2
<1> QED BY <1>1, <1>5 DEF Inv

LEMMA WorkerKeeps ==
    ASSUME Inv,
           \/ RunJob \/ ApplyPanic \/ NoticeHotplug \/ UserRefresh \/ RefreshDevices
           \/ \E d \in Devices : SelectDevice(d) \/ Plug(d)
    PROVE  Inv'
<1> USE Fields
<1>1. TypeOK'
  BY WorkerTypes DEF Inv
<1>2. CASE RunJob
  <2>1. UNCHANGED <<plugged, selected, fido, molto, arm, locked>>
    BY <1>2 DEF RunJob, hotplug
  <2>2. job'.kind = job.kind /\ job'.dev = job.dev /\ job'.sel = job.sel /\ job'.secret = job.secret
    BY <1>2 DEF RunJob, Jobs
  <2> QED BY <2>1, <2>2, <1>1 DEF Inv, JobInv, PaneInv, PaneOfSelected, MoltoInv, ArmInv
<1>3. CASE ApplyPanic
  BY <1>3, <1>1, NoJobKeeps DEF ApplyPanic, hotplug, Inv, PaneInv, PaneOfSelected, MoltoInv, ArmInv
<1>4. CASE NoticeHotplug \/ UserRefresh
  BY <1>4, <1>1 DEF NoticeHotplug, UserRefresh, hotplug, Inv, JobInv, PaneInv, PaneOfSelected, MoltoInv, ArmInv
<1>5. CASE RefreshDevices
  <2>1. JobInv'
    BY <1>5, JobFields DEF RefreshDevices, JobInv, PinOps, SecureOps, TokenOps
  <2> QED BY <2>1, <1>5, <1>1 DEF RefreshDevices, hotplug, Inv, PaneInv, PaneOfSelected, MoltoInv, ArmInv
<1>6. ASSUME NEW d \in Devices, SelectDevice(d) PROVE Inv'
  <2>1. d \in Ids /\ Busy \in BOOLEAN /\ UNCHANGED <<plugged, locked>>
    BY <1>6 DEF Ids, Busy, SelectDevice, hotplug
  <2>2. CASE d = selected
    BY <2>1, <2>2, <1>6, <1>1 DEF SelectDevice, Inv, JobInv, PaneInv, PaneOfSelected,
                                  MoltoInv, ArmInv
  <2>3. CASE d # selected
    BY <2>1, <2>3, <1>6, <1>1, SelectKeeps DEF SelectDevice, Inv
  <2> QED BY <2>2, <2>3
<1>7. ASSUME NEW d \in Devices, Plug(d) PROVE Inv'
  <2>1. ArmInv'
    BY <1>7 DEF Plug, Inv, ArmInv, Arms
  <2> QED BY <2>1, <1>7, <1>1 DEF Plug, Inv, JobInv, PaneInv, PaneOfSelected, MoltoInv
<1> QED BY <1>2, <1>3, <1>4, <1>5, <1>6, <1>7

LEMMA StepKeeps ==
    ASSUME Inv, [Next]_vars
    PROVE  Inv'
<1>1. CASE UNCHANGED vars
  BY <1>1 DEF Inv, TypeOK, JobInv, PaneInv, PaneOfSelected, MoltoInv, ArmInv, vars
<1>2. CASE Next
  <2>1. CASE Apply
    BY <2>1, FidoKeeps, ResetKeeps, MoltoKeeps, ScanKeeps, WorkerKeeps DEF Apply
  <2>2. CASE User
    BY <2>2, FidoKeeps, ResetKeeps, MoltoKeeps, WorkerKeeps DEF User
  <2> QED BY <1>2, <2>1, <2>2, FidoKeeps, ResetKeeps, WorkerKeeps DEF Next
<1> QED BY <1>1, <1>2

LEMMA Invariance == Spec => []Inv
<1>1. Init => Inv
  <2>1. Init => TypeOK
    BY InitTypes
  <2>2. Init => JobInv /\ PaneInv /\ MoltoInv /\ ArmInv
    BY DEF Init, NoJob, EmptyFido, NoMolto, NoArm, JobInv, PaneInv, PaneOfSelected,
           MoltoInv, ArmInv, PinOps, SecureOps, TokenOps
  <2> QED BY <2>1, <2>2 DEF Inv
<1>2. Inv /\ [Next]_vars => Inv'
  BY StepKeeps
<1> QED BY <1>1, <1>2, PTL DEF Spec

----------------------------------------------------------------------------
(* What follows from it.                                                   *)

\* The pane never shows the info or holds the session of a key that is not selected,
\* whatever job ends after the selection moved (completion_still_valid).
THEOREM PaneFollowsSelection == Spec => []PaneOfSelected
<1>1. Inv => PaneOfSelected
  BY DEF Inv, PaneInv
<1> QED BY <1>1, Invariance, PTL

\* Between a lock and the next unlocking, no job but a delete_credential opens a session:
\* a refresh looks whether one is still open (apply_refreshed_session), and while an
\* unlock is under way nothing locks.
THEOREM LockHolds == Spec => LockOutlivesJobs
<1>1. ASSUME Inv, [Next]_vars, locked, fido.session = NoDev, fido'.session # NoDev
      PROVE  job.kind = "deleteCred"
  <2> USE Fields DEF FidoPanes
  <2>1. ASSUME NEW d, NEW busy, OnDeviceSelected(d, busy) PROVE FALSE
    BY <2>1, <1>1 DEF OnDeviceSelected, ClearedFido, EmptyFido
  <2>2. ASSUME NEW f \in FidoPanes, f.session = NoDev, FetchInfo(f) PROVE FALSE
    BY <2>2, <1>1 DEF FetchInfo
  <2>3. FailSessionOp.session = NoDev /\ Locked(fido) \in FidoPanes /\ Locked(fido).session = NoDev
    BY <1>1, EmptyTypes DEF FailSessionOp, Locked
  <2>4. fido' # fido
    BY <1>1
  <2>5. CASE Apply
    <3>1. CASE ApplyPanic \/ ApplyOpen \/ ApplyTokenOp
      BY <3>1, <2>4 DEF ApplyPanic, ApplyOpen, ApplyTokenOp, moltoFrame
    <3>2. CASE ApplyScan \/ ApplyScanFailure
      BY <3>2, <2>1, <1>1 DEF ApplyScan, ApplyScanFailure, RereadOpenTab
    <3>3. CASE ApplyInfo \/ ApplyCanceledEnroll
      BY <3>3, <1>1 DEF ApplyInfo, ApplyCanceledEnroll
    <3>4. CASE ApplyUnlock
      BY <3>4, <1>1 DEF ApplyUnlock, Finished, Inv, JobInv
    <3>5. CASE ApplySessionOp
      BY <3>5, <2>2, <2>3, <1>1 DEF ApplySessionOp
    <3>6. CASE ApplyDelete
      BY <3>6 DEF ApplyDelete, Finished
    <3>7. CASE ApplyRefresh
      BY <3>7, <1>1 DEF ApplyRefresh, SessionStillOpen
    <3>8. CASE ApplyPin
      <4>1. [fido EXCEPT !.form = NoDev] \in FidoPanes /\ [fido EXCEPT !.form = NoDev].session = NoDev
        BY <1>1
      <4> QED BY <4>1, <3>8, <2>2, <2>3, <1>1 DEF ApplyPin
    <3>9. CASE ApplyReset
      <4>1. [fido EXCEPT !.session = NoDev] \in FidoPanes /\ [fido EXCEPT !.session = NoDev].session = NoDev
        BY <1>1
      <4> QED BY <4>1, <3>9, <2>2, <1>1 DEF ApplyReset
    <3> QED BY <2>5, <3>1, <3>2, <3>3, <3>4, <3>5, <3>6, <3>7, <3>8, <3>9 DEF Apply
  <2>6. CASE User
    BY <2>1, <2>3, <2>4, <2>6, <1>1 DEF User, SelectDevice, UserRefresh, TypePin, TryUnlock,
         LockSession, SessionOp, SubmitPin, ArmFidoReset, CancelReset, TokenOp, moltoFrame
  <2>7. CASE IdleLock
    BY <2>7, <1>1 DEF IdleLock
  <2>8. CASE RetryDroppedInfoRead
    BY <2>8, <2>2, <1>1 DEF RetryDroppedInfoRead
  <2> QED BY <2>4, <2>5, <2>6, <2>7, <2>8, <1>1 DEF Next, vars, RunJob, NoticeHotplug,
        RefreshDevices, PollResetArm, Plug
<1>2. Inv /\ [Next]_vars =>
          [locked /\ fido.session = NoDev /\ fido'.session # NoDev => job.kind = "deleteCred"]_vars
  BY <1>1
<1> QED BY <1>2, Invariance, PTL DEF Spec, LockOutlivesJobs

\* A PIN goes to no key but the one it was typed for (on_device_selected, fido_session).
THEOREM PinsStayHome == Spec => []PinToItsKey
<1>1. Inv => PinToItsKey
  BY DEF Inv, JobInv, PinToItsKey, PinOps
<1> QED BY <1>1, Invariance, PTL

\* A job on a Molto2 talks to the token that was selected, and writes only under an
\* authentication made to it (take_molto_session, ensure_auth).
THEOREM TokenJobsOfSelected == Spec => []TokenJobs
<1>1. Inv => TokenJobs
  BY DEF Inv, JobInv, TokenJobs, PinOps, TokenOps, SecureOps
<1> QED BY <1>1, Invariance, PTL

\* A FIDO reset is sent only to the armed and selected key, and only after it was
\* plugged in again (poll_reset_arm).
THEOREM ResetOnlyAfterReplug == Spec => ResetAfterReplug
<1>1. ASSUME Inv, [Next]_vars, job'.kind = "reset", job.kind # "reset"
      PROVE  arm.inserted /\ job'.dev = arm.dev /\ arm.dev = selected
  <2> USE Fields, JobFields, ReadJobFields
  <2>1. CASE PollResetArm
    BY <2>1, <1>1 DEF PollResetArm, Reconnected, CompletionStillValid, Inv, ArmInv
  <2>2. CASE ~PollResetArm
    <3>1. job' # job
      BY <1>1
    <3>2. CASE Apply
      BY <3>2, <1>1 DEF Apply, ApplyPanic, ApplyScan, ApplyScanFailure, ApplyInfo, ApplyUnlock,
           ApplySessionOp, ApplyDelete, ApplyCanceledEnroll, ApplyRefresh, ApplyPin, ApplyReset,
           ApplyOpen, ApplyTokenOp, FetchInfo, TakeSession, RereadOpenTab, OnDeviceSelected
    <3>3. CASE User
      BY <3>1, <3>3, <1>1 DEF User, SelectDevice, UserRefresh, TypePin, TryUnlock, LockSession,
           SessionOp, SubmitPin, ArmFidoReset, CancelReset, TokenOp, TokenOps, SecureOps,
           TakeSession, OnDeviceSelected
    <3>4. CASE RunJob
      BY <3>4, <1>1 DEF RunJob, Jobs
    <3> QED BY <3>1, <3>2, <3>3, <3>4, <2>2, <1>1 DEF Next, vars, IdleLock, NoticeHotplug,
           RefreshDevices, RetryDroppedInfoRead, FetchInfo, Plug
  <2> QED BY <2>1, <2>2
<1>2. Inv /\ [Next]_vars =>
          [job'.kind = "reset" /\ job.kind # "reset" =>
              arm.inserted /\ job'.dev = arm.dev /\ arm.dev = selected]_vars
  BY <1>1
<1> QED BY <1>2, Invariance, PTL DEF Spec, ResetAfterReplug

\* While no flag is raised and no scan is due, the list is current, or a scan is under way
\* that has not looked yet or saw what is connected now, or the last one failed.
ListInv ==
    ~dirty /\ scans = 0 =>
        \/ missed
        \/ job.kind = "scan" /\ job.out = "none"
        \/ job.kind = "scan" /\ job.out = "ok" /\ job.seen = plugged
        \/ job.kind # "scan" /\ devices = plugged

\* What does not scan leaves the list, the flag and a running scan alone.
LEMMA NoScanKeeps ==
    ASSUME ListInv, UNCHANGED <<plugged, dirty, scans, devices, missed>>,
           job' = job \/ (job.kind # "scan" /\ job'.kind # "scan")
    PROVE  ListInv'
BY DEF ListInv

LEMMA ListKeeps ==
    ASSUME Inv, ListInv, [Next]_vars
    PROVE  ListInv'
<1> USE Fields, JobFields, ReadJobFields
<1> DEFINE frame == UNCHANGED <<plugged, dirty, scans, devices, missed>>
<1>1. CASE \E k \in Devices : Plug(k)
  BY <1>1 DEF Plug, ListInv
<1>2. CASE NoticeHotplug \/ UserRefresh
  BY <1>2, AppSessionAssumption DEF NoticeHotplug, UserRefresh, ScheduledScans, ListInv
<1>3. CASE RefreshDevices
  BY <1>3 DEF RefreshDevices, Job, ListInv
<1>4. CASE RunJob
  <2>1. job.kind = "scan" => ListInv'
    BY <1>4 DEF RunJob, Jobs, ListInv, hotplug, list
  <2>2. ASSUME job.kind # "scan" PROVE missed' = missed
    <3>1. missed \in BOOLEAN
      BY DEF Inv, TypeOK
    <3>2. missed' = missed \/ missed' = (missed \/ job.kind = "scan")
      BY <1>4, <2>2 DEF RunJob, bounds
    <3> QED BY <2>2, <3>1, <3>2
  <2>3. job.kind # "scan" => UNCHANGED <<plugged, dirty, scans, devices>> /\ job'.kind # "scan"
    BY <1>4 DEF RunJob, Jobs, hotplug, list
  <2> QED BY <2>1, <2>2, <2>3, NoScanKeeps
<1>5. CASE ApplyPanic \/ ApplyScan \/ ApplyScanFailure
  <2>1. job'.kind # "scan"
    BY <1>5 DEF ApplyPanic, ApplyScan, ApplyScanFailure, NoJob, OnDeviceSelected, RereadOpenTab, TakeSession
  <2>2. CASE ApplyScan
    BY <2>1, <2>2 DEF ApplyScan, Finished, ListInv, hotplug, bounds
  <2>3. CASE ApplyPanic \/ ApplyScanFailure
    BY <2>1, <2>3 DEF ApplyPanic, ApplyScanFailure, Finished, ListInv, hotplug, list, bounds
  <2> QED BY <1>5, <2>2, <2>3
<1>6. CASE Apply /\ ~(ApplyPanic \/ ApplyScan \/ ApplyScanFailure)
  <2>1. frame
    BY <1>6 DEF Apply, ApplyInfo, ApplyUnlock, ApplySessionOp, ApplyDelete, ApplyCanceledEnroll,
         ApplyRefresh, ApplyPin, ApplyReset, ApplyOpen, ApplyTokenOp, fidoFrame, resetFrame, moltoFrame,
         hotplug, list, bounds
  <2>2. job.kind # "scan"
    BY <1>6 DEF Apply, ApplyInfo, ApplyUnlock, ApplySessionOp, ApplyDelete, ApplyCanceledEnroll,
         ApplyRefresh, ApplyPin, ApplyReset, ApplyOpen, ApplyTokenOp, Finished, TokenOps, SecureOps
  <2>3. job'.kind # "scan"
    BY <1>6, <2>2 DEF Apply, ApplyInfo, ApplyUnlock, ApplySessionOp, ApplyDelete, ApplyCanceledEnroll,
         ApplyRefresh, ApplyPin, ApplyReset, ApplyOpen, ApplyTokenOp, FetchInfo, TakeSession, NoJob
  <2> QED BY <2>1, <2>2, <2>3, NoScanKeeps
<1>7. CASE User /\ ~UserRefresh
  <2>1. frame
    BY <1>7 DEF User, SelectDevice, TypePin, TryUnlock, LockSession, SessionOp, SubmitPin, ArmFidoReset,
         CancelReset, TokenOp, fidoFrame, resetFrame, moltoFrame, hotplug, list, bounds
  <2>2. job' = job \/ (job.kind # "scan" /\ job'.kind # "scan")
    BY <1>7 DEF User, SelectDevice, TypePin, TryUnlock, LockSession, SessionOp, SubmitPin, ArmFidoReset,
         CancelReset, TokenOp, TakeSession, OnDeviceSelected, Busy, TokenOps, SecureOps
  <2> QED BY <2>1, <2>2, NoScanKeeps
<1>8. CASE IdleLock \/ RetryDroppedInfoRead \/ PollResetArm \/ UNCHANGED vars
  <2>1. frame
    BY <1>8 DEF IdleLock, RetryDroppedInfoRead, PollResetArm, vars, fidoFrame, resetFrame, hotplug, list,
         bounds
  <2>2. job' = job \/ (job.kind # "scan" /\ job'.kind # "scan")
    BY <1>8 DEF IdleLock, RetryDroppedInfoRead, PollResetArm, vars, FetchInfo, Busy, NoJob, fidoFrame
  <2> QED BY <2>1, <2>2, NoScanKeeps
<1> QED BY <1>1, <1>2, <1>3, <1>4, <1>5, <1>6, <1>7, <1>8 DEF Next

\* No hotplug is forgotten, whatever runs or is armed when it comes, and whatever scans fail
\* or panic on the way (devices_dirty, schedule_scan_burst).
THEOREM ListHolds == Spec => []ListSettled
<1>1. Init => ListInv
  BY AppSessionAssumption DEF Init, ListInv
<1>2. Inv /\ ListInv /\ [Next]_vars => ListInv'
  BY ListKeeps
<1>3. ListInv => ListSettled
  BY DEF ListInv, ListSettled
<1> QED BY <1>1, <1>2, <1>3, Invariance, PTL DEF Spec
=============================================================================
