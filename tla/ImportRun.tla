----------------------------- MODULE ImportRun -----------------------------
(***************************************************************************)
(* One import, from the first look at the key to the report: both front    *)
(* ends (keyroostctl/src/code_import.rs, keyroost/src/import_flow.rs) read *)
(* the key, show the plan, ask, and then write through the loop of         *)
(* keyroost-import/src/run.rs and the adapters of keyroost-transport's     *)
(* import.rs, one command at a time.  Between two commands the key may     *)
(* forget that it was unlocked, other programs may change it (not while an *)
(* OATH session holds its PC/SC transaction), and an answer may be lost.   *)
(***************************************************************************)
EXTENDS ImportPlan, FiniteSetsExt

CONSTANTS
    Imports,        \* the imports to look at
    Elsewhere,      \* labels of codes that may be on the key beside the file's
    Holds,          \* codes a store really holds
    Secrets,        \* passwords and PINs
    NoSecret,       \* none set, or none given
    MaxForeign      \* bound: steps of other programs

ASSUME ImportRunAssumption ==
    /\ \A i \in Imports :
        i \in [store : Stores, front : {"app", "ctl"}, file : Seq(Entries),
              first : 0..LastSlot, replace : BOOLEAN, touch : BOOLEAN,
              given : Secrets \cup {NoSecret}, tally : BOOLEAN]
    /\ NoSecret \notin Secrets
    /\ IsFiniteSet(Elsewhere)
    /\ Holds \in [Stores -> Nat]
    /\ MaxForeign \in Nat

VARIABLES
    imp,            \* the import, the same in every state: its store, front end
                    \* and file, the first slot, whether to replace and to ask
                    \* for a touch, the secret given first, and whether this
                    \* key says how many tries a wrong one leaves
    given,          \* the secret at hand: an option of keyroostctl, or what the
                    \* dialog or the key's pane of the app holds
    codes,          \* place on the key -> the code there
    unlisted,       \* places whose code the key's listing does not show
    lock,           \* the key's password or PIN
    open,           \* the key does not ask this session for it
    foreign,        \* steps other programs have taken
    pc,
    shown,          \* the plan the person agreed to
    rows,           \* the plan that is written
    step,           \* the row being written, and where in its writing
    auth,           \* what the session object remembers of the secret
    report,         \* row -> outcome
    \* History, for the properties only:
    listed,         \* what the key listed when the writing began
    mine,           \* place -> what this import did there
    lost,           \* an answer of the key was lost
    raced,          \* another program changed the key since the writing began
    locked,         \* the key had a secret when the writing began
    spent           \* wrong secrets sent (see Kept)

vars == <<imp, given, codes, unlisted, lock, open, foreign, pc, shown, rows, step, auth,
          report, listed, mine, lost, raced, locked, spent>>

key == <<codes, unlisted, lock, open, foreign>>
begun == <<imp, given, shown, rows, listed, locked>>

(***************************************************************************)
(* A code: which entry of the file wrote it (0 for none of them) and how   *)
(* many of its three parts are there.  Only a Molto2 slot is written in    *)
(* parts: seed, title, configuration.                                      *)
(***************************************************************************)
NoCode == [by |-> 0, parts |-> 0]
Theirs == [by |-> 0, parts |-> 3]

\* A file's names on a store, and the names of other codes there; slots.
PlacesOf(i) ==
    IF i.store = "molto2"
    THEN 0..LastSlot
    ELSE ({NameOn(i.file[k], i.store) : k \in DOMAIN i.file} \ {NoName})
            \cup {<<0, l>> : l \in Elsewhere}

Places == DOMAIN codes

Listing == {p \in Places : codes[p].parts > 0} \ unlisted

PlanNow == plan(imp.file, imp.store, imp.first, Listing, Cardinality(unlisted), imp.replace)

IsOath == imp.store \in OathStores

(***************************************************************************)
(* Solo 2, Nitrokey 3 and unknown applets refuse a name that exists; a     *)
(* YubiKey and a Token2 key overwrite the code.                            *)
(***************************************************************************)
RefusesDuplicates == imp.store \in {"solo2", "nitrokey3", "other"}

NoStep == [at |-> 0, cmd |-> "add", again |-> FALSE, part |-> 1]
NoAuth == [kept |-> FALSE, verified |-> FALSE, proven |-> FALSE]

Init ==
    /\ imp \in Imports
    /\ given = imp.given
    /\ codes \in [PlacesOf(imp) -> {NoCode, Theirs}]
    /\ Cardinality({p \in Places : codes[p] = Theirs}) <= Holds[imp.store]
    /\ unlisted \in SUBSET {p \in Places : codes[p] = Theirs}
    /\ ~IsOath => unlisted = {}
    /\ lock \in (IF imp.store = "molto2" THEN {NoSecret} ELSE Secrets \cup {NoSecret})
    /\ open = FALSE
    /\ foreign = 0
    /\ pc = "start"
    /\ shown = <<>> /\ rows = <<>>
    /\ step = NoStep /\ auth = NoAuth
    /\ report = <<>>
    /\ listed = {}
    /\ mine = [p \in Places |-> "kept"]
    /\ lost = FALSE /\ raced = FALSE /\ locked = FALSE
    /\ spent = 0

(***************************************************************************)
(* Reading the key and asking.                                             *)
(***************************************************************************)
CanOpen == lock = NoSecret \/ given = lock

SpendsTry == lock # NoSecret /\ given \notin {NoSecret, lock}

ToWrite(r, i) == {j \in DOMAIN r : j > i /\ writes(r[j])}

\* Whether the front end reads the key again before it writes: the app
\* does not for a Molto2, whose slot list it keeps.
Rechecks == imp.front = "ctl" \/ imp.store # "molto2"

\* The app's plan for a Molto2 whose slots were not read takes all as free.
ShownPlans ==
    IF Rechecks THEN {PlanNow}
    ELSE {PlanNow, molto_plan(imp.file, imp.first, {})}

Ask(p) == /\ shown' = p
          /\ pc' = IF ToWrite(p, 0) = {} THEN "done" ELSE "asked"

Reading == pc \in {"start", "reread"}

ReadKey ==
    /\ Reading
    /\ CanOpen
    /\ \E p \in ShownPlans : Ask(p)
    /\ UNCHANGED <<imp, given, key, rows, step, auth, report, listed, mine, lost, raced, locked, spent>>

(***************************************************************************)
(* When the key cannot be opened or read, keyroostctl stops.  The app's    *)
(* dialog asks for the secret of a locked key and wipes one that was       *)
(* refused; any other failure is an error in the dialog.  Adding to a      *)
(* Token2 key knows no refusal: with a wrong PIN too the plan and the PIN  *)
(* stay, and Add may be clicked again, which counts as another attempt.    *)
(***************************************************************************)
Try == IF SpendsTry THEN 1 ELSE 0

Kept == IF imp.front = "app" /\ imp.store = "token2" THEN 0 ELSE spent

ComesToNothing(next, secret, tries) ==
    /\ pc' = next
    /\ given' = secret
    /\ spent' \in tries
    /\ UNCHANGED <<imp, key, shown, rows, step, auth, report, listed, mine, lost, raced, locked>>

StopsCtl ==
    imp.front = "ctl" /\ ComesToNothing("done", given, {Kept, Kept + Try})

FindsLocked ==
    /\ imp.front = "app" /\ lock # NoSecret /\ given = NoSecret
    /\ ComesToNothing("secret", given, {Kept})

RefusesSecret ==
    /\ imp.front = "app" /\ given # NoSecret /\ (IsOath => lock # NoSecret)
    /\ ComesToNothing("secret", NoSecret, {Kept, Kept + Try})

ReadFails ==
    /\ Reading
    /\ \/ StopsCtl \/ FindsLocked \/ RefusesSecret
       \/ imp.front = "app" /\ ComesToNothing(IF pc = "start" THEN "done" ELSE "secret", given, {Kept})

\* The person types the secret and clicks Unlock.
Unlock(s) ==
    /\ pc = "secret"
    /\ pc' = "reread" /\ given' = s /\ spent' = 0
    /\ UNCHANGED <<imp, key, shown, rows, step, auth, report, listed, mine, lost, raced, locked>>

Declined == pc \in {"asked", "secret"} /\ ComesToNothing("done", given, {spent})

StartFails ==
    /\ pc = "asked" /\ Rechecks
    /\ \/ StopsCtl \/ FindsLocked \/ (IsOath /\ RefusesSecret)
       \/ /\ imp.front = "app"
          /\ ComesToNothing("asked", given, IF IsOath THEN {Kept} ELSE {Kept, Kept + Try})

\* Mutant: the plan the person saw is written without another look.
RecheckSkipped(first, second) == TRUE

(***************************************************************************)
(* The key is opened and read again; unless every row comes out the same,  *)
(* nothing is written.  The app then shows the new plan.                   *)
(***************************************************************************)
recheck(first, second) == first = second

KeyChanged ==
    /\ pc = "asked"
    /\ Rechecks /\ CanOpen
    /\ ~recheck(shown, PlanNow)
    /\ IF imp.front = "app" THEN Ask(PlanNow) ELSE pc' = "done" /\ UNCHANGED shown
    /\ spent' = Kept
    /\ UNCHANGED <<imp, given, key, rows, step, auth, report, listed, mine, lost, raced, locked>>

Start ==
    /\ pc = "asked"
    /\ Rechecks => CanOpen /\ recheck(shown, PlanNow)
    /\ rows' = shown
    /\ step' = [NoStep EXCEPT !.at = Min(ToWrite(shown, 0))]
    /\ auth' = LET unlocked == lock # NoSecret IN
                [kept |-> IsOath /\ unlocked,
                 verified |-> ~IsOath /\ unlocked,
                 proven |-> ~IsOath /\ unlocked]
    /\ open' = (lock # NoSecret)
    /\ report' = [i \in ToWrite(shown, 0) |-> "none"]
    /\ pc' = "write"
    /\ listed' = Listing
    /\ locked' = (lock # NoSecret)
    /\ spent' = Kept
    /\ UNCHANGED <<imp, given, codes, unlisted, lock, foreign, shown, mine, lost, raced>>

(***************************************************************************)
(* The write loop: what the answer to a command means for the row it was   *)
(* sent for, and for the rows after it.                                    *)
(***************************************************************************)
Row == rows[step.at]
Place == Row.name
Entry == imp.file[step.at]

GoesOn(outcome) ==
    LET later == ToWrite(rows, step.at) IN
    /\ report' = [report EXCEPT ![step.at] = outcome]
    /\ IF later = {}
       THEN pc' = "done" /\ UNCHANGED step
       ELSE pc' = "write" /\ step' = [NoStep EXCEPT !.at = Min(later)]

\* Mutant: an error is reported and the next row is tried.
StopsNot(outcome, rest) == GoesOn(outcome)

Stops(outcome, rest) ==
    /\ report' = [i \in DOMAIN report |->
                    IF i = step.at THEN outcome ELSE IF i > step.at THEN rest ELSE report[i]]
    /\ pc' = "done"
    /\ UNCHANGED step

Sends(cmd) ==
    /\ pc' = "write"
    /\ step' = [step EXCEPT !.cmd = cmd, !.again = FALSE]
    /\ UNCHANGED report

may_replace == imp.store # "molto2" /\ (Row.verdict = "replace" \/ imp.replace)

\* Mutant: a failed add after the delete is reported like any other.
WriteOneForgets(answer) ==
    CASE step.cmd \in {"add", "readd"} /\ answer = "ok" ->
            GoesOn(IF Row.verdict = "replace" THEN "replaced" ELSE "added")
      [] step.cmd = "add" /\ answer = "full" -> Stops("no-room", "no-room")
      [] step.cmd = "add" /\ answer = "exists" ->
            IF may_replace THEN Sends("delete") ELSE GoesOn("exists")
      [] step.cmd = "delete" /\ answer = "ok" -> Sends("readd")
      [] OTHER -> Stops("failed", "not-tried")

write_one(answer) ==
    CASE step.cmd = "add" /\ answer = "ok" ->
            GoesOn(IF Row.verdict = "replace" THEN "replaced" ELSE "added")
      [] step.cmd = "add" /\ answer = "full" -> Stops("no-room", "no-room")
      [] step.cmd = "add" /\ answer = "exists" ->
            IF may_replace THEN Sends("delete") ELSE GoesOn("exists")
      [] step.cmd = "delete" /\ answer = "ok" -> Sends("readd")
      [] step.cmd = "readd" /\ answer = "ok" -> GoesOn("replaced")
      [] step.cmd = "readd" /\ answer # "ok" -> Stops("removed-not-added", "not-tried")
      [] OTHER -> Stops("failed", "not-tried")

(***************************************************************************)
(* Sending one command.  An entry that does not fit one is not sent.       *)
(***************************************************************************)
Touch == imp.touch /\ imp.store # "molto2"

Fits == step.cmd = "delete" \/ Sendable(Entry, imp.store, Place, Touch)

Unsent ==
    /\ pc = "write" /\ ~Fits
    /\ write_one("failed")
    /\ UNCHANGED <<begun, key, auth, mine, lost, raced, spent>>

(***************************************************************************)
(* A Token2 session that has not verified the PIN looks first whether the  *)
(* key has one, and verifies it.                                           *)
(***************************************************************************)
PinFirst == imp.store = "token2" /\ lock # NoSecret /\ ~auth.verified

VerifyFirst ==
    /\ pc = "write" /\ Fits /\ PinFirst
    /\ given = lock
    /\ auth' = [auth EXCEPT !.verified = TRUE]
    /\ open' = TRUE
    /\ UNCHANGED <<begun, codes, unlisted, lock, foreign, pc, step, report, mine, lost, raced, spent>>

\* No PIN to verify; or a wrong one, which ends the run unless the answer
\* looks like a closed PIN window of a session whose PIN is proven.
VerifyFirstFails ==
    /\ pc = "write" /\ Fits /\ PinFirst
    /\ given # lock
    /\ spent' = IF SpendsTry THEN spent + 1 ELSE spent
    /\ IF SpendsTry /\ auth.proven /\ ~imp.tally /\ ~step.again
       THEN pc' = "auth" /\ UNCHANGED <<step, report>>
       ELSE write_one("failed")
    /\ UNCHANGED <<begun, key, auth, mine, lost, raced>>

(***************************************************************************)
(* What the key does with the command (external).                          *)
(***************************************************************************)
KeyAsks == lock # NoSecret /\ ~open

Used(p) == codes[p].parts > 0

KeyFull == ~Used(Place) /\ Cardinality({p \in Places : Used(p)}) >= Holds[imp.store]

KeyAnswer ==
    CASE step.cmd = "delete" -> IF Used(Place) THEN "ok" ELSE "failed"
      [] imp.store = "molto2" -> "ok"
      [] OTHER -> IF Used(Place) /\ RefusesDuplicates THEN "exists"
                  ELSE IF KeyFull THEN "full" ELSE "ok"

KeyDoes ==
    /\ codes' = [codes EXCEPT ![Place] =
            IF step.cmd = "delete" THEN NoCode
            ELSE [by |-> step.at, parts |-> IF imp.store = "molto2" THEN step.part ELSE 3]]
    /\ mine' = [mine EXCEPT ![Place] =
            IF step.cmd = "delete" THEN "removed"
            ELSE IF imp.store = "molto2" /\ step.part < 3 THEN "half" ELSE "wrote"]
    /\ unlisted' = unlisted \ {Place}

Sent == pc = "write" /\ Fits /\ ~PinFirst

\* The rest of a command that was carried out: the next part of a slot, or
\* the loop with the answer.
Carried ==
    IF imp.store = "molto2" /\ step.part < 3
    THEN step' = [step EXCEPT !.part = @ + 1] /\ UNCHANGED <<pc, report>>
    ELSE write_one("ok")

Done ==
    /\ Sent /\ ~KeyAsks /\ KeyAnswer = "ok"
    /\ KeyDoes
    /\ Carried
    /\ auth' = [auth EXCEPT !.proven = @ \/ (imp.store = "token2" /\ given # NoSecret)]
    /\ UNCHANGED <<begun, lock, open, foreign, lost, raced, spent>>

Refused ==
    /\ Sent /\ ~KeyAsks /\ KeyAnswer # "ok"
    /\ write_one(KeyAnswer)
    /\ UNCHANGED <<begun, key, auth, mine, lost, raced, spent>>

\* The command never arrives, or the key refuses it for a reason of its own.
NotDone ==
    /\ Sent
    /\ write_one("failed")
    /\ UNCHANGED <<begun, key, auth, mine, lost, raced, spent>>

AnswerLost ==
    /\ Sent /\ ~KeyAsks /\ KeyAnswer = "ok"
    /\ KeyDoes
    /\ write_one("failed")
    /\ lost' = TRUE
    /\ UNCHANGED <<begun, lock, open, foreign, auth, raced, spent>>

(***************************************************************************)
(* The key asks for its secret: answer it once, and send once more.        *)
(***************************************************************************)
Asked ==
    /\ Sent /\ KeyAsks
    /\ IF step.again THEN write_one("failed") ELSE pc' = "auth" /\ UNCHANGED <<step, report>>
    /\ UNCHANGED <<begun, key, auth, mine, lost, raced, spent>>

\* OATH: VALIDATE with the key kept from the unlocking.  Token2: verify the
\* PIN, if it has worked before.
MayAnswer == IF IsOath THEN auth.kept ELSE given # NoSecret /\ auth.proven

AnswerAccepted == given = lock \/ (IsOath /\ lock = NoSecret)

\* Mutant: a command may be tried again and again.
SendAlways == UNCHANGED step

SendAgain == step' = [step EXCEPT !.again = TRUE]

Answers ==
    /\ pc = "auth" /\ MayAnswer /\ AnswerAccepted
    /\ open' = TRUE
    /\ auth' = [auth EXCEPT !.verified = ~IsOath]
    /\ pc' = "write"
    /\ SendAgain
    /\ UNCHANGED <<begun, codes, unlisted, lock, foreign, report, mine, lost, raced, spent>>

AnswerFails ==
    /\ pc = "auth"
    /\ write_one("failed")
    /\ spent' = IF MayAnswer /\ SpendsTry THEN spent + 1 ELSE spent
    /\ UNCHANGED <<begun, key, auth, mine, lost, raced>>

(***************************************************************************)
(* The surroundings (external).  The key forgets that it was unlocked: a   *)
(* Solo 2 after every command, a Token2 key when its PIN window closes.    *)
(* Another program changes the key, but not under the transaction an OATH  *)
(* session holds.                                                          *)
(***************************************************************************)
Writing == pc \in {"write", "auth"}

Forgets ==
    /\ Writing /\ open
    /\ open' = FALSE
    /\ UNCHANGED <<begun, codes, unlisted, lock, foreign, pc, step, auth, report, mine, lost, raced, spent>>

Foreign ==
    /\ foreign < MaxForeign
    /\ pc # "done" /\ (Writing => ~IsOath)
    /\ foreign' = foreign + 1
    /\ raced' = (raced \/ Writing)
    /\ UNCHANGED <<begun, pc, step, auth, report, mine, lost, spent>>

ForeignStores(p) ==
    /\ Foreign
    /\ Cardinality({q \in Places : q # p /\ Used(q)}) < Holds[imp.store]
    /\ codes' = [codes EXCEPT ![p] = Theirs]
    /\ unlisted' = unlisted \ {p}
    /\ UNCHANGED <<lock, open>>

ForeignDeletes(p) ==
    /\ Foreign
    /\ Used(p)
    /\ codes' = [codes EXCEPT ![p] = NoCode]
    /\ unlisted' = unlisted \ {p}
    /\ UNCHANGED <<lock, open>>

ForeignLocks(s) ==
    /\ Foreign
    /\ imp.store # "molto2"
    /\ lock' = s
    /\ open' = FALSE
    /\ UNCHANGED <<codes, unlisted>>

Over == pc = "done" /\ UNCHANGED vars

Writes ==
    \/ Unsent \/ VerifyFirst \/ VerifyFirstFails
    \/ Done \/ Refused \/ NotDone \/ AnswerLost
    \/ Asked \/ Answers \/ AnswerFails

Next ==
    \/ ReadKey \/ ReadFails \/ Declined \/ StartFails \/ KeyChanged \/ Start
    \/ \E s \in Secrets : Unlock(s)
    \/ Writes
    \/ Forgets
    \/ \E p \in Places : ForeignStores(p) \/ ForeignDeletes(p)
    \/ \E s \in Secrets \cup {NoSecret} : ForeignLocks(s)
    \/ Over

Spec == Init /\ [][Next]_vars

\* Every command of a run ends: the driver returns the card's answer or an error.
FairSpec == Spec /\ WF_vars(Writes)

-----------------------------------------------------------------------------
Outcomes == {"none", "added", "replaced", "exists", "removed-not-added", "failed",
             "no-room", "not-tried"}

(***************************************************************************)
(* The state is well formed: what is written are rows of the plan that     *)
(* write, each has an outcome, and the run is at one of them.              *)
(***************************************************************************)
TypeOK ==
    /\ imp.store \in Stores
    /\ codes \in [PlacesOf(imp) -> [by : 0..Len(imp.file), parts : 0..3]]
    /\ unlisted \subseteq {p \in Places : Used(p)}
    /\ lock \in Secrets \cup {NoSecret} /\ open \in BOOLEAN
    /\ foreign \in 0..MaxForeign
    /\ given \in Secrets \cup {NoSecret}
    /\ pc \in {"start", "secret", "reread", "asked", "write", "auth", "done"}
    /\ \A i \in DOMAIN rows : writes(rows[i]) => rows[i].name \in Places
    /\ Writing => step.at \in ToWrite(rows, 0) /\ DOMAIN report = ToWrite(rows, 0)
    /\ step.cmd \in {"add", "delete", "readd"} /\ step.part \in 1..3
    /\ auth \in [kept : BOOLEAN, verified : BOOLEAN, proven : BOOLEAN]
    /\ \A i \in DOMAIN report : report[i] \in Outcomes
    /\ mine \in [Places -> {"kept", "wrote", "removed", "half"}]
    /\ spent \in Nat

(***************************************************************************)
(* run.rs: "An entry already on the key is removed only after the key      *)
(* refused to add it as a duplicate and replacing was asked for", and both *)
(* front ends write nothing "when the key's codes changed between the      *)
(* preview and the write".  A code the key listed when the writing began   *)
(* is changed only by a row that the person saw marked to replace it.      *)
(* Left out is the one import that does not look again, the app's on a     *)
(* Molto2.                                                                 *)
(***************************************************************************)
KeepsListed ==
    [][Rechecks /\ foreign' = foreign =>
        \A p \in listed : codes'[p] # codes[p] =>
            \E i \in DOMAIN shown : shown[i].name = p /\ shown[i].verdict = "replace"]_vars

(***************************************************************************)
(* The report is true: a code reported as added or replaced was written, a *)
(* row reported as left alone or not tried was left alone, and a code that *)
(* is gone is reported as removed.  An answer that was lost leaves the     *)
(* last row in doubt, and a slot of a Molto2 may be half written when its  *)
(* row failed.                                                             *)
(***************************************************************************)
ReportTrue ==
    pc = "done" =>
        \A i \in DOMAIN report :
            LET did == mine[rows[i].name] IN
            /\ report[i] \in {"added", "replaced"} => did = "wrote"
            /\ report[i] \in {"exists", "no-room", "not-tried"} => did = "kept"
            /\ report[i] = "removed-not-added" /\ ~lost => did = "removed"
            /\ report[i] = "failed" /\ ~lost =>
                    did \in (IF imp.store = "molto2" THEN {"kept", "half"} ELSE {"kept"})
            /\ report[i] # "none"

(***************************************************************************)
(* A plan made with the number of codes the key holds does not run out of  *)
(* room, whatever the listing could not show, unless another program added *)
(* codes while it was written.                                             *)
(***************************************************************************)
RoomAsPlanned ==
    Capacity[imp.store] = Holds[imp.store] /\ ~raced =>
        \A i \in DOMAIN report : report[i] # "no-room"

(***************************************************************************)
(* import.rs: "the plan only lets through what the applet stores; anything *)
(* else fails here".  What the plan writes fits the adapter's command, the *)
(* two bytes of a required touch aside, which oath_put_fits does not count.*)
(***************************************************************************)
PlannedFits ==
    \A i \in DOMAIN rows : writes(rows[i]) =>
        Sendable(imp.file[i], imp.store, rows[i].name, FALSE)

(***************************************************************************)
(* A secret given to an import spends at most one try of the key's, even   *)
(* when another program changes the secret or the key keeps forgetting     *)
(* that it was given: the run stops at the first refusal, and the app asks *)
(* again.  Each click on Add counts anew where the app keeps a refused PIN *)
(* (Kept).  Left out: a key without a count of tries whose PIN was set     *)
(* only while the import ran.                                              *)
(***************************************************************************)
OneWrongTry == imp.tally \/ locked => spent <= 1

(***************************************************************************)
(* A started run ends, with a key that forgets its unlocking after every   *)
(* command too.                                                            *)
(***************************************************************************)
RunEnds == Writing ~> pc = "done"
=============================================================================
