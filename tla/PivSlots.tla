------------------------------ MODULE PivSlots ------------------------------
(***************************************************************************)
(* The app's PIV pane on one card (App::piv_* in keyroost/src/main.rs over *)
(* PivSession of keyroost-transport/src/piv.rs and the PKCS#12 import of   *)
(* piv_import.rs).  Every operation is a job that opens a PC/SC            *)
(* transaction, starts from the session state the app kept of this card,   *)
(* exchanges commands, and hands its state back.  The kept state caches    *)
(* what the card said, so that it must follow every write.                 *)
(*                                                                         *)
(* The card, the reader and other programs are external.  While a job is   *)
(* in its transaction no other program reaches the card, but the card can  *)
(* be pulled, and any command can be refused or lose its answer.  A key is *)
(* what its public key says; a certificate is the key it names; a policy   *)
(* is the key it was read for.  The pane stays on this card: changes of    *)
(* selection are in AppSession.                                            *)
(***************************************************************************)
EXTENDS Naturals, FiniteSets

CONSTANTS
    Slots,
    Keys,
    None,      \* no key, no certificate, no policy, no slot
    Unnamed,   \* asked, and the card named no key without saying there is none
    Unread,    \* not in the cache
    Verified,  \* the PIN is verified, which hides the count of tries
    MaxTries,  \* tries of a fresh PIN
    MaxFaults, \* bound: lost answers, cards pulled during a job, writes of other programs
    MaxWrites  \* bound: operations the user starts, other than reads

ASSUME PivSlotsAssumption ==
    /\ MaxTries \in Nat \ {0} /\ MaxFaults \in Nat /\ MaxWrites \in Nat
    /\ Keys \cap {None, Unnamed, Unread} = {}
    /\ None # Unnamed /\ None # Unread /\ Unnamed # Unread
    /\ Verified \notin Nat /\ Unread \notin Nat /\ Verified # Unread

VARIABLES
    card,   \* the card: what it reports, its keys, certificates and PIN tries
    stored, \* App.piv_session_state of this card
    pane,   \* the slots the pane takes as holding a key, and as empty
    job,    \* the PIV job under way
    faults, \* faults so far
    writes  \* operations started so far, other than reads

vars == <<card, stored, pane, job, faults, writes>>

\* "names": GET METADATA names keys and policies; "attests": only ATTEST works, as
\* on older firmware; "silent": neither.
Modes == {"names", "attests", "silent"}
Cards == [mode : Modes, key : [Slots -> Keys \cup {None}],
          cert : [Slots -> Keys \cup {None}], tries : 0 .. MaxTries]

\* Whether what was kept may be behind the card (not in the code): "moved", a key moved
\* out of a slot the session had not read; "other", another program wrote, an answer
\* was lost, or a job failed after a write.
Doubts == {"none", "moved", "other"}
Doubt(d, more) == IF more = "none" THEN d ELSE IF d = "other" THEN d ELSE more

\* PivSessionState: `same` says that the PC/SC event count is still the one it was
\* made under.
States == [same : BOOLEAN, key : [Slots -> Keys \cup {None, Unnamed, Unread}],
           cert : [Slots -> Keys \cup {None, Unread}],
           policy : [Slots -> Keys \cup {None, Unread}],
           tries : (0 .. MaxTries) \cup {Unread, Verified}, doubt : Doubts]
AllUnread == [s \in Slots |-> Unread]
Fresh == [same |-> TRUE, key |-> AllUnread, cert |-> AllUnread, policy |-> AllUnread,
          tries |-> Unread, doubt |-> "none"]
NoState == [Fresh EXCEPT !.same = FALSE]

Blank == [occupied |-> {}, empty |-> {}, doubt |-> "none"]

Ops == {"load", "refresh", "changePin", "unblock", "setRetries", "generate", "importCert",
        "selfSign", "importKey", "deleteCert", "deleteKey", "move", "reset"}
NoJob == [pc |-> "idle"]

-----------------------------------------------------------------------------
(* Reading: caches first. *)

\* resolve_slot_from_device: what GET METADATA says of a slot's key.
ReadKey(c, s) == IF c.mode = "names" THEN c.key[s] ELSE Unnamed

\* The policy GET METADATA or, failing that, ATTEST names.
ReadPolicy(c, s) == IF c.mode = "silent" THEN None ELSE c.key[s]

\* A GET METADATA reply that names a key carries its policy too.
LearnPolicy(st, c, s) ==
    IF ReadKey(c, s) \in Keys THEN [st EXCEPT !.policy[s] = c.key[s]] ELSE st

\* cached_slot_key
CachedSlotKey(st, c, s) ==
    IF st.key[s] # Unread THEN st
    ELSE [LearnPolicy(st, c, s) EXCEPT !.key[s] = ReadKey(c, s)]

\* slot_policy
SlotPolicy(st, c, s) ==
    LET asked == CachedSlotKey(st, c, s)
    IN  IF st.policy[s] # Unread THEN st
        ELSE IF asked.policy[s] # Unread THEN asked
        ELSE [asked EXCEPT !.policy[s] = ReadPolicy(c, s)]

\* PubkeyCache::evict and PolicyCache::evict
Evict(st, s) == [st EXCEPT !.key[s] = Unread, !.policy[s] = Unread]

\* Mutant: the evictions come after the policy was read.
MRenewLate(st, c, s, k) == [SlotPolicy(st, c, s) EXCEPT !.key[s] = k]

\* The tail generate_key and run_import share: forget the old key, read the new
\* one's policy, remember the key from what was sent or answered.
Renew(st, c, s, k) == [SlotPolicy(Evict(st, s), c, s) EXCEPT !.key[s] = k]

\* The slots a status read asks the card about; only status_detailed reads policies.
Asked(st, detailed) ==
    {s \in Slots : st.key[s] = Unread \/ (detailed /\ st.policy[s] = Unread)}

\* status and status_detailed, when what is asked of the slots `bad` gets no answer:
\* that is cached like a card that names nothing, in the policies too.
ReadStatus(st, c, bad, detailed, verified, reachable) ==
    [st EXCEPT
       !.tries = IF @ # Unread \/ ~reachable THEN @
                 ELSE IF verified THEN Verified ELSE c.tries,
       !.cert = [s \in Slots |-> IF @[s] # Unread THEN @[s] ELSE c.cert[s]],
       !.key = [s \in Slots |-> IF @[s] # Unread THEN @[s]
                                ELSE IF s \in bad THEN Unnamed ELSE ReadKey(c, s)],
       !.policy = [s \in Slots |->
                     IF @[s] # Unread THEN @[s]
                     ELSE IF s \in bad THEN (IF detailed THEN None ELSE Unread)
                     ELSE IF detailed THEN ReadPolicy(c, s)
                     ELSE IF st.key[s] = Unread /\ ReadKey(c, s) \in Keys THEN c.key[s] ELSE Unread],
       !.doubt = Doubt(@, IF bad = {} THEN "none" ELSE "other")]

\* Mutant: a certificate alone counts as a key.
MPaneOf(st) ==
    [occupied |-> {s \in Slots : st.key[s] \in Keys \/ st.cert[s] \in Keys},
     empty |-> {s \in Slots : st.key[s] = None}, doubt |-> st.doubt]

\* piv_slot_occupied and piv_slot_occupancy: a key is known, or the card cannot tell
\* and a certificate names an algorithm; empty only when the card said so.
PaneOf(st) ==
    [occupied |-> {s \in Slots : \/ st.key[s] \in Keys
                                 \/ st.key[s] = Unnamed /\ st.cert[s] \in Keys},
     empty |-> {s \in Slots : st.key[s] = None}, doubt |-> st.doubt]

-----------------------------------------------------------------------------
Init ==
    /\ card \in [mode : Modes, key : [Slots -> Keys \cup {None}], cert : [Slots -> {None}],
                 tries : {MaxTries}]
    /\ stored = NoState
    /\ pane = Blank
    /\ job = NoJob
    /\ faults = 0
    /\ writes = 0

InUse == UNION {{card.key[s], card.cert[s], stored.key[s], stored.cert[s],
                 stored.policy[s]} : s \in Slots}

\* What the pane lets the user start, as far as keys decide it.  A generated key is
\* new; a file may hold any.
Offered(op, s, t, k) ==
    /\ op = "generate" => k \notin InUse
    /\ op \in {"move", "selfSign"} => s \in pane.occupied
    /\ op = "deleteKey" /\ card.mode = "names" => s \in pane.occupied
    /\ op = "move" => s # t /\ t \notin pane.occupied

\* A job begins: its session starts from a copy of the kept state when the PC/SC
\* event count still agrees.  A refresh ignores the kept state and reads no count, so
\* nothing will agree with the state it leaves.
Begin(op, s, t, k, right, withCert, st) ==
    [op |-> op, slot |-> s, to |-> t, key |-> k, right |-> right, withCert |-> withCert,
     pc |-> "connect", sess |-> IF op = "refresh" THEN NoState ELSE IF st.same THEN st ELSE Fresh,
     gone |-> FALSE, verified |-> FALSE, changed |-> FALSE, heard |-> FALSE,
     out |-> "none", before |-> [key |-> None, cert |-> None]]

\* load_piv_status
Load(st) == Begin("load", None, None, None, TRUE, TRUE, st)

\* A click, without the inputs the operation does not ask for.
Start ==
    /\ job.pc = "idle"
    /\ \E op \in Ops, s, t \in Slots \cup {None}, k \in Keys \cup {None}, right, withCert \in BOOLEAN :
        /\ op \in {"load", "refresh", "changePin", "unblock", "setRetries", "reset"} <=> s = None
        /\ op = "move" <=> t # None
        /\ op \in {"generate", "importCert", "importKey"} <=> k # None
        /\ op \notin {"changePin", "unblock", "setRetries", "selfSign", "importKey"} => right
        /\ op # "importKey" => withCert
        /\ Offered(op, s, t, k)
        /\ IF op \in {"load", "refresh"} THEN UNCHANGED writes
                                         ELSE writes < MaxWrites /\ writes' = writes + 1
        /\ job' = Begin(op, s, t, k, right, withCert, stored)
    /\ UNCHANGED <<card, stored, pane, faults>>

FirstStep(op) ==
    CASE op \in {"load", "refresh"} -> "status"
      [] op \in {"changePin", "setRetries", "importKey"} -> "pin"
      [] op = "unblock" -> "unblock"
      [] op = "generate" -> "generate"
      [] op = "importCert" -> "match"
      [] op = "selfSign" -> "resolve"
      [] op = "deleteCert" -> "clear"
      [] op = "deleteKey" -> "erase"
      [] op = "move" -> "look"
      [] op = "reset" -> "block"

\* The job goes on: the card becomes c and the session state st.
Go(pc, st, c) ==
    /\ card' = c
    /\ job' = [job EXCEPT !.pc = pc, !.sess = st, !.changed = @ \/ c # card]
    /\ UNCHANGED <<stored, pane, writes>>

\* The job ends in an error: its session state is dropped and the one kept from
\* before stays (store_and_unwrap_piv_write, apply_piv_write on Err).
Fail(c) ==
    LET why == IF job.changed \/ c # card THEN "other" ELSE job.sess.doubt
    IN  /\ card' = c
        /\ job' = NoJob
        /\ stored' = [stored EXCEPT !.doubt = Doubt(@, why)]
        /\ pane' = [pane EXCEPT !.doubt = Doubt(@, why)]
        /\ UNCHANGED writes

Fault == faults < MaxFaults /\ faults' = faults + 1
Hear == ~job.gone /\ UNCHANGED faults
Silence == IF job.gone THEN UNCHANGED faults ELSE Fault

\* A command that gets no answer: the card carried it out (it is c then) or not, and
\* after the card was pulled it did not.
Unanswered(c) ==
    IF job.gone THEN {card} ELSE {card, c}

\* A write the job cannot do without: done, or the job fails.
Write(pc, c, next, st) ==
    /\ job.pc = pc
    /\ \/ Hear /\ Go(next, st, c)
       \/ Hear /\ Fail(card)
       \/ Silence /\ \E d \in Unanswered(c) : Fail(d)

sess == job.sess
slot == job.slot

-----------------------------------------------------------------------------
(* The jobs, command by command. *)

\* with_cached_transaction: the kept facts are used when the event count agreed and
\* the reading was usable, else the session starts from nothing.  That the PIN is
\* verified belonged to the connection before (forget_pin_verification).
Connect ==
    /\ job.pc = "connect"
    /\ \/ \E usable \in BOOLEAN :
            LET kept == [sess EXCEPT !.tries = IF @ = Verified THEN Unread ELSE @]
                base == IF usable THEN kept ELSE Fresh
            IN  job' = [job EXCEPT !.pc = FirstStep(job.op), !.sess = [base EXCEPT !.same = sess.same],
                                   !.before = IF job.op # "importKey" THEN @
                                              ELSE [key |-> card.key[slot], cert |-> card.cert[slot]]]
       \/ job' = NoJob
    /\ UNCHANGED <<card, stored, pane, faults, writes>>

\* verify_pin and change_pin: the cached count goes once the card has answered.
Accepted == card.tries > 0 /\ job.right
Presented == [card EXCEPT !.tries = IF @ = 0 THEN 0 ELSE IF job.right THEN MaxTries ELSE @ - 1]
CountUnread(st) == [st EXCEPT !.tries = Unread]
InDoubt(st, c) == IF c # card THEN [st EXCEPT !.doubt = "other"] ELSE st

AfterPin ==
    CASE job.op = "changePin" -> "status"
      [] job.op = "setRetries" -> "retries"
      [] job.op = "selfSign" -> "sign"
      [] job.op = "importKey" -> IF job.withCert THEN "store" ELSE "strip"

\* The import goes on to its status read with what it will report.
Report(out, st, c) ==
    /\ card' = c
    /\ job' = [job EXCEPT !.pc = "status", !.out = out, !.sess = st]
    /\ UNCHANGED <<stored, pane, writes>>

Pin ==
    /\ job.pc = "pin"
    /\ \/ /\ Hear /\ Accepted
          /\ card' = Presented
          /\ job' = [job EXCEPT !.pc = AfterPin, !.sess = CountUnread(sess),
                                !.verified = @ \/ job.op # "changePin",
                                !.changed = @ \/ Presented # card]
          /\ UNCHANGED <<stored, pane, writes>>
       \/ /\ Hear /\ ~Accepted
          /\ IF job.op = "importKey" THEN Report("pinNotVerified", CountUnread(sess), Presented)
                                     ELSE Fail(Presented)
       \/ /\ Silence
          /\ \E c \in Unanswered(Presented) :
                IF job.op = "importKey" THEN Report("pinNotVerified", InDoubt(sess, c), c)
                                        ELSE Fail(c)

\* unblock_pin: the right PUK gives the PIN its tries back; the PUK's own tries are
\* not cached anywhere.
Unblock ==
    /\ job.pc = "unblock"
    /\ IF job.right
       THEN Write("unblock", [card EXCEPT !.tries = MaxTries], "status", CountUnread(sess))
       ELSE (Hear \/ Silence) /\ Fail(card)

\* set_pin_retries
SetRetries == Write("retries", [card EXCEPT !.tries = MaxTries], "status", CountUnread(sess))

\* generate_key: the new key, then the old certificate goes, then the caches follow.
Generate == Write("generate", [card EXCEPT !.key[slot] = job.key], "wipe", sess)
Wipe ==
    LET c == [card EXCEPT !.cert[slot] = None]
    IN  Write("wipe", c, "status", Renew([sess EXCEPT !.cert[slot] = None], c, slot, job.key))

\* clear_certificate and delete_key
Clear == Write("clear", [card EXCEPT !.cert[slot] = None], "status", [sess EXCEPT !.cert[slot] = None])
Erase == Write("erase", [card EXCEPT !.key[slot] = None], "status", Evict(sess, slot))

\* move_key looks whether the destination is taken, cache first; a read without an
\* answer counts as empty.
Look ==
    LET Decide(now) == IF now.key[job.to] \in Keys THEN Fail(card) ELSE Go("moving", now, card)
    IN  /\ job.pc = "look"
        /\ \/ sess.key[job.to] # Unread /\ UNCHANGED faults /\ Decide(sess)
           \/ sess.key[job.to] = Unread /\ Hear /\ Decide(CachedSlotKey(sess, card, job.to))
           \/ /\ sess.key[job.to] = Unread /\ Silence
              /\ Go("moving", [sess EXCEPT !.key[job.to] = Unnamed], card)

\* PubkeyCache::migrate and PolicyCache::migrate
Migrate(cache, from, to) ==
    IF cache[from] = Unread THEN cache ELSE [cache EXCEPT ![from] = Unread, ![to] = cache[from]]

\* MOVE KEY; the card refuses a destination that is taken and a source that is not.
Move ==
    LET c  == [card EXCEPT !.key[slot] = None, !.key[job.to] = card.key[slot]]
        st == [sess EXCEPT !.key = Migrate(@, slot, job.to),
                           !.policy = Migrate(@, slot, job.to),
                           !.doubt = Doubt(@, IF Unread \in {sess.key[slot], sess.policy[slot]}
                                             THEN "moved" ELSE "none")]
    IN  /\ job.pc = "moving"
        /\ IF card.key[job.to] = None /\ card.key[slot] # None
           THEN Write("moving", c, "status", st)
           ELSE (Hear \/ Silence) /\ Fail(card)

\* Mutant: the cache first.
MConfirmedSlotKey(st, said, s) ==
    IF st.key[s] \in Keys THEN st.key[s] ELSE IF said \in Keys THEN said ELSE None

\* confirmed_slot_key: the card's word first, the cache when it names nothing.
ConfirmedSlotKey(st, said, s) ==
    IF said \in Keys THEN said ELSE IF st.key[s] \in Keys THEN st.key[s] ELSE None

\* What is left in the caches when the card said `said` of the slot.
Confirmed(st, said) ==
    IF said \in Keys THEN [LearnPolicy(st, card, slot) EXCEPT !.key[slot] = said] ELSE st

\* Asking the card for the slot's key, which may get no answer: the session goes on
\* when what is confirmed is in `good`, with the key it had if that is no key.
Ask(pc, next, good) ==
    /\ job.pc = pc
    /\ \E heard \in BOOLEAN :
        LET said == IF heard THEN ReadKey(card, slot) ELSE Unnamed
            k    == ConfirmedSlotKey(sess, said, slot)
        IN  /\ IF heard THEN Hear ELSE Silence
            /\ IF k \in good
               THEN /\ job' = [job EXCEPT !.sess = Confirmed(sess, said), !.key = IF k = None THEN @ ELSE k,
                                          !.heard = (pc = "match" /\ said \in Keys), !.pc = next]
                    /\ UNCHANGED <<card, stored, pane, writes>>
               ELSE Fail(card)

\* slot_key: the key a self-signed certificate will name.
Resolve == Ask("resolve", "pin", Keys)

\* reject_certificate_key_mismatch: a certificate for another key is refused; an
\* unknown key lets it through.
Match == Ask("match", "put", {None, job.key})

\* The slot's key signs; a slot without one refuses.
Sign ==
    /\ job.pc = "sign"
    /\ IF card.key[slot] # None THEN Write("sign", card, "match", sess)
                               ELSE (Hear \/ Silence) /\ Fail(card)

\* store_certificate_unchecked
Put == Write("put", [card EXCEPT !.cert[slot] = job.key], "status", [sess EXCEPT !.cert[slot] = job.key])

\* force_reset blocks the PIN with wrong tries, then RESET; the state starts over and
\* matches no later reading (refresh).
Block ==
    \/ Write("block", [card EXCEPT !.tries = 0], "reset", CountUnread(sess))
    \/ job.pc = "block" /\ Fault /\ \E n \in 0 .. card.tries : Fail([card EXCEPT !.tries = n])
Reset ==
    Write("reset", [card EXCEPT !.key = [s \in Slots |-> None], !.cert = [s \in Slots |-> None],
                                !.tries = MaxTries], "status", NoState)

-----------------------------------------------------------------------------
(* run_import_with: the certificate, the key, and what is undone. *)

\* Mutant: a lost answer is taken for a refusal.
MStore ==
    /\ job.pc = "store"
    /\ LET c == [card EXCEPT !.cert[slot] = job.key]
       IN  \/ Hear /\ Go("write", [sess EXCEPT !.cert[slot] = job.key], c)
           \/ Hear /\ Report("certRefused", sess, card)
           \/ /\ Silence
              /\ \E d \in Unanswered(c) : Report("certRefused", InDoubt(sess, d), d)

\* The certificate of the file; a refusal left the old one, anything else may have
\* left the new one beside the old key, so it is deleted.
Store ==
    /\ job.pc = "store"
    /\ LET c == [card EXCEPT !.cert[slot] = job.key]
       IN  \/ Hear /\ Go("write", [sess EXCEPT !.cert[slot] = job.key], c)
           \/ Hear /\ Report("certRefused", sess, card)
           \/ /\ Silence
              /\ \E d \in Unanswered(c) : Go("undoStore", InDoubt(sess, d), d)

\* A file without a certificate: the slot's old one is deleted.
Strip ==
    /\ job.pc = "strip"
    /\ LET c == [card EXCEPT !.cert[slot] = None]
       IN  \/ Hear /\ Go("write", [sess EXCEPT !.cert[slot] = None], c)
           \/ Hear /\ Report("certRefused", sess, card)
           \/ /\ Silence
              /\ \E d \in Unanswered(c) : Report("certUnsure", InDoubt(sess, d), d)

\* Deleting the new certificate again, after its own failure or the key's.
Undo(pc, cleared, kept) ==
    /\ job.pc = pc
    /\ LET c == [card EXCEPT !.cert[slot] = None]
       IN  \/ Hear /\ Report(cleared, [sess EXCEPT !.cert[slot] = None], c)
           \/ Hear /\ Report(kept, sess, card)
           \/ /\ Silence
              /\ \E d \in Unanswered(c) : Report(kept, InDoubt(sess, d), d)
UndoStore == Undo("undoStore", "certCleared", "certUnsure")
UndoWrite == Undo("undoWrite", "keyCleared", "keyUnsure")
UndoRefused == Undo("undoRefused", "refusedCleared", "refusedKept")

\* write_import_key: the caches of the slot go even when the exchange failed.  A refused
\* key and a write that did not finish are reported apart (KeyNotWritten).
WriteKey ==
    /\ job.pc = "write"
    /\ LET c == [card EXCEPT !.key[slot] = job.key]
           Failed(undo, cleared, d) ==
               IF job.withCert THEN Go(undo, Evict(sess, slot), d)
                               ELSE Report(cleared, Evict(sess, slot), d)
       IN  \/ Hear /\ Go("test", Renew(sess, c, slot, job.key), c)
           \/ Hear /\ Failed("undoRefused", "refusedCleared", card)
           \/ Silence /\ \E d \in Unanswered(c) : Failed("undoWrite", "keyCleared", d)

\* The self-test verifies the PIN again; whatever it finds, the key stays.
SelfTest == job.pc = "test" /\ UNCHANGED faults /\ Report("written", CountUnread(sess), card)

-----------------------------------------------------------------------------
\* What follows a job that kept the state st: every write but an import that stopped at
\* its PIN reads the status again.
After(st) == IF job.op \in {"load", "refresh"} \/ job.out = "pinNotVerified" THEN NoJob ELSE Load(st)

\* The status read every job ends with, and what the app keeps of it.  A load and an
\* import keep their state even when the read failed (here without the slots it had read
\* by then).
Status ==
    /\ job.pc = "status"
    /\ \/ \E bad \in {{}} \cup {{s} : s \in Slots} :
            LET detailed == job.op \in {"load", "refresh"}
                asked == Asked(sess, detailed)
                st == ReadStatus(sess, card, IF job.gone THEN asked ELSE bad,
                                 detailed, job.verified, ~job.gone)
            IN  /\ bad \subseteq asked
                /\ job.gone => bad = {} /\ \A s \in Slots : sess.cert[s] # Unread
                /\ IF bad = {} THEN UNCHANGED faults ELSE Fault
                /\ stored' = st
                /\ pane' = PaneOf(st)
                /\ job' = After(st)
                /\ UNCHANGED <<card, writes>>
       \/ /\ \E s \in Slots : sess.cert[s] = Unread
          /\ Silence
          /\ IF job.op \in {"load", "refresh", "importKey"}
             THEN /\ stored' = sess
                  /\ job' = After(sess)
                  /\ UNCHANGED <<card, pane, writes>>
             ELSE Fail(card)

\* The card leaves the reader and comes back, before a scan (and the app notices
\* nothing) or not (forget_unplugged_keys).
Replug(noticed) ==
    /\ stored' = IF noticed THEN NoState ELSE [stored EXCEPT !.same = FALSE]
    /\ pane' = IF noticed THEN Blank ELSE pane
    /\ IF job.pc = "idle" THEN UNCHANGED <<job, faults>>
       ELSE job' = [job EXCEPT !.sess.same = FALSE, !.gone = job.pc # "connect"] /\ Fault
    /\ UNCHANGED <<card, writes>>

\* Another program writes, outside of a job's transaction.
ForeignWrite ==
    /\ job.pc \in {"idle", "connect"}
    /\ Fault
    /\ \/ \E s \in Slots, k \in Keys \cup {None} :
             card' = [card EXCEPT !.key[s] = k, !.cert[s] = None]
       \/ \E n \in 0 .. MaxTries : card' = [card EXCEPT !.tries = n]
    /\ stored' = [stored EXCEPT !.doubt = "other"]
    /\ pane' = [pane EXCEPT !.doubt = "other"]
    /\ job' = IF job.pc = "idle" THEN job ELSE [job EXCEPT !.sess.doubt = "other"]
    /\ UNCHANGED writes

Next ==
    \/ Start \/ Connect \/ Pin \/ Unblock \/ SetRetries \/ Generate \/ Wipe
    \/ Clear \/ Erase \/ Look \/ Move \/ Resolve \/ Match \/ Sign \/ Put \/ Block \/ Reset
    \/ Store \/ Strip \/ UndoStore \/ UndoWrite \/ UndoRefused \/ WriteKey \/ SelfTest \/ Status
    \/ (\E noticed \in BOOLEAN : Replug(noticed)) \/ ForeignWrite

Spec == Init /\ [][Next]_vars

-----------------------------------------------------------------------------
\* Types of the card, the kept state and the session of the job under way; no slot is
\* offered both for what needs a key and as empty (piv_slot_occupied,
\* piv_slot_occupancy).
TypeOK ==
    /\ card \in Cards
    /\ stored \in States
    /\ pane \in [occupied : SUBSET Slots, empty : SUBSET Slots, doubt : Doubts]
    /\ pane.occupied \cap pane.empty = {}
    /\ job.pc # "idle" => job.sess \in States
    /\ faults \in 0 .. MaxFaults /\ writes \in 0 .. MaxWrites

\* What a session state says of the card is so.
Agrees(st) ==
    /\ \A s \in Slots :
        /\ st.key[s] \in Keys \cup {None} => st.key[s] = card.key[s]
        /\ st.cert[s] # Unread => st.cert[s] = card.cert[s]
        /\ st.policy[s] # Unread => st.policy[s] = ReadPolicy(card, s)
    /\ st.tries \in Nat => st.tries = card.tries

\* The caches follow every write (PivSessionState): after any sequence of operations,
\* replugs and reconnects, a state kept from jobs that all succeeded and heard every
\* answer says of keys, certificates, policies and PIN tries what the card would, and a
\* "PIN verified" is only ever believed on the connection that verified it.
CacheCurrent ==
    /\ job.pc \in {"idle", "connect"} /\ stored.doubt = "none" => Agrees(stored)
    /\ job.pc = "status" /\ sess.doubt = "none" => Agrees(sess)
    /\ job.pc \notin {"idle", "connect"} /\ sess.tries = Verified => job.verified

\* "Each variant says what the slot holds now" (ImportFailure): whatever was refused,
\* lost or undone, what the import reports of the slot's key and certificate is so, and
\* the old key is never left beside the new certificate unless the report says it may.
\* (After a refused key the certificate is reported as still stored even if its deletion
\* only went unanswered.)
ImportSays ==
    job.pc = "status" /\ job.op = "importKey" =>
        LET key == card.key[slot]  cert == card.cert[slot]
            was == job.before
        IN  CASE job.out \in {"pinNotVerified", "certRefused"} -> key = was.key /\ cert = was.cert
              [] job.out = "certCleared" -> key = was.key /\ cert = None
              [] job.out = "certUnsure"  -> key = was.key
              [] job.out = "refusedCleared" -> key = was.key /\ cert = None
              [] job.out = "refusedKept" -> key = was.key /\ cert \in {None, job.key}
              [] job.out = "keyCleared"  -> key \in {was.key, job.key} /\ cert = None
              [] job.out = "keyUnsure"   -> key \in {was.key, job.key} /\ cert \in {None, job.key}
              [] job.out = "written"     -> key = job.key /\ cert = (IF job.withCert THEN key ELSE None)

\* A certificate keyroost stores over an unchanged key names that key: a self-signed one
\* whenever the card named the key or nothing clouds the cache it came from, one from a
\* file whenever the card named the key (confirmed_slot_key,
\* reject_certificate_key_mismatch).
StoresMatching ==
    [][job.pc = "put" /\ card'.cert # card.cert
         /\ (job.heard \/ (job.op = "selfSign" /\ sess.doubt = "none"))
       => card'.cert[slot] = card.key[slot]]_vars

\* "The card said there is no key" (PivOccupancy::Empty): a slot the pane takes as
\* empty, so that generating there asks for no confirmation of a loss, holds no key,
\* as long as no other program wrote, no answer was lost and no job failed.
EmptyIsEmpty ==
    job.pc = "idle" /\ pane.doubt # "other" => \A s \in pane.empty : card.key[s] = None
=============================================================================
