---------------------------- MODULE PivSlotsProofs ----------------------------
(***************************************************************************)
(* Theorems about PivSlots, for any slots, keys and bounds.                *)
(***************************************************************************)
EXTENDS PivSlots, TLAPS

----------------------------------------------------------------------------
(* The inductive invariant.                                                *)

Pcs == {"connect", "status", "pin", "unblock", "retries", "generate", "wipe", "match", "put",
        "resolve", "sign", "clear", "erase", "look", "moving", "block", "reset", "store", "strip",
        "undoStore", "undoWrite", "undoRefused", "write", "test"}
Outs == {"none", "pinNotVerified", "certRefused", "certCleared", "certUnsure", "refusedCleared",
         "refusedKept", "keyCleared", "keyUnsure", "written"}
Held == Keys \cup {None}
PivJobs == [op : Ops, slot : Slots \cup {None}, to : Slots \cup {None}, key : Held,
            right : BOOLEAN, withCert : BOOLEAN, pc : Pcs, sess : States, gone : BOOLEAN,
            verified : BOOLEAN, changed : BOOLEAN, heard : BOOLEAN, out : Outs,
            before : [key : Held, cert : Held]]

\* Where a job is says which operation it is, and an operation has the inputs it asks for.
SlotOps == {"generate", "importCert", "selfSign", "importKey", "deleteCert", "deleteKey", "move"}
Shape ==
    /\ job # NoJob => job \in PivJobs
    /\ job.pc # "idle" =>
        /\ job.op \in SlotOps => job.slot \in Slots
        /\ job.op = "move" => job.to \in Slots
        /\ job.op \in {"generate", "importCert", "importKey"} => job.key \in Keys
        /\ job.op = "selfSign" /\ job.pc \notin {"connect", "resolve"} => job.key \in Keys
        /\ job.out # "none" <=> job.op = "importKey" /\ job.pc = "status"
FlowAt(pc, op, withCert) ==
    /\ pc = "pin" => op \in {"changePin", "setRetries", "selfSign", "importKey"}
    /\ pc \in {"generate", "wipe"} => op = "generate"
    /\ pc \in {"match", "put"} => op \in {"importCert", "selfSign"}
    /\ pc \in {"resolve", "sign"} => op = "selfSign"
    /\ pc = "clear" => op = "deleteCert"
    /\ pc = "erase" => op = "deleteKey"
    /\ pc \in {"look", "moving"} => op = "move"
    /\ pc \in {"store", "strip", "undoStore", "undoWrite", "undoRefused", "write", "test"} =>
           op = "importKey"
    /\ op = "importKey" => pc \in {"connect", "status", "pin", "store", "strip", "undoStore",
                                   "undoWrite", "undoRefused", "write", "test"}
    /\ pc \in {"store", "undoStore", "undoWrite", "undoRefused"} => withCert
    /\ pc = "strip" => ~withCert
Flow == job.pc # "idle" => FlowAt(job.pc, job.op, job.withCert)

\* What a session state says of card c is so, the key and the policy of slot x aside.
AgreesBut(st, c, x) ==
    /\ \A s \in Slots :
        /\ s # x /\ st.key[s] \in Held => st.key[s] = c.key[s]
        /\ st.cert[s] # Unread => st.cert[s] = c.cert[s]
        /\ s # x /\ st.policy[s] # Unread => st.policy[s] = ReadPolicy(c, s)
    /\ st.tries \in Nat => st.tries = c.tries
AgreesWith(st, c) ==
    /\ \A s \in Slots :
        /\ st.key[s] \in Held => st.key[s] = c.key[s]
        /\ st.cert[s] # Unread => st.cert[s] = c.cert[s]
        /\ st.policy[s] # Unread => st.policy[s] = ReadPolicy(c, s)
    /\ st.tries \in Nat => st.tries = c.tries

\* The session's caches follow the card at every step of a job, but between the new key
\* and the end of its tail; a verified PIN is forgotten with its connection.
SessInv ==
    job.pc # "idle" =>
        /\ sess.doubt = "none" =>
               IF job.pc = "wipe" THEN AgreesBut(sess, card, slot) ELSE AgreesWith(sess, card)
        /\ job.pc # "connect" => sess.tries # Verified
        /\ job.pc = "wipe" => card.key[slot] = job.key

\* What was kept agrees with the card until the job changes it.
StoredInv ==
    stored.doubt = "none" /\ (job.pc \notin {"idle", "connect"} => ~job.changed /\ job.out = "none")
        => AgreesWith(stored, card)

\* What an import has done to its slot so far.
ImportInv ==
    job.pc \notin {"idle", "connect", "status"} /\ job.op = "importKey" =>
        LET key == card.key[slot]  cert == card.cert[slot]
            was == job.before
        IN  /\ job.pc \in {"pin", "store", "strip"} => key = was.key /\ cert = was.cert
            /\ job.pc = "undoStore" => key = was.key
            /\ job.pc = "write" => key = was.key /\ cert = (IF job.withCert THEN job.key ELSE None)
            /\ job.pc = "undoWrite" => key \in {was.key, job.key} /\ cert = job.key
            /\ job.pc = "undoRefused" => key = was.key /\ cert = job.key
            /\ job.pc = "test" => key = job.key /\ cert = (IF job.withCert THEN job.key ELSE None)

\* The key a certificate is made for is the slot's.
SignInv ==
    /\ job.op = "selfSign" /\ job.pc \in {"pin", "sign", "match", "put"} /\ sess.doubt = "none" =>
           job.key = card.key[slot]
    /\ job.pc = "put" /\ job.heard => job.key = card.key[slot]

Inv == TypeOK /\ Shape /\ Flow /\ SessInv /\ StoredInv /\ ImportInv /\ ImportSays /\ SignInv

----------------------------------------------------------------------------
(* What the operators on session states do.                                *)

\* The values a cache can hold are told apart.
LEMMA Distinct ==
    /\ Unread \notin Held /\ Unnamed \notin Held /\ None \notin Keys /\ Unread # Unnamed
    /\ Unread \notin Nat /\ Verified \notin Nat /\ Verified # Unread
BY PivSlotsAssumption DEF Held

LEMMA ReadTypes ==
    ASSUME NEW c \in Cards, NEW s \in Slots
    PROVE  /\ ReadKey(c, s) \in Held \cup {Unnamed} /\ ReadPolicy(c, s) \in Held
           /\ c.key[s] \in Held /\ c.cert[s] \in Held
           /\ ReadKey(c, s) \in Held => ReadKey(c, s) = c.key[s]
           /\ ReadKey(c, s) \in Held => ReadPolicy(c, s) = c.key[s]
BY Distinct DEF Cards, ReadKey, ReadPolicy, Held, Modes

LEMMA FreshTypes ==
    /\ Fresh \in States /\ NoState \in States
    /\ Fresh.tries = Unread /\ NoState.tries = Unread /\ Fresh.doubt = "none" /\ NoState.doubt = "none"
BY DEF Fresh, NoState, AllUnread, States, Doubts

\* Nothing was read, so nothing is wrong.
LEMMA FreshAgrees ==
    ASSUME NEW c, NEW b \in BOOLEAN
    PROVE  AgreesWith(Fresh, c) /\ AgreesWith(NoState, c) /\ AgreesWith([Fresh EXCEPT !.same = b], c)
BY Distinct DEF AgreesWith, Fresh, NoState, AllUnread

\* What a state says does not depend on its event count.
LEMMA SameAgrees ==
    ASSUME NEW st \in States, NEW c, NEW b \in BOOLEAN
    PROVE  /\ [st EXCEPT !.same = b] \in States
           /\ AgreesWith([st EXCEPT !.same = b], c) <=> AgreesWith(st, c)
           /\ [st EXCEPT !.same = b].doubt = st.doubt /\ [st EXCEPT !.same = b].tries = st.tries
BY DEF AgreesWith, States

LEMMA CountAgrees ==
    ASSUME NEW st \in States, NEW c, NEW d,
           d.key = c.key, d.cert = c.cert, d.mode = c.mode
    PROVE  /\ CountUnread(st) \in States
           /\ AgreesWith(st, c) => AgreesWith(CountUnread(st), d)
           /\ CountUnread(st).doubt = st.doubt /\ CountUnread(st).tries = Unread
BY Distinct DEF AgreesWith, CountUnread, States, ReadPolicy

LEMMA LearnAgrees ==
    ASSUME NEW st \in States, NEW c \in Cards, NEW s \in Slots
    PROVE  /\ LearnPolicy(st, c, s) \in States
           /\ AgreesWith(st, c) => AgreesWith(LearnPolicy(st, c, s), c)
           /\ AgreesBut(st, c, s) => AgreesBut(LearnPolicy(st, c, s), c, s)
           /\ LearnPolicy(st, c, s).doubt = st.doubt /\ LearnPolicy(st, c, s).tries = st.tries
           /\ LearnPolicy(st, c, s).key = st.key
           /\ LearnPolicy(st, c, s).policy[s] \in {st.policy[s], ReadPolicy(c, s)}
BY ReadTypes, Distinct DEF AgreesWith, AgreesBut, LearnPolicy, States, Held

LEMMA CachedAgrees ==
    ASSUME NEW st \in States, NEW c \in Cards, NEW s \in Slots
    PROVE  /\ CachedSlotKey(st, c, s) \in States
           /\ AgreesWith(st, c) => AgreesWith(CachedSlotKey(st, c, s), c)
           /\ CachedSlotKey(st, c, s).doubt = st.doubt /\ CachedSlotKey(st, c, s).tries = st.tries
<1>1. CASE st.key[s] # Unread
  BY <1>1 DEF CachedSlotKey
<1>2. CASE st.key[s] = Unread
  <2> DEFINE l == LearnPolicy(st, c, s)
  <2>1. /\ l \in States /\ (AgreesWith(st, c) => AgreesWith(l, c))
        /\ l.doubt = st.doubt /\ l.tries = st.tries
    BY LearnAgrees
  <2>2. CachedSlotKey(st, c, s) = [l EXCEPT !.key[s] = ReadKey(c, s)]
    BY <1>2 DEF CachedSlotKey
  <2> HIDE DEF l
  <2> QED BY <2>1, <2>2, ReadTypes DEF AgreesWith, States, Held
<1> QED BY <1>1, <1>2

LEMMA EvictAgrees ==
    ASSUME NEW st \in States, NEW c, NEW d, NEW s \in Slots,
           \A x \in Slots \ {s} : d.key[x] = c.key[x],
           d.cert = c.cert, d.mode = c.mode, d.tries = c.tries
    PROVE  /\ Evict(st, s) \in States
           /\ AgreesWith(st, c) => AgreesWith(Evict(st, s), d)
           /\ AgreesBut(st, c, s) => AgreesWith(Evict(st, s), d)
           /\ Evict(st, s).doubt = st.doubt /\ Evict(st, s).tries = st.tries
           /\ Evict(st, s).policy[s] = Unread /\ Evict(st, s).key[s] = Unread
BY Distinct DEF AgreesWith, AgreesBut, Evict, States, ReadPolicy

LEMMA PolicyAgrees ==
    ASSUME NEW st \in States, NEW c \in Cards, NEW s \in Slots
    PROVE  /\ SlotPolicy(st, c, s) \in States
           /\ AgreesWith(st, c) => AgreesWith(SlotPolicy(st, c, s), c)
           /\ SlotPolicy(st, c, s).doubt = st.doubt /\ SlotPolicy(st, c, s).tries = st.tries
<1> DEFINE asked == CachedSlotKey(st, c, s)
<1>1. /\ asked \in States /\ (AgreesWith(st, c) => AgreesWith(asked, c))
      /\ asked.doubt = st.doubt /\ asked.tries = st.tries
  BY CachedAgrees
<1>2. SlotPolicy(st, c, s) \in {st, asked, [asked EXCEPT !.policy[s] = ReadPolicy(c, s)]}
  BY DEF SlotPolicy
<1> HIDE DEF asked
<1>3. LET p == [asked EXCEPT !.policy[s] = ReadPolicy(c, s)]
      IN  /\ p \in States /\ (AgreesWith(asked, c) => AgreesWith(p, c))
          /\ p.doubt = asked.doubt /\ p.tries = asked.tries
  BY <1>1, ReadTypes DEF AgreesWith, States, Held
<1> QED BY <1>1, <1>2, <1>3

\* The tail of generate_key and of an import: the caches tell the new key and its policy.
LEMMA RenewAgrees ==
    ASSUME NEW st \in States, NEW c \in Cards, NEW s \in Slots, NEW k \in Keys, c.key[s] = k
    PROVE  /\ Renew(st, c, s, k) \in States
           /\ AgreesBut(st, c, s) => AgreesWith(Renew(st, c, s, k), c)
           /\ Renew(st, c, s, k).doubt = st.doubt /\ Renew(st, c, s, k).tries = st.tries
<1> DEFINE e == Evict(st, s)
           p == SlotPolicy(e, c, s)
<1>1. /\ e \in States /\ (AgreesBut(st, c, s) => AgreesWith(e, c))
      /\ e.doubt = st.doubt /\ e.tries = st.tries
  BY EvictAgrees
<1>2. /\ p \in States /\ (AgreesWith(e, c) => AgreesWith(p, c))
      /\ p.doubt = e.doubt /\ p.tries = e.tries
  <2> HIDE DEF e
  <2> QED BY <1>1, PolicyAgrees
<1>3. Renew(st, c, s, k) = [p EXCEPT !.key[s] = k]
  BY DEF Renew
<1> HIDE DEF e, p
<1> QED BY <1>1, <1>2, <1>3 DEF AgreesWith, States, Held

\* A write of a certificate, on the card and in the cache.
LEMMA CertAgrees ==
    ASSUME NEW st \in States, NEW c \in Cards, NEW s \in Slots, NEW k \in Held
    PROVE  LET d == [c EXCEPT !.cert[s] = k]
               e == [st EXCEPT !.cert[s] = k]
           IN  /\ d \in Cards /\ e \in States
               /\ d.key = c.key /\ d.cert[s] = k
               /\ AgreesWith(st, c) => AgreesWith(e, d)
               /\ AgreesBut(st, c, s) => AgreesBut(e, d, s)
               /\ e.doubt = st.doubt /\ e.tries = st.tries
BY DEF AgreesWith, AgreesBut, States, Cards, ReadPolicy, Held

\* A write of a key leaves the caches of the other slots right.
LEMMA KeyAgrees ==
    ASSUME NEW st \in States, NEW c \in Cards, NEW s \in Slots, NEW k \in Held
    PROVE  LET d == [c EXCEPT !.key[s] = k]
           IN  /\ d \in Cards /\ d.cert = c.cert /\ d.mode = c.mode /\ d.tries = c.tries /\ d.key[s] = k
               /\ \A x \in Slots \ {s} : d.key[x] = c.key[x]
               /\ AgreesWith(st, c) => AgreesBut(st, d, s)
BY DEF AgreesWith, AgreesBut, States, Cards, ReadPolicy, Held

LEMMA TriesAgrees ==
    ASSUME NEW c \in Cards, NEW n \in 0 .. MaxTries
    PROVE  LET d == [c EXCEPT !.tries = n]
           IN  d \in Cards /\ d.key = c.key /\ d.cert = c.cert /\ d.mode = c.mode
BY DEF Cards

\* MOVE KEY takes what the caches say of the source along.
LEMMA MoveAgrees ==
    ASSUME NEW st \in States, NEW c \in Cards, NEW from \in Slots, NEW to \in Slots, NEW why \in Doubts,
           c.key[from] # None, c.key[to] = None
    PROVE  LET d == [c EXCEPT !.key[from] = None, !.key[to] = c.key[from]]
               e == [st EXCEPT !.key = Migrate(@, from, to), !.policy = Migrate(@, from, to),
                               !.doubt = why]
           IN  /\ d \in Cards /\ e \in States /\ e.doubt = why /\ e.tries = st.tries
               /\ AgreesWith(st, c) /\ Unread \notin {st.key[from], st.policy[from]} => AgreesWith(e, d)
<1> DEFINE d == [c EXCEPT !.key[from] = None, !.key[to] = c.key[from]]
           e == [st EXCEPT !.key = Migrate(@, from, to), !.policy = Migrate(@, from, to), !.doubt = why]
<1>1. from # to
  OBVIOUS
<1>2. d \in Cards /\ d.cert = c.cert /\ d.mode = c.mode /\ d.tries = c.tries
  BY DEF Cards, Held
<1>3. /\ d.key[from] = None /\ d.key[to] = c.key[from]
      /\ \A x \in Slots \ {from, to} : d.key[x] = c.key[x]
  BY <1>1 DEF Cards
<1>4. /\ e \in States /\ e.doubt = why /\ e.tries = st.tries /\ e.cert = st.cert
      /\ e.key = Migrate(st.key, from, to) /\ e.policy = Migrate(st.policy, from, to)
  BY DEF States, Migrate
<1>5. ASSUME AgreesWith(st, c), Unread \notin {st.key[from], st.policy[from]}
      PROVE  AgreesWith(e, d)
  <2>1. /\ e.key[from] = Unread /\ e.key[to] = st.key[from]
        /\ \A x \in Slots \ {from, to} : e.key[x] = st.key[x]
    BY <1>1, <1>4, <1>5 DEF Migrate, States
  <2>2. /\ e.policy[from] = Unread /\ e.policy[to] = st.policy[from]
        /\ \A x \in Slots \ {from, to} : e.policy[x] = st.policy[x]
    BY <1>1, <1>4, <1>5 DEF Migrate, States
  <2> HIDE DEF d, e
  <2> QED BY <1>2, <1>3, <1>4, <1>5, <2>1, <2>2, Distinct DEF AgreesWith, ReadPolicy
<1> HIDE DEF d, e
<1> QED BY <1>2, <1>4, <1>5 DEF d, e

\* A status read fills what was not read with what the card says.
LEMMA StatusAgrees ==
    ASSUME NEW st \in States, NEW c \in Cards, NEW bad \in SUBSET Slots, NEW detailed \in BOOLEAN,
           NEW verified \in BOOLEAN, NEW reachable \in BOOLEAN
    PROVE  LET r == ReadStatus(st, c, bad, detailed, verified, reachable)
           IN  /\ r \in States
               /\ r.doubt = "none" => st.doubt = "none" /\ bad = {}
               /\ bad = {} /\ AgreesWith(st, c) => AgreesWith(r, c)
<1> DEFINE r == ReadStatus(st, c, bad, detailed, verified, reachable)
<1>1. r.key \in [Slots -> Held \cup {Unnamed, Unread}]
  BY ReadTypes DEF ReadStatus, States, Held
<1>2. r.cert \in [Slots -> Held \cup {Unread}]
  BY ReadTypes DEF ReadStatus, States, Held
<1>3. r.policy \in [Slots -> Held \cup {Unread}]
  BY ReadTypes DEF ReadStatus, States, Held
<1>4. r.tries \in (0 .. MaxTries) \cup {Unread, Verified}
  BY DEF ReadStatus, States, Cards
<1>5. r.doubt \in Doubts /\ (r.doubt = "none" => st.doubt = "none" /\ bad = {})
  BY DEF ReadStatus, States, Doubt, Doubts
<1>6. r \in States
  BY <1>1, <1>2, <1>3, <1>4, <1>5 DEF ReadStatus, States, Held
<1>7. ASSUME bad = {}, AgreesWith(st, c) PROVE AgreesWith(r, c)
  <2>1. ASSUME NEW s \in Slots PROVE r.key[s] \in Held => r.key[s] = c.key[s]
    BY <1>7, ReadTypes DEF ReadStatus, AgreesWith, States
  <2>2. ASSUME NEW s \in Slots PROVE r.cert[s] # Unread => r.cert[s] = c.cert[s]
    BY <1>7, ReadTypes DEF ReadStatus, AgreesWith, States
  <2>3. ASSUME NEW s \in Slots PROVE r.policy[s] # Unread => r.policy[s] = ReadPolicy(c, s)
    BY <1>7, ReadTypes DEF ReadStatus, AgreesWith, States, Held
  <2>4. r.tries \in Nat => r.tries = c.tries
    BY <1>7, Distinct DEF ReadStatus, AgreesWith, States
  <2> QED BY <2>1, <2>2, <2>3, <2>4 DEF AgreesWith
<1> HIDE DEF r
<1> QED BY <1>5, <1>6, <1>7 DEF r

----------------------------------------------------------------------------
(* How a job goes on and how it ends.                                      *)

LEMMA FaultTypes ==
    ASSUME TypeOK, Fault \/ Hear \/ Silence \/ UNCHANGED faults
    PROVE  faults' \in 0 .. MaxFaults
<1>1. faults \in 0 .. MaxFaults /\ MaxFaults \in Nat
  BY PivSlotsAssumption DEF TypeOK
<1> QED BY <1>1 DEF Fault, Hear, Silence

\* A job that is not idle has all its fields.
LEMMA Running ==
    ASSUME Inv, job.pc # "idle"
    PROVE  job \in PivJobs /\ FlowAt(job.pc, job.op, job.withCert)
BY DEF Inv, Shape, Flow, NoJob

\* Nothing is said of a job that is over.
LEMMA IdleKeeps ==
    ASSUME job' = NoJob
    PROVE  /\ Shape' /\ Flow' /\ SessInv' /\ ImportInv' /\ ImportSays' /\ SignInv'
           /\ job'.pc = "idle"
BY DEF NoJob, Shape, Flow, SessInv, ImportInv, ImportSays, SignInv

\* A job that fails leaves the kept state in doubt if it had changed the card.
LEMMA FailKeeps ==
    ASSUME Inv, job.pc # "idle", job.out = "none", NEW c \in Cards, Fail(c),
           Fault \/ Hear \/ Silence \/ UNCHANGED faults
    PROVE  Inv'
<1>1. faults' \in 0 .. MaxFaults /\ writes' \in 0 .. MaxWrites
  BY FaultTypes DEF Inv, TypeOK, Fail
<1>2. job \in PivJobs /\ job.sess \in States /\ job.sess.doubt \in Doubts
  BY Running DEF PivJobs, States
<1> DEFINE why == IF job.changed \/ c # card THEN "other" ELSE job.sess.doubt
<1>3. /\ card' = c /\ job' = NoJob /\ why \in Doubts
      /\ stored' = [stored EXCEPT !.doubt = Doubt(@, why)]
      /\ pane' = [pane EXCEPT !.doubt = Doubt(@, why)]
      /\ why = "none" => ~job.changed /\ c = card
  BY <1>2 DEF Fail, Doubts
<1> HIDE DEF why
<1>4. stored \in States /\ pane \in [occupied : SUBSET Slots, empty : SUBSET Slots, doubt : Doubts]
  BY DEF Inv, TypeOK
<1>5. /\ stored' \in States /\ stored'.key = stored.key /\ stored'.cert = stored.cert
      /\ stored'.policy = stored.policy /\ stored'.tries = stored.tries
      /\ stored'.doubt = "none" => stored.doubt = "none" /\ why = "none"
  BY <1>3, <1>4 DEF States, Doubt, Doubts
<1>6. /\ pane' \in [occupied : SUBSET Slots, empty : SUBSET Slots, doubt : Doubts]
      /\ pane'.occupied = pane.occupied /\ pane'.empty = pane.empty
  BY <1>3, <1>4 DEF Doubt, Doubts
<1>7. TypeOK'
  BY <1>1, <1>3, <1>5, <1>6, IdleKeeps DEF Inv, TypeOK
<1>8. StoredInv'
  <2>1. ASSUME stored'.doubt = "none" PROVE AgreesWith(stored', card')
    <3>1. AgreesWith(stored, card) /\ card' = card
      BY <2>1, <1>3, <1>5 DEF Inv, StoredInv
    <3> QED BY <3>1, <1>5 DEF AgreesWith
  <2> QED BY <2>1 DEF StoredInv, AgreesWith
<1> QED BY <1>3, <1>7, <1>8, IdleKeeps DEF Inv

\* A job that goes on with a state that agrees with what it made of the card.
LEMMA GoKeeps ==
    ASSUME Inv, job.pc \notin {"idle", "connect", "resolve", "status"},
           NEW pc \in Pcs \ {"connect", "resolve"}, NEW st \in States, NEW c \in Cards,
           Go(pc, st, c), Fault \/ Hear \/ Silence \/ UNCHANGED faults,
           FlowAt(pc, job.op, job.withCert), ~(job.op = "importKey" /\ pc = "status"),
           st.tries # Verified,
           st.doubt = "none" => IF pc = "wipe" THEN AgreesBut(st, c, slot) ELSE AgreesWith(st, c),
           pc = "wipe" => c.key[slot] = job.key
    PROVE  /\ TypeOK' /\ Shape' /\ Flow' /\ SessInv' /\ StoredInv' /\ ImportSays'
           /\ job.op # "importKey" => ImportInv'
           /\ pc \notin {"pin", "sign", "match", "put"} => SignInv'
           /\ card' = c /\ job'.pc = pc /\ job'.sess = st /\ job'.op = job.op /\ job'.slot = job.slot
           /\ job'.key = job.key /\ job'.before = job.before /\ job'.withCert = job.withCert
           /\ job'.heard = job.heard
<1>1. faults' \in 0 .. MaxFaults
  BY FaultTypes DEF Inv
<1>2. job \in PivJobs
  BY Running
<1>3. card' = c /\ UNCHANGED <<stored, pane, writes>>
  BY DEF Go
<1>4. /\ job' \in PivJobs
      /\ job'.pc = pc /\ job'.sess = st /\ job'.op = job.op /\ job'.slot = job.slot /\ job'.to = job.to
      /\ job'.key = job.key /\ job'.before = job.before /\ job'.withCert = job.withCert
      /\ job'.heard = job.heard /\ job'.out = job.out
      /\ ~job'.changed => ~job.changed /\ c = card
  BY <1>2 DEF Go, PivJobs
<1>5. job.out = "none" /\ pc # "idle"
  BY <1>2 DEF Inv, Shape, Pcs
<1>6. TypeOK'
  BY <1>1, <1>3, <1>4 DEF Inv, TypeOK
<1>7. Shape' /\ Flow'
  BY <1>4, <1>5 DEF Inv, Shape, Flow, NoJob
<1>8. SessInv'
  BY <1>3, <1>4 DEF SessInv, sess, slot, AgreesBut, AgreesWith
<1>9. StoredInv'
  <2>1. ASSUME stored'.doubt = "none", ~job'.changed PROVE AgreesWith(stored', card')
    BY <2>1, <1>3, <1>4, <1>5 DEF Inv, StoredInv
  <2> QED BY <2>1, <1>4 DEF StoredInv, Pcs, AgreesWith
<1>10. /\ ImportSays' /\ (job.op # "importKey" => ImportInv')
       /\ pc \notin {"pin", "sign", "match", "put"} => SignInv'
  BY <1>4 DEF ImportSays, ImportInv, SignInv
<1> QED BY <1>3, <1>4, <1>6, <1>7, <1>8, <1>9, <1>10

\* A write of a job that is no import: done, or the job fails.
LEMMA WriteKeeps ==
    ASSUME Inv, job.pc \notin {"idle", "connect", "resolve", "status"}, job.op # "importKey",
           NEW pc, NEW c \in Cards, NEW next \in Pcs \ {"connect", "resolve"}, NEW st \in States,
           Write(pc, c, next, st), FlowAt(next, job.op, job.withCert), st.tries # Verified,
           st.doubt = "none" => IF next = "wipe" THEN AgreesBut(st, c, slot) ELSE AgreesWith(st, c),
           next = "wipe" => c.key[slot] = job.key,
           Go(next, st, c) => SignInv'
    PROVE  Inv'
<1>1. CASE Hear /\ Go(next, st, c)
  <2>1. /\ TypeOK' /\ Shape' /\ Flow' /\ SessInv' /\ StoredInv' /\ ImportSays' /\ ImportInv'
    BY <1>1, GoKeeps
  <2> QED BY <2>1, <1>1 DEF Inv
<1>2. job.out = "none" /\ card \in Cards
  BY DEF Inv, Shape, TypeOK
<1>3. CASE Hear /\ Fail(card)
  BY <1>2, <1>3, FailKeeps
<1>4. CASE Silence /\ \E d \in Unanswered(c) : Fail(d)
  BY <1>2, <1>4, FailKeeps DEF Unanswered
<1> QED BY <1>1, <1>3, <1>4 DEF Write

\* What an import reports of its slot, on card c.
Says(out, c) ==
    /\ out \in {"pinNotVerified", "certRefused"} =>
           c.key[slot] = job.before.key /\ c.cert[slot] = job.before.cert
    /\ out \in {"certCleared", "certUnsure", "refusedCleared", "refusedKept"} =>
           c.key[slot] = job.before.key
    /\ out \in {"certCleared", "refusedCleared", "keyCleared"} => c.cert[slot] = None
    /\ out \in {"keyCleared", "keyUnsure"} => c.key[slot] \in {job.before.key, job.key}
    /\ out \in {"refusedKept", "keyUnsure"} => c.cert[slot] \in {None, job.key}
    /\ out = "written" => c.key[slot] = job.key /\ c.cert[slot] = (IF job.withCert THEN job.key ELSE None)

\* An import that goes on to its status read with a report that is true.
LEMMA ReportKeeps ==
    ASSUME Inv, job.op = "importKey", job.pc \notin {"idle", "connect", "status"},
           NEW out \in Outs \ {"none"}, NEW st \in States, NEW c \in Cards,
           Report(out, st, c), Fault \/ Hear \/ Silence \/ UNCHANGED faults,
           st.tries # Verified, st.doubt = "none" => AgreesWith(st, c), Says(out, c)
    PROVE  Inv'
<1>1. faults' \in 0 .. MaxFaults
  BY FaultTypes DEF Inv
<1>2. job \in PivJobs /\ FlowAt(job.pc, job.op, job.withCert)
  BY Running
<1>3. card' = c /\ UNCHANGED <<stored, pane, writes>>
  BY DEF Report
<1>4. /\ job' \in PivJobs
      /\ job'.pc = "status" /\ job'.sess = st /\ job'.op = job.op /\ job'.slot = job.slot /\ job'.to = job.to
      /\ job'.key = job.key /\ job'.before = job.before /\ job'.withCert = job.withCert
      /\ job'.out = out
  BY <1>2 DEF Report, PivJobs, Pcs
<1>5. TypeOK'
  BY <1>1, <1>3, <1>4 DEF Inv, TypeOK
<1>6. Shape' /\ Flow'
  BY <1>2, <1>4 DEF Inv, Shape, Flow, FlowAt, NoJob
<1>7. SessInv' /\ StoredInv'
  BY <1>3, <1>4 DEF SessInv, StoredInv, sess, slot, AgreesBut, AgreesWith
<1>8. ImportInv' /\ SignInv'
  BY <1>4 DEF ImportInv, SignInv
<1>9. ImportSays'
  BY <1>3, <1>4 DEF ImportSays, Says, slot, Outs
<1> QED BY <1>5, <1>6, <1>7, <1>8, <1>9 DEF Inv

----------------------------------------------------------------------------
(* The commands that write.                                                *)

\* What holds in the middle of a job.
LEMMA Midway ==
    ASSUME Inv, job.pc \notin {"idle", "connect"}
    PROVE  /\ job \in PivJobs /\ card \in Cards /\ sess \in States /\ sess.tries # Verified
           /\ slot = job.slot /\ sess = job.sess
           /\ FlowAt(job.pc, job.op, job.withCert)
           /\ job.op \in SlotOps => slot \in Slots
           /\ job.pc # "wipe" /\ sess.doubt = "none" => AgreesWith(sess, card)
           /\ job.pc = "wipe" /\ sess.doubt = "none" => AgreesBut(sess, card, slot)
           /\ job.pc = "wipe" => card.key[slot] = job.key
           /\ job.pc # "status" => job.out = "none"
BY Running DEF Inv, TypeOK, Shape, SessInv, sess, slot

LEMMA FlowStatus ==
    ASSUME NEW op, NEW withCert
    PROVE  FlowAt("status", op, withCert)
BY DEF FlowAt

LEMMA FailsKeep ==
    ASSUME Inv, job.pc \notin {"idle", "status"}, (Hear \/ Silence) /\ Fail(card)
    PROVE  Inv'
BY FailKeeps DEF Inv, Shape, TypeOK

LEMMA PinWritesKeep ==
    ASSUME Inv, SetRetries \/ Unblock
    PROVE  Inv'
<1>1. job.pc \in {"retries", "unblock"}
  BY DEF SetRetries, Unblock, Write
<1>2. CASE ~job.right /\ job.pc = "unblock" /\ (Hear \/ Silence) /\ Fail(card)
  BY <1>2, FailsKeep
<1>3. CASE \E pc : Write(pc, [card EXCEPT !.tries = MaxTries], "status", CountUnread(sess))
  <2> DEFINE c == [card EXCEPT !.tries = MaxTries]
             st == CountUnread(sess)
  <2>1. PICK pc : Write(pc, c, "status", st)
    BY <1>3
  <2>2. /\ c \in Cards /\ st \in States /\ st.tries # Verified
        /\ st.doubt = "none" => AgreesWith(st, c)
    <3>1. MaxTries \in 0 .. MaxTries
      BY PivSlotsAssumption
    <3>2. c \in Cards /\ c.key = card.key /\ c.cert = card.cert /\ c.mode = card.mode
      BY <1>1, <3>1, Midway, TriesAgrees
    <3> HIDE DEF c
    <3> QED BY <1>1, <3>2, Midway, CountAgrees, Distinct
  <2>3. job.op # "importKey"
    BY <1>1, Midway DEF FlowAt
  <2>4. Go("status", st, c) => SignInv'
    BY <1>1, Midway DEF Go, SignInv, PivJobs
  <2> HIDE DEF c, st
  <2> QED BY <1>1, <2>1, <2>2, <2>3, <2>4, WriteKeeps, FlowStatus DEF Pcs
<1> QED BY <1>2, <1>3 DEF SetRetries, Unblock

LEMMA GenerateKeeps ==
    ASSUME Inv, Generate
    PROVE  Inv'
<1>1. job.pc = "generate"
  BY DEF Generate, Write
<1>2. job.op = "generate" /\ slot \in Slots /\ job.key \in Keys /\ job.key \in Held
  BY <1>1, Midway DEF FlowAt, SlotOps, Inv, Shape, Held
<1> DEFINE c == [card EXCEPT !.key[slot] = job.key]
<1>3. c \in Cards /\ c.key[slot] = job.key /\ (sess.doubt = "none" => AgreesBut(sess, c, slot))
  BY <1>1, <1>2, Midway, KeyAgrees
<1>4. Go("wipe", sess, c) => SignInv'
  BY <1>1, Midway DEF Go, SignInv, PivJobs
<1>5. Write("generate", c, "wipe", sess)
  BY DEF Generate
<1> HIDE DEF c
<1> QED BY <1>1, <1>2, <1>3, <1>4, <1>5, Midway, WriteKeeps DEF FlowAt, Pcs

LEMMA WipeKeeps ==
    ASSUME Inv, Wipe
    PROVE  Inv'
<1>1. job.pc = "wipe"
  BY DEF Wipe, Write
<1>2. job.op = "generate" /\ slot \in Slots /\ job.key \in Keys
  BY <1>1, Midway DEF FlowAt, SlotOps, Inv, Shape
<1> DEFINE c  == [card EXCEPT !.cert[slot] = None]
           e  == [sess EXCEPT !.cert[slot] = None]
           st == Renew(e, c, slot, job.key)
<1>3. /\ c \in Cards /\ e \in States /\ c.key[slot] = job.key
      /\ e.doubt = sess.doubt /\ e.tries = sess.tries
      /\ AgreesBut(sess, card, slot) => AgreesBut(e, c, slot)
  BY <1>1, <1>2, Midway, CertAgrees DEF Held
<1>4. Write("wipe", c, "status", st)
  BY DEF Wipe
<1> HIDE DEF c, e
<1>5. /\ st \in States /\ st.tries # Verified /\ (st.doubt = "none" => AgreesWith(st, c))
  BY <1>1, <1>2, <1>3, Midway, RenewAgrees
<1>6. Go("status", st, c) => SignInv'
  BY <1>1, Midway DEF Go, SignInv, PivJobs
<1> HIDE DEF st
<1> QED BY <1>1, <1>2, <1>3, <1>4, <1>5, <1>6, Midway, WriteKeeps, FlowStatus DEF Pcs

LEMMA ClearKeeps ==
    ASSUME Inv, Clear
    PROVE  Inv'
<1>1. job.pc = "clear"
  BY DEF Clear, Write
<1>2. job.op = "deleteCert" /\ slot \in Slots
  BY <1>1, Midway DEF FlowAt, SlotOps
<1> DEFINE c  == [card EXCEPT !.cert[slot] = None]
           st == [sess EXCEPT !.cert[slot] = None]
<1>3. /\ c \in Cards /\ st \in States /\ st.tries # Verified /\ (st.doubt = "none" => AgreesWith(st, c))
  BY <1>1, <1>2, Midway, CertAgrees DEF Held
<1>4. Write("clear", c, "status", st)
  BY DEF Clear
<1>5. Go("status", st, c) => SignInv'
  BY <1>1, Midway DEF Go, SignInv, PivJobs
<1> HIDE DEF c, st
<1> QED BY <1>1, <1>2, <1>3, <1>4, <1>5, Midway, WriteKeeps, FlowStatus DEF Pcs

LEMMA EraseKeeps ==
    ASSUME Inv, Erase
    PROVE  Inv'
<1>1. job.pc = "erase"
  BY DEF Erase, Write
<1>2. job.op = "deleteKey" /\ slot \in Slots
  BY <1>1, Midway DEF FlowAt, SlotOps
<1> DEFINE c  == [card EXCEPT !.key[slot] = None]
           st == Evict(sess, slot)
<1>3. /\ c \in Cards /\ c.cert = card.cert /\ c.mode = card.mode /\ c.tries = card.tries
      /\ \A x \in Slots \ {slot} : c.key[x] = card.key[x]
  BY <1>1, <1>2, Midway, KeyAgrees DEF Held
<1>4. Write("erase", c, "status", st)
  BY DEF Erase
<1> HIDE DEF c
<1>5. st \in States /\ st.tries # Verified /\ (st.doubt = "none" => AgreesWith(st, c))
  BY <1>1, <1>2, <1>3, Midway, EvictAgrees
<1>6. Go("status", st, c) => SignInv'
  BY <1>1, Midway DEF Go, SignInv, PivJobs
<1> HIDE DEF st
<1> QED BY <1>1, <1>2, <1>3, <1>4, <1>5, <1>6, Midway, WriteKeeps, FlowStatus DEF Pcs

LEMMA LookKeeps ==
    ASSUME Inv, Look
    PROVE  Inv'
<1>1. job.pc = "look"
  BY DEF Look
<1>2. job.op = "move" /\ job.to \in Slots
  BY <1>1, Midway DEF FlowAt, Inv, Shape
<1>3. ASSUME NEW st \in States, Go("moving", st, card), Hear \/ Silence \/ UNCHANGED faults,
             st.tries = sess.tries, st.doubt = sess.doubt, AgreesWith(sess, card) => AgreesWith(st, card)
      PROVE  Inv'
  <2>1. /\ TypeOK' /\ Shape' /\ Flow' /\ SessInv' /\ StoredInv' /\ ImportSays'
        /\ ImportInv' /\ SignInv'
    BY <1>1, <1>2, <1>3, Midway, GoKeeps DEF FlowAt, Pcs
  <2> QED BY <2>1 DEF Inv
<1>4. ASSUME NEW st \in States, IF st.key[job.to] \in Keys THEN Fail(card) ELSE Go("moving", st, card),
             Hear \/ UNCHANGED faults, st.tries = sess.tries, st.doubt = sess.doubt,
             AgreesWith(sess, card) => AgreesWith(st, card)
      PROVE  Inv'
  BY <1>1, <1>3, <1>4, Midway, FailKeeps
<1>5. CASE /\ sess.key[job.to] # Unread /\ UNCHANGED faults
           /\ IF sess.key[job.to] \in Keys THEN Fail(card) ELSE Go("moving", sess, card)
  BY <1>1, <1>4, <1>5, Midway
<1>6. CASE /\ Hear
           /\ LET now == CachedSlotKey(sess, card, job.to)
              IN  IF now.key[job.to] \in Keys THEN Fail(card) ELSE Go("moving", now, card)
  BY <1>1, <1>2, <1>4, <1>6, Midway, CachedAgrees
<1>7. CASE sess.key[job.to] = Unread /\ Silence /\ Go("moving", [sess EXCEPT !.key[job.to] = Unnamed], card)
  <2> DEFINE st == [sess EXCEPT !.key[job.to] = Unnamed]
  <2>1. /\ st \in States /\ st.tries = sess.tries /\ st.doubt = sess.doubt
        /\ AgreesWith(sess, card) => AgreesWith(st, card)
    BY <1>1, <1>2, Midway, Distinct DEF States, AgreesWith
  <2> QED BY <2>1, <1>3, <1>7
<1> QED BY <1>5, <1>6, <1>7 DEF Look

LEMMA MoveKeeps ==
    ASSUME Inv, Move
    PROVE  Inv'
<1>1. job.pc = "moving"
  BY DEF Move
<1>2. job.op = "move" /\ slot \in Slots /\ job.to \in Slots
  BY <1>1, Midway DEF FlowAt, SlotOps, Inv, Shape
<1> DEFINE c   == [card EXCEPT !.key[slot] = None, !.key[job.to] = card.key[slot]]
           why == Doubt(sess.doubt, IF Unread \in {sess.key[slot], sess.policy[slot]}
                                    THEN "moved" ELSE "none")
           st  == [sess EXCEPT !.key = Migrate(@, slot, job.to), !.policy = Migrate(@, slot, job.to),
                               !.doubt = why]
<1>3. CASE card.key[job.to] = None /\ card.key[slot] # None /\ Write("moving", c, "status", st)
  <2>1. why \in Doubts /\ (why = "none" => sess.doubt = "none" /\ Unread \notin {sess.key[slot], sess.policy[slot]})
    BY <1>1, Midway DEF Doubt, Doubts, States
  <2> HIDE DEF why
  <2>2. /\ c \in Cards /\ st \in States /\ st.doubt = why /\ st.tries = sess.tries
        /\ AgreesWith(sess, card) /\ Unread \notin {sess.key[slot], sess.policy[slot]} => AgreesWith(st, c)
    BY <1>1, <1>2, <1>3, <2>1, Midway, MoveAgrees
  <2>3. Go("status", st, c) => SignInv'
    BY <1>1, Midway DEF Go, SignInv, PivJobs
  <2> HIDE DEF c, st
  <2> QED BY <1>1, <1>2, <1>3, <2>1, <2>2, <2>3, Midway, WriteKeeps, FlowStatus DEF Pcs
<1>4. CASE (Hear \/ Silence) /\ Fail(card)
  BY <1>1, <1>4, FailsKeep
<1> QED BY <1>3, <1>4 DEF Move

LEMMA BlockKeeps ==
    ASSUME Inv, Block
    PROVE  Inv'
<1>1. job.pc = "block"
  BY DEF Block, Write
<1>2. job.op # "importKey"
  BY <1>1, Midway DEF FlowAt
<1>3. \A n \in 0 .. MaxTries : [card EXCEPT !.tries = n] \in Cards
  BY <1>1, Midway, TriesAgrees
<1>4. CASE Fault /\ \E n \in 0 .. card.tries : Fail([card EXCEPT !.tries = n])
  <2>1. card.tries \in 0 .. MaxTries
    BY <1>1, Midway DEF Cards
  <2>2. \A n \in 0 .. card.tries : n \in 0 .. MaxTries
    BY <2>1, PivSlotsAssumption
  <2> QED BY <1>1, <1>3, <1>4, <2>2, Midway, FailKeeps
<1>5. CASE Write("block", [card EXCEPT !.tries = 0], "reset", CountUnread(sess))
  <2> DEFINE c == [card EXCEPT !.tries = 0]
             st == CountUnread(sess)
  <2>1. 0 \in 0 .. MaxTries
    BY PivSlotsAssumption
  <2>2. c \in Cards /\ c.key = card.key /\ c.cert = card.cert /\ c.mode = card.mode
    BY <1>1, <2>1, Midway, TriesAgrees
  <2>3. Go("reset", st, c) => SignInv'
    BY <1>1, Midway DEF Go, SignInv, PivJobs
  <2> HIDE DEF c
  <2>4. /\ st \in States /\ st.tries # Verified /\ (st.doubt = "none" => AgreesWith(st, c))
    BY <1>1, <2>2, Midway, CountAgrees, Distinct
  <2>5. FlowAt("reset", job.op, job.withCert)
    BY <1>2 DEF FlowAt
  <2> HIDE DEF st
  <2> QED BY <1>1, <1>2, <1>5, <2>2, <2>3, <2>4, <2>5, WriteKeeps DEF Pcs, c, st
<1> QED BY <1>4, <1>5 DEF Block

LEMMA ResetKeeps ==
    ASSUME Inv, Reset
    PROVE  Inv'
<1>1. job.pc = "reset"
  BY DEF Reset, Write
<1>2. job.op # "importKey"
  BY <1>1, Midway DEF FlowAt
<1> DEFINE c == [card EXCEPT !.key = [s \in Slots |-> None], !.cert = [s \in Slots |-> None],
                             !.tries = MaxTries]
<1>3. MaxTries \in 0 .. MaxTries
  BY PivSlotsAssumption
<1>4. c \in Cards
  BY <1>1, <1>3, Midway DEF Cards
<1>5. Write("reset", c, "status", NoState)
  BY DEF Reset
<1>6. Go("status", NoState, c) => SignInv'
  BY <1>1, Midway DEF Go, SignInv, PivJobs
<1> HIDE DEF c
<1> QED BY <1>1, <1>2, <1>4, <1>5, <1>6, FreshTypes, FreshAgrees, Distinct, WriteKeeps, FlowStatus DEF Pcs

LEMMA SignKeeps ==
    ASSUME Inv, Sign
    PROVE  Inv'
<1>1. job.pc = "sign"
  BY DEF Sign
<1>2. job.op = "selfSign"
  BY <1>1, Midway DEF FlowAt
<1>3. CASE (Hear \/ Silence) /\ Fail(card)
  BY <1>1, <1>3, FailsKeep
<1>4. CASE Write("sign", card, "match", sess)
  <2>1. Go("match", sess, card) => SignInv'
    BY <1>1, <1>2, Midway DEF Go, Inv, SignInv, PivJobs, sess, slot
  <2> QED BY <1>1, <1>2, <1>4, <2>1, Midway, WriteKeeps DEF FlowAt, Pcs
<1> QED BY <1>3, <1>4 DEF Sign

LEMMA PutKeeps ==
    ASSUME Inv, Put
    PROVE  Inv'
<1>1. job.pc = "put"
  BY DEF Put, Write
<1>2. job.op \in {"importCert", "selfSign"} /\ slot \in Slots /\ job.key \in Held
  BY <1>1, Midway DEF FlowAt, SlotOps, PivJobs
<1> DEFINE c  == [card EXCEPT !.cert[slot] = job.key]
           st == [sess EXCEPT !.cert[slot] = job.key]
<1>3. /\ c \in Cards /\ st \in States /\ st.tries # Verified /\ (st.doubt = "none" => AgreesWith(st, c))
  BY <1>1, <1>2, Midway, CertAgrees
<1>4. Write("put", c, "status", st)
  BY DEF Put
<1>5. Go("status", st, c) => SignInv'
  BY <1>1, Midway DEF Go, SignInv, PivJobs
<1> HIDE DEF c, st
<1> QED BY <1>1, <1>2, <1>3, <1>4, <1>5, Midway, WriteKeeps, FlowStatus DEF Pcs

----------------------------------------------------------------------------
(* The commands that ask for a slot's key.                                 *)

LEMMA ConfirmedAgrees ==
    ASSUME NEW st \in States, card \in Cards, slot \in Slots,
           NEW said \in {ReadKey(card, slot), Unnamed}
    PROVE  /\ Confirmed(st, said) \in States
           /\ AgreesWith(st, card) => AgreesWith(Confirmed(st, said), card)
           /\ Confirmed(st, said).doubt = st.doubt /\ Confirmed(st, said).tries = st.tries
<1>1. CASE said \notin Keys
  BY <1>1 DEF Confirmed
<1>2. CASE said \in Keys
  <2> DEFINE l == LearnPolicy(st, card, slot)
  <2>1. /\ l \in States /\ (AgreesWith(st, card) => AgreesWith(l, card))
        /\ l.doubt = st.doubt /\ l.tries = st.tries
    BY LearnAgrees
  <2>2. Confirmed(st, said) = [l EXCEPT !.key[slot] = said]
    BY <1>2 DEF Confirmed
  <2>3. said = card.key[slot]
    BY <1>2, ReadTypes, PivSlotsAssumption DEF Held
  <2> HIDE DEF l
  <2> QED BY <1>2, <2>1, <2>2, <2>3 DEF AgreesWith, States
<1> QED BY <1>1, <1>2

\* The key that is confirmed is the card's, when the card named it or the cache is right.
LEMMA ConfirmedIsCards ==
    ASSUME NEW st \in States, card \in Cards, slot \in Slots,
           NEW said \in {ReadKey(card, slot), Unnamed}
    PROVE  LET k == ConfirmedSlotKey(st, said, slot)
           IN  /\ k \in Held
               /\ said \in Keys => k = said /\ k = card.key[slot] /\ k # None
               /\ AgreesWith(st, card) /\ k \in Keys => k = card.key[slot]
BY ReadTypes, PivSlotsAssumption DEF ConfirmedSlotKey, AgreesWith, Held

LEMMA AskKeeps ==
    ASSUME Inv, NEW pc, NEW next, NEW good, Ask(pc, next, good),
           \/ pc = "resolve" /\ next = "pin" /\ good = Keys
           \/ pc = "match" /\ next = "put" /\ good = {None, job.key}
    PROVE  Inv'
<1>1. job.pc = pc /\ pc \in {"resolve", "match"} /\ next \in {"pin", "put"}
  BY DEF Ask
<1>2. /\ job \in PivJobs /\ card \in Cards /\ sess \in States /\ slot \in Slots
      /\ job.op \in {"importCert", "selfSign"} /\ (pc = "resolve" => job.op = "selfSign")
      /\ job.out = "none"
  BY <1>1, Midway DEF FlowAt, SlotOps
<1>3. PICK heard \in BOOLEAN :
        LET said == IF heard THEN ReadKey(card, slot) ELSE Unnamed
            k    == ConfirmedSlotKey(sess, said, slot)
        IN  /\ IF heard THEN Hear ELSE Silence
            /\ IF k \in good
               THEN /\ job' = [job EXCEPT !.sess = Confirmed(sess, said), !.key = IF k = None THEN @ ELSE k,
                                          !.heard = (pc = "match" /\ said \in Keys), !.pc = next]
                    /\ UNCHANGED <<card, stored, pane, writes>>
               ELSE Fail(card)
  BY DEF Ask
<1> DEFINE said == IF heard THEN ReadKey(card, slot) ELSE Unnamed
           k    == ConfirmedSlotKey(sess, said, slot)
           st   == Confirmed(sess, said)
<1>4. CASE k \notin good
  BY <1>1, <1>2, <1>3, <1>4, FailKeeps
<1>5. CASE k \in good
  <2>1. said \in {ReadKey(card, slot), Unnamed}
    OBVIOUS
  <2>2. job' = [job EXCEPT !.sess = st, !.key = IF k = None THEN @ ELSE k,
                           !.heard = (pc = "match" /\ said \in Keys), !.pc = next]
    BY <1>3, <1>5
  <2>3. UNCHANGED <<card, stored, pane, writes>> /\ (Hear \/ Silence)
    BY <1>3, <1>5
  <2> HIDE DEF said
  <2>4. /\ st \in States /\ st.doubt = sess.doubt /\ st.tries = sess.tries
        /\ AgreesWith(sess, card) => AgreesWith(st, card)
    BY <1>2, <2>1, ConfirmedAgrees
  <2>5. /\ k \in Held
        /\ said \in Keys => k = said /\ k = card.key[slot] /\ k # None
        /\ AgreesWith(sess, card) /\ k \in Keys => k = card.key[slot]
    BY <1>2, <2>1, ConfirmedIsCards
  <2> HIDE DEF k, st
  <2>6. /\ job' \in PivJobs /\ job'.pc = next /\ job'.op = job.op /\ job'.slot = job.slot
        /\ job'.to = job.to /\ job'.withCert = job.withCert /\ job'.out = job.out
        /\ job'.changed = job.changed /\ job'.sess = st
        /\ job'.key = (IF k = None THEN job.key ELSE k)
        /\ job'.heard => pc = "match" /\ said \in Keys
    <3> DEFINE h  == pc = "match" /\ said \in Keys
               kk == IF k = None THEN job.key ELSE k
    <3>1. /\ h \in BOOLEAN /\ (h => pc = "match" /\ said \in Keys) /\ kk \in Held
          /\ job' = [job EXCEPT !.sess = st, !.key = kk, !.heard = h, !.pc = next] /\ next \in Pcs
      BY <1>1, <1>2, <2>2, <2>5 DEF PivJobs, Pcs
    <3> HIDE DEF h
    <3>2. /\ job' \in PivJobs /\ job'.pc = next /\ job'.op = job.op /\ job'.slot = job.slot
          /\ job'.to = job.to /\ job'.withCert = job.withCert /\ job'.out = job.out
          /\ job'.changed = job.changed /\ job'.sess = st /\ job'.key = kk /\ job'.heard = h
      <4> HIDE DEF kk
      <4> QED BY <1>2, <2>4, <3>1 DEF PivJobs
    <3> QED BY <3>1, <3>2
  <2>7. faults' \in 0 .. MaxFaults
    BY <2>3, FaultTypes DEF Inv
  <2>8. TypeOK'
    BY <2>3, <2>4, <2>6, <2>7 DEF Inv, TypeOK
  <2>9. pc = "match" => job'.key = job.key
    BY <1>5, <2>6
  <2>10. Shape' /\ Flow'
    <3>1. job.op = "selfSign" => job'.key \in Keys
      BY <1>1, <1>5, <2>6, <2>9, PivSlotsAssumption DEF Inv, Shape
    <3>2. pc = "resolve" => job.op = "selfSign"
      BY <1>2
    <3> QED BY <1>1, <1>2, <2>6, <2>9, <3>1, Midway DEF Inv, Shape, Flow, FlowAt, NoJob
  <2>11. SessInv' /\ StoredInv'
    BY <1>1, <1>2, <2>3, <2>4, <2>6, Midway DEF Inv, SessInv, StoredInv, sess, slot, AgreesBut, AgreesWith
  <2>12. ImportInv' /\ ImportSays'
    BY <1>1, <1>2, <2>6 DEF ImportInv, ImportSays
  <2>13. SignInv'
    <3>1. ASSUME pc = "resolve", sess.doubt = "none" PROVE job'.key = card.key[slot]
      BY <3>1, <1>1, <1>2, <1>5, <2>5, <2>6, Midway, PivSlotsAssumption
    <3>2. ASSUME pc = "match", job.op = "selfSign", sess.doubt = "none" PROVE job'.key = card.key[slot]
      BY <3>2, <1>1, <2>9 DEF Inv, SignInv
    <3>3. ASSUME job'.heard PROVE job'.key = card.key[slot]
      BY <3>3, <2>5, <2>6
    <3> QED BY <1>1, <1>2, <2>3, <2>4, <2>6, <3>1, <3>2, <3>3 DEF SignInv, sess, slot
  <2> QED BY <2>8, <2>10, <2>11, <2>12, <2>13 DEF Inv
<1> QED BY <1>4, <1>5

----------------------------------------------------------------------------
(* The PIN and the import.                                                 *)

LEMMA PresentedTypes ==
    ASSUME card \in Cards
    PROVE  /\ Presented \in Cards /\ Presented.key = card.key /\ Presented.cert = card.cert
           /\ Presented.mode = card.mode
<1>1. card.tries \in 0 .. MaxTries
  BY DEF Cards
<1> DEFINE n == IF card.tries = 0 THEN 0 ELSE IF job.right THEN MaxTries ELSE card.tries - 1
<1>2. n \in 0 .. MaxTries
  BY <1>1, PivSlotsAssumption
<1>3. Presented = [card EXCEPT !.tries = n]
  BY DEF Presented
<1> HIDE DEF n
<1> QED BY <1>2, <1>3, TriesAgrees

\* A write whose answer was lost leaves the session in doubt, or the card as it was.
LEMMA DoubtAgrees ==
    ASSUME NEW st \in States, NEW c
    PROVE  /\ InDoubt(st, c) \in States /\ InDoubt(st, c).tries = st.tries
           /\ InDoubt(st, c).doubt = "none" => c = card /\ InDoubt(st, c) = st
BY DEF InDoubt, States, Doubts

LEMMA PinKeeps ==
    ASSUME Inv, Pin
    PROVE  Inv'
<1>1. job.pc = "pin"
  BY DEF Pin
<1>2. /\ job \in PivJobs /\ card \in Cards /\ sess \in States
      /\ job.op \in {"changePin", "setRetries", "selfSign", "importKey"} /\ job.out = "none"
      /\ sess.tries # Verified /\ (sess.doubt = "none" => AgreesWith(sess, card))
  BY <1>1, Midway DEF FlowAt
<1>3. /\ Presented \in Cards /\ Presented.key = card.key /\ Presented.cert = card.cert
      /\ Presented.mode = card.mode
  BY <1>2, PresentedTypes
<1>4. LET st == CountUnread(sess)
      IN  /\ st \in States /\ st.tries # Verified /\ st.doubt = sess.doubt
          /\ AgreesWith(sess, card) => AgreesWith(st, Presented)
  BY <1>2, <1>3, CountAgrees, Distinct
<1>5. job.op = "importKey" => card.key[slot] = job.before.key /\ card.cert[slot] = job.before.cert
  BY <1>1 DEF Inv, ImportInv
<1>6. CASE /\ Hear
           /\ IF job.op = "importKey" THEN Report("pinNotVerified", CountUnread(sess), Presented)
                                      ELSE Fail(Presented)
  <2>1. CASE job.op # "importKey"
    BY <1>1, <1>2, <1>3, <1>6, <2>1, FailKeeps
  <2>2. CASE job.op = "importKey"
    <3>1. Says("pinNotVerified", Presented)
      BY <1>3, <1>5, <2>2 DEF Says
    <3> QED BY <1>1, <1>2, <1>3, <1>4, <1>6, <2>2, <3>1, ReportKeeps DEF Outs
  <2> QED BY <2>1, <2>2
<1>7. CASE /\ Silence
           /\ \E c \in Unanswered(Presented) :
                IF job.op = "importKey" THEN Report("pinNotVerified", InDoubt(sess, c), c)
                                        ELSE Fail(c)
  <2>1. PICK c \in {card, Presented} :
            IF job.op = "importKey" THEN Report("pinNotVerified", InDoubt(sess, c), c) ELSE Fail(c)
    BY <1>7 DEF Unanswered
  <2>2. c \in Cards /\ c.key = card.key /\ c.cert = card.cert
    BY <1>2, <1>3
  <2>3. CASE job.op # "importKey"
    BY <1>1, <1>2, <1>7, <2>1, <2>2, <2>3, FailKeeps
  <2>4. CASE job.op = "importKey"
    <3>1. Says("pinNotVerified", c)
      BY <1>5, <2>2, <2>4 DEF Says
    <3>2. LET st == InDoubt(sess, c)
          IN  st \in States /\ st.tries # Verified /\ (st.doubt = "none" => AgreesWith(st, c))
      BY <1>2, DoubtAgrees
    <3> QED BY <1>1, <1>2, <1>7, <2>1, <2>2, <2>4, <3>1, <3>2, ReportKeeps DEF Outs
  <2> QED BY <2>3, <2>4
<1>8. CASE /\ Hear
           /\ card' = Presented
           /\ job' = [job EXCEPT !.pc = AfterPin, !.sess = CountUnread(sess),
                                 !.verified = @ \/ job.op # "changePin",
                                 !.changed = @ \/ Presented # card]
           /\ UNCHANGED <<stored, pane, writes>>
  <2>1. /\ AfterPin \in {"status", "retries", "sign", "store", "strip"}
        /\ FlowAt(AfterPin, job.op, job.withCert)
        /\ job.op = "importKey" => AfterPin \in {"store", "strip"}
    BY <1>2 DEF AfterPin, FlowAt, PivJobs
  <2> DEFINE st == CountUnread(sess)
  <2>2. /\ job' \in PivJobs /\ job'.pc = AfterPin /\ job'.op = job.op /\ job'.slot = job.slot
        /\ job'.to = job.to /\ job'.withCert = job.withCert /\ job'.out = job.out
        /\ job'.sess = st /\ job'.key = job.key /\ job'.heard = job.heard /\ job'.before = job.before
        /\ ~job'.changed => ~job.changed /\ card' = card
    <3> DEFINE v  == job.verified \/ job.op # "changePin"
               ch == job.changed \/ Presented # card
    <3>1. /\ v \in BOOLEAN /\ ch \in BOOLEAN /\ (~ch => ~job.changed /\ card' = card)
          /\ job' = [job EXCEPT !.pc = AfterPin, !.sess = st, !.verified = v, !.changed = ch]
      BY <1>8
    <3>2. st \in States /\ AfterPin \in Pcs
      BY <1>4, <2>1 DEF Pcs
    <3> HIDE DEF v, ch, st
    <3> QED BY <1>2, <3>1, <3>2 DEF PivJobs
  <2>3. st \in States /\ st.tries # Verified /\ st.doubt = sess.doubt
        /\ (AgreesWith(sess, card) => AgreesWith(st, Presented))
    BY <1>4
  <2> HIDE DEF st
  <2>4. TypeOK'
    <3>1. faults' \in 0 .. MaxFaults
      BY <1>8, FaultTypes DEF Inv
    <3> QED BY <3>1, <1>3, <1>8, <2>2, <2>3 DEF Inv, TypeOK
  <2>5. Shape' /\ Flow'
    BY <1>1, <1>2, <2>1, <2>2 DEF Inv, Shape, Flow, NoJob
  <2>6. SessInv'
    BY <1>2, <1>8, <2>1, <2>2, <2>3 DEF SessInv, sess, slot, AgreesBut, AgreesWith
  <2>7. StoredInv'
    <3>1. ASSUME stored'.doubt = "none", ~job'.changed PROVE AgreesWith(stored', card')
      BY <3>1, <1>1, <1>2, <1>8, <2>2 DEF Inv, StoredInv
    <3> QED BY <3>1, <2>1, <2>2 DEF StoredInv, AgreesWith
  <2>8. ImportInv' /\ ImportSays'
    BY <1>2, <1>3, <1>5, <1>8, <2>1, <2>2 DEF ImportInv, ImportSays, slot
  <2>9. SignInv'
    BY <1>1, <1>3, <1>8, <2>1, <2>2, <2>3 DEF Inv, SignInv, sess, slot
  <2> QED BY <2>4, <2>5, <2>6, <2>7, <2>8, <2>9 DEF Inv
<1> QED BY <1>6, <1>7, <1>8 DEF Pin

\* What holds in the middle of an import, and how it goes on.
LEMMA Importing ==
    ASSUME Inv, job.pc \in {"store", "strip", "undoStore", "undoWrite", "undoRefused", "write", "test"}
    PROVE  /\ job \in PivJobs /\ card \in Cards /\ sess \in States /\ slot \in Slots
           /\ job.op = "importKey" /\ job.key \in Keys /\ job.key \in Held
           /\ sess.tries # Verified /\ (sess.doubt = "none" => AgreesWith(sess, card))
BY Midway DEF FlowAt, SlotOps, Inv, Shape, Held

LEMMA ImportGoes ==
    ASSUME Inv, job.pc \in {"store", "strip", "write"},
           NEW pc \in {"write", "undoStore", "undoWrite", "undoRefused", "test"},
           NEW st \in States, NEW c \in Cards,
           Go(pc, st, c), Hear \/ Silence, st.tries # Verified, st.doubt = "none" => AgreesWith(st, c),
           pc \in {"undoStore", "undoWrite", "undoRefused"} => job.withCert,
           pc \in {"write", "undoStore", "undoRefused"} => c.key[slot] = job.before.key,
           pc = "undoRefused" => c.cert[slot] = job.key,
           pc = "undoWrite" => c.key[slot] \in {job.before.key, job.key} /\ c.cert[slot] = job.key,
           pc = "test" => c.key[slot] = job.key,
           pc \in {"write", "test"} => c.cert[slot] = (IF job.withCert THEN job.key ELSE None)
    PROVE  Inv'
<1>1. FlowAt(pc, job.op, job.withCert) /\ job.op = "importKey"
  BY Importing DEF FlowAt
<1>2. /\ TypeOK' /\ Shape' /\ Flow' /\ SessInv' /\ StoredInv' /\ ImportSays' /\ SignInv'
      /\ card' = c /\ job'.pc = pc /\ job'.slot = job.slot
      /\ job'.key = job.key /\ job'.before = job.before /\ job'.withCert = job.withCert
  BY <1>1, GoKeeps DEF Pcs
<1>3. ImportInv'
  BY <1>2 DEF ImportInv, slot
<1> QED BY <1>2, <1>3 DEF Inv

LEMMA StoreKeeps ==
    ASSUME Inv, Store \/ Strip
    PROVE  Inv'
<1>1. job.pc \in {"store", "strip"} /\ (job.pc = "store" <=> job.withCert)
  <2>1. job.pc \in {"store", "strip"}
    BY DEF Store, Strip
  <2> QED BY <2>1, Midway DEF FlowAt, PivJobs
<1>2. card.key[slot] = job.before.key /\ card.cert[slot] = job.before.cert
  BY <1>1, Importing DEF Inv, ImportInv
<1> DEFINE k  == IF job.withCert THEN job.key ELSE None
           c  == [card EXCEPT !.cert[slot] = k]
           st == [sess EXCEPT !.cert[slot] = k]
<1>3. k \in Held
  BY <1>1, Importing DEF Held
<1>4. \/ Hear /\ Go("write", st, c)
      \/ Hear /\ Report("certRefused", sess, card)
      \/ Silence /\ \E d \in Unanswered(c) :
             IF job.withCert THEN Go("undoStore", InDoubt(sess, d), d)
                             ELSE Report("certUnsure", InDoubt(sess, d), d)
  BY <1>1 DEF Store, Strip
<1> HIDE DEF k
<1>5. /\ c \in Cards /\ st \in States /\ st.tries # Verified /\ (st.doubt = "none" => AgreesWith(st, c))
      /\ c.key = card.key /\ c.cert[slot] = k
  BY <1>1, <1>3, Importing, CertAgrees
<1> HIDE DEF c, st
<1>6. CASE Hear /\ Go("write", st, c)
  BY <1>1, <1>2, <1>5, <1>6, ImportGoes DEF k
<1>7. CASE Hear /\ Report("certRefused", sess, card)
  <2>1. Says("certRefused", card)
    BY <1>2 DEF Says
  <2> QED BY <1>1, <1>7, <2>1, Importing, ReportKeeps DEF Outs
<1>8. CASE Silence /\ \E d \in Unanswered(c) :
             IF job.withCert THEN Go("undoStore", InDoubt(sess, d), d)
                             ELSE Report("certUnsure", InDoubt(sess, d), d)
  <2>1. PICK d \in {card, c} : IF job.withCert THEN Go("undoStore", InDoubt(sess, d), d)
                               ELSE Report("certUnsure", InDoubt(sess, d), d)
    BY <1>8 DEF Unanswered
  <2>2. d \in Cards /\ d.key[slot] = job.before.key
    BY <1>1, <1>2, <1>5, Importing
  <2>3. LET e == InDoubt(sess, d)
        IN  e \in States /\ e.tries # Verified /\ (e.doubt = "none" => AgreesWith(e, d))
    BY <1>1, Importing, DoubtAgrees
  <2>4. CASE job.withCert
    BY <1>1, <1>8, <2>1, <2>2, <2>3, <2>4, ImportGoes
  <2>5. CASE ~job.withCert
    <3>1. Says("certUnsure", d)
      BY <2>2 DEF Says
    <3> QED BY <1>1, <1>8, <2>1, <2>2, <2>3, <2>5, <3>1, Importing, ReportKeeps DEF Outs
  <2> QED BY <2>4, <2>5
<1> QED BY <1>4, <1>6, <1>7, <1>8

LEMMA UndoKeeps ==
    ASSUME Inv, UndoStore \/ UndoWrite \/ UndoRefused
    PROVE  Inv'
<1>1. PICK pc, cleared, kept :
        /\ \/ pc = "undoStore" /\ cleared = "certCleared" /\ kept = "certUnsure"
           \/ pc = "undoWrite" /\ cleared = "keyCleared" /\ kept = "keyUnsure"
           \/ pc = "undoRefused" /\ cleared = "refusedCleared" /\ kept = "refusedKept"
        /\ Undo(pc, cleared, kept)
  BY DEF UndoStore, UndoWrite, UndoRefused
<1>2. job.pc = pc /\ job.pc \in {"undoStore", "undoWrite", "undoRefused"}
  BY <1>1 DEF Undo
<1>3. /\ pc \in {"undoStore", "undoRefused"} => card.key[slot] = job.before.key
      /\ pc = "undoRefused" => card.cert[slot] = job.key
      /\ pc = "undoWrite" => card.key[slot] \in {job.before.key, job.key} /\ card.cert[slot] = job.key
  BY <1>2, Importing DEF Inv, ImportInv
<1> DEFINE c  == [card EXCEPT !.cert[slot] = None]
           st == [sess EXCEPT !.cert[slot] = None]
<1>4. \/ Hear /\ Report(cleared, st, c)
      \/ Hear /\ Report(kept, sess, card)
      \/ Silence /\ \E d \in Unanswered(c) : Report(kept, InDoubt(sess, d), d)
  BY <1>1 DEF Undo
<1>5. /\ c \in Cards /\ st \in States /\ st.tries # Verified /\ (st.doubt = "none" => AgreesWith(st, c))
      /\ c.key = card.key /\ c.cert[slot] = None
  BY <1>2, Importing, CertAgrees DEF Held
<1>6. cleared \in Outs \ {"none"} /\ kept \in Outs \ {"none"}
  BY <1>1 DEF Outs
<1> HIDE DEF c, st
<1>7. Says(cleared, c) /\ Says(kept, card) /\ Says(kept, c)
  BY <1>1, <1>2, <1>3, <1>5 DEF Says
<1>8. CASE Hear /\ Report(cleared, st, c)
  BY <1>2, <1>5, <1>6, <1>7, <1>8, Importing, ReportKeeps
<1>9. CASE Hear /\ Report(kept, sess, card)
  BY <1>2, <1>6, <1>7, <1>9, Importing, ReportKeeps
<1>10. CASE Silence /\ \E d \in Unanswered(c) : Report(kept, InDoubt(sess, d), d)
  <2>1. PICK d \in {card, c} : Report(kept, InDoubt(sess, d), d)
    BY <1>10 DEF Unanswered
  <2>2. d \in Cards /\ Says(kept, d)
    BY <1>2, <1>5, <1>7, Importing
  <2>3. LET e == InDoubt(sess, d)
        IN  e \in States /\ e.tries # Verified /\ (e.doubt = "none" => AgreesWith(e, d))
    BY <1>2, Importing, DoubtAgrees
  <2> QED BY <1>2, <1>6, <1>10, <2>1, <2>2, <2>3, Importing, ReportKeeps
<1> QED BY <1>4, <1>8, <1>9, <1>10

LEMMA WriteKeyKeeps ==
    ASSUME Inv, WriteKey
    PROVE  Inv'
<1>1. job.pc = "write"
  BY DEF WriteKey
<1>2. card.key[slot] = job.before.key /\ card.cert[slot] = (IF job.withCert THEN job.key ELSE None)
  BY <1>1, Importing DEF Inv, ImportInv
<1> DEFINE c  == [card EXCEPT !.key[slot] = job.key]
           st == Renew(sess, c, slot, job.key)
           e  == Evict(sess, slot)
<1>3. /\ c \in Cards /\ c.cert = card.cert /\ c.mode = card.mode /\ c.tries = card.tries
      /\ c.key[slot] = job.key /\ \A x \in Slots \ {slot} : c.key[x] = card.key[x]
      /\ AgreesWith(sess, card) => AgreesBut(sess, c, slot)
  BY <1>1, Importing, KeyAgrees
<1>4. \/ Hear /\ Go("test", st, c)
      \/ Hear /\ IF job.withCert THEN Go("undoRefused", e, card) ELSE Report("refusedCleared", e, card)
      \/ Silence /\ \E d \in {card, c} :
             IF job.withCert THEN Go("undoWrite", e, d) ELSE Report("keyCleared", e, d)
  BY DEF WriteKey, Unanswered
<1> HIDE DEF c
<1>5. st \in States /\ st.tries # Verified /\ (st.doubt = "none" => AgreesWith(st, c))
  BY <1>1, <1>3, Importing, RenewAgrees
<1>6. ASSUME NEW d \in {card, c}
      PROVE  e \in States /\ e.tries # Verified /\ (e.doubt = "none" => AgreesWith(e, d))
  BY <1>1, <1>3, Importing, EvictAgrees
<1> HIDE DEF st, e
<1>7. CASE Hear /\ Go("test", st, c)
  BY <1>1, <1>2, <1>3, <1>5, <1>7, ImportGoes
<1>8. CASE Silence /\ \E d \in {card, c} :
             IF job.withCert THEN Go("undoWrite", e, d) ELSE Report("keyCleared", e, d)
  <2>1. PICK d \in {card, c} : IF job.withCert THEN Go("undoWrite", e, d) ELSE Report("keyCleared", e, d)
    BY <1>8
  <2>2. /\ d \in Cards /\ d.key[slot] \in {job.before.key, job.key}
        /\ d.cert[slot] = (IF job.withCert THEN job.key ELSE None)
    BY <1>1, <1>2, <1>3, Importing
  <2>3. CASE job.withCert
    BY <1>1, <1>6, <1>8, <2>1, <2>2, <2>3, ImportGoes
  <2>4. CASE ~job.withCert
    <3>1. Says("keyCleared", d)
      BY <2>2, <2>4 DEF Says
    <3> QED BY <1>1, <1>6, <1>8, <2>1, <2>2, <2>4, <3>1, Importing, ReportKeeps DEF Outs
  <2> QED BY <2>3, <2>4
<1>9. CASE Hear /\ IF job.withCert THEN Go("undoRefused", e, card) ELSE Report("refusedCleared", e, card)
  <2>1. CASE job.withCert
    BY <1>1, <1>2, <1>6, <1>9, <2>1, Importing, ImportGoes
  <2>2. CASE ~job.withCert
    <3>1. Says("refusedCleared", card)
      BY <1>2, <2>2 DEF Says
    <3> QED BY <1>1, <1>6, <1>9, <2>2, <3>1, Importing, ReportKeeps DEF Outs
  <2> QED BY <2>1, <2>2
<1> QED BY <1>4, <1>7, <1>8, <1>9

LEMMA SelfTestKeeps ==
    ASSUME Inv, SelfTest
    PROVE  Inv'
<1>1. job.pc = "test" /\ UNCHANGED faults /\ Report("written", CountUnread(sess), card)
  BY DEF SelfTest
<1>2. Says("written", card)
  BY <1>1, Importing DEF Says, Inv, ImportInv
<1>3. LET st == CountUnread(sess)
      IN  st \in States /\ st.tries # Verified /\ (st.doubt = "none" => AgreesWith(st, card))
  BY <1>1, Importing, CountAgrees, Distinct
<1> QED BY <1>1, <1>2, <1>3, Importing, ReportKeeps DEF Outs

----------------------------------------------------------------------------
(* Beginning and ending a job; replugs and other programs.                 *)

\* A job begins with a state that agrees with the card if the kept one did.
LEMMA BeginKeeps ==
    ASSUME NEW op \in Ops, NEW s \in Slots \cup {None}, NEW t \in Slots \cup {None}, NEW k \in Held,
           NEW right \in BOOLEAN, NEW withCert \in BOOLEAN, NEW st \in States,
           job' = Begin(op, s, t, k, right, withCert, st),
           op \in SlotOps => s \in Slots, op = "move" => t \in Slots,
           op \in {"generate", "importCert", "importKey"} => k \in Keys,
           st.doubt = "none" => AgreesWith(st, card')
    PROVE  /\ Shape' /\ Flow' /\ SessInv' /\ ImportInv' /\ ImportSays' /\ SignInv'
           /\ job'.pc = "connect" /\ job'.sess \in States
<1> DEFINE x == IF op = "refresh" THEN NoState ELSE IF st.same THEN st ELSE Fresh
<1>1. x \in States /\ (x.doubt = "none" => AgreesWith(x, card'))
  BY FreshTypes, FreshAgrees
<1>2. job' = [op |-> op, slot |-> s, to |-> t, key |-> k, right |-> right, withCert |-> withCert,
              pc |-> "connect", sess |-> x,
              gone |-> FALSE, verified |-> FALSE, changed |-> FALSE, heard |-> FALSE,
              out |-> "none", before |-> [key |-> None, cert |-> None]]
  BY DEF Begin
<1> HIDE DEF x
<1>3. /\ job' \in PivJobs /\ job'.pc = "connect" /\ job'.op = op /\ job'.slot = s /\ job'.to = t
      /\ job'.key = k /\ job'.withCert = withCert /\ job'.sess = x /\ job'.out = "none"
  BY <1>1, <1>2 DEF PivJobs, Pcs, Outs, Held
<1>4. Shape' /\ Flow'
  BY <1>3 DEF Shape, Flow, FlowAt, NoJob
<1>5. SessInv'
  BY <1>1, <1>3 DEF SessInv, sess, AgreesWith
<1>6. ImportInv' /\ ImportSays' /\ SignInv'
  BY <1>3 DEF ImportInv, ImportSays, SignInv
<1> QED BY <1>1, <1>3, <1>4, <1>5, <1>6

LEMMA StartKeeps ==
    ASSUME Inv, Start
    PROVE  Inv'
<1>1. job.pc = "idle" /\ UNCHANGED <<card, stored, pane, faults>>
  BY DEF Start
<1>2. PICK op \in Ops, s \in Slots \cup {None}, t \in Slots \cup {None}, k \in Keys \cup {None},
           right \in BOOLEAN, withCert \in BOOLEAN :
        /\ op \in {"load", "refresh", "changePin", "unblock", "setRetries", "reset"} <=> s = None
        /\ op = "move" <=> t # None
        /\ op \in {"generate", "importCert", "importKey"} <=> k # None
        /\ IF op \in {"load", "refresh"} THEN UNCHANGED writes
                                         ELSE writes < MaxWrites /\ writes' = writes + 1
        /\ job' = Begin(op, s, t, k, right, withCert, stored)
  BY DEF Start
<1>3. writes' \in 0 .. MaxWrites
  <2>1. writes \in 0 .. MaxWrites /\ MaxWrites \in Nat
    BY PivSlotsAssumption DEF Inv, TypeOK
  <2> QED BY <1>2, <2>1
<1>4. stored \in States /\ (stored.doubt = "none" => AgreesWith(stored, card'))
  BY <1>1 DEF Inv, TypeOK, StoredInv
<1>5. /\ op \in SlotOps => s \in Slots
      /\ op = "move" => t \in Slots
      /\ op \in {"generate", "importCert", "importKey"} => k \in Keys
  BY <1>2 DEF SlotOps
<1>6. /\ Shape' /\ Flow' /\ SessInv' /\ ImportInv' /\ ImportSays' /\ SignInv'
      /\ job'.pc = "connect" /\ job'.sess \in States
  BY <1>2, <1>4, <1>5, BeginKeeps DEF Held
<1>7. TypeOK'
  BY <1>1, <1>3, <1>6 DEF Inv, TypeOK
<1>8. StoredInv'
  BY <1>1, <1>4 DEF StoredInv, AgreesWith
<1> QED BY <1>6, <1>7, <1>8 DEF Inv

LEMMA ConnectKeeps ==
    ASSUME Inv, Connect
    PROVE  Inv'
<1>1. job.pc = "connect" /\ UNCHANGED <<card, stored, pane, faults, writes>>
  BY DEF Connect
<1>2. /\ job \in PivJobs /\ sess = job.sess /\ sess \in States /\ card \in Cards
      /\ sess.doubt = "none" => AgreesWith(sess, card)
  BY <1>1, Running DEF PivJobs, sess, Inv, TypeOK, SessInv
<1>3. stored.doubt = "none" => AgreesWith(stored, card)
  BY <1>1 DEF Inv, StoredInv
<1>4. CASE job' = NoJob
  <2>1. TypeOK' /\ StoredInv'
    BY <1>1, <1>3, <1>4, IdleKeeps DEF Inv, TypeOK, StoredInv, AgreesWith
  <2> QED BY <1>4, <2>1, IdleKeeps DEF Inv
<1>5. ASSUME NEW usable \in BOOLEAN,
             LET kept == [sess EXCEPT !.tries = IF @ = Verified THEN Unread ELSE @]
                 base == IF usable THEN kept ELSE Fresh
             IN  job' = [job EXCEPT !.pc = FirstStep(job.op), !.sess = [base EXCEPT !.same = sess.same],
                                   !.before = IF job.op # "importKey" THEN @
                                              ELSE [key |-> card.key[slot], cert |-> card.cert[slot]]]
      PROVE  Inv'
  <2> DEFINE kept == [sess EXCEPT !.tries = IF @ = Verified THEN Unread ELSE @]
             base == IF usable THEN kept ELSE Fresh
             st   == [base EXCEPT !.same = sess.same]
             bef  == IF job.op # "importKey" THEN job.before
                     ELSE [key |-> card.key[slot], cert |-> card.cert[slot]]
             pc   == FirstStep(job.op)
  <2>1. /\ kept \in States /\ kept.tries # Verified /\ kept.doubt = sess.doubt
        /\ AgreesWith(sess, card) => AgreesWith(kept, card)
    BY <1>2, Distinct DEF States, AgreesWith
  <2> HIDE DEF kept
  <2>2. /\ base \in States /\ base.tries # Verified
        /\ base.doubt = "none" => AgreesWith(base, card)
    BY <1>2, <2>1, FreshTypes, FreshAgrees, Distinct
  <2> HIDE DEF base
  <2>3. /\ st \in States /\ st.tries # Verified
        /\ st.doubt = "none" => AgreesWith(st, card)
    <3>1. sess.same \in BOOLEAN
      BY <1>2 DEF States
    <3> QED BY <2>2, <3>1, SameAgrees
  <2>4. job.op = "importKey" => slot \in Slots
    BY <1>1 DEF Inv, Shape, SlotOps, slot
  <2>5. bef \in [key : Held, cert : Held]
    BY <1>2, <2>4, ReadTypes DEF PivJobs
  <2>6. /\ pc \in Pcs \ {"connect", "wipe", "put", "sign", "match", "store", "strip", "undoStore",
                          "undoWrite", "undoRefused", "write", "test"} \/ (pc = "match" /\ job.op = "importCert")
        /\ FlowAt(pc, job.op, job.withCert) /\ (job.op = "importKey" => pc = "pin")
        /\ job.op = "selfSign" => pc = "resolve"
    BY <1>2 DEF FirstStep, FlowAt, Pcs, PivJobs, Ops
  <2>7. job' = [job EXCEPT !.pc = pc, !.sess = st, !.before = bef]
    BY <1>5 DEF base, kept
  <2> HIDE DEF st, bef, pc
  <2>8. pc \in Pcs
    BY <2>6 DEF Pcs
  <2>9. /\ job' \in PivJobs /\ job'.pc = pc /\ job'.op = job.op /\ job'.slot = job.slot /\ job'.to = job.to
        /\ job'.withCert = job.withCert /\ job'.out = job.out /\ job'.sess = st /\ job'.key = job.key
        /\ job'.before = bef
    BY <1>2, <2>3, <2>5, <2>7, <2>8 DEF PivJobs
  <2>10. job.out = "none"
    BY <1>1 DEF Inv, Shape
  <2>11. TypeOK'
    BY <1>1, <2>3, <2>9 DEF Inv, TypeOK
  <2>12. Shape' /\ Flow'
    BY <1>1, <2>6, <2>9, <2>10 DEF Inv, Shape, Flow, NoJob
  <2>13. SessInv'
    BY <1>1, <2>3, <2>6, <2>9 DEF SessInv, sess, AgreesWith
  <2>14. StoredInv'
    BY <1>1, <1>3 DEF StoredInv, AgreesWith
  <2>15. ImportInv' /\ ImportSays'
    <3>1. CASE job.op # "importKey"
      BY <2>9, <3>1 DEF ImportInv, ImportSays
    <3>2. CASE job.op = "importKey"
      <4>1. job'.pc = "pin" /\ bef.key = card.key[slot] /\ bef.cert = card.cert[slot]
        BY <2>6, <2>9, <3>2 DEF bef
      <4> QED BY <1>1, <2>9, <4>1 DEF ImportInv, ImportSays, slot
    <3> QED BY <3>1, <3>2
  <2>16. SignInv'
    BY <2>6, <2>9 DEF SignInv
  <2> QED BY <2>11, <2>12, <2>13, <2>14, <2>15, <2>16 DEF Inv
<1> QED BY <1>4, <1>5 DEF Connect

LEMMA PaneTypes ==
    ASSUME NEW st \in States
    PROVE  LET p == PaneOf(st)
           IN  /\ p \in [occupied : SUBSET Slots, empty : SUBSET Slots, doubt : Doubts]
               /\ p.occupied \cap p.empty = {}
BY PivSlotsAssumption DEF PaneOf, States

\* What follows a job that kept the state st.
LEMMA AfterKeeps ==
    ASSUME Inv, job.pc = "status", NEW st \in States, stored' = st, job' = After(st),
           UNCHANGED <<card, writes>>, faults' \in 0 .. MaxFaults,
           st.doubt = "none" => AgreesWith(st, card),
           pane' \in [occupied : SUBSET Slots, empty : SUBSET Slots, doubt : Doubts],
           pane'.occupied \cap pane'.empty = {}
    PROVE  Inv'
<1>1. CASE job' = NoJob
  <2>1. TypeOK'
    BY <1>1, IdleKeeps DEF Inv, TypeOK
  <2>2. StoredInv'
    BY DEF StoredInv, AgreesWith
  <2> QED BY <1>1, <2>1, <2>2, IdleKeeps DEF Inv
<1>2. CASE job' = Load(st)
  <2>1. /\ Shape' /\ Flow' /\ SessInv' /\ ImportInv' /\ ImportSays' /\ SignInv'
        /\ job'.pc = "connect" /\ job'.sess \in States
    BY <1>2, BeginKeeps DEF Load, Ops, SlotOps, Held
  <2>2. TypeOK'
    BY <2>1 DEF Inv, TypeOK
  <2>3. StoredInv'
    BY DEF StoredInv, AgreesWith
  <2> QED BY <2>1, <2>2, <2>3 DEF Inv
<1> QED BY <1>1, <1>2 DEF After

LEMMA StatusKeeps ==
    ASSUME Inv, Status
    PROVE  Inv'
<1>1. job.pc = "status"
  BY DEF Status
<1>2. /\ job \in PivJobs /\ card \in Cards /\ sess \in States
      /\ sess.doubt = "none" => AgreesWith(sess, card)
  BY <1>1, Midway
<1>3. CASE /\ \E s \in Slots : sess.cert[s] = Unread
           /\ Silence
           /\ IF job.op \in {"load", "refresh", "importKey"}
              THEN /\ stored' = sess
                   /\ job' = After(sess)
                   /\ UNCHANGED <<card, pane, writes>>
              ELSE Fail(card)
  <2>1. CASE job.op \in {"load", "refresh", "importKey"}
    <3>1. faults' \in 0 .. MaxFaults
      BY <1>3, FaultTypes DEF Inv
    <3>2. /\ pane' \in [occupied : SUBSET Slots, empty : SUBSET Slots, doubt : Doubts]
          /\ pane'.occupied \cap pane'.empty = {}
      BY <1>3, <2>1 DEF Inv, TypeOK
    <3> QED BY <1>1, <1>2, <1>3, <2>1, <3>1, <3>2, AfterKeeps
  <2>2. CASE job.op \notin {"load", "refresh", "importKey"}
    <3>1. job.out = "none"
      BY <1>1, <2>2 DEF Inv, Shape
    <3> QED BY <1>1, <1>2, <1>3, <2>2, <3>1, FailKeeps
  <2> QED BY <2>1, <2>2
<1>4. ASSUME NEW bad \in {{}} \cup {{s} : s \in Slots},
             LET detailed == job.op \in {"load", "refresh"}
                 asked == Asked(sess, detailed)
                 st == ReadStatus(sess, card, IF job.gone THEN asked ELSE bad,
                                  detailed, job.verified, ~job.gone)
             IN  /\ IF bad = {} THEN UNCHANGED faults ELSE Fault
                 /\ stored' = st
                 /\ pane' = PaneOf(st)
                 /\ job' = After(st)
                 /\ UNCHANGED <<card, writes>>
      PROVE  Inv'
  <2> DEFINE detailed == job.op \in {"load", "refresh"}
             b == IF job.gone THEN Asked(sess, detailed) ELSE bad
             verified == job.verified
             reachable == ~job.gone
             st == ReadStatus(sess, card, b, detailed, verified, reachable)
  <2>1. b \in SUBSET Slots /\ detailed \in BOOLEAN /\ verified \in BOOLEAN /\ reachable \in BOOLEAN
    BY <1>2 DEF Asked, PivJobs
  <2>2. stored' = st /\ pane' = PaneOf(st) /\ job' = After(st) /\ UNCHANGED <<card, writes>>
    BY <1>4
  <2>3. faults' \in 0 .. MaxFaults
    BY <1>4, FaultTypes DEF Inv
  <2> HIDE DEF b, detailed, verified, reachable
  <2>4. /\ st \in States /\ (st.doubt = "none" => sess.doubt = "none" /\ b = {})
        /\ b = {} /\ AgreesWith(sess, card) => AgreesWith(st, card)
    BY <1>2, <2>1, StatusAgrees
  <2> HIDE DEF st
  <2>5. /\ pane' \in [occupied : SUBSET Slots, empty : SUBSET Slots, doubt : Doubts]
        /\ pane'.occupied \cap pane'.empty = {}
    BY <2>2, <2>4, PaneTypes
  <2> QED BY <1>1, <1>2, <2>2, <2>3, <2>4, <2>5, AfterKeeps
<1> QED BY <1>3, <1>4 DEF Status

\* What is said of the job depends on the job and the card only.
LEMMA UnchangedKeeps ==
    ASSUME Inv, job' = job, card' = card
    PROVE  Shape' /\ Flow' /\ SessInv' /\ ImportInv' /\ ImportSays' /\ SignInv'
<1>1. Shape' /\ Flow'
  BY DEF Inv, Shape, Flow
<1>2. SessInv'
  BY DEF Inv, SessInv, sess, slot, AgreesBut, AgreesWith
<1>3. ImportInv' /\ ImportSays'
  BY DEF Inv, ImportInv, ImportSays, slot
<1>4. SignInv'
  BY DEF Inv, SignInv, sess, slot
<1> QED BY <1>1, <1>2, <1>3, <1>4

LEMMA ReplugKeeps ==
    ASSUME Inv, NEW noticed \in BOOLEAN, Replug(noticed)
    PROVE  Inv'
<1>1. UNCHANGED <<card, writes>>
  BY DEF Replug
<1>2. /\ stored' \in States
      /\ \/ stored' = NoState
         \/ stored'.doubt = stored.doubt /\ (AgreesWith(stored', card) <=> AgreesWith(stored, card))
  BY FreshTypes, SameAgrees DEF Replug, Inv, TypeOK
<1>3. /\ pane' \in [occupied : SUBSET Slots, empty : SUBSET Slots, doubt : Doubts]
      /\ pane'.occupied \cap pane'.empty = {}
  BY DEF Replug, Inv, TypeOK, Blank, Doubts
<1>4. faults' \in 0 .. MaxFaults
  BY FaultTypes DEF Replug, Inv
<1>5. \/ job' = job
      \/ /\ job \in PivJobs /\ job' \in PivJobs /\ job.pc # "idle"
         /\ job'.pc = job.pc /\ job'.op = job.op /\ job'.slot = job.slot /\ job'.to = job.to
         /\ job'.key = job.key /\ job'.before = job.before /\ job'.withCert = job.withCert
         /\ job'.heard = job.heard /\ job'.out = job.out /\ job'.changed = job.changed
         /\ job'.sess = [job.sess EXCEPT !.same = FALSE] /\ job'.sess \in States
  <2>1. CASE job.pc = "idle"
    BY <2>1 DEF Replug
  <2>2. CASE job.pc # "idle"
    <3>1. job \in PivJobs /\ job.sess \in States
      BY <2>2, Running DEF PivJobs
    <3>2. [job.sess EXCEPT !.same = FALSE] \in States
      BY <3>1 DEF States
    <3> DEFINE g == job.pc # "connect"
    <3>3. /\ g \in BOOLEAN
          /\ job' = [job EXCEPT !.sess = [job.sess EXCEPT !.same = FALSE], !.gone = g]
      BY <2>2, <3>1 DEF Replug
    <3> HIDE DEF g
    <3> QED BY <2>2, <3>1, <3>2, <3>3 DEF PivJobs
  <2> QED BY <2>1, <2>2
<1>6. TypeOK'
  BY <1>1, <1>2, <1>3, <1>4, <1>5 DEF Inv, TypeOK
<1>7. StoredInv'
  BY <1>1, <1>2, <1>5, FreshAgrees DEF Inv, StoredInv
<1>8. CASE job' = job
  BY <1>1, <1>6, <1>7, <1>8, UnchangedKeeps DEF Inv
<1>9. CASE job' # job
  <2>1. /\ job \in PivJobs /\ job' \in PivJobs /\ job.pc # "idle"
        /\ job'.pc = job.pc /\ job'.op = job.op /\ job'.slot = job.slot /\ job'.to = job.to
        /\ job'.key = job.key /\ job'.before = job.before /\ job'.withCert = job.withCert
        /\ job'.heard = job.heard /\ job'.out = job.out
        /\ job'.sess = [job.sess EXCEPT !.same = FALSE] /\ job.sess \in States
    BY <1>5, <1>9 DEF PivJobs
  <2>2. /\ job'.sess.key = job.sess.key /\ job'.sess.cert = job.sess.cert
        /\ job'.sess.policy = job.sess.policy /\ job'.sess.tries = job.sess.tries
        /\ job'.sess.doubt = job.sess.doubt
    BY <2>1 DEF States
  <2>3. Shape' /\ Flow'
    BY <2>1 DEF Inv, Shape, Flow, NoJob
  <2>4. SessInv'
    BY <1>1, <2>1, <2>2 DEF Inv, SessInv, sess, slot, AgreesBut, AgreesWith
  <2>5. ImportInv' /\ ImportSays'
    BY <1>1, <2>1 DEF Inv, ImportInv, ImportSays, slot
  <2>6. SignInv'
    BY <1>1, <2>1, <2>2 DEF Inv, SignInv, sess, slot
  <2> QED BY <1>6, <1>7, <2>3, <2>4, <2>5, <2>6 DEF Inv
<1> QED BY <1>8, <1>9

LEMMA ForeignKeeps ==
    ASSUME Inv, ForeignWrite
    PROVE  Inv'
<1>1. /\ job.pc \in {"idle", "connect"} /\ Fault /\ UNCHANGED writes
      /\ stored' = [stored EXCEPT !.doubt = "other"] /\ pane' = [pane EXCEPT !.doubt = "other"]
      /\ job' = IF job.pc = "idle" THEN job ELSE [job EXCEPT !.sess.doubt = "other"]
  BY DEF ForeignWrite
<1>2. card' \in Cards
  <2>1. card \in Cards
    BY DEF Inv, TypeOK
  <2>2. \A s \in Slots, k \in Keys \cup {None} : [card EXCEPT !.key[s] = k, !.cert[s] = None] \in Cards
    BY <2>1 DEF Cards
  <2> QED BY <2>1, <2>2, TriesAgrees DEF ForeignWrite
<1>3. stored' \in States /\ stored'.doubt = "other"
  BY <1>1 DEF Inv, TypeOK, States, Doubts
<1>4. /\ pane' \in [occupied : SUBSET Slots, empty : SUBSET Slots, doubt : Doubts]
      /\ pane'.occupied \cap pane'.empty = {}
  BY <1>1 DEF Inv, TypeOK, Doubts
<1>5. faults' \in 0 .. MaxFaults
  BY <1>1, FaultTypes DEF Inv
<1>6. StoredInv'
  BY <1>3 DEF StoredInv
<1>7. CASE job.pc = "idle"
  <2>1. job' = job
    BY <1>1, <1>7
  <2>2. TypeOK'
    BY <1>1, <1>2, <1>3, <1>4, <1>5, <1>7, <2>1 DEF Inv, TypeOK
  <2> QED BY <1>6, <1>7, <2>1, <2>2 DEF Inv, Shape, Flow, SessInv, ImportInv, ImportSays, SignInv
<1>8. CASE job.pc = "connect"
  <2>1. job \in PivJobs /\ job.sess \in States
    BY <1>8, Running DEF PivJobs
  <2>2. /\ [job.sess EXCEPT !.doubt = "other"] \in States
        /\ [job.sess EXCEPT !.doubt = "other"].doubt = "other"
    BY <2>1 DEF States, Doubts
  <2>3. job' = [job EXCEPT !.sess = [job.sess EXCEPT !.doubt = "other"]]
    BY <1>1, <1>8, <2>1
  <2>4. /\ job' \in PivJobs
        /\ job'.pc = job.pc /\ job'.op = job.op /\ job'.slot = job.slot /\ job'.to = job.to
        /\ job'.key = job.key /\ job'.withCert = job.withCert /\ job'.out = job.out
        /\ job'.sess \in States /\ job'.sess.doubt = "other"
    BY <2>1, <2>2, <2>3 DEF PivJobs
  <2>5. TypeOK'
    BY <1>1, <1>2, <1>3, <1>4, <1>5, <2>4 DEF Inv, TypeOK
  <2>6. Shape' /\ Flow'
    BY <1>8, <2>1, <2>4 DEF Inv, Shape, Flow, NoJob
  <2>7. SessInv' /\ ImportInv' /\ ImportSays' /\ SignInv'
    BY <1>8, <2>4 DEF SessInv, ImportInv, ImportSays, SignInv, sess
  <2> QED BY <1>6, <2>5, <2>6, <2>7 DEF Inv
<1> QED BY <1>1, <1>7, <1>8

----------------------------------------------------------------------------
(* The theorems.                                                           *)

LEMMA StepKeeps ==
    ASSUME Inv, [Next]_vars
    PROVE  Inv'
<1>1. CASE UNCHANGED vars
  <2>1. TypeOK' /\ StoredInv'
    BY <1>1 DEF vars, Inv, TypeOK, StoredInv, AgreesWith
  <2> QED BY <1>1, <2>1, UnchangedKeeps DEF vars, Inv
<1>2. CASE Resolve \/ Match
  BY <1>2, AskKeeps DEF Resolve, Match
<1> QED BY <1>1, <1>2, StartKeeps, ConnectKeeps, PinKeeps, PinWritesKeep, GenerateKeeps, WipeKeeps,
           ClearKeeps, EraseKeeps, LookKeeps, MoveKeeps, SignKeeps, PutKeeps, BlockKeeps, ResetKeeps,
           StoreKeeps, UndoKeeps, WriteKeyKeeps, SelfTestKeeps, StatusKeeps, ReplugKeeps,
           ForeignKeeps DEF Next

LEMMA Invariance == Spec => []Inv
<1>1. Init => Inv
  <2>1. Init => card \in Cards /\ faults \in 0 .. MaxFaults /\ writes \in 0 .. MaxWrites
    BY PivSlotsAssumption DEF Init, Cards
  <2>2. Init => /\ pane \in [occupied : SUBSET Slots, empty : SUBSET Slots, doubt : Doubts]
                /\ pane.occupied \cap pane.empty = {}
    BY DEF Init, Blank, Doubts
  <2>3. Init => TypeOK
    BY <2>1, <2>2, FreshTypes DEF Init, TypeOK, NoJob
  <2>4. Init => StoredInv
    BY FreshAgrees DEF Init, StoredInv
  <2>5. Init => Shape /\ Flow /\ SessInv /\ ImportInv /\ ImportSays /\ SignInv
    BY DEF Init, NoJob, Shape, Flow, SessInv, ImportInv, ImportSays, SignInv
  <2> QED BY <2>3, <2>4, <2>5 DEF Inv
<1>2. Inv /\ [Next]_vars => Inv'
  BY StepKeeps
<1> QED BY <1>1, <1>2, PTL DEF Spec

\* The card, the kept state, the pane and the session of the job keep their types, and
\* the pane never takes a slot both as holding a key and as empty.
THEOREM TypeCorrect == Spec => []TypeOK
<1>1. Inv => TypeOK
  BY DEF Inv
<1> QED BY <1>1, Invariance, PTL

\* The caches a session keeps follow every write (PivSessionState): as long as every
\* answer was heard and no job failed after a write, what they say of the card is so.
THEOREM CachesFollowTheCard == Spec => []CacheCurrent
<1>1. Inv => CacheCurrent
  <2>1. \A st : AgreesWith(st, card) => Agrees(st)
    BY DEF AgreesWith, Agrees, Held
  <2> QED BY <2>1 DEF Inv, CacheCurrent, StoredInv, SessInv
<1> QED BY <1>1, Invariance, PTL

\* What an import reports of its slot is so (ImportFailure), whichever command was
\* refused or lost its answer.
THEOREM ImportReportsTruly == Spec => []ImportSays
<1>1. Inv => ImportSays
  BY DEF Inv
<1> QED BY <1>1, Invariance, PTL

\* A certificate stored over a key the card named, or a self-signed one from caches
\* nothing clouds, names the slot's key (confirmed_slot_key).
THEOREM CertificatesMatch == Spec => StoresMatching
<1>1. ASSUME Inv, [Next]_vars, job.pc = "put", card'.cert # card.cert,
             job.heard \/ (job.op = "selfSign" /\ sess.doubt = "none")
      PROVE  card'.cert[slot] = card.key[slot]
  <2>1. job.key = card.key[slot]
    BY <1>1 DEF Inv, SignInv
  <2>2. card \in Cards /\ slot \in Slots
    BY <1>1, Midway DEF FlowAt, SlotOps
  <2>3. Put
    BY <1>1 DEF Next, vars, Start, Connect, Pin, Unblock, SetRetries, Generate, Wipe, Clear, Erase, Look,
                Move, Resolve, Match, Sign, Block, Reset, Store, Strip, UndoStore, UndoWrite, UndoRefused, Undo, Ask,
                WriteKey, SelfTest, Status, Replug, ForeignWrite, Write
  <2>4. card' \in {card, [card EXCEPT !.cert[slot] = job.key]}
    BY <2>3 DEF Put, Write, Go, Fail, Unanswered
  <2> QED BY <1>1, <2>1, <2>2, <2>4 DEF Cards
<1>2. Inv /\ [Next]_vars =>
        [job.pc = "put" /\ card'.cert # card.cert
           /\ (job.heard \/ (job.op = "selfSign" /\ sess.doubt = "none"))
         => card'.cert[slot] = card.key[slot]]_vars
  BY <1>1
<1> QED BY <1>2, Invariance, PTL DEF Spec, StoresMatching
=============================================================================
