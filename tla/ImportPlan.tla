---------------------------- MODULE ImportPlan ----------------------------
(***************************************************************************)
(* Planning an import (keyroost-import/src/plan.rs): which entries of a    *)
(* file a key can take, under which name or in which slot, and what        *)
(* happens to each of them - and what the adapters of keyroost-transport   *)
(* (import.rs) can put into a command, whatever the plan says.             *)
(*                                                                         *)
(* The text of an entry's issuer and account is a label, of which only the *)
(* facts the rules ask for are kept: its length, whether it could be read  *)
(* back wrongly, whether it is ASCII and which other labels it starts.  A  *)
(* stored name is a pair of the period in front of it (0 for none) and the *)
(* label; on a Molto2 the slot takes its place.  Where a rule only picks   *)
(* the wording of a refusal, the refusal is one "skip".                    *)
(***************************************************************************)
EXTENDS Integers, Sequences, FiniteSets

CONSTANTS
    Labels,         \* issuer and account of the entries
    NoLabel,        \* neither of them
    Length,         \* bytes of a label
    Ambiguous,      \* labels with a ':' that would be split elsewhere
    PeriodLike,     \* labels that begin with digits and '/'
    NonAscii,       \* labels with other characters than ASCII
    StartsLabel,    \* pairs of labels, the first a proper beginning of the second
    Capacity,       \* codes a store holds, as far as the rule table knows
    LastSlot,       \* MOLTO_LAST_SLOT
    Unknown, NoName

ASSUME ImportPlanAssumption ==
    /\ Length \in [Labels -> Nat \ {0}]
    /\ NoLabel \notin Labels
    /\ LastSlot \in Nat
    /\ StartsLabel \subseteq Labels \X Labels
    /\ \A l \in Labels : <<l, l>> \notin StartsLabel
    /\ NoName \notin Nat \cup (Nat \X Labels)
    /\ Unknown \notin Nat

OathStores == {"yubikey4", "yubikey5", "solo2", "nitrokey3", "other"}

Stores == OathStores \cup {"token2", "molto2"}

(***************************************************************************)
(* The rule table.  A YubiKey 4 before 4.3.1 stands for the old firmware.  *)
(* Counters are zero, a 32-bit number, or larger than that.                *)
(***************************************************************************)
NoMax == 65536

\* The longest period that a Token2 entry has room for, 16 bits.
U16Max == 65535

limits ==
    LET sha1_256 == {"sha1", "sha256"}
        sha1_256_512 == sha1_256 \cup {"sha512"}
        u32 == {"zero", "u32"}
        Row(name_max, hashes, digits, totp, hotp, secret_max) ==
            [name_max |-> name_max, hashes |-> hashes, digits |-> digits,
             totp |-> totp, hotp |-> hotp, secret_max |-> secret_max]
    IN  [s \in Stores |->
            CASE s = "yubikey4"  -> Row(64, sha1_256, 6..8, Nat, u32, NoMax)
              [] s = "yubikey5"  -> Row(64, sha1_256_512, 6..8, Nat, u32, NoMax)
              [] s = "solo2"     -> Row(127, sha1_256, 6..8, Nat, u32, 64)
              [] s = "nitrokey3" -> Row(128, sha1_256, 6..8, {30}, u32, 128)
              [] s = "other"     -> Row(NoMax, sha1_256_512, 6..8, Nat, u32, NoMax)
              [] s = "token2"    -> Row(64, sha1_256, 4..10, 1..U16Max, {"zero"}, 64)
              [] s = "molto2"    -> Row(12, sha1_256, {4, 6, 8, 10}, {30, 60}, {}, 63)]

PrefixIssue(store) == store = "yubikey4"

(***************************************************************************)
(* An entry is [kind, period, counter, hash, digits, secret, label]:       *)
(* period for "totp", counter for "hotp", secret its length in bytes.  The *)
(* reader of the file (entry.rs) lets no other through: one that it could  *)
(* not use has kind "unusable".                                            *)
(***************************************************************************)
Entries ==
    [kind : {"totp", "hotp", "unusable"}, period : Nat \ {0}, counter : {"zero", "u32", "past32"},
     hash : {"sha1", "sha256", "sha512"}, digits : 1..10, secret : 1..255,
     label : Labels \cup {NoLabel}]

check_params(e, store) ==
    LET lim == limits[store] IN
    /\ e.kind # "unusable"
    /\ e.hash \in lim.hashes
    /\ e.digits \in lim.digits
    /\ e.kind = "totp" => e.period \in lim.totp
    /\ e.kind = "hotp" => e.counter \in lim.hotp
    /\ e.secret <= lim.secret_max

\* The bytes of `<period>/`.
PrefixBytes(period) ==
    IF period = 0 THEN 0 ELSE 2 + Cardinality({d \in 1..9 : period >= 10^d})

NameBytes(n) == PrefixBytes(n[1]) + Length[n[2]]

\* Mutant: the counter a HOTP code starts from is not counted.
PutFitsUncounted(name_len, secret_len, imf) ==
    2 + name_len + 2 + 2 + (IF secret_len < 14 THEN 14 ELSE secret_len) <= 255

oath_put_fits(name_len, secret_len, imf) ==
    2 + name_len + 2 + 2
      + (IF secret_len < 14 THEN 14 ELSE secret_len)
      + (IF imf THEN 6 ELSE 0) <= 255

SendsCounter(e) == e.kind = "hotp" /\ e.counter # "zero"

oath_name(e, store) ==
    LET period_read == e.kind = "totp" /\ store # "nitrokey3"
        prefix == IF period_read /\ e.period # 30 THEN e.period ELSE 0
    IN  IF \/ e.label = NoLabel
           \/ e.label \in Ambiguous
           \/ period_read /\ prefix = 0 /\ e.label \in PeriodLike
        THEN NoName
        ELSE <<prefix, e.label>>

token2_name(e) == IF e.label = NoLabel THEN NoName ELSE <<0, e.label>>

name_for(e, store) ==
    IF store = "token2"
    THEN LET n == token2_name(e) IN
         IF n = NoName THEN NoName
         ELSE IF e.label \in NonAscii \/ NameBytes(n) > limits[store].name_max
         THEN NoName ELSE n
    ELSE LET n == oath_name(e, store) IN
         IF n = NoName THEN NoName
         ELSE IF \/ NameBytes(n) > limits[store].name_max
                 \/ ~oath_put_fits(NameBytes(n), e.secret, SendsCounter(e))
         THEN NoName ELSE n

(***************************************************************************)
(* The name an entry would be stored under, NoName when the key cannot     *)
(* take it.                                                                *)
(***************************************************************************)
NameOn(e, store) == IF check_params(e, store) THEN name_for(e, store) ELSE NoName

starts_other(n, o) == n[1] = o[1] /\ <<n[2], o[2]>> \in StartsLabel

starts_another_name(store, n, names) ==
    PrefixIssue(store) /\ \E o \in names : starts_other(n, o)

(***************************************************************************)
(* What becomes of name n, given the names listed on the key and those     *)
(* planned before it.                                                      *)
(***************************************************************************)
VerdictOf(n, store, listed, seen, replace) ==
    CASE n = NoName -> "skip"
      [] n \in seen -> "skip"
      [] n \notin seen /\ n \in listed /\ ~replace -> "exists"
      [] OTHER -> IF starts_another_name(store, n, listed \cup seen) THEN "skip"
                  ELSE IF n \in listed THEN "replace" ELSE "add"

\* The names planned from the first i entries.
SeenIn(file, store, listed, replace) ==
    LET seen[i \in 0..Len(file)] ==
            IF i = 0 THEN {}
            ELSE LET n == NameOn(file[i], store)
                     v == VerdictOf(n, store, listed, seen[i - 1], replace)
                 IN  IF v = "skip" THEN seen[i - 1] ELSE seen[i - 1] \cup {n}
    IN  seen

NamedRows(file, store, listed, replace) ==
    LET seen == SeenIn(file, store, listed, replace) IN
    [i \in 1..Len(file) |->
        LET n == NameOn(file[i], store) IN
        [name |-> n, verdict |-> VerdictOf(n, store, listed, seen[i - 1], replace)]]

\* Only adds use up room; the first that finds none and all after it are skipped.
WithRoom(rows, on_key, cap) ==
    [i \in DOMAIN rows |->
        IF /\ rows[i].verdict = "add"
           /\ cap # Unknown
           /\ on_key + Cardinality({j \in 1..(i - 1) : rows[j].verdict = "add"}) >= cap
        THEN [rows[i] EXCEPT !.verdict = "skip"]
        ELSE rows[i]]

TakesSlot(e) == check_params(e, "molto2") /\ e.label # NoLabel

\* Mutant: one slot too many.
MoltoPlanOneMore(file, first_slot, listed) ==
    [i \in 1..Len(file) |->
        LET slot == first_slot + Cardinality({j \in 1..(i - 1) : TakesSlot(file[j])})
        IN  IF ~TakesSlot(file[i]) \/ slot > LastSlot + 1
            THEN [name |-> NoName, verdict |-> "skip"]
            ELSE [name |-> slot,
                  verdict |-> IF slot \in listed THEN "replace" ELSE "add"]]

molto_plan(file, first_slot, listed) ==
    [i \in 1..Len(file) |->
        LET slot == first_slot + Cardinality({j \in 1..(i - 1) : TakesSlot(file[j])})
        IN  IF ~TakesSlot(file[i]) \/ slot > LastSlot
            THEN [name |-> NoName, verdict |-> "skip"]
            ELSE [name |-> slot,
                  verdict |-> IF slot \in listed THEN "replace" ELSE "add"]]

\* Mutant: room is counted without the codes the listing could not show.
PlanWithoutHidden(file, store, first_slot, listed, hidden, replace) ==
    IF store = "molto2"
    THEN molto_plan(file, first_slot, listed)
    ELSE WithRoom(NamedRows(file, store, listed, replace),
                  Cardinality(listed), Capacity[store])

(***************************************************************************)
(* The plan: one row per entry.  `listed` is what the key listed, `hidden` *)
(* how many codes it holds that the listing could not show.                *)
(***************************************************************************)
plan(file, store, first_slot, listed, hidden, replace) ==
    IF store = "molto2"
    THEN molto_plan(file, first_slot, listed)
    ELSE WithRoom(NamedRows(file, store, listed, replace),
                  Cardinality(listed) + hidden, Capacity[store])

writes(row) == row.verdict \in {"add", "replace"}

(***************************************************************************)
(* What the adapters refuse to put into a command, and the builders of     *)
(* keyroost-oath and keyroost-token2otp behind them.                       *)
(***************************************************************************)
oath_put(n, e, touch) ==
    LET secret == IF e.secret < 14 THEN 14 ELSE e.secret
        body == 2 + NameBytes(n) + 2 + 2 + secret
                  + (IF touch THEN 2 ELSE 0) + (IF SendsCounter(e) THEN 6 ELSE 0)
    IN  NameBytes(n) <= 255 /\ 2 + secret <= 255 /\ body <= 255

put_params(e) == e.kind = "hotp" => e.counter # "past32"

name_refusal(n, store) == store = "solo2" /\ NameBytes(n) > 127

token2_write_entry(n, e) ==
    /\ e.hash # "sha512"
    /\ e.kind = "totp" => e.period \in 1..U16Max
    /\ e.digits \in 4..10
    /\ n[2] \notin NonAscii /\ Length[n[2]] \in 1..64
    /\ e.secret \in 1..64

molto_write(e) ==
    /\ e.label # NoLabel
    /\ e.secret \in 1..63
    /\ e.hash # "sha512"
    /\ e.digits \in {4, 6, 8, 10}
    /\ e.kind = "totp" /\ e.period \in {30, 60}

Sendable(e, store, n, touch) ==
    CASE store = "molto2" -> molto_write(e)
      [] store = "token2" -> token2_write_entry(n, e)
      [] OTHER -> ~name_refusal(n, store) /\ put_params(e) /\ oath_put(n, e, touch)

=============================================================================
