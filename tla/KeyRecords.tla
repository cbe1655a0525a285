----------------------------- MODULE KeyRecords -----------------------------
(***************************************************************************)
(* The records of keys.json and the edits the Keyring type makes to them   *)
(* (crates/keyroost-keyring/src/lib.rs).                                   *)
(*                                                                         *)
(* A record ties a name to a key, recognised by the fingerprint of its     *)
(* serial under this computer's salt: an HMAC, modelled as the pair of     *)
(* serial and salt (no two pairs collide).  The order of the file and the  *)
(* descriptive fields (source, vendor, aaguid, note) matter to no property *)
(* here, so a ring's keys are a set of records.                            *)
(***************************************************************************)
CONSTANTS
    Names,      \* the names that pass validate_name
    Serials,    \* the non-empty canonical serials of keys
    Rows,       \* the keys, each the set of serials it may be recorded under (row_serials)
    Salts,      \* the values generate_salt can return
    NoSerial,   \* the fingerprint field is None
    NoSalt      \* no salt: a ring without one, or a plain serial (version 1)

ASSUME KeyRecordsAssumption ==
    /\ NoSerial \notin Serials
    /\ NoSalt \notin Salts
    /\ Rows \subseteq SUBSET Serials

\* `serial` with `salt` is the fingerprint; NoSerial with NoSalt is None, and a
\* serial with NoSalt is the plain serial of a version 1 entry.
Records == [name   : Names,
            serial : Serials \cup {NoSerial},
            salt   : Salts \cup {NoSalt},
            stored : {"computer", "key"}]

\* Keyring::is_of: a record without a fingerprint belongs to no key.
IsOf(r, serial, salt) == r.serial = serial /\ r.salt = salt

\* Keyring::holder.
Holders(keys, name) == {r \in keys : r.name = name}

\* A record of the key with `serial`, fingerprinted under `salt`.
RecordOf(name, serial, salt, stored) ==
    [name |-> name, serial |-> serial, salt |-> salt, stored |-> stored]

\* Mutant: set_name takes any name.
NeverHeld(keys, name, serial, salt) == FALSE

\* The DuplicateName refusal of set_name.
HeldElsewhere(keys, name, serial, salt) ==
    \E r \in Holders(keys, name) : ~IsOf(r, serial, salt)

\* Keyring::set_name, past its refusals.
SetName(keys, name, serial, salt, store) ==
    {r \in keys : ~ /\ IsOf(r, serial, salt)
                    /\ \/ store = "key"
                       \/ r.stored = "computer"
                       \/ r.name = name}
        \cup {RecordOf(name, serial, salt, store)}

\* What set_key_name drops before set_name: the records that the name replaces
\* under the key's other serials.
DropOthers(keys, name, others, salt, store) ==
    {r \in keys : ~ /\ \E k \in others : IsOf(r, k, salt)
                    /\ \/ store = "key"
                       \/ r.stored = "computer"
                       \/ r.name = name}

\* Keyring::record_first_seen.
RecordFirstSeen(keys, name, serial, salt) ==
    IF Holders(keys, name) = {}
    THEN keys \cup {RecordOf(name, serial, salt, "key")}
    ELSE keys

\* Keyring::drop_stale_key_records.
DropStale(keys, current, serial, salt) ==
    {r \in keys : ~ /\ IsOf(r, serial, salt)
                    /\ r.stored = "key"
                    /\ r.name # current}

\* clear_key_names: Keyring::clear_key for each serial of the key.
ClearKey(keys, serials, salt) == {r \in keys : ~\E k \in serials : IsOf(r, k, salt)}

\* Keyring::remove.
RemoveName(keys, name) == keys \ Holders(keys, name)

\* Mutant: the fingerprint is emptied where it must be None.
UnmatchedEmpty(keys) ==
    {RecordOf(r.name, NoSalt, NoSalt, r.stored) : r \in keys}

\* load_from without a salt: the records stay, matched to no key.
Unmatched(keys) ==
    {RecordOf(r.name, NoSerial, NoSalt, r.stored) : r \in keys}

\* Mutants: conversion copies the serial; conversion marks names as the key's own.
ConvertCopiesSerial(keys, salt) == keys
ConvertAsKeyNames(keys, salt) ==
    {RecordOf(r.name, r.serial, salt, "key") : r \in keys}

\* convert_v1: plain serials become fingerprints, every name this computer's.
ConvertV1(keys, salt) ==
    {RecordOf(r.name, r.serial, IF r.serial = NoSerial THEN NoSalt ELSE salt, "computer") :
        r \in keys}

NamesOf(keys) == {r.name : r \in keys}
=============================================================================
