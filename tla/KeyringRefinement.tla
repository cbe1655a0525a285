-------------------------- MODULE KeyringRefinement --------------------------
(***************************************************************************)
(* The registry that a caller of KeyringStore sees in the files.           *)
(***************************************************************************)
EXTENDS KeyringStore

\* A fingerprint that the salt does not reproduce matches no key (Keyring::is_of).
SeenAs(r, salt) ==
    RecordOf(r.name, IF r.salt \in {NoSalt, salt} THEN r.serial ELSE NoSerial, NoSalt, r.stored)
Seen(keys, salt) == {SeenAs(r, salt) : r \in keys}

SeenKeys == Seen(dir[Keys].keys, dir[Salt].salt)
SeenFormat == IF dir[Keys].fmt \in {"torn", "newer"} THEN "unknown" ELSE dir[Keys].fmt

Abstract == INSTANCE Registry WITH fmt <- SeenFormat, keys <- SeenKeys

\* One process at a time implements the registry: load, edit and save, with the
\* deaths, failed calls and lost salts in between, amount to whole edits.
ImplementsRegistry == Abstract!RegistrySpec
=============================================================================
