------------------------------- MODULE Registry -------------------------------
(***************************************************************************)
(* What the registry of key names promises its callers: one value that     *)
(* changes by whole edits.  It knows keys by their serial; a registry that *)
(* lost its salt forgets which key a name belonged to, never the names.    *)
(* Records are those of KeyRecords with no salt.                           *)
(***************************************************************************)
EXTENDS KeyRecords

VARIABLES fmt,  \* "absent", "v1" (not converted), "v2", or "unknown"
          keys  \* the records

regVars == <<fmt, keys>>

\* The records ks after a name was set for the key of a row.
Named(ks, row) ==
    {SetName(DropOthers(ks, n, others \ {k}, NoSalt, st), n, k, NoSalt, st) :
        n \in Names, k \in row, others \in SUBSET row, st \in {"computer", "key"}}

\* The results of one command on the records ks.
Edits(ks) ==
    (UNION {Named(ks, row) : row \in Rows})
        \cup (UNION {{ClearKey(ks, serials, NoSalt) : serials \in SUBSET row} : row \in Rows})
        \cup {RemoveName(ks, n) : n \in Names}

\* A scan adds and drops names that keys carry themselves, nothing else, and
\* takes no name from a record that is there.
Learnt(ks, new) ==
    /\ \A r \in ks \ new : r.stored = "key"
    /\ \A r \in new \ ks : r.stored = "key" /\ r.serial # NoSerial

\* Names stay unique through an edit, whatever the edit was.
UniqueNames(ks) == \A r1, r2 \in ks : r1.name = r2.name => r1 = r2

Convert == /\ fmt = "v1" /\ fmt' = "v2"
           /\ keys' = keys

Save == /\ fmt \in {"absent", "v1", "v2"} /\ fmt' = "v2"
        /\ keys' \in Edits(keys) \/ Learnt(keys, keys')
        /\ UniqueNames(keys')

\* The salt was lost: no name is matched to a key any more.
Forget == /\ fmt = "v2" /\ fmt' = "v2"
          /\ keys' = Unmatched(keys)

\* Another program, or the user, replaces the registry.
Replaced == /\ fmt' \in {"v1", "unknown"}
            /\ fmt' = "unknown" => keys' = {}
            /\ UniqueNames(keys')

RegistryInit ==
    /\ fmt \in {"absent", "v1", "unknown"}
    /\ fmt # "v1" => keys = {}
    /\ UniqueNames(keys)

RegistryNext == Convert \/ Save \/ Forget \/ Replaced

RegistrySpec == RegistryInit /\ [][RegistryNext]_regVars
=============================================================================
