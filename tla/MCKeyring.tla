------------------------------ MODULE MCKeyring ------------------------------
(* Instances of KeyringStore for TLC. *)
EXTENDS KeyringRefinement, TLC

CONSTANTS k1, k2, k3, n1, n2

Old(name, serial) == RecordOf(name, serial, NoSalt, "computer")
OneName  == {{Old(n1, k1)}}
TwoNames == {{Old(n1, k1), Old(n2, k2)}}
Older == OneName \cup TwoNames

\* A key known by two serials, and one that is not.
KeyRows == {{k1, k3} \cap Serials, {k2} \cap Serials}

SaltSymmetry == Permutations(Salts)
Symmetry == Permutations(Salts) \cup Permutations(Procs)
=============================================================================
