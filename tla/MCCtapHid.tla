------------------------------ MODULE MCCtapHid ------------------------------
(* An instance of CtapHid for TLC: liveness is checked, so no symmetry. *)
EXTENDS CtapHid, TLC
=============================================================================
