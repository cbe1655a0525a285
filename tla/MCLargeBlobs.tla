---------------------------- MODULE MCLargeBlobs ----------------------------
(* Instances of LargeBlobs for TLC. *)
EXTENDS LargeBlobs, TLC

CONSTANTS r1, t1, n1
MCStored == {<<t1, n1>>}
=============================================================================
