----------------------------- MODULE MCPivSlots -----------------------------
(* PivSlots for TLC. *)
EXTENDS PivSlots, TLC

SlotKeySymmetry == Permutations(Slots) \cup Permutations(Keys)
=============================================================================
