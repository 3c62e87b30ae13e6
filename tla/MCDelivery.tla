---------------------------- MODULE MCDelivery ------------------------------
(* Small instances of CommandDelivery for TLC. *)
EXTENDS CommandDelivery, TLC

Symmetry == Permutations(Slot)
=============================================================================
