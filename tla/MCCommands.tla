----------------------------- MODULE MCCommands -----------------------------
(* Small instances of Commands for TLC. *)
EXTENDS Commands, TLC

Symmetry == Permutations(Slot) \cup Permutations(Device)
=============================================================================
