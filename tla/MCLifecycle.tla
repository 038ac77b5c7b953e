---------------------------- MODULE MCLifecycle -----------------------------
(* Small instances of TaskLifecycle for TLC. *)
EXTENDS TaskLifecycle, TLC

SlotSymmetry == Permutations(Slots)
=============================================================================
