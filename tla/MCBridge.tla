------------------------------ MODULE MCBridge ------------------------------
(* Small instances of EventBridge for TLC. *)
EXTENDS EventBridge, TLC

SessionSymmetry == Permutations(Sessions)
=============================================================================
