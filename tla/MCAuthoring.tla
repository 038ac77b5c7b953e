---------------------------- MODULE MCAuthoring -----------------------------
(* Authoring with the iteration limit of the code. *)
EXTENDS Authoring
=============================================================================
