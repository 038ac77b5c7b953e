---------------------------- MODULE MCDeveloper -----------------------------
(* DeveloperPhase on small instances: two stories, so that one can leak into
   the next, and two repositories, so that one is not the primary one. *)
EXTENDS DeveloperPhase
=============================================================================
