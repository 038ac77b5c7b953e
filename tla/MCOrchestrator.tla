--------------------------- MODULE MCOrchestrator ---------------------------
(* Small instances of Orchestrator for TLC. *)
EXTENDS Orchestrator

FirstRunAndResume == {"start", "resume"}
StartAndRetryFrom == {"start", "retryFrom"}
EveryRoute == AllRoutes
=============================================================================
