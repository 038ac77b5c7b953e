---------------------------- MODULE MCApproval ------------------------------
(* ApprovalService with two tasks of two phases and three requests: enough for
   a second request under a key whose first one was timed. *)
EXTENDS ApprovalService
=============================================================================
