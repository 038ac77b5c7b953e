---------------------------- MODULE TaskPipeline ----------------------------
(***************************************************************************)
(* What an execution of a task promises, whatever phases it consists of: it *)
(* is accepted, works, may stop at checkpoints until a human answers, scans *)
(* once and last, and reports a verdict that says whether it merged; and a  *)
(* manual task merges nothing before the required checkpoints have been     *)
(* answered in the same execution.  It may be cut short by a restart, and   *)
(* begun again when it throws.                                              *)
(*                                                                         *)
(* Orchestrator implements this specification.                              *)
(***************************************************************************)
CONSTANTS
    Checkpoints,    \* points at which a human is asked
    Required        \* those that must be answered before a merge

VARIABLES
    stage,      \* how far the execution has come
    manual,     \* does a human answer at the checkpoints?
    consents,   \* checkpoints answered in this execution
    merged,     \* did its merge succeed?
    outcome     \* the verdict on the task, "open" when there is none

vars == <<stage, manual, consents, merged, outcome>>

Stages == {"idle", "queued", "working", "waiting", "scanning", "reporting"}
Verdict == IF merged THEN "completed" ELSE "failed"

Init ==
    /\ stage = "idle" /\ outcome = "open"
    /\ manual \in BOOLEAN
    /\ consents = {} /\ merged = FALSE

Move(from, to) == stage = from /\ stage' = to

(* A route launches an execution. *)
Accept ==
    /\ Move("idle", "queued")
    /\ outcome' = "open" /\ consents' = {} /\ merged' = FALSE
    /\ manual' \in BOOLEAN

(* The worker takes it. *)
Begin ==
    /\ Move("queued", "working")
    /\ outcome' = "open" /\ consents' = {} /\ merged' = FALSE
    /\ UNCHANGED manual

Merge ==
    /\ Move("working", "working")
    /\ manual => Required \subseteq consents
    /\ merged' \in BOOLEAN
    /\ UNCHANGED <<manual, consents, outcome>>

(* A human is asked, and answers, or cancels the task. *)
Ask == manual /\ Move("working", "waiting") /\ UNCHANGED <<manual, consents, merged, outcome>>

Answer(c) ==
    /\ Move("waiting", "working")
    /\ consents' = consents \cup {c}
    /\ UNCHANGED <<manual, merged, outcome>>

Cancel == Move("waiting", "scanning") /\ UNCHANGED <<manual, consents, merged, outcome>>

(* The work is over or has failed. *)
Scan == Move("working", "scanning") /\ UNCHANGED <<manual, consents, merged, outcome>>

Scanned == Move("scanning", "reporting") /\ UNCHANGED <<manual, consents, merged, outcome>>

(* The verdict is written, and written again by the worker. *)
Report ==
    /\ stage = "reporting" /\ stage' \in {"reporting", "idle"}
    /\ outcome' = Verdict
    /\ UNCHANGED <<manual, consents, merged>>

(* Something throws in the end, and the job may get another attempt. *)
Throw ==
    /\ stage \in {"scanning", "reporting"} /\ stage' \in {"queued", "idle"}
    /\ outcome' = "failed"
    /\ UNCHANGED <<manual, consents, merged>>

(* A restart cuts the execution short and leaves the verdict as it is. *)
Restart ==
    /\ stage # "idle" /\ stage' = "idle"
    /\ UNCHANGED <<manual, consents, merged, outcome>>

Next ==
    \/ Accept \/ Begin \/ Merge \/ Ask \/ Cancel \/ Scan \/ Scanned \/ Report \/ Throw \/ Restart
    \/ \E c \in Checkpoints : Answer(c)

Spec == Init /\ [][Next]_vars
=============================================================================
