--------------------------- MODULE TaskLifecycle ----------------------------
(***************************************************************************)
(* The life of one task: its status column, its BullMQ job, the worker that *)
(* processes the job, and the HTTP routes of api/routes/tasks.ts that start,*)
(* cancel, interrupt and retry it, each in the separate awaited steps the   *)
(* code takes, so that requests interleave with the worker.                 *)
(*                                                                         *)
(* A job is stored under the task's id, and the record of a finished job    *)
(* stays in Redis for a day (completed) or a week (failed).  execute() is   *)
(* reduced to the status writes it makes; Orchestrator has its phases.      *)
(***************************************************************************)
EXTENDS Naturals, FiniteSets

CONSTANTS
    Slots,          \* processors a worker can run at once (WORKER_CONCURRENCY)
    MaxAttempts,    \* defaultJobOptions.attempts
    MaxLaunches,    \* bound: /start, /resume and /retry-from requests
    MaxCancels,     \* bound: /cancel requests
    MaxPauses,      \* bound: /interrupt requests
    MaxCrashes,     \* bound: crashes of the server
    AddedAs,        \* states a new job may have: prioritized when the project sets a priority
    LockChecked     \* BOOLEAN: BullMQ always refuses a token it did not issue

ASSUME LifecycleConstants ==
    /\ IsFiniteSet(Slots) /\ Slots # {}
    /\ MaxAttempts \in Nat \ {0}
    /\ MaxLaunches \in Nat /\ MaxCancels \in Nat
    /\ MaxPauses \in Nat /\ MaxCrashes \in Nat
    /\ AddedAs # {} /\ AddedAs \subseteq {"waiting", "prioritized"}
    /\ LockChecked \in BOOLEAN

VARIABLES
    status,     \* tasks.status
    job,        \* state of the BullMQ record stored under the task's id
    attempt,    \* attempts the record has used
    proc,       \* slot -> where its run of processTask is
    owner,      \* the slot whose processor holds the job's lock
    entry,      \* the task's entry in the routes' executions map
    launch,     \* the launch request in flight: which route, and how far it is
    cancel,     \* the cancel request in flight: the job state it has read
    due,        \* a launch was acknowledged and no processor has started since
    removed,    \* a cancel took the job out of the queue, nothing launched since
    restarted,  \* the server restarted, nothing launched since
    used        \* requests and crashes so far

vars == <<status, job, attempt, proc, owner, entry, launch, cancel, due, removed,
          restarted, used>>

Statuses == {"pending", "queued", "running", "paused", "waiting_for_approval",
             "interrupted", "completed", "failed", "cancelled"}
Queued == {"waiting", "prioritized", "delayed"}
Finished == {"completed", "failed"}
JobStates == Queued \cup Finished \cup {"none", "active"}
ProcSteps == {"idle", "begun", "executing", "asking", "ok", "bad"}
NoSlot == "no slot"

CountersOK ==
    /\ attempt \in 0..MaxAttempts
    /\ used \in [launches : 0..MaxLaunches, cancels : 0..MaxCancels,
                 pauses : 0..MaxPauses, crashes : 0..MaxCrashes]

StatesOK ==
    /\ status \in Statuses
    /\ job \in JobStates
    /\ proc \in [Slots -> ProcSteps]
    /\ owner \in Slots \cup {NoSlot}
    /\ entry \in {"none", "running", "paused"}
    /\ launch \in {"none", "start", "retryFrom", "added"}
    /\ cancel \in JobStates \cup {"no request", "removed"}
    /\ due \in BOOLEAN /\ removed \in BOOLEAN /\ restarted \in BOOLEAN

TypeOK == CountersOK /\ StatesOK

Init ==
    /\ status = "pending"
    /\ job = "none" /\ attempt = 0
    /\ proc = [s \in Slots |-> "idle"] /\ owner = NoSlot
    /\ entry = "none"
    /\ launch = "none" /\ cancel = "no request"
    /\ due = FALSE /\ removed = FALSE /\ restarted = FALSE
    /\ used = [launches |-> 0, cancels |-> 0, pauses |-> 0, crashes |-> 0]

Move(s, step) == proc' = [proc EXCEPT ![s] = step]

-----------------------------------------------------------------------------
(* BullMQ, as TaskQueue and TaskWorker use it. *)

(* Mutant of AddJob: no jobId, so a second job is added next to the first. *)
Bug_NoJobId == job' \in AddedAs /\ attempt' = 0

(* Queue.add with jobId = taskId: ignored while any record has that id. *)
AddJob ==
    IF job = "none"
    THEN job' \in AddedAs /\ attempt' = 0
    ELSE UNCHANGED <<job, attempt>>

(* A finished record is removed by age.  An execution is assumed to end
   before the record of its own job ages out. *)
RecordExpires ==
    /\ job \in Finished
    /\ \A s \in Slots : proc[s] = "idle"
    /\ job' = "none"
    /\ UNCHANGED <<status, attempt, proc, owner, entry, launch, cancel, due, removed,
                   restarted, used>>

(* The worker takes the job and locks it. *)
PickUp(s) ==
    /\ proc[s] = "idle"
    /\ job \in Queued
    /\ job' = "active"
    /\ attempt' = IF attempt < MaxAttempts THEN attempt + 1 ELSE attempt
    /\ owner' = s
    /\ Move(s, "begun")
    /\ due' = FALSE
    /\ UNCHANGED <<status, entry, launch, cancel, removed, restarted, used>>

(* Mutant of Release: the record is not settled and stays active. *)
Bug_NotSettled(s, state) ==
    /\ job' = job
    /\ owner' = IF owner = s THEN NoSlot ELSE owner
    /\ Move(s, "idle")

(* The processor returns or throws: BullMQ settles the record if the
   processor still holds its lock. *)
Release(s, state) ==
    /\ job' = IF owner = s /\ job = "active" THEN state ELSE job
    /\ owner' = IF owner = s THEN NoSlot ELSE owner
    /\ Move(s, "idle")

-----------------------------------------------------------------------------
(* processTask. *)

Unqueued == <<attempt, entry, launch, cancel, due, removed, restarted, used>>

(* updateTaskStatus(running), then execute(), which writes running again. *)
BeginTask(s) ==
    /\ proc[s] = "begun"
    /\ status' = "running"
    /\ Move(s, "executing")
    /\ UNCHANGED <<job, owner>> /\ UNCHANGED Unqueued

(* A phase waits for a human. *)
AskApproval(s) ==
    /\ proc[s] = "executing"
    /\ status' = "waiting_for_approval"
    /\ Move(s, "asking")
    /\ UNCHANGED <<job, owner>> /\ UNCHANGED Unqueued

(* The human answers. *)
AnswerApproval(s) ==
    /\ proc[s] = "asking"
    /\ status' = "running"
    /\ Move(s, "executing")
    /\ UNCHANGED <<job, owner>> /\ UNCHANGED Unqueued

(* execute() writes its verdict and returns. *)
Verdict(s, result) ==
    /\ proc[s] = "executing"
    /\ status' = IF result = "ok" THEN "completed" ELSE "failed"
    /\ Move(s, result)
    /\ UNCHANGED <<job, owner>> /\ UNCHANGED Unqueued

(* The worker writes the verdict a second time; the job is completed, also
   when the task failed, because the processor returned normally. *)
EndTask(s) ==
    /\ proc[s] \in {"ok", "bad"}
    /\ status' = IF proc[s] = "ok" THEN "completed" ELSE "failed"
    /\ Release(s, "completed")
    /\ UNCHANGED Unqueued

(* An exception leaves execute(): status failed, rethrown to BullMQ, which
   retries after a backoff. *)
TaskThrows(s) ==
    /\ proc[s] = "executing"
    /\ status' = "failed"
    /\ Release(s, IF attempt < MaxAttempts THEN "delayed" ELSE "failed")
    /\ UNCHANGED Unqueued

-----------------------------------------------------------------------------
(* POST /start, /resume and /retry-from. *)

Uninvolved == <<proc, owner, cancel>>

(* The first write of a launching route: the map entry and status running.
   /start looks at no status, /resume wants interrupted (what it does next
   is the same), /retry-from drops the map entry. *)
LaunchBegins(route) ==
    /\ launch = "none"
    /\ used.launches < MaxLaunches
    /\ used' = [used EXCEPT !.launches = @ + 1]
    /\ launch' = route
    /\ entry' = IF route = "start" THEN "running" ELSE "none"
    /\ status' = "running"
    /\ UNCHANGED <<job, attempt, due, removed, restarted>> /\ UNCHANGED Uninvolved

(* addTask succeeds; /retry-from answers, /start still writes the status. *)
LaunchAdds ==
    /\ launch \in {"start", "retryFrom"}
    /\ AddJob
    /\ launch' = IF launch = "start" THEN "added" ELSE "none"
    /\ due' = TRUE /\ removed' = FALSE /\ restarted' = FALSE
    /\ UNCHANGED <<status, entry, used>> /\ UNCHANGED Uninvolved

(* addTask throws: /start marks the task failed, /retry-from only answers. *)
LaunchFails ==
    /\ launch \in {"start", "retryFrom"}
    /\ status' = IF launch = "start" THEN "failed" ELSE status
    /\ launch' = "none"
    /\ UNCHANGED <<job, attempt, entry, due, removed, restarted, used>>
    /\ UNCHANGED Uninvolved

(* updateStatus(queued), whatever the worker has written meanwhile. *)
LaunchEnds ==
    /\ launch = "added"
    /\ status' = "queued"
    /\ launch' = "none"
    /\ UNCHANGED <<job, attempt, entry, due, removed, restarted, used>>
    /\ UNCHANGED Uninvolved

-----------------------------------------------------------------------------
(* POST /cancel: getState, then an action that trusts it, then the status. *)

(* job.getState(). *)
CancelReads ==
    /\ cancel = "no request"
    /\ used.cancels < MaxCancels
    /\ used' = [used EXCEPT !.cancels = @ + 1]
    /\ cancel' = job
    /\ UNCHANGED <<status, job, attempt, proc, owner, entry, launch, due, removed, restarted>>

(* Mutant of CancelRemoves: the lock of a job taken meanwhile is ignored. *)
Bug_RemoveLocked ==
    /\ cancel \in {"waiting", "delayed"}
    /\ job' = "none" /\ cancel' = "removed" /\ removed' = TRUE /\ due' = FALSE
    /\ UNCHANGED <<status, attempt, proc, owner, entry, launch, restarted, used>>

(* A waiting or delayed job is removed; job.remove throws when a worker has
   locked the job since, and the route fails. *)
CancelRemoves ==
    /\ cancel \in {"waiting", "delayed"}
    /\ IF job = "active"
       THEN /\ cancel' = "no request"
            /\ UNCHANGED <<job, removed, due>>
       ELSE /\ job' = "none"
            /\ cancel' = "removed"
            /\ removed' = TRUE /\ due' = FALSE
    /\ UNCHANGED <<status, attempt, proc, owner, entry, launch, restarted, used>>

(* An active job is moved to failed.  The route does not hold the job's lock,
   so BullMQ may refuse (the route fails) or accept; either way nothing tells
   the processor. *)
CancelActive ==
    /\ cancel = "active"
    /\ \/ /\ job = "active" /\ ~LockChecked
          /\ job' = "failed"
          /\ cancel' = "removed"
       \/ /\ cancel' = "no request"
          /\ UNCHANGED job
    /\ UNCHANGED <<status, attempt, proc, owner, entry, launch, due, removed, restarted, used>>

(* The status after the queue gave the job up. *)
CancelEnds ==
    /\ cancel = "removed"
    /\ status' = "cancelled"
    /\ cancel' = "no request"
    /\ UNCHANGED <<job, attempt, proc, owner, entry, launch, due, removed, restarted, used>>

(* Mutant of CancelFallsBack: the entry is marked failed and left in the map. *)
Bug_EntryLeft ==
    /\ cancel \in {"none", "prioritized", "completed", "failed"}
    /\ cancel' = "no request"
    /\ entry' = IF entry = "none" THEN entry ELSE "failed"
    /\ status' = IF entry = "none" THEN status ELSE "cancelled"
    /\ UNCHANGED <<job, attempt, proc, owner, launch, due, removed, restarted, used>>

(* Any other job state: the map entry is dropped, the task cancelled and its
   pending approvals rejected, which makes execute() go on to its scan.
   Without an entry the route answers 404. *)
CancelFallsBack ==
    /\ cancel \in {"none", "prioritized", "completed", "failed"}
    /\ cancel' = "no request"
    /\ IF entry = "none"
       THEN UNCHANGED <<status, entry, proc>>
       ELSE /\ status' = "cancelled"
            /\ entry' = "none"
            /\ proc' = [s \in Slots |-> IF proc[s] = "asking" THEN "executing" ELSE proc[s]]
    /\ UNCHANGED <<job, attempt, owner, launch, due, removed, restarted, used>>

-----------------------------------------------------------------------------
(* POST /interrupt, /continue and /retry: the map entry and the status. *)

Interrupt ==
    /\ entry = "running"
    /\ used.pauses < MaxPauses
    /\ used' = [used EXCEPT !.pauses = @ + 1]
    /\ entry' = "paused"
    /\ status' = "paused"
    /\ UNCHANGED <<job, attempt, launch, due, removed, restarted>> /\ UNCHANGED Uninvolved

(* /continue wants a paused entry, /retry any entry. *)
ContinueOrRetry ==
    /\ entry # "none"
    /\ entry' = "running"
    /\ status' = "running"
    /\ UNCHANGED <<job, attempt, launch, due, removed, restarted, used>>
    /\ UNCHANGED Uninvolved

(* The server dies and comes back: recoverStaleTasks, then
   cleanStaleJobsOnStartup, which asks BullMQ for active, waiting and delayed
   jobs only. *)
CrashAndRestart ==
    /\ used.crashes < MaxCrashes
    /\ used' = [used EXCEPT !.crashes = @ + 1]
    /\ status' = IF status \in {"running", "paused"} THEN "interrupted" ELSE status
    /\ job' = IF job \in {"active", "waiting", "delayed"} THEN "none" ELSE job
    /\ proc' = [s \in Slots |-> "idle"] /\ owner' = NoSlot
    /\ entry' = "none" /\ launch' = "none" /\ cancel' = "no request"
    /\ due' = FALSE /\ removed' = FALSE /\ restarted' = TRUE
    /\ UNCHANGED attempt

-----------------------------------------------------------------------------
ProcStep(s) ==
    \/ PickUp(s) \/ BeginTask(s) \/ AskApproval(s) \/ AnswerApproval(s)
    \/ \E result \in {"ok", "bad"} : Verdict(s, result)
    \/ EndTask(s) \/ TaskThrows(s)

RequestStep == LaunchAdds \/ LaunchFails \/ LaunchEnds \/ CancelRemoves
               \/ CancelActive \/ CancelEnds \/ CancelFallsBack

Next ==
    \/ \E s \in Slots : ProcStep(s)
    \/ RequestStep
    \/ \E route \in {"start", "retryFrom"} : LaunchBegins(route)
    \/ CancelReads
    \/ Interrupt \/ ContinueOrRetry
    \/ RecordExpires
    \/ CrashAndRestart

Spec == Init /\ [][Next]_vars

(* A worker with a free slot takes jobs and a processor runs on; execute()
   does not wait for approvals for ever: it has finitely many. *)
FairSpec ==
    /\ Spec
    /\ \A s \in Slots : WF_vars(ProcStep(s))
    /\ \A s \in Slots : SF_vars(\E result \in {"ok", "bad"} : Verdict(s, result))

-----------------------------------------------------------------------------
(* Two processors never work on the same task, however often it is started
   again: they would edit and push the same workspace and branch. *)
OneProcessor == Cardinality({s \in Slots : proc[s] # "idle"}) <= 1

(* A job that a cancel took out of the queue never runs: no processor is
   active until the task is launched again. *)
RemovedNeverRuns == removed => job # "active" /\ \A s \in Slots : proc[s] = "idle"

(* Part of the inductive strengthening: a processor at work holds the lock of
   a job that is active, or that a cancel has moved to failed under it. *)
BusyOwnsJob ==
    \A s \in Slots : proc[s] # "idle" => owner = s /\ job \in {"active", "failed"}

(* Part of the inductive strengthening: when a cancel has read waiting or
   delayed, a processor that is at work took the job since, and it is active. *)
StaleCancelSeesLock ==
    cancel \in {"waiting", "delayed"} =>
        \A s \in Slots : proc[s] # "idle" => job = "active"

(* The inductive invariant of the task's life. *)
LifecycleInv ==
    /\ TypeOK
    /\ BusyOwnsJob
    /\ StaleCancelSeesLock
    /\ removed => job = "none"

(* A job in the queue is settled: processed to the end, failed or removed. *)
JobSettles == job \in Queued \cup {"active"} ~> job \in Finished \cup {"none"}

-----------------------------------------------------------------------------
(* What the code's own words promise and the code does not keep. *)

(* Cancelling ends the execution: the worker does not write another status
   over cancelled. *)
CancelledStays ==
    [][status = "cancelled" /\ status' # "cancelled" => proc' = proc]_vars

(* A launch the route has acknowledged is in the queue until it is processed. *)
AcknowledgedIsQueued == due => job \in Queued

(* No job that was in the queue at a restart runs again by itself. *)
NoAutoResume == restarted => job # "active"
=============================================================================
