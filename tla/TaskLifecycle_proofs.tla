------------------------ MODULE TaskLifecycle_proofs ------------------------
(***************************************************************************)
(* One processor per task, for every number of worker slots, launches,      *)
(* cancels, pauses and crashes: LifecycleInv is inductive.                  *)
(***************************************************************************)
EXTENDS TaskLifecycle, FiniteSetTheorems, TLAPS

(* The bounds are natural numbers, so that their counters can start at 0. *)
LEMMA BoundsAreNaturals ==
    /\ MaxAttempts \in Nat /\ MaxLaunches \in Nat /\ MaxCancels \in Nat
    /\ MaxPauses \in Nat /\ MaxCrashes \in Nat
  BY LifecycleConstants

(* A new job is in one of the states of a queued job. *)
LEMMA AddedIsQueued == \A j \in AddedAs : j \in Queued
  BY LifecycleConstants DEF Queued

(* The queue of a task nobody has started satisfies the inductive
   invariant. *)
LEMMA InitInv == Init => LifecycleInv
  <1>1. Init => CountersOK
    <2>1. Init => /\ attempt = 0
                  /\ used = [launches |-> 0, cancels |-> 0, pauses |-> 0, crashes |-> 0]
      BY Zenon DEF Init
    <2>2. ASSUME attempt = 0,
                 used = [launches |-> 0, cancels |-> 0, pauses |-> 0, crashes |-> 0]
          PROVE  CountersOK
      BY <2>2, BoundsAreNaturals DEF CountersOK
    <2> QED
      BY <2>1, <2>2, Zenon
  <1>2. Init => StatesOK
    BY DEF Init, StatesOK, Statuses, JobStates, Queued, Finished, ProcSteps
  <1>3. Init => BusyOwnsJob /\ StaleCancelSeesLock /\ (removed => job = "none")
    BY DEF Init, BusyOwnsJob, StaleCancelSeesLock
  <1> QED
    BY <1>1, <1>2, <1>3 DEF LifecycleInv, TypeOK, CountersOK, StatesOK

(* The worker takes a job that is queued, so no processor was at work. *)
LEMMA PickUpInv ==
  ASSUME LifecycleInv, NEW s \in Slots, PickUp(s)
  PROVE  LifecycleInv'
  <1> USE DEF LifecycleInv, PickUp, Move
  <1>1. TypeOK'
    <2>1. CountersOK'
      BY BoundsAreNaturals DEF TypeOK, CountersOK
    <2>2. StatesOK'
      BY DEF TypeOK, StatesOK, JobStates, Queued, Finished, ProcSteps
    <2> QED
      BY <2>1, <2>2 DEF TypeOK, CountersOK, StatesOK
  <1>2. \A t \in Slots : proc[t] = "idle"
    BY DEF BusyOwnsJob, Queued
  <1>3. BusyOwnsJob' /\ StaleCancelSeesLock'
    BY <1>2 DEF BusyOwnsJob, StaleCancelSeesLock, TypeOK, CountersOK, StatesOK
  <1>4. removed' => job' = "none"
    BY DEF Queued
  <1> QED
    BY <1>1, <1>3, <1>4

(* A step inside processTask that leaves the queue alone. *)
LEMMA RunInv ==
  ASSUME LifecycleInv, NEW s \in Slots, NEW step \in ProcSteps,
         proc[s] # "idle", Move(s, step), status' \in Statuses,
         UNCHANGED <<job, owner>>, UNCHANGED Unqueued
  PROVE  LifecycleInv'
  <1> USE DEF LifecycleInv, Move, Unqueued
  <1>1. TypeOK'
    BY DEF TypeOK, CountersOK, StatesOK
  <1>2. BusyOwnsJob' /\ StaleCancelSeesLock'
    BY DEF BusyOwnsJob, StaleCancelSeesLock, TypeOK, CountersOK, StatesOK
  <1> QED
    BY <1>1, <1>2

(* The processor returns or throws: it was the only one at work. *)
LEMMA ReleaseInv ==
  ASSUME LifecycleInv, NEW s \in Slots, proc[s] # "idle",
         NEW state \in {"completed", "failed", "delayed"}, Release(s, state),
         status' \in Statuses, UNCHANGED Unqueued
  PROVE  LifecycleInv'
  <1> USE DEF LifecycleInv, Release, Move, Unqueued
  <1>1. TypeOK'
    BY DEF TypeOK, CountersOK, StatesOK, JobStates, Queued, Finished, ProcSteps
  <1>2. \A t \in Slots : proc'[t] = "idle"
    BY DEF BusyOwnsJob, TypeOK, CountersOK, StatesOK
  <1>3. BusyOwnsJob' /\ StaleCancelSeesLock'
    BY <1>2 DEF BusyOwnsJob, StaleCancelSeesLock
  <1>4. removed' => job' = "none"
    OBVIOUS
  <1> QED
    BY <1>1, <1>3, <1>4

(* Every step of a worker slot preserves the inductive invariant. *)
LEMMA ProcInv ==
  ASSUME LifecycleInv, NEW s \in Slots, ProcStep(s)
  PROVE  LifecycleInv'
  <1>1. CASE PickUp(s)
    BY <1>1, PickUpInv
  <1>2. CASE BeginTask(s)
    BY <1>2, RunInv DEF BeginTask, ProcSteps, Statuses
  <1>3. CASE AskApproval(s)
    BY <1>3, RunInv DEF AskApproval, ProcSteps, Statuses
  <1>4. CASE AnswerApproval(s)
    BY <1>4, RunInv DEF AnswerApproval, ProcSteps, Statuses
  <1>5. ASSUME NEW result \in {"ok", "bad"}, Verdict(s, result)
        PROVE  LifecycleInv'
    BY <1>5, RunInv DEF Verdict, ProcSteps, Statuses
  <1>6. CASE EndTask(s)
    BY <1>6, ReleaseInv DEF EndTask, Statuses
  <1>7. CASE TaskThrows(s)
    <2>1. PICK state \in {"failed", "delayed"} : Release(s, state)
      BY <1>7 DEF TaskThrows
    <2> QED
      BY <1>7, <2>1, ReleaseInv DEF TaskThrows, Statuses
  <1> QED
    BY <1>1, <1>2, <1>3, <1>4, <1>5, <1>6, <1>7 DEF ProcStep

(* The routes that launch a task: a job is added only where there is no
   record, hence no processor. *)
LEMMA LaunchInv ==
  ASSUME LifecycleInv,
         \/ \E route \in {"start", "retryFrom"} : LaunchBegins(route)
         \/ LaunchAdds \/ LaunchFails \/ LaunchEnds
  PROVE  LifecycleInv'
  <1> USE DEF LifecycleInv, Uninvolved
  <1>1. ASSUME NEW route \in {"start", "retryFrom"}, LaunchBegins(route)
        PROVE  LifecycleInv'
    <2>1. CountersOK'
      BY <1>1, BoundsAreNaturals DEF LaunchBegins, TypeOK, CountersOK
    <2>2. StatesOK'
      BY <1>1 DEF LaunchBegins, TypeOK, StatesOK, Statuses
    <2>3. TypeOK'
      BY <2>1, <2>2 DEF TypeOK, CountersOK, StatesOK
    <2> QED
      BY <1>1, <2>3 DEF LaunchBegins, BusyOwnsJob, StaleCancelSeesLock
  <1>2. CASE LaunchAdds
    <2>1. CountersOK'
      BY <1>2, BoundsAreNaturals DEF LaunchAdds, AddJob, TypeOK, CountersOK
    <2>2. StatesOK'
      BY <1>2, AddedIsQueued DEF LaunchAdds, AddJob, TypeOK, StatesOK, JobStates
    <2>3. TypeOK'
      BY <2>1, <2>2 DEF TypeOK, CountersOK, StatesOK
    <2>4. BusyOwnsJob'
      BY <1>2 DEF LaunchAdds, AddJob, BusyOwnsJob
    <2>5. StaleCancelSeesLock'
      BY <1>2 DEF LaunchAdds, AddJob, BusyOwnsJob, StaleCancelSeesLock
    <2>6. removed' = FALSE
      BY <1>2 DEF LaunchAdds
    <2> QED
      BY <2>3, <2>4, <2>5, <2>6
  <1>3. CASE LaunchFails
    <2>1. TypeOK'
      BY <1>3 DEF LaunchFails, TypeOK, CountersOK, StatesOK, Statuses
    <2> QED
      BY <1>3, <2>1 DEF LaunchFails, BusyOwnsJob, StaleCancelSeesLock
  <1>4. CASE LaunchEnds
    <2>1. TypeOK'
      BY <1>4 DEF LaunchEnds, TypeOK, CountersOK, StatesOK, Statuses
    <2> QED
      BY <1>4, <2>1 DEF LaunchEnds, BusyOwnsJob, StaleCancelSeesLock
  <1> QED
    BY <1>1, <1>2, <1>3, <1>4

(* The cancel request, whose knowledge of the job may be stale. *)
LEMMA CancelInv ==
  ASSUME LifecycleInv,
         \/ CancelReads \/ CancelRemoves \/ CancelActive
         \/ CancelEnds \/ CancelFallsBack
  PROVE  LifecycleInv'
  <1> USE DEF LifecycleInv
  <1>1. CASE CancelReads
    <2>1. CountersOK'
      <3>1. /\ used.cancels < MaxCancels /\ attempt' = attempt /\ CountersOK
            /\ used' = [used EXCEPT !.cancels = @ + 1]
        BY <1>1, Zenon DEF CancelReads, TypeOK
      <3> QED
        BY <3>1, BoundsAreNaturals DEF CountersOK
    <2>2. StatesOK'
      BY <1>1 DEF CancelReads, TypeOK, StatesOK
    <2>3. TypeOK'
      BY <2>1, <2>2 DEF TypeOK, CountersOK, StatesOK
    <2>4. StaleCancelSeesLock'
      BY <1>1 DEF CancelReads, BusyOwnsJob, StaleCancelSeesLock
    <2> QED
      BY <1>1, <2>3, <2>4 DEF CancelReads, BusyOwnsJob
  <1>2. CASE CancelRemoves
    <2>1. TypeOK'
      BY <1>2 DEF CancelRemoves, TypeOK, CountersOK, StatesOK, JobStates
    <2>2. BusyOwnsJob'
      BY <1>2 DEF CancelRemoves, BusyOwnsJob, StaleCancelSeesLock
    <2> QED
      BY <1>2, <2>1, <2>2 DEF CancelRemoves, StaleCancelSeesLock
  <1>3. CASE CancelActive
    <2>1. TypeOK'
      BY <1>3 DEF CancelActive, TypeOK, CountersOK, StatesOK, JobStates, Finished
    <2>2. BusyOwnsJob' /\ StaleCancelSeesLock'
      BY <1>3 DEF CancelActive, BusyOwnsJob, StaleCancelSeesLock
    <2> QED
      BY <1>3, <2>1, <2>2 DEF CancelActive
  <1>4. CASE CancelEnds
    <2>1. TypeOK'
      BY <1>4 DEF CancelEnds, TypeOK, CountersOK, StatesOK, Statuses
    <2> QED
      BY <1>4, <2>1 DEF CancelEnds, BusyOwnsJob, StaleCancelSeesLock
  <1>5. CASE CancelFallsBack
    <2>1. TypeOK'
      BY <1>5 DEF CancelFallsBack, TypeOK, CountersOK, StatesOK, Statuses, ProcSteps
    <2>2. \A s \in Slots : proc'[s] # "idle" => proc[s] # "idle"
      BY <1>5 DEF CancelFallsBack, TypeOK, CountersOK, StatesOK
    <2> QED
      BY <1>5, <2>1, <2>2 DEF CancelFallsBack, BusyOwnsJob, StaleCancelSeesLock
  <1> QED
    BY <1>1, <1>2, <1>3, <1>4, <1>5

(* Pauses, the expiry of a finished record and a crash. *)
LEMMA OtherInv ==
  ASSUME LifecycleInv, Interrupt \/ ContinueOrRetry \/ RecordExpires \/ CrashAndRestart
  PROVE  LifecycleInv'
  <1> USE DEF LifecycleInv
  <1>1. CASE Interrupt
    <2>1. CountersOK'
      BY <1>1, BoundsAreNaturals DEF Interrupt, Uninvolved, TypeOK, CountersOK
    <2>2. StatesOK'
      BY <1>1 DEF Interrupt, Uninvolved, TypeOK, StatesOK, Statuses
    <2>3. TypeOK'
      BY <2>1, <2>2 DEF TypeOK, CountersOK, StatesOK
    <2> QED
      BY <1>1, <2>3 DEF Interrupt, Uninvolved, BusyOwnsJob, StaleCancelSeesLock
  <1>2. CASE ContinueOrRetry
    <2>1. TypeOK'
      BY <1>2 DEF ContinueOrRetry, Uninvolved, TypeOK, CountersOK, StatesOK, Statuses
    <2> QED
      BY <1>2, <2>1 DEF ContinueOrRetry, Uninvolved, BusyOwnsJob, StaleCancelSeesLock
  <1>3. CASE RecordExpires
    <2>1. TypeOK'
      BY <1>3 DEF RecordExpires, TypeOK, CountersOK, StatesOK, JobStates
    <2> QED
      BY <1>3, <2>1 DEF RecordExpires, BusyOwnsJob, StaleCancelSeesLock
  <1>4. CASE CrashAndRestart
    <2>1. CountersOK'
      <3>1. /\ used.crashes < MaxCrashes /\ attempt' = attempt /\ CountersOK
            /\ used' = [used EXCEPT !.crashes = @ + 1]
        BY <1>4, Zenon DEF CrashAndRestart, TypeOK
      <3> QED
        BY <3>1, BoundsAreNaturals DEF CountersOK
    <2>2. StatesOK'
      BY <1>4 DEF CrashAndRestart, TypeOK, StatesOK, Statuses, ProcSteps, JobStates
    <2>3. TypeOK'
      BY <2>1, <2>2 DEF TypeOK, CountersOK, StatesOK
    <2> QED
      BY <1>4, <2>3 DEF CrashAndRestart, BusyOwnsJob, StaleCancelSeesLock
  <1> QED
    BY <1>1, <1>2, <1>3, <1>4

(* No step of the worker, a route or a crash breaks the inductive invariant. *)
LEMMA NextInv == LifecycleInv /\ [Next]_vars => LifecycleInv'
  <1> SUFFICES ASSUME LifecycleInv, [Next]_vars PROVE LifecycleInv'
    OBVIOUS
  <1>1. CASE UNCHANGED vars
    BY <1>1 DEF vars, LifecycleInv, TypeOK, CountersOK, StatesOK, BusyOwnsJob, StaleCancelSeesLock
  <1>2. ASSUME NEW s \in Slots, ProcStep(s) PROVE LifecycleInv'
    BY <1>2, ProcInv
  <1>3. CASE RequestStep \/ CancelReads
            \/ \E route \in {"start", "retryFrom"} : LaunchBegins(route)
    BY <1>3, LaunchInv, CancelInv DEF RequestStep
  <1>4. CASE Interrupt \/ ContinueOrRetry \/ RecordExpires \/ CrashAndRestart
    BY <1>4, OtherInv
  <1> QED
    BY <1>1, <1>2, <1>3, <1>4 DEF Next

(* The inductive invariant of routes, queue and worker holds throughout. *)
THEOREM LifecycleInvariant == Spec => []LifecycleInv
  BY InitInv, NextInv, PTL DEF Spec

(* The status column, the job, the slots and the requests keep their types. *)
THEOREM LifecycleTypeOK == Spec => []TypeOK
  <1>1. LifecycleInv => TypeOK
    BY DEF LifecycleInv
  <1> QED
    BY <1>1, LifecycleInvariant, PTL

(* Two slots never run processTask for the same task at once: the second add
   meets the record of the first, and no cancel removes a locked job. *)
THEOREM OneProcessorPerTask == Spec => []OneProcessor
  <1>1. LifecycleInv => OneProcessor
    <2> SUFFICES ASSUME LifecycleInv PROVE OneProcessor
      OBVIOUS
    <2> DEFINE Busy == {s \in Slots : proc[s] # "idle"}
    <2>1. CASE Busy = {}
      BY <2>1, FS_EmptySet DEF OneProcessor
    <2>2. CASE Busy # {}
      <3>1. Busy = {owner}
        BY <2>2 DEF LifecycleInv, BusyOwnsJob
      <3>2. Cardinality(Busy) = 1
        BY <3>1, FS_Singleton
      <3> QED
        BY <3>2 DEF OneProcessor
    <2> QED
      BY <2>1, <2>2
  <1> QED
    BY <1>1, LifecycleInvariant, PTL

(* After a cancel took the job out of the queue, nothing processes the task
   until it is launched again, although the cancel acted on a job state that
   it had read before. *)
THEOREM RemovedJobNeverRuns == Spec => []RemovedNeverRuns
  <1>1. LifecycleInv => RemovedNeverRuns
    BY DEF LifecycleInv, BusyOwnsJob, RemovedNeverRuns
  <1> QED
    BY <1>1, LifecycleInvariant, PTL
=============================================================================
