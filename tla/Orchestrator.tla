---------------------------- MODULE Orchestrator ----------------------------
(***************************************************************************)
(* OrchestratorV2.execute and the task row it persists, for one task, with  *)
(* crashes of the server between any two database writes and the routes     *)
(* that launch an execution again: /start, /resume and /retry-from.         *)
(*                                                                         *)
(* The phases are black boxes with the outcomes execute() tells apart; the  *)
(* Developer phase is a loop over stories because its progress is persisted *)
(* story by story.  A story is named <<analysis, index>>, so that the       *)
(* stories of two analyses of the same task can be told apart.              *)
(*                                                                         *)
(* One execution runs at a time.  Launches that race a running execution or *)
(* the record of a finished job are the subject of TaskLifecycle.           *)
(***************************************************************************)
EXTENDS Naturals, FiniteSets

CONSTANTS
    NumStories,     \* stories an analysis produces
    MaxLaunches,    \* bound: executions the routes launch for the task
    MaxAttempts,    \* attempts of one BullMQ job (defaultJobOptions.attempts)
    Routes,         \* the requests clients send, a subset of AllRoutes
    MaxMalformed,   \* bound: first analyses whose JSON may lack its "analysis" key
    DbErrors,       \* BOOLEAN: may a write outside execute's try block fail?
    MaxCrashes      \* bound: crashes of the server

AllRoutes == {"start", "startAgain", "resume", "retryFrom"}

ASSUME OrchestratorConstants ==
    /\ NumStories \in Nat \ {0}
    /\ MaxLaunches \in Nat
    /\ MaxAttempts \in Nat \ {0}
    /\ MaxCrashes \in Nat
    /\ Routes \subseteq AllRoutes
    /\ MaxMalformed \in Nat
    /\ DbErrors \in BOOLEAN

VARIABLES
    row,        \* the task's row in PostgreSQL
    at,         \* the step the execution is at, "idle" when there is none
    phase,      \* the phase the step is about
    job,        \* options of the queued or running job
    ex,         \* local variables of execute()
    ran,        \* phases this execution has entered
    answered,   \* phases whose approval a human answered in this execution
    refused,    \* the phase a human rejected with the last answer, if any
    developed,  \* stories some execution has worked on
    analyses,   \* number of analyses produced so far
    launches,   \* number of executions launched by a route
    mixed,      \* the saved story index may count another analysis (history)
    crashes     \* number of crashes

vars == <<row, at, phase, job, ex, ran, answered, refused, developed,
          analyses, launches, mixed, crashes>>

Phases == {"Planning", "Analysis", "Developer", "TestGeneration", "Merge", "GlobalScan"}
NoPhase == "none"
Gated == {"Analysis", "Developer", "TestGeneration"}
Answers == {"approve", "reject", "request_changes"}
Statuses == {"pending", "queued", "running", "waiting_for_approval",
             "interrupted", "completed", "failed", "cancelled"}
Steps == {"idle", "queued", "enter", "run", "mark", "gate", "wait",
          "finish", "clear", "report"}
Analyses == 0..(MaxLaunches * MaxAttempts)      \* 0 is "no analysis yet"

(* phaseOrder.indexOf(startFromPhase), 0 when no phase is given. *)
PhaseIndex(p) ==
    CASE p \in {NoPhase, "Planning"} -> 0
      [] p = "Analysis" -> 1
      [] p = "Developer" -> 2
      [] p = "TestGeneration" -> 3
      [] p = "Merge" -> 4
      [] p = "GlobalScan" -> 5

(* The columns of a task that execute() and the routes read and write. *)
Rows == [status : Statuses,
         current : Phases \cup {NoPhase},   \* current_phase
         completed : SUBSET Phases,         \* names in completed_phases
         storiesDone : 0..NumStories,       \* last_completed_story_index + 1
         analysis : Analyses]               \* whose analysis, stories, branch_name

Jobs == [start : Phases \cup {NoPhase}, preserve : BOOLEAN, manual : BOOLEAN,
         attempt : 1..MaxAttempts]

Executions == [analysis : Analyses,         \* whose stories it works on
               resumeFrom : 0..NumStories,  \* resumeFromStoryIndex
               story : 0..NumStories,       \* next story of the loop
               merge : {"none", "ok", "failed"}]    \* mergeResult

TypeOK ==
    /\ row \in Rows
    /\ at \in Steps
    /\ phase \in Phases \cup {NoPhase}
    /\ job \in Jobs
    /\ ex \in Executions
    /\ ran \subseteq Phases
    /\ answered \subseteq Gated
    /\ refused \in answered \cup {NoPhase}
    /\ developed \subseteq Analyses \X (0..NumStories - 1)
    /\ analyses \in Analyses
    /\ launches \in 0..MaxLaunches
    /\ mixed \in BOOLEAN
    /\ crashes \in 0..MaxCrashes

NoJob == [start |-> NoPhase, preserve |-> FALSE, manual |-> TRUE, attempt |-> 1]
NoExecution == [analysis |-> 0, resumeFrom |-> 0, story |-> 0, merge |-> "none"]

(* TaskRepository.create: a pending task nobody has started. *)
Init ==
    /\ row = [status |-> "pending", current |-> NoPhase, completed |-> {},
              storiesDone |-> 0, analysis |-> 0]
    /\ at = "idle" /\ phase = NoPhase
    /\ job = NoJob
    /\ ex = NoExecution
    /\ ran = {} /\ answered = {} /\ refused = NoPhase
    /\ developed = {}
    /\ analyses = 0
    /\ launches = 0
    /\ mixed = FALSE
    /\ crashes = 0

Goto(step, p) == at' = step /\ phase' = p

(* TaskRepository.updateStatus, and setFailed where the status is failed. *)
UpdateStatus(status) == row' = [row EXCEPT !.status = status]

(* TaskRepository.update, which the approval gates use for the status. *)
Update(params) == row' = [row EXCEPT !.status = params.status]

(* The worker's own UPDATE, with times, result and error. *)
UpdateTaskStatus(status) == row' = [row EXCEPT !.status = status]

(* updateAfterAnalysis: branch_name, analysis and stories in one UPDATE. *)
UpdateAfterAnalysis(r, a) == [r EXCEPT !.analysis = a]

(* setLastCompletedStoryIndex: 0 for the first story, NULL before it. *)
SetLastCompletedStoryIndex(r, index) == [r EXCEPT !.storiesDone = index + 1]

-----------------------------------------------------------------------------
(* The routes that launch an execution. *)

(* addTask, then the status the route leaves behind. *)
Launch(start, preserve, manual, status) ==
    /\ at = "idle"
    /\ launches < MaxLaunches
    /\ launches' = launches + 1
    /\ job' = [start |-> start, preserve |-> preserve, manual |-> manual, attempt |-> 1]
    /\ UpdateStatus(status)
    /\ Goto("queued", NoPhase)
    /\ ex' = NoExecution
    /\ ran' = {} /\ answered' = {} /\ refused' = NoPhase
    /\ UNCHANGED <<developed, analyses, mixed, crashes>>

(* POST /start: no phase, and no look at the status.  "start" is the first
   start of a pending task, "startAgain" one of any other task. *)
Start(manual) ==
    /\ (IF row.status = "pending" THEN "start" ELSE "startAgain") \in Routes
    /\ Launch(NoPhase, FALSE, manual, "queued")

(* The phase /resume continues from: the one in progress, else the one after
   the last completed phase it knows. *)
ResumePhase ==
    CASE row.current # NoPhase -> row.current
      [] row.current = NoPhase /\ "Merge" \in row.completed -> "GlobalScan"
      [] row.current = NoPhase /\ "Merge" \notin row.completed
            /\ "Developer" \in row.completed -> "Merge"
      [] row.current = NoPhase /\ row.completed \cap {"Merge", "Developer"} = {}
            /\ "Analysis" \in row.completed -> "Developer"
      [] OTHER -> "Analysis"

(* /resume answers 400 unless the task is interrupted, and 400 again when no
   phase is in progress and GlobalScan is among the completed ones. *)
ResumeAccepted ==
    /\ row.status = "interrupted"
    /\ ~(row.current = NoPhase /\ "GlobalScan" \in row.completed)

(* POST /resume. *)
Resume(manual) ==
    /\ "resume" \in Routes
    /\ ResumeAccepted
    /\ Launch(ResumePhase, ResumePhase # "Analysis", manual, "queued")

(* POST /retry-from/:phase: the data the phase needs must exist; the job
   carries no approval mode, which means manual. *)
RetryFrom(p) ==
    /\ "retryFrom" \in Routes
    /\ row.status # "pending"
    /\ p \notin {"Planning", "Analysis"} => row.analysis # 0
    /\ Launch(p, p \notin {"Planning", "Analysis"}, TRUE, "running")

-----------------------------------------------------------------------------
(* execute() *)

(* completedPhases.includes(p): the array holds objects with a phase field,
   never the bare name, so no phase is ever found. *)
DoneByName(p) == FALSE

Skips(p) == PhaseIndex(job.start) > PhaseIndex(p) \/ DoneByName(p)

LoadsPreserved == Skips("Analysis") /\ job.preserve

(* Mutant of ResumeFromStoryIndex: the saved index is taken for a count and
   one is added once too often. *)
Bug_OffByOne ==
    IF row.completed # {} \/ row.current # NoPhase THEN row.storiesDone + 1 ELSE 0

(* resumeFromStoryIndex: last_completed_story_index + 1 when the row shows
   traces of an earlier execution. *)
ResumeFromStoryIndex ==
    IF row.completed # {} \/ row.current # NoPhase THEN row.storiesDone ELSE 0

(* processTask and the head of execute(): status, snapshot of the row, and
   the decision whether Planning runs. *)
Begin ==
    /\ at = "queued"
    /\ UpdateTaskStatus("running")
    /\ ex' = [analysis |-> row.analysis, resumeFrom |-> ResumeFromStoryIndex,
              story |-> 0, merge |-> "none"]
    /\ ran' = {} /\ answered' = {} /\ refused' = NoPhase
    /\ Goto("enter", IF Skips("Planning") THEN "Analysis" ELSE "Planning")
    /\ mixed' = (mixed /\ (row.storiesDone > 0 \/ row.analysis # analyses))
    /\ UNCHANGED <<job, developed, analyses, launches, crashes>>

(* setCurrentPhase, then the phase runs. *)
EnterPhase(p) ==
    /\ at = "enter" /\ phase = p
    /\ p = "Analysis" => ~LoadsPreserved
    /\ row' = [row EXCEPT !.current = p]
    /\ ran' = ran \cup {p}
    /\ ex' = [ex EXCEPT !.story = IF p = "Developer" THEN 0 ELSE @]
    /\ Goto("run", p)
    /\ UNCHANGED <<job, answered, refused, developed, analyses, launches, mixed, crashes>>

(* Analysis skipped: its result is rebuilt from the snapshot of the row, or
   the execution fails because there is none. *)
LoadAnalysis ==
    /\ at = "enter" /\ phase = "Analysis"
    /\ LoadsPreserved
    /\ IF ex.analysis # 0 THEN Goto("gate", "Analysis") ELSE Goto("enter", "GlobalScan")
    /\ UNCHANGED <<row, job, ex, ran, answered, refused, developed, analyses,
                   launches, mixed, crashes>>

(* Planning succeeds, TestGeneration returns (its result is not looked at),
   GlobalScan returns (it catches its own errors). *)
PhaseReturns(p) ==
    /\ p \in {"Planning", "TestGeneration", "GlobalScan"}
    /\ at = "run" /\ phase = p
    /\ Goto("mark", p)
    /\ UNCHANGED <<row, job, ex, ran, answered, refused, developed, analyses,
                   launches, mixed, crashes>>

(* Mutant of PhaseFails: the catch goes straight to the verdict. *)
Bug_CatchReturns(p) ==
    /\ p # "GlobalScan"
    /\ at = "run" /\ phase = p
    /\ Goto("finish", NoPhase)
    /\ UNCHANGED <<row, job, ex, ran, answered, refused, developed, analyses,
                   launches, mixed, crashes>>

(* A phase inside the try block fails or throws: the catch goes on to the
   global scan. *)
PhaseFails(p) ==
    /\ p # "GlobalScan"
    /\ at = "run" /\ phase = p
    /\ Goto("enter", "GlobalScan")
    /\ UNCHANGED <<row, job, ex, ran, answered, refused, developed, analyses,
                   launches, mixed, crashes>>

(* Mutant of AnalysisReturns: the analysis is not saved by its phase. *)
Bug_NotSaved(saved) ==
    LET a == analyses + 1
    IN /\ at = "run" /\ phase = "Analysis"
       /\ analyses' = a
       /\ ex' = [ex EXCEPT !.analysis = a]
       /\ mixed' = (mixed \/ row.storiesDone > 0)
       /\ Goto("mark", "Analysis")
       /\ UNCHANGED <<row, job, ran, answered, refused, developed, launches, crashes>>

(* Analysis succeeds with stories.  executeAnalysisPhase saves them itself
   (updateAfterAnalysis), unless the approved JSON has no "analysis" key. *)
AnalysisReturns(saved) ==
    LET a == analyses + 1
    IN /\ at = "run" /\ phase = "Analysis"
       /\ saved \/ a <= MaxMalformed
       /\ analyses' = a
       /\ ex' = [ex EXCEPT !.analysis = a]
       /\ row' = IF saved THEN UpdateAfterAnalysis(row, a) ELSE row
       /\ mixed' = (mixed \/ ~saved \/ row.storiesDone > 0)
       /\ Goto("mark", "Analysis")
       /\ UNCHANGED <<job, ran, answered, refused, developed, launches, crashes>>

(* A story below resumeFromStoryIndex gets a placeholder result. *)
SkipStory ==
    /\ at = "run" /\ phase = "Developer"
    /\ ex.story < NumStories /\ ex.story < ex.resumeFrom
    /\ ex' = [ex EXCEPT !.story = @ + 1]
    /\ UNCHANGED <<row, at, phase, job, ran, answered, refused, developed, analyses,
                   launches, mixed, crashes>>

(* A story is worked on, whatever its verdict, and onStoryComplete saves its
   index. *)
DevelopStory ==
    /\ at = "run" /\ phase = "Developer"
    /\ ex.story < NumStories /\ ex.story >= ex.resumeFrom
    /\ developed' = developed \cup {<<ex.analysis, ex.story>>}
    /\ row' = SetLastCompletedStoryIndex(row, ex.story)
    /\ ex' = [ex EXCEPT !.story = @ + 1]
    /\ UNCHANGED <<at, phase, job, ran, answered, refused, analyses, launches, mixed, crashes>>

(* The loop over the stories ends; rejected stories do not stop the task. *)
DeveloperReturns ==
    /\ at = "run" /\ phase = "Developer"
    /\ ex.story = NumStories
    /\ Goto("mark", "Developer")
    /\ UNCHANGED <<row, job, ex, ran, answered, refused, developed, analyses,
                   launches, mixed, crashes>>

(* executeMergePhase returns, with or without success; Delivery has its
   steps, and success may mean open pull requests. *)
MergeReturns(result) ==
    /\ at = "run" /\ phase = "Merge"
    /\ ex' = [ex EXCEPT !.merge = result]
    /\ Goto("mark", "Merge")
    /\ UNCHANGED <<row, job, ran, answered, refused, developed, analyses, launches,
                   mixed, crashes>>

(* The step after markPhaseComplete. *)
AfterMark(p) ==
    CASE p = "Planning" -> Goto("enter", "Analysis")
      [] p \in Gated -> Goto("gate", p)
      [] p = "Merge" -> Goto("enter", "GlobalScan")
      [] p = "GlobalScan" -> Goto("finish", NoPhase)

(* markPhaseComplete: append to completed_phases, no phase in progress. *)
MarkPhaseComplete(p) ==
    /\ at = "mark" /\ phase = p
    /\ row' = [row EXCEPT !.completed = @ \cup {p}, !.current = NoPhase]
    /\ AfterMark(p)
    /\ UNCHANGED <<job, ex, ran, answered, refused, developed, analyses, launches,
                   mixed, crashes>>

(* The phase after a gated one. *)
NextPhase(p) ==
    CASE p = "Analysis" -> "Developer"
      [] p = "Developer" -> "TestGeneration"
      [] p = "TestGeneration" -> "Merge"

(* Mutant of NeedsApproval: a phase that was loaded, not run, is not asked
   about again. *)
Bug_AskOnlyIfRun(p) == job.manual /\ p \in ran

(* Between two phases a manual task waits for a human. *)
NeedsApproval(p) == job.manual

(* Automatic mode, or a TestGeneration that generated no test. *)
PassGate(p) ==
    /\ at = "gate" /\ phase = p
    /\ ~NeedsApproval(p) \/ p = "TestGeneration"
    /\ Goto("enter", NextPhase(p))
    /\ UNCHANGED <<row, job, ex, ran, answered, refused, developed, analyses,
                   launches, mixed, crashes>>

(* Status waiting_for_approval, then requestApproval. *)
AskApproval(p) ==
    /\ at = "gate" /\ phase = p
    /\ NeedsApproval(p)
    /\ Update([status |-> "waiting_for_approval"])
    /\ Goto("wait", p)
    /\ UNCHANGED <<job, ex, ran, answered, refused, developed, analyses, launches,
                   mixed, crashes>>

(* `if (!approved) throw`: the response is an object, so the negation is
   false whatever the human answered. *)
RejectedByUser(answer) == FALSE

(* The answer arrives: status running again, then the check of the answer. *)
AnswerApproval(p, answer) ==
    /\ at = "wait" /\ phase = p
    /\ Update([status |-> "running"])
    /\ answered' = answered \cup {p}
    /\ refused' = IF answer = "reject" THEN p ELSE NoPhase
    /\ IF RejectedByUser(answer) THEN Goto("enter", "GlobalScan")
                                 ELSE Goto("enter", NextPhase(p))
    /\ UNCHANGED <<job, ex, ran, developed, analyses, launches, mixed, crashes>>

(* POST /cancel reaches approvalService.cancelTask: the awaited promise is
   rejected, which the catch turns into the global scan. *)
CancelApproval(p) ==
    /\ at = "wait" /\ phase = p
    /\ UpdateStatus("cancelled")
    /\ Goto("enter", "GlobalScan")
    /\ UNCHANGED <<job, ex, ran, answered, refused, developed, analyses, launches,
                   mixed, crashes>>

(* The verdict: merge determines success. *)
Finish ==
    /\ at = "finish"
    /\ UpdateStatus(IF ex.merge = "ok" THEN "completed" ELSE "failed")
    /\ Goto("clear", NoPhase)
    /\ UNCHANGED <<job, ex, ran, answered, refused, developed, analyses, launches,
                   mixed, crashes>>

(* clearResumeState: completed_phases stay. *)
ClearResumeState ==
    /\ at = "clear"
    /\ row' = [row EXCEPT !.current = NoPhase, !.storiesDone = 0]
    /\ Goto("report", NoPhase)
    /\ UNCHANGED <<job, ex, ran, answered, refused, developed, analyses, launches,
                   mixed, crashes>>

(* The end of processTask: the worker writes the same verdict again. *)
Report ==
    /\ at = "report"
    /\ UpdateTaskStatus(IF ex.merge = "ok" THEN "completed" ELSE "failed")
    /\ Goto("idle", NoPhase)
    /\ UNCHANGED <<job, ex, ran, answered, refused, developed, analyses, launches,
                   mixed, crashes>>

(* Mutant of NextAttempt: the attempts used are not counted. *)
Bug_AttemptNotCounted ==
    job' = job /\ Goto("queued", NoPhase)

(* BullMQ's retry: the same job again, until its attempts are used. *)
NextAttempt ==
    IF job.attempt < MaxAttempts
    THEN job' = [job EXCEPT !.attempt = @ + 1] /\ Goto("queued", NoPhase)
    ELSE job' = job /\ Goto("idle", NoPhase)

(* A write outside the try block throws out of execute(): the worker marks
   the task failed and rethrows. *)
ExecuteThrows ==
    /\ DbErrors
    /\ \/ at \in {"enter", "mark"} /\ phase = "GlobalScan"
       \/ at \in {"finish", "clear"}
    /\ UpdateTaskStatus("failed")
    /\ NextAttempt
    /\ UNCHANGED <<ex, ran, answered, refused, developed, analyses, launches, mixed, crashes>>

(* recoverStaleTasks: running (and paused) tasks become interrupted. *)
RecoverStaleTasks(r) ==
    [r EXCEPT !.status = IF @ = "running" THEN "interrupted" ELSE @]

(* The server dies and comes back: recoverStaleTasks, then
   cleanStaleJobsOnStartup removes the queued or active job. *)
CrashAndRestart ==
    /\ crashes < MaxCrashes
    /\ at # "idle"
    /\ crashes' = crashes + 1
    /\ row' = RecoverStaleTasks(row)
    /\ Goto("idle", NoPhase)
    /\ UNCHANGED <<job, ex, ran, answered, refused, developed, analyses, launches, mixed>>

-----------------------------------------------------------------------------
(* A step of the worker: everything the code does without a client. *)
WorkerStep ==
    \/ Begin
    \/ LoadAnalysis
    \/ \E p \in Phases :
          EnterPhase(p) \/ PhaseReturns(p) \/ PhaseFails(p) \/ MarkPhaseComplete(p)
    \/ \E saved \in BOOLEAN : AnalysisReturns(saved)
    \/ SkipStory \/ DevelopStory \/ DeveloperReturns
    \/ \E result \in {"ok", "failed"} : MergeReturns(result)
    \/ \E p \in Gated : PassGate(p) \/ AskApproval(p)
    \/ Finish \/ ClearResumeState \/ Report
    \/ ExecuteThrows

HumanStep ==
    \E p \in Gated :
        \/ \E answer \in Answers : AnswerApproval(p, answer)
        \/ CancelApproval(p)

RouteStep ==
    \/ \E manual \in BOOLEAN : Start(manual) \/ Resume(manual)
    \/ \E p \in Phases : RetryFrom(p)

Next == RouteStep \/ WorkerStep \/ HumanStep \/ CrashAndRestart

Spec == Init /\ [][Next]_vars

(* The worker never stops by itself, and the human answers or cancels. *)
FairSpec == Spec /\ WF_vars(WorkerStep) /\ WF_vars(HumanStep)

-----------------------------------------------------------------------------
(* The first n stories of an analysis have been worked on. *)
WorkedOn(a, n) == \A i \in 0..NumStories - 1 : i < n => <<a, i>> \in developed

(* No story is skipped: when the Developer phase of the analysis at hand is
   over, every one of its stories has been worked on by this or by an earlier
   execution. *)
NoStorySkipped ==
    ex.story = NumStories => WorkedOn(ex.analysis, NumStories)

(* Crash recovery loses no story: whatever crashes, resumes and launches from
   the middle happened, no story is skipped, and a completed task had all of
   them worked on, unless a new analysis replaced the one whose stories the
   saved index counts. *)
NoStoryLost ==
    ~mixed => /\ NoStorySkipped
              /\ row.status = "completed" => WorkedOn(ex.analysis, NumStories)

(* Wherever a crash fell, a later launch that continues from Developer,
   TestGeneration or Merge finds the analysis they need in the row.  (The
   scan may have followed a failure, and is resumed without one.) *)
ResumeFindsAnalysis ==
    at = "enter" /\ phase = "Analysis" /\ LoadsPreserved /\ ~mixed
        /\ job.start # "GlobalScan" => ex.analysis # 0

(* In manual mode nothing is merged before a human has answered for the
   analysis and for the code, in this very execution: a resume that skips the
   analysis asks again. *)
MergeIsAnswered ==
    "Merge" \in ran /\ job.manual => {"Analysis", "Developer"} \subseteq answered

(* The phase a step is about, and the two halves of an execution. *)
StepOfPhase ==
    /\ at \in {"enter", "run", "mark"} => phase \in Phases
    /\ at \in {"gate", "wait"} => phase \in Gated
    /\ at \in {"idle", "queued", "finish", "clear", "report"} => phase = NoPhase

AfterAnalysis == {"Developer", "TestGeneration", "Merge"}
AfterDeveloper == {"TestGeneration", "Merge"}

(* The analysis of the attempt at hand has not been made yet. *)
AnalysisAhead ==
    \/ at = "queued"
    \/ phase = "Planning"
    \/ phase = "Analysis" /\ at \in {"enter", "run"}

(* An attempt makes one analysis at most. *)
AnalysesCounted ==
    /\ analyses <= launches * MaxAttempts
    /\ at # "idle" =>
          analyses + (IF AnalysisAhead THEN 1 ELSE 0) + MaxAttempts
              <= launches * MaxAttempts + job.attempt

(* In manual mode no phase is reached past an approval nobody gave. *)
AnswersInOrder ==
    job.manual =>
        /\ phase \in AfterAnalysis => "Analysis" \in answered
        /\ phase \in AfterDeveloper \/ "Merge" \in ran =>
              {"Analysis", "Developer"} \subseteq answered

(* The row shows a verdict only when the execution has come to one. *)
VerdictIsLast ==
    /\ at \in {"enter", "run", "mark", "gate", "wait", "finish"} =>
          row.status \notin {"completed", "failed"}
    /\ row.status = "completed" => at # "queued" /\ ex.merge = "ok"

(* The loop over the stories is before, in or behind the Developer phase. *)
StoriesBeforeMerge ==
    /\ phase \in {"Planning", "Analysis"} =>
          ex.story = 0 /\ ex.resumeFrom \in {0, row.storiesDone}
    /\ phase \in Phases \ {"Merge", "GlobalScan"} => ex.merge = "none"
    /\ \/ phase \in AfterDeveloper
       \/ phase = "Developer" /\ at \in {"mark", "gate", "wait"}
       \/ ex.merge = "ok"
       => ex.story = NumStories

(* Whatever says that the analysis is over comes after an analysis. *)
AnalysisFirst ==
    /\ row.analysis <= analyses /\ ex.analysis <= analyses
    /\ \/ AfterAnalysis \cap {phase, job.start, row.current} # {}
       \/ {"Analysis", "Developer", "Merge"} \cap row.completed # {}
       \/ phase = "Analysis" /\ at \in {"mark", "gate", "wait"}
       => analyses # 0

(* Unless analyses were mixed, the saved index and the loop count stories of
   the last analysis, and what they have behind them was worked on. *)
IndexCountsLast ==
    ~mixed => /\ row.analysis = analyses
              /\ at \notin {"idle", "queued"} => ex.analysis = row.analysis
              /\ WorkedOn(row.analysis, row.storiesDone)
              /\ WorkedOn(ex.analysis, ex.resumeFrom)
              /\ WorkedOn(ex.analysis, ex.story)

(* What every step of the worker, the routes and the human, and every crash,
   must keep for an execution to be resumed safely. *)
OrchestratorInv ==
    /\ TypeOK /\ StepOfPhase /\ AnalysesCounted /\ AnswersInOrder
    /\ VerdictIsLast /\ StoriesBeforeMerge /\ AnalysisFirst /\ IndexCountsLast

(* The execution as TaskPipeline sees it. *)
Stage ==
    CASE at \in {"idle", "queued"} -> at
      [] at = "wait" -> "waiting"
      [] at \in {"enter", "run", "mark"} /\ phase = "GlobalScan" -> "scanning"
      [] at \in {"finish", "clear", "report"} -> "reporting"
      [] OTHER -> "working"

Pipeline == INSTANCE TaskPipeline WITH
    Checkpoints <- Gated, Required <- {"Analysis", "Developer"},
    stage <- Stage, manual <- job.manual, consents <- answered,
    merged <- (ex.merge = "ok"),
    outcome <- IF row.status \in {"completed", "failed"} THEN row.status ELSE "open"

(* Every execution, resumed, retried or cut short, is one the abstract
   pipeline allows: answers before the merge, the scan after the work, and a
   verdict that says whether the merge succeeded. *)
ImplementsPipeline == Pipeline!Spec

(* Every execution comes to an end. *)
ExecutionEnds == at # "idle" ~> at = "idle"

-----------------------------------------------------------------------------
(* What the code's own words promise and the code does not keep. *)

(* "Analysis phase rejected by user", "Developer phase rejected by user",
   "Test Generation phase rejected by user": a rejection stops the task. *)
RejectStops == refused # NoPhase => NextPhase(refused) \notin ran

(* "Skip if starting from TestGeneration or later", "Only skip if starting
   from GlobalScan": no phase before startFromPhase runs. *)
StartFromRespected ==
    \A p \in ran : PhaseIndex(p) >= PhaseIndex(job.start)
=============================================================================
