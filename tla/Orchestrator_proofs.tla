------------------------ MODULE Orchestrator_proofs -------------------------
(***************************************************************************)
(* The orchestrator, for every number of stories, launches, attempts and    *)
(* crashes and every set of routes: OrchestratorInv is inductive, and the   *)
(* execution implements TaskPipeline.                                       *)
(***************************************************************************)
EXTENDS Orchestrator, TLAPS

(* The bounds are natural numbers. *)
LEMMA BoundsAreNaturals ==
    /\ NumStories \in Nat /\ NumStories > 0 /\ MaxAttempts \in Nat /\ MaxAttempts > 0
    /\ MaxLaunches \in Nat /\ MaxCrashes \in Nat /\ MaxMalformed \in Nat
    /\ DbErrors \in BOOLEAN
  BY OrchestratorConstants

(* The attempts of one more launch, and of all of them. *)
LEMMA Attempts ==
    /\ \A n \in Nat : n * MaxAttempts \in Nat
    /\ \A n \in Nat : (n + 1) * MaxAttempts = n * MaxAttempts + MaxAttempts
    /\ \A n \in 0..MaxLaunches : n * MaxAttempts <= MaxLaunches * MaxAttempts
  <1>1. MaxAttempts \in Nat /\ MaxLaunches \in Nat
    BY BoundsAreNaturals
  <1>2. \A n \in Nat : n * MaxAttempts \in Nat
    BY <1>1
  <1>3. \A n \in Nat : (n + 1) * MaxAttempts = n * MaxAttempts + MaxAttempts
    BY <1>1
  <1>4. \A n \in 0..MaxLaunches : n * MaxAttempts <= MaxLaunches * MaxAttempts
    BY <1>1
  <1> QED
    BY <1>2, <1>3, <1>4

(* The types of the columns and of the local variables. *)
LEMMA Types ==
  ASSUME TypeOK
  PROVE  /\ row.status \in Statuses /\ row.current \in Phases \cup {NoPhase}
         /\ row.completed \subseteq Phases /\ row.storiesDone \in 0..NumStories
         /\ row.analysis \in Analyses
         /\ job.start \in Phases \cup {NoPhase} /\ job.preserve \in BOOLEAN
         /\ job.manual \in BOOLEAN /\ job.attempt \in 1..MaxAttempts
         /\ ex.analysis \in Analyses /\ ex.resumeFrom \in 0..NumStories
         /\ ex.story \in 0..NumStories /\ ex.merge \in {"none", "ok", "failed"}
         /\ analyses \in Nat /\ launches \in 0..MaxLaunches
  BY Attempts, BoundsAreNaturals DEF TypeOK, Rows, Jobs, Executions, Analyses

(* A new task satisfies the invariant. *)
LEMMA InitInv == Init => OrchestratorInv
  <1> SUFFICES ASSUME Init PROVE OrchestratorInv
    OBVIOUS
  <1> USE DEF Init, NoJob, NoExecution
  <1>1. 0 \in Analyses
    BY Attempts, BoundsAreNaturals DEF Analyses
  <1>2. TypeOK
    <2>1. row \in Rows
      BY <1>1, BoundsAreNaturals DEF Rows, Statuses
    <2>2. job \in Jobs
      BY BoundsAreNaturals DEF Jobs
    <2>3. ex \in Executions
      BY <1>1, BoundsAreNaturals DEF Executions
    <2>4. at \in Steps /\ phase \in Phases \cup {NoPhase} /\ mixed \in BOOLEAN
      BY DEF Steps
    <2>5. launches \in 0..MaxLaunches /\ crashes \in 0..MaxCrashes
      BY BoundsAreNaturals
    <2> QED
      BY <1>1, <2>1, <2>2, <2>3, <2>4, <2>5 DEF TypeOK
  <1>3. StepOfPhase /\ AnswersInOrder /\ VerdictIsLast
    BY DEF StepOfPhase, AnswersInOrder, VerdictIsLast, AfterAnalysis, AfterDeveloper, NoPhase
  <1>4. AnalysesCounted
    BY Attempts DEF AnalysesCounted
  <1>5. StoriesBeforeMerge
    BY DEF StoriesBeforeMerge, AfterDeveloper, Phases, NoPhase
  <1>6. AnalysisFirst
    BY DEF AnalysisFirst, AfterAnalysis, NoPhase
  <1>7. IndexCountsLast
    BY BoundsAreNaturals DEF IndexCountsLast, WorkedOn
  <1> QED
    BY <1>2, <1>3, <1>4, <1>5, <1>6, <1>7 DEF OrchestratorInv

-----------------------------------------------------------------------------
(* The names of the phases, as the provers need them. *)
LEMMA PhaseNames ==
    /\ NoPhase \notin Phases /\ Gated \subseteq Phases
    /\ AfterAnalysis \subseteq Phases /\ AfterDeveloper \subseteq AfterAnalysis
    /\ {"Planning", "Analysis", "GlobalScan"} \cap AfterAnalysis = {}
  BY DEF Phases, NoPhase, Gated, AfterAnalysis, AfterDeveloper

(* What the launch of an execution leaves of the last one. *)
LEMMA LaunchInv ==
  ASSUME OrchestratorInv, NEW start \in Phases \cup {NoPhase}, NEW preserve \in BOOLEAN,
         NEW manual \in BOOLEAN, NEW status \in {"queued", "running"},
         Launch(start, preserve, manual, status),
         start \in AfterAnalysis => analyses # 0
  PROVE  OrchestratorInv'
  <1>1. /\ TypeOK /\ AnalysesCounted /\ AnalysisFirst /\ IndexCountsLast
    BY DEF OrchestratorInv
  <1>2. /\ at = "idle" /\ launches < MaxLaunches /\ launches' = launches + 1
        /\ job' = [start |-> start, preserve |-> preserve, manual |-> manual, attempt |-> 1]
        /\ row' = [row EXCEPT !.status = status]
        /\ at' = "queued" /\ phase' = NoPhase
        /\ ex' = NoExecution
        /\ ran' = {} /\ answered' = {} /\ refused' = NoPhase
        /\ UNCHANGED <<developed, analyses, mixed, crashes>>
    BY DEF Launch, UpdateStatus, Goto
  <1>3. /\ row' \in Rows /\ row'.status = status /\ row'.analysis = row.analysis
        /\ row'.storiesDone = row.storiesDone /\ row'.current = row.current
        /\ row'.completed = row.completed
    BY <1>1, <1>2 DEF TypeOK, Rows, Statuses
  <1>4. /\ ex' \in Executions /\ ex'.merge = "none" /\ ex'.story = 0
        /\ ex'.resumeFrom = 0 /\ ex'.analysis = 0
    BY <1>2, Attempts, BoundsAreNaturals DEF NoExecution, Executions, Analyses
  <1>5. /\ job' \in Jobs /\ job'.start = start /\ job'.attempt = 1
    BY <1>2, BoundsAreNaturals DEF Jobs
  <1>6. TypeOK'
    BY <1>1, <1>2, <1>3, <1>4, <1>5, Types, BoundsAreNaturals DEF TypeOK, Steps
  <1>7. StepOfPhase' /\ AnswersInOrder' /\ VerdictIsLast' /\ StoriesBeforeMerge'
    BY <1>2, <1>3, <1>4, PhaseNames
       DEF StepOfPhase, AnswersInOrder, VerdictIsLast, StoriesBeforeMerge
  <1>8. AnalysesCounted'
    BY <1>1, <1>2, <1>5, Attempts, Types, BoundsAreNaturals DEF AnalysesCounted, AnalysisAhead
  <1>9. AnalysisFirst'
    BY <1>1, <1>2, <1>3, <1>4, <1>5, PhaseNames, Types DEF AnalysisFirst
  <1>10. IndexCountsLast'
    BY <1>1, <1>2, <1>3, <1>4 DEF IndexCountsLast, WorkedOn
  <1> QED
    BY <1>6, <1>7, <1>8, <1>9, <1>10 DEF OrchestratorInv

(* The routes: a phase after the analysis is only asked for when the row shows
   that there was one. *)
LEMMA RouteInv == OrchestratorInv /\ RouteStep => OrchestratorInv'
  <1> SUFFICES ASSUME OrchestratorInv, RouteStep PROVE OrchestratorInv'
    OBVIOUS
  <1>1. TypeOK /\ AnalysisFirst
    BY DEF OrchestratorInv
  <1>2. ASSUME NEW manual \in BOOLEAN, Start(manual) PROVE OrchestratorInv'
    BY <1>2, LaunchInv, PhaseNames DEF Start
  <1>3. ASSUME NEW manual \in BOOLEAN, Resume(manual) PROVE OrchestratorInv'
    <2>1. ResumePhase \in Phases \cup {NoPhase}
      BY <1>1, Types DEF ResumePhase, Phases
    <2>2. ResumePhase \in AfterAnalysis => analyses # 0
      BY <1>1 DEF ResumePhase, AnalysisFirst, AfterAnalysis
    <2> QED
      BY <1>3, <2>1, <2>2, LaunchInv DEF Resume
  <1>4. ASSUME NEW p \in Phases, RetryFrom(p) PROVE OrchestratorInv'
    <2>1. p \in AfterAnalysis => analyses # 0
      BY <1>1, <1>4, Types DEF RetryFrom, AnalysisFirst, AfterAnalysis, Analyses
    <2> QED
      BY <1>4, <2>1, LaunchInv DEF RetryFrom
  <1> QED
    BY <1>2, <1>3, <1>4 DEF RouteStep

-----------------------------------------------------------------------------
(* A step that only goes on to another step of the execution. *)
LEMMA MoveInv ==
  ASSUME OrchestratorInv, NEW p \in Phases,
         LoadAnalysis \/ PhaseReturns(p) \/ PhaseFails(p) \/ DeveloperReturns
            \/ (p \in Gated /\ PassGate(p))
  PROVE  OrchestratorInv'
  <1>1. /\ TypeOK /\ StepOfPhase /\ AnalysesCounted /\ AnswersInOrder
        /\ VerdictIsLast /\ StoriesBeforeMerge /\ AnalysisFirst /\ IndexCountsLast
    BY DEF OrchestratorInv
  <1>2. UNCHANGED <<row, job, ex, ran, answered, refused, developed, analyses,
                    launches, mixed, crashes>>
    BY DEF LoadAnalysis, PhaseReturns, PhaseFails, DeveloperReturns, PassGate
  <1>3. \/ /\ at = "enter" /\ phase = "Analysis" /\ ex.analysis # 0
           /\ at' = "gate" /\ phase' = "Analysis"
        \/ /\ at = "enter" /\ phase = "Analysis"
           /\ at' = "enter" /\ phase' = "GlobalScan"
        \/ /\ at = "run" /\ phase \in {"Planning", "TestGeneration", "GlobalScan"}
           /\ at' = "mark" /\ phase' = phase
        \/ /\ at = "run" /\ phase \in Phases
           /\ at' = "enter" /\ phase' = "GlobalScan"
        \/ /\ at = "run" /\ phase = "Developer" /\ ex.story = NumStories
           /\ at' = "mark" /\ phase' = "Developer"
        \/ /\ at = "gate" /\ phase \in Gated /\ at' = "enter" /\ phase' = NextPhase(phase)
           /\ ~ job.manual \/ phase = "TestGeneration"
    BY DEF LoadAnalysis, PhaseReturns, PhaseFails, DeveloperReturns, PassGate, Goto,
           NeedsApproval
  <1>4. TypeOK'
    BY <1>1, <1>2, <1>3 DEF TypeOK, Steps, Phases, Gated, NextPhase
  <1>5. StepOfPhase'
    BY <1>3 DEF StepOfPhase, Phases, Gated, NextPhase
  <1>6. AnalysesCounted'
    BY <1>1, <1>2, <1>3, Types, Attempts, BoundsAreNaturals
       DEF AnalysesCounted, AnalysisAhead, Gated, NextPhase, Phases
  <1>7. AnswersInOrder'
    BY <1>1, <1>2, <1>3 DEF AnswersInOrder, AfterAnalysis, AfterDeveloper, NextPhase, Gated
  <1>8. VerdictIsLast'
    BY <1>1, <1>2, <1>3 DEF VerdictIsLast
  <1>9. StoriesBeforeMerge'
    BY <1>1, <1>2, <1>3
       DEF StoriesBeforeMerge, AfterDeveloper, NextPhase, Phases, Gated
  <1>10. AnalysisFirst'
    BY <1>1, <1>2, <1>3, Types DEF AnalysisFirst, AfterAnalysis, NextPhase, Gated, Analyses, Phases
  <1>11. IndexCountsLast'
    BY <1>1, <1>2, <1>3 DEF IndexCountsLast, WorkedOn
  <1> QED
    BY <1>4, <1>5, <1>6, <1>7, <1>8, <1>9, <1>10, <1>11 DEF OrchestratorInv

(* The head of execute(): the snapshot of the row. *)
LEMMA BeginInv ==
  ASSUME OrchestratorInv, Begin
  PROVE  OrchestratorInv'
  <1>1. /\ TypeOK /\ StepOfPhase /\ AnalysesCounted /\ AnswersInOrder
        /\ VerdictIsLast /\ StoriesBeforeMerge /\ AnalysisFirst /\ IndexCountsLast
    BY DEF OrchestratorInv
  <1>2. /\ at = "queued" /\ row' = [row EXCEPT !.status = "running"]
        /\ ex' = [analysis |-> row.analysis, resumeFrom |-> ResumeFromStoryIndex,
                  story |-> 0, merge |-> "none"]
        /\ ran' = {} /\ answered' = {} /\ refused' = NoPhase
        /\ at' = "enter" /\ phase' \in {"Planning", "Analysis"}
        /\ mixed' = (mixed /\ (row.storiesDone > 0 \/ row.analysis # analyses))
        /\ UNCHANGED <<job, developed, analyses, launches, crashes>>
    BY DEF Begin, UpdateTaskStatus, Goto
  <1>3. /\ row' \in Rows /\ row'.status = "running" /\ row'.analysis = row.analysis
        /\ row'.storiesDone = row.storiesDone /\ row'.current = row.current
        /\ row'.completed = row.completed
    BY <1>1, <1>2 DEF TypeOK, Rows, Statuses
  <1>4. ResumeFromStoryIndex \in {0, row.storiesDone} /\ 0 \in 0..NumStories
    BY BoundsAreNaturals DEF ResumeFromStoryIndex
  <1>5. /\ ex' \in Executions /\ ex'.merge = "none" /\ ex'.story = 0
        /\ ex'.resumeFrom \in {0, row.storiesDone} /\ ex'.analysis = row.analysis
    BY <1>1, <1>2, <1>4, Types DEF Executions
  <1>6. TypeOK'
    BY <1>1, <1>2, <1>3, <1>5 DEF TypeOK, Steps, Phases
  <1>7. StepOfPhase' /\ AnswersInOrder' /\ VerdictIsLast' /\ StoriesBeforeMerge'
    BY <1>2, <1>3, <1>5
       DEF StepOfPhase, AnswersInOrder, VerdictIsLast, StoriesBeforeMerge, AfterAnalysis,
           AfterDeveloper, Phases
  <1>8. AnalysesCounted'
    BY <1>1, <1>2, Types, Attempts, BoundsAreNaturals DEF AnalysesCounted, AnalysisAhead
  <1>9. AnalysisFirst'
    BY <1>1, <1>2, <1>3, <1>5 DEF AnalysisFirst, AfterAnalysis
  <1>10. IndexCountsLast'
    <2>1. ASSUME ~ mixed'
          PROVE  row.analysis = analyses /\ WorkedOn(row.analysis, row.storiesDone)
      <3>1. CASE ~ mixed
        BY <1>1, <3>1 DEF IndexCountsLast
      <3>2. CASE mixed
        <4>1. ~ (row.storiesDone > 0) /\ row.analysis = analyses
          BY <1>2, <2>1, <3>2
        <4>2. row.storiesDone = 0
          BY <1>1, <4>1, Types, BoundsAreNaturals
        <4> QED
          BY <4>1, <4>2 DEF WorkedOn
      <3> QED
        BY <3>1, <3>2
    <2>2. WorkedOn(row.analysis, 0)
      BY DEF WorkedOn
    <2> QED
      BY <1>2, <1>3, <1>5, <2>1, <2>2 DEF IndexCountsLast, WorkedOn
  <1> QED
    BY <1>6, <1>7, <1>8, <1>9, <1>10 DEF OrchestratorInv

(* setCurrentPhase, then the phase runs. *)
LEMMA EnterPhaseInv ==
  ASSUME OrchestratorInv, NEW p \in Phases, EnterPhase(p)
  PROVE  OrchestratorInv'
  <1>1. /\ TypeOK /\ StepOfPhase /\ AnalysesCounted /\ AnswersInOrder
        /\ VerdictIsLast /\ StoriesBeforeMerge /\ AnalysisFirst /\ IndexCountsLast
    BY DEF OrchestratorInv
  <1>2. /\ at = "enter" /\ phase = p /\ row' = [row EXCEPT !.current = p]
        /\ ran' = ran \cup {p} /\ at' = "run" /\ phase' = p
        /\ ex' = [ex EXCEPT !.story = IF p = "Developer" THEN 0 ELSE ex.story]
        /\ UNCHANGED <<job, answered, refused, developed, analyses, launches, mixed, crashes>>
    BY DEF EnterPhase, Goto
  <1>3. /\ row' \in Rows /\ row'.status = row.status /\ row'.analysis = row.analysis
        /\ row'.storiesDone = row.storiesDone /\ row'.current = p
        /\ row'.completed = row.completed
    BY <1>1, <1>2 DEF TypeOK, Rows
  <1>4. /\ ex' \in Executions /\ ex'.merge = ex.merge /\ ex'.analysis = ex.analysis
        /\ ex'.resumeFrom = ex.resumeFrom
        /\ ex'.story = IF p = "Developer" THEN 0 ELSE ex.story
    BY <1>1, <1>2, BoundsAreNaturals DEF TypeOK, Executions
  <1>5. TypeOK'
    BY <1>1, <1>2, <1>3, <1>4 DEF TypeOK, Steps
  <1>6. StepOfPhase' /\ VerdictIsLast'
    BY <1>1, <1>2, <1>3, <1>4 DEF StepOfPhase, VerdictIsLast
  <1>7. AnswersInOrder'
    BY <1>1, <1>2 DEF AnswersInOrder, AfterAnalysis, AfterDeveloper
  <1>8. StoriesBeforeMerge'
    BY <1>1, <1>2, <1>3, <1>4 DEF StoriesBeforeMerge, AfterDeveloper, Phases
  <1>9. AnalysesCounted'
    BY <1>1, <1>2, Types, Attempts, BoundsAreNaturals DEF AnalysesCounted, AnalysisAhead
  <1>10. AnalysisFirst'
    BY <1>1, <1>2, <1>3, <1>4 DEF AnalysisFirst, AfterAnalysis
  <1>11. IndexCountsLast'
    BY <1>1, <1>2, <1>3, <1>4 DEF IndexCountsLast, WorkedOn
  <1> QED
    BY <1>5, <1>6, <1>7, <1>8, <1>9, <1>10, <1>11 DEF OrchestratorInv

(* executeAnalysisPhase returns: a new analysis, saved or not. *)
LEMMA AnalysisReturnsInv ==
  ASSUME OrchestratorInv, NEW saved \in BOOLEAN, AnalysisReturns(saved)
  PROVE  OrchestratorInv'
  <1>1. /\ TypeOK /\ StepOfPhase /\ AnalysesCounted /\ AnswersInOrder
        /\ VerdictIsLast /\ StoriesBeforeMerge /\ AnalysisFirst /\ IndexCountsLast
    BY DEF OrchestratorInv
  <1>2. /\ at = "run" /\ phase = "Analysis" /\ at' = "mark" /\ phase' = "Analysis"
        /\ analyses' = analyses + 1
        /\ ex' = [ex EXCEPT !.analysis = analyses + 1]
        /\ row' = IF saved THEN [row EXCEPT !.analysis = analyses + 1] ELSE row
        /\ mixed' = (mixed \/ ~saved \/ row.storiesDone > 0)
        /\ UNCHANGED <<job, ran, answered, refused, developed, launches, crashes>>
    BY DEF AnalysisReturns, UpdateAfterAnalysis, Goto
  <1>3. AnalysesCounted' /\ analyses + 1 \in Analyses
    <2>1. AnalysesCounted' /\ analyses + 1 <= launches * MaxAttempts
      <3> DEFINE quota == launches * MaxAttempts
      <3>1. /\ quota \in Nat /\ analyses \in Nat /\ MaxAttempts \in Nat
            /\ job.attempt \in Nat /\ job.attempt <= MaxAttempts
        <4>1. /\ MaxAttempts \in Nat /\ MaxLaunches \in Nat /\ analyses \in Nat
              /\ job.attempt \in 1..MaxAttempts /\ launches \in 0..MaxLaunches
          BY <1>1, Types, BoundsAreNaturals
        <4>2. quota \in Nat
          BY <4>1, Attempts
        <4> HIDE DEF quota
        <4> QED
          BY <4>1, <4>2
      <3>2. AnalysisAhead /\ ~ AnalysisAhead'
        BY <1>2 DEF AnalysisAhead
      <3>3. analyses + 1 + MaxAttempts <= quota + job.attempt
        BY <1>1, <1>2, <3>2 DEF AnalysesCounted
      <3> HIDE DEF quota
      <3>4. analyses + 1 <= quota
        BY <3>1, <3>3
      <3>5. analyses + 1 + 0 + MaxAttempts <= quota + job.attempt
        BY <3>1, <3>3
      <3> QED
        BY <1>2, <3>2, <3>4, <3>5 DEF AnalysesCounted, quota
    <2>2. /\ launches * MaxAttempts <= MaxLaunches * MaxAttempts
          /\ launches * MaxAttempts \in Nat /\ MaxLaunches * MaxAttempts \in Nat
      BY <1>1, Types, Attempts, BoundsAreNaturals
    <2>3. analyses \in Nat
      BY <1>1, Types
    <2>4. \A a, b, c \in Nat : a + 1 <= b /\ b <= c => a + 1 \in 0..c
      OBVIOUS
    <2> QED
      BY <2>1, <2>2, <2>3, <2>4 DEF Analyses
  <1>4. /\ row' \in Rows /\ row'.status = row.status
        /\ row'.analysis = IF saved THEN analyses + 1 ELSE row.analysis
        /\ row'.storiesDone = row.storiesDone /\ row'.current = row.current
        /\ row'.completed = row.completed
    BY <1>1, <1>2, <1>3 DEF TypeOK, Rows
  <1>5. /\ ex' \in Executions /\ ex'.merge = ex.merge /\ ex'.analysis = analyses + 1
        /\ ex'.resumeFrom = ex.resumeFrom /\ ex'.story = ex.story
    BY <1>1, <1>2, <1>3 DEF TypeOK, Executions
  <1>6. TypeOK'
    BY <1>1, <1>2, <1>3, <1>4, <1>5 DEF TypeOK, Steps
  <1>7. StepOfPhase' /\ VerdictIsLast' /\ AnswersInOrder'
    BY <1>1, <1>2, <1>4, <1>5 DEF StepOfPhase, VerdictIsLast, AnswersInOrder
  <1>8. StoriesBeforeMerge'
    BY <1>1, <1>2, <1>4, <1>5 DEF StoriesBeforeMerge, AfterDeveloper
  <1>9. AnalysisFirst'
    BY <1>1, <1>2, <1>4, <1>5, Types DEF AnalysisFirst, Analyses
  <1>10. IndexCountsLast'
    <2> SUFFICES ASSUME ~ mixed'
                 PROVE  /\ row'.analysis = analyses' /\ ex'.analysis = row'.analysis
                        /\ row'.storiesDone = 0 /\ ex'.resumeFrom = 0 /\ ex'.story = 0
      BY DEF IndexCountsLast, WorkedOn
    <2>1. saved /\ ~ (row.storiesDone > 0)
      BY <1>2
    <2>2. row.storiesDone = 0
      BY <1>1, <2>1, Types, BoundsAreNaturals
    <2>3. ex.story = 0 /\ ex.resumeFrom = 0
      BY <1>1, <1>2, <2>2 DEF StoriesBeforeMerge
    <2> QED
      BY <1>2, <1>4, <1>5, <2>1, <2>2, <2>3
  <1> QED
    BY <1>3, <1>6, <1>7, <1>8, <1>9, <1>10 DEF OrchestratorInv

(* One turn of the loop over the stories: what is skipped was worked on by an
   earlier execution. *)
LEMMA StoryInv ==
  ASSUME OrchestratorInv, SkipStory \/ DevelopStory
  PROVE  OrchestratorInv'
  <1>1. /\ TypeOK /\ StepOfPhase /\ AnalysesCounted /\ AnswersInOrder
        /\ VerdictIsLast /\ StoriesBeforeMerge /\ AnalysisFirst /\ IndexCountsLast
    BY DEF OrchestratorInv
  <1>2. /\ at = "run" /\ phase = "Developer" /\ ex.story < NumStories
        /\ ex' = [ex EXCEPT !.story = ex.story + 1]
        /\ UNCHANGED <<at, phase, job, ran, answered, refused, analyses, launches,
                       mixed, crashes>>
        /\ \/ ex.story < ex.resumeFrom /\ UNCHANGED <<row, developed>>
           \/ /\ developed' = developed \cup {<<ex.analysis, ex.story>>}
              /\ row' = [row EXCEPT !.storiesDone = ex.story + 1]
    BY DEF SkipStory, DevelopStory, SetLastCompletedStoryIndex
  <1>3. /\ ex.story \in 0..(NumStories - 1) /\ ex.story + 1 \in 0..NumStories
        /\ ex.resumeFrom \in Nat /\ row.storiesDone \in Nat
    BY <1>1, <1>2, Types, BoundsAreNaturals
  <1>4. /\ row' \in Rows /\ row'.status = row.status /\ row'.analysis = row.analysis
        /\ row'.current = row.current /\ row'.completed = row.completed
        /\ row' = row \/ row'.storiesDone = ex.story + 1
    BY <1>1, <1>2, <1>3 DEF TypeOK, Rows
  <1>5. /\ ex' \in Executions /\ ex'.merge = ex.merge /\ ex'.analysis = ex.analysis
        /\ ex'.resumeFrom = ex.resumeFrom /\ ex'.story = ex.story + 1
    BY <1>1, <1>2, <1>3 DEF TypeOK, Executions
  <1>6. developed' \subseteq Analyses \X (0..NumStories - 1)
    BY <1>1, <1>2, <1>3, Types DEF TypeOK
  <1>7. TypeOK'
    BY <1>1, <1>2, <1>4, <1>5, <1>6 DEF TypeOK
  <1>8. StepOfPhase' /\ VerdictIsLast' /\ AnswersInOrder'
    BY <1>1, <1>2, <1>4, <1>5 DEF StepOfPhase, VerdictIsLast, AnswersInOrder
  <1>9. AnalysesCounted'
    BY <1>1, <1>2 DEF AnalysesCounted, AnalysisAhead
  <1>10. StoriesBeforeMerge'
    BY <1>1, <1>2, <1>4, <1>5 DEF StoriesBeforeMerge, AfterDeveloper, Phases
  <1>11. AnalysisFirst'
    BY <1>1, <1>2, <1>4, <1>5 DEF AnalysisFirst
  <1>12. IndexCountsLast'
    <2> SUFFICES ASSUME ~ mixed PROVE IndexCountsLast'
      BY <1>2 DEF IndexCountsLast
    <2>1. /\ row.analysis = analyses /\ ex.analysis = row.analysis
          /\ WorkedOn(row.analysis, row.storiesDone)
          /\ WorkedOn(ex.analysis, ex.resumeFrom) /\ WorkedOn(ex.analysis, ex.story)
      BY <1>1, <1>2 DEF IndexCountsLast
    <2>2. developed \subseteq developed'
      BY <1>2
    <2>3. ASSUME NEW i \in 0..NumStories - 1, i < ex.story + 1
          PROVE  <<ex.analysis, i>> \in developed'
      <3>1. i < ex.story \/ i = ex.story
        BY <1>3, <2>3, BoundsAreNaturals
      <3>2. CASE i < ex.story
        BY <2>1, <2>2, <3>2 DEF WorkedOn
      <3>3. CASE i = ex.story
        BY <1>2, <2>1, <2>2, <3>3 DEF WorkedOn
      <3> QED
        BY <3>1, <3>2, <3>3
    <2> QED
      BY <1>2, <1>4, <1>5, <2>1, <2>2, <2>3 DEF IndexCountsLast, WorkedOn
  <1> QED
    BY <1>7, <1>8, <1>9, <1>10, <1>11, <1>12 DEF OrchestratorInv

(* executeMergePhase returns: every story is behind the execution. *)
LEMMA MergeReturnsInv ==
  ASSUME OrchestratorInv, NEW result \in {"ok", "failed"}, MergeReturns(result)
  PROVE  OrchestratorInv'
  <1>1. /\ TypeOK /\ StepOfPhase /\ AnalysesCounted /\ AnswersInOrder
        /\ VerdictIsLast /\ StoriesBeforeMerge /\ AnalysisFirst /\ IndexCountsLast
    BY DEF OrchestratorInv
  <1>2. /\ at = "run" /\ phase = "Merge" /\ at' = "mark" /\ phase' = "Merge"
        /\ ex' = [ex EXCEPT !.merge = result]
        /\ UNCHANGED <<row, job, ran, answered, refused, developed, analyses, launches,
                       mixed, crashes>>
    BY DEF MergeReturns, Goto
  <1>3. /\ ex' \in Executions /\ ex'.merge = result /\ ex'.analysis = ex.analysis
        /\ ex'.resumeFrom = ex.resumeFrom /\ ex'.story = ex.story
    BY <1>1, <1>2 DEF TypeOK, Executions
  <1>4. TypeOK'
    BY <1>1, <1>2, <1>3 DEF TypeOK, Steps
  <1>5. StepOfPhase' /\ VerdictIsLast' /\ AnswersInOrder' /\ AnalysisFirst'
    BY <1>1, <1>2, <1>3 DEF StepOfPhase, VerdictIsLast, AnswersInOrder, AnalysisFirst
  <1>6. AnalysesCounted'
    BY <1>1, <1>2 DEF AnalysesCounted, AnalysisAhead
  <1>7. StoriesBeforeMerge'
    BY <1>1, <1>2, <1>3 DEF StoriesBeforeMerge, AfterDeveloper
  <1>8. IndexCountsLast'
    BY <1>1, <1>2, <1>3 DEF IndexCountsLast, WorkedOn
  <1> QED
    BY <1>4, <1>5, <1>6, <1>7, <1>8 DEF OrchestratorInv

(* markPhaseComplete: the phase is recorded before anything follows it. *)
LEMMA MarkInv ==
  ASSUME OrchestratorInv, NEW p \in Phases, MarkPhaseComplete(p)
  PROVE  OrchestratorInv'
  <1>1. /\ TypeOK /\ StepOfPhase /\ AnalysesCounted /\ AnswersInOrder
        /\ VerdictIsLast /\ StoriesBeforeMerge /\ AnalysisFirst /\ IndexCountsLast
    BY DEF OrchestratorInv
  <1>2. /\ at = "mark" /\ phase = p
        /\ row' = [row EXCEPT !.completed = @ \cup {p}, !.current = NoPhase]
        /\ UNCHANGED <<job, ex, ran, answered, refused, developed, analyses, launches,
                       mixed, crashes>>
    BY DEF MarkPhaseComplete
  <1>3. \/ p = "Planning" /\ at' = "enter" /\ phase' = "Analysis"
        \/ p \in Gated /\ at' = "gate" /\ phase' = p
        \/ p = "Merge" /\ at' = "enter" /\ phase' = "GlobalScan"
        \/ p = "GlobalScan" /\ at' = "finish" /\ phase' = NoPhase
    BY DEF MarkPhaseComplete, AfterMark, Goto, Phases, Gated
  <1>4. /\ row' \in Rows /\ row'.status = row.status /\ row'.analysis = row.analysis
        /\ row'.storiesDone = row.storiesDone /\ row'.current = NoPhase
        /\ row'.completed = row.completed \cup {p}
    BY <1>1, <1>2 DEF TypeOK, Rows
  <1>5. TypeOK'
    BY <1>1, <1>2, <1>3, <1>4 DEF TypeOK, Steps, Phases, Gated
  <1>6. StepOfPhase' /\ VerdictIsLast'
    BY <1>1, <1>2, <1>3, <1>4 DEF StepOfPhase, VerdictIsLast, Phases
  <1>7. AnswersInOrder'
    BY <1>1, <1>2, <1>3 DEF AnswersInOrder, AfterAnalysis, AfterDeveloper, Gated, NoPhase
  <1>8. AnalysesCounted'
    BY <1>1, <1>2, <1>3, Types, Attempts, BoundsAreNaturals
       DEF AnalysesCounted, AnalysisAhead, Gated, NoPhase
  <1>9. StoriesBeforeMerge'
    BY <1>1, <1>2, <1>3, <1>4 DEF StoriesBeforeMerge, AfterDeveloper, Phases, Gated, NoPhase
  <1>10. AnalysisFirst'
    BY <1>1, <1>2, <1>3, <1>4 DEF AnalysisFirst, AfterAnalysis, Gated, NoPhase
  <1>11. IndexCountsLast'
    BY <1>1, <1>2, <1>3, <1>4 DEF IndexCountsLast, WorkedOn
  <1> QED
    BY <1>5, <1>6, <1>7, <1>8, <1>9, <1>10, <1>11 DEF OrchestratorInv

(* The approval gates: a manual task goes past one only with an answer. *)
LEMMA ApprovalInv ==
  ASSUME OrchestratorInv, NEW p \in Gated, NEW answer \in Answers,
         AskApproval(p) \/ AnswerApproval(p, answer) \/ CancelApproval(p)
  PROVE  OrchestratorInv'
  <1>1. /\ TypeOK /\ StepOfPhase /\ AnalysesCounted /\ AnswersInOrder
        /\ VerdictIsLast /\ StoriesBeforeMerge /\ AnalysisFirst /\ IndexCountsLast
    BY DEF OrchestratorInv
  <1>2. /\ phase = p /\ at \in {"gate", "wait"}
        /\ \E s \in {"waiting_for_approval", "running", "cancelled"} :
              row' = [row EXCEPT !.status = s]
        /\ UNCHANGED <<job, ex, ran, developed, analyses, launches, mixed, crashes>>
    BY DEF AskApproval, AnswerApproval, CancelApproval, Update, UpdateStatus
  <1>3. \/ at' = "wait" /\ phase' = p /\ UNCHANGED <<answered, refused>>
        \/ /\ at' = "enter" /\ phase' = NextPhase(p)
           /\ answered' = answered \cup {p} /\ refused' \in {p, NoPhase}
        \/ at' = "enter" /\ phase' = "GlobalScan" /\ UNCHANGED <<answered, refused>>
    BY DEF AskApproval, AnswerApproval, CancelApproval, Goto, RejectedByUser
  <1>4. /\ row' \in Rows /\ row'.status \notin {"completed", "failed"}
        /\ row'.analysis = row.analysis
        /\ row'.storiesDone = row.storiesDone /\ row'.current = row.current
        /\ row'.completed = row.completed
    BY <1>1, <1>2 DEF TypeOK, Rows, Statuses
  <1>5. TypeOK'
    BY <1>1, <1>2, <1>3, <1>4 DEF TypeOK, Steps, Phases, Gated, NextPhase
  <1>6. StepOfPhase' /\ VerdictIsLast'
    BY <1>1, <1>2, <1>3, <1>4 DEF StepOfPhase, VerdictIsLast, Phases, Gated, NextPhase
  <1>7. AnswersInOrder'
    BY <1>1, <1>2, <1>3 DEF AnswersInOrder, AfterAnalysis, AfterDeveloper, Gated, NextPhase
  <1>8. AnalysesCounted'
    BY <1>1, <1>2, <1>3 DEF AnalysesCounted, AnalysisAhead, Gated, NextPhase
  <1>9. StoriesBeforeMerge'
    BY <1>1, <1>2, <1>3, <1>4 DEF StoriesBeforeMerge, AfterDeveloper, Phases, Gated, NextPhase
  <1>10. AnalysisFirst'
    BY <1>1, <1>2, <1>3, <1>4 DEF AnalysisFirst, AfterAnalysis, Gated, NextPhase
  <1>11. IndexCountsLast'
    BY <1>1, <1>2, <1>3, <1>4 DEF IndexCountsLast, WorkedOn
  <1> QED
    BY <1>5, <1>6, <1>7, <1>8, <1>9, <1>10, <1>11 DEF OrchestratorInv

(* The end of an execution: the verdict, the cleared resume state, the
   worker's own write, a throw that may lead to another attempt, a crash. *)
LEMMA EndInv ==
  ASSUME OrchestratorInv,
         Finish \/ ClearResumeState \/ Report \/ ExecuteThrows \/ CrashAndRestart
  PROVE  OrchestratorInv'
  <1>1. /\ TypeOK /\ StepOfPhase /\ AnalysesCounted /\ AnswersInOrder
        /\ VerdictIsLast /\ StoriesBeforeMerge /\ AnalysisFirst /\ IndexCountsLast
    BY DEF OrchestratorInv
  <1>2. /\ UNCHANGED <<ex, ran, answered, refused, developed, analyses, launches, mixed>>
        /\ crashes' \in 0..MaxCrashes /\ phase' = NoPhase /\ at # "idle"
    BY <1>1, BoundsAreNaturals
       DEF Finish, ClearResumeState, Report, ExecuteThrows, NextAttempt, CrashAndRestart, Goto,
           TypeOK
  <1>3. /\ row' \in Rows /\ row'.analysis = row.analysis
        /\ row'.storiesDone \in {0, row.storiesDone} /\ row'.current \in {NoPhase, row.current}
        /\ row'.completed = row.completed
    <2>1. \/ \E s \in Statuses : row' = [row EXCEPT !.status = s]
          \/ row' = [row EXCEPT !.current = NoPhase, !.storiesDone = 0]
      <3>1. CASE CrashAndRestart
        <4>1. row' = [row EXCEPT !.status = IF row.status = "running" THEN "interrupted"
                                            ELSE row.status]
          BY <3>1 DEF CrashAndRestart, RecoverStaleTasks
        <4> QED
          BY <1>1, <4>1, Types DEF Statuses
      <3>2. CASE Finish \/ Report \/ ExecuteThrows
        BY <3>2 DEF Finish, Report, ExecuteThrows, UpdateStatus, UpdateTaskStatus, Statuses
      <3>3. CASE ClearResumeState
        BY <3>3 DEF ClearResumeState
      <3> QED
        BY <3>1, <3>2, <3>3
    <2>2. row \in Rows /\ 0 \in 0..NumStories
      BY <1>1, BoundsAreNaturals DEF TypeOK
    <2> QED
      BY <2>1, <2>2 DEF Rows
  <1>4. \/ /\ at = "finish" /\ at' = "clear" /\ job' = job
           /\ row'.status = IF ex.merge = "ok" THEN "completed" ELSE "failed"
        \/ at = "clear" /\ at' = "report" /\ job' = job /\ row'.status = row.status
        \/ /\ at = "report" /\ at' = "idle" /\ job' = job
           /\ row'.status = IF ex.merge = "ok" THEN "completed" ELSE "failed"
        \/ /\ at' = "queued" /\ job' = [job EXCEPT !.attempt = @ + 1]
           /\ job.attempt < MaxAttempts /\ row'.status = "failed"
           /\ at \in {"finish", "clear"} \/ phase = "GlobalScan"
        \/ at' = "idle" /\ job' = job /\ row'.status \in {row.status, "interrupted", "failed"}
    BY <1>1
       DEF Finish, ClearResumeState, Report, ExecuteThrows, NextAttempt, CrashAndRestart, Goto,
           UpdateStatus, UpdateTaskStatus, RecoverStaleTasks, TypeOK, Rows
  <1>5. /\ job' \in Jobs /\ job'.manual = job.manual /\ job'.start = job.start
        /\ at' # "queued" => job' = job
        /\ at' = "queued" => job'.attempt = job.attempt + 1
    BY <1>1, <1>4, BoundsAreNaturals DEF TypeOK, Jobs
  <1>6. TypeOK'
    BY <1>1, <1>2, <1>3, <1>4, <1>5 DEF TypeOK, Steps
  <1>7. StepOfPhase' /\ VerdictIsLast'
    BY <1>1, <1>2, <1>4 DEF StepOfPhase, VerdictIsLast
  <1>8. AnswersInOrder'
    BY <1>1, <1>2, <1>5, PhaseNames DEF AnswersInOrder
  <1>9. AnalysesCounted'
    <2> DEFINE quota == launches * MaxAttempts
    <2>1. /\ quota \in Nat /\ analyses \in Nat /\ MaxAttempts \in Nat /\ job.attempt \in Nat
      BY <1>1, Types, Attempts, BoundsAreNaturals
    <2>2. /\ analyses <= quota
          /\ analyses + (IF AnalysisAhead THEN 1 ELSE 0) + MaxAttempts <= quota + job.attempt
      BY <1>1, <1>2 DEF AnalysesCounted
    <2> HIDE DEF quota
    <2>3. analyses + 0 + MaxAttempts <= quota + job.attempt
      BY <2>1, <2>2
    <2>4. CASE at' = "queued"
      <3>1. analyses + 1 + MaxAttempts <= quota + job'.attempt
        BY <1>5, <2>1, <2>3, <2>4
      <3>2. AnalysisAhead'
        BY <2>4 DEF AnalysisAhead
      <3> QED
        BY <1>2, <2>2, <3>1, <3>2 DEF AnalysesCounted, quota
    <2>5. CASE at' # "queued"
      <3>1. ~ AnalysisAhead' /\ job' = job
        BY <1>2, <1>5, <2>5 DEF AnalysisAhead, NoPhase
      <3> QED
        BY <1>2, <2>2, <2>3, <3>1 DEF AnalysesCounted, quota
    <2> QED
      BY <2>4, <2>5
  <1>10. StoriesBeforeMerge'
    BY <1>1, <1>2 DEF StoriesBeforeMerge, AfterDeveloper, Phases, NoPhase
  <1>11. AnalysisFirst'
    BY <1>1, <1>2, <1>3, <1>5 DEF AnalysisFirst, AfterAnalysis, NoPhase
  <1>12. IndexCountsLast'
    <2>1. at \in {"idle", "queued"} => at' \in {"idle", "queued"}
      BY <1>1, <1>4, PhaseNames DEF StepOfPhase
    <2>2. WorkedOn(row.analysis, 0)
      BY DEF WorkedOn
    <2> QED
      BY <1>1, <1>2, <1>3, <2>1, <2>2 DEF IndexCountsLast, WorkedOn
  <1> QED
    BY <1>6, <1>7, <1>8, <1>9, <1>10, <1>11, <1>12 DEF OrchestratorInv

(* Every step of the routes, the worker and the human, and every crash, keeps
   the invariant. *)
LEMMA StepInv == OrchestratorInv /\ [Next]_vars => OrchestratorInv'
  <1> SUFFICES ASSUME OrchestratorInv, [Next]_vars PROVE OrchestratorInv'
    OBVIOUS
  <1>1. CASE RouteStep
    BY <1>1, RouteInv
  <1>2. CASE WorkerStep
    <2>1. CASE Begin
      BY <2>1, BeginInv
    <2>2. ASSUME NEW p \in Phases,
                 LoadAnalysis \/ EnterPhase(p) \/ PhaseReturns(p) \/ PhaseFails(p)
                    \/ MarkPhaseComplete(p) \/ DeveloperReturns
          PROVE  OrchestratorInv'
      BY <2>2, MoveInv, EnterPhaseInv, MarkInv
    <2>3. ASSUME NEW saved \in BOOLEAN, AnalysisReturns(saved) PROVE OrchestratorInv'
      BY <2>3, AnalysisReturnsInv
    <2>4. CASE SkipStory \/ DevelopStory
      BY <2>4, StoryInv
    <2>5. ASSUME NEW result \in {"ok", "failed"}, MergeReturns(result) PROVE OrchestratorInv'
      BY <2>5, MergeReturnsInv
    <2>6. ASSUME NEW p \in Gated, PassGate(p) \/ AskApproval(p) PROVE OrchestratorInv'
      <3>1. p \in Phases /\ "approve" \in Answers
        BY <2>6, PhaseNames DEF Answers
      <3> QED
        BY <2>6, <3>1, MoveInv, ApprovalInv
    <2>7. CASE Finish \/ ClearResumeState \/ Report \/ ExecuteThrows
      BY <2>7, EndInv
    <2>8. "Planning" \in Phases
      BY DEF Phases
    <2> QED
      BY <1>2, <2>1, <2>2, <2>3, <2>4, <2>5, <2>6, <2>7, <2>8 DEF WorkerStep
  <1>3. CASE HumanStep
    <2>1. "approve" \in Answers
      BY DEF Answers
    <2> QED
      BY <1>3, <2>1, ApprovalInv DEF HumanStep
  <1>4. CASE CrashAndRestart
    BY <1>4, EndInv
  <1>5. CASE UNCHANGED vars
    <2>1. UNCHANGED <<row, at, phase, job, ex, ran, answered, refused, developed,
                      analyses, launches, mixed, crashes>>
      BY <1>5 DEF vars
    <2> QED
      BY <2>1 DEF OrchestratorInv, TypeOK, StepOfPhase, AnalysesCounted, AnalysisAhead,
                  AnswersInOrder, VerdictIsLast, StoriesBeforeMerge, AnalysisFirst,
                  IndexCountsLast, WorkedOn
  <1> QED
    BY <1>1, <1>2, <1>3, <1>4, <1>5 DEF Next

(* The invariant of the orchestrator: types, order of the phases, answers and
   verdicts, and what the persisted story index counts, across crashes,
   resumes, launches from the middle and retried attempts. *)
THEOREM OrchestratorIsConsistent == Spec => []OrchestratorInv
  BY InitInv, StepInv, PTL DEF Spec

(* No crash, resume or launch from the middle loses a story: when the
   Developer phase is over, and when the task is completed, every story of
   the analysis was worked on, unless analyses were mixed. *)
THEOREM NoStoryIsLost == Spec => []NoStoryLost
  <1>1. OrchestratorInv => NoStoryLost
    <2> SUFFICES ASSUME OrchestratorInv, ~ mixed
                 PROVE  /\ NoStorySkipped
                        /\ row.status = "completed" => WorkedOn(ex.analysis, NumStories)
      BY DEF NoStoryLost
    <2>1. WorkedOn(ex.analysis, ex.story)
      BY DEF OrchestratorInv, IndexCountsLast
    <2>2. row.status = "completed" => ex.story = NumStories
      BY DEF OrchestratorInv, VerdictIsLast, StoriesBeforeMerge
    <2> QED
      BY <2>1, <2>2 DEF NoStorySkipped
  <1> QED
    BY <1>1, OrchestratorIsConsistent, PTL

(* A launch that continues behind the analysis finds one in the row, wherever
   the crash before it fell. *)
THEOREM ResumeAlwaysFindsAnalysis == Spec => []ResumeFindsAnalysis
  <1>1. OrchestratorInv => ResumeFindsAnalysis
    <2> SUFFICES ASSUME OrchestratorInv, at = "enter", phase = "Analysis", LoadsPreserved,
                        ~ mixed, job.start # "GlobalScan"
                 PROVE  ex.analysis # 0
      BY DEF ResumeFindsAnalysis
    <2>1. job.start \in Phases \cup {NoPhase}
      BY Types DEF OrchestratorInv
    <2>2. PhaseIndex("Analysis") = 1
      BY DEF PhaseIndex, NoPhase
    <2>3. PhaseIndex(job.start) > 1
      BY <2>2 DEF LoadsPreserved, Skips, DoneByName
    <2>4. job.start \in AfterAnalysis
      BY <2>1, <2>3 DEF PhaseIndex, AfterAnalysis, Phases, NoPhase
    <2> QED
      BY <2>4 DEF OrchestratorInv, AnalysisFirst, IndexCountsLast
  <1> QED
    BY <1>1, OrchestratorIsConsistent, PTL

(* A manual task merges nothing before a human has answered for the analysis
   and for the code in the same execution. *)
THEOREM MergeIsAlwaysAnswered == Spec => []MergeIsAnswered
  <1>1. OrchestratorInv => MergeIsAnswered
    BY DEF OrchestratorInv, AnswersInOrder, MergeIsAnswered
  <1> QED
    BY <1>1, OrchestratorIsConsistent, PTL

-----------------------------------------------------------------------------
(* Refinement. *)

(* A new task is a pipeline nobody has started. *)
LEMMA InitMaps == Init => Pipeline!Init
  BY DEF Init, Pipeline!Init, Stage, NoJob, NoExecution

(* The stage of a step of execute(). *)
LEMMA Stages ==
  /\ at \in {"idle", "queued"} => Stage = at
  /\ at = "wait" => Stage = "waiting"
  /\ at = "gate" => Stage = "working"
  /\ at \in {"enter", "run", "mark"} =>
        Stage = IF phase = "GlobalScan" THEN "scanning" ELSE "working"
  /\ at \in {"finish", "clear", "report"} => Stage = "reporting"
  BY DEF Stage

(* The same of the step that follows. *)
LEMMA StagesAfter ==
  /\ at' \in {"idle", "queued"} => Stage' = at'
  /\ at' = "wait" => Stage' = "waiting"
  /\ at' = "gate" => Stage' = "working"
  /\ at' \in {"enter", "run", "mark"} =>
        Stage' = IF phase' = "GlobalScan" THEN "scanning" ELSE "working"
  /\ at' \in {"finish", "clear", "report"} => Stage' = "reporting"
  BY DEF Stage

(* The routes accept an execution. *)
LEMMA RouteMaps ==
  ASSUME OrchestratorInv, RouteStep
  PROVE  Pipeline!Accept
  <1>1. ASSUME NEW start, NEW preserve, NEW manual \in BOOLEAN,
               NEW status \in {"queued", "running"},
               Launch(start, preserve, manual, status)
        PROVE  Pipeline!Accept
    <2>1. /\ at = "idle" /\ at' = "queued" /\ job'.manual = manual
          /\ answered' = {} /\ ex'.merge = "none"
      BY <1>1 DEF Launch, Goto, NoExecution
    <2>2. row'.status = status
      BY <1>1 DEF Launch, UpdateStatus, OrchestratorInv, TypeOK, Rows
    <2> QED
      BY <1>1, <2>1, <2>2, Stages, StagesAfter DEF Pipeline!Accept, Pipeline!Move
  <1>2. ASSUME NEW manual \in BOOLEAN, Start(manual) \/ Resume(manual)
        PROVE  Pipeline!Accept
    BY <1>1, <1>2 DEF Start, Resume
  <1>3. ASSUME NEW p \in Phases, RetryFrom(p)
        PROVE  Pipeline!Accept
    BY <1>1, <1>3 DEF RetryFrom
  <1> QED
    BY <1>2, <1>3 DEF RouteStep

(* Steps of the worker that the pipeline does not see, or that end its work. *)
LEMMA WorkMaps ==
  ASSUME OrchestratorInv, NEW p \in Phases,
         LoadAnalysis \/ EnterPhase(p) \/ PhaseReturns(p) \/ PhaseFails(p)
            \/ MarkPhaseComplete(p) \/ DeveloperReturns \/ SkipStory \/ DevelopStory
            \/ (\E saved \in BOOLEAN : AnalysisReturns(saved))
            \/ (p \in Gated /\ PassGate(p))
  PROVE  Pipeline!Scan \/ Pipeline!Scanned \/ UNCHANGED Pipeline!vars
  <1>1. TypeOK /\ StepOfPhase
    BY DEF OrchestratorInv
  <1>2. /\ job' = job /\ answered' = answered
        /\ row'.status = row.status /\ ex'.merge = ex.merge
    BY <1>1 DEF LoadAnalysis, EnterPhase, PhaseReturns, PhaseFails, MarkPhaseComplete,
           DeveloperReturns, SkipStory, DevelopStory, AnalysisReturns, PassGate,
           UpdateAfterAnalysis, SetLastCompletedStoryIndex, TypeOK, Rows, Executions
  <1>3. /\ at \in {"enter", "run", "mark", "gate"}
        /\ at' \in {"enter", "run", "mark", "gate", "finish"}
        /\ at' = "finish" => at = "mark" /\ phase = "GlobalScan"
        /\ at # "gate" /\ phase = "GlobalScan" =>
              at' = "finish" \/ (at' \in {"enter", "run", "mark"} /\ phase' = "GlobalScan")
    BY DEF LoadAnalysis, EnterPhase, PhaseReturns, PhaseFails, MarkPhaseComplete, AfterMark,
           DeveloperReturns, SkipStory, DevelopStory, AnalysisReturns, PassGate, Goto,
           Gated, Phases
  <1>4. \/ Stage = "working" /\ Stage' = "scanning"
        \/ Stage = "scanning" /\ Stage' = "reporting"
        \/ Stage' = Stage
    BY <1>1, <1>3, Stages, StagesAfter DEF StepOfPhase, Gated
  <1> QED
    BY <1>2, <1>4 DEF Pipeline!Scan, Pipeline!Scanned, Pipeline!Move, Pipeline!vars

(* The head of execute() is the pipeline's beginning. *)
LEMMA BeginMaps ==
  ASSUME OrchestratorInv, Begin
  PROVE  Pipeline!Begin
  <1>1. /\ at = "queued" /\ at' = "enter" /\ phase' \in {"Planning", "Analysis"}
        /\ job' = job /\ answered' = {} /\ ex'.merge = "none"
    BY DEF Begin, Goto
  <1>2. row'.status = "running"
    BY DEF Begin, UpdateTaskStatus, OrchestratorInv, TypeOK, Rows
  <1> QED
    BY <1>1, <1>2, Stages, StagesAfter DEF Pipeline!Begin, Pipeline!Move

(* executeMergePhase is entered with the answers the pipeline requires. *)
LEMMA MergeMaps ==
  ASSUME OrchestratorInv, NEW result \in {"ok", "failed"}, MergeReturns(result)
  PROVE  Pipeline!Merge
  <1>1. /\ at = "run" /\ phase = "Merge" /\ at' = "mark" /\ phase' = "Merge"
        /\ UNCHANGED <<row, job, answered>>
    BY DEF MergeReturns, Goto
  <1>2. job.manual => {"Analysis", "Developer"} \subseteq answered
    BY <1>1 DEF OrchestratorInv, AnswersInOrder, AfterDeveloper
  <1> QED
    BY <1>1, <1>2, Stages, StagesAfter DEF Pipeline!Merge, Pipeline!Move

(* The gates: a human is asked, answers or cancels. *)
LEMMA GateMaps ==
  ASSUME OrchestratorInv, NEW p \in Gated, NEW answer \in Answers,
         AskApproval(p) \/ AnswerApproval(p, answer) \/ CancelApproval(p)
  PROVE  Pipeline!Ask \/ Pipeline!Cancel \/ \E c \in Gated : Pipeline!Answer(c)
  <1>1. /\ job' = job /\ ex' = ex
        /\ row'.status \notin {"completed", "failed"}
        /\ row.status \notin {"completed", "failed"}
    BY DEF AskApproval, AnswerApproval, CancelApproval, Update, UpdateStatus,
           OrchestratorInv, TypeOK, Rows, VerdictIsLast
  <1>2. CASE AskApproval(p)
    <2>1. /\ at = "gate" /\ at' = "wait" /\ job.manual /\ answered' = answered
      BY <1>2 DEF AskApproval, Goto, NeedsApproval
    <2> QED
      BY <1>1, <2>1, Stages, StagesAfter DEF Pipeline!Ask, Pipeline!Move
  <1>3. CASE AnswerApproval(p, answer)
    <2>1. /\ at = "wait" /\ at' = "enter" /\ phase' = NextPhase(p)
          /\ answered' = answered \cup {p}
      BY <1>3 DEF AnswerApproval, Goto, RejectedByUser
    <2>2. NextPhase(p) # "GlobalScan"
      BY DEF NextPhase, Gated
    <2> QED
      BY <1>1, <2>1, <2>2, Stages, StagesAfter DEF Pipeline!Answer, Pipeline!Move
  <1>4. CASE CancelApproval(p)
    <2>1. /\ at = "wait" /\ at' = "enter" /\ phase' = "GlobalScan" /\ answered' = answered
      BY <1>4 DEF CancelApproval, Goto
    <2> QED
      BY <1>1, <2>1, Stages, StagesAfter DEF Pipeline!Cancel, Pipeline!Move
  <1> QED
    BY <1>2, <1>3, <1>4

(* The end of an execution. *)
LEMMA EndMaps ==
  ASSUME OrchestratorInv,
         Finish \/ ClearResumeState \/ Report \/ ExecuteThrows \/ CrashAndRestart
  PROVE  Pipeline!Report \/ Pipeline!Throw \/ Pipeline!Restart \/ UNCHANGED Pipeline!vars
  <1>1. row \in Rows /\ job \in Jobs /\ StepOfPhase
    BY DEF OrchestratorInv, TypeOK
  <1>2. CASE Finish \/ Report
    <2>1. /\ at \in {"finish", "report"} /\ at' \in {"clear", "idle"}
          /\ UNCHANGED <<job, ex, answered>>
          /\ row'.status = IF ex.merge = "ok" THEN "completed" ELSE "failed"
      BY <1>1, <1>2 DEF Finish, Report, Goto, UpdateStatus, UpdateTaskStatus, Rows
    <2> QED
      BY <2>1, Stages, StagesAfter DEF Pipeline!Report, Pipeline!Verdict
  <1>3. CASE ClearResumeState
    <2>1. /\ at = "clear" /\ at' = "report" /\ UNCHANGED <<job, ex, answered>>
          /\ row'.status = row.status
      BY <1>1, <1>3 DEF ClearResumeState, Goto, Rows
    <2> QED
      BY <2>1, Stages, StagesAfter DEF Pipeline!vars
  <1>4. CASE ExecuteThrows
    <2>1. /\ at \in {"finish", "clear"} \/ (at \in {"enter", "mark"} /\ phase = "GlobalScan")
          /\ at' \in {"queued", "idle"} /\ UNCHANGED <<ex, answered>>
          /\ job'.manual = job.manual /\ row'.status = "failed"
      BY <1>1, <1>4 DEF ExecuteThrows, NextAttempt, Goto, UpdateTaskStatus, Rows, Jobs
    <2> QED
      BY <2>1, Stages, StagesAfter DEF Pipeline!Throw
  <1>5. CASE CrashAndRestart
    <2>1. /\ at # "idle" /\ at' = "idle" /\ UNCHANGED <<job, ex, answered>>
          /\ row' = [row EXCEPT !.status = IF row.status = "running" THEN "interrupted"
                                            ELSE row.status]
      BY <1>5 DEF CrashAndRestart, Goto, RecoverStaleTasks
    <2>2. \/ row'.status = row.status
          \/ row.status = "running" /\ row'.status = "interrupted"
      BY <1>1, <2>1 DEF Rows
    <2>3. Stage # "idle"
      BY <2>1 DEF Stage
    <2> QED
      BY <2>1, <2>2, <2>3, StagesAfter DEF Pipeline!Restart
  <1> QED
    BY <1>2, <1>3, <1>4, <1>5

(* Every execution, resumed, retried or cut short, is one the abstract
   pipeline allows: answers before the merge, the scan after the work, and a
   verdict that says whether the merge succeeded. *)
THEOREM OrchestratorImplementsPipeline == Spec => ImplementsPipeline
  <1>1. OrchestratorInv /\ [Next]_vars => [Pipeline!Next]_(Pipeline!vars)
    <2> SUFFICES ASSUME OrchestratorInv, [Next]_vars
                 PROVE  Pipeline!Next \/ UNCHANGED Pipeline!vars
      OBVIOUS
    <2>1. CASE RouteStep
      BY <2>1, RouteMaps DEF Pipeline!Next
    <2>2. CASE WorkerStep
      <3>1. CASE Begin
        BY <3>1, BeginMaps DEF Pipeline!Next
      <3>2. ASSUME NEW p \in Phases,
                   LoadAnalysis \/ EnterPhase(p) \/ PhaseReturns(p) \/ PhaseFails(p)
                      \/ MarkPhaseComplete(p) \/ DeveloperReturns \/ SkipStory \/ DevelopStory
                      \/ (\E saved \in BOOLEAN : AnalysisReturns(saved))
                      \/ (p \in Gated /\ PassGate(p))
            PROVE  Pipeline!Next \/ UNCHANGED Pipeline!vars
        BY <3>2, WorkMaps DEF Pipeline!Next
      <3>3. ASSUME NEW result \in {"ok", "failed"}, MergeReturns(result)
            PROVE  Pipeline!Next
        BY <3>3, MergeMaps DEF Pipeline!Next
      <3>4. ASSUME NEW p \in Gated, AskApproval(p)
            PROVE  Pipeline!Next
        <4>1. "approve" \in Answers
          BY DEF Answers
        <4> QED
          BY <3>4, <4>1, GateMaps DEF Pipeline!Next
      <3>5. CASE Finish \/ ClearResumeState \/ Report \/ ExecuteThrows
        BY <3>5, EndMaps DEF Pipeline!Next
      <3>6. "Planning" \in Phases /\ Gated \subseteq Phases
        BY DEF Phases, Gated
      <3> QED
        BY <2>2, <3>1, <3>2, <3>3, <3>4, <3>5, <3>6 DEF WorkerStep
    <2>3. CASE HumanStep
      <3>1. "approve" \in Answers
        BY DEF Answers
      <3> QED
        BY <2>3, <3>1, GateMaps DEF HumanStep, Pipeline!Next
    <2>4. CASE CrashAndRestart
      BY <2>4, EndMaps DEF Pipeline!Next
    <2>5. CASE UNCHANGED vars
      <3>1. UNCHANGED <<row, at, phase, job, ex, answered>>
        BY <2>5 DEF vars
      <3> QED
        BY <3>1 DEF Pipeline!vars, Stage
    <2> QED
      BY <2>1, <2>2, <2>3, <2>4, <2>5 DEF Next
  <1> QED
    BY <1>1, InitMaps, OrchestratorIsConsistent, PTL DEF Spec, Pipeline!Spec, ImplementsPipeline
=============================================================================
