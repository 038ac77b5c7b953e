------------------------------ MODULE Authoring ------------------------------
(***************************************************************************)
(* The phases in which agents write on the human's behalf and judge each    *)
(* other: ProductPlanningPhase, AnalysisPhaseV2 and TestGenerationPhase, in *)
(* the order OrchestratorV2.execute runs them (the Developer phase between  *)
(* the last two has its own module).                                        *)
(*                                                                         *)
(* Each phase talks to one OpenCode session, one role at a time: it sends a *)
(* prompt, waits until the session is idle and reads the role's reply from  *)
(* the texts of the WHOLE session.  Planning and Analysis take the last     *)
(* text, so a role that writes none is read through an earlier role.        *)
(* TestGeneration joins all texts and takes the first JSON block, so its    *)
(* later roles are read through the first that wrote one.  A text is        *)
(* abstracted to who wrote it, in which iteration, whether its JSON is in a *)
(* code block, and which of the outcomes the reader tells apart it holds.   *)
(***************************************************************************)
EXTENDS Naturals

CONSTANTS
    MaxIterations,  \* maxIterations, maxJudgeIterations
    Faults          \* BOOLEAN: may an awaited call (server, database, git) fail?

ASSUME AuthoringConstants ==
    /\ MaxIterations \in Nat \ {0}
    /\ Faults \in BOOLEAN

Phases == {"Planning", "Analysis", "TestGeneration"}

VARIABLES
    phase,      \* the phase that runs
    at,         \* the step the phase is at
    role,       \* the agent it talks to, or what it asks the human
    manual,     \* phaseApprovalMode is manual (autoApprove is its negation)
    text,       \* the text of the session that is read
    iter,       \* iterations, judgeIteration, iteration
    plan,       \* Planning: which results parsed
    analysis,   \* Analysis: analysisData, parsedStories and the verdict
    tests,      \* TestGeneration: testsGenerated, testsPassed, fixAttempts
    saved,      \* iteration of the stories updateAfterAnalysis wrote, 0 if none
    working,    \* phases whose agent works on a prompt
    registered, \* phases whose session is registered at the event bridge
    active,     \* phases whose session row has status active
    unread,     \* <<role, iteration>> of this phase whose reply has no JSON to read
    halted,     \* phases whose result a human rejected or cancelled
    abortFailed \* an abort of a session failed

vars == <<phase, at, role, manual, text, iter, plan, analysis, tests, saved,
          working, registered, active, unread, halted, abortFailed>>

-----------------------------------------------------------------------------
(* The replies the prompts ask for, by what their reader tells apart. *)

(* Planning: "simple" and "complex"; questions or none; answers to one's own
   questions. *)
QuestionReplies(r) ==
    CASE r = "ASSESSOR" -> {"simple", "complex"}
      [] r = "CLARIFIER" -> {"questions", "none"}
      [] r = "SELF_ANSWERER" -> {"answers"}

(* Analysis asks and answers questions of its own. *)
ClarifierReplies(r) ==
    CASE r = "CLARIFIER" -> {"questions", "none"}
      [] r = "SELF_ANSWERER" -> {"answers"}

DesignReplies(r) ==
    CASE r = "UX" -> {"flows"}
      [] r = "PLANNER" -> {"tasks"}
      [] r = "ENRICHER" -> {"prompt"}

(* Planning's judge: approved (or a score of 80), rejected, or a revision
   with or without issues; its fixer may return any part of the plan. *)
PlanJudgeReplies(r) ==
    CASE r = "JUDGE" -> {"approved", "rejected", "issues", "noIssues"}
      [] r = "FIXER" -> {"prompt", "tasks", "flows"}

(* The analyst's JSON: complete, without its "analysis" key, or with an empty
   list of stories. *)
AnalystReplies == {"full", "bare", "empty"}

(* Analysis' judge: approved, a revision with issues, or one without and a
   score of at least 50 or below; the spy's findings. *)
ReviewReplies(r) ==
    CASE r = "JUDGE" -> {"approved", "issues", "highScore", "lowScore"}
      [] r = "SPY" -> {"findings", "safe"}

TestReplies(r) ==
    CASE r = "TEST_ANALYST" -> {"gaps", "nothing"}
      [] r = "GENERATOR" -> {"tests", "noTests"}
      [] r = "RUNNER" -> {"pass", "fail"}
      [] r = "TEST_FIXER" -> {"fixes"}

Replies(r) ==
    CASE phase = "Analysis" /\ r \in {"CLARIFIER", "SELF_ANSWERER"} -> ClarifierReplies(r)
      [] phase = "Planning" /\ r \in {"ASSESSOR", "CLARIFIER", "SELF_ANSWERER"} ->
            QuestionReplies(r)
      [] r \in {"UX", "PLANNER", "ENRICHER"} -> DesignReplies(r)
      [] r = "FIXER" \/ (r = "JUDGE" /\ phase = "Planning") -> PlanJudgeReplies(r)
      [] r = "ANALYST" -> AnalystReplies
      [] r = "SPY" \/ (r = "JUDGE" /\ phase = "Analysis") -> ReviewReplies(r)
      [] OTHER -> TestReplies(r)

Asked == UNION {QuestionReplies(r) : r \in {"ASSESSOR", "CLARIFIER", "SELF_ANSWERER"}}
    \cup UNION {DesignReplies(r) : r \in {"UX", "PLANNER", "ENRICHER"}}
    \cup UNION {PlanJudgeReplies(r) : r \in {"JUDGE", "FIXER"}}
    \cup AnalystReplies
    \cup UNION {ReviewReplies(r) : r \in {"JUDGE", "SPY"}}
    \cup UNION {TestReplies(r) : r \in {"TEST_ANALYST", "GENERATOR", "RUNNER", "TEST_FIXER"}}
Texts == Asked \cup {"garbled", "silent"}

AgentRoles == {"ASSESSOR", "CLARIFIER", "SELF_ANSWERER", "UX", "PLANNER", "ENRICHER",
               "JUDGE", "FIXER", "ANALYST", "SPY", "TEST_ANALYST", "GENERATOR",
               "RUNNER", "TEST_FIXER"}
Questions == {"clarification", "plan", "tests", "gate"}
NoRole == "none"
NoText == [by |-> NoRole, says |-> "garbled", iter |-> 0, fenced |-> FALSE]

(* extractFinalOutput of Planning and Analysis: the last text that is not
   empty. *)
LastText(reply) == IF reply.says = "silent" THEN text ELSE reply

(* extractFinalOutput and extractJsonFromOutput of TestGeneration: of all texts
   of the session, the first code block; if there is none or it does not parse,
   the first object without one. *)
FirstBlock(reply) ==
    CASE text.fenced \/ reply.says = "silent" -> text
      [] ~text.fenced /\ reply.says = "garbled" -> [text EXCEPT !.fenced = reply.fenced]
      [] ~text.fenced /\ reply.says \notin {"garbled", "silent"} ->
            IF reply.fenced \/ text = NoText THEN reply ELSE text

(* What the reader of role r makes of the text it gets: "null" without
   JSON, "foreign" when the JSON is another role's, whose keys are absent. *)
Reads(r) ==
    CASE text.says = "garbled" -> "null"
      [] text.says # "garbled" /\ text.by = r -> text.says
      [] OTHER -> "foreign"

-----------------------------------------------------------------------------
NoPlan == [ux |-> FALSE, breakdown |-> FALSE]
NoAnalysis == [data |-> FALSE, stories |-> "none", from |-> 0, verdict |-> "none",
               verdictFrom |-> 0, findings |-> 0, approved |-> FALSE]
NoTests == [generated |-> FALSE, passed |-> FALSE, attempts |-> 0, lastRun |-> "none"]

SessionText == [by : AgentRoles \cup {NoRole}, says : Texts, iter : 0..MaxIterations,
                fenced : BOOLEAN]
AnalysisResult == [data : BOOLEAN, stories : {"none", "empty", "some"},
                   from : 0..MaxIterations, verdict : ReviewReplies("JUDGE") \cup {"none"},
                   verdictFrom : 0..MaxIterations, findings : 0..MaxIterations,
                   approved : BOOLEAN]
TestResult == [generated : BOOLEAN, passed : BOOLEAN, attempts : 0..(MaxIterations - 1),
               lastRun : TestReplies("RUNNER") \cup {"none"}]

TypeOK ==
    /\ phase \in Phases
    /\ at \in {"open", "branch", "ask", "await", "read", "human", "abort", "catch",
               "lastFix", "commit", "save", "developer", "merge", "stopped"}
    /\ role \in AgentRoles \cup Questions \cup {"refused", NoRole}
    /\ manual \in BOOLEAN
    /\ text \in SessionText
    /\ iter \in 0..MaxIterations
    /\ plan \in [ux : BOOLEAN, breakdown : BOOLEAN]
    /\ analysis \in AnalysisResult /\ tests \in TestResult
    /\ saved \in 0..MaxIterations
    /\ working \cup registered \cup active \cup halted \subseteq Phases
    /\ unread \subseteq AgentRoles \X (0..MaxIterations)
    /\ abortFailed \in BOOLEAN

Init ==
    /\ phase = "Planning" /\ at = "open" /\ role = NoRole
    /\ manual \in BOOLEAN
    /\ text = NoText /\ iter = 0
    /\ plan = NoPlan /\ analysis = NoAnalysis /\ tests = NoTests
    /\ saved = 0
    /\ working = {} /\ registered = {} /\ active = {}
    /\ unread = {} /\ halted = {} /\ abortFailed = FALSE

results == <<plan, analysis, tests, saved>>
sessions == <<working, registered, active>>
history == <<unread, halted, abortFailed>>

Goto(step, r) == at' = step /\ role' = r

(* Planning and TestGeneration catch what they await; out of Analysis it
   reaches the catch of execute(). *)
Throws(p) == IF p = "Analysis" THEN "stopped" ELSE "catch"

-----------------------------------------------------------------------------
(* A session and its turns. *)

FirstRole ==
    CASE phase = "Planning" -> "ASSESSOR"
      [] phase = "Analysis" -> "CLARIFIER"
      [] phase = "TestGeneration" -> "TEST_ANALYST"

(* SessionRepository.create: a row with status active. *)
CreateSessionRow == active' = active \cup {phase}

(* createSession, registerSession, and the row. *)
OpenSession ==
    /\ at = "open"
    /\ registered' = registered \cup {phase}
    /\ CreateSessionRow
    /\ text' = NoText /\ iter' = 0 /\ unread' = {}
    /\ Goto("ask", FirstRole)
    /\ UNCHANGED <<phase, manual, results, working, halted, abortFailed>>

(* No session, or one that is registered and has no row. *)
OpenFails ==
    /\ Faults
    /\ at = "open"
    /\ registered' \in {registered, registered \cup {phase}}
    /\ Goto(Throws(phase), NoRole)
    /\ UNCHANGED <<phase, manual, text, iter, results, working, active, history>>

(* setCurrentStep, sendPrompt; waitForIdle follows. *)
SendPrompt ==
    /\ at = "ask"
    /\ working' = working \cup {phase}
    /\ Goto("await", role)
    /\ UNCHANGED <<phase, manual, text, iter, results, registered, active, history>>

(* The agent ends its turn, with a reply as asked for, with a text without
   JSON, or with no text at all.  Only TestGeneration tells code blocks apart. *)
AgentReplies(says, fenced) ==
    /\ at = "await" /\ phase \in working
    /\ says \in Replies(role) \cup {"garbled", "silent"}
    /\ fenced => phase = "TestGeneration" /\ says # "silent"
    /\ working' = working \ {phase}
    /\ LET reply == [by |-> role, says |-> says, iter |-> iter, fenced |-> fenced]
       IN text' = IF phase = "TestGeneration" THEN FirstBlock(reply) ELSE LastText(reply)
    /\ unread' = IF says \in {"garbled", "silent"}
                 THEN unread \cup {<<role, iter>>} ELSE unread
    /\ tests' = IF role = "RUNNER" /\ says \in Replies(role)
                THEN [tests EXCEPT !.lastRun = says] ELSE tests
    /\ Goto("read", role)
    /\ UNCHANGED <<phase, manual, iter, plan, analysis, saved, registered, active,
                   halted, abortFailed>>

(* An agent nobody waits for any more ends its turn. *)
AgentEndsAlone(p) ==
    /\ p \in working
    /\ ~(at = "await" /\ phase = p)
    /\ working' = working \ {p}
    /\ UNCHANGED <<phase, at, role, manual, text, iter, results, registered, active,
                   history>>

(* The prompt is not accepted; or the wait ends with the session's error or,
   while the agent works on, with the timeout. *)
TurnFails ==
    /\ Faults
    /\ at \in {"ask", "await"}
    /\ working' \in {working, working \ {phase}}
    /\ Goto(Throws(phase), NoRole)
    /\ UNCHANGED <<phase, manual, text, iter, results, registered, active, history>>

(* The reply of role r is read, then role next is prompted. *)
Proceed(r, next, i) ==
    /\ at = "read" /\ role = r
    /\ Goto("ask", next)
    /\ iter' = i
    /\ UNCHANGED <<phase, manual, text, saved, sessions, history>>


(* The condition of the three loops. *)
MayIterate == iter < MaxIterations

-----------------------------------------------------------------------------
(* ProductPlanningPhase and the questions Analysis asks in the same way. *)

Unchanged_Read == UNCHANGED <<phase, manual, text, iter, saved, sessions, history>>

(* A simple task is not planned: the phase returns with its session left as
   it is. *)
SkipSimple ==
    /\ at = "read" /\ role = "ASSESSOR"
    /\ Reads("ASSESSOR") = "simple"
    /\ phase' = "Analysis" /\ Goto("branch", NoRole)
    /\ plan' = NoPlan
    /\ UNCHANGED <<manual, text, iter, analysis, tests, saved, sessions, history>>

PlanInFull ==
    /\ Reads("ASSESSOR") # "simple"
    /\ Proceed("ASSESSOR", "CLARIFIER", 0)
    /\ UNCHANGED <<plan, analysis, tests>>

(* The role that works with the answers, the first of its loop in Analysis. *)
AfterQuestions == IF phase = "Planning" THEN "UX" ELSE "ANALYST"
FirstIteration == IF phase = "Planning" THEN 0 ELSE 1

NoQuestions ==
    /\ Reads("CLARIFIER") # "questions"
    /\ Proceed("CLARIFIER", AfterQuestions, FirstIteration)
    /\ UNCHANGED <<plan, analysis, tests>>

(* In automatic mode another agent answers the questions. *)
AnswerOneself ==
    /\ Reads("CLARIFIER") = "questions" /\ ~manual
    /\ Proceed("CLARIFIER", "SELF_ANSWERER", 0)
    /\ UNCHANGED <<plan, analysis, tests>>

(* With its answers, or with the default assumptions. *)
UseOwnAnswers ==
    /\ Proceed("SELF_ANSWERER", AfterQuestions, FirstIteration)
    /\ UNCHANGED <<plan, analysis, tests>>

AskHuman(r, question) ==
    /\ at = "read" /\ role = r
    /\ Goto("human", question)
    /\ Unchanged_Read

AskQuestions ==
    /\ Reads("CLARIFIER") = "questions" /\ manual
    /\ AskHuman("CLARIFIER", "clarification")
    /\ UNCHANGED <<plan, analysis, tests>>

(* Answers, or the default assumptions whatever the action. *)
QuestionsAnswered ==
    /\ at = "human" /\ role = "clarification"
    /\ Goto("ask", AfterQuestions)
    /\ iter' = FirstIteration
    /\ UNCHANGED <<phase, manual, text, results, sessions, history>>

ReadDesign ==
    /\ \/ Proceed("UX", "PLANNER", 0)
          /\ plan' = [plan EXCEPT !.ux = Reads("UX") # "null"]
       \/ Proceed("PLANNER", "ENRICHER", 0)
          /\ plan' = [plan EXCEPT !.breakdown = Reads("PLANNER") # "null"]
       \/ Proceed("ENRICHER", "JUDGE", 1) /\ plan' = plan
    /\ UNCHANGED <<analysis, tests>>

(* After the judge's loop: the human, or the end of the phase. *)
PlanSettled == IF manual THEN Goto("human", "plan") ELSE Goto("abort", "plan")

(* A verdict that is missing, and a revision without issues, count as
   approved. *)
PlanVerdict ==
    IF Reads("JUDGE") \in {"rejected", "issues"} THEN Reads("JUDGE") ELSE "approved"

(* Approved or rejected, the loop ends; planningApproved only shows in the
   log. *)
JudgePlan ==
    /\ phase = "Planning" /\ at = "read" /\ role = "JUDGE"
    /\ PlanVerdict # "issues"
    /\ PlanSettled
    /\ UNCHANGED <<plan, analysis, tests>>
    /\ Unchanged_Read

RevisePlan ==
    /\ phase = "Planning"
    /\ PlanVerdict = "issues"
    /\ Proceed("JUDGE", "FIXER", iter)
    /\ UNCHANGED <<plan, analysis, tests>>

(* `breakdownResult.tasks =` throws when nothing was parsed before. *)
FixThrows ==
    \/ Reads("FIXER") = "tasks" /\ ~plan.breakdown
    \/ Reads("FIXER") = "flows" /\ ~plan.ux

MergeFix ==
    /\ at = "read" /\ role = "FIXER"
    /\ \/ FixThrows /\ Goto("catch", NoRole) /\ iter' = iter
       \/ ~FixThrows /\ MayIterate /\ Goto("ask", "JUDGE") /\ iter' = iter + 1
       \/ ~FixThrows /\ ~MayIterate /\ PlanSettled /\ iter' = iter
    /\ UNCHANGED <<phase, manual, text, results, sessions, history>>

PlanAnswered(answer) ==
    /\ at = "human" /\ role = "plan"
    /\ Goto("abort", IF answer = "reject" THEN "refused" ELSE "plan")
    /\ halted' = IF answer = "reject" THEN halted \cup {phase} ELSE halted
    /\ UNCHANGED <<phase, manual, text, iter, results, sessions, unread, abortFailed>>

-----------------------------------------------------------------------------
(* AnalysisPhaseV2. *)

(* createBranch, or else checkout of the branch an earlier execution made. *)
PrepareBranch ==
    /\ at = "branch"
    /\ \/ Goto("open", NoRole)
       \/ Faults /\ Goto("stopped", NoRole)
    /\ UNCHANGED <<phase, manual, text, iter, results, sessions, history>>

(* parseAnalysisJSON: what does not parse leaves the previous result. *)
Parsed ==
    IF Reads("ANALYST") \in AnalystReplies
    THEN [analysis EXCEPT !.data = Reads("ANALYST") # "bare",
                          !.stories = IF Reads("ANALYST") = "empty" THEN "empty" ELSE "some",
                          !.from = text.iter]
    ELSE analysis

ReadAnalysis ==
    /\ Proceed("ANALYST", "JUDGE", iter)
    /\ analysis' = Parsed
    /\ UNCHANGED <<plan, tests>>

(* Mutant of JudgeVerdict: a verdict that cannot be read is an approval, as
   it is in Planning. *)
Bug_UnreadApproves ==
    IF Reads("JUDGE") \in ReviewReplies("JUDGE")
    THEN [analysis EXCEPT !.verdict = Reads("JUDGE"), !.verdictFrom = text.iter]
    ELSE [analysis EXCEPT !.verdict = "approved"]

(* parseJudgeVerdict: needs_revision, score 0 and no issues by default. *)
JudgeVerdict ==
    IF Reads("JUDGE") \in ReviewReplies("JUDGE")
    THEN [analysis EXCEPT !.verdict = Reads("JUDGE"), !.verdictFrom = text.iter]
    ELSE [analysis EXCEPT !.verdict = "lowScore"]

ReadVerdict ==
    /\ phase = "Analysis"
    /\ Proceed("JUDGE", "SPY", iter)
    /\ analysis' = JudgeVerdict
    /\ UNCHANGED <<plan, tests>>

(* The judge approved, or has no issue with valid stories. *)
Accepted ==
    \/ analysis.verdict = "approved"
    \/ analysis.verdict = "highScore" /\ analysis.stories = "some"

(* Accepted, or the fixer is prompted: as the analyst of the next iteration,
   and for the issues of the last iteration too, when nobody will wait. *)
AfterReview ==
    \/ Accepted /\ Goto("commit", NoRole) /\ iter' = iter
    \/ ~Accepted /\ MayIterate /\ Goto("ask", "ANALYST") /\ iter' = iter + 1
    \/ ~Accepted /\ ~MayIterate /\ analysis.verdict = "issues"
          /\ Goto("lastFix", "ANALYST") /\ iter' = iter
    \/ ~Accepted /\ ~MayIterate /\ analysis.verdict # "issues"
          /\ Goto("commit", NoRole) /\ iter' = iter

(* The spy's findings are added, then the iteration is judged. *)
ReadSpy ==
    /\ at = "read" /\ role = "SPY"
    /\ analysis' = [analysis EXCEPT !.findings = IF Reads("SPY") = "findings" THEN @ + 1 ELSE @,
                                    !.approved = Accepted]
    /\ AfterReview
    /\ UNCHANGED <<phase, manual, text, plan, tests, saved, sessions, history>>

SendLastFix ==
    /\ at = "lastFix"
    /\ \/ working' = working \cup {phase} /\ Goto("commit", NoRole)
       \/ Faults /\ working' = working /\ Goto("stopped", NoRole)
    /\ UNCHANGED <<phase, manual, text, iter, results, registered, active, history>>

(* Branch description, hasChanges, commitAndPush. *)
CommitAnalysis ==
    /\ at = "commit"
    /\ \/ Goto("save", NoRole)
       \/ Faults /\ Goto("stopped", NoRole)
    /\ UNCHANGED <<phase, manual, text, iter, results, sessions, history>>

(* The row is completed, the session unregistered, an approved analysis saved;
   execute() goes on with stories only. *)
SaveAnalysis ==
    /\ at = "save"
    /\ active' = active \ {phase} /\ registered' = registered \ {phase}
    /\ saved' = IF analysis.approved /\ analysis.data THEN analysis.from ELSE saved
    /\ Goto(IF analysis.approved /\ analysis.stories = "some"
            THEN "developer" ELSE "stopped", NoRole)
    /\ UNCHANGED <<phase, manual, text, iter, plan, analysis, tests, working, history>>

(* One of the writes of SaveAnalysis fails. *)
SaveFails ==
    /\ Faults
    /\ at = "save"
    /\ \/ UNCHANGED <<active, registered>>
       \/ active' = active \ {phase} /\ registered' = registered \ {phase}
    /\ Goto("stopped", NoRole)
    /\ UNCHANGED <<phase, manual, text, iter, results, working, history>>

(* The Developer phase, which DeveloperPhase models, has run. *)
DeveloperDone ==
    /\ at = "developer"
    /\ phase' = "TestGeneration" /\ Goto("open", NoRole)
    /\ analysis' = NoAnalysis
    /\ UNCHANGED <<manual, text, iter, plan, tests, saved, sessions, history>>

-----------------------------------------------------------------------------
(* TestGenerationPhase. *)

(* Without a readable list of gaps the phase throws, without gaps it ends. *)
ReadGaps ==
    /\ at = "read" /\ role = "TEST_ANALYST"
    /\ Goto(CASE Reads(role) = "null" -> "catch"
              [] Reads(role) = "gaps" -> "ask"
              [] OTHER -> "abort",
            IF Reads(role) = "gaps" THEN "GENERATOR" ELSE NoRole)
    /\ UNCHANGED <<plan, analysis, tests>>
    /\ Unchanged_Read

ReadGenerated ==
    /\ Proceed("GENERATOR", "RUNNER", 1)
    /\ tests' = [tests EXCEPT !.generated = Reads("GENERATOR") = "tests"]
    /\ UNCHANGED <<plan, analysis>>

(* testsFailed === 0, where a missing number is 0. *)
RunPassed == Reads("RUNNER") # "fail"

ReadRun ==
    /\ at = "read" /\ role = "RUNNER"
    /\ tests' = [tests EXCEPT !.passed = RunPassed]
    /\ \/ ~RunPassed /\ MayIterate /\ Goto("ask", "TEST_FIXER")
       \/ (RunPassed \/ ~MayIterate)
            /\ (IF manual THEN Goto("human", "tests") ELSE Goto("abort", "tests"))
    /\ UNCHANGED <<plan, analysis>>
    /\ Unchanged_Read

(* Mutant of ReadTestFix: the iteration is not counted. *)
Bug_SameIteration ==
    /\ Proceed("TEST_FIXER", "RUNNER", iter)
    /\ UNCHANGED <<plan, analysis, tests>>

ReadTestFix ==
    /\ Proceed("TEST_FIXER", "RUNNER", iter + 1)
    /\ tests' = [tests EXCEPT !.attempts = @ + 1]
    /\ UNCHANGED <<plan, analysis>>

TestsAnswered(answer) ==
    /\ at = "human" /\ role = "tests"
    /\ Goto("abort", "tests")
    /\ tests' = [tests EXCEPT !.passed = @ /\ answer # "reject"]
    /\ halted' = IF answer = "reject" THEN halted \cup {phase} ELSE halted
    /\ UNCHANGED <<phase, manual, text, iter, plan, analysis, saved, sessions, unread,
                   abortFailed>>

-----------------------------------------------------------------------------
(* How Planning and TestGeneration end. *)

(* execute() after a phase that returned: Analysis after a plan that was not
   refused, the gate or the merge after TestGeneration, whatever its result. *)
AfterPhase ==
    CASE phase = "Planning" /\ role # "refused" -> phase' = "Analysis" /\ Goto("branch", NoRole)
      [] phase = "Planning" /\ role = "refused" -> phase' = phase /\ Goto("stopped", NoRole)
      [] phase = "TestGeneration" ->
            /\ phase' = phase
            /\ IF manual /\ tests.generated THEN Goto("human", "gate") ELSE Goto("merge", NoRole)

AbortSession ==
    /\ at = "abort"
    /\ working' = working \ {phase}
    /\ AfterPhase
    /\ plan' = NoPlan
    /\ UNCHANGED <<manual, text, iter, analysis, tests, saved, registered, active, history>>

AbortFails ==
    /\ Faults
    /\ at = "abort"
    /\ abortFailed' = TRUE
    /\ Goto("catch", NoRole)
    /\ UNCHANGED <<phase, manual, text, iter, results, sessions, unread, halted>>

(* Mutant of CatchAborts: the session is left as it is. *)
Bug_CatchLeaves == working' = working /\ abortFailed' = abortFailed

(* The abort in the catch block, whose own failure is ignored. *)
CatchAborts ==
    \/ working' = working \ {phase} /\ abortFailed' = abortFailed
    \/ Faults /\ working' = working /\ abortFailed' = TRUE

(* The catch returns success: false and no tests, which stops the task after
   Planning and is not looked at after TestGeneration. *)
CatchError ==
    /\ at = "catch"
    /\ CatchAborts
    /\ tests' = NoTests
    /\ Goto(IF phase = "Planning" THEN "stopped" ELSE "merge", NoRole)
    /\ UNCHANGED <<phase, manual, text, iter, plan, analysis, saved, registered, active,
                   unread, halted>>

(* The approval of the tests between the phases. *)
GateAnswered ==
    /\ at = "human" /\ role = "gate"
    /\ Goto("merge", NoRole)
    /\ UNCHANGED <<phase, manual, text, iter, results, sessions, history>>

(* Mutant of CancelContinues: a cancelled question is a skipped one in every
   phase. *)
Bug_CancelSkips == role = "clarification"

(* Analysis takes a cancelled question for a skipped one. *)
CancelContinues == role = "clarification" /\ phase = "Analysis"

(* POST /cancel rejects the promise the phase, or execute(), waits for. *)
CancelApproval ==
    /\ at = "human"
    /\ halted' = halted \cup {phase}
    /\ IF CancelContinues
       THEN Goto("ask", AfterQuestions) /\ iter' = FirstIteration
       ELSE iter' = iter /\ Goto(IF role = "gate" THEN "stopped" ELSE "catch", NoRole)
    /\ UNCHANGED <<phase, manual, text, results, sessions, unread, abortFailed>>

-----------------------------------------------------------------------------
PlanningStep ==
    \/ SkipSimple \/ PlanInFull \/ ReadDesign \/ JudgePlan \/ RevisePlan \/ MergeFix

QuestionStep ==
    NoQuestions \/ AnswerOneself \/ UseOwnAnswers \/ AskQuestions

AnalysisStep ==
    \/ PrepareBranch \/ ReadAnalysis \/ ReadVerdict \/ ReadSpy \/ SendLastFix
    \/ CommitAnalysis \/ SaveAnalysis \/ SaveFails \/ DeveloperDone

TestStep == ReadGaps \/ ReadGenerated \/ ReadRun \/ ReadTestFix

SessionStep ==
    \/ OpenSession \/ OpenFails \/ SendPrompt \/ TurnFails
    \/ AbortSession \/ AbortFails \/ CatchError

CodeStep == PlanningStep \/ QuestionStep \/ AnalysisStep \/ TestStep \/ SessionStep

AgentTurn == \E says \in Texts, fenced \in BOOLEAN : AgentReplies(says, fenced)

HumanStep ==
    \/ QuestionsAnswered
    \/ \E answer \in {"approve", "reject"} : PlanAnswered(answer) \/ TestsAnswered(answer)
    \/ GateAnswered
    \/ CancelApproval

Next ==
    \/ CodeStep \/ AgentTurn \/ HumanStep
    \/ \E p \in Phases : AgentEndsAlone(p)

Spec == Init /\ [][Next]_vars

(* The code runs on; an agent ends its turn or the wait times out; a human
   answers or cancels. *)
FairSpec == Spec /\ WF_vars(CodeStep) /\ WF_vars(AgentTurn) /\ WF_vars(HumanStep)

-----------------------------------------------------------------------------
(* No two agents write in the same working tree: when a phase begins, and when
   the task is merged, no agent of an earlier phase is at work, unless the
   server failed to abort it (the catch of TestGeneration goes on to Merge). *)
AgentsRestBetweenPhases ==
    /\ at \in {"branch", "open", "developer"} => working = {}
    /\ at = "merge" /\ working # {} => abortFailed

(* An agent at work can be seen and stopped: its session is registered and its
   row is the newest active one, except for the fixer Analysis prompts in its
   last iteration and leaves behind when it gives up. *)
WorkerIsKnown ==
    \A p \in working :
        \/ p \in registered \cap active /\ ("TestGeneration" \in active => p = "TestGeneration")
        \/ p = "Analysis" /\ ~analysis.approved /\ iter = MaxIterations

(* The analysis that is saved was accepted by a verdict of its own iteration:
   neither an unreadable verdict nor one read again from an earlier iteration
   of the same session accepts anything. *)
SavedWasAccepted ==
    phase = "Analysis" /\ saved # 0 =>
                 /\ analysis.verdict \in {"approved", "highScore"}
                 /\ analysis.verdictFrom = iter

(* The stories that are saved are the ones the judge saw last, unless the
   analyst's last reply could not be read: then the judge approves one text
   and an older one is saved. *)
SavedIsJudged ==
    phase = "Analysis" /\ saved # 0 =>
        saved = iter \/ <<"ANALYST", iter>> \in unread

(* What Developer builds on has been judged, and accepted. *)
SavedIsAccepted == SavedWasAccepted /\ SavedIsJudged

-----------------------------------------------------------------------------
(* The inductive invariant: why the properties above and below hold. *)

InTurn == at \in {"ask", "await", "read"}
Askers == {"CLARIFIER", "SELF_ANSWERER", "clarification"}
Reviewed == {"ANALYST", "JUDGE", "SPY"}

RolesOf(p) ==
    CASE p = "Planning" -> {"ASSESSOR", "CLARIFIER", "SELF_ANSWERER", "UX", "PLANNER",
                            "ENRICHER", "JUDGE", "FIXER"}
      [] p = "Analysis" -> {"CLARIFIER", "SELF_ANSWERER"} \cup Reviewed
      [] p = "TestGeneration" -> {"TEST_ANALYST", "GENERATOR", "RUNNER", "TEST_FIXER"}

(* A phase talks to its own roles and asks its own questions. *)
RoleOfPhase ==
    /\ InTurn => role \in RolesOf(phase)
    /\ at = "human" => \/ phase # "TestGeneration" /\ role = "clarification"
                       \/ phase = "Planning" /\ role = "plan"
                       \/ phase = "TestGeneration" /\ role \in {"tests", "gate"}
    /\ at = "abort" => \/ phase = "Planning" /\ role \in {"plan", "refused"}
                       \/ phase = "TestGeneration"
    /\ at = "catch" => phase # "Analysis"
    /\ at \in {"branch", "lastFix", "commit", "save", "developer"} => phase = "Analysis"
    /\ at = "merge" => phase = "TestGeneration"

(* Only the running phase has an agent at work, and only while the phase
   waits for it or has given it up. *)
OneWorker ==
    /\ working \subseteq {phase}
    /\ at \in {"ask", "read", "human", "abort", "lastFix"} => working = {}
    /\ at \in {"commit", "save"} /\ working # {} =>
          ~analysis.approved /\ iter = MaxIterations

(* The session of a phase is known from its first to its last prompt. *)
SessionIsOpen ==
    /\ InTurn \/ at \in {"human", "abort", "lastFix", "commit", "save"} =>
          phase \in registered \cap active
    /\ "TestGeneration" \in active => phase = "TestGeneration"

(* What the counters of the loops count. *)
IterationsCounted ==
    /\ phase = "Analysis" /\ (InTurn \/ at = "human") => text.iter <= iter
    /\ phase = "Analysis" /\ role \in Askers => iter = 0 /\ text.by # "JUDGE"
    /\ phase = "Analysis" /\ InTurn /\ role \in Reviewed => analysis.findings < iter
    /\ phase = "TestGeneration" /\ InTurn =>
          /\ role \in {"TEST_ANALYST", "GENERATOR"} => tests.attempts = 0
          /\ role \in {"RUNNER", "TEST_FIXER"} => tests.attempts + 1 = iter
          /\ role = "TEST_FIXER" => iter < MaxIterations
    /\ phase # "TestGeneration" \/ at = "open" => tests.attempts = 0

(* Nothing is analysed outside the Analysis phase, or before its analyst. *)
AnalysedLater ==
    phase # "Analysis" \/ at \in {"branch", "open"} \/ role \in Askers =>
        analysis = NoAnalysis

(* Would this reply of the judge accept the stories there are? *)
Accepting(says) ==
    says = "approved" \/ (says = "highScore" /\ analysis.stories = "some")

(* A verdict that is read again, because everybody was silent since, does not
   accept: it did not when it was new, and the stories are the same. *)
VerdictIsFresh ==
    phase = "Analysis" /\ InTurn /\ role \in Reviewed =>
        /\ text.by = "JUDGE" /\ text.iter < iter => ~Accepting(text.says)
        /\ role = "SPY" /\ Accepted => analysis.verdictFrom = iter
        /\ role = "SPY" /\ text.by = "JUDGE" /\ Accepting(text.says) =>
              analysis.verdict = text.says

(* The stories are those of this iteration unless its analyst was not
   understood. *)
StoriesAreFresh ==
    phase = "Analysis" /\ InTurn /\ <<"ANALYST", iter>> \notin unread =>
        /\ role = "ANALYST" /\ at = "read" =>
              text.by = "ANALYST" /\ text.says \in AnalystReplies /\ text.iter = iter
        /\ role \in {"JUDGE", "SPY"} => analysis.from = iter

(* Only an accepted analysis is approved, and nothing else is saved. *)
ApprovedIsAccepted ==
    /\ at = "lastFix" => ~analysis.approved /\ iter = MaxIterations
    /\ at \in {"commit", "save"} /\ analysis.approved =>
          /\ Accepted /\ analysis.verdictFrom = iter
          /\ analysis.from = iter \/ <<"ANALYST", iter>> \in unread
    /\ phase = "TestGeneration" \/ at \in {"developer", "stopped"} \/ saved = 0

(* A phase that was halted is on its way out. *)
HaltedLeaves ==
    /\ "Planning" \in halted =>
          /\ phase = "Planning"
          /\ at \in {"catch", "stopped"} \/ (at = "abort" /\ role = "refused")
    /\ "TestGeneration" \in halted =>
          /\ phase = "TestGeneration"
          /\ \/ at \in {"abort", "catch", "merge", "stopped"}
             \/ at = "human" /\ role = "gate"

(* Who works is accounted for, from the first prompt to the merge. *)
AuthoringInv ==
    /\ TypeOK /\ AgentsRestBetweenPhases /\ WorkerIsKnown
    /\ RoleOfPhase /\ OneWorker /\ SessionIsOpen /\ IterationsCounted /\ AnalysedLater
    /\ VerdictIsFresh /\ StoriesAreFresh /\ ApprovedIsAccepted /\ HaltedLeaves

-----------------------------------------------------------------------------
(* After a human has rejected or cancelled Planning or TestGeneration no agent
   is prompted any more. *)
HaltedPromptsNobody ==
    [][halted \cap {"Planning", "TestGeneration"} # {} => working' \subseteq working]_vars

(* The loops of judges and fixers end, and with them the phases. *)
PhasesEnd == <>(at \in {"merge", "stopped"})

-----------------------------------------------------------------------------
(* "Execute tests and validate": tests whose last run failed do not count
   as passed.  They do: the code block of the test analyst, the first of the
   session, is read as the report of every run, and it has no failures. *)
FailedRunIsSeen ==
    at = "merge" /\ tests.lastRun = "fail" => ~tests.passed
=============================================================================
