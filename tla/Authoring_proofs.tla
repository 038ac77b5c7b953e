-------------------------- MODULE Authoring_proofs ---------------------------
(***************************************************************************)
(* Proofs about Authoring, for any number of iterations: AuthoringInv is     *)
(* inductive, only an accepted analysis is saved, and a phase that a human   *)
(* has halted prompts nobody.                                               *)
(***************************************************************************)
EXTENDS Authoring, TLAPS

(* The iteration limit is a positive number. *)
LEMMA Limit == MaxIterations \in Nat /\ MaxIterations > 0 /\ Faults \in BOOLEAN
  BY AuthoringConstants

(* What the runner and the judge of Analysis are expected to say. *)
LEMMA Expected ==
  /\ ReviewReplies("JUDGE") = {"approved", "issues", "highScore", "lowScore"}
  /\ TestReplies("RUNNER") = {"pass", "fail"}
  /\ "garbled" \in Texts
  <1>1. ReviewReplies("JUDGE") = {"approved", "issues", "highScore", "lowScore"}
    BY DEF ReviewReplies
  <1>2. TestReplies("RUNNER") = {"pass", "fail"}
    BY DEF TestReplies
  <1>3. "garbled" \in Texts
    BY DEF Texts
  <1> QED
    BY <1>1, <1>2, <1>3

(* The types of the results' fields. *)
LEMMA FieldTypes ==
  ASSUME TypeOK
  PROVE  /\ text.by \in AgentRoles \cup {NoRole} /\ text.says \in Texts
         /\ text.iter \in 0..MaxIterations /\ text.fenced \in BOOLEAN
         /\ analysis.data \in BOOLEAN /\ analysis.stories \in {"none", "empty", "some"}
         /\ analysis.from \in 0..MaxIterations /\ analysis.verdictFrom \in 0..MaxIterations
         /\ analysis.verdict \in {"approved", "issues", "highScore", "lowScore", "none"}
         /\ analysis.findings \in 0..MaxIterations /\ analysis.approved \in BOOLEAN
         /\ tests.attempts \in 0..(MaxIterations - 1)
  BY Expected DEF TypeOK, SessionText, AnalysisResult, TestResult

(* The results a phase begins with. *)
LEMMA Beginnings ==
  /\ NoText \in SessionText /\ NoAnalysis \in AnalysisResult /\ NoTests \in TestResult
  /\ NoText.by = "none" /\ NoText.iter = 0 /\ NoTests.attempts = 0
  /\ NoAnalysis.findings = 0
  <1>1. NoText \in SessionText
    BY Limit, Expected DEF NoText, SessionText
  <1>2. NoAnalysis \in AnalysisResult
    BY Limit, Expected DEF NoAnalysis, AnalysisResult
  <1>3. NoTests \in TestResult
    BY Limit, Expected DEF NoTests, TestResult
  <1> QED
    BY <1>1, <1>2, <1>3 DEF NoText, NoTests, NoAnalysis, NoRole

-----------------------------------------------------------------------------
(* The steps. *)

(* A session is opened, registered and has its row. *)
LEMMA OpenSessionKeeps ==
  ASSUME AuthoringInv, OpenSession
  PROVE  AuthoringInv'
  <1> USE Limit DEF OpenSession, Goto, results, sessions, history, CreateSessionRow, FirstRole
  <1> USE Beginnings
  <1>0. text' = NoText /\ iter' = 0
    OBVIOUS
  <1>1. TypeOK'
    BY DEF AuthoringInv, TypeOK, RoleOfPhase, InTurn, IterationsCounted, RolesOf, Phases,
           AgentRoles, Questions, NoRole
  <1>2. RoleOfPhase' /\ HaltedLeaves'
    BY DEF AuthoringInv, TypeOK, RoleOfPhase, HaltedLeaves, InTurn, RolesOf, Phases, Reviewed
  <1>3. /\ AgentsRestBetweenPhases' /\ WorkerIsKnown'
        /\ OneWorker' /\ SessionIsOpen'
    BY DEF AuthoringInv, TypeOK, RoleOfPhase, InTurn, Phases,
           AgentsRestBetweenPhases, WorkerIsKnown, OneWorker, SessionIsOpen
  <1>4. IterationsCounted' /\ AnalysedLater'
    BY DEF AuthoringInv, TypeOK, RoleOfPhase, InTurn, RolesOf, Phases, IterationsCounted,
           AnalysedLater, Reviewed, Askers, NoAnalysis, NoRole
  <1>5. VerdictIsFresh' /\ StoriesAreFresh' /\ ApprovedIsAccepted'
    BY DEF AuthoringInv, TypeOK, RoleOfPhase, InTurn, RolesOf, Phases, IterationsCounted,
           VerdictIsFresh, StoriesAreFresh, ApprovedIsAccepted, Accepted, Accepting,
           Reviewed, Askers
  <1> QED
    BY <1>1, <1>2, <1>3, <1>4, <1>5 DEF AuthoringInv

(* No session, or one that has no row. *)
LEMMA OpenFailsKeeps ==
  ASSUME AuthoringInv, OpenFails
  PROVE  AuthoringInv'
  <1> USE Limit DEF OpenFails, Goto, results, sessions, history, Throws
  <1>1. TypeOK'
    BY DEF AuthoringInv, TypeOK, RoleOfPhase, InTurn, IterationsCounted, RolesOf, Phases,
           AgentRoles, Questions, NoRole
  <1>2. RoleOfPhase' /\ HaltedLeaves'
    BY DEF AuthoringInv, TypeOK, RoleOfPhase, HaltedLeaves, InTurn, RolesOf, Phases, Reviewed
  <1>3. /\ AgentsRestBetweenPhases' /\ WorkerIsKnown'
        /\ OneWorker' /\ SessionIsOpen'
    BY DEF AuthoringInv, TypeOK, RoleOfPhase, InTurn, Phases,
           AgentsRestBetweenPhases, WorkerIsKnown, OneWorker, SessionIsOpen
  <1>4. IterationsCounted' /\ AnalysedLater'
    BY DEF AuthoringInv, TypeOK, RoleOfPhase, InTurn, RolesOf, Phases, IterationsCounted,
           AnalysedLater, Reviewed, Askers, NoAnalysis, NoRole
  <1>5. VerdictIsFresh' /\ StoriesAreFresh' /\ ApprovedIsAccepted'
    BY DEF AuthoringInv, TypeOK, RoleOfPhase, InTurn, RolesOf, Phases, IterationsCounted,
           VerdictIsFresh, StoriesAreFresh, ApprovedIsAccepted, Accepted, Accepting,
           Reviewed, Askers
  <1> QED
    BY <1>1, <1>2, <1>3, <1>4, <1>5 DEF AuthoringInv

(* The agent of the phase begins to work. *)
LEMMA SendPromptKeeps ==
  ASSUME AuthoringInv, SendPrompt
  PROVE  AuthoringInv'
  <1> USE Limit DEF SendPrompt, Goto, results, sessions, history
  <1>1. TypeOK'
    BY DEF AuthoringInv, TypeOK, RoleOfPhase, InTurn, IterationsCounted, RolesOf, Phases,
           AgentRoles, Questions, NoRole
  <1>2. RoleOfPhase' /\ HaltedLeaves'
    BY DEF AuthoringInv, TypeOK, RoleOfPhase, HaltedLeaves, InTurn, RolesOf, Phases, Reviewed
  <1>3. /\ AgentsRestBetweenPhases' /\ WorkerIsKnown'
        /\ OneWorker' /\ SessionIsOpen'
    BY DEF AuthoringInv, TypeOK, RoleOfPhase, InTurn, Phases,
           AgentsRestBetweenPhases, WorkerIsKnown, OneWorker, SessionIsOpen
  <1>4. IterationsCounted' /\ AnalysedLater'
    BY DEF AuthoringInv, TypeOK, RoleOfPhase, InTurn, RolesOf, Phases, IterationsCounted,
           AnalysedLater, Reviewed, Askers, NoAnalysis, NoRole
  <1>5. VerdictIsFresh' /\ StoriesAreFresh' /\ ApprovedIsAccepted'
    BY DEF AuthoringInv, TypeOK, RoleOfPhase, InTurn, RolesOf, Phases, IterationsCounted,
           VerdictIsFresh, StoriesAreFresh, ApprovedIsAccepted, Accepted, Accepting,
           Reviewed, Askers
  <1> QED
    BY <1>1, <1>2, <1>3, <1>4, <1>5 DEF AuthoringInv

(* The agent ends its turn. *)
LEMMA AgentRepliesKeeps ==
  ASSUME NEW says \in Texts, NEW fenced \in BOOLEAN, AuthoringInv, AgentReplies(says, fenced)
  PROVE  AuthoringInv'
  <1> DEFINE reply == [by |-> role, says |-> says, iter |-> iter, fenced |-> fenced]
  <1>a. /\ at = "await" /\ at' = "read" /\ role' = role /\ phase' = phase /\ iter' = iter
        /\ role \in AgentRoles /\ role \in RolesOf(phase) /\ iter \in 0..MaxIterations
        /\ UNCHANGED <<analysis, saved, plan, manual, registered, active, halted, abortFailed>>
        /\ phase \in Phases /\ text \in SessionText
    BY DEF AgentReplies, Goto, AuthoringInv, TypeOK, RoleOfPhase, InTurn, RolesOf, Phases,
           AgentRoles, Reviewed
  <1>b. /\ reply \in SessionText
        /\ reply.by = role /\ reply.says = says /\ reply.iter = iter
    BY <1>a DEF SessionText
  <1>c. /\ phase # "TestGeneration" => text' = IF says = "silent" THEN text ELSE reply
        /\ text' \in SessionText
    <2>1. /\ phase = "TestGeneration" => text' = FirstBlock(reply)
          /\ phase # "TestGeneration" => text' = LastText(reply)
      BY DEF AgentReplies
    <2> HIDE DEF reply
    <2>2. phase # "TestGeneration" => text' = IF says = "silent" THEN text ELSE reply
      BY <1>b, <2>1 DEF LastText
    <2>3. \A x \in BOOLEAN : [text EXCEPT !.fenced = x] \in SessionText
      BY <1>a DEF SessionText
    <2>4. reply.fenced \in BOOLEAN
      BY <1>b DEF SessionText
    <2>5. phase = "TestGeneration" => text' \in SessionText
      BY <1>a, <1>b, <2>1, <2>3, <2>4 DEF FirstBlock
    <2> QED
      BY <1>a, <1>b, <2>2, <2>5
  <1>d. /\ unread \subseteq unread' /\ unread' \subseteq unread \cup {<<role, iter>>}
        /\ says \in {"garbled", "silent"} => <<role, iter>> \in unread'
    BY DEF AgentReplies
  <1>e. tests' \in TestResult /\ tests'.attempts = tests.attempts
    <2>1. tests \in TestResult
      BY DEF AuthoringInv, TypeOK
    <2>2. role = "RUNNER" => Replies(role) = {"pass", "fail"}
      BY <1>a DEF Replies, TestReplies
    <2>3. \A x \in {"pass", "fail"} : [tests EXCEPT !.lastRun = x] \in TestResult
      BY <2>1, Expected DEF TestResult
    <2> QED
      BY <2>1, <2>2, <2>3 DEF AgentReplies, TestResult
  <1>f. working' = working \ {phase}
    BY DEF AgentReplies
  <1>g. role = "ANALYST" /\ says \notin {"garbled", "silent"} => says \in AnalystReplies
    <2>1. role = "ANALYST" => Replies(role) = AnalystReplies
      BY <1>a DEF Replies
    <2> QED
      BY <2>1 DEF AgentReplies
  <1> HIDE DEF reply
  <1>1. TypeOK'
    BY <1>a, <1>c, <1>d, <1>e, <1>f, Limit DEF AuthoringInv, TypeOK, AgentRoles
  <1>2. RoleOfPhase' /\ HaltedLeaves'
    BY <1>a DEF AuthoringInv, RoleOfPhase, HaltedLeaves, InTurn
  <1>3. /\ AgentsRestBetweenPhases' /\ WorkerIsKnown'
        /\ OneWorker' /\ SessionIsOpen'
    BY <1>a, <1>f DEF AuthoringInv, InTurn, AgentsRestBetweenPhases, WorkerIsKnown,
                      OneWorker, SessionIsOpen
  <1>4. IterationsCounted' /\ AnalysedLater'
    BY <1>a, <1>b, <1>c, <1>e DEF AuthoringInv, InTurn, IterationsCounted, AnalysedLater,
                                  Reviewed, Askers
  <1>5. VerdictIsFresh'
    BY <1>a, <1>b, <1>c DEF AuthoringInv, InTurn, VerdictIsFresh, Accepted, Accepting,
                            Reviewed
  <1>6. StoriesAreFresh'
    BY <1>a, <1>b, <1>c, <1>d, <1>g DEF AuthoringInv, InTurn, StoriesAreFresh
  <1>7. ApprovedIsAccepted'
    BY <1>a DEF AuthoringInv, ApprovedIsAccepted
  <1> QED
    BY <1>1, <1>2, <1>3, <1>4, <1>5, <1>6, <1>7 DEF AuthoringInv

(* An agent nobody waits for ends. *)
LEMMA AgentEndsAloneKeeps ==
  ASSUME NEW p \in Phases, AuthoringInv, AgentEndsAlone(p)
  PROVE  AuthoringInv'
  <1> USE Limit DEF AgentEndsAlone, Goto, results, sessions, history
  <1>1. TypeOK'
    BY DEF AuthoringInv, TypeOK, RoleOfPhase, InTurn, IterationsCounted, RolesOf, Phases,
           AgentRoles, Questions, NoRole
  <1>2. RoleOfPhase' /\ HaltedLeaves'
    BY DEF AuthoringInv, TypeOK, RoleOfPhase, HaltedLeaves, InTurn, RolesOf, Phases, Reviewed
  <1>3. /\ AgentsRestBetweenPhases' /\ WorkerIsKnown'
        /\ OneWorker' /\ SessionIsOpen'
    BY DEF AuthoringInv, TypeOK, RoleOfPhase, InTurn, Phases,
           AgentsRestBetweenPhases, WorkerIsKnown, OneWorker, SessionIsOpen
  <1>4. IterationsCounted' /\ AnalysedLater'
    BY DEF AuthoringInv, TypeOK, RoleOfPhase, InTurn, RolesOf, Phases, IterationsCounted,
           AnalysedLater, Reviewed, Askers, NoAnalysis, NoRole
  <1>5. VerdictIsFresh' /\ StoriesAreFresh' /\ ApprovedIsAccepted'
    BY DEF AuthoringInv, TypeOK, RoleOfPhase, InTurn, RolesOf, Phases, IterationsCounted,
           VerdictIsFresh, StoriesAreFresh, ApprovedIsAccepted, Accepted, Accepting,
           Reviewed, Askers
  <1> QED
    BY <1>1, <1>2, <1>3, <1>4, <1>5 DEF AuthoringInv

(* A turn fails, and the agent may go on. *)
LEMMA TurnFailsKeeps ==
  ASSUME AuthoringInv, TurnFails
  PROVE  AuthoringInv'
  <1> USE Limit DEF TurnFails, Goto, results, sessions, history, Throws
  <1>1. TypeOK'
    BY DEF AuthoringInv, TypeOK, RoleOfPhase, InTurn, IterationsCounted, RolesOf, Phases,
           AgentRoles, Questions, NoRole
  <1>2. RoleOfPhase' /\ HaltedLeaves'
    BY DEF AuthoringInv, TypeOK, RoleOfPhase, HaltedLeaves, InTurn, RolesOf, Phases, Reviewed
  <1>3. /\ AgentsRestBetweenPhases' /\ WorkerIsKnown'
        /\ OneWorker' /\ SessionIsOpen'
    BY DEF AuthoringInv, TypeOK, RoleOfPhase, InTurn, Phases,
           AgentsRestBetweenPhases, WorkerIsKnown, OneWorker, SessionIsOpen
  <1>4. IterationsCounted' /\ AnalysedLater'
    BY DEF AuthoringInv, TypeOK, RoleOfPhase, InTurn, RolesOf, Phases, IterationsCounted,
           AnalysedLater, Reviewed, Askers, NoAnalysis, NoRole
  <1>5. VerdictIsFresh' /\ StoriesAreFresh' /\ ApprovedIsAccepted'
    BY DEF AuthoringInv, TypeOK, RoleOfPhase, InTurn, RolesOf, Phases, IterationsCounted,
           VerdictIsFresh, StoriesAreFresh, ApprovedIsAccepted, Accepted, Accepting,
           Reviewed, Askers
  <1> QED
    BY <1>1, <1>2, <1>3, <1>4, <1>5 DEF AuthoringInv

(* A simple task is not planned. *)
LEMMA SkipSimpleKeeps ==
  ASSUME AuthoringInv, SkipSimple
  PROVE  AuthoringInv'
  <1> USE Limit DEF SkipSimple, Goto, results, sessions, history, NoPlan
  <1>1. TypeOK'
    BY DEF AuthoringInv, TypeOK, RoleOfPhase, InTurn, IterationsCounted, RolesOf, Phases,
           AgentRoles, Questions, NoRole
  <1>2. RoleOfPhase' /\ HaltedLeaves'
    BY DEF AuthoringInv, TypeOK, RoleOfPhase, HaltedLeaves, InTurn, RolesOf, Phases, Reviewed
  <1>3. /\ AgentsRestBetweenPhases' /\ WorkerIsKnown'
        /\ OneWorker' /\ SessionIsOpen'
    BY DEF AuthoringInv, TypeOK, RoleOfPhase, InTurn, Phases,
           AgentsRestBetweenPhases, WorkerIsKnown, OneWorker, SessionIsOpen, RolesOf, Reviewed
  <1>4. IterationsCounted' /\ AnalysedLater'
    BY DEF AuthoringInv, TypeOK, RoleOfPhase, InTurn, RolesOf, Phases, IterationsCounted,
           AnalysedLater, Reviewed, Askers, NoAnalysis, NoRole
  <1>5. VerdictIsFresh' /\ StoriesAreFresh' /\ ApprovedIsAccepted'
    BY DEF AuthoringInv, TypeOK, RoleOfPhase, InTurn, RolesOf, Phases, IterationsCounted,
           VerdictIsFresh, StoriesAreFresh, ApprovedIsAccepted, Accepted, Accepting,
           Reviewed, Askers
  <1> QED
    BY <1>1, <1>2, <1>3, <1>4, <1>5 DEF AuthoringInv

(* Questions come first. *)
LEMMA PlanInFullKeeps ==
  ASSUME AuthoringInv, PlanInFull
  PROVE  AuthoringInv'
  <1> USE Limit DEF PlanInFull, Goto, results, sessions, history, Proceed
  <1>1. TypeOK'
    BY DEF AuthoringInv, TypeOK, RoleOfPhase, InTurn, IterationsCounted, RolesOf, Phases,
           AgentRoles, Questions, NoRole
  <1>2. RoleOfPhase' /\ HaltedLeaves'
    BY DEF AuthoringInv, TypeOK, RoleOfPhase, HaltedLeaves, InTurn, RolesOf, Phases, Reviewed
  <1>3. /\ AgentsRestBetweenPhases' /\ WorkerIsKnown'
        /\ OneWorker' /\ SessionIsOpen'
    BY DEF AuthoringInv, TypeOK, RoleOfPhase, InTurn, Phases,
           AgentsRestBetweenPhases, WorkerIsKnown, OneWorker, SessionIsOpen
  <1>4. IterationsCounted' /\ AnalysedLater'
    BY DEF AuthoringInv, TypeOK, RoleOfPhase, InTurn, RolesOf, Phases, IterationsCounted,
           AnalysedLater, Reviewed, Askers, NoAnalysis, NoRole
  <1>5. VerdictIsFresh' /\ StoriesAreFresh' /\ ApprovedIsAccepted'
    BY DEF AuthoringInv, TypeOK, RoleOfPhase, InTurn, RolesOf, Phases, IterationsCounted,
           VerdictIsFresh, StoriesAreFresh, ApprovedIsAccepted, Accepted, Accepting,
           Reviewed, Askers
  <1> QED
    BY <1>1, <1>2, <1>3, <1>4, <1>5 DEF AuthoringInv

(* There are no questions. *)
LEMMA NoQuestionsKeeps ==
  ASSUME AuthoringInv, NoQuestions
  PROVE  AuthoringInv'
  <1> USE Limit DEF NoQuestions, Goto, results, sessions, history, Proceed, AfterQuestions, FirstIteration
  <1>1. TypeOK'
    BY DEF AuthoringInv, TypeOK, RoleOfPhase, InTurn, IterationsCounted, RolesOf, Phases,
           AgentRoles, Questions, NoRole
  <1>2. RoleOfPhase' /\ HaltedLeaves'
    BY DEF AuthoringInv, TypeOK, RoleOfPhase, HaltedLeaves, InTurn, RolesOf, Phases, Reviewed
  <1>3. /\ AgentsRestBetweenPhases' /\ WorkerIsKnown'
        /\ OneWorker' /\ SessionIsOpen'
    BY DEF AuthoringInv, TypeOK, RoleOfPhase, InTurn, Phases,
           AgentsRestBetweenPhases, WorkerIsKnown, OneWorker, SessionIsOpen
  <1>4. IterationsCounted' /\ AnalysedLater'
    BY FieldTypes DEF AuthoringInv, TypeOK, RoleOfPhase, InTurn, RolesOf, Phases, IterationsCounted,
           AnalysedLater, Reviewed, Askers, NoAnalysis, NoRole
  <1>5. VerdictIsFresh' /\ StoriesAreFresh' /\ ApprovedIsAccepted'
    BY DEF AuthoringInv, TypeOK, RoleOfPhase, InTurn, RolesOf, Phases, IterationsCounted,
           VerdictIsFresh, StoriesAreFresh, ApprovedIsAccepted, Accepted, Accepting,
           Reviewed, Askers
  <1> QED
    BY <1>1, <1>2, <1>3, <1>4, <1>5 DEF AuthoringInv

(* An agent answers the questions. *)
LEMMA AnswerOneselfKeeps ==
  ASSUME AuthoringInv, AnswerOneself
  PROVE  AuthoringInv'
  <1> USE Limit DEF AnswerOneself, Goto, results, sessions, history, Proceed
  <1>1. TypeOK'
    BY DEF AuthoringInv, TypeOK, RoleOfPhase, InTurn, IterationsCounted, RolesOf, Phases,
           AgentRoles, Questions, NoRole
  <1>2. RoleOfPhase' /\ HaltedLeaves'
    BY DEF AuthoringInv, TypeOK, RoleOfPhase, HaltedLeaves, InTurn, RolesOf, Phases, Reviewed
  <1>3. /\ AgentsRestBetweenPhases' /\ WorkerIsKnown'
        /\ OneWorker' /\ SessionIsOpen'
    BY DEF AuthoringInv, TypeOK, RoleOfPhase, InTurn, Phases,
           AgentsRestBetweenPhases, WorkerIsKnown, OneWorker, SessionIsOpen
  <1>4. IterationsCounted' /\ AnalysedLater'
    BY DEF AuthoringInv, TypeOK, RoleOfPhase, InTurn, RolesOf, Phases, IterationsCounted,
           AnalysedLater, Reviewed, Askers, NoAnalysis, NoRole
  <1>5. VerdictIsFresh' /\ StoriesAreFresh' /\ ApprovedIsAccepted'
    BY DEF AuthoringInv, TypeOK, RoleOfPhase, InTurn, RolesOf, Phases, IterationsCounted,
           VerdictIsFresh, StoriesAreFresh, ApprovedIsAccepted, Accepted, Accepting,
           Reviewed, Askers
  <1> QED
    BY <1>1, <1>2, <1>3, <1>4, <1>5 DEF AuthoringInv

(* Its answers are used. *)
LEMMA UseOwnAnswersKeeps ==
  ASSUME AuthoringInv, UseOwnAnswers
  PROVE  AuthoringInv'
  <1> USE Limit DEF UseOwnAnswers, Goto, results, sessions, history, Proceed, AfterQuestions, FirstIteration
  <1>1. TypeOK'
    BY DEF AuthoringInv, TypeOK, RoleOfPhase, InTurn, IterationsCounted, RolesOf, Phases,
           AgentRoles, Questions, NoRole
  <1>2. RoleOfPhase' /\ HaltedLeaves'
    BY DEF AuthoringInv, TypeOK, RoleOfPhase, HaltedLeaves, InTurn, RolesOf, Phases, Reviewed
  <1>3. /\ AgentsRestBetweenPhases' /\ WorkerIsKnown'
        /\ OneWorker' /\ SessionIsOpen'
    BY DEF AuthoringInv, TypeOK, RoleOfPhase, InTurn, Phases,
           AgentsRestBetweenPhases, WorkerIsKnown, OneWorker, SessionIsOpen
  <1>4. IterationsCounted' /\ AnalysedLater'
    BY FieldTypes DEF AuthoringInv, TypeOK, RoleOfPhase, InTurn, RolesOf, Phases, IterationsCounted,
           AnalysedLater, Reviewed, Askers, NoAnalysis, NoRole
  <1>5. VerdictIsFresh' /\ StoriesAreFresh' /\ ApprovedIsAccepted'
    BY DEF AuthoringInv, TypeOK, RoleOfPhase, InTurn, RolesOf, Phases, IterationsCounted,
           VerdictIsFresh, StoriesAreFresh, ApprovedIsAccepted, Accepted, Accepting,
           Reviewed, Askers
  <1> QED
    BY <1>1, <1>2, <1>3, <1>4, <1>5 DEF AuthoringInv

(* The human is asked. *)
LEMMA AskQuestionsKeeps ==
  ASSUME AuthoringInv, AskQuestions
  PROVE  AuthoringInv'
  <1> USE Limit DEF AskQuestions, Goto, results, sessions, history, AskHuman, Unchanged_Read
  <1>1. TypeOK'
    BY DEF AuthoringInv, TypeOK, RoleOfPhase, InTurn, IterationsCounted, RolesOf, Phases,
           AgentRoles, Questions, NoRole
  <1>2. RoleOfPhase' /\ HaltedLeaves'
    BY DEF AuthoringInv, TypeOK, RoleOfPhase, HaltedLeaves, InTurn, RolesOf, Phases, Reviewed
  <1>3. /\ AgentsRestBetweenPhases' /\ WorkerIsKnown'
        /\ OneWorker' /\ SessionIsOpen'
    BY DEF AuthoringInv, TypeOK, RoleOfPhase, InTurn, Phases,
           AgentsRestBetweenPhases, WorkerIsKnown, OneWorker, SessionIsOpen
  <1>4. IterationsCounted' /\ AnalysedLater'
    BY DEF AuthoringInv, TypeOK, RoleOfPhase, InTurn, RolesOf, Phases, IterationsCounted,
           AnalysedLater, Reviewed, Askers, NoAnalysis, NoRole
  <1>5. VerdictIsFresh' /\ StoriesAreFresh' /\ ApprovedIsAccepted'
    BY DEF AuthoringInv, TypeOK, RoleOfPhase, InTurn, RolesOf, Phases, IterationsCounted,
           VerdictIsFresh, StoriesAreFresh, ApprovedIsAccepted, Accepted, Accepting,
           Reviewed, Askers
  <1> QED
    BY <1>1, <1>2, <1>3, <1>4, <1>5 DEF AuthoringInv

(* The human answers. *)
LEMMA QuestionsAnsweredKeeps ==
  ASSUME AuthoringInv, QuestionsAnswered
  PROVE  AuthoringInv'
  <1> USE Limit DEF QuestionsAnswered, Goto, results, sessions, history, AfterQuestions, FirstIteration
  <1>1. TypeOK'
    BY DEF AuthoringInv, TypeOK, RoleOfPhase, InTurn, IterationsCounted, RolesOf, Phases,
           AgentRoles, Questions, NoRole
  <1>2. RoleOfPhase' /\ HaltedLeaves'
    BY DEF AuthoringInv, TypeOK, RoleOfPhase, HaltedLeaves, InTurn, RolesOf, Phases, Reviewed
  <1>3. /\ AgentsRestBetweenPhases' /\ WorkerIsKnown'
        /\ OneWorker' /\ SessionIsOpen'
    BY DEF AuthoringInv, TypeOK, RoleOfPhase, InTurn, Phases,
           AgentsRestBetweenPhases, WorkerIsKnown, OneWorker, SessionIsOpen
  <1>4. IterationsCounted' /\ AnalysedLater'
    BY FieldTypes DEF AuthoringInv, TypeOK, RoleOfPhase, InTurn, RolesOf, Phases, IterationsCounted,
           AnalysedLater, Reviewed, Askers, NoAnalysis, NoRole
  <1>5. VerdictIsFresh' /\ StoriesAreFresh' /\ ApprovedIsAccepted'
    BY DEF AuthoringInv, TypeOK, RoleOfPhase, InTurn, RolesOf, Phases, IterationsCounted,
           VerdictIsFresh, StoriesAreFresh, ApprovedIsAccepted, Accepted, Accepting,
           Reviewed, Askers
  <1> QED
    BY <1>1, <1>2, <1>3, <1>4, <1>5 DEF AuthoringInv

(* The design is read. *)
LEMMA ReadDesignKeeps ==
  ASSUME AuthoringInv, ReadDesign
  PROVE  AuthoringInv'
  <1> USE Limit DEF ReadDesign, Goto, results, sessions, history, Proceed
  <1>a. plan' \in [ux : BOOLEAN, breakdown : BOOLEAN]
    BY DEF AuthoringInv, TypeOK
  <1>1. TypeOK'
    BY <1>a DEF AuthoringInv, TypeOK, RoleOfPhase, InTurn, IterationsCounted, RolesOf, Phases,
           AgentRoles, Questions, NoRole
  <1>2. RoleOfPhase' /\ HaltedLeaves'
    BY DEF AuthoringInv, TypeOK, RoleOfPhase, HaltedLeaves, InTurn, RolesOf, Phases, Reviewed
  <1>3. /\ AgentsRestBetweenPhases' /\ WorkerIsKnown'
        /\ OneWorker' /\ SessionIsOpen'
    BY DEF AuthoringInv, TypeOK, RoleOfPhase, InTurn, Phases,
           AgentsRestBetweenPhases, WorkerIsKnown, OneWorker, SessionIsOpen
  <1>4. IterationsCounted' /\ AnalysedLater'
    BY DEF AuthoringInv, TypeOK, RoleOfPhase, InTurn, RolesOf, Phases, IterationsCounted,
           AnalysedLater, Reviewed, Askers, NoAnalysis, NoRole
  <1>5. VerdictIsFresh' /\ StoriesAreFresh' /\ ApprovedIsAccepted'
    BY DEF AuthoringInv, TypeOK, RoleOfPhase, InTurn, RolesOf, Phases, IterationsCounted,
           VerdictIsFresh, StoriesAreFresh, ApprovedIsAccepted, Accepted, Accepting,
           Reviewed, Askers
  <1> QED
    BY <1>1, <1>2, <1>3, <1>4, <1>5 DEF AuthoringInv

(* The plan is settled. *)
LEMMA JudgePlanKeeps ==
  ASSUME AuthoringInv, JudgePlan
  PROVE  AuthoringInv'
  <1> USE Limit DEF JudgePlan, Goto, results, sessions, history, PlanSettled, Unchanged_Read
  <1>1. TypeOK'
    BY DEF AuthoringInv, TypeOK, RoleOfPhase, InTurn, IterationsCounted, RolesOf, Phases,
           AgentRoles, Questions, NoRole
  <1>2. RoleOfPhase' /\ HaltedLeaves'
    BY DEF AuthoringInv, TypeOK, RoleOfPhase, HaltedLeaves, InTurn, RolesOf, Phases, Reviewed
  <1>3. /\ AgentsRestBetweenPhases' /\ WorkerIsKnown'
        /\ OneWorker' /\ SessionIsOpen'
    BY DEF AuthoringInv, TypeOK, RoleOfPhase, InTurn, Phases,
           AgentsRestBetweenPhases, WorkerIsKnown, OneWorker, SessionIsOpen
  <1>4. IterationsCounted' /\ AnalysedLater'
    BY DEF AuthoringInv, TypeOK, RoleOfPhase, InTurn, RolesOf, Phases, IterationsCounted,
           AnalysedLater, Reviewed, Askers, NoAnalysis, NoRole
  <1>5. VerdictIsFresh' /\ StoriesAreFresh' /\ ApprovedIsAccepted'
    BY DEF AuthoringInv, TypeOK, RoleOfPhase, InTurn, RolesOf, Phases, IterationsCounted,
           VerdictIsFresh, StoriesAreFresh, ApprovedIsAccepted, Accepted, Accepting,
           Reviewed, Askers
  <1> QED
    BY <1>1, <1>2, <1>3, <1>4, <1>5 DEF AuthoringInv

(* The plan is revised. *)
LEMMA RevisePlanKeeps ==
  ASSUME AuthoringInv, RevisePlan
  PROVE  AuthoringInv'
  <1> USE Limit DEF RevisePlan, Goto, results, sessions, history, Proceed
  <1>1. TypeOK'
    BY DEF AuthoringInv, TypeOK, RoleOfPhase, InTurn, IterationsCounted, RolesOf, Phases,
           AgentRoles, Questions, NoRole
  <1>2. RoleOfPhase' /\ HaltedLeaves'
    BY DEF AuthoringInv, TypeOK, RoleOfPhase, HaltedLeaves, InTurn, RolesOf, Phases, Reviewed
  <1>3. /\ AgentsRestBetweenPhases' /\ WorkerIsKnown'
        /\ OneWorker' /\ SessionIsOpen'
    BY DEF AuthoringInv, TypeOK, RoleOfPhase, InTurn, Phases,
           AgentsRestBetweenPhases, WorkerIsKnown, OneWorker, SessionIsOpen
  <1>4. IterationsCounted' /\ AnalysedLater'
    BY DEF AuthoringInv, TypeOK, RoleOfPhase, InTurn, RolesOf, Phases, IterationsCounted,
           AnalysedLater, Reviewed, Askers, NoAnalysis, NoRole
  <1>5. VerdictIsFresh' /\ StoriesAreFresh' /\ ApprovedIsAccepted'
    BY DEF AuthoringInv, TypeOK, RoleOfPhase, InTurn, RolesOf, Phases, IterationsCounted,
           VerdictIsFresh, StoriesAreFresh, ApprovedIsAccepted, Accepted, Accepting,
           Reviewed, Askers
  <1> QED
    BY <1>1, <1>2, <1>3, <1>4, <1>5 DEF AuthoringInv

(* A fix is merged into the plan. *)
LEMMA MergeFixKeeps ==
  ASSUME AuthoringInv, MergeFix
  PROVE  AuthoringInv'
  <1> USE Limit DEF MergeFix, Goto, results, sessions, history, FixThrows, PlanSettled, MayIterate
  <1>1. TypeOK'
    BY DEF AuthoringInv, TypeOK, RoleOfPhase, InTurn, IterationsCounted, RolesOf, Phases,
           AgentRoles, Questions, NoRole
  <1>2. RoleOfPhase' /\ HaltedLeaves'
    BY DEF AuthoringInv, TypeOK, RoleOfPhase, HaltedLeaves, InTurn, RolesOf, Phases, Reviewed
  <1>3. /\ AgentsRestBetweenPhases' /\ WorkerIsKnown'
        /\ OneWorker' /\ SessionIsOpen'
    BY DEF AuthoringInv, TypeOK, RoleOfPhase, InTurn, Phases,
           AgentsRestBetweenPhases, WorkerIsKnown, OneWorker, SessionIsOpen
  <1>4. IterationsCounted' /\ AnalysedLater'
    BY DEF AuthoringInv, TypeOK, RoleOfPhase, InTurn, RolesOf, Phases, IterationsCounted,
           AnalysedLater, Reviewed, Askers, NoAnalysis, NoRole
  <1>5. VerdictIsFresh' /\ StoriesAreFresh' /\ ApprovedIsAccepted'
    BY DEF AuthoringInv, TypeOK, RoleOfPhase, InTurn, RolesOf, Phases, IterationsCounted,
           VerdictIsFresh, StoriesAreFresh, ApprovedIsAccepted, Accepted, Accepting,
           Reviewed, Askers
  <1> QED
    BY <1>1, <1>2, <1>3, <1>4, <1>5 DEF AuthoringInv

(* The human answers about the plan. *)
LEMMA PlanAnsweredKeeps ==
  ASSUME NEW answer \in {"approve", "reject"}, AuthoringInv, PlanAnswered(answer)
  PROVE  AuthoringInv'
  <1> USE Limit DEF PlanAnswered, Goto, results, sessions, history
  <1>1. TypeOK'
    BY DEF AuthoringInv, TypeOK, RoleOfPhase, InTurn, IterationsCounted, RolesOf, Phases,
           AgentRoles, Questions, NoRole
  <1>2. RoleOfPhase' /\ HaltedLeaves'
    BY DEF AuthoringInv, TypeOK, RoleOfPhase, HaltedLeaves, InTurn, RolesOf, Phases, Reviewed
  <1>3. /\ AgentsRestBetweenPhases' /\ WorkerIsKnown'
        /\ OneWorker' /\ SessionIsOpen'
    BY DEF AuthoringInv, TypeOK, RoleOfPhase, InTurn, Phases,
           AgentsRestBetweenPhases, WorkerIsKnown, OneWorker, SessionIsOpen
  <1>4. IterationsCounted' /\ AnalysedLater'
    BY DEF AuthoringInv, TypeOK, RoleOfPhase, InTurn, RolesOf, Phases, IterationsCounted,
           AnalysedLater, Reviewed, Askers, NoAnalysis, NoRole
  <1>5. VerdictIsFresh' /\ StoriesAreFresh' /\ ApprovedIsAccepted'
    BY DEF AuthoringInv, TypeOK, RoleOfPhase, InTurn, RolesOf, Phases, IterationsCounted,
           VerdictIsFresh, StoriesAreFresh, ApprovedIsAccepted, Accepted, Accepting,
           Reviewed, Askers
  <1> QED
    BY <1>1, <1>2, <1>3, <1>4, <1>5 DEF AuthoringInv

(* The branch is created or checked out. *)
LEMMA PrepareBranchKeeps ==
  ASSUME AuthoringInv, PrepareBranch
  PROVE  AuthoringInv'
  <1> USE Limit DEF PrepareBranch, Goto, results, sessions, history
  <1>1. TypeOK'
    BY DEF AuthoringInv, TypeOK, RoleOfPhase, InTurn, IterationsCounted, RolesOf, Phases,
           AgentRoles, Questions, NoRole
  <1>2. RoleOfPhase' /\ HaltedLeaves'
    BY DEF AuthoringInv, TypeOK, RoleOfPhase, HaltedLeaves, InTurn, RolesOf, Phases, Reviewed
  <1>3. /\ AgentsRestBetweenPhases' /\ WorkerIsKnown'
        /\ OneWorker' /\ SessionIsOpen'
    BY DEF AuthoringInv, TypeOK, RoleOfPhase, InTurn, Phases,
           AgentsRestBetweenPhases, WorkerIsKnown, OneWorker, SessionIsOpen
  <1>4. IterationsCounted' /\ AnalysedLater'
    BY DEF AuthoringInv, TypeOK, RoleOfPhase, InTurn, RolesOf, Phases, IterationsCounted,
           AnalysedLater, Reviewed, Askers, NoAnalysis, NoRole
  <1>5. VerdictIsFresh' /\ StoriesAreFresh' /\ ApprovedIsAccepted'
    BY DEF AuthoringInv, TypeOK, RoleOfPhase, InTurn, RolesOf, Phases, IterationsCounted,
           VerdictIsFresh, StoriesAreFresh, ApprovedIsAccepted, Accepted, Accepting,
           Reviewed, Askers
  <1> QED
    BY <1>1, <1>2, <1>3, <1>4, <1>5 DEF AuthoringInv

(* The analyst's reply is read. *)
LEMMA ReadAnalysisKeeps ==
  ASSUME AuthoringInv, ReadAnalysis
  PROVE  AuthoringInv'
  <1> USE Limit DEF ReadAnalysis, Goto, results, sessions, history, Proceed
  <1>a. /\ at = "read" /\ role = "ANALYST" /\ phase = "Analysis"
        /\ text \in SessionText /\ analysis \in AnalysisResult
    BY DEF AuthoringInv, TypeOK, RoleOfPhase, InTurn, RolesOf, Phases, Reviewed
  <1>b. \/ analysis' = analysis /\ (text.by # "ANALYST" \/ text.says \notin AnalystReplies)
        \/ /\ text.by = "ANALYST" /\ text.says \in AnalystReplies
           /\ analysis' = [analysis EXCEPT !.data = text.says # "bare",
                               !.stories = IF text.says = "empty" THEN "empty" ELSE "some",
                               !.from = text.iter]
    BY DEF Parsed, Reads, AnalystReplies
  <1>c. /\ analysis' \in AnalysisResult
        /\ analysis'.findings = analysis.findings
        /\ \/ analysis' = analysis /\ (text.by # "ANALYST" \/ text.says \notin AnalystReplies)
           \/ text.by = "ANALYST" /\ analysis'.from = text.iter
    <2>1. text.iter \in 0..MaxIterations
      BY <1>a DEF SessionText
    <2> QED
      BY <1>a, <1>b, <2>1 DEF AnalysisResult
  <1>1. TypeOK'
    BY <1>c DEF AuthoringInv, TypeOK, RoleOfPhase, InTurn, IterationsCounted, RolesOf, Phases,
           AgentRoles, Questions, NoRole
  <1>2. RoleOfPhase' /\ HaltedLeaves'
    BY DEF AuthoringInv, TypeOK, RoleOfPhase, HaltedLeaves, InTurn, RolesOf, Phases, Reviewed
  <1>3. /\ AgentsRestBetweenPhases' /\ WorkerIsKnown'
        /\ OneWorker' /\ SessionIsOpen'
    BY DEF AuthoringInv, TypeOK, RoleOfPhase, InTurn, Phases,
           AgentsRestBetweenPhases, WorkerIsKnown, OneWorker, SessionIsOpen
  <1>4. IterationsCounted' /\ AnalysedLater'
    BY <1>a, <1>c DEF AuthoringInv, TypeOK, RoleOfPhase, InTurn, RolesOf, Phases, IterationsCounted,
           AnalysedLater, Reviewed, Askers, NoAnalysis, NoRole
  <1>5. VerdictIsFresh' /\ StoriesAreFresh' /\ ApprovedIsAccepted'
    BY <1>a, <1>c DEF AuthoringInv, TypeOK, RoleOfPhase, InTurn, RolesOf, Phases, IterationsCounted,
           VerdictIsFresh, StoriesAreFresh, ApprovedIsAccepted, Accepted, Accepting,
           Reviewed, Askers
  <1> QED
    BY <1>1, <1>2, <1>3, <1>4, <1>5 DEF AuthoringInv

(* The judge's reply is read. *)
LEMMA ReadVerdictKeeps ==
  ASSUME AuthoringInv, ReadVerdict
  PROVE  AuthoringInv'
  <1> USE Limit DEF ReadVerdict, Goto, results, sessions, history, Proceed
  <1>a. /\ at = "read" /\ role = "JUDGE" /\ phase = "Analysis"
        /\ text \in SessionText /\ analysis \in AnalysisResult
    BY DEF AuthoringInv, TypeOK
  <1>b. \/ /\ text.by = "JUDGE" /\ text.says \in ReviewReplies("JUDGE")
           /\ analysis' = [analysis EXCEPT !.verdict = text.says, !.verdictFrom = text.iter]
        \/ /\ analysis' = [analysis EXCEPT !.verdict = "lowScore"]
           /\ text.by = "JUDGE" => text.says \notin {"approved", "highScore"}
    BY Expected DEF JudgeVerdict, Reads
  <1>c. /\ analysis' \in AnalysisResult
        /\ analysis'.findings = analysis.findings /\ analysis'.from = analysis.from
        /\ analysis'.stories = analysis.stories
        /\ \/ /\ text.by = "JUDGE" /\ analysis'.verdict = text.says
              /\ analysis'.verdictFrom = text.iter
           \/ /\ analysis'.verdict = "lowScore"
              /\ text.by = "JUDGE" => text.says \notin {"approved", "highScore"}
    <2>1. text.iter \in 0..MaxIterations
      BY <1>a DEF SessionText
    <2> QED
      BY <1>a, <1>b, <2>1, Expected DEF AnalysisResult
  <1>1. TypeOK'
    BY <1>c DEF AuthoringInv, TypeOK, RoleOfPhase, InTurn, IterationsCounted, RolesOf, Phases,
           AgentRoles, Questions, NoRole
  <1>2. RoleOfPhase' /\ HaltedLeaves'
    BY DEF AuthoringInv, TypeOK, RoleOfPhase, HaltedLeaves, InTurn, RolesOf, Phases, Reviewed
  <1>3. /\ AgentsRestBetweenPhases' /\ WorkerIsKnown'
        /\ OneWorker' /\ SessionIsOpen'
    BY DEF AuthoringInv, TypeOK, RoleOfPhase, InTurn, Phases,
           AgentsRestBetweenPhases, WorkerIsKnown, OneWorker, SessionIsOpen
  <1>4. IterationsCounted' /\ AnalysedLater'
    BY <1>a, <1>c DEF AuthoringInv, TypeOK, RoleOfPhase, InTurn, RolesOf, Phases, IterationsCounted,
           AnalysedLater, Reviewed, Askers, NoAnalysis, NoRole
  <1>5. VerdictIsFresh' /\ StoriesAreFresh' /\ ApprovedIsAccepted'
    BY <1>a, <1>c, FieldTypes DEF AuthoringInv, TypeOK, RoleOfPhase, InTurn, RolesOf, Phases, IterationsCounted,
           VerdictIsFresh, StoriesAreFresh, ApprovedIsAccepted, Accepted, Accepting,
           Reviewed, Askers
  <1> QED
    BY <1>1, <1>2, <1>3, <1>4, <1>5 DEF AuthoringInv

(* The iteration is judged. *)
LEMMA ReadSpyKeeps ==
  ASSUME AuthoringInv, ReadSpy
  PROVE  AuthoringInv'
  <1> USE Limit DEF ReadSpy, Goto, results, sessions, history, AfterReview, MayIterate
  <1>a. phase = "Analysis" /\ analysis.findings \in Nat /\ analysis.findings < iter
    BY FieldTypes DEF AuthoringInv, TypeOK, RoleOfPhase, InTurn, RolesOf, Phases, Reviewed,
                      IterationsCounted
  <1>b. analysis' \in AnalysisResult
    <2>1. analysis \in AnalysisResult /\ iter \in 0..MaxIterations
      BY DEF AuthoringInv, TypeOK
    <2>2. Accepted \in BOOLEAN
      BY DEF Accepted
    <2>3. \A f \in 0..MaxIterations, b \in BOOLEAN :
             [analysis EXCEPT !.findings = f, !.approved = b] \in AnalysisResult
      BY <2>1 DEF AnalysisResult
    <2>4. (IF Reads("SPY") = "findings" THEN analysis.findings + 1 ELSE analysis.findings)
             \in 0..MaxIterations
      BY <1>a, <2>1
    <2> QED
      BY <2>2, <2>3, <2>4
  <1>1. TypeOK'
    BY <1>b DEF AuthoringInv, TypeOK, RoleOfPhase, InTurn, IterationsCounted, RolesOf, Phases,
           AgentRoles, Questions, NoRole
  <1>2. RoleOfPhase' /\ HaltedLeaves'
    BY DEF AuthoringInv, TypeOK, RoleOfPhase, HaltedLeaves, InTurn, RolesOf, Phases, Reviewed
  <1>3. /\ AgentsRestBetweenPhases' /\ WorkerIsKnown'
        /\ OneWorker' /\ SessionIsOpen'
    BY DEF AuthoringInv, TypeOK, RoleOfPhase, InTurn, Phases,
           AgentsRestBetweenPhases, WorkerIsKnown, OneWorker, SessionIsOpen
  <1>4. IterationsCounted' /\ AnalysedLater'
    BY FieldTypes DEF AuthoringInv, TypeOK, RoleOfPhase, InTurn, RolesOf, Phases, IterationsCounted,
           AnalysedLater, Reviewed, Askers, NoAnalysis, NoRole
  <1>5. VerdictIsFresh' /\ StoriesAreFresh' /\ ApprovedIsAccepted'
    BY DEF AuthoringInv, TypeOK, RoleOfPhase, InTurn, RolesOf, Phases, IterationsCounted,
           VerdictIsFresh, StoriesAreFresh, ApprovedIsAccepted, Accepted, Accepting,
           Reviewed, Askers
  <1> QED
    BY <1>1, <1>2, <1>3, <1>4, <1>5 DEF AuthoringInv

(* The fixer is prompted and left alone. *)
LEMMA SendLastFixKeeps ==
  ASSUME AuthoringInv, SendLastFix
  PROVE  AuthoringInv'
  <1> USE Limit DEF SendLastFix, Goto, results, sessions, history
  <1>1. TypeOK'
    BY DEF AuthoringInv, TypeOK, RoleOfPhase, InTurn, IterationsCounted, RolesOf, Phases,
           AgentRoles, Questions, NoRole
  <1>2. RoleOfPhase' /\ HaltedLeaves'
    BY DEF AuthoringInv, TypeOK, RoleOfPhase, HaltedLeaves, InTurn, RolesOf, Phases, Reviewed
  <1>3. /\ AgentsRestBetweenPhases' /\ WorkerIsKnown'
        /\ OneWorker' /\ SessionIsOpen'
    BY DEF AuthoringInv, TypeOK, RoleOfPhase, InTurn, Phases,
           AgentsRestBetweenPhases, WorkerIsKnown, OneWorker, SessionIsOpen,
           ApprovedIsAccepted
  <1>4. IterationsCounted' /\ AnalysedLater'
    BY DEF AuthoringInv, TypeOK, RoleOfPhase, InTurn, RolesOf, Phases, IterationsCounted,
           AnalysedLater, Reviewed, Askers, NoAnalysis, NoRole
  <1>5. VerdictIsFresh' /\ StoriesAreFresh' /\ ApprovedIsAccepted'
    BY DEF AuthoringInv, TypeOK, RoleOfPhase, InTurn, RolesOf, Phases, IterationsCounted,
           VerdictIsFresh, StoriesAreFresh, ApprovedIsAccepted, Accepted, Accepting,
           Reviewed, Askers
  <1> QED
    BY <1>1, <1>2, <1>3, <1>4, <1>5 DEF AuthoringInv

(* The analysis is committed. *)
LEMMA CommitAnalysisKeeps ==
  ASSUME AuthoringInv, CommitAnalysis
  PROVE  AuthoringInv'
  <1> USE Limit DEF CommitAnalysis, Goto, results, sessions, history
  <1>1. TypeOK'
    BY DEF AuthoringInv, TypeOK, RoleOfPhase, InTurn, IterationsCounted, RolesOf, Phases,
           AgentRoles, Questions, NoRole
  <1>2. RoleOfPhase' /\ HaltedLeaves'
    BY DEF AuthoringInv, TypeOK, RoleOfPhase, HaltedLeaves, InTurn, RolesOf, Phases, Reviewed
  <1>3. /\ AgentsRestBetweenPhases' /\ WorkerIsKnown'
        /\ OneWorker' /\ SessionIsOpen'
    BY DEF AuthoringInv, TypeOK, RoleOfPhase, InTurn, Phases,
           AgentsRestBetweenPhases, WorkerIsKnown, OneWorker, SessionIsOpen
  <1>4. IterationsCounted' /\ AnalysedLater'
    BY DEF AuthoringInv, TypeOK, RoleOfPhase, InTurn, RolesOf, Phases, IterationsCounted,
           AnalysedLater, Reviewed, Askers, NoAnalysis, NoRole
  <1>5. VerdictIsFresh' /\ StoriesAreFresh' /\ ApprovedIsAccepted'
    BY DEF AuthoringInv, TypeOK, RoleOfPhase, InTurn, RolesOf, Phases, IterationsCounted,
           VerdictIsFresh, StoriesAreFresh, ApprovedIsAccepted, Accepted, Accepting,
           Reviewed, Askers
  <1> QED
    BY <1>1, <1>2, <1>3, <1>4, <1>5 DEF AuthoringInv

(* An approved analysis is saved. *)
LEMMA SaveAnalysisKeeps ==
  ASSUME AuthoringInv, SaveAnalysis
  PROVE  AuthoringInv'
  <1> USE Limit DEF SaveAnalysis, Goto, results, sessions, history
  <1>1. TypeOK'
    BY FieldTypes DEF AuthoringInv, TypeOK, RoleOfPhase, InTurn, IterationsCounted, RolesOf, Phases,
           AgentRoles, Questions, NoRole
  <1>2. RoleOfPhase' /\ HaltedLeaves'
    BY DEF AuthoringInv, TypeOK, RoleOfPhase, HaltedLeaves, InTurn, RolesOf, Phases, Reviewed
  <1>3. /\ AgentsRestBetweenPhases' /\ WorkerIsKnown'
        /\ OneWorker' /\ SessionIsOpen'
    BY DEF AuthoringInv, TypeOK, RoleOfPhase, InTurn, Phases,
           AgentsRestBetweenPhases, WorkerIsKnown, OneWorker, SessionIsOpen
  <1>4. IterationsCounted' /\ AnalysedLater'
    BY DEF AuthoringInv, TypeOK, RoleOfPhase, InTurn, RolesOf, Phases, IterationsCounted,
           AnalysedLater, Reviewed, Askers, NoAnalysis, NoRole
  <1>5. VerdictIsFresh' /\ StoriesAreFresh' /\ ApprovedIsAccepted'
    BY DEF AuthoringInv, TypeOK, RoleOfPhase, InTurn, RolesOf, Phases, IterationsCounted,
           VerdictIsFresh, StoriesAreFresh, ApprovedIsAccepted, Accepted, Accepting,
           Reviewed, Askers
  <1> QED
    BY <1>1, <1>2, <1>3, <1>4, <1>5 DEF AuthoringInv

(* A write fails. *)
LEMMA SaveFailsKeeps ==
  ASSUME AuthoringInv, SaveFails
  PROVE  AuthoringInv'
  <1> USE Limit DEF SaveFails, Goto, results, sessions, history
  <1>1. TypeOK'
    BY DEF AuthoringInv, TypeOK, RoleOfPhase, InTurn, IterationsCounted, RolesOf, Phases,
           AgentRoles, Questions, NoRole
  <1>2. RoleOfPhase' /\ HaltedLeaves'
    BY DEF AuthoringInv, TypeOK, RoleOfPhase, HaltedLeaves, InTurn, RolesOf, Phases, Reviewed
  <1>3. /\ AgentsRestBetweenPhases' /\ WorkerIsKnown'
        /\ OneWorker' /\ SessionIsOpen'
    BY DEF AuthoringInv, TypeOK, RoleOfPhase, InTurn, Phases,
           AgentsRestBetweenPhases, WorkerIsKnown, OneWorker, SessionIsOpen
  <1>4. IterationsCounted' /\ AnalysedLater'
    BY DEF AuthoringInv, TypeOK, RoleOfPhase, InTurn, RolesOf, Phases, IterationsCounted,
           AnalysedLater, Reviewed, Askers, NoAnalysis, NoRole
  <1>5. VerdictIsFresh' /\ StoriesAreFresh' /\ ApprovedIsAccepted'
    BY DEF AuthoringInv, TypeOK, RoleOfPhase, InTurn, RolesOf, Phases, IterationsCounted,
           VerdictIsFresh, StoriesAreFresh, ApprovedIsAccepted, Accepted, Accepting,
           Reviewed, Askers
  <1> QED
    BY <1>1, <1>2, <1>3, <1>4, <1>5 DEF AuthoringInv

(* The Developer phase has run. *)
LEMMA DeveloperDoneKeeps ==
  ASSUME AuthoringInv, DeveloperDone
  PROVE  AuthoringInv'
  <1> USE Limit DEF DeveloperDone, Goto, results, sessions, history
  <1>1. TypeOK'
    BY Beginnings DEF AuthoringInv, TypeOK, RoleOfPhase, InTurn, IterationsCounted, RolesOf, Phases,
           AgentRoles, Questions, NoRole
  <1>2. RoleOfPhase' /\ HaltedLeaves'
    BY DEF AuthoringInv, TypeOK, RoleOfPhase, HaltedLeaves, InTurn, RolesOf, Phases, Reviewed
  <1>3. /\ AgentsRestBetweenPhases' /\ WorkerIsKnown'
        /\ OneWorker' /\ SessionIsOpen'
    BY DEF AuthoringInv, TypeOK, RoleOfPhase, InTurn, Phases,
           AgentsRestBetweenPhases, WorkerIsKnown, OneWorker, SessionIsOpen
  <1>4. IterationsCounted' /\ AnalysedLater'
    BY DEF AuthoringInv, TypeOK, RoleOfPhase, InTurn, RolesOf, Phases, IterationsCounted,
           AnalysedLater, Reviewed, Askers, NoAnalysis, NoRole
  <1>5. VerdictIsFresh' /\ StoriesAreFresh' /\ ApprovedIsAccepted'
    BY DEF AuthoringInv, TypeOK, RoleOfPhase, InTurn, RolesOf, Phases, IterationsCounted,
           VerdictIsFresh, StoriesAreFresh, ApprovedIsAccepted, Accepted, Accepting,
           Reviewed, Askers
  <1> QED
    BY <1>1, <1>2, <1>3, <1>4, <1>5 DEF AuthoringInv

(* The list of gaps is read. *)
LEMMA ReadGapsKeeps ==
  ASSUME AuthoringInv, ReadGaps
  PROVE  AuthoringInv'
  <1> USE Limit DEF ReadGaps, Goto, results, sessions, history, Unchanged_Read
  <1>1. TypeOK'
    BY DEF AuthoringInv, TypeOK, RoleOfPhase, InTurn, IterationsCounted, RolesOf, Phases,
           AgentRoles, Questions, NoRole
  <1>2. RoleOfPhase' /\ HaltedLeaves'
    BY DEF AuthoringInv, TypeOK, RoleOfPhase, HaltedLeaves, InTurn, RolesOf, Phases, Reviewed
  <1>3. /\ AgentsRestBetweenPhases' /\ WorkerIsKnown'
        /\ OneWorker' /\ SessionIsOpen'
    BY DEF AuthoringInv, TypeOK, RoleOfPhase, InTurn, Phases,
           AgentsRestBetweenPhases, WorkerIsKnown, OneWorker, SessionIsOpen
  <1>4. IterationsCounted' /\ AnalysedLater'
    BY DEF AuthoringInv, TypeOK, RoleOfPhase, InTurn, RolesOf, Phases, IterationsCounted,
           AnalysedLater, Reviewed, Askers, NoAnalysis, NoRole
  <1>5. VerdictIsFresh' /\ StoriesAreFresh' /\ ApprovedIsAccepted'
    BY DEF AuthoringInv, TypeOK, RoleOfPhase, InTurn, RolesOf, Phases, IterationsCounted,
           VerdictIsFresh, StoriesAreFresh, ApprovedIsAccepted, Accepted, Accepting,
           Reviewed, Askers
  <1> QED
    BY <1>1, <1>2, <1>3, <1>4, <1>5 DEF AuthoringInv

(* The generator's reply is read. *)
LEMMA ReadGeneratedKeeps ==
  ASSUME AuthoringInv, ReadGenerated
  PROVE  AuthoringInv'
  <1> USE Limit DEF ReadGenerated, Goto, results, sessions, history, Proceed
  <1>a. tests' \in TestResult
    BY DEF AuthoringInv, TypeOK, TestResult
  <1>1. TypeOK'
    BY <1>a DEF AuthoringInv, TypeOK, RoleOfPhase, InTurn, IterationsCounted, RolesOf, Phases,
           AgentRoles, Questions, NoRole
  <1>2. RoleOfPhase' /\ HaltedLeaves'
    BY DEF AuthoringInv, TypeOK, RoleOfPhase, HaltedLeaves, InTurn, RolesOf, Phases, Reviewed
  <1>3. /\ AgentsRestBetweenPhases' /\ WorkerIsKnown'
        /\ OneWorker' /\ SessionIsOpen'
    BY DEF AuthoringInv, TypeOK, RoleOfPhase, InTurn, Phases,
           AgentsRestBetweenPhases, WorkerIsKnown, OneWorker, SessionIsOpen
  <1>4. IterationsCounted' /\ AnalysedLater'
    BY DEF AuthoringInv, TypeOK, RoleOfPhase, InTurn, RolesOf, Phases, IterationsCounted,
           AnalysedLater, Reviewed, Askers, NoAnalysis, NoRole
  <1>5. VerdictIsFresh' /\ StoriesAreFresh' /\ ApprovedIsAccepted'
    BY DEF AuthoringInv, TypeOK, RoleOfPhase, InTurn, RolesOf, Phases, IterationsCounted,
           VerdictIsFresh, StoriesAreFresh, ApprovedIsAccepted, Accepted, Accepting,
           Reviewed, Askers
  <1> QED
    BY <1>1, <1>2, <1>3, <1>4, <1>5 DEF AuthoringInv

(* The runner's reply is read. *)
LEMMA ReadRunKeeps ==
  ASSUME AuthoringInv, ReadRun
  PROVE  AuthoringInv'
  <1> USE Limit DEF ReadRun, Goto, results, sessions, history, Unchanged_Read, MayIterate
  <1>a. tests' \in TestResult
    BY DEF AuthoringInv, TypeOK, TestResult, RunPassed
  <1>1. TypeOK'
    BY <1>a DEF AuthoringInv, TypeOK, RoleOfPhase, InTurn, IterationsCounted, RolesOf, Phases,
           AgentRoles, Questions, NoRole
  <1>2. RoleOfPhase' /\ HaltedLeaves'
    BY DEF AuthoringInv, TypeOK, RoleOfPhase, HaltedLeaves, InTurn, RolesOf, Phases, Reviewed
  <1>3. /\ AgentsRestBetweenPhases' /\ WorkerIsKnown'
        /\ OneWorker' /\ SessionIsOpen'
    BY DEF AuthoringInv, TypeOK, RoleOfPhase, InTurn, Phases,
           AgentsRestBetweenPhases, WorkerIsKnown, OneWorker, SessionIsOpen
  <1>4. IterationsCounted' /\ AnalysedLater'
    BY DEF AuthoringInv, TypeOK, RoleOfPhase, InTurn, RolesOf, Phases, IterationsCounted,
           AnalysedLater, Reviewed, Askers, NoAnalysis, NoRole
  <1>5. VerdictIsFresh' /\ StoriesAreFresh' /\ ApprovedIsAccepted'
    BY DEF AuthoringInv, TypeOK, RoleOfPhase, InTurn, RolesOf, Phases, IterationsCounted,
           VerdictIsFresh, StoriesAreFresh, ApprovedIsAccepted, Accepted, Accepting,
           Reviewed, Askers
  <1> QED
    BY <1>1, <1>2, <1>3, <1>4, <1>5 DEF AuthoringInv

(* The fixer's reply is read. *)
LEMMA ReadTestFixKeeps ==
  ASSUME AuthoringInv, ReadTestFix
  PROVE  AuthoringInv'
  <1> USE Limit DEF ReadTestFix, Goto, results, sessions, history, Proceed
  <1>0. tests.attempts + 1 = iter /\ iter < MaxIterations /\ iter \in Nat
    BY DEF AuthoringInv, TypeOK, RoleOfPhase, RolesOf, Phases, InTurn, IterationsCounted, Reviewed
  <1>a. tests' \in TestResult
    BY <1>0 DEF AuthoringInv, TypeOK, TestResult
  <1>1. TypeOK'
    BY <1>0, <1>a DEF AuthoringInv, TypeOK, RoleOfPhase, InTurn, IterationsCounted, RolesOf, Phases,
           AgentRoles, Questions, NoRole
  <1>2. RoleOfPhase' /\ HaltedLeaves'
    BY DEF AuthoringInv, TypeOK, RoleOfPhase, HaltedLeaves, InTurn, RolesOf, Phases, Reviewed
  <1>3. /\ AgentsRestBetweenPhases' /\ WorkerIsKnown'
        /\ OneWorker' /\ SessionIsOpen'
    BY DEF AuthoringInv, TypeOK, RoleOfPhase, InTurn, Phases,
           AgentsRestBetweenPhases, WorkerIsKnown, OneWorker, SessionIsOpen
  <1>4. IterationsCounted' /\ AnalysedLater'
    BY DEF AuthoringInv, TypeOK, RoleOfPhase, InTurn, RolesOf, Phases, IterationsCounted,
           AnalysedLater, Reviewed, Askers, NoAnalysis, NoRole
  <1>5. VerdictIsFresh' /\ StoriesAreFresh' /\ ApprovedIsAccepted'
    BY DEF AuthoringInv, TypeOK, RoleOfPhase, InTurn, RolesOf, Phases, IterationsCounted,
           VerdictIsFresh, StoriesAreFresh, ApprovedIsAccepted, Accepted, Accepting,
           Reviewed, Askers
  <1> QED
    BY <1>1, <1>2, <1>3, <1>4, <1>5 DEF AuthoringInv

(* The human answers about the tests. *)
LEMMA TestsAnsweredKeeps ==
  ASSUME NEW answer \in {"approve", "reject"}, AuthoringInv, TestsAnswered(answer)
  PROVE  AuthoringInv'
  <1> USE Limit DEF TestsAnswered, Goto, results, sessions, history
  <1>a. tests' \in TestResult
    BY DEF AuthoringInv, TypeOK, TestResult
  <1>1. TypeOK'
    BY <1>a DEF AuthoringInv, TypeOK, RoleOfPhase, InTurn, IterationsCounted, RolesOf, Phases,
           AgentRoles, Questions, NoRole
  <1>2. RoleOfPhase' /\ HaltedLeaves'
    BY DEF AuthoringInv, TypeOK, RoleOfPhase, HaltedLeaves, InTurn, RolesOf, Phases, Reviewed
  <1>3. /\ AgentsRestBetweenPhases' /\ WorkerIsKnown'
        /\ OneWorker' /\ SessionIsOpen'
    BY DEF AuthoringInv, TypeOK, RoleOfPhase, InTurn, Phases,
           AgentsRestBetweenPhases, WorkerIsKnown, OneWorker, SessionIsOpen
  <1>4. IterationsCounted' /\ AnalysedLater'
    BY DEF AuthoringInv, TypeOK, RoleOfPhase, InTurn, RolesOf, Phases, IterationsCounted,
           AnalysedLater, Reviewed, Askers, NoAnalysis, NoRole
  <1>5. VerdictIsFresh' /\ StoriesAreFresh' /\ ApprovedIsAccepted'
    BY DEF AuthoringInv, TypeOK, RoleOfPhase, InTurn, RolesOf, Phases, IterationsCounted,
           VerdictIsFresh, StoriesAreFresh, ApprovedIsAccepted, Accepted, Accepting,
           Reviewed, Askers
  <1> QED
    BY <1>1, <1>2, <1>3, <1>4, <1>5 DEF AuthoringInv

(* The session is aborted. *)
LEMMA AbortSessionKeeps ==
  ASSUME AuthoringInv, AbortSession
  PROVE  AuthoringInv'
  <1> USE Limit DEF AbortSession, Goto, results, sessions, history, AfterPhase, NoPlan
  <1>a. plan' \in [ux : BOOLEAN, breakdown : BOOLEAN]
    OBVIOUS
  <1>b. phase' \in Phases /\ at' \in {"branch", "stopped", "human", "merge"}
        /\ role' \in {NoRole, "gate"}
    BY DEF AuthoringInv, TypeOK, RoleOfPhase, Phases
  <1>1. TypeOK'
    BY <1>a, <1>b DEF AuthoringInv, TypeOK, RoleOfPhase, InTurn, IterationsCounted, RolesOf, Phases,
           AgentRoles, Questions, NoRole
  <1>2. RoleOfPhase' /\ HaltedLeaves'
    BY DEF AuthoringInv, TypeOK, RoleOfPhase, HaltedLeaves, InTurn, RolesOf, Phases, Reviewed
  <1>3. /\ AgentsRestBetweenPhases' /\ WorkerIsKnown'
        /\ OneWorker' /\ SessionIsOpen'
    BY <1>b DEF AuthoringInv, TypeOK, RoleOfPhase, InTurn, Phases,
           AgentsRestBetweenPhases, WorkerIsKnown, OneWorker, SessionIsOpen
  <1>4. IterationsCounted' /\ AnalysedLater'
    BY DEF AuthoringInv, TypeOK, RoleOfPhase, InTurn, RolesOf, Phases, IterationsCounted,
           AnalysedLater, Reviewed, Askers, NoAnalysis, NoRole
  <1>5. VerdictIsFresh' /\ StoriesAreFresh' /\ ApprovedIsAccepted'
    BY DEF AuthoringInv, TypeOK, RoleOfPhase, InTurn, RolesOf, Phases, IterationsCounted,
           VerdictIsFresh, StoriesAreFresh, ApprovedIsAccepted, Accepted, Accepting,
           Reviewed, Askers
  <1> QED
    BY <1>1, <1>2, <1>3, <1>4, <1>5 DEF AuthoringInv

(* The abort fails. *)
LEMMA AbortFailsKeeps ==
  ASSUME AuthoringInv, AbortFails
  PROVE  AuthoringInv'
  <1> USE Limit DEF AbortFails, Goto, results, sessions, history
  <1>1. TypeOK'
    BY DEF AuthoringInv, TypeOK, RoleOfPhase, InTurn, IterationsCounted, RolesOf, Phases,
           AgentRoles, Questions, NoRole
  <1>2. RoleOfPhase' /\ HaltedLeaves'
    BY DEF AuthoringInv, TypeOK, RoleOfPhase, HaltedLeaves, InTurn, RolesOf, Phases, Reviewed
  <1>3. /\ AgentsRestBetweenPhases' /\ WorkerIsKnown'
        /\ OneWorker' /\ SessionIsOpen'
    BY DEF AuthoringInv, TypeOK, RoleOfPhase, InTurn, Phases,
           AgentsRestBetweenPhases, WorkerIsKnown, OneWorker, SessionIsOpen
  <1>4. IterationsCounted' /\ AnalysedLater'
    BY DEF AuthoringInv, TypeOK, RoleOfPhase, InTurn, RolesOf, Phases, IterationsCounted,
           AnalysedLater, Reviewed, Askers, NoAnalysis, NoRole
  <1>5. VerdictIsFresh' /\ StoriesAreFresh' /\ ApprovedIsAccepted'
    BY DEF AuthoringInv, TypeOK, RoleOfPhase, InTurn, RolesOf, Phases, IterationsCounted,
           VerdictIsFresh, StoriesAreFresh, ApprovedIsAccepted, Accepted, Accepting,
           Reviewed, Askers
  <1> QED
    BY <1>1, <1>2, <1>3, <1>4, <1>5 DEF AuthoringInv

(* The catch aborts the session. *)
LEMMA CatchErrorKeeps ==
  ASSUME AuthoringInv, CatchError
  PROVE  AuthoringInv'
  <1> USE Limit DEF CatchError, Goto, results, sessions, history, CatchAborts
  <1>1. TypeOK'
    BY Beginnings DEF AuthoringInv, TypeOK, RoleOfPhase, InTurn, IterationsCounted, RolesOf, Phases,
           AgentRoles, Questions, NoRole
  <1>2. RoleOfPhase' /\ HaltedLeaves'
    BY DEF AuthoringInv, TypeOK, RoleOfPhase, HaltedLeaves, InTurn, RolesOf, Phases, Reviewed
  <1>3. /\ AgentsRestBetweenPhases' /\ WorkerIsKnown'
        /\ OneWorker' /\ SessionIsOpen'
    BY DEF AuthoringInv, TypeOK, RoleOfPhase, InTurn, Phases,
           AgentsRestBetweenPhases, WorkerIsKnown, OneWorker, SessionIsOpen
  <1>4. IterationsCounted' /\ AnalysedLater'
    BY Beginnings DEF AuthoringInv, TypeOK, RoleOfPhase, InTurn, RolesOf, Phases, IterationsCounted,
           AnalysedLater, Reviewed, Askers, NoAnalysis, NoRole
  <1>5. VerdictIsFresh' /\ StoriesAreFresh' /\ ApprovedIsAccepted'
    BY DEF AuthoringInv, TypeOK, RoleOfPhase, InTurn, RolesOf, Phases, IterationsCounted,
           VerdictIsFresh, StoriesAreFresh, ApprovedIsAccepted, Accepted, Accepting,
           Reviewed, Askers
  <1> QED
    BY <1>1, <1>2, <1>3, <1>4, <1>5 DEF AuthoringInv

(* The gate is answered. *)
LEMMA GateAnsweredKeeps ==
  ASSUME AuthoringInv, GateAnswered
  PROVE  AuthoringInv'
  <1> USE Limit DEF GateAnswered, Goto, results, sessions, history
  <1>1. TypeOK'
    BY DEF AuthoringInv, TypeOK, RoleOfPhase, InTurn, IterationsCounted, RolesOf, Phases,
           AgentRoles, Questions, NoRole
  <1>2. RoleOfPhase' /\ HaltedLeaves'
    BY DEF AuthoringInv, TypeOK, RoleOfPhase, HaltedLeaves, InTurn, RolesOf, Phases, Reviewed
  <1>3. /\ AgentsRestBetweenPhases' /\ WorkerIsKnown'
        /\ OneWorker' /\ SessionIsOpen'
    BY DEF AuthoringInv, TypeOK, RoleOfPhase, InTurn, Phases,
           AgentsRestBetweenPhases, WorkerIsKnown, OneWorker, SessionIsOpen
  <1>4. IterationsCounted' /\ AnalysedLater'
    BY DEF AuthoringInv, TypeOK, RoleOfPhase, InTurn, RolesOf, Phases, IterationsCounted,
           AnalysedLater, Reviewed, Askers, NoAnalysis, NoRole
  <1>5. VerdictIsFresh' /\ StoriesAreFresh' /\ ApprovedIsAccepted'
    BY DEF AuthoringInv, TypeOK, RoleOfPhase, InTurn, RolesOf, Phases, IterationsCounted,
           VerdictIsFresh, StoriesAreFresh, ApprovedIsAccepted, Accepted, Accepting,
           Reviewed, Askers
  <1> QED
    BY <1>1, <1>2, <1>3, <1>4, <1>5 DEF AuthoringInv

(* The human cancels. *)
LEMMA CancelApprovalKeeps ==
  ASSUME AuthoringInv, CancelApproval
  PROVE  AuthoringInv'
  <1> USE Limit DEF CancelApproval, Goto, results, sessions, history, CancelContinues, AfterQuestions, FirstIteration
  <1>1. TypeOK'
    BY DEF AuthoringInv, TypeOK, RoleOfPhase, InTurn, IterationsCounted, RolesOf, Phases,
           AgentRoles, Questions, NoRole
  <1>2. RoleOfPhase' /\ HaltedLeaves'
    BY DEF AuthoringInv, TypeOK, RoleOfPhase, HaltedLeaves, InTurn, RolesOf, Phases, Reviewed
  <1>3. /\ AgentsRestBetweenPhases' /\ WorkerIsKnown'
        /\ OneWorker' /\ SessionIsOpen'
    BY DEF AuthoringInv, TypeOK, RoleOfPhase, InTurn, Phases,
           AgentsRestBetweenPhases, WorkerIsKnown, OneWorker, SessionIsOpen
  <1>4. IterationsCounted' /\ AnalysedLater'
    BY FieldTypes DEF AuthoringInv, TypeOK, RoleOfPhase, InTurn, RolesOf, Phases, IterationsCounted,
           AnalysedLater, Reviewed, Askers, NoAnalysis, NoRole
  <1>5. VerdictIsFresh' /\ StoriesAreFresh' /\ ApprovedIsAccepted'
    BY DEF AuthoringInv, TypeOK, RoleOfPhase, InTurn, RolesOf, Phases, IterationsCounted,
           VerdictIsFresh, StoriesAreFresh, ApprovedIsAccepted, Accepted, Accepting,
           Reviewed, Askers
  <1> QED
    BY <1>1, <1>2, <1>3, <1>4, <1>5 DEF AuthoringInv

-----------------------------------------------------------------------------
(* The theorems. *)

(* The phases begin with nobody at work. *)
LEMMA AuthoringStarts == Init => AuthoringInv
  <1> SUFFICES ASSUME Init PROVE AuthoringInv
    OBVIOUS
  <1>1. TypeOK
    <2>1. plan \in [ux : BOOLEAN, breakdown : BOOLEAN]
      BY DEF Init, NoPlan
    <2>2. text \in SessionText /\ analysis \in AnalysisResult /\ tests \in TestResult
      BY Beginnings DEF Init
    <2>3. iter \in 0..MaxIterations /\ saved \in 0..MaxIterations
      BY Limit DEF Init
    <2>4. unread \subseteq AgentRoles \X (0..MaxIterations)
      BY DEF Init
    <2>5. manual \in BOOLEAN /\ abortFailed \in BOOLEAN
      BY DEF Init
    <2> QED
      BY <2>1, <2>2, <2>3, <2>4, <2>5 DEF Init, TypeOK, Phases
  <1>2. RoleOfPhase /\ HaltedLeaves
    BY DEF Init, RoleOfPhase, HaltedLeaves, InTurn
  <1>3. AgentsRestBetweenPhases /\ WorkerIsKnown /\ OneWorker /\ SessionIsOpen
    BY DEF Init, AgentsRestBetweenPhases, WorkerIsKnown, OneWorker, SessionIsOpen, InTurn
  <1>4. IterationsCounted /\ AnalysedLater
    BY Beginnings DEF Init, IterationsCounted, AnalysedLater, InTurn
  <1>5. VerdictIsFresh /\ StoriesAreFresh /\ ApprovedIsAccepted
    BY DEF Init, VerdictIsFresh, StoriesAreFresh, ApprovedIsAccepted, InTurn
  <1> QED
    BY <1>1, <1>2, <1>3, <1>4, <1>5 DEF AuthoringInv

(* Every step keeps AuthoringInv. *)
LEMMA AuthoringSteps ==
  ASSUME AuthoringInv, Next
  PROVE  AuthoringInv'
  <1>1. CASE PlanningStep
    BY <1>1, SkipSimpleKeeps, PlanInFullKeeps, ReadDesignKeeps, JudgePlanKeeps,
       RevisePlanKeeps, MergeFixKeeps DEF PlanningStep
  <1>2. CASE QuestionStep
    BY <1>2, NoQuestionsKeeps, AnswerOneselfKeeps, UseOwnAnswersKeeps, AskQuestionsKeeps
       DEF QuestionStep
  <1>3. CASE AnalysisStep
    BY <1>3, PrepareBranchKeeps, ReadAnalysisKeeps, ReadVerdictKeeps, ReadSpyKeeps,
       SendLastFixKeeps, CommitAnalysisKeeps, SaveAnalysisKeeps, SaveFailsKeeps,
       DeveloperDoneKeeps DEF AnalysisStep
  <1>4. CASE TestStep
    BY <1>4, ReadGapsKeeps, ReadGeneratedKeeps, ReadRunKeeps, ReadTestFixKeeps DEF TestStep
  <1>5. CASE SessionStep
    BY <1>5, OpenSessionKeeps, OpenFailsKeeps, SendPromptKeeps, TurnFailsKeeps,
       AbortSessionKeeps, AbortFailsKeeps, CatchErrorKeeps DEF SessionStep
  <1>6. CASE AgentTurn \/ \E p \in Phases : AgentEndsAlone(p)
    BY <1>6, AgentRepliesKeeps, AgentEndsAloneKeeps DEF AgentTurn
  <1>7. CASE HumanStep
    BY <1>7, QuestionsAnsweredKeeps, PlanAnsweredKeeps, TestsAnsweredKeeps,
       GateAnsweredKeeps, CancelApprovalKeeps DEF HumanStep
  <1> QED
    BY <1>1, <1>2, <1>3, <1>4, <1>5, <1>6, <1>7 DEF Next, CodeStep

(* Whatever agents reply, calls fail and humans answer, the agents at work are
   those of the running phase, and known; in particular none is left from an
   earlier phase when the next one begins. *)
THEOREM AuthoringIsConsistent == Spec => []AuthoringInv
  <1>1. AuthoringInv /\ UNCHANGED vars => AuthoringInv'
    <2> SUFFICES ASSUME AuthoringInv, UNCHANGED vars PROVE AuthoringInv'
      OBVIOUS
    <2> USE DEF vars
    <2>1. TypeOK'
      BY DEF AuthoringInv, TypeOK
    <2>2. RoleOfPhase' /\ HaltedLeaves'
      BY DEF AuthoringInv, RoleOfPhase, HaltedLeaves, InTurn
    <2>3. AgentsRestBetweenPhases' /\ WorkerIsKnown' /\ OneWorker' /\ SessionIsOpen'
      BY DEF AuthoringInv, AgentsRestBetweenPhases, WorkerIsKnown, OneWorker,
             SessionIsOpen, InTurn
    <2>4. IterationsCounted' /\ AnalysedLater'
      BY DEF AuthoringInv, IterationsCounted, AnalysedLater, InTurn
    <2>5. VerdictIsFresh' /\ StoriesAreFresh' /\ ApprovedIsAccepted'
      BY DEF AuthoringInv, VerdictIsFresh, StoriesAreFresh, ApprovedIsAccepted, InTurn,
             Accepted, Accepting
    <2> QED
      BY <2>1, <2>2, <2>3, <2>4, <2>5 DEF AuthoringInv
  <1>2. AuthoringInv /\ [Next]_vars => AuthoringInv'
    BY <1>1, AuthoringSteps
  <1> QED
    BY AuthoringStarts, <1>2, PTL DEF Spec

(* Only a prompt puts an agent to work. *)
LEMMA OnlyPromptsWork ==
  ASSUME Next, ~SendPrompt, ~SendLastFix
  PROVE  working' \subseteq working
  <1> USE DEF Goto, Proceed, Unchanged_Read, results, sessions, history
  <1>1. CASE PlanningStep
    BY <1>1 DEF PlanningStep, SkipSimple, PlanInFull, ReadDesign, JudgePlan, RevisePlan,
       MergeFix, PlanSettled
  <1>2. CASE QuestionStep
    BY <1>2 DEF QuestionStep, NoQuestions, AnswerOneself, UseOwnAnswers, AskQuestions, AskHuman
  <1>3. CASE AnalysisStep 
    BY <1>3 DEF AnalysisStep, PrepareBranch, ReadAnalysis, ReadVerdict, ReadSpy, AfterReview,
       CommitAnalysis, SaveAnalysis, SaveFails, DeveloperDone
  <1>4. CASE TestStep
    BY <1>4 DEF TestStep, ReadGaps, ReadGenerated, ReadRun, ReadTestFix
  <1>5. CASE SessionStep
    BY <1>5 DEF SessionStep, OpenSession, OpenFails, TurnFails, AbortSession,
       AfterPhase, AbortFails, CatchError, CatchAborts
  <1>6. CASE AgentTurn \/ \E p \in Phases : AgentEndsAlone(p)
    BY <1>6 DEF AgentTurn, AgentReplies, AgentEndsAlone
  <1>7. CASE HumanStep
    BY <1>7 DEF HumanStep, QuestionsAnswered, PlanAnswered, TestsAnswered, GateAnswered,
       CancelApproval
  <1> QED
    BY <1>1, <1>2, <1>3, <1>4, <1>5, <1>6, <1>7 DEF Next, CodeStep

(* Nothing but SaveAnalysis saves stories. *)
LEMMA OnlySaveSaves ==
  ASSUME Next, ~SaveAnalysis
  PROVE  saved' = saved
  <1> USE DEF Goto, Proceed, Unchanged_Read, results, sessions, history
  <1>1. CASE PlanningStep
    BY <1>1 DEF PlanningStep, SkipSimple, PlanInFull, ReadDesign, JudgePlan, RevisePlan,
       MergeFix, PlanSettled
  <1>2. CASE QuestionStep
    BY <1>2 DEF QuestionStep, NoQuestions, AnswerOneself, UseOwnAnswers, AskQuestions, AskHuman
  <1>3. CASE AnalysisStep /\ ~SaveAnalysis
    BY <1>3 DEF AnalysisStep, PrepareBranch, ReadAnalysis, ReadVerdict, ReadSpy, AfterReview,
       SendLastFix, CommitAnalysis, SaveFails, DeveloperDone
  <1>4. CASE TestStep
    BY <1>4 DEF TestStep, ReadGaps, ReadGenerated, ReadRun, ReadTestFix
  <1>5. CASE SessionStep
    BY <1>5 DEF SessionStep, OpenSession, OpenFails, SendPrompt, TurnFails, AbortSession,
       AfterPhase, AbortFails, CatchError
  <1>6. CASE AgentTurn \/ \E p \in Phases : AgentEndsAlone(p)
    BY <1>6 DEF AgentTurn, AgentReplies, AgentEndsAlone
  <1>7. CASE HumanStep
    BY <1>7 DEF HumanStep, QuestionsAnswered, PlanAnswered, TestsAnswered, GateAnswered,
       CancelApproval
  <1> QED
    BY <1>1, <1>2, <1>3, <1>4, <1>5, <1>6, <1>7 DEF Next, CodeStep

(* The Developer phase is followed by TestGeneration, and nothing follows a
   stopped task: what Analysis has concluded stays as it is. *)
LEMMA ConclusionStands ==
  ASSUME Next, at \in {"developer", "stopped"}
  PROVE  \/ phase' = "TestGeneration"
         \/ UNCHANGED <<phase, analysis, iter, saved, unread>>
  <1> USE DEF Goto, Proceed, Unchanged_Read, results, sessions, history
  <1>1. CASE PlanningStep
    BY <1>1 DEF PlanningStep, SkipSimple, PlanInFull, ReadDesign, JudgePlan, RevisePlan,
       MergeFix, PlanSettled
  <1>2. CASE QuestionStep
    BY <1>2 DEF QuestionStep, NoQuestions, AnswerOneself, UseOwnAnswers, AskQuestions, AskHuman
  <1>3. CASE AnalysisStep /\ ~SaveAnalysis
    BY <1>3 DEF AnalysisStep, PrepareBranch, ReadAnalysis, ReadVerdict, ReadSpy, AfterReview,
       SendLastFix, CommitAnalysis, SaveFails, DeveloperDone
  <1>4. CASE TestStep
    BY <1>4 DEF TestStep, ReadGaps, ReadGenerated, ReadRun, ReadTestFix
  <1>5. CASE SessionStep
    BY <1>5 DEF SessionStep, OpenSession, OpenFails, SendPrompt, TurnFails, AbortSession,
       AfterPhase, AbortFails, CatchError
  <1>6. CASE AgentTurn \/ \E p \in Phases : AgentEndsAlone(p)
    BY <1>6 DEF AgentTurn, AgentReplies, AgentEndsAlone
  <1>7. CASE HumanStep
    BY <1>7 DEF HumanStep, QuestionsAnswered, PlanAnswered, TestsAnswered, GateAnswered,
       CancelApproval
  <1>8. ~SaveAnalysis
    BY DEF SaveAnalysis
  <1> QED
    BY <1>1, <1>2, <1>3, <1>4, <1>5, <1>6, <1>7, <1>8 DEF Next, CodeStep

(* TestGeneration is the last of the phases. *)
LEMMA TestsAreLast ==
  ASSUME AuthoringInv, Next, phase = "TestGeneration"
  PROVE  phase' = "TestGeneration"
  <1>0. at = "read" => role # "ASSESSOR"
    BY DEF AuthoringInv, RoleOfPhase, RolesOf, InTurn
  <1> USE DEF Goto, Proceed, Unchanged_Read, results, sessions, history
  <1>1. CASE PlanningStep
    BY <1>1, <1>0 DEF PlanningStep, SkipSimple, PlanInFull, ReadDesign, JudgePlan, RevisePlan,
       MergeFix, PlanSettled
  <1>2. CASE QuestionStep
    BY <1>2, <1>0 DEF QuestionStep, NoQuestions, AnswerOneself, UseOwnAnswers, AskQuestions, AskHuman
  <1>3. CASE AnalysisStep /\ ~SaveAnalysis
    BY <1>3, <1>0 DEF AnalysisStep, PrepareBranch, ReadAnalysis, ReadVerdict, ReadSpy, AfterReview,
       SendLastFix, CommitAnalysis, SaveFails, DeveloperDone
  <1>4. CASE TestStep
    BY <1>4, <1>0 DEF TestStep, ReadGaps, ReadGenerated, ReadRun, ReadTestFix
  <1>5. CASE SessionStep
    BY <1>5, <1>0 DEF SessionStep, OpenSession, OpenFails, SendPrompt, TurnFails, AbortSession,
       AfterPhase, AbortFails, CatchError
  <1>6. CASE AgentTurn \/ \E p \in Phases : AgentEndsAlone(p)
    BY <1>6, <1>0 DEF AgentTurn, AgentReplies, AgentEndsAlone
  <1>7. CASE HumanStep
    BY <1>7, <1>0 DEF HumanStep, QuestionsAnswered, PlanAnswered, TestsAnswered, GateAnswered,
       CancelApproval
  <1>8. CASE SaveAnalysis
    BY <1>8 DEF SaveAnalysis
  <1> QED
    BY <1>1, <1>2, <1>3, <1>4, <1>5, <1>6, <1>7, <1>8 DEF Next, CodeStep

(* Whatever the roles of Analysis say, leave unsaid or garble, the stories that
   are saved were accepted by a verdict of the last iteration, and are that
   iteration's own unless its analyst was not understood. *)
THEOREM OnlyAcceptedIsSaved == Spec => []SavedIsAccepted
  <1> USE DEF SavedIsAccepted, SavedWasAccepted, SavedIsJudged
  <1>1. Init => SavedIsAccepted
    BY DEF Init
  <1>2. AuthoringInv /\ SavedIsAccepted /\ [Next]_vars => SavedIsAccepted'
    <2> SUFFICES ASSUME AuthoringInv, SavedIsAccepted, [Next]_vars PROVE SavedIsAccepted'
      OBVIOUS
    <2>1. CASE UNCHANGED vars
      BY <2>1 DEF vars
    <2>2. CASE Next /\ SaveAnalysis
      <3>1. analysis.verdict = "approved" \/ analysis.verdict = "highScore" \/ ~Accepted
        BY DEF Accepted
      <3> QED
        BY <2>2, <3>1 DEF SaveAnalysis, AuthoringInv, RoleOfPhase, ApprovedIsAccepted, history
    <2>3. CASE Next /\ ~SaveAnalysis /\ at \in {"developer", "stopped"}
      BY <2>3, ConclusionStands
    <2>4. CASE Next /\ ~SaveAnalysis /\ at \notin {"developer", "stopped"}
      <3>1. saved' = saved
        BY <2>4, OnlySaveSaves
      <3>2. saved = 0 \/ phase' = "TestGeneration"
        BY <2>4, TestsAreLast DEF AuthoringInv, ApprovedIsAccepted
      <3> QED
        BY <3>1, <3>2
    <2> QED
      BY <2>1, <2>2, <2>3, <2>4
  <1> QED
    BY <1>1, <1>2, AuthoringIsConsistent, PTL DEF Spec

(* After a human has rejected or cancelled Planning or TestGeneration nothing
   prompts an agent: whatever is still on its way only aborts and returns. *)
THEOREM HaltedIsQuiet == Spec => HaltedPromptsNobody
  <1>1. AuthoringInv /\ [Next]_vars =>
           [halted \cap {"Planning", "TestGeneration"} # {} => working' \subseteq working]_vars
    <2> SUFFICES ASSUME AuthoringInv, Next, halted \cap {"Planning", "TestGeneration"} # {}
                 PROVE  working' \subseteq working
      OBVIOUS
    <2>1. at \notin {"ask", "lastFix"}
      BY DEF AuthoringInv, HaltedLeaves
    <2>2. working' \subseteq working \/ SendPrompt \/ SendLastFix
      BY OnlyPromptsWork
    <2> QED
      BY <2>1, <2>2 DEF SendPrompt, SendLastFix
  <1> QED
    BY <1>1, AuthoringIsConsistent, PTL DEF Spec, HaltedPromptsNobody
=============================================================================
