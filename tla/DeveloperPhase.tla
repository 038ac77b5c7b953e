--------------------------- MODULE DeveloperPhase ---------------------------
(***************************************************************************)
(* executeDeveloperPhase of orchestration/phases/DeveloperPhaseV2.ts, the    *)
(* working trees it shares with the coding agents, and the git operations   *)
(* that end a story: commit and push, or discard.                           *)
(*                                                                         *)
(* A story has a session of its own: DEV, JUDGE and SPY prompts, then FIX    *)
(* prompts while the judge asks for revisions.  An approved story is built, *)
(* shown to a human and committed; any other story is rolled back.  The      *)
(* agent runs in the OpenCode server: it edits files as long as it works on *)
(* a prompt, also when the phase no longer waits for it, and it survives a  *)
(* crash of this server.                                                    *)
(*                                                                         *)
(* An edit is named by the story it was made for.  A session is the story   *)
(* and the run (number of crashes) that opened it.                          *)
(***************************************************************************)
EXTENDS Naturals, FiniteSets

CONSTANTS
    Repos,              \* repositories of the task
    Primary,            \* the one determineWorkingDirectory picks
    BranchIn,           \* repositories that have the task's branch
    Buildable,          \* repositories with a build system runBuildCheck knows
    NumStories,         \* stories of the analysis
    MaxIterations,      \* judge iterations of a story
    MaxBuildAttempts,   \* builds of a story
    GitErrors,          \* BOOLEAN: may a git command fail?
    MaxCrashes          \* bound: crashes of the server

ASSUME DeveloperConstants ==
    /\ IsFiniteSet(Repos) /\ Primary \in Repos
    /\ Primary \in BranchIn /\ BranchIn \subseteq Repos
    /\ Buildable \subseteq Repos
    /\ {NumStories, MaxIterations, MaxBuildAttempts} \subseteq Nat \ {0}
    /\ MaxCrashes \in Nat
    /\ GitErrors \in BOOLEAN

VARIABLES
    autoApprove,    \* the context's autoApprove: no human is asked
    at,         \* the step the phase is at
    story,      \* index of the loop over the stories
    from,       \* startFromStoryIndex
    count,      \* iterations and builds of this story
    todo,       \* repositories the commit or discard loop has not reached
    results,    \* story -> verdicts pushed to storyResultsV2, as a pair of counts
    verdict,    \* storyResultV2.verdict of the story in progress
    saved,      \* last_completed_story_index + 1
    working,    \* sessions whose agent works on a prompt
    tree,       \* repository -> stories with uncommitted edits in it
    branch,     \* repository -> the branch that is checked out
    commits,    \* edits committed in this run: branch, and the story committed
    spoiled,    \* an agent was left working, or a git command failed
    crashes     \* number of crashes

vars == <<autoApprove, at, story, from, count, todo, results, verdict, saved, working, tree,
          branch, commits, spoiled, crashes>>

Stories == 0..NumStories - 1
Sessions == Stories \X (0..MaxCrashes)
Verdicts == {"approved", "rejected"}
Steps == {"checkout", "next", "dev", "judge", "check", "build", "undoBuild", "approve",
          "wait", "feedback", "commit", "undo", "record", "done"}
Commits == [branch : {"main", "task"}, edit : Stories, under : Stories]
CommitOutcomes == {"ok", "commit fails", "push fails"}
NoCount == [iterations |-> 0, builds |-> 0]

TypeOK ==
    /\ autoApprove \in BOOLEAN
    /\ at \in Steps
    /\ story \in 0..NumStories
    /\ from \in 0..NumStories
    /\ count \in [iterations : 0..MaxIterations, builds : 0..MaxBuildAttempts]
    /\ todo \subseteq Repos
    /\ results \in [Stories -> [Verdicts -> 0..2]]
    /\ verdict \in Verdicts
    /\ saved \in 0..NumStories
    /\ working \subseteq Sessions
    /\ tree \in [Repos -> SUBSET Stories]
    /\ branch \in [Repos -> {"main", "task"}]
    /\ commits \subseteq Commits
    /\ spoiled \in BOOLEAN
    /\ crashes \in 0..MaxCrashes

NoResults == [s \in Stories |-> [v \in Verdicts |-> 0]]

(* The Analysis phase has created the task's branch in the primary repository
   and checked it out; another repository has one only if somebody made it. *)
Init ==
    /\ autoApprove \in BOOLEAN
    /\ at = "checkout" /\ story = 0 /\ from = 0
    /\ count = NoCount /\ todo = {}
    /\ results = NoResults /\ verdict = "approved"
    /\ saved = 0
    /\ working = {}
    /\ tree = [r \in Repos |-> {}]
    /\ branch = [r \in Repos |-> IF r = Primary THEN "task" ELSE "main"]
    /\ commits = {}
    /\ spoiled = FALSE
    /\ crashes = 0

Session == <<story, crashes>>

(* What the agents and the repositories have; what the loop has. *)
Outside == <<working, tree, branch, commits, crashes>>
Loop == <<story, from, results, saved>>

Push(v) == results' = [results EXCEPT ![story][v] = @ + 1]

-----------------------------------------------------------------------------
(* The loop over the stories. *)

(* createBranch(taskId, directory) is called with the path first: git runs in
   a directory named like the branch, which does not exist, and throws. *)
CreateBranch(r) == FALSE

(* checkout, which fails where the branch does not exist; where createBranch
   fails too the repository stays on the branch it is on. *)
CheckoutBranches ==
    /\ at = "checkout"
    /\ at' = "next"
    /\ branch' = [r \in Repos |-> IF r \in BranchIn \/ CreateBranch(r)
                             THEN "task" ELSE branch[r]]
    /\ UNCHANGED <<count, todo, verdict, working, tree, commits, spoiled, crashes>>
    /\ UNCHANGED Loop

(* A story below startFromStoryIndex gets a placeholder result. *)
SkipStory ==
    /\ at = "next" /\ story < NumStories /\ story < from
    /\ Push("approved")
    /\ story' = story + 1
    /\ UNCHANGED <<at, from, saved, count, todo, verdict, spoiled>>
    /\ UNCHANGED Outside

(* createSession, registerSession, and the DEV prompt. *)
StartStory ==
    /\ at = "next" /\ story < NumStories /\ story >= from
    /\ at' = "dev"
    /\ count' = [NoCount EXCEPT !.iterations = 1]
    /\ working' = working \cup {Session}
    /\ UNCHANGED <<todo, verdict, tree, branch, commits, spoiled, crashes>>
    /\ UNCHANGED Loop

(* The loop is over. *)
Finish ==
    /\ at = "next" /\ story = NumStories
    /\ at' = "done"
    /\ UNCHANGED <<count, todo, verdict, spoiled>> /\ UNCHANGED Loop
    /\ UNCHANGED Outside

-----------------------------------------------------------------------------
(* The agents. *)

AgentEdits(a, r) ==
    /\ a \in working
    /\ tree' = [tree EXCEPT ![r] = @ \cup {a[1]}]
    /\ UNCHANGED <<at, count, todo, verdict, working, branch, commits, spoiled, crashes>>
    /\ UNCHANGED Loop

AgentFinishes(a) ==
    /\ a \in working
    /\ working' = working \ {a}
    /\ UNCHANGED <<at, count, todo, verdict, tree, branch, commits, spoiled, crashes>>
    /\ UNCHANGED Loop

-----------------------------------------------------------------------------
(* executeStoryWithSession. *)

(* The end of a story begins: whoever still works will not be waited for. *)
Conclude(step, v) ==
    /\ at' = step
    /\ verdict' = v
    /\ todo' = Repos
    /\ spoiled' = (spoiled \/ working # {})

(* waitForIdle returns: the DEV or FIX prompt is done. *)
DevDone ==
    /\ at = "dev" /\ Session \notin working
    /\ at' = "judge"
    /\ UNCHANGED <<count, todo, verdict, spoiled>> /\ UNCHANGED Loop
    /\ UNCHANGED Outside

(* A prompt fails, a wait times out, or a session row cannot be written: the
   story is rejected, the session unregistered, the agent not stopped. *)
StoryThrows ==
    /\ at \in {"dev", "judge"}
    /\ Conclude("undo", "rejected")
    /\ UNCHANGED count /\ UNCHANGED Loop /\ UNCHANGED Outside

(* What the JUDGE prompt asks for, and what an agent may answer instead: no
   JSON block, or a block without a verdict. *)
JudgeReplies == [json : BOOLEAN, verdict : {"approved", "needs_revision", "rejected", "none"},
                 issues : BOOLEAN]

(* parseJudgeVerdict: what cannot be read asks for a revision and names no
   issue. *)
ParseJudgeVerdict(reply) ==
    [verdict |-> IF reply.json /\ reply.verdict # "none" THEN reply.verdict
                                                        ELSE "needs_revision",
     issues |-> reply.json /\ reply.issues]

(* JUDGE and SPY have answered.  A revision without issues is accepted as it
   is. *)
JudgeApproves(judged) ==
    /\ at = "judge"
    /\ \/ judged.verdict = "approved"
       \/ judged.verdict = "needs_revision" /\ ~judged.issues
    /\ at' = "check" /\ verdict' = "approved"
    /\ UNCHANGED <<count, todo, spoiled>> /\ UNCHANGED Loop
    /\ UNCHANGED Outside

JudgeRejects(judged) ==
    /\ at = "judge" /\ judged.verdict = "rejected"
    /\ Conclude("undo", "rejected")
    /\ UNCHANGED count /\ UNCHANGED Loop /\ UNCHANGED Outside

(* Mutant of JudgeRevises: the iterations used are not counted. *)
Bug_IterationsNotCounted(judged) ==
    /\ at = "judge" /\ judged.verdict = "needs_revision" /\ judged.issues
    /\ working' = working \cup {Session}
    /\ at' = "dev"
    /\ UNCHANGED <<todo, verdict, spoiled, count>>
    /\ UNCHANGED <<tree, branch, commits, crashes>> /\ UNCHANGED Loop

(* needs_revision with issues: a FIX prompt is sent.  The next iteration
   waits for it; after the last iteration nobody does, and the story is
   rolled back while the agent works. *)
JudgeRevises(judged) ==
    /\ at = "judge" /\ judged.verdict = "needs_revision" /\ judged.issues
    /\ working' = working \cup {Session}
    /\ IF count.iterations < MaxIterations
       THEN /\ count' = [count EXCEPT !.iterations = @ + 1]
            /\ at' = "dev"
            /\ UNCHANGED <<todo, verdict, spoiled>>
       ELSE /\ at' = "undo" /\ verdict' = "rejected" /\ todo' = Repos
            /\ spoiled' = TRUE
            /\ UNCHANGED count
    /\ UNCHANGED <<tree, branch, commits, crashes>> /\ UNCHANGED Loop

-----------------------------------------------------------------------------
(* The end of an approved story: build, approval, commit. *)

Dirty == {r \in Repos : tree[r] # {}}

(* hasChanges of every repository; one whose git fails is passed over.  A
   story without changes is done. *)
CheckChanges(unseen) ==
    /\ at = "check"
    /\ unseen = {} \/ GitErrors
    /\ IF Dirty \subseteq unseen
       THEN at' = "record" /\ spoiled' = (spoiled \/ Dirty # {} \/ working # {})
       ELSE at' = "build" /\ spoiled' = spoiled
    /\ UNCHANGED <<count, todo, verdict>> /\ UNCHANGED Loop
    /\ UNCHANGED Outside

(* runBuildCheck: a repository without a known build system passes. *)
CheckOutcomes(r) == IF r \in Buildable THEN BOOLEAN ELSE {TRUE}

(* runBuildChecksOnRepos builds what has changes; a repository whose git
   fails counts as a failed build. *)
MayFail == {r \in Repos : GitErrors \/ (r \in Dirty /\ FALSE \in CheckOutcomes(r))}

BuildPasses ==
    /\ at = "build"
    /\ at' = "approve"
    /\ UNCHANGED <<count, todo, verdict, spoiled>> /\ UNCHANGED Loop
    /\ UNCHANGED Outside

(* A failed build is put to the agent; the session is unregistered, so the
   wait for the agent runs into its timeout and the build is tried again
   while the agent may still be working. *)
BuildFails ==
    /\ at = "build" /\ MayFail # {} /\ count.builds + 1 < MaxBuildAttempts
    /\ count' = [count EXCEPT !.builds = @ + 1]
    /\ working' = working \cup {Session}
    /\ UNCHANGED <<at, todo, verdict, tree, branch, commits, spoiled, crashes>>
    /\ UNCHANGED Loop

(* Mutant of BuildGivesUp: the changes of the failed build stay. *)
Bug_NoBuildRollback ==
    /\ at = "build" /\ MayFail # {} /\ count.builds + 1 = MaxBuildAttempts
    /\ count' = [count EXCEPT !.builds = @ + 1]
    /\ at' = "approve" /\ verdict' = "rejected"
    /\ Push("rejected")
    /\ UNCHANGED <<story, from, saved, todo, spoiled>> /\ UNCHANGED Outside

(* The last build fails: the result is rejected and pushed, the changes are
   discarded.  `continue` only ends the loop of the builds. *)
BuildGivesUp ==
    /\ at = "build" /\ MayFail # {} /\ count.builds + 1 = MaxBuildAttempts
    /\ count' = [count EXCEPT !.builds = @ + 1]
    /\ Conclude("undoBuild", "rejected")
    /\ Push("rejected")
    /\ UNCHANGED <<story, from, saved>> /\ UNCHANGED Outside

(* requestApproval, in manual mode. *)
AskApproval ==
    /\ at = "approve" /\ ~autoApprove
    /\ at' = "wait"
    /\ UNCHANGED <<count, todo, verdict, spoiled>> /\ UNCHANGED Loop
    /\ UNCHANGED Outside

(* The story goes to the commit loop; its result keeps its verdict. *)
Accept ==
    /\ \/ at = "approve" /\ autoApprove
       \/ at = "wait"
    /\ Conclude("commit", verdict)
    /\ UNCHANGED count /\ UNCHANGED Loop /\ UNCHANGED Outside

(* reject, request_changes without a text, or cancelTask. *)
Refuse ==
    /\ at = "wait"
    /\ Conclude("undo", "rejected")
    /\ UNCHANGED count /\ UNCHANGED Loop /\ UNCHANGED Outside

(* request_changes: the text is sent to the session of the story. *)
RequestChanges ==
    /\ at = "wait"
    /\ at' = "feedback"
    /\ working' = working \cup {Session}
    /\ UNCHANGED <<count, todo, verdict, tree, branch, commits, spoiled, crashes>>
    /\ UNCHANGED Loop

(* The session was unregistered when its story was judged, so its idle event
   is dropped: the wait can only time out, which counts as a rejection. *)
FeedbackTimesOut ==
    /\ at = "feedback"
    /\ Conclude("undo", "rejected")
    /\ UNCHANGED count /\ UNCHANGED Loop /\ UNCHANGED Outside

(* commitAndPush of a repository with changes; its errors are caught.  A
   commit whose push fails stays in the local branch and is pushed with the
   next one. *)
CommitRepo(r, outcome) ==
    /\ at = "commit" /\ r \in todo
    /\ todo' = todo \ {r}
    /\ outcome = "ok" \/ GitErrors
    /\ IF outcome = "commit fails"
       THEN /\ spoiled' = TRUE
            /\ UNCHANGED <<tree, commits>>
       ELSE /\ commits' = commits \cup {[branch |-> branch[r], edit |-> e,
                                         under |-> story] : e \in tree[r]}
            /\ tree' = [tree EXCEPT ![r] = {}]
            /\ spoiled' = spoiled
    /\ UNCHANGED <<at, count, verdict, working, branch, crashes>>
    /\ UNCHANGED Loop

(* Mutant of UndoRepo: only the primary repository is rolled back. *)
Bug_PrimaryOnly(r, fails) ==
    /\ at \in {"undo", "undoBuild"} /\ r \in todo
    /\ todo' = todo \ {r}
    /\ tree' = IF r = Primary THEN [tree EXCEPT ![r] = {}] ELSE tree
    /\ spoiled' = spoiled
    /\ UNCHANGED <<at, count, verdict, working, branch, commits, crashes>>
    /\ UNCHANGED Loop

(* discardChanges: reset --hard and clean, whose errors are caught. *)
DiscardChanges(r, fails) ==
    IF fails
    THEN /\ GitErrors
         /\ spoiled' = TRUE
         /\ UNCHANGED tree
    ELSE /\ tree' = [tree EXCEPT ![r] = {}]
         /\ spoiled' = spoiled

(* The rollback of a repository. *)
UndoRepo(r, fails) ==
    /\ at \in {"undo", "undoBuild"} /\ r \in todo
    /\ todo' = todo \ {r}
    /\ DiscardChanges(r, fails)
    /\ UNCHANGED <<at, count, verdict, working, branch, commits, crashes>>
    /\ UNCHANGED Loop

(* The loop over the repositories is over. *)
ReposDone ==
    /\ at \in {"commit", "undo", "undoBuild"} /\ todo = {}
    /\ at' = IF at = "undoBuild" THEN "approve" ELSE "record"
    /\ UNCHANGED <<count, todo, verdict, spoiled>> /\ UNCHANGED Loop
    /\ UNCHANGED Outside

(* The result is pushed and onStoryComplete saves the index. *)
RecordStory ==
    /\ at = "record"
    /\ Push(verdict)
    /\ saved' = story + 1
    /\ story' = story + 1
    /\ at' = "next" /\ count' = NoCount
    /\ UNCHANGED <<from, todo, verdict, spoiled>> /\ UNCHANGED Outside

(* The server dies; the task is resumed at the first story that is not saved.
   The agents and the working trees are where they were. *)
Restart ==
    /\ crashes < MaxCrashes
    /\ crashes' = crashes + 1
    /\ at' = "checkout" /\ story' = 0 /\ from' = saved
    /\ count' = NoCount /\ todo' = {}
    /\ results' = NoResults /\ verdict' = "approved"
    /\ commits' = {}
    /\ UNCHANGED <<saved, working, tree, branch, spoiled>>

CrashAndResume == at # "done" /\ Restart

-----------------------------------------------------------------------------
PhaseStep ==
    \/ CheckoutBranches \/ SkipStory \/ StartStory \/ Finish
    \/ DevDone \/ StoryThrows
    \/ \E reply \in JudgeReplies : LET judged == ParseJudgeVerdict(reply)
                                   IN JudgeApproves(judged) \/ JudgeRejects(judged)
                                        \/ JudgeRevises(judged)
    \/ \E unseen \in SUBSET Repos : CheckChanges(unseen)
    \/ BuildPasses \/ BuildFails \/ BuildGivesUp
    \/ AskApproval \/ Accept \/ Refuse \/ RequestChanges \/ FeedbackTimesOut
    \/ \E r \in Repos, outcome \in CommitOutcomes : CommitRepo(r, outcome)
    \/ \E r \in Repos, fails \in BOOLEAN : UndoRepo(r, fails)
    \/ ReposDone \/ RecordStory

AgentStep ==
    \E a \in Sessions : AgentFinishes(a) \/ \E r \in Repos : AgentEdits(a, r)

Next ==
    /\ PhaseStep \/ AgentStep \/ CrashAndResume
    /\ UNCHANGED autoApprove

Spec == Init /\ [][Next]_vars

(* The phase runs on (every wait for an agent has a timeout), and the human
   answers. *)
FairSpec == Spec /\ WF_vars(PhaseStep /\ UNCHANGED autoApprove)

-----------------------------------------------------------------------------
(* Every story starts from clean working trees: unless an agent was left
   working or git failed, a story that is over has been committed or rolled
   back in all repositories, also when its build failed, its human refused
   it, or the server crashed in the middle of it. *)
CleanBetweenStories ==
    at = "next" /\ story > from /\ ~spoiled => Dirty = {}

(* A story whose result is rejected has left nothing in the branch, also when
   the failed build falls through to the approval and the commit. *)
RejectedIsNotCommitted ==
    ~spoiled => \A c \in commits : results[c.under]["rejected"] = 0

-----------------------------------------------------------------------------
(* The inductive invariant: why the two properties above hold. *)

InStory == at \notin {"checkout", "next", "done"}

(* Nobody works, and no repository has uncommitted edits. *)
Settled == working = {} /\ Dirty = {}

(* The story in progress is the first one that is not saved. *)
SavedUpToStory ==
    /\ at = "checkout" => story = 0 /\ saved = from
    /\ at = "next" => saved = (IF story > from THEN story ELSE from)
    /\ InStory => from <= story /\ story < NumStories /\ saved = story
    /\ at = "done" => saved = NumStories

(* Stories to come have no result.  The story in progress has one only after
   its last build failed, and from then on its verdict is "rejected". *)
ResultsInOrder ==
    /\ at \in {"check", "build"} => verdict = "approved"
    /\ \A s \in Stories :
          /\ s > story => results[s] = [v \in Verdicts |-> 0]
          /\ s = story =>
                /\ results[s]["approved"] = 0
                /\ \/ results[s]["rejected"] = 0
                   \/ /\ results[s]["rejected"] = 1 /\ verdict = "rejected"
                      /\ at \in {"undoBuild", "approve", "wait", "feedback", "commit",
                                "undo", "record"}

(* Whatever is edited, also what a crash left behind, is of the first story
   that is not saved. *)
EditsOfOneStory ==
    ~spoiled => /\ \A r \in Repos : tree[r] \subseteq {saved}
                /\ \A a \in working : a[1] = saved

(* The loops over the repositories clean them one by one; a rejected story
   that falls through to the approval has nothing left to commit. *)
TreesAreCleaned ==
    ~spoiled =>
        /\ at \in {"commit", "undo", "undoBuild"} =>
              working = {} /\ \A r \in Repos \ todo : tree[r] = {}
        /\ at \in {"approve", "wait", "commit"} /\ verdict = "rejected" => Settled
        /\ at = "record" => Settled
        /\ at = "next" /\ story > from => Settled
        /\ saved = NumStories => Settled

(* A commit under the story in progress is one of an approved story. *)
CommitsOfApproved ==
    ~spoiled => \A c \in commits :
        /\ results[c.under]["rejected"] = 0
        /\ c.under <= story
        /\ c.under = story => at \in {"commit", "record"} /\ verdict = "approved"

DeveloperInv ==
    /\ TypeOK /\ SavedUpToStory /\ ResultsInOrder /\ EditsOfOneStory
    /\ TreesAreCleaned /\ CommitsOfApproved

-----------------------------------------------------------------------------
(* The phase ends: no story, no judge, no build and no human keeps it for
   ever. *)
PhaseEnds == <>(at = "done")

-----------------------------------------------------------------------------
(* What the code's own words promise and the code does not keep. *)

(* "Judge verdict: ... - changes discarded", "User rejected - changes
   discarded": no commit carries the edits of another story. *)
DiscardedStaysOut == \A c \in commits : c.edit = c.under

(* "Skip to next story": a story whose build failed has one result. *)
OneResult == \A s \in Stories : results[s]["approved"] + results[s]["rejected"] <= 1

(* "Checkout branch in ALL repositories": every commit is on the branch of
   the task. *)
TaskBranchOnly == \A c \in commits : c.branch = "task"
=============================================================================
