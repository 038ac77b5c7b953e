--------------------------- MODULE Delivery_proofs ---------------------------
(***************************************************************************)
(* Proofs about Delivery, for any set of repositories, any number of stories *)
(* and crashes and every way to call the merge phase.  The Developer phase's *)
(* invariant is taken from DeveloperPhase_proofs.                            *)
(***************************************************************************)
EXTENDS Delivery, DeveloperPhase_proofs

(* Nothing is delivered at first. *)
LEMMA DeliveryStarts == DeliveryInit => DeliveryInv
  <1> SUFFICES ASSUME DeliveryInit PROVE DeliveryInv
    OBVIOUS
  <1>1. DeveloperInv
    BY DeveloperStarts DEF DeliveryInit
  <1>2. DeliveryTypeOK
    BY <1>1 DEF DeliveryInit, DeliveryTypeOK, DeveloperInv, MergeSteps, Results
  <1>3. MergedIsWhole /\ MergeAfterStories /\ LandedIsMerged /\ HeadsAreAccepted
    BY DEF DeliveryInit, Init, MergedIsWhole, MergeAfterStories, LandedIsMerged,
           HeadsAreAccepted
  <1> QED
    BY <1>1, <1>2, <1>3 DEF DeliveryInv

-----------------------------------------------------------------------------
(* The steps of the merge phase. *)

(* After the last story, a step that only commits what is in a tree or looks
   away from an agent keeps the Developer phase's invariant. *)
LEMMA AfterTheStories ==
  ASSUME DeveloperInv, at = "done", UNCHANGED <<autoApprove, devVars>>,
         tree' \in [Repos -> SUBSET Stories],
         \A r \in Repos : tree'[r] \subseteq tree[r],
         branch' \in [Repos -> {"main", "task"}],
         spoiled' \in BOOLEAN, ~spoiled' => ~spoiled
  PROVE  DeveloperInv'
  <1> USE DEF devVars
  <1>1. TypeOK'
    BY DEF DeveloperInv, TypeOK
  <1>2. SavedUpToStory'
    BY DEF DeveloperInv, SavedUpToStory, InStory
  <1>3. ResultsInOrder'
    BY DEF DeveloperInv, ResultsInOrder
  <1>4. EditsOfOneStory'
    BY DEF DeveloperInv, EditsOfOneStory
  <1>5. TreesAreCleaned'
    BY DEF DeveloperInv, TreesAreCleaned, Settled, Dirty
  <1>6. CommitsOfApproved'
    BY DEF DeveloperInv, CommitsOfApproved
  <1> QED
    BY <1>1, <1>2, <1>3, <1>4, <1>5, <1>6 DEF DeveloperInv

(* The merge phase begins when the last story is saved, so the trees are clean. *)
LEMMA BeginMergeKeeps ==
  ASSUME DeliveryInv, BeginMerge
  PROVE  DeliveryInv'
  <1> USE DEF BeginMerge, Untouched
  <1>0. DeveloperInv'
    BY AfterTheStories DEF DeliveryInv, MergeAfterStories, DeveloperInv, TypeOK, devVars
  <1>1. DeliveryTypeOK'
    BY <1>0 DEF DeliveryInv, DeliveryTypeOK, DeveloperInv, MergeAfterStories, LandedIsMerged,
                MergeSteps, Results
  <1>2. MergedIsWhole'
    BY DEF DeliveryInv, DeliveryTypeOK, MergedIsWhole, MergeAfterStories, LandedIsMerged
  <1>3. MergeAfterStories'
    BY DEF DeliveryInv, DeliveryTypeOK, MergeAfterStories, devVars
  <1>4. LandedIsMerged'
    BY DEF DeliveryInv, DeliveryTypeOK, MergeAfterStories, LandedIsMerged
  <1>5. HeadsAreAccepted'
    BY DEF DeliveryInv, DeliveryTypeOK, HeadsAreAccepted, MergeAfterStories, devVars
  <1> QED
    BY <1>0, <1>1, <1>2, <1>3, <1>4, <1>5 DEF DeliveryInv

(* There is nothing left to commit unless an agent was left working or git failed. *)
LEMMA PushRemainingKeeps ==
  ASSUME NEW r \in Repos, NEW outcome \in CommitOutcomes, DeliveryInv, PushRemaining(r, outcome)
  PROVE  DeliveryInv'
  <1> USE DEF PushRemaining, Untouched
  <1>0. DeveloperInv'
    BY AfterTheStories DEF DeliveryInv, MergeAfterStories, DeveloperInv, TypeOK, devVars
  <1>a. /\ head \in [Repos -> SUBSET Stories] /\ tree \in [Repos -> SUBSET Stories]
        /\ tree[r] \subseteq Stories /\ head[r] \subseteq Stories
    BY DEF DeliveryInv, DeliveryTypeOK, DeveloperInv, TypeOK
  <1>b. head' \in [Repos -> SUBSET Stories]
    BY <1>a
  <1>1. DeliveryTypeOK'
    BY <1>0, <1>b DEF DeliveryInv, DeliveryTypeOK, DeveloperInv, MergeAfterStories, LandedIsMerged,
                MergeSteps, Results
  <1>2. MergedIsWhole'
    BY DEF DeliveryInv, DeliveryTypeOK, MergedIsWhole, MergeAfterStories, LandedIsMerged
  <1>3. MergeAfterStories'
    BY DEF DeliveryInv, DeliveryTypeOK, MergeAfterStories, devVars
  <1>4. LandedIsMerged'
    BY DEF DeliveryInv, DeliveryTypeOK, MergeAfterStories, LandedIsMerged
  <1>5. HeadsAreAccepted'
    <2>1. ~spoiled => tree[r] = {}
      BY DEF DeliveryInv, MergeAfterStories, DeveloperInv, SavedUpToStory,
             TreesAreCleaned, Settled, Dirty
    <2>2. ~spoiled => head' = head
      BY <1>a, <2>1
    <2> QED
      BY <2>2 DEF DeliveryInv, HeadsAreAccepted, devVars
  <1> QED
    BY <1>0, <1>1, <1>2, <1>3, <1>4, <1>5 DEF DeliveryInv

(* All repositories are pushed. *)
LEMMA PushDoneKeeps ==
  ASSUME DeliveryInv, PushDone
  PROVE  DeliveryInv'
  <1> USE DEF PushDone, Untouched
  <1>0. DeveloperInv'
    BY AfterTheStories DEF DeliveryInv, MergeAfterStories, DeveloperInv, TypeOK, devVars
  <1>1. DeliveryTypeOK'
    BY <1>0 DEF DeliveryInv, DeliveryTypeOK, DeveloperInv, MergeAfterStories, LandedIsMerged,
                MergeSteps, Results
  <1>2. MergedIsWhole'
    BY DEF DeliveryInv, DeliveryTypeOK, MergedIsWhole, MergeAfterStories, LandedIsMerged
  <1>3. MergeAfterStories'
    BY DEF DeliveryInv, DeliveryTypeOK, MergeAfterStories, devVars
  <1>4. LandedIsMerged'
    BY DEF DeliveryInv, DeliveryTypeOK, MergeAfterStories, LandedIsMerged
  <1>5. HeadsAreAccepted'
    BY DEF DeliveryInv, DeliveryTypeOK, HeadsAreAccepted, MergeAfterStories, devVars
  <1> QED
    BY <1>0, <1>1, <1>2, <1>3, <1>4, <1>5 DEF DeliveryInv

(* A repository gets its pull request, an error, or neither. *)
LEMMA CreatePullRequestKeeps ==
  ASSUME NEW r \in Repos, NEW outcome \in {"ok", "unread", "error"}, DeliveryInv, CreatePullRequest(r, outcome)
  PROVE  DeliveryInv'
  <1> USE DEF CreatePullRequest, Untouched, Creatable
  <1>0. DeveloperInv'
    BY AfterTheStories DEF DeliveryInv, MergeAfterStories, DeveloperInv, TypeOK, devVars
  <1>1. DeliveryTypeOK'
    BY <1>0 DEF DeliveryInv, DeliveryTypeOK, DeveloperInv, MergeAfterStories, LandedIsMerged,
                MergeSteps, Results
  <1>2. MergedIsWhole'
    BY DEF DeliveryInv, DeliveryTypeOK, MergedIsWhole, MergeAfterStories, LandedIsMerged
  <1>3. MergeAfterStories'
    BY DEF DeliveryInv, DeliveryTypeOK, MergeAfterStories, devVars
  <1>4. LandedIsMerged'
    BY DEF DeliveryInv, DeliveryTypeOK, MergeAfterStories, LandedIsMerged
  <1>5. HeadsAreAccepted'
    BY DEF DeliveryInv, DeliveryTypeOK, HeadsAreAccepted, MergeAfterStories, devVars
  <1> QED
    BY <1>0, <1>1, <1>2, <1>3, <1>4, <1>5 DEF DeliveryInv

(* All repositories have been tried. *)
LEMMA CreateDoneKeeps ==
  ASSUME DeliveryInv, CreateDone
  PROVE  DeliveryInv'
  <1> USE DEF CreateDone, Untouched
  <1>0. DeveloperInv'
    BY AfterTheStories DEF DeliveryInv, MergeAfterStories, DeveloperInv, TypeOK, devVars
  <1>1. DeliveryTypeOK'
    BY <1>0 DEF DeliveryInv, DeliveryTypeOK, DeveloperInv, MergeAfterStories, LandedIsMerged,
                MergeSteps, Results
  <1>2. MergedIsWhole'
    BY DEF DeliveryInv, DeliveryTypeOK, MergedIsWhole, MergeAfterStories, LandedIsMerged
  <1>3. MergeAfterStories'
    BY DEF DeliveryInv, DeliveryTypeOK, MergeAfterStories, devVars
  <1>4. LandedIsMerged'
    BY DEF DeliveryInv, DeliveryTypeOK, MergeAfterStories, LandedIsMerged
  <1>5. HeadsAreAccepted'
    BY DEF DeliveryInv, DeliveryTypeOK, HeadsAreAccepted, MergeAfterStories, devVars
  <1> QED
    BY <1>0, <1>1, <1>2, <1>3, <1>4, <1>5 DEF DeliveryInv

(* The first pull request is saved. *)
LEMMA SavePullRequestKeeps ==
  ASSUME NEW r \in Repos, DeliveryInv, SavePullRequest(r)
  PROVE  DeliveryInv'
  <1> USE DEF SavePullRequest, Untouched
  <1>0. DeveloperInv'
    BY AfterTheStories DEF DeliveryInv, MergeAfterStories, DeveloperInv, TypeOK, devVars
  <1>1. DeliveryTypeOK'
    BY <1>0 DEF DeliveryInv, DeliveryTypeOK, DeveloperInv, MergeAfterStories, LandedIsMerged,
                MergeSteps, Results
  <1>2. MergedIsWhole'
    BY DEF DeliveryInv, DeliveryTypeOK, MergedIsWhole, MergeAfterStories, LandedIsMerged
  <1>3. MergeAfterStories'
    BY DEF DeliveryInv, DeliveryTypeOK, MergeAfterStories, devVars
  <1>4. LandedIsMerged'
    BY DEF DeliveryInv, DeliveryTypeOK, MergeAfterStories, LandedIsMerged
  <1>5. HeadsAreAccepted'
    BY DEF DeliveryInv, DeliveryTypeOK, HeadsAreAccepted, MergeAfterStories, devVars
  <1> QED
    BY <1>0, <1>1, <1>2, <1>3, <1>4, <1>5 DEF DeliveryInv

(* The decision to merge. *)
LEMMA DecideKeeps ==
  ASSUME DeliveryInv, Decide
  PROVE  DeliveryInv'
  <1> USE DEF Decide, Untouched, Approved
  <1>0. DeveloperInv'
    BY AfterTheStories DEF DeliveryInv, MergeAfterStories, DeveloperInv, TypeOK, devVars
  <1>1. DeliveryTypeOK'
    BY <1>0 DEF DeliveryInv, DeliveryTypeOK, DeveloperInv, MergeAfterStories, LandedIsMerged,
                MergeSteps, Results
  <1>2. MergedIsWhole'
    BY DEF DeliveryInv, DeliveryTypeOK, MergedIsWhole, MergeAfterStories, LandedIsMerged
  <1>3. MergeAfterStories'
    BY DEF DeliveryInv, DeliveryTypeOK, MergeAfterStories, devVars
  <1>4. LandedIsMerged'
    BY DEF DeliveryInv, DeliveryTypeOK, MergeAfterStories, LandedIsMerged
  <1>5. HeadsAreAccepted'
    BY DEF DeliveryInv, DeliveryTypeOK, HeadsAreAccepted, MergeAfterStories, devVars
  <1> QED
    BY <1>0, <1>1, <1>2, <1>3, <1>4, <1>5 DEF DeliveryInv

(* The answer of the human. *)
LEMMA AnswerKeeps ==
  ASSUME NEW yes \in BOOLEAN, DeliveryInv, Answer(yes)
  PROVE  DeliveryInv'
  <1> USE DEF Answer, Untouched
  <1>0. DeveloperInv'
    BY AfterTheStories DEF DeliveryInv, MergeAfterStories, DeveloperInv, TypeOK, devVars
  <1>1. DeliveryTypeOK'
    BY <1>0 DEF DeliveryInv, DeliveryTypeOK, DeveloperInv, MergeAfterStories, LandedIsMerged,
                MergeSteps, Results
  <1>2. MergedIsWhole'
    BY DEF DeliveryInv, DeliveryTypeOK, MergedIsWhole, MergeAfterStories, LandedIsMerged
  <1>3. MergeAfterStories'
    BY DEF DeliveryInv, DeliveryTypeOK, MergeAfterStories, devVars
  <1>4. LandedIsMerged'
    BY DEF DeliveryInv, DeliveryTypeOK, MergeAfterStories, LandedIsMerged
  <1>5. HeadsAreAccepted'
    BY DEF DeliveryInv, DeliveryTypeOK, HeadsAreAccepted, MergeAfterStories, devVars
  <1> QED
    BY <1>0, <1>1, <1>2, <1>3, <1>4, <1>5 DEF DeliveryInv

(* A pull request is merged or passed over. *)
LEMMA MergePullRequestKeeps ==
  ASSUME NEW r \in Repos, NEW mergeable \in BOOLEAN, NEW ghFails \in BOOLEAN, DeliveryInv, MergePullRequest(r, PullRequestStatus(r, mergeable), ghFails)
  PROVE  DeliveryInv'
  <1> USE DEF MergePullRequest, Untouched, SquashMerge, PullRequestStatus
  <1>0. DeveloperInv'
    BY AfterTheStories DEF DeliveryInv, MergeAfterStories, DeveloperInv, TypeOK, devVars
  <1>1. DeliveryTypeOK'
    BY <1>0 DEF DeliveryInv, DeliveryTypeOK, DeveloperInv, MergeAfterStories, LandedIsMerged,
                MergeSteps, Results
  <1>2. MergedIsWhole'
    BY DEF DeliveryInv, DeliveryTypeOK, MergedIsWhole, MergeAfterStories, LandedIsMerged
  <1>3. MergeAfterStories'
    BY DEF DeliveryInv, DeliveryTypeOK, MergeAfterStories, devVars
  <1>4. LandedIsMerged'
    BY DEF DeliveryInv, DeliveryTypeOK, MergeAfterStories, LandedIsMerged
  <1>5. HeadsAreAccepted'
    BY DEF DeliveryInv, DeliveryTypeOK, HeadsAreAccepted, MergeAfterStories, devVars
  <1> QED
    BY <1>0, <1>1, <1>2, <1>3, <1>4, <1>5 DEF DeliveryInv

(* The report. *)
LEMMA MergeDoneKeeps ==
  ASSUME DeliveryInv, MergeDone
  PROVE  DeliveryInv'
  <1> USE DEF MergeDone, Untouched, Report
  <1>0. DeveloperInv'
    BY AfterTheStories DEF DeliveryInv, MergeAfterStories, DeveloperInv, TypeOK, devVars
  <1>1. DeliveryTypeOK'
    BY <1>0 DEF DeliveryInv, DeliveryTypeOK, DeveloperInv, MergeAfterStories, LandedIsMerged,
                MergeSteps, Results
  <1>2. MergedIsWhole'
    BY DEF DeliveryInv, DeliveryTypeOK, MergedIsWhole, MergeAfterStories, LandedIsMerged
  <1>3. MergeAfterStories'
    BY DEF DeliveryInv, DeliveryTypeOK, MergeAfterStories, devVars
  <1>4. LandedIsMerged'
    BY DEF DeliveryInv, DeliveryTypeOK, MergeAfterStories, LandedIsMerged
  <1>5. HeadsAreAccepted'
    BY DEF DeliveryInv, DeliveryTypeOK, HeadsAreAccepted, MergeAfterStories, devVars
  <1> QED
    BY <1>0, <1>1, <1>2, <1>3, <1>4, <1>5 DEF DeliveryInv

-----------------------------------------------------------------------------
(* The other steps. *)

(* A step of the Developer phase moves to a branch what the commit loop takes
   from a tree, and the commit loop is entered only with an accepted story or
   with nothing to commit. *)
LEMMA DeveloperStepKeeps ==
  ASSUME DeliveryInv, DeveloperStep
  PROVE  DeliveryInv'
  <1>0. DeveloperInv'
    BY DeveloperSteps DEF DeliveryInv, DeveloperStep
  <1>a. /\ TypeOK /\ TypeOK'
        /\ head \in [Repos -> SUBSET Stories] /\ accepted \subseteq Stories
    BY <1>0 DEF DeliveryInv, DeveloperInv, DeliveryTypeOK
  <1>b. head' \in [Repos -> SUBSET Stories]
    <2>1. \A r \in Repos : Committed(r) \subseteq Stories
      BY <1>a DEF Committed, TypeOK
    <2> QED
      BY <1>a, <2>1 DEF DeveloperStep
  <1>c. accepted' \subseteq Stories
    <2>1. at \in {"approve", "wait"} => story \in Stories
      BY <1>a, Sizes DEF DeliveryInv, DeveloperInv, SavedUpToStory, InStory, TypeOK, Stories
    <2> QED
      BY <1>a, <2>1 DEF DeveloperStep
  <1>1. DeliveryTypeOK'
    BY <1>a, <1>b, <1>c DEF DeliveryInv, DeliveryTypeOK, DeveloperStep
  <1>2. MergedIsWhole' /\ MergeAfterStories' /\ LandedIsMerged'
    BY DEF DeliveryInv, DeveloperStep, MergedIsWhole, MergeAfterStories, LandedIsMerged
  <1>3. HeadsAreAccepted'
    <2> SUFFICES ASSUME ~spoiled'
                 PROVE  /\ \A r \in Repos : head'[r] \subseteq accepted'
                        /\ at' = "commit" /\ verdict' = "approved" => story' \in accepted'
      BY DEF HeadsAreAccepted
    <2>1. ~spoiled
      BY OnlySpoils DEF DeveloperStep
    <2>2. accepted \subseteq accepted'
      BY DEF DeveloperStep
    <2>3. \A r \in Repos : Committed(r) \subseteq accepted
      <3>1. ASSUME NEW r \in Repos, at = "commit" PROVE tree[r] \subseteq accepted
        <4>1. saved = story
          BY <3>1 DEF DeliveryInv, DeveloperInv, SavedUpToStory, InStory
        <4>2. tree[r] \subseteq {story}
          BY <2>1, <4>1 DEF DeliveryInv, DeveloperInv, EditsOfOneStory
        <4>3. verdict = "rejected" => tree[r] = {}
          BY <2>1, <3>1 DEF DeliveryInv, DeveloperInv, TreesAreCleaned, Settled, Dirty
        <4>4. verdict = "approved" => story \in accepted
          BY <2>1, <3>1 DEF DeliveryInv, HeadsAreAccepted
        <4> QED
          BY <1>a, <4>2, <4>3, <4>4 DEF TypeOK, Verdicts
      <3> QED
        BY <3>1 DEF Committed
    <2>4. \A r \in Repos : head'[r] \subseteq accepted'
      BY <2>1, <2>2, <2>3 DEF DeveloperStep, DeliveryInv, HeadsAreAccepted
    <2>5. ASSUME at' = "commit", verdict' = "approved" PROVE story' \in accepted'
      <3>1. \/ at = "commit" /\ verdict = verdict' /\ story' = story
            \/ at \in {"approve", "wait"} /\ verdict = verdict' /\ story' = story
        BY <2>5, CommitIsEntered DEF DeveloperStep
      <3> QED
        BY <2>1, <2>2, <2>5, <3>1 DEF DeveloperStep, DeliveryInv, HeadsAreAccepted
    <2> QED
      BY <2>4, <2>5
  <1> QED
    BY <1>0, <1>1, <1>2, <1>3 DEF DeliveryInv

(* Agents that go on edit trees the merge phase knows to be spoiled. *)
LEMMA AgentsGoOnKeeps ==
  ASSUME DeliveryInv, AgentsGoOn
  PROVE  DeliveryInv'
  <1> USE DEF AgentsGoOn, mergeVars
  <1>0. DeveloperInv'
    BY AgentEditsKeeps, AgentFinishesKeeps DEF DeliveryInv, AgentStep
  <1>a. UNCHANGED <<at, verdict, story, spoiled>>
    BY DEF AgentStep, AgentEdits, AgentFinishes, Loop
  <1> HIDE DEF AgentsGoOn
  <1>b. UNCHANGED mergeVars
    BY DEF AgentsGoOn
  <1>1. DeliveryTypeOK'
    BY <1>0, <1>b DEF DeliveryInv, DeliveryTypeOK, DeveloperInv
  <1>2. MergedIsWhole' /\ MergeAfterStories' /\ LandedIsMerged' /\ HeadsAreAccepted'
    BY <1>a, <1>b DEF DeliveryInv, MergedIsWhole, MergeAfterStories, LandedIsMerged,
                      HeadsAreAccepted
  <1> QED
    BY <1>0, <1>1, <1>2 DEF DeliveryInv

(* People close pull requests, never one that is merged. *)
LEMMA CloseOnGitHubKeeps ==
  ASSUME NEW r \in Repos, DeliveryInv, CloseOnGitHub(r)
  PROVE  DeliveryInv'
  <1> USE DEF CloseOnGitHub
  <1>0. DeveloperInv'
    BY DeveloperStutters DEF DeliveryInv
  <1>1. DeliveryTypeOK'
    BY <1>0 DEF DeliveryInv, DeliveryTypeOK, DeveloperInv
  <1>2. MergedIsWhole'
    BY DEF DeliveryInv, MergedIsWhole
  <1>3. MergeAfterStories' /\ HeadsAreAccepted'
    BY DEF DeliveryInv, MergeAfterStories, HeadsAreAccepted, vars
  <1>4. LandedIsMerged'
    BY DEF DeliveryInv, DeliveryTypeOK, LandedIsMerged
  <1> QED
    BY <1>0, <1>1, <1>2, <1>3, <1>4 DEF DeliveryInv

(* A user commits by hand. *)
LEMMA UserCommitsKeeps ==
  ASSUME NEW r \in Repos, DeliveryInv, UserCommits(r)
  PROVE  DeliveryInv'
  <1> USE DEF UserCommits, Untouched
  <1>a. /\ head \in [Repos -> SUBSET Stories] /\ tree \in [Repos -> SUBSET Stories]
        /\ tree[r] \subseteq Stories /\ head[r] \subseteq Stories
    BY DEF DeliveryInv, DeliveryTypeOK, DeveloperInv, TypeOK
  <1>b. /\ head' \in [Repos -> SUBSET Stories] /\ tree' \in [Repos -> SUBSET Stories]
    BY <1>a
  <1>0. DeveloperInv'
    <2>1. TypeOK'
      BY <1>b DEF DeliveryInv, DeveloperInv, TypeOK, devVars
    <2>2. SavedUpToStory' /\ ResultsInOrder'
      BY DEF DeliveryInv, DeveloperInv, SavedUpToStory, ResultsInOrder, InStory, devVars
    <2>3. EditsOfOneStory' /\ TreesAreCleaned' /\ CommitsOfApproved'
      BY DEF EditsOfOneStory, TreesAreCleaned, CommitsOfApproved
    <2> QED
      BY <2>1, <2>2, <2>3 DEF DeveloperInv
  <1>1. DeliveryTypeOK'
    BY <1>0, <1>b DEF DeliveryInv, DeliveryTypeOK, DeveloperInv
  <1>2. MergedIsWhole' /\ MergeAfterStories' /\ LandedIsMerged' /\ HeadsAreAccepted'
    BY DEF DeliveryInv, MergedIsWhole, MergeAfterStories, LandedIsMerged, HeadsAreAccepted,
           devVars
  <1> QED
    BY <1>0, <1>1, <1>2 DEF DeliveryInv

(* The server dies while it merges: every story is saved, and the trees are as
   clean as they were. *)
LEMMA CrashInMergeKeeps ==
  ASSUME DeliveryInv, CrashInMerge
  PROVE  DeliveryInv'
  <1> USE DEF CrashInMerge
  <1>0. DeveloperInv'
    BY RestartKeeps DEF DeliveryInv
  <1>1. DeliveryTypeOK'
    BY <1>0 DEF DeliveryInv, DeliveryTypeOK, DeveloperInv, MergeSteps
  <1>2. MergedIsWhole' /\ MergeAfterStories' /\ LandedIsMerged' /\ HeadsAreAccepted'
    BY DEF DeliveryInv, MergedIsWhole, MergeAfterStories, LandedIsMerged, HeadsAreAccepted,
           Restart
  <1> QED
    BY <1>0, <1>1, <1>2 DEF DeliveryInv

-----------------------------------------------------------------------------
(* The theorems. *)

(* The merge phase and the Developer phase before it keep in step with the
   repositories and with GitHub; in particular "merged" is reported only when
   every pull request of the run is merged. *)
THEOREM DeliveryIsConsistent == DeliverySpec => []DeliveryInv
  <1>1. DeliveryInv /\ [DeliveryNext]_allVars => DeliveryInv'
    <2> SUFFICES ASSUME DeliveryInv, [DeliveryNext]_allVars PROVE DeliveryInv'
      OBVIOUS
    <2>1. CASE MergeStep
      BY <2>1, BeginMergeKeeps, PushRemainingKeeps, PushDoneKeeps, CreatePullRequestKeeps,
         CreateDoneKeeps, SavePullRequestKeeps, DecideKeeps, AnswerKeeps,
         MergePullRequestKeeps, MergeDoneKeeps DEF MergeStep
    <2>2. CASE DeveloperStep \/ AgentsGoOn \/ CrashInMerge
      BY <2>2, DeveloperStepKeeps, AgentsGoOnKeeps, CrashInMergeKeeps
    <2>3. CASE \E r \in Repos : CloseOnGitHub(r) \/ UserCommits(r)
      BY <2>3, CloseOnGitHubKeeps, UserCommitsKeeps
    <2>4. CASE UNCHANGED allVars
      <3>1. DeveloperInv'
        BY <2>4, DeveloperStutters DEF DeliveryInv, allVars
      <3>2. DeliveryTypeOK'
        BY <2>4, <3>1 DEF DeliveryInv, DeliveryTypeOK, DeveloperInv, allVars, mergeVars
      <3>3. MergedIsWhole' /\ MergeAfterStories' /\ LandedIsMerged' /\ HeadsAreAccepted'
        BY <2>4 DEF DeliveryInv, MergedIsWhole, MergeAfterStories, LandedIsMerged,
                    HeadsAreAccepted, allVars, vars, mergeVars
      <3> QED
        BY <3>1, <3>2, <3>3 DEF DeliveryInv
    <2> QED
      BY <2>1, <2>2, <2>3, <2>4 DEF DeliveryNext
  <1> QED
    BY DeliveryStarts, <1>1, PTL DEF DeliverySpec

(* Nothing reaches a branch but what judge, build and human let through, over
   any number of crashes in either phase. *)
THEOREM DeliveredIsAccepted == DeliverySpec => []OnlyAcceptedIsDelivered
  <1>1. DeliveryInv => OnlyAcceptedIsDelivered
    BY DEF DeliveryInv, HeadsAreAccepted, OnlyAcceptedIsDelivered
  <1> QED
    BY DeliveryIsConsistent, <1>1, PTL

(* No pull request is merged without autoMerge or a yes given in this run. *)
THEOREM MergesHaveConsent == DeliverySpec => []MergeNeedsConsent
  <1>1. DeliveryInv => MergeNeedsConsent
    BY DEF DeliveryInv, LandedIsMerged, MergeNeedsConsent
  <1> QED
    BY DeliveryIsConsistent, <1>1, PTL
=============================================================================
