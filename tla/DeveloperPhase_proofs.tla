------------------------ MODULE DeveloperPhase_proofs ------------------------
(***************************************************************************)
(* Proofs about DeveloperPhase, for any number of repositories, stories,     *)
(* iterations, builds and crashes: the parts of DeveloperInv explain each    *)
(* other, and the two properties of the working trees and of the commits    *)
(* follow from it.                                                          *)
(***************************************************************************)
EXTENDS DeveloperPhase, TLAPS

(* What the assumptions on the constants say of the sets built from them. *)
LEMMA Sizes ==
    /\ NumStories \in Nat /\ NumStories > 0
    /\ MaxIterations \in Nat /\ MaxIterations > 0
    /\ MaxBuildAttempts \in Nat /\ MaxBuildAttempts > 0
    /\ MaxCrashes \in Nat
    /\ Primary \in Repos
BY DeveloperConstants

(* A new verdict of the story in progress: the other stories keep theirs. *)
LEMMA PushVerdict ==
    ASSUME TypeOK, story \in Stories, NEW v \in Verdicts, Push(v), results[story][v] < 2
    PROVE  /\ results' \in [Stories -> [Verdicts -> 0..2]]
           /\ \A s \in Stories : s # story => results'[s] = results[s]
           /\ results'[story][v] = results[story][v] + 1
           /\ \A w \in Verdicts : w # v => results'[story][w] = results[story][w]
<1> DEFINE row == [results[story] EXCEPT ![v] = @ + 1]
<1>1. results \in [Stories -> [Verdicts -> 0..2]]
  BY DEF TypeOK
<1>2. results[story] \in [Verdicts -> 0..2]
  BY <1>1
<1>3. row \in [Verdicts -> 0..2] /\ row[v] = results[story][v] + 1
      /\ \A w \in Verdicts : w # v => row[w] = results[story][w]
  <2>1. results[story][v] \in 0..2 /\ results[story][v] + 1 \in 0..2
    BY <1>2
  <2> QED
    BY <1>2, <2>1
<1>4. results' = [results EXCEPT ![story] = row]
  BY DEF Push
<1> HIDE DEF row
<1> QED
  BY <1>1, <1>3, <1>4

(* The phase begins as DeveloperInv says. *)
LEMMA DeveloperStarts == Init => DeveloperInv
<1> SUFFICES ASSUME Init PROVE DeveloperInv
  OBVIOUS
<1> USE Sizes
<1>1. TypeOK
  <2>1. results \in [Stories -> [Verdicts -> 0..2]]
    BY DEF Init, NoResults
  <2>2. count \in [iterations : 0..MaxIterations, builds : 0..MaxBuildAttempts]
    BY DEF Init, NoCount
  <2>3. tree \in [Repos -> SUBSET Stories] /\ branch \in [Repos -> {"main", "task"}]
    BY DEF Init
  <2>4. autoApprove \in BOOLEAN /\ spoiled \in BOOLEAN
    BY DEF Init
  <2>5. story \in 0..NumStories /\ crashes \in 0..MaxCrashes
    BY DEF Init
  <2> QED
    BY <2>1, <2>2, <2>3, <2>4, <2>5 DEF Init, TypeOK, Steps, Verdicts
<1>2. SavedUpToStory
  BY DEF Init, SavedUpToStory, InStory
<1>3. ResultsInOrder
  <2>1. \A s \in Stories : results[s] = [v \in Verdicts |-> 0]
    BY DEF Init, NoResults
  <2>2. \A s \in Stories : results[s]["approved"] = 0 /\ results[s]["rejected"] = 0
    BY <2>1 DEF Verdicts
  <2> QED
    BY <2>1, <2>2 DEF Init, ResultsInOrder
<1>4. EditsOfOneStory /\ TreesAreCleaned /\ CommitsOfApproved
  BY DEF Init, EditsOfOneStory, TreesAreCleaned, CommitsOfApproved, Settled, Dirty
<1> QED
  BY <1>1, <1>2, <1>3, <1>4 DEF DeveloperInv

-----------------------------------------------------------------------------
(* The steps. *)

(* Checking out touches no tree. *)
LEMMA CheckoutBranchesKeeps ==
  ASSUME DeveloperInv, autoApprove' = autoApprove, CheckoutBranches
  PROVE  DeveloperInv'
  <1> USE Sizes DEF CheckoutBranches, Loop
  <1>1. TypeOK'
    BY DEF DeveloperInv, TypeOK, SavedUpToStory, InStory, Steps, Verdicts, Stories, Sessions
  <1>2. SavedUpToStory'
    BY DEF DeveloperInv, TypeOK, SavedUpToStory, InStory
  <1>3. ResultsInOrder'
    BY DEF DeveloperInv, TypeOK, ResultsInOrder
  <1>4. EditsOfOneStory'
    BY DEF DeveloperInv, TypeOK, EditsOfOneStory, SavedUpToStory, InStory
  <1>5. TreesAreCleaned'
    BY DEF DeveloperInv, TypeOK, TreesAreCleaned, SavedUpToStory, InStory, ResultsInOrder, Settled, Dirty
  <1>6. CommitsOfApproved'
    BY DEF DeveloperInv, TypeOK, CommitsOfApproved
  <1> QED
    BY <1>1, <1>2, <1>3, <1>4, <1>5, <1>6 DEF DeveloperInv

(* A story that was saved before the crash gets its placeholder. *)
LEMMA SkipStoryKeeps ==
  ASSUME DeveloperInv, autoApprove' = autoApprove, SkipStory
  PROVE  DeveloperInv'
  <1> USE Sizes DEF SkipStory, Outside
  <1> DEFINE kept == /\ results' \in [Stories -> [Verdicts -> 0..2]]
                     /\ \A s \in Stories : s # story => results'[s] = results[s]
                     /\ results'[story]["approved"] = results[story]["approved"] + 1
                     /\ \A w \in Verdicts : w # "approved" => results'[story][w] = results[story][w]
  <1>a. /\ story \in Stories /\ "approved" \in Verdicts /\ results[story]["approved"] \in 0..1
        /\ Push("approved")
    BY DEF DeveloperInv, TypeOK, SavedUpToStory, InStory, ResultsInOrder, Stories, Verdicts
  <1>b. kept
    BY <1>a, PushVerdict DEF DeveloperInv
  <1> HIDE DEF kept
  <1>c. \A s \in Stories : s > story => /\ results[s]["approved"] = 0
                                        /\ results[s]["rejected"] = 0
    BY DEF DeveloperInv, ResultsInOrder, Verdicts
  <1>1. TypeOK'
    BY <1>a, <1>b DEF kept, DeveloperInv, TypeOK, Steps, Verdicts, Stories
  <1>2. SavedUpToStory'
    BY DEF DeveloperInv, TypeOK, SavedUpToStory, InStory
  <1>3. ResultsInOrder'
    BY <1>a, <1>b, <1>c DEF kept, DeveloperInv, TypeOK, ResultsInOrder, Stories
  <1>4. EditsOfOneStory'
    BY DEF DeveloperInv, TypeOK, EditsOfOneStory, SavedUpToStory, InStory
  <1>5. TreesAreCleaned'
    BY DEF DeveloperInv, TypeOK, TreesAreCleaned, SavedUpToStory, InStory, ResultsInOrder, Settled, Dirty
  <1>6. CommitsOfApproved'
    BY <1>a, <1>b DEF kept, DeveloperInv, TypeOK, CommitsOfApproved, Commits, Stories
  <1> QED
    BY <1>1, <1>2, <1>3, <1>4, <1>5, <1>6 DEF DeveloperInv

(* A story begins: its agent is the only one that may work. *)
LEMMA StartStoryKeeps ==
  ASSUME DeveloperInv, autoApprove' = autoApprove, StartStory
  PROVE  DeveloperInv'
  <1> USE Sizes DEF StartStory, Loop, Session, NoCount
  <1>1. TypeOK'
    BY DEF DeveloperInv, TypeOK, SavedUpToStory, InStory, Steps, Verdicts, Stories, Sessions
  <1>2. SavedUpToStory'
    BY DEF DeveloperInv, TypeOK, SavedUpToStory, InStory
  <1>3. ResultsInOrder'
    BY DEF DeveloperInv, TypeOK, ResultsInOrder
  <1>4. EditsOfOneStory'
    BY DEF DeveloperInv, TypeOK, EditsOfOneStory, SavedUpToStory, InStory
  <1>5. TreesAreCleaned'
    BY DEF DeveloperInv, TypeOK, TreesAreCleaned, SavedUpToStory, InStory, ResultsInOrder, Settled, Dirty
  <1>6. CommitsOfApproved'
    BY DEF DeveloperInv, TypeOK, CommitsOfApproved
  <1> QED
    BY <1>1, <1>2, <1>3, <1>4, <1>5, <1>6 DEF DeveloperInv

(* The loop ends with every story saved. *)
LEMMA FinishKeeps ==
  ASSUME DeveloperInv, autoApprove' = autoApprove, Finish
  PROVE  DeveloperInv'
  <1> USE Sizes DEF Finish, Loop, Outside
  <1>1. TypeOK'
    BY DEF DeveloperInv, TypeOK, SavedUpToStory, InStory, Steps, Verdicts, Stories, Sessions
  <1>2. SavedUpToStory'
    BY DEF DeveloperInv, TypeOK, SavedUpToStory, InStory
  <1>3. ResultsInOrder'
    BY DEF DeveloperInv, TypeOK, ResultsInOrder
  <1>4. EditsOfOneStory'
    BY DEF DeveloperInv, TypeOK, EditsOfOneStory, SavedUpToStory, InStory
  <1>5. TreesAreCleaned'
    BY DEF DeveloperInv, TypeOK, TreesAreCleaned, SavedUpToStory, InStory, ResultsInOrder, Settled, Dirty
  <1>6. CommitsOfApproved'
    BY DEF DeveloperInv, TypeOK, CommitsOfApproved
  <1> QED
    BY <1>1, <1>2, <1>3, <1>4, <1>5, <1>6 DEF DeveloperInv

(* A prompt is done. *)
LEMMA DevDoneKeeps ==
  ASSUME DeveloperInv, autoApprove' = autoApprove, DevDone
  PROVE  DeveloperInv'
  <1> USE Sizes DEF DevDone, Loop, Outside
  <1>1. TypeOK'
    BY DEF DeveloperInv, TypeOK, SavedUpToStory, InStory, Steps, Verdicts, Stories, Sessions
  <1>2. SavedUpToStory'
    BY DEF DeveloperInv, TypeOK, SavedUpToStory, InStory
  <1>3. ResultsInOrder'
    BY DEF DeveloperInv, TypeOK, ResultsInOrder
  <1>4. EditsOfOneStory'
    BY DEF DeveloperInv, TypeOK, EditsOfOneStory, SavedUpToStory, InStory
  <1>5. TreesAreCleaned'
    BY DEF DeveloperInv, TypeOK, TreesAreCleaned, SavedUpToStory, InStory, ResultsInOrder, Settled, Dirty
  <1>6. CommitsOfApproved'
    BY DEF DeveloperInv, TypeOK, CommitsOfApproved
  <1> QED
    BY <1>1, <1>2, <1>3, <1>4, <1>5, <1>6 DEF DeveloperInv

(* A story that throws is rolled back. *)
LEMMA StoryThrowsKeeps ==
  ASSUME DeveloperInv, autoApprove' = autoApprove, StoryThrows
  PROVE  DeveloperInv'
  <1> USE Sizes DEF StoryThrows, Conclude, Loop, Outside
  <1>1. TypeOK'
    BY DEF DeveloperInv, TypeOK, SavedUpToStory, InStory, Steps, Verdicts, Stories, Sessions
  <1>2. SavedUpToStory'
    BY DEF DeveloperInv, TypeOK, SavedUpToStory, InStory
  <1>3. ResultsInOrder'
    BY DEF DeveloperInv, TypeOK, ResultsInOrder
  <1>4. EditsOfOneStory'
    BY DEF DeveloperInv, TypeOK, EditsOfOneStory, SavedUpToStory, InStory
  <1>5. TreesAreCleaned'
    BY DEF DeveloperInv, TypeOK, TreesAreCleaned, SavedUpToStory, InStory, ResultsInOrder, Settled, Dirty
  <1>6. CommitsOfApproved'
    BY DEF DeveloperInv, TypeOK, CommitsOfApproved
  <1> QED
    BY <1>1, <1>2, <1>3, <1>4, <1>5, <1>6 DEF DeveloperInv

(* An approval. *)
LEMMA JudgeApprovesKeeps ==
  ASSUME NEW judged, DeveloperInv, autoApprove' = autoApprove, JudgeApproves(judged)
  PROVE  DeveloperInv'
  <1> USE Sizes DEF JudgeApproves, Loop, Outside
  <1>1. TypeOK'
    BY DEF DeveloperInv, TypeOK, SavedUpToStory, InStory, Steps, Verdicts, Stories, Sessions
  <1>2. SavedUpToStory'
    BY DEF DeveloperInv, TypeOK, SavedUpToStory, InStory
  <1>3. ResultsInOrder'
    BY DEF DeveloperInv, TypeOK, ResultsInOrder
  <1>4. EditsOfOneStory'
    BY DEF DeveloperInv, TypeOK, EditsOfOneStory, SavedUpToStory, InStory
  <1>5. TreesAreCleaned'
    BY DEF DeveloperInv, TypeOK, TreesAreCleaned, SavedUpToStory, InStory, ResultsInOrder, Settled, Dirty
  <1>6. CommitsOfApproved'
    BY DEF DeveloperInv, TypeOK, CommitsOfApproved
  <1> QED
    BY <1>1, <1>2, <1>3, <1>4, <1>5, <1>6 DEF DeveloperInv

(* A rejection is rolled back. *)
LEMMA JudgeRejectsKeeps ==
  ASSUME NEW judged, DeveloperInv, autoApprove' = autoApprove, JudgeRejects(judged)
  PROVE  DeveloperInv'
  <1> USE Sizes DEF JudgeRejects, Conclude, Loop, Outside
  <1>1. TypeOK'
    BY DEF DeveloperInv, TypeOK, SavedUpToStory, InStory, Steps, Verdicts, Stories, Sessions
  <1>2. SavedUpToStory'
    BY DEF DeveloperInv, TypeOK, SavedUpToStory, InStory
  <1>3. ResultsInOrder'
    BY DEF DeveloperInv, TypeOK, ResultsInOrder
  <1>4. EditsOfOneStory'
    BY DEF DeveloperInv, TypeOK, EditsOfOneStory, SavedUpToStory, InStory
  <1>5. TreesAreCleaned'
    BY DEF DeveloperInv, TypeOK, TreesAreCleaned, SavedUpToStory, InStory, ResultsInOrder, Settled, Dirty
  <1>6. CommitsOfApproved'
    BY DEF DeveloperInv, TypeOK, CommitsOfApproved
  <1> QED
    BY <1>1, <1>2, <1>3, <1>4, <1>5, <1>6 DEF DeveloperInv

(* A revision, or the last one, after which an agent is left working. *)
LEMMA JudgeRevisesKeeps ==
  ASSUME NEW judged, DeveloperInv, autoApprove' = autoApprove, JudgeRevises(judged)
  PROVE  DeveloperInv'
  <1> USE Sizes DEF JudgeRevises, Loop, Session
  <1>a. count' \in [iterations : 0..MaxIterations, builds : 0..MaxBuildAttempts]
    BY DEF DeveloperInv, TypeOK
  <1>b. working' \subseteq Sessions
    BY DEF DeveloperInv, TypeOK, SavedUpToStory, InStory, Sessions, Stories
  <1>1. TypeOK'
    BY <1>a, <1>b DEF DeveloperInv, TypeOK, Steps, Verdicts
  <1>2. SavedUpToStory'
    BY DEF DeveloperInv, TypeOK, SavedUpToStory, InStory
  <1>3. ResultsInOrder'
    BY DEF DeveloperInv, TypeOK, ResultsInOrder
  <1>4. EditsOfOneStory'
    BY DEF DeveloperInv, TypeOK, EditsOfOneStory, SavedUpToStory, InStory
  <1>5. TreesAreCleaned'
    BY DEF DeveloperInv, TypeOK, TreesAreCleaned, SavedUpToStory, InStory, ResultsInOrder, Settled, Dirty
  <1>6. CommitsOfApproved'
    BY DEF DeveloperInv, TypeOK, CommitsOfApproved
  <1> QED
    BY <1>1, <1>2, <1>3, <1>4, <1>5, <1>6 DEF DeveloperInv

(* A story without changes is over. *)
LEMMA CheckChangesKeeps ==
  ASSUME NEW unseen \in SUBSET Repos, DeveloperInv, autoApprove' = autoApprove, CheckChanges(unseen)
  PROVE  DeveloperInv'
  <1> USE Sizes DEF CheckChanges, Loop, Outside
  <1>1. TypeOK'
    BY DEF DeveloperInv, TypeOK, SavedUpToStory, InStory, Steps, Verdicts, Stories, Sessions
  <1>2. SavedUpToStory'
    BY DEF DeveloperInv, TypeOK, SavedUpToStory, InStory
  <1>3. ResultsInOrder'
    BY DEF DeveloperInv, TypeOK, ResultsInOrder
  <1>4. EditsOfOneStory'
    BY DEF DeveloperInv, TypeOK, EditsOfOneStory, SavedUpToStory, InStory
  <1>5. TreesAreCleaned'
    BY DEF DeveloperInv, TypeOK, TreesAreCleaned, SavedUpToStory, InStory, ResultsInOrder, Settled, Dirty
  <1>6. CommitsOfApproved'
    BY DEF DeveloperInv, TypeOK, CommitsOfApproved
  <1> QED
    BY <1>1, <1>2, <1>3, <1>4, <1>5, <1>6 DEF DeveloperInv

(* A build passes. *)
LEMMA BuildPassesKeeps ==
  ASSUME DeveloperInv, autoApprove' = autoApprove, BuildPasses
  PROVE  DeveloperInv'
  <1> USE Sizes DEF BuildPasses, Loop, Outside
  <1>1. TypeOK'
    BY DEF DeveloperInv, TypeOK, SavedUpToStory, InStory, Steps, Verdicts, Stories, Sessions
  <1>2. SavedUpToStory'
    BY DEF DeveloperInv, TypeOK, SavedUpToStory, InStory
  <1>3. ResultsInOrder'
    BY DEF DeveloperInv, TypeOK, ResultsInOrder
  <1>4. EditsOfOneStory'
    BY DEF DeveloperInv, TypeOK, EditsOfOneStory, SavedUpToStory, InStory
  <1>5. TreesAreCleaned'
    BY DEF DeveloperInv, TypeOK, TreesAreCleaned, SavedUpToStory, InStory, ResultsInOrder, Settled, Dirty
  <1>6. CommitsOfApproved'
    BY DEF DeveloperInv, TypeOK, CommitsOfApproved
  <1> QED
    BY <1>1, <1>2, <1>3, <1>4, <1>5, <1>6 DEF DeveloperInv

(* A build fails and the agent works on. *)
LEMMA BuildFailsKeeps ==
  ASSUME DeveloperInv, autoApprove' = autoApprove, BuildFails
  PROVE  DeveloperInv'
  <1> USE Sizes DEF BuildFails, Loop, Session
  <1>1. TypeOK'
    BY SMTT(30) DEF DeveloperInv, TypeOK, SavedUpToStory, InStory, Steps, Verdicts, Stories, Sessions
  <1>2. SavedUpToStory'
    BY DEF DeveloperInv, TypeOK, SavedUpToStory, InStory
  <1>3. ResultsInOrder'
    BY DEF DeveloperInv, TypeOK, ResultsInOrder
  <1>4. EditsOfOneStory'
    BY DEF DeveloperInv, TypeOK, EditsOfOneStory, SavedUpToStory, InStory
  <1>5. TreesAreCleaned'
    BY DEF DeveloperInv, TypeOK, TreesAreCleaned, SavedUpToStory, InStory, ResultsInOrder, Settled, Dirty
  <1>6. CommitsOfApproved'
    BY DEF DeveloperInv, TypeOK, CommitsOfApproved
  <1> QED
    BY <1>1, <1>2, <1>3, <1>4, <1>5, <1>6 DEF DeveloperInv

(* The last build fails: the first result of the story is pushed. *)
LEMMA BuildGivesUpKeeps ==
  ASSUME DeveloperInv, autoApprove' = autoApprove, BuildGivesUp
  PROVE  DeveloperInv'
  <1> USE Sizes DEF BuildGivesUp, Conclude, Outside
  <1> DEFINE kept == /\ results' \in [Stories -> [Verdicts -> 0..2]]
                     /\ \A s \in Stories : s # story => results'[s] = results[s]
                     /\ results'[story]["rejected"] = results[story]["rejected"] + 1
                     /\ \A w \in Verdicts : w # "rejected" => results'[story][w] = results[story][w]
  <1>a. /\ story \in Stories /\ "rejected" \in Verdicts /\ results[story]["rejected"] \in 0..1
        /\ Push("rejected")
    BY DEF DeveloperInv, TypeOK, SavedUpToStory, InStory, ResultsInOrder, Stories, Verdicts
  <1>b. kept
    BY <1>a, PushVerdict DEF DeveloperInv
  <1> HIDE DEF kept
  <1>c. \A s \in Stories : s > story => /\ results[s]["approved"] = 0
                                        /\ results[s]["rejected"] = 0
    BY DEF DeveloperInv, ResultsInOrder, Verdicts
  <1>d. count' \in [iterations : 0..MaxIterations, builds : 0..MaxBuildAttempts]
    BY DEF DeveloperInv, TypeOK
  <1>1. TypeOK'
    BY <1>a, <1>b, <1>d DEF kept, DeveloperInv, TypeOK, Steps, Verdicts, Stories
  <1>2. SavedUpToStory'
    BY DEF DeveloperInv, TypeOK, SavedUpToStory, InStory
  <1>3. ResultsInOrder'
    BY <1>a, <1>b, <1>c DEF kept, DeveloperInv, TypeOK, ResultsInOrder, Stories, Verdicts
  <1>4. EditsOfOneStory'
    BY DEF DeveloperInv, TypeOK, EditsOfOneStory, SavedUpToStory, InStory
  <1>5. TreesAreCleaned'
    BY DEF DeveloperInv, TypeOK, TreesAreCleaned, SavedUpToStory, InStory, ResultsInOrder, Settled, Dirty
  <1>6. CommitsOfApproved'
    BY <1>a, <1>b DEF kept, DeveloperInv, TypeOK, CommitsOfApproved, Commits, Stories
  <1> QED
    BY <1>1, <1>2, <1>3, <1>4, <1>5, <1>6 DEF DeveloperInv

(* The human is asked. *)
LEMMA AskApprovalKeeps ==
  ASSUME DeveloperInv, autoApprove' = autoApprove, AskApproval
  PROVE  DeveloperInv'
  <1> USE Sizes DEF AskApproval, Loop, Outside
  <1>1. TypeOK'
    BY DEF DeveloperInv, TypeOK, SavedUpToStory, InStory, Steps, Verdicts, Stories, Sessions
  <1>2. SavedUpToStory'
    BY DEF DeveloperInv, TypeOK, SavedUpToStory, InStory
  <1>3. ResultsInOrder'
    BY DEF DeveloperInv, TypeOK, ResultsInOrder
  <1>4. EditsOfOneStory'
    BY DEF DeveloperInv, TypeOK, EditsOfOneStory, SavedUpToStory, InStory
  <1>5. TreesAreCleaned'
    BY DEF DeveloperInv, TypeOK, TreesAreCleaned, SavedUpToStory, InStory, ResultsInOrder, Settled, Dirty
  <1>6. CommitsOfApproved'
    BY DEF DeveloperInv, TypeOK, CommitsOfApproved
  <1> QED
    BY <1>1, <1>2, <1>3, <1>4, <1>5, <1>6 DEF DeveloperInv

(* The story goes to the commit loop. *)
LEMMA AcceptKeeps ==
  ASSUME DeveloperInv, autoApprove' = autoApprove, Accept
  PROVE  DeveloperInv'
  <1> USE Sizes DEF Accept, Conclude, Loop, Outside
  <1>1. TypeOK'
    BY DEF DeveloperInv, TypeOK, SavedUpToStory, InStory, Steps, Verdicts, Stories, Sessions
  <1>2. SavedUpToStory'
    BY DEF DeveloperInv, TypeOK, SavedUpToStory, InStory
  <1>3. ResultsInOrder'
    BY DEF DeveloperInv, TypeOK, ResultsInOrder
  <1>4. EditsOfOneStory'
    BY DEF DeveloperInv, TypeOK, EditsOfOneStory, SavedUpToStory, InStory
  <1>5. TreesAreCleaned'
    BY DEF DeveloperInv, TypeOK, TreesAreCleaned, SavedUpToStory, InStory, ResultsInOrder, Settled, Dirty
  <1>6. CommitsOfApproved'
    BY DEF DeveloperInv, TypeOK, CommitsOfApproved
  <1> QED
    BY <1>1, <1>2, <1>3, <1>4, <1>5, <1>6 DEF DeveloperInv

(* The human refuses. *)
LEMMA RefuseKeeps ==
  ASSUME DeveloperInv, autoApprove' = autoApprove, Refuse
  PROVE  DeveloperInv'
  <1> USE Sizes DEF Refuse, Conclude, Loop, Outside
  <1>1. TypeOK'
    BY DEF DeveloperInv, TypeOK, SavedUpToStory, InStory, Steps, Verdicts, Stories, Sessions
  <1>2. SavedUpToStory'
    BY DEF DeveloperInv, TypeOK, SavedUpToStory, InStory
  <1>3. ResultsInOrder'
    BY DEF DeveloperInv, TypeOK, ResultsInOrder
  <1>4. EditsOfOneStory'
    BY DEF DeveloperInv, TypeOK, EditsOfOneStory, SavedUpToStory, InStory
  <1>5. TreesAreCleaned'
    BY DEF DeveloperInv, TypeOK, TreesAreCleaned, SavedUpToStory, InStory, ResultsInOrder, Settled, Dirty
  <1>6. CommitsOfApproved'
    BY DEF DeveloperInv, TypeOK, CommitsOfApproved
  <1> QED
    BY <1>1, <1>2, <1>3, <1>4, <1>5, <1>6 DEF DeveloperInv

(* The human wants changes. *)
LEMMA RequestChangesKeeps ==
  ASSUME DeveloperInv, autoApprove' = autoApprove, RequestChanges
  PROVE  DeveloperInv'
  <1> USE Sizes DEF RequestChanges, Loop, Session
  <1>1. TypeOK'
    BY DEF DeveloperInv, TypeOK, SavedUpToStory, InStory, Steps, Verdicts, Stories, Sessions
  <1>2. SavedUpToStory'
    BY DEF DeveloperInv, TypeOK, SavedUpToStory, InStory
  <1>3. ResultsInOrder'
    BY DEF DeveloperInv, TypeOK, ResultsInOrder
  <1>4. EditsOfOneStory'
    BY DEF DeveloperInv, TypeOK, EditsOfOneStory, SavedUpToStory, InStory
  <1>5. TreesAreCleaned'
    BY DEF DeveloperInv, TypeOK, TreesAreCleaned, SavedUpToStory, InStory, ResultsInOrder, Settled, Dirty
  <1>6. CommitsOfApproved'
    BY DEF DeveloperInv, TypeOK, CommitsOfApproved
  <1> QED
    BY <1>1, <1>2, <1>3, <1>4, <1>5, <1>6 DEF DeveloperInv

(* The wait for the changes times out. *)
LEMMA FeedbackTimesOutKeeps ==
  ASSUME DeveloperInv, autoApprove' = autoApprove, FeedbackTimesOut
  PROVE  DeveloperInv'
  <1> USE Sizes DEF FeedbackTimesOut, Conclude, Loop, Outside
  <1>1. TypeOK'
    BY DEF DeveloperInv, TypeOK, SavedUpToStory, InStory, Steps, Verdicts, Stories, Sessions
  <1>2. SavedUpToStory'
    BY DEF DeveloperInv, TypeOK, SavedUpToStory, InStory
  <1>3. ResultsInOrder'
    BY DEF DeveloperInv, TypeOK, ResultsInOrder
  <1>4. EditsOfOneStory'
    BY DEF DeveloperInv, TypeOK, EditsOfOneStory, SavedUpToStory, InStory
  <1>5. TreesAreCleaned'
    BY DEF DeveloperInv, TypeOK, TreesAreCleaned, SavedUpToStory, InStory, ResultsInOrder, Settled, Dirty
  <1>6. CommitsOfApproved'
    BY DEF DeveloperInv, TypeOK, CommitsOfApproved
  <1> QED
    BY <1>1, <1>2, <1>3, <1>4, <1>5, <1>6 DEF DeveloperInv

(* One repository is committed. *)
LEMMA CommitRepoKeeps ==
  ASSUME NEW r \in Repos, NEW outcome \in CommitOutcomes, DeveloperInv, autoApprove' = autoApprove, CommitRepo(r, outcome)
  PROVE  DeveloperInv'
  <1> USE Sizes
  <1>0. at = "commit"
    BY DEF CommitRepo
  <1>b. story \in Stories
    BY <1>0 DEF DeveloperInv, TypeOK, SavedUpToStory, InStory, Stories
  <1> DEFINE new == {[branch |-> branch[r], edit |-> e, under |-> story] : e \in tree[r]}
  <1>d. /\ new \subseteq Commits
        /\ \A c \in new : c.under = story /\ tree[r] # {}
    <2>1. branch[r] \in {"main", "task"} /\ tree[r] \subseteq Stories
      BY DEF DeveloperInv, TypeOK
    <2> QED
      BY <1>b, <2>1 DEF Commits
  <1>e. commits' = commits \/ commits' = commits \cup new
    BY DEF CommitRepo
  <1> HIDE DEF new
  <1>c. \A c \in commits' : \/ c \in commits
                            \/ c \in Commits /\ c.under = story /\ tree[r] # {}
    BY <1>d, <1>e
  <1> USE DEF CommitRepo, Loop
  <1>a. tree \in [Repos -> SUBSET Stories] /\ tree' \in [Repos -> SUBSET Stories]
    BY DEF DeveloperInv, TypeOK
  <1>1. TypeOK'
    BY <1>a, <1>c DEF DeveloperInv, TypeOK
  <1>2. SavedUpToStory'
    BY DEF DeveloperInv, TypeOK, SavedUpToStory, InStory
  <1>3. ResultsInOrder'
    BY DEF DeveloperInv, TypeOK, ResultsInOrder
  <1>4. EditsOfOneStory'
    BY DEF DeveloperInv, TypeOK, EditsOfOneStory, SavedUpToStory, InStory
  <1>5. TreesAreCleaned'
    BY DEF DeveloperInv, TypeOK, TreesAreCleaned, SavedUpToStory, InStory, ResultsInOrder, Settled, Dirty
  <1>6. CommitsOfApproved'
    <2>1. ~spoiled /\ tree[r] # {} => verdict = "approved"
      BY DEF DeveloperInv, TypeOK, TreesAreCleaned, Settled, Dirty, Verdicts
    <2>2. verdict = "approved" => results[story]["rejected"] = 0
      BY <1>b DEF DeveloperInv, TypeOK, ResultsInOrder
    <2>3. /\ ~spoiled' => ~spoiled
          /\ <<at, story, verdict, results>>' = <<at, story, verdict, results>>
      OBVIOUS
    <2> HIDE DEF CommitRepo, Loop
    <2>4. story \in Nat
      BY <1>b DEF Stories
    <2> QED
      BY <1>0, <1>b, <1>c, <2>1, <2>2, <2>3, <2>4 DEF DeveloperInv, CommitsOfApproved
  <1> QED
    BY <1>1, <1>2, <1>3, <1>4, <1>5, <1>6 DEF DeveloperInv

(* One repository is rolled back. *)
LEMMA UndoRepoKeeps ==
  ASSUME NEW r \in Repos, NEW fails \in BOOLEAN, DeveloperInv, autoApprove' = autoApprove, UndoRepo(r, fails)
  PROVE  DeveloperInv'
  <1> USE Sizes DEF UndoRepo, DiscardChanges, Loop
  <1>1. TypeOK'
    BY DEF DeveloperInv, TypeOK, SavedUpToStory, InStory, Steps, Verdicts, Stories, Sessions
  <1>2. SavedUpToStory'
    BY DEF DeveloperInv, TypeOK, SavedUpToStory, InStory
  <1>3. ResultsInOrder'
    BY DEF DeveloperInv, TypeOK, ResultsInOrder
  <1>4. EditsOfOneStory'
    BY DEF DeveloperInv, TypeOK, EditsOfOneStory, SavedUpToStory, InStory
  <1>5. TreesAreCleaned'
    BY DEF DeveloperInv, TypeOK, TreesAreCleaned, SavedUpToStory, InStory, ResultsInOrder, Settled, Dirty
  <1>6. CommitsOfApproved'
    BY DEF DeveloperInv, TypeOK, CommitsOfApproved
  <1> QED
    BY <1>1, <1>2, <1>3, <1>4, <1>5, <1>6 DEF DeveloperInv

(* All repositories have been reached. *)
LEMMA ReposDoneKeeps ==
  ASSUME DeveloperInv, autoApprove' = autoApprove, ReposDone
  PROVE  DeveloperInv'
  <1> USE Sizes DEF ReposDone, Loop, Outside
  <1>1. TypeOK'
    BY DEF DeveloperInv, TypeOK, SavedUpToStory, InStory, Steps, Verdicts, Stories, Sessions
  <1>2. SavedUpToStory'
    BY DEF DeveloperInv, TypeOK, SavedUpToStory, InStory
  <1>3. ResultsInOrder'
    BY DEF DeveloperInv, TypeOK, ResultsInOrder
  <1>4. EditsOfOneStory'
    BY DEF DeveloperInv, TypeOK, EditsOfOneStory, SavedUpToStory, InStory
  <1>5. TreesAreCleaned'
    BY DEF DeveloperInv, TypeOK, TreesAreCleaned, SavedUpToStory, InStory, ResultsInOrder, Settled, Dirty
  <1>6. CommitsOfApproved'
    BY DEF DeveloperInv, TypeOK, CommitsOfApproved
  <1> QED
    BY <1>1, <1>2, <1>3, <1>4, <1>5, <1>6 DEF DeveloperInv

(* The result is pushed and saved. *)
LEMMA RecordStoryKeeps ==
  ASSUME DeveloperInv, autoApprove' = autoApprove, RecordStory
  PROVE  DeveloperInv'
  <1> USE Sizes DEF RecordStory, Outside, NoCount
  <1> DEFINE kept == /\ results' \in [Stories -> [Verdicts -> 0..2]]
                     /\ \A s \in Stories : s # story => results'[s] = results[s]
                     /\ results'[story][verdict] = results[story][verdict] + 1
                     /\ \A w \in Verdicts : w # verdict => results'[story][w] = results[story][w]
  <1>a. /\ story \in Stories /\ verdict \in Verdicts /\ results[story][verdict] \in 0..1
        /\ Push(verdict)
    BY DEF DeveloperInv, TypeOK, SavedUpToStory, InStory, ResultsInOrder, Stories, Verdicts
  <1>b. kept
    BY <1>a, PushVerdict DEF DeveloperInv
  <1> HIDE DEF kept
  <1>c. \A s \in Stories : s > story => /\ results[s]["approved"] = 0
                                        /\ results[s]["rejected"] = 0
    BY DEF DeveloperInv, ResultsInOrder, Verdicts
  <1>1. TypeOK'
    BY <1>a, <1>b DEF kept, DeveloperInv, TypeOK, Steps, Verdicts, Stories
  <1>2. SavedUpToStory'
    BY DEF DeveloperInv, TypeOK, SavedUpToStory, InStory
  <1>3. ResultsInOrder'
    BY <1>a, <1>b, <1>c DEF kept, DeveloperInv, TypeOK, ResultsInOrder, Stories
  <1>4. EditsOfOneStory'
    BY DEF DeveloperInv, TypeOK, EditsOfOneStory, TreesAreCleaned, Settled, Dirty
  <1>5. TreesAreCleaned'
    BY DEF DeveloperInv, TypeOK, TreesAreCleaned, SavedUpToStory, InStory, ResultsInOrder, Settled, Dirty
  <1>6. CommitsOfApproved'
    BY <1>a, <1>b DEF kept, DeveloperInv, TypeOK, CommitsOfApproved, Commits, Stories, Verdicts
  <1> QED
    BY <1>1, <1>2, <1>3, <1>4, <1>5, <1>6 DEF DeveloperInv

(* An agent edits a file. *)
LEMMA AgentEditsKeeps ==
  ASSUME NEW a \in Sessions, NEW r \in Repos, DeveloperInv, autoApprove' = autoApprove, AgentEdits(a, r)
  PROVE  DeveloperInv'
  <1> USE Sizes DEF AgentEdits, Loop
  <1>1. TypeOK'
    BY DEF DeveloperInv, TypeOK, SavedUpToStory, InStory, Steps, Verdicts, Stories, Sessions
  <1>2. SavedUpToStory'
    BY DEF DeveloperInv, TypeOK, SavedUpToStory, InStory
  <1>3. ResultsInOrder'
    BY DEF DeveloperInv, TypeOK, ResultsInOrder
  <1>4. EditsOfOneStory'
    BY DEF DeveloperInv, TypeOK, EditsOfOneStory, SavedUpToStory, InStory
  <1>5. TreesAreCleaned'
    BY DEF DeveloperInv, TypeOK, TreesAreCleaned, SavedUpToStory, InStory, ResultsInOrder, Settled, Dirty
  <1>6. CommitsOfApproved'
    BY DEF DeveloperInv, TypeOK, CommitsOfApproved
  <1> QED
    BY <1>1, <1>2, <1>3, <1>4, <1>5, <1>6 DEF DeveloperInv

(* An agent is done. *)
LEMMA AgentFinishesKeeps ==
  ASSUME NEW a \in Sessions, DeveloperInv, autoApprove' = autoApprove, AgentFinishes(a)
  PROVE  DeveloperInv'
  <1> USE Sizes DEF AgentFinishes, Loop
  <1>1. TypeOK'
    BY DEF DeveloperInv, TypeOK, SavedUpToStory, InStory, Steps, Verdicts, Stories, Sessions
  <1>2. SavedUpToStory'
    BY DEF DeveloperInv, TypeOK, SavedUpToStory, InStory
  <1>3. ResultsInOrder'
    BY DEF DeveloperInv, TypeOK, ResultsInOrder
  <1>4. EditsOfOneStory'
    BY DEF DeveloperInv, TypeOK, EditsOfOneStory, SavedUpToStory, InStory
  <1>5. TreesAreCleaned'
    BY DEF DeveloperInv, TypeOK, TreesAreCleaned, SavedUpToStory, InStory, ResultsInOrder, Settled, Dirty
  <1>6. CommitsOfApproved'
    BY DEF DeveloperInv, TypeOK, CommitsOfApproved
  <1> QED
    BY <1>1, <1>2, <1>3, <1>4, <1>5, <1>6 DEF DeveloperInv

(* The server restarts at the first story that is not saved. *)
LEMMA RestartKeeps ==
  ASSUME DeveloperInv, autoApprove' = autoApprove, Restart
  PROVE  DeveloperInv'
  <1> USE Sizes DEF Restart, NoCount, NoResults
  <1>1. TypeOK'
    BY DEF DeveloperInv, TypeOK, SavedUpToStory, InStory, Steps, Verdicts, Stories, Sessions
  <1>2. SavedUpToStory'
    BY DEF DeveloperInv, TypeOK, SavedUpToStory, InStory
  <1>3. ResultsInOrder'
    <2>1. \A s \in Stories : results'[s] = [v \in Verdicts |-> 0]
      OBVIOUS
    <2>2. \A s \in Stories : results'[s]["approved"] = 0 /\ results'[s]["rejected"] = 0
      BY <2>1 DEF Verdicts
    <2> QED
      BY <2>1, <2>2 DEF ResultsInOrder
  <1>4. EditsOfOneStory'
    BY DEF DeveloperInv, TypeOK, EditsOfOneStory, SavedUpToStory, InStory
  <1>5. TreesAreCleaned'
    BY DEF DeveloperInv, TypeOK, TreesAreCleaned, SavedUpToStory, InStory, ResultsInOrder, Settled, Dirty
  <1>6. CommitsOfApproved'
    BY DEF DeveloperInv, TypeOK, CommitsOfApproved
  <1> QED
    BY <1>1, <1>2, <1>3, <1>4, <1>5, <1>6 DEF DeveloperInv

-----------------------------------------------------------------------------
(* The theorems. *)

(* Every step of the phase, of an agent, and every crash keeps DeveloperInv. *)
LEMMA DeveloperSteps ==
  ASSUME DeveloperInv, Next
  PROVE  DeveloperInv'
  <1>0. autoApprove' = autoApprove
    BY DEF Next
  <1>1. CASE PhaseStep
    <2>1. CASE \/ CheckoutBranches \/ SkipStory \/ StartStory \/ Finish
               \/ DevDone \/ StoryThrows
      BY <1>0, <2>1, CheckoutBranchesKeeps, SkipStoryKeeps, StartStoryKeeps, FinishKeeps,
         DevDoneKeeps, StoryThrowsKeeps
    <2>2. CASE \E reply \in JudgeReplies : LET judged == ParseJudgeVerdict(reply)
                                          IN JudgeApproves(judged) \/ JudgeRejects(judged)
                                               \/ JudgeRevises(judged)
      BY <1>0, <2>2, JudgeApprovesKeeps, JudgeRejectsKeeps, JudgeRevisesKeeps
    <2>3. CASE \E unseen \in SUBSET Repos : CheckChanges(unseen)
      BY <1>0, <2>3, CheckChangesKeeps
    <2>4. CASE BuildPasses \/ BuildFails \/ BuildGivesUp
      BY <1>0, <2>4, BuildPassesKeeps, BuildFailsKeeps, BuildGivesUpKeeps
    <2>5. CASE AskApproval \/ Accept \/ Refuse \/ RequestChanges \/ FeedbackTimesOut
      BY <1>0, <2>5, AskApprovalKeeps, AcceptKeeps, RefuseKeeps, RequestChangesKeeps,
         FeedbackTimesOutKeeps
    <2>6. CASE \E r \in Repos, outcome \in CommitOutcomes : CommitRepo(r, outcome)
      BY <1>0, <2>6, CommitRepoKeeps
    <2>7. CASE \E r \in Repos, fails \in BOOLEAN : UndoRepo(r, fails)
      BY <1>0, <2>7, UndoRepoKeeps
    <2>8. CASE ReposDone \/ RecordStory
      BY <1>0, <2>8, ReposDoneKeeps, RecordStoryKeeps
    <2> QED
      BY <1>1, <2>1, <2>2, <2>3, <2>4, <2>5, <2>6, <2>7, <2>8 DEF PhaseStep
  <1>2. CASE AgentStep
    BY <1>0, <1>2, AgentEditsKeeps, AgentFinishesKeeps DEF AgentStep
  <1>3. CASE CrashAndResume
    BY <1>0, <1>3, RestartKeeps DEF CrashAndResume
  <1> QED
    BY <1>1, <1>2, <1>3 DEF Next

(* What is spoiled stays spoiled. *)
LEMMA OnlySpoils ==
  ASSUME Next, spoiled
  PROVE  spoiled'
  <1>1. CASE PhaseStep
    BY <1>1 DEF PhaseStep, CheckoutBranches, SkipStory, StartStory, Finish, DevDone,
       StoryThrows, JudgeApproves, JudgeRejects, JudgeRevises, CheckChanges, BuildPasses,
       BuildFails, BuildGivesUp, AskApproval, Accept, Refuse, RequestChanges,
       FeedbackTimesOut, CommitRepo, UndoRepo, DiscardChanges, ReposDone, RecordStory,
       Conclude
  <1>2. CASE AgentStep
    BY <1>2 DEF AgentStep, AgentEdits, AgentFinishes
  <1>3. CASE CrashAndResume
    BY <1>3 DEF CrashAndResume, Restart
  <1> QED
    BY <1>1, <1>2, <1>3 DEF Next

(* The commit loop is entered from the approval, and keeps the verdict. *)
LEMMA CommitIsEntered ==
  ASSUME Next, at' = "commit"
  PROVE  at \in {"approve", "wait", "commit"} /\ verdict' = verdict /\ story' = story
  <1>1. CASE PhaseStep
    BY <1>1 DEF PhaseStep, CheckoutBranches, SkipStory, StartStory, Finish, DevDone,
       StoryThrows, JudgeApproves, JudgeRejects, JudgeRevises, CheckChanges, BuildPasses,
       BuildFails, BuildGivesUp, AskApproval, Accept, Refuse, RequestChanges,
       FeedbackTimesOut, CommitRepo, UndoRepo, ReposDone, RecordStory, Conclude, Loop
  <1>2. CASE AgentStep
    BY <1>2 DEF AgentStep, AgentEdits, AgentFinishes, Loop
  <1>3. CASE CrashAndResume
    BY <1>3 DEF CrashAndResume, Restart
  <1> QED
    BY <1>1, <1>2, <1>3 DEF Next

(* A step that changes none of the phase's variables keeps DeveloperInv. *)
LEMMA DeveloperStutters ==
  ASSUME DeveloperInv, UNCHANGED vars
  PROVE  DeveloperInv'
  BY DEF DeveloperInv, TypeOK, SavedUpToStory, ResultsInOrder, EditsOfOneStory,
         TreesAreCleaned, CommitsOfApproved, InStory, Settled, Dirty, vars

(* The loop over the stories, the agents in the trees and the git commands keep
   in step whatever is judged, built, answered, crashes or fails. *)
THEOREM DeveloperIsConsistent == Spec => []DeveloperInv
  <1>1. DeveloperInv /\ [Next]_vars => DeveloperInv'
    BY DeveloperSteps, DeveloperStutters
  <1> QED
    BY DeveloperStarts, <1>1, PTL DEF Spec

(* When a story begins after another one of the same run, every repository is
   clean, unless an agent was left working or git failed: commit, rollback and
   the failed build that falls through to the approval all see to it. *)
THEOREM StoriesStartClean == Spec => []CleanBetweenStories
  <1>1. DeveloperInv => CleanBetweenStories
    BY DEF DeveloperInv, TreesAreCleaned, Settled, CleanBetweenStories
  <1> QED
    BY DeveloperIsConsistent, <1>1, PTL

(* A story with a "rejected" result has no commit, unless an agent was left
   working or git failed, although a story whose build failed is still shown
   to the human and goes through the commit loop. *)
THEOREM NothingRejectedIsCommitted == Spec => []RejectedIsNotCommitted
  <1>1. DeveloperInv => RejectedIsNotCommitted
    BY DEF DeveloperInv, CommitsOfApproved, RejectedIsNotCommitted
  <1> QED
    BY DeveloperIsConsistent, <1>1, PTL

-----------------------------------------------------------------------------
(* What the code's own words promise, where it can be kept. *)

(* A commit is made from what is in a tree, on the branch that is checked out, under
   the story in progress; nothing else adds to the commits. *)
LEMMA CommitsAreMade ==
  ASSUME Next
  PROVE  /\ \A c \in commits' : \/ c \in commits
                                \/ /\ at = "commit" /\ c.under = story
                                   /\ \E r \in Repos : c.edit \in tree[r] /\ c.branch = branch[r]
         /\ spoiled => spoiled'
         /\ branch' = branch \/ (at = "checkout" /\ CheckoutBranches)
  <1>1. ASSUME NEW r \in Repos, NEW outcome \in CommitOutcomes, CommitRepo(r, outcome)
        PROVE  /\ \A c \in commits' : \/ c \in commits
                                      \/ /\ at = "commit" /\ c.under = story
                                         /\ \E q \in Repos : c.edit \in tree[q] /\ c.branch = branch[q]
               /\ spoiled => spoiled'
               /\ branch' = branch
    <2>1. at = "commit" /\ branch' = branch /\ (spoiled => spoiled')
      BY <1>1 DEF CommitRepo
    <2>2. \/ commits' = commits
          \/ commits' = commits \cup {[branch |-> branch[r], edit |-> e, under |-> story] : e \in tree[r]}
      BY <1>1 DEF CommitRepo
    <2>3. ASSUME NEW c \in commits', c \notin commits
          PROVE  c.under = story /\ c.edit \in tree[r] /\ c.branch = branch[r]
      <3>1. PICK e \in tree[r] : c = [branch |-> branch[r], edit |-> e, under |-> story]
        BY <2>2, <2>3
      <3> QED
        BY <3>1
    <2> QED
      BY <2>1, <2>3
  <1>2. CASE /\ commits' = commits \/ commits' = {}
             /\ spoiled => spoiled'
             /\ branch' = branch \/ (at = "checkout" /\ CheckoutBranches)
    BY <1>2
  <1>3. CASE \E r \in Repos, outcome \in CommitOutcomes : CommitRepo(r, outcome)
    BY <1>1, <1>3
  <1>4. CASE CheckoutBranches \/ SkipStory \/ StartStory \/ Finish \/ DevDone \/ StoryThrows
    BY <1>2, <1>4 DEF CheckoutBranches, SkipStory, StartStory, Finish, DevDone, StoryThrows, Conclude,
       Outside
  <1>5. ASSUME NEW judged, JudgeApproves(judged) \/ JudgeRejects(judged) \/ JudgeRevises(judged)
        PROVE  commits' = commits /\ (spoiled => spoiled') /\ branch' = branch
    BY <1>5 DEF JudgeApproves, JudgeRejects, JudgeRevises, Conclude, Outside
  <1>6. CASE \/ \E unseen \in SUBSET Repos : CheckChanges(unseen)
             \/ BuildPasses \/ BuildFails \/ BuildGivesUp
    BY <1>2, <1>6 DEF CheckChanges, BuildPasses, BuildFails, BuildGivesUp, Conclude, Outside
  <1>7. CASE AskApproval \/ Accept \/ Refuse \/ RequestChanges \/ FeedbackTimesOut
    BY <1>2, <1>7 DEF AskApproval, Accept, Refuse, RequestChanges, FeedbackTimesOut, Conclude, Outside
  <1>8. CASE \/ \E r \in Repos, fails \in BOOLEAN : UndoRepo(r, fails)
             \/ ReposDone \/ RecordStory
    BY <1>2, <1>8 DEF UndoRepo, DiscardChanges, ReposDone, RecordStory, Outside
  <1>9. CASE AgentStep \/ CrashAndResume
    BY <1>2, <1>9 DEF AgentStep, AgentFinishes, AgentEdits, CrashAndResume, Restart
  <1> QED
    BY <1>2, <1>3, <1>4, <1>5, <1>6, <1>7, <1>8, <1>9 DEF Next, PhaseStep

(* The checkout loop is left only by its end. *)
LEMMA CheckoutIsLeft ==
  ASSUME Next, at = "checkout", ~CheckoutBranches
  PROVE  at' = "checkout"
  BY DEF Next, PhaseStep, AgentStep, AgentFinishes, AgentEdits, CrashAndResume, Restart, SkipStory,
     StartStory, Finish, DevDone, StoryThrows, JudgeApproves, JudgeRejects, JudgeRevises,
     CheckChanges, BuildPasses, BuildFails, BuildGivesUp, AskApproval, Accept, Refuse,
     RequestChanges, FeedbackTimesOut, CommitRepo, UndoRepo, ReposDone, RecordStory

(* What was discarded stays out of the branch as long as no agent was left working
   and no git command failed: then every edit a commit carries was made for the
   story it is committed under, also after a crash in the middle of that story. *)
THEOREM CommitsAreOfTheirStory == Spec => [](~spoiled => DiscardedStaysOut)
  <1>1. Init => (~spoiled => DiscardedStaysOut)
    BY DEF Init, DiscardedStaysOut
  <1>2. ASSUME DeveloperInv, ~spoiled => DiscardedStaysOut, [Next]_vars
        PROVE  (~spoiled => DiscardedStaysOut)'
    <2>1. CASE UNCHANGED vars
      BY <1>2, <2>1 DEF vars, DiscardedStaysOut
    <2>2. CASE Next
      <3> SUFFICES ASSUME ~spoiled', NEW c \in commits' PROVE c.edit = c.under
        BY DEF DiscardedStaysOut
      <3>1. ~spoiled
        BY <2>2, CommitsAreMade
      <3>2. CASE c \in commits
        BY <1>2, <3>1, <3>2 DEF DiscardedStaysOut
      <3>3. CASE at = "commit" /\ c.under = story /\ \E r \in Repos : c.edit \in tree[r]
        <4>1. saved = story
          BY <1>2, <3>3 DEF DeveloperInv, SavedUpToStory, InStory
        <4>2. \A r \in Repos : tree[r] \subseteq {saved}
          BY <1>2, <3>1 DEF DeveloperInv, EditsOfOneStory
        <4> QED
          BY <3>3, <4>1, <4>2
      <3> QED
        BY <2>2, <3>2, <3>3, CommitsAreMade
    <2> QED
      BY <1>2, <2>1, <2>2
  <1> QED
    BY <1>1, <1>2, DeveloperIsConsistent, PTL DEF Spec

(* Behind the checkout loop a repository that has the task's branch is on it. *)
OnTaskBranch ==
  /\ at # "checkout" => \A r \in BranchIn : branch[r] = "task"
  /\ BranchIn = Repos => TaskBranchOnly

(* If every repository has the branch of the task, nothing is committed anywhere
   else: the commits elsewhere are those of the repositories in which createBranch
   was to make it. *)
THEOREM CommitsAreOnTheTaskBranch == Spec => [](BranchIn = Repos => TaskBranchOnly)
  <1>1. ASSUME Init PROVE OnTaskBranch
    BY <1>1 DEF Init, OnTaskBranch, TaskBranchOnly
  <1>2. ASSUME OnTaskBranch, [Next]_vars PROVE OnTaskBranch'
    <2>1. CASE UNCHANGED vars
      BY <1>2, <2>1 DEF vars, OnTaskBranch, TaskBranchOnly
    <2>2. CASE Next
      <3>1. at' # "checkout" => \A r \in BranchIn : branch'[r] = "task"
        <4>1. CASE CheckoutBranches
          BY <4>1, DeveloperConstants DEF CheckoutBranches
        <4>2. CASE branch' = branch /\ at # "checkout"
          BY <1>2, <4>2 DEF OnTaskBranch
        <4>3. CASE at = "checkout" /\ ~CheckoutBranches
          <5>1. at' = "checkout"
            BY <2>2, <4>3, CheckoutIsLeft
          <5> QED
            BY <5>1
        <4> QED
          BY <2>2, <4>1, <4>2, <4>3, CommitsAreMade
      <3>2. ASSUME BranchIn = Repos, NEW c \in commits' PROVE c.branch = "task"
        <4>1. CASE c \in commits
          BY <1>2, <3>2, <4>1 DEF OnTaskBranch, TaskBranchOnly
        <4>2. CASE at = "commit" /\ \E r \in Repos : c.branch = branch[r]
          BY <1>2, <3>2, <4>2 DEF OnTaskBranch
        <4> QED
          BY <2>2, <4>1, <4>2, CommitsAreMade
      <3> QED
        BY <3>1, <3>2 DEF OnTaskBranch, TaskBranchOnly
    <2> QED
      BY <1>2, <2>1, <2>2
  <1>3. OnTaskBranch => (BranchIn = Repos => TaskBranchOnly)
    BY DEF OnTaskBranch
  <1> QED
    BY <1>1, <1>2, <1>3, PTL DEF Spec
=============================================================================
