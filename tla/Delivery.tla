------------------------------ MODULE Delivery ------------------------------
(***************************************************************************)
(* executeMergePhase of orchestration/phases/MergePhaseV2.ts, after the      *)
(* Developer phase and over the same repositories: what is left in a working *)
(* tree is committed, a pull request is opened for each repository, and the  *)
(* pull requests are merged if somebody wants it.                            *)
(*                                                                         *)
(* GitHub is external: people may close a pull request there at any time,    *)
(* and pull requests survive a crash of this server.  The loops go over the  *)
(* repositories in any order.  TestGeneration, which only adds files for the *)
(* merge phase to commit, is left out.                                       *)
(***************************************************************************)
EXTENDS DeveloperPhase

CONSTANTS
    NoRepo,     \* no pull request is recorded in the task's row
    Modes       \* how executeMergePhase is called, a subset of AllModes

(* autoMerge, an approval callback, or, as TaskWorker does it, neither. *)
AllModes == {"auto", "ask", "neither"}

ASSUME DeliveryConstants ==
    /\ NoRepo \notin Repos
    /\ Modes # {} /\ Modes \subseteq AllModes

VARIABLES
    mode,       \* the member of Modes this task has
    merge,      \* the step executeMergePhase is at
    left,       \* repositories its current loop has not reached
    head,       \* repository -> edits committed to the branch checked out
    accepted,   \* stories judge, build and human let through to a commit
    pr,         \* repository -> state of the branch's pull request on GitHub
    created,    \* createdPRs
    failed,     \* repositories in errors
    landed,     \* pull requests this run has merged
    consent,    \* the callback has said yes in this run
    saved_pr,   \* pr_number of the row, as the repository it belongs to
    result      \* what executeMergePhase returned

mergeVars == <<mode, merge, left, head, accepted, pr, created, failed, landed, consent,
               saved_pr, result>>
devVars == <<at, story, from, count, todo, results, verdict, saved, working, commits,
             crashes>>
allVars == <<vars, mergeVars>>

MergeSteps == {"before", "push", "create", "save", "decide", "wait", "merge", "over"}
Results == {"none", "failed", "nothing", "open", "partly", "merged", "thrown"}

DeliveryTypeOK ==
    /\ TypeOK
    /\ mode \in Modes
    /\ merge \in MergeSteps
    /\ left \subseteq Repos
    /\ head \in [Repos -> SUBSET Stories]
    /\ accepted \subseteq Stories
    /\ pr \in [Repos -> {"none", "open", "closed", "merged"}]
    /\ created \subseteq Repos /\ failed \subseteq Repos \ created
    /\ landed \subseteq created
    /\ consent \in BOOLEAN
    /\ saved_pr \in Repos \cup {NoRepo}
    /\ result \in Results

DeliveryInit ==
    /\ Init
    /\ mode \in Modes
    /\ merge = "before" /\ left = {}
    /\ head = [r \in Repos |-> {}] /\ accepted = {}
    /\ pr = [r \in Repos |-> "none"]
    /\ created = {} /\ failed = {} /\ landed = {}
    /\ consent = FALSE /\ saved_pr = NoRepo
    /\ result = "none"

(* Edits that a step of the commit loop moves from the trees to the branches. *)
Committed(r) == IF at = "commit" THEN tree[r] \ tree'[r] ELSE {}

(* A step of the Developer phase, its agents or its recovery. *)
DeveloperStep ==
    /\ merge = "before"
    /\ Next
    /\ head' = [r \in Repos |-> head[r] \cup Committed(r)]
    /\ accepted' = IF at \in {"approve", "wait"} /\ at' = "commit" /\ verdict = "approved"
                   THEN accepted \cup {story} ELSE accepted
    /\ UNCHANGED <<mode, merge, left, pr, created, failed, landed, consent, saved_pr, result>>

(* Agents nobody stopped work on. *)
AgentsGoOn ==
    /\ merge # "before"
    /\ AgentStep
    /\ UNCHANGED autoApprove /\ UNCHANGED mergeVars

-----------------------------------------------------------------------------
Untouched == <<autoApprove, devVars, mode, accepted>>

BeginMerge ==
    /\ merge = "before" /\ at = "done"
    /\ merge' = "push" /\ left' = Repos
    /\ spoiled' = (spoiled \/ working # {})
    /\ UNCHANGED <<tree, branch, head, pr, created, failed, landed, consent, saved_pr, result>>
    /\ UNCHANGED Untouched

(* Step 1: what is still in a working tree is committed and pushed; an error
   is only logged. *)
PushRemaining(r, outcome) ==
    /\ merge = "push" /\ r \in left
    /\ outcome = "ok" \/ GitErrors
    /\ left' = left \ {r}
    /\ IF outcome = "commit fails"
       THEN UNCHANGED <<tree, head>>
       ELSE /\ head' = [head EXCEPT ![r] = @ \cup tree[r]]
            /\ tree' = [tree EXCEPT ![r] = {}]
    /\ UNCHANGED <<branch, merge, pr, created, failed, landed, consent, saved_pr, result, spoiled>>
    /\ UNCHANGED Untouched

PushDone ==
    /\ merge = "push" /\ left = {}
    /\ merge' = "create" /\ left' = Repos
    /\ UNCHANGED <<tree, branch, head, pr, created, failed, landed, consent, saved_pr, result, spoiled>>
    /\ UNCHANGED Untouched

(* gh pr create refuses the base branch and a branch that has one open. *)
Creatable(r) == branch[r] # "main" /\ pr[r] # "open"

(* Mutant of CreatePullRequest: a repository that failed is tried again. *)
Bug_RetryForEver(r, outcome) ==
    /\ merge = "create" /\ r \in left
    /\ IF outcome = "ok" /\ Creatable(r)
       THEN /\ left' = left \ {r}
            /\ pr' = [pr EXCEPT ![r] = "open"]
            /\ created' = created \cup {r} /\ failed' = failed \ {r}
       ELSE /\ failed' = failed \cup {r}
            /\ UNCHANGED <<left, pr, created>>
    /\ UNCHANGED <<tree, branch, merge, head, landed, consent, saved_pr, result, spoiled>>
    /\ UNCHANGED Untouched

(* Step 2: push the branch and open a pull request.  Without new commits the
   repository is passed over, any other error is noted.  An answer of GitHub
   that cannot be read is an error although the pull request is there. *)
CreatePullRequest(r, outcome) ==
    /\ merge = "create" /\ r \in left
    /\ left' = left \ {r}
    /\ CASE outcome = "ok" /\ Creatable(r) /\ head[r] = {} ->
              UNCHANGED <<pr, created, failed>>
         [] outcome = "ok" /\ Creatable(r) /\ head[r] # {} ->
              /\ pr' = [pr EXCEPT ![r] = "open"]
              /\ created' = created \cup {r} /\ failed' = failed
         [] outcome = "unread" /\ Creatable(r) /\ head[r] # {} ->
              /\ pr' = [pr EXCEPT ![r] = "open"]
              /\ failed' = failed \cup {r} /\ created' = created
         [] OTHER ->
              /\ failed' = failed \cup {r}
              /\ UNCHANGED <<pr, created>>
    /\ outcome = "ok" \/ GitErrors
    /\ UNCHANGED <<tree, branch, merge, head, landed, consent, saved_pr, result, spoiled>>
    /\ UNCHANGED Untouched

(* Nothing was created: an error if there were errors, else nothing to do. *)
CreateDone ==
    /\ merge = "create" /\ left = {}
    /\ IF created # {} THEN merge' = "save" /\ result' = result
       ELSE /\ merge' = "over"
            /\ result' = IF failed # {} THEN "failed" ELSE "nothing"
    /\ UNCHANGED <<tree, branch, left, head, pr, created, failed, landed, consent, saved_pr, spoiled>>
    /\ UNCHANGED Untouched

(* setPullRequest of the first one; a database error leaves the phase. *)
SavePullRequest(r) ==
    /\ merge = "save" /\ r \in created
    /\ \/ merge' = "decide" /\ saved_pr' = r /\ result' = result
       \/ merge' = "over" /\ saved_pr' = saved_pr /\ result' = "thrown"
    /\ UNCHANGED <<tree, branch, left, head, pr, created, failed, landed, consent, spoiled>>
    /\ UNCHANGED Untouched

(* Mutant of Approved: no callback counts as a yes. *)
Bug_SilenceIsYes == mode # "ask" \/ consent

(* let approved = autoMerge, or the answer of the callback. *)
Approved == mode = "auto" \/ consent

(* Step 3: ask if there is somebody to ask. *)
Decide ==
    /\ \/ merge = "decide" /\ mode = "ask" /\ merge' = "wait" /\ UNCHANGED <<left, result>>
       \/ /\ merge = "decide" /\ mode # "ask"
          /\ IF Approved THEN merge' = "merge" /\ left' = created /\ result' = result
                         ELSE merge' = "over" /\ result' = "open" /\ left' = left
    /\ UNCHANGED <<tree, branch, head, pr, created, failed, landed, consent, saved_pr, spoiled>>
    /\ UNCHANGED Untouched

Answer(yes) ==
    /\ merge = "wait"
    /\ consent' = yes
    /\ IF yes THEN merge' = "merge" /\ left' = created /\ result' = result
              ELSE merge' = "over" /\ result' = "open" /\ left' = left
    /\ UNCHANGED <<tree, branch, head, pr, created, failed, landed, saved_pr, spoiled>>
    /\ UNCHANGED Untouched

(* getPullRequestStatus: open, closed or merged, and whether GitHub sees a
   conflict; failed checks are only counted. *)
PullRequestStatus(r, mergeable) == [state |-> pr[r], mergeable |-> mergeable]

(* gh pr merge --squash --delete-branch, which leaves the repository on the
   base branch. *)
SquashMerge(r) ==
    /\ pr' = [pr EXCEPT ![r] = "merged"]
    /\ branch' = [branch EXCEPT ![r] = "main"]

(* Step 4: a pull request that is no longer open, a conflict and an error of
   gh are noted, and the loop goes on. *)
MergePullRequest(r, status, ghFails) ==
    /\ merge = "merge" /\ r \in left
    /\ left' = left \ {r}
    /\ IF status.state = "open" /\ status.mergeable /\ ~ghFails
       THEN SquashMerge(r) /\ landed' = landed \cup {r}
       ELSE UNCHANGED <<pr, landed, branch>>
    /\ UNCHANGED <<tree, merge, head, created, failed, consent, saved_pr, result, spoiled>>
    /\ UNCHANGED Untouched

(* Mutant of Report: one merged pull request counts for all. *)
Bug_SomeIsAll == IF landed # {} THEN "merged" ELSE "failed"

(* success: anyMerged, merged: allMerged. *)
Report ==
    CASE landed = created -> "merged"
      [] landed # created /\ landed # {} -> "partly"
      [] landed # created /\ landed = {} -> "failed"

MergeDone ==
    /\ merge = "merge" /\ left = {}
    /\ merge' = "over" /\ result' = Report
    /\ UNCHANGED <<tree, branch, left, head, pr, created, failed, landed, consent, saved_pr, spoiled>>
    /\ UNCHANGED Untouched

-----------------------------------------------------------------------------
(* Somebody closes a pull request on GitHub. *)
CloseOnGitHub(r) ==
    /\ pr[r] = "open" /\ merge # "over"
    /\ pr' = [pr EXCEPT ![r] = "closed"]
    /\ UNCHANGED <<mode, merge, left, head, accepted, created, failed, landed, consent,
                   saved_pr, result>>
    /\ UNCHANGED vars

(* POST workspace/commit: a user commits by hand what is in a working tree,
   whatever the phases are doing. *)
UserCommits(r) ==
    /\ merge # "over" /\ tree[r] # {}
    /\ head' = [head EXCEPT ![r] = @ \cup tree[r]]
    /\ tree' = [tree EXCEPT ![r] = {}]
    /\ spoiled' = TRUE
    /\ UNCHANGED <<branch, merge, left, pr, created, failed, landed, consent, saved_pr, result>>
    /\ UNCHANGED Untouched

(* The server dies while it merges: the resumed execution passes through the
   Developer phase, whose stories are saved, and starts the phase again. *)
CrashInMerge ==
    /\ merge \notin {"before", "over"}
    /\ Restart
    /\ merge' = "before" /\ left' = {}
    /\ created' = {} /\ failed' = {} /\ landed' = {} /\ consent' = FALSE
    /\ UNCHANGED <<autoApprove, mode, head, accepted, pr, saved_pr, result>>

MergeStep ==
    \/ BeginMerge
    \/ \E r \in Repos, outcome \in CommitOutcomes : PushRemaining(r, outcome)
    \/ PushDone
    \/ \E r \in Repos, outcome \in {"ok", "unread", "error"} : CreatePullRequest(r, outcome)
    \/ CreateDone
    \/ \E r \in Repos : SavePullRequest(r)
    \/ Decide
    \/ \E yes \in BOOLEAN : Answer(yes)
    \/ \E r \in Repos, mergeable, ghFails \in BOOLEAN :
          MergePullRequest(r, PullRequestStatus(r, mergeable), ghFails)
    \/ MergeDone

DeliveryNext ==
    \/ DeveloperStep \/ AgentsGoOn \/ MergeStep \/ CrashInMerge
    \/ \E r \in Repos : CloseOnGitHub(r) \/ UserCommits(r)

DeliverySpec == DeliveryInit /\ [][DeliveryNext]_allVars

(* Both phases run on, and whoever is asked answers. *)
FairDelivery ==
    /\ DeliverySpec
    /\ WF_allVars(DeveloperStep /\ PhaseStep)
    /\ WF_allVars(MergeStep)

-----------------------------------------------------------------------------
(* Only what judge, build and human let through reaches a branch, and with it
   a pull request: neither a rejected story of one repository, nor what a
   crash left in a tree, slips into the commit of "remaining changes", unless
   an agent was left working, git failed or a user committed by hand. *)
OnlyAcceptedIsDelivered == ~spoiled => \A r \in Repos : head[r] \subseteq accepted

(* "User approval required before merge": no pull request is merged unless
   the task merges automatically or the human agreed in this very run; a yes
   given before a crash does not count. *)
MergeNeedsConsent == landed # {} => mode = "auto" \/ consent

(* "merged" is reported only when every pull request this run opened has been
   merged on GitHub, also when people close them while the loop runs. *)
MergedIsWhole ==
    merge = "over" /\ result = "merged" => created # {} /\ \A r \in created : pr[r] = "merged"

(* The merge phase runs once the loop over the stories is over, and nothing
   it keeps of its own run is set before. *)
MergeAfterStories ==
    /\ merge # "before" => at = "done"
    /\ merge \in {"before", "push"} => created = {} /\ failed = {}
    /\ merge = "create" => left \cap (created \cup failed) = {}
    /\ merge \in {"save", "decide", "wait", "merge"} => created # {}

(* A pull request is merged only in the loop that an agreement opened, and
   what is merged stays merged. *)
LandedIsMerged ==
    /\ merge = "merge" => left \subseteq created \ landed
    /\ merge = "merge" \/ landed # {} => mode = "auto" \/ consent
    /\ landed # {} => merge \in {"merge", "over"}
    /\ \A r \in landed : pr[r] = "merged"

(* What is committed, or will be if nothing intervenes, is accepted. *)
HeadsAreAccepted ==
    ~spoiled => /\ \A r \in Repos : head[r] \subseteq accepted
                /\ at = "commit" /\ verdict = "approved" => story \in accepted

(* What the phase keeps and reports is true of the pull requests, and what it
   finds in the repositories is what the Developer phase left there. *)
DeliveryInv ==
    /\ DeliveryTypeOK /\ DeveloperInv /\ MergedIsWhole
    /\ MergeAfterStories /\ LandedIsMerged /\ HeadsAreAccepted

(* The delivery comes to an end whatever git, GitHub, agents and people do. *)
DeliveryEnds == <>(merge = "over")

-----------------------------------------------------------------------------
(* What the code's own words promise and the code does not keep. *)

(* "Creates 1 PR per repository": a phase that succeeds leaves no repository
   with new commits without a pull request. *)
OnePullRequestPerRepository ==
    merge = "over" /\ result \in {"open", "merged"} =>
        \A r \in Repos : head[r] # {} => pr[r] # "none"
=============================================================================
