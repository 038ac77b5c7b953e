# A TLA+ model of multi-agents-open

multi-agents-open drives coding agents through a pipeline (planning, analysis,
development, test generation, merge, scan) under human approval.  Its state is
spread over a PostgreSQL row, a BullMQ job in Redis, Maps of the Node process,
git working trees, and the sessions of an OpenCode server that keeps working
when this process does not.  The modules here model the parts that coordinate
these five, and the services around them that keep state of their own; the runs
check them on small instances, and the theorems prove the safety properties of
the approval queue, the job's life, the orchestrator, the event bridge, the five
phases and nine services for every number of tasks, stories, sessions,
repositories, requests, launches and crashes, and that every execution is one of
the abstract pipeline.

Paths below are relative to the repository (`src/...` is its TypeScript).
Every definition that models code is listed with its lines in `PROJECT.json`.

## 1. Inventory

| Component | State | Operations | Hard part |
|---|---|---|---|
| `services/realtime/ApprovalService` | Map `taskId:phase` -> resolver, timers, approval log | requestApproval, resolveWithAction, cancelTask, resend on join | promises that nobody settles; a timer that outlives its request; a client that is away |
| `orchestration/OrchestratorV2` | the task row: status, current_phase, completed_phases, last_completed_story_index, analysis | execute() with six phases and three approval gates | crash between any two writes, resume from what the row says, failure in the middle |
| `services/queue/TaskQueue`, `workers/TaskWorker`, `api/routes/tasks` | BullMQ job under the task's id, status column, `executions` Map | start, resume, retry-from, cancel, interrupt, continue, retry; processTask | routes and worker write the same column; a job state that is stale when used |
| `services/opencode/OpenCodeEventBridge`, `OpenCodeClient` | activeSessions, one subscription object per directory, listeners | registerSession, unregisterSession, event loop, reconnect timer, waitForSessionIdle | events before their listener, broken streams, sessions left behind |
| `orchestration/phases/DeveloperPhaseV2` | story loop, working trees, branches, commits | judge loop, build loop, approval loop, commit or rollback | the agent edits the trees that the phase commits |
| `services/git/GitService` | branches, trees, remotes | branch, commit and push, discard, pull request | each command may fail by itself |
| `ProductPlanningPhase`, `AnalysisPhaseV2`, `TestGenerationPhase` | one OpenCode session each, the texts in it, plan, stories, test results, the session row | roles prompted in turn, judges and fixers, questions and approvals, abort and catch | replies read from a whole session, a fixer nobody waits for, cancels in the middle |
| `MergePhaseV2`, `GlobalScanPhaseV2` | pull requests; findings | create, ask, merge; scan, push | merges per repository; a scan after a failure |
| startup (`server.ts`, `schema.ts`) | - | recoverStaleTasks, cleanStaleJobsOnStartup | every status and job state a crash can leave |
| `AgentSpy`, `SentinentalWebhook`, `SentinentalRepository` | findings and metrics per task, a buffer of records, their rows | analyse, push, flush, cleanup | a buffer emptied before an await; findings cleared while a push is under way |
| `CostTracker` | totals per session and task, three columns | recordCost, persist, restore | UPDATEs nobody awaits, restarts |
| `ExecutionTracker` and its repositories | active execution per task, pending tool calls, three tables | start, turn, tool call, complete | rows numbered before they are written |
| activity log of the bridge, `ActivityStreamService` | queues, timers, a bounded history | queue, flush, batch | new entries during a flush; full queues |
| `ContextCacheService` | contexts by key, sizes, total | build, evict, refresh | a total that follows what changes |
| `routes/projects`, `ProjectRepository`, `llmProviders` | the settings column | four routes that read, merge and write | overlapping requests, inherited keys |
| `routes/repositories`, `EnvService`, `CryptoService` | repository rows, encrypted variables, `.env` files | create, update, delete, launch | encryption on some paths only, deletion in steps |
| `routes/auth`, `UserRepository`, `OAuthStateRepository` | users, OAuth states | url, callback, refresh | callbacks repeated and in parallel |
| PTY proxy, specialists, workspace, scaffolding, exports, logging | - | request and response | none: input and output, tables, single statements |

How they interact: a route writes the row and adds a job; the worker takes the
job and calls `execute()`; `execute()` runs the phases, writes the row after
each, and awaits `ApprovalService` between them; a phase opens OpenCode sessions,
registers them with the bridge, sends prompts and waits for their idle events;
the Developer phase commits what the agents left in the working trees.  The
services are called along the way, mostly without being awaited: every event goes
to the activity log and the stream, every priced message to the cost tracker,
every finding to the spy, whose records the webhook delivers after the scan.  A
browser answers approvals through sockets or routes.  On startup the row and the
queue are repaired before any request is served.

What makes each part correct:

* ApprovalService: every awaited answer can still be given; one decision is
  logged per request; a client that is present sees what is pending.
* OrchestratorV2: no story is lost by a crash, nothing is merged in manual mode
  before a human answered, the scan always runs and runs last, a completed task
  was delivered, every execution ends.
* Queue and worker: one processor per task, a removed job does not run, every
  job settles, an acknowledged launch runs.
* EventBridge: a registered session is served by exactly one loop, a wait ends
  with the event of its own prompt.
* DeveloperPhase: each story starts from clean trees, a rejected story leaves no
  commit, commits are on the task's branch, the phase ends.
* MergePhase: pull requests hold only accepted work, nothing is merged without
  consent, "merged" means every pull request, the phase ends.
* Planning, Analysis, TestGeneration: what is saved was accepted by a judge or is
  known not to be, no agent works on unseen in a later phase, a cancelled phase
  prompts nobody, the loops end.
* Services: nothing queued is lost or delivered twice, totals agree with their
  parts, rows agree with what was given, whatever overlaps.

## 2. Modules

| Module | Models | State and actions |
|---|---|---|
| `ApprovalService` | `ApprovalService.ts`, the room of `SocketService.ts`, the approval routes | `pending` is the Map, `promise` and `timer` the objects a request creates, `audit` the log, `joined` and `shown` the browser. One action per public method and per timer. |
| `Orchestrator` | `OrchestratorV2.execute`, the columns of `TaskRepository`, the launching routes, startup | `row` is the database row, `at`/`phase` the statement `execute()` is at, `ex` its local variables, `job` the options of the job. One action per database write or phase outcome, so a crash can fall between any two. |
| `TaskLifecycle` | `TaskQueue`, `TaskWorker.processTask`, the routes of `tasks.ts` as separate awaited steps | `status`, `job` (BullMQ's state of the record), `proc` (what each worker slot does), `entry` (the `executions` Map), `launch` and `cancel` (the requests in flight). BullMQ itself is external: add is ignored while a record has the id, a processor that returns completes the job, one that throws has it retried. |
| `EventBridge` | `OpenCodeEventBridge`, `createSession`/`sendPrompt`/`waitForIdle` of the client, the phases' use of both | `stamp` is activeSessions with its insertion order, `sub` the subscription objects ever created (a timer may hold an old one), `cur` the one in the Map, `step` where the phase is with its prompt. The OpenCode server is external. |
| `DeveloperPhase` | `executeDeveloperPhase`, `executeStoryWithSession`, the git operations they use | `tree` says whose edits each working tree holds, `working` which agents still work (also when nobody waits for them), `commits` what was committed on which branch under which story. |
| `Delivery` | `executeMergePhase` after `DeveloperPhase` on the same trees, `createPullRequest`, `getPullRequestStatus` and `mergePullRequest` of `GitService` | `head` is what each pushed task branch holds, `pr` the pull request of each repository, `created`/`failed`/`landed` the arrays of the phase, `consent` the answer of this run's callback, `result` what the phase returns. GitHub is external: people may close a pull request at any time. |
| `TaskPipeline` | the abstract specification of an execution | `stage`, `consents`, `merged`, `outcome`: accepted, working, waiting for a human, scanning, reporting. `Orchestrator` implements it: its `Pipeline` instance maps the columns and the local variables of `execute()`, and every step, crashes included, is a step or a stutter there. |
| `Authoring` | `executeProductPlanningPhase`, `executeAnalysisPhase`, `executeTestGenerationPhase` and what `execute()` does between them | `at` and `role` are the statement and the role it concerns, `text` the text the phase would read from its session, `working` the agents that work whether or not somebody waits, `plan`/`analysis`/`tests` the results, `active` the session rows. One action per prompt, per way to read a reply, per answer, per failing call. |
| `SecurityTrace` | `AgentSpy`, `GlobalScanPhase`, `SentinentalWebhook` with its rows, `cleanupTaskTracking` | `found` and `counts` of the spy, `scan`, `pushes`, `records` with their rows, `buffer`, `flights` (requests under way), `received` (what the server took) |
| `CostTracker` | `CostTracker.ts`, `restoreCostsFromDb` and the end of a job in `TaskWorker` | `ledger`, the row, the UPDATEs under way, which may land in any order |
| `ExecutionTrace` | `ExecutionTracker` and the three repositories it writes to | the active execution, the calls between their awaits, the rows |
| `ActivityLog` | `transformEvent`, `saveForUIRecovery`, `queueActivityLog`, the flush timer and `stop()` of the bridge, `appendActivityLogs` | the queue, batches being written, the column |
| `ActivityStream` | `ActivityStreamService.ts` | queue, timer, history, the batches emitted |
| `ContextCache` | `ContextCacheService.ts` | cached contexts with the sizes of their files, the order of updates, the disk |
| `ProjectSettings` | the settings routes of `projects.ts`, `ProjectRepository.updateSettings`, the key rules of `llmProviders.ts` | the column, requests between read and write |
| `Repositories` | creation, update and deletion of projects and repositories, variables and `.env` | rows, encrypted lists, the files of a workspace, requests in steps |
| `Accounts` | `routes/auth.ts`, users and OAuth states | states, users, logins between their awaits, tokens |
| `Services` | the nine services side by side | they share no state, so each behaviour lets one of them, `focus`, move in all its interleavings while the others rest |
| `MC*` | instances for TLC | - |
| `ApprovalService_proofs`, `TaskLifecycle_proofs`, `EventBridge_proofs`, `Orchestrator_proofs`, `DeveloperPhase_proofs`, `Delivery_proofs`, `Authoring_proofs`, `Services_proofs` | theorems about the modules they are named after | section 5 |

Abstractions.  A phase in `Orchestrator` is its set of outcomes; in
`TaskLifecycle` the whole of `execute()` is its status writes.  A story is an
index with the number of the analysis it belongs to, an edit is the story it was
made for, a request, prompt or subscription is the number of the call that made
it.  Prompt texts, judge answers and build output are a nondeterministic choice
among the branches the code takes on them: in `Authoring` a role answers with one
of the replies its reader tells apart, rambles or stays silent, and the reader
sees the text the code would see, which may be another role's.  Logging, prices
and notifications are left out.  TestGeneration, which runs between the two phases
of `Delivery`, is left out there: it only adds files, which the merge phase commits
with the rest.

Some definitions look odd because the code does: `DoneByName` is FALSE because
`completedPhases.includes('Analysis')` looks for a string in an array of objects;
`RejectedByUser` is FALSE because a response object is tested for truth;
`CheckoutBranches` moves only the repositories of `BranchIn`, those that have the
task's branch already, because `createBranch` gets its arguments in the wrong
order and creates none (`CreateBranch` is FALSE); `FirstBlock` keeps the analyst's
report because TestGeneration joins every text of the session and takes the first
JSON block; `FeedbackTimesOut` is the only end of that wait because the
session is no longer registered.

## 3. Runs

| Run | Instance | Shows |
|---|---|---|
| `approval` | 2 tasks, 2 phases, 3 requests, timers | `PendingMirrorsPromises`: a promise waits exactly as long as the Map holds it. `AuditAgrees`: the log has the decision the caller received. `PromptVisible`: a present client sees what is pending. `EveryRequestSettles` (liveness). |
| `orchestrator` | 2 stories, every route, 2 launches, 2 attempts per job, a crash, malformed analyses, failing writes | `OrchestratorInv`: the order of phases, answers and verdicts, and what the saved index counts (section 5). `NoStoryLost`, `ResumeFindsAnalysis`: a launch after a crash skips no story, a completed task had all of them worked on, and a resumed phase finds the analysis it needs. `MergeIsAnswered`: nothing is merged in manual mode unanswered. `ImplementsPipeline` (refinement): among others, the scan runs once and last, whatever failed before it, and completed means merged. `ExecutionEnds` (liveness). |
| `lifecycle` | 2 slots, 3 launches, 2 cancels, a pause, a crash | `OneProcessor`, `RemovedNeverRuns`, `JobSettles` (liveness). |
| `bridge` | 3 sessions, 2 prompts, 3 subscriptions, 1 broken stream | `BridgeInv`: sessionCount is the number of registered sessions, and a registered session has a loop that has not been told to stop. `StableIsExact`: while no stream breaks an event is handled once, and a wait ends with the event of its own prompt. `NotesSpareTheWaiter`: nor is an event without a session id then taken for one of the session in use if it belongs to another. |
| `developer` | 2 stories, 2 repositories, 2 iterations, 2 builds, git errors, a crash, manual and automatic mode | `CleanBetweenStories`, `RejectedIsNotCommitted`, `PhaseEnds` (liveness). |
| `delivery` | 1 story, 2 repositories with the branch, 2 builds, a crash in either phase, git errors, every merge mode | `OnlyAcceptedIsDelivered`, `MergeNeedsConsent`, `DeliveryInv` ("merged" means every pull request), `DeliveryEnds` (liveness). |
| `authoring` | 3 iterations, the three phases in a row, manual and automatic mode, replies of every kind, failing calls, cancels | `AuthoringInv`: no agent is at work when another phase begins, and one that works can be seen and stopped, except for the fixer Analysis prompts last and leaves behind when it gives up. `SavedIsAccepted`: the analysis that is saved was accepted by a verdict of its own iteration, on the stories that are saved unless the analyst's last reply could not be read. `HaltedPromptsNobody`: after a human rejected or cancelled Planning or TestGeneration no agent is prompted. `PhasesEnd` (liveness). |
| `services` | per service two of each thing that can collide, see the cfg | one invariant per service, the conjunction of the parts in the next table; `RoomAfterBuild`, `QueueDrains` (liveness) |
| `reject_stops` | one execution | violated: a rejected phase is followed by the next |
| `story_skipped` | start, crash, retry-from | violated: stories of a new analysis are skipped |
| `acknowledged_queued` | two launches | violated: an acknowledged launch is not in the queue |
| `task_branch` | one run, no failures | violated: commits on `main` of a second repository |

The invariants of `services` (each also has the parts that make it inductive,
section 5):

| Module | Invariant and its parts |
|---|---|
| `SecurityTrace` | `SpyInv`. `MetricsAgree`: the counters of the spy count its findings. `FindingInOneRecord`: a finding is sent in one record, although cleanup runs while a push is under way. `BufferedIsKept`, `TakenOnce`, `SentWasReceived`: overlapping flushes and failures lose no record, deliver none twice unless a request with it failed, and mark none as sent that was not received. |
| `CostTracker` | `CostInv`. `TotalsAddUp`: the task's total is the sum over its sessions and what was restored. `NeverOvercharged`: the row never says more than was spent. `RowIsCurrent`: it lags by less than a cent as long as every launch restored it and no UPDATE failed or met another. |
| `ExecutionTrace` | `TraceInv`. `TurnNumbersDistinct`, `CallInItsExecution`, `PendingIsOwn`: rows that are awaited by nobody keep their number and their execution. |
| `ActivityLog` | `LogInv`. `LoggedOnce`, `LogIsComplete`: every entry is written once, unless an append failed or the process stopped. `QueueDrains` (liveness, from the interval timer). |
| `ActivityStream` | `StreamInv`. `EmittedOnce`, `BatchesKeepOrder`, `HistoryIsNewest`. |
| `ContextCache` | `CacheInv`. `TotalsAgree`: the total of a context is the sum of its files when no refresh of it is under way. `RoomAfterBuild` (a property of steps): a build leaves the cache within its limit. |
| `ProjectSettings` | `SettingsInv`. `PhaseHasKey`: a phase on a provider that needs a key gets one. `SettingsAreExact`: requests that did not overlap changed their own part only. |
| `Repositories` | `RepositoriesInv`. `EnvRoundTrip`: the client reads what it gave, through encryption on either route. `EnvFileIsGiven`: so does the agent's `.env`. `NothingLeftActive`: a deleted project keeps no repository that was there when its deletion read the list. |
| `Accounts` | `AccountsInv`. `StateUsedOnce`: an OAuth state lets one callback through. `IdentityIsStable`: the tokens of an account name one row, its own. `OneRowPerAccount`: no two rows share an account or an id. |

Why the bounds suffice.  A leak between stories, a second request under the key
of a timed one, and a resume that counts wrongly need two of the thing; a second
repository stands for every one that is not primary; two slots for a second
processor; three launches for a launch that meets the record of one that met the
record of another; in `bridge` the third subscription is one that begins after a
dropped one was revived; in `delivery` one rejected story is enough to leave something
in a tree that the merge phase could commit as "remaining changes", and two
repositories give every partial result; in `authoring` the third iteration is the
code's own limit; in `services` two sessions, executions, flights, requests or
logins are what overlaps, batches and caches are smaller than what fills them.
The invariants and action properties of `orchestrator` were also checked with three
launches and two crashes (11.7 million states), a resume of a resume; the instance
of the run is smaller so that its liveness and refinement are checked too.  Every
bound is a named constant and appears in a guard.
Deadlock is not checked where the task may simply be over.

### Fairness

* `approval`: weak fairness of opening a task's page and strong fairness of
  answering a prompt that the page keeps showing: requests have no timeout by
  default ("the human is NEVER bypassed"), so nothing else can settle them.
* `orchestrator`: weak fairness of the worker (an async function is resumed
  when its promise settles) and of the human at a gate.
* `lifecycle`: weak fairness of each slot, and strong fairness of its verdict,
  because an execution has finitely many gates; Orchestrator's `ExecutionEnds`
  is what justifies it.
* `developer`: weak fairness of the phase: every wait for an agent has a
  timeout.  The agents themselves are under no obligation.
* `delivery`: the same of both phases (commands of git and gh return or time
  out), and the human who is asked answers.
* `authoring`: weak fairness of the code, of the agent that is waited for (a wait
  has a timeout, whose effect is that of a silent reply or an error), and of the
  human, who is asked without a timeout.
* `services`: weak fairness of the flush timer alone; it is a `setInterval`.

## 4. What the code says and does not do

Four disagreements are runs of their own; `PROJECT.json` quotes the lines.

1. **A rejection does not stop the task** (`OrchestratorV2.ts:517`, `:603`).
   The answer object is tested instead of its action.
2. **retry-from Analysis skips stories** (`OrchestratorV2.ts:273`).  After a
   crash in Developer the saved index is applied to the new analysis.
3. **A launch can vanish** (`TaskQueue.ts:131`).  The job id is the task id, and
   BullMQ ignores an id whose finished record is still kept.
4. **Commits on the base branch** (`DeveloperPhaseV2.ts:602`).

The modules state further promises of the code's own comments that the models
refute; add the definition to the cfg named here to see the trace.

| Definition | cfg | Behaviour |
|---|---|---|
| `Orchestrator!StartFromRespected` | MCOrchestrator | skipDeveloper and skipMerge are never read: a launch from Merge develops first |
| `Authoring!FailedRunIsSeen` | MCAuthoring | the analyst's JSON block is read as the report of every later role: failed runs count as passed, no tests count as generated, no approval is asked |
| `TaskLifecycle!CancelledStays` | MCLifecycle | the worker goes on and writes its verdict over cancelled |
| `TaskLifecycle!NoAutoResume` | MCLifecycle | a prioritised job survives the clean-up and runs |
| `EventBridge!HandledOnce` | MCBridge | a reconnect timer revives a dropped subscription next to its successor |
| `EventBridge!WaiterIsServed` | MCBridge | an agent that finishes before the listener is there is waited for until the timeout |
| `EventBridge!NotesReachTheirSession` | MCBridge | events without an id go to a session an earlier phase left registered |
| `DeveloperPhase!DiscardedStaysOut` | MCDeveloper | an agent nobody stopped edits after the rollback; the next story commits it |
| `Delivery!OnePullRequestPerRepository` | MCDelivery with `BranchIn = {api}` | a repository left on main gets commits and no pull request; the phase succeeds without an error |
| `DeveloperPhase!OneResult` | MCDeveloper | `continue` ends the build loop only, the story gets two results |

`StableIsExact` and the `spoiled` flag of `DeveloperPhase` say precisely when
these do not happen: while no stream breaks, and while no agent was left working
and no git command failed.  Two of the promises are proved under that condition
(section 5): `DiscardedStaysOut` holds as long as nothing is spoiled, and commits are
on the task's branch if every repository has it.

`TaskWorker` passes neither `autoMerge` nor a callback, so in this build the merge
phase takes mode "neither": it opens pull requests, and a completed task may have
them open.  `Delivery` checks all three modes the phase supports.

Behaviour that the models contain and that no line of the repository promises
otherwise:

* Recovery.  Tasks that were queued or waiting for an approval at a crash are not
  recovered; one that crashed after the scan is interrupted, and /resume answers
  400; one that crashed during the scan after a failure is resumed from the scan
  without an analysis.  A cancelled task is overwritten with the verdict.
* Planning, Analysis, TestGeneration.  A cancel during Analysis' questions is
  taken as "skipped".  Rejections, cancels and errors inside TestGeneration are
  ignored by `execute()`, and the merge follows; its header's "loops back to
  Developer Phase" is not implemented.  Analysis' last fix prompt is sent and
  nobody waits for it.  A silent judge approves a plan, an unreadable test run
  passes.  Session rows of Planning and TestGeneration stay active until the task
  is cleaned up.
* Activity log.  Streaming chunks are saved too, because the types that
  `saveForUIRecovery` skips are never produced by `transformEvent`; entries queued
  while `stop()` flushes are dropped.
* Costs.  A launch without a start phase after a restart begins at zero and
  overwrites the row; UPDATEs may land out of order.
* Executions.  `completeExecution` ends whatever is active for the task.
* Settings.  Overlapping requests lose updates; stack detection writes back a
  snapshot taken before it began.  A kept key may belong to another provider.
* Context cache.  A refresh may take it over its limit until the next build.
* Projects.  Repositories can be added to a deleted project; a creation that fails
  midway leaves what it made; clearing all variables leaves an old `.env`.
* Accounts.  Of simultaneous first logins one ends with an error.
* A commit by hand takes whatever is in the tree, accepted or not.

## 5. Proofs

`ApprovalService_proofs` proves, for every set of tasks and phases, every number
of requests, with or without timers (assumption `ApprovalConstants`: the bound is
a natural number, `NoRequest` is not one):

* `ApprovalTypeOK`, `NoRequestStranded` (PendingMirrorsPromises), `AuditIsExact`
  (AuditAgrees) and `PromptAlwaysVisible` (PromptVisible), all from
  `ApprovalInvariant`: Spec => []ApprovalInv.

`ApprovalInv` adds two facts to these four, and needs them.  `TimerOwnsEntry`: an
armed timer belongs to a request that still waits; without it `TimerFires` could
delete the entry of a later request, which is just what the code would do if
resolveWithAction forgot `clearTimeout`.  `OneWaitingPerTask`: a task has one
unsettled request, because its pipeline awaits each answer; without it
`resendApprovalRequest`, which resends one entry, could leave another prompt
unseen.  There is one lemma per action; `SettleOneInv` is shared by an answer and
a timer, which both settle one request and remove its entry.

`TaskLifecycle_proofs` proves, for every set of slots and every number of
launches, attempts, cancels and crashes (assumption `LifecycleConstants`: the
bounds are natural numbers):

* `LifecycleTypeOK`, `OneProcessorPerTask` (OneProcessor) and
  `RemovedJobNeverRuns` (RemovedNeverRuns), all from `LifecycleInvariant`:
  Spec => []LifecycleInv.

`LifecycleInv` needs two facts that no test would state.  `BusyOwnsJob`: a
processor at work holds the lock of a record that is active, or failed because a
cancel moved it under the processor; this is why no second slot can take it.
`StaleCancelSeesLock`: a cancel acts on a job state that it read one await
earlier, and if it read waiting while a processor works, that processor took the
job since; BullMQ then refuses the removal, which is what keeps a removed job from
running.

`EventBridge_proofs` proves, for every finite set of sessions and every number of
prompts, subscriptions and broken streams (`BridgeConstants`):

* `BridgeIsConsistent` (BridgeInv), `StableBridgeIsExact` (StableIsExact) and
  `NotesSpareTheSessionInUse` (NotesSpareTheWaiter).

That sessionCount is right needs `RegisteredInOrder` (a session is registered
once, and the one in use last) and `LastPromptIsInUse`.  The two results about
stable streams need `StableStreams`: without a broken stream a loop that lost its
subscription has been told to stop, and what the current loop still has to handle
is each idle event once, none of an earlier prompt of the session in use.  The
proof showed that `NotesSpareTheWaiter` is false once a stream breaks: the timer of
a dropped subscription revives its loop, which hands events of sessions that are
gone to the one in use.  It takes a third subscription, so the run now has three.

`Orchestrator_proofs` proves, for every number of stories, launches, attempts and
crashes and every set of routes (`OrchestratorConstants`):

* `OrchestratorIsConsistent` (OrchestratorInv), `NoStoryIsLost` (NoStoryLost),
  `ResumeAlwaysFindsAnalysis` (ResumeFindsAnalysis), `MergeIsAlwaysAnswered`
  (MergeIsAnswered), and the refinement `OrchestratorImplementsPipeline`.

`OrchestratorInv` says what a crash may rely on.  `IndexCountsLast`: unless
analyses were mixed, the index saved in the row counts stories of the analysis
saved in the row, and those were worked on.  `AnalysisFirst`: whatever says that
the analysis is over (the phase, the job's start, `current_phase`,
`completed_phases`) comes after an analysis.  `AnswersInOrder`: no phase is
reached past a gate nobody answered.  `VerdictIsLast` and `StoriesBeforeMerge`
place verdicts and the merge.  The refinement takes one step of the abstract
pipeline, or none, for each action, with `VerdictIsLast` and `AnswersInOrder` at
the two places where the abstract guard says more than the concrete one.

`DeveloperPhase_proofs` proves, for every number of stories, iterations, builds and
crashes and every finite set of repositories (`DeveloperConstants`):

* `DeveloperIsConsistent` (DeveloperInv), `StoriesStartClean`
  (CleanBetweenStories), `NothingRejectedIsCommitted` (RejectedIsNotCommitted);
* `CommitsAreOfTheirStory`: unless spoiled, DiscardedStaysOut; and
  `CommitsAreOnTheTaskBranch`: if BranchIn is all of Repos, TaskBranchOnly.  Both rest
  on `CommitsAreMade`: a commit holds what is in a tree during the commit loop, on the
  branch checked out there.

`EditsOfOneStory`: what is edited, also what a crash left behind, is of the first
story that is not saved.  `TreesAreCleaned`: each loop over the repositories leaves
the ones behind it clean, and a rejected story that falls through to the approval
has nothing left to commit.  `ResultsInOrder` and `CommitsOfApproved`: a story has
a rejected result before the end only when its last build failed, and a commit
under the story in progress is one of an approved story.

`Delivery_proofs` reuses those lemmas for both phases in a row (`DeliveryConstants`
besides):

* `DeliveryIsConsistent` (DeliveryInv), `DeliveredIsAccepted`
  (OnlyAcceptedIsDelivered), `MergesHaveConsent` (MergeNeedsConsent).

`DeliveryInv` contains `DeveloperInv`, because what the merge phase pushes as
"remaining changes" is accepted only if the last loop of the Developer phase left
the trees clean; `LandedIsMerged`: pull requests are merged only in the loop an
agreement opened, and `MergeAfterStories` orders the arrays.

`Authoring_proofs` proves, for every limit of iterations (`AuthoringConstants`):

* `AuthoringIsConsistent` (AuthoringInv), `OnlyAcceptedIsSaved` (SavedIsAccepted),
  and the action property `HaltedIsQuiet` (HaltedPromptsNobody).

The difficulty is that a reader sees the last text of a whole session.
`VerdictIsFresh`: a verdict that is read again, because everybody was silent since,
does not accept (it did not when it was new, and the stories are the same).
`StoriesAreFresh`: the stories are those of this iteration unless its analyst was
not understood.  `OneWorker`, `SessionIsOpen` and `HaltedLeaves` say who may be at
work at which step.

`Services_proofs` proves, for each service alone and then, because they share no
state, for all of them together (`ServicesAreSound`):

| Theorem | States | What makes it inductive |
|---|---|---|
| `AccountsAreSound` | `AccountsInv` | `FreshIsUnused`: a state that can still be consumed let nobody pass. `LoginsAreOwn`: a callback brings an id of its own and found rows of its account. |
| `SettingsAreSound` | `SettingsInv` | `StoredKeysSuffice`: also what a request has read has keys for every provider. `ReadsAreCurrent`: without overlap the only request has read what is stored. |
| `LogIsSound` | `LogInv` | `LogIsApart`: no entry is in two of the queue, the batches under way and the row. |
| `RepositoriesAreSound` | `RepositoriesInv` | `ReadIsGiven`: only secrets are encrypted, a launch holds what was given when it read. `DeletionReachesAll`: a deletion has ahead of it all that was active when it read. |
| `TraceIsSound` | `TraceInv` | `RefersToRows`, `TurnsAreOwn`: numbers and current turns refer to rows of their own execution. |
| `CostIsSound` | `CostInv` | `WritesAreSpent`, `LedgerFirst`, `WriteIsCurrent`: a write under way carries spent money, and, unless in doubt, is alone and current. (`MoneyIsNeverInvented` proves these parts; `TotalsAddUp` is inductive on top of them, because a charge is added to the total and to one session.) |
| `CacheIsSound` | `CacheInv` | `LaggingIsRefreshed`: a total lags only behind a refresh that has files left; `UpdatedListsAll`, `BuildsAreBounded`. |
| `ScansLeaveRoom` | `RoomAfterBuild`, an action property | Only a scan adds a context. What is cached after it is among what eviction let stay (`EvictionFits`: it stops, at the latest with nothing left, and then four fifths of the limit suffice), and a part of a set has no larger a sum. |
| `StreamIsSound` | `StreamInv` | `WaitingIsYounger`: what waits is in order and younger than what went through the batches. `Chunked` cuts the queue into batches that are, one after the other, the queue (`RoundsSuffice` and the lemmas after it). |
| `SpyIsSound` | `SpyInv` | `FindingInOneRecord` also of what pushes under way will turn into records; `PushHasItsRecord`: a push at its buffer has a record of its own; `BufferedFirst`, and `OnTheWay` in `TakenOnce`: a record is in the buffer or in one request under way, and only untaken, as long as no request with it failed. |

Induction over data is not available, so nothing is proved by induction on the size
of a set or a list.  Sums (`TotalsAddUp`, `SumOf`, `TotalSize`) are over finite sets
instead: what is false of some part of such a set is false of a smallest part
(`SmallestSet`, from the well-founded order on finite subsets), which gives that a
function adding f up over every part exists (`AdditiveExists`), that the library's
fold computes it (`SumIs`), and from there `SumOfChange`, `SumOfZeros` and
`SumOfPart`.  Sequences are described by what is at each position (`Concatenated`,
`EndOf`, `RestOf`, `ListOf`).

Assumptions beyond natural bounds: the repositories of a project, the sessions of a
task and the files of a workspace are finitely many, a batch of the stream takes at
least one activity, an absent key is not a provider's name, at least one provider
needs no key (the code has a local one), and a file may have a size other than zero.

Only model-checked:

* the liveness properties (`EveryRequestSettles`, `ExecutionEnds`, `JobSettles`,
  `PhaseEnds`, `DeliveryEnds`, `PhasesEnd`, `QueueDrains`): fairness and ENABLED are
  out of the prover's reach;
* the four violations, which need one behaviour only.

## 6. Not modelled

* What has no control whose order matters: prompt texts and keyword scores of the
  specialists, the pattern tables of AgentSpy, training exports and ML analysis
  (queries and formatting), workspace and scaffolding services, TaskContextBuilder,
  the PTY proxy, health checks, logging, the connections to Redis and PostgreSQL,
  event types and constants, the read-only routes and queries.
* What nothing calls: `ApprovalModeService`, `OrchestratorV2.resume` and `cancel`,
  `trackEvent`, `completePhaseTracking` and `pushVulnerabilityToSentinental` of
  PhaseTracker, `addCommit` and `processCommit`, `configure`, `retryFailed` and
  `shutdown` of the webhook, `failExecution` and `cancelExecution`, the clean-up of
  OAuth states, `invalidate` and `clear` of the context cache.  (`analyze` of
  AgentSpy is modelled although only `trackEvent` calls it.)
* Routes: continue-with-context, creation and deletion of tasks, workspace push,
  pausing the queue, specialists, tests of provider keys, GitHub listings.
* A lost entry of the approval log: `ApprovalLogRepository.log` catches database
  errors.
* Several tasks at once in `Orchestrator`, `TaskLifecycle`, `EventBridge`,
  `DeveloperPhase` and `Authoring`: their state is per task, or per workspace of a
  task.

## 7. Plan

Done: all modules of section 2, checked; every invariant and action property of the
runs, and the refinement of the pipeline, proved.  What is left:

1. The liveness properties, when a prover for fairness is at hand.
2. Action properties that follow from the invariants proved: what a crash leaves
   of the row, and that an approval once logged is never withdrawn.
3. The routes listed in section 6, where they come to keep state between requests.
