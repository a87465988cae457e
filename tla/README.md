# A TLA+ verification of XCompiler (TOAA)

XCompiler turns a requirement into a program: a planner compiles it into Phases of eight Steps
each, a V of four Steps that write something and the four that verify them, and the runtime drives
language-model agents through the Steps, one ticket after the other, repairing what the
verifications find. Everything it decides is recorded as revisions of domain objects in an
event-sourced store, so that a run may end anywhere and the next one goes on.

This directory holds TLA+ modules of the parts of that machine in which the hard questions are:
the locks, the store, the life of a ticket, the corrective workflow that carries a repair through
the V, the change sets and their way to the canonical branch, the attempt at a Step with its permissions, the model calls with their streams, time-outs and scores, the client's task, the builds and runs a project goes through, and the
working copy with its index, its environment and the commands that run there. `src/` below means the repository's own `src/`. Run everything in this directory:

    tlc -workers 2 -config TicketLifecycle.cfg MCTicketLifecycle.tla
    tlapm TicketLifecycleProofs.tla

## 1. The system

| Component | State it keeps | Operations | What is hard |
|---|---|---|---|
| Readers-writer lock (`core/rwlock.ts`) | reader count, writer flag, two queues | `read`, `write` | wake-ups race newcomers; starvation |
| Project lock (`core/lock.ts`) | one file | `acquireLock`, its releaser, `--force` | several processes, crashes, three file-system calls instead of one |
| Object store (`infrastructure/repository`, `infrastructure/registry`) | object files, event log, index, cache | `get`, `commit`, `tombstone`, `load` | concurrent read-modify-write, crash between log and index, atomic batches |
| Ticket lifecycle (`application/project_management`: `ticket_lifecycle_service`, `ticket_registration_service`, `ticket_blocker_service`, `role_registry`; `domain/tickets`) | tickets, assignments, actors' reservations | register, route, inherit, start, park, resolve, close, block, unblock, cancel | a slot that leaks; work nobody owns; tickets of one actor parked in one commit |
| Ticket workflow (`ticket_workflow`) | Bugs, Enhancements, Change Requests: solutions, evidence, chains | open, hand over, record, verify, close, reconcile at start | closing order, merges, recurrences, repair of what a crash left |
| Corrective workflow (`corrective_workflow_service`, `attempt_result_processor`, `bug_verification`, `execution/v_model_policy`) | none of its own: Steps and tickets | route a failure, propagate a repair, complete a hop | turns of many commits, chains inside chains |
| Scheduler and orchestrator (`work_scheduler`, `orchestrator`, `project_controller`, `progress_guard`) | the turn, attempt counts, progress signature | next, resume, start, deliver, defer, complete a Phase | open work with nothing to do; resuming anywhere |
| Governance, permissions, intake, project state | permission requests, change control, PM decisions | request, decide, expire, take in | a decision arrives after its request expired; stale cache |
| Attempt execution (`execution/attempt_runner`, `agents/executor`, `quality_assessment_service`) | one attempt: rounds, tool calls, evidence | run, gate, retry, roll back | budget ends half-way, cancel during a tool call |
| Working copy (`application/workspace/file_tree_*`, `tools/workspace_write`, `tools/deps`) | the index of the files, the baseline of an attempt | write, patch, add a dependency, commit, roll back, rescan | bytes change without a tool; a write during a walk |
| Sandbox (`sandbox/`, `tools/sandbox`) | the environment, the signature of its installation, one command | build, install, run, kill | half an installation under a good signature; a command that never closes |
| Workspace and merge (`application/workspace`, `infrastructure/git`) | change sets, worktrees, merge requests | open, record, gate, integrate, authorize | base moves between gate and merge, crash between Git and store |
| Record and replay | fixtures, a cursor | record, replay | order and exhaustion |
| Outbox and domain events | pending events | append, dispatch | at-least-once over a crash |
| Planning and phase progression (`runtime/build`, `runtime/run`, `domain/planning`, `application/planning`) | the plan files, the registry's project and its Phases | build, extend, load, complete a Phase, advance, publish | the plan is kept twice and no commit covers both |
| ACP server (`acp/`) | sessions, prompts, permission requests | prompt, cancel, answer | cancel racing an answer |
| LLM router (`llm/`) | scores, overrides, the roster of a run; one request with its timers | check, rank, call, retry, fail over, diagnose, score | which timer runs out first; a message that is classified by its words; a cancellation the provider does not hear |
| Other tools, CLI, plugins, skills, prompts, audit, memory, wiki, configuration, i18n | files and processes | | mostly input and output |

How they interact. The CLI and the ACP server call the runtime (`runtime/run.ts`), which acquires
the project lock and runs the orchestrator on the current Phase. The orchestrator's loop asks the
scheduler for a ticket, has it routed to an actor (registration, role registry, lifecycle), starts
it (project controller), lets the attempt runner work on it (executor, router, tools, sandbox,
change set) and hands the result to the result processor, which delivers, propagates or routes it
(corrective workflow, ticket workflow, blockers). Each of these writes through the object store;
the tools' file writes go through the index of the working copy, under the
readers-writer lock, and their commands through the sandbox. There are no threads: what interleaves
is callbacks at an `await`, processes on one disk, and runs separated by a crash.

What makes each modelled component correct is in section 3; `PROJECT.json` lists the hazards at
their lines, with the property that covers each, or why none does yet.

## 2. The modules

| Module | What it is |
|---|---|
| `RWLock` | the lock, one action per piece of code between two `await`s |
| `ProjectLock`, `ProjectLockProofs` | the lock file, one action per file-system call, any number of processes |
| `ProjectHistory` | extends `ProjectLock`: what the builds and runs that take the lock do to the plan files and the registry; `ProjectLockProofs` extends it |
| `VersionedStore` | abstract: a map whose batches commit atomically, and nothing else changes it |
| `ObjectStore`, `MCObjectStore`, `ObjectStoreProofs` | repository and registry; refines `VersionedStore` |
| `TicketLifecycle`, `MCTicketLifecycle`, `TicketLifecycleProofs` | every commit of the ticket services, in every order their guards admit |
| `CorrectiveFlow`, `MCCorrectiveFlow` | the V, the scheduler, the turns and the chains of Change Requests, in the order the orchestrator makes them |
| `GitRepository` | branches, working copies and the index, as the services use Git |
| `ChangeSets` | extends `GitRepository`: where a ticket works, and the attempt as a transaction over its working copy |
| `MergeIntegration` | extends `ChangeSets`: merge request, gate, authorization, squash, and the reconciliation at start |
| `ProjectRun`, `ProjectRunProofs` | extends `MergeIntegration`: the run of a Phase; refines `Mainline`, whose promises are proved there too |
| `Mainline` | abstract: a branch on which each change set lands once and for good |
| `LlmRouter` | abstract: one call of a model, through its providers, as the rest of the system sees it |
| `ProviderStream` | one request to a provider: what its peer may say, and the timers of headers, first token, idle, wall clock and diagnosis |
| `ProviderScores` | the scores, the user's overrides, the check before a run, the ranking |
| `ModelCall`, `MCModelCall`, `ModelCallProofs` | extends both: the calls of a run, retries, switches and cancellations; refines `LlmRouter` |
| `CallBudgets` | arithmetic: how a context window is divided, how long a rate limit is waited for |
| `PermissionService` | the decisions of a run on what leaves the project |
| `StepExecutor` | extends both: one attempt at a Step, rounds, turns, gates and limits |
| `AcpSession` | extends `PermissionService`: sessions, tasks, questions and answers |
| `AgentRun`, `AgentRunProofs` | extends `StepExecutor` and `AcpSession`: from a client's prompt to its answer |
| `AttemptPolicy` | what is decided about one attempt: whether there is another, where a chain of corrections began, whether the baseline gate runs, how far a correction is carried |
| `DeliveryGates`, `MCDeliveryGates`, `DeliveryGatesProofs` | extends it: the attempts of a Phase, and what becomes of each |
| `FileTree` | extends `RWLock`: the index of the working copy, and what changes files with and without telling it |
| `Sandbox` | the environment, its signature, and one command with its child and pipes |
| `Workbench`, `WorkbenchProofs` | extends `FileTree` and `Sandbox`: a run at its working copy, the other callers of the index, and the end of the process; the proofs include those of `RWLock` |

Five compositions are made by EXTENDS, since their parts share state and call each other:
`ProjectHistory`, `ProjectRun`, `AgentRun`, `Workbench` and `ModelCall`; a part's operations leave alone the variables of the
modules above it, and the composing module says what those do meanwhile. Three are by INSTANCE, as
refinements: `ObjectStore` of `VersionedStore`, `ProjectRun` of `Mainline`, and `ModelCall` of `LlmRouter`,
which `StepExecutor` extends: the attempts of `agent_run` rest on calls that `model_call` shows the code to make.

`MC...` modules give constants their values for TLC. Operators and actions with `(mutant)` in their
comment are not part of a specification: each is a plausible bug in one definition, and TLC finds
the property it is listed with in `PROJECT.json` violated when it takes that definition's place.

### RWLock

`activeReaders`, `writing`, `readerQueue`, `writerQueue` are the class's fields. `pc` is where a
call is, `woken` the part of Node's microtask queue that `admitNext` filled: a batch of waiters
whose promises are resolved and whose continuations have still to run. `AcquireRead`,
`AcquireWrite`, `ReleaseRead`, `ReleaseWrite` are the methods of these names, with `admitNext`
inside the releases, and `Resume` the continuation after the `await`. `Barging` says where calls
come from: events of their own (I/O, timers), which Node delivers once the microtasks have drained,
or microtasks queued before the wake-up. With such microtasks (`Barging = TRUE`) the lock does not
exclude: a newcomer finds the flag lowered, gets in, and the woken writer joins it. The callers in
this code resume from file-system events, so that the runs and the proofs take `Barging = FALSE`.

### ProjectLock

A file is named after the process that created it; `path` is what `.lock` names, `content` what it
holds, `fd` what each process writes to, so that writing to an unlinked file is possible, as on the
real system. `Create`, `Read`, `Truncate`, `Fill`, `Release` and `Unlink` are the file-system calls
of `acquireLock` and of the releaser; a process may die before any of them. `Overlap` allows two
processes inside those functions at once. Pids are not reused.

### ProjectHistory

Between acquisition and release a process is a session, `job`: a build or a run. The plan is kept
twice, in `phasePlan` (`phasePlan.json`) and `plan` (`plan.P<k>.json`), and as `projects` in the
registry. Each write is an action, and a session may fail (`Fail`, the planner or the work) or die
(`Die`) before any of them. A plan, a Phase and its Steps carry the number of the build they come
from, which is all the properties need of a plan's content.

| Code | Model |
|---|---|
| `build` up to its checkpoint, its reuse | `BeginBuild`, `Checkpoint`, `Reuse` |
| decomposition and the plan of the first Phase | `Decompose`, `CannotPlan`, `Plannable` |
| an increment: Phases numbered on from the delivered ones | `Offset`, `Renamed`, `Preserved`, `Joined`, `WithPlan`, `SavePlan`, `SavePhasePlan` |
| `persistGraph`, `extendProjectGraph`, `retireProject` | `PersistGraph`, `PersistExtension`, `RetireProject` |
| `runExecute`: load, materialize, advance what was left behind | `BeginRun`, `Load`, `CannotLoad`, `Materialize`, `Check`, `Unadvanced` |
| `ProjectController.completePhase` | `CompletePhase`, `SelectCurrentPhase`, `DeliverProject`, `CloseProject`: a commit each |
| `advancePhasePlan` | `CannotAdvance`, `FinishPhasePlan`, `Publish`, `Reference`, `Enter`, `CannotEnter` |

What a run does inside a Phase is one action, `Execute`: it is `ProjectRun`'s. A holder that
`--force` has overridden is the stale process the option is for, and does nothing more but release;
`--force` on a session at work counts as a fault. `Recycle` gives the place of a process that has
ended to a new one, so that a few processes make a succession without end.

### ObjectStore and VersionedStore

`log`, `index` and `files` are on disk; `entries`, `sequence`, `cache` and the commit queue are in
memory and lost in a crash. A caller reads (`Read`), derives the next revisions and joins the queue
(`Commit`); then `WriteObject` per object, `AppendBatch` (which accepts or refuses), `ApplyBatch`,
`WriteIndex`, with `IoFailure` possible at each, `Tombstone` from the other queue, `Crash`, `Boot`.
A value is the caller that wrote it: the properties only ask whose write is there. The hash chain
over events is left out: no behaviour of the code itself breaks it.

`Store == INSTANCE VersionedStore WITH current <- Replay(log)`: the abstract map is what a replay
of the events on disk yields. A commit takes effect at its append.

### TicketLifecycle

The variables are fields of the stored objects, one ticket or actor per index: `Ticket.state`,
`registeredAt`, `blockedByTicketIds`, `duplicateOfTicketId`, the assignment's assignee (`owner`) and
`capacityConsumed` (`consuming`), and the actor's `activeAssignmentIds` (`held`). `Move` is
`prepareTransitionPath` with the release of reservations and `reconcileActorCapacity` in it;
`Parking`/`Blocking` are the blocker service's `prepare`; the actions are the services' operations.
A registry commit with two revisions of one actor is refused (`OneRevisionEach`), as
`commitBatch` does. No scheduling: any operation whose guards hold may come next, which includes
every order a crash, a restart or a reconciliation could produce.

### CorrectiveFlow

One Phase. A Step is a number: with `Pairs = n`, Steps 1..n write and n+1..2n verify them in
opposite order, each depending on the one before, as the compiler lays them out. `step`, `state`
and `blockedBy` are the objects' states; `bug` and `request` the other fields of those tickets that
decide something. `todo` is the rest of the turn: the code is a straight line of awaited commits,
and each action executes the operation at the head of `todo`, so that a crash may come before any
commit, and takes nothing but `todo`.

| Code | Model |
|---|---|
| `WorkScheduler.resume`, `next`, `inProgressWork`, `activeCorrectiveTickets` | `Selection`, `Offered`, `InProgress`, `Corrective`, `Refuses`, `First` |
| `ProjectController.start` | `StartStep`, `Begin` |
| `deliverNormal` | `DeliverNormal`, then `AdvanceStep`, `DeliverStory` |
| `deferNonProjectAttempt` | `Defer`, then `Park`, `Stop` |
| `processFailure`, `routeFailure` | `RouteFailure`; `Retry` for what stays with its owner |
| `propagateCorrectiveChange` | `Propagate`, then `RecordBug`, `OpenRequest`, `Activate` |
| `completeChangeRequestStep` | `ApplyRequest(P)`, then `AdvanceStep`, `RecordRequest`, `RecordBug`, `ProveOthers`, `OpenChild`, `Close`, `CloseSource`, `Release`, `Wake`, `CloseStories` |
| `run` up to its loop | `Boot`, then `Reclaim`, `BreakCycles`, `Repair`, `Reconcile`, `Restore`, `ActivateAll`, `CloseStories` |
| `completePhase`, the end of `run` | `Finish` |

Two kinds of ending are told apart: `Finish` when nothing is selectable (the Phase is delivered, or
the run fails), `Stop` when the result processor asks for it. Ids are random in the code and decide
ties in the scheduler's sort: `First` leaves the tie open. The order in which a loop visits tickets
of one set is left to TLC's choice where each visit touches a ticket of its own, and open where
the visits are commits a crash may separate (`Activate`, `Release`, `CloseStories`).

Left out: actors and capacity (`TicketLifecycle`), Enhancements and dependency requests, the
approvals, attempt budgets and the progress guard, the final gate, change sets and their
integration (`ProjectRun`).

### GitRepository, ChangeSets, MergeIntegration, ProjectRun

What a commit changes is a set of numbered pieces of work, and a revision is the history it names.
`branch` and `tree` are the branches and the uncommitted work in each working copy, `staged` the
index of the canonical one. `ticket`, `changeSet` and `gate` are the stored objects
(`TicketChangeSet`, `MergeRequest` with its latest `MergeGateRun`); `run` is the call stack of the one process and is
lost when the run ends. `accepted`, `by`, `left`, `cut` and `skipped` record history for the
properties and guard nothing.

| Code | Model |
|---|---|
| `TicketChangeSetService.prepare` and what it calls | `UseCanonical`, `UseChangeSet`, `Promote`, `DropOldTree`, `AddTree`, `InTheWay`, `CannotPreserve`, `RecordChangeSet`, `Create` |
| `AttemptRunner.run` as a transaction: baseline, execution, verdict, roll-back, pinned failure | `Baseline`, `Execute`, `Verified`, `Deliver`, `RollBack`, `Cancelled`, `Reject`, `Pin`, `Restore` |
| the result: delivered, or a Bug routed to where it failed | `Deliver`, `Route`, `OpenBug` |
| `integrateTicket`, `integratePhase`, `ensureMergeRequest` | `NothingToMerge`, `IntegrateTicket`, `IntegrateNext`, `Open`, `Review` |
| `MergeGateService.run` | `MakeCandidate`, `Conflict`, `Validate`, `Pass`, `Fail`, `CannotRun`, `CleanUp`, `GatePassed` |
| `mergeGatePassed`: verdict, authorization, intent, squash, record | `VerdictHolds`, `VerdictFails`, `Approve`, `Deny`, `Intend`, `MergeSquash`, `CommitMerge`, `CommitFails`, `Persist`, `Release` |
| `resumePending`, `reconcileMergeIntent` | `StartRun`, `ResumeGate`, `ResumeMerged`, `CannotReconcile`, `NothingPending` |
| the loop and the end of `runExecute` | `Schedule`, `PhaseGatePasses`, `PhaseGateFails`, `OpenIntegrationBug`, `Complete` |

A crash comes before any of these, each of which is one Git command or one commit of objects.
`UserCommit` is somebody else's commit on the canonical branch, made while no run is, while a gate
checks, or while an authorization is waited for with nothing staged; `LoseTree` takes a working
copy's directory away. The schedule is the plain one; the order of repairs is `CorrectiveFlow`'s.

### LlmRouter, PermissionService, StepExecutor, AcpSession, AgentRun

`chat` is the state of `FallbackClient.chat`: the provider, the try, and whether everything so far
was refused for its content. Which providers are usable is a choice at each call. `cache` is the
permission service's map of decisions. `ex` is the attempt: its round, the actions left of the turn
(`todo`), what has been written and tested, what is unresolved, and the counters of the progress
guards. `session`, `task`, `held` and `known` are the server's: a request has an entry with the
session and one with the server, and its asker may have stopped waiting. `job` is how far a task
has got in `runCodeTask`, `lock` who holds the project, `plan` and `run` what build and run share.

| Code | Model |
|---|---|
| `FallbackClient.chat` | `StartChat`, `Answer`, `Refuse`, `Call`, `Wake`, `NextProvider`, `Switch`, `Abort` |
| `StepExecutor.run`: proposal, added verification, each action | `Think`, `Listen`, `Turn`, `Gate`, `Act` with `Read`, `Write`, `WriteFails`, `RunTests`, `Fetch` |
| the judgement of a turn, in the code's order | `Judged`: `Accept`, `HandedBack`, `PermissionBlocked`, `Stuck`, `Hopeless`, `Limits`, `GiveUp`, `GoOn` |
| `PermissionService.decide` | `AskPermission`, `HearPermission`, `PermissionTimesOut`, `Remember` |
| `session/*`, `task/*` requests and responses | `NewSession`, `Close`, `Prompt`, `CancelTask`, `AnswerRequest` |
| the stages of `build` with their gates and repairs | `BeginBuild`, `AskPlanner`, `HearPlanner`, `AskClient`, `HearClient`, `SavePlan`, `Built` |
| the run of the plan | `Load`, `BeginAttempt`, `Execute`, `SyncDelivered`, `EndAttempt`, `EndRun` |

`Elsewhere` is a process that has the project between the build and the run of a prompt. Shutdown
and a closed transport are `Close` of every session.

Left out of `StepExecutor`: the recovery contract of a Debugger, the dispositions of Change
Requests, deferred verification, `run_program`, and more than one test command. A write of the
manifest asks before it writes in the model; the code writes first and asks for the installation,
which the properties do not tell apart.

A delivery that declares a manifest installs it before it is committed (`SyncDelivered`,
`attempt_runner.ts:652, 1090-1110`) and asks nobody, also when the client has refused the registry to the tool
that wrote the manifest: TLC reaches that (`run.synced`, with the registry in `run.refused`). That a manifest in
any sub-directory counts as one (`attempt_runner.ts:1342`) is part of the choice whether `Write` declares. The other
environments the program builds are left out of `AgentRun`: of a run (`run.ts:373`), of a working copy
(`scope_environment.ts:26`) and of a gate (`merge_gate_checks.ts:36`), which ask nobody; and with them the one question the
orchestrator asks before it builds that of a run again (`orchestrator.ts:331-345`).

### ProviderStream, ProviderScores, ModelCall, CallBudgets

`req` is the request under way: its headers, a refusal whose body is being read, or its body; the
clocks `age`, `still` and `quiet` of its timers; how far the stream has come (`got`); and what became of
the diagnosis of a silence (`stall`). `outcome` is the answer, or the words of the message that the router
looks for and the details it comes with. `score`, `user`, `roster` and `unavailable` are the score store
and what the check of the providers leaves. `call` is the stack of `FallbackClient.chat`. Time passes in
ticks, never past a timer that is due, and the peer may do at any instant whatever the protocol has.

| Code | Model |
|---|---|
| `OpenAIClient.chat`, streamed and not | `Accept`, `Reject`, `ErrorBody`, `Comment`, `Reason`, `Piece`, `Spoil`, `Err`, `Complete`, `Deliver`, `Drop` |
| `OllamaClient.chat` | `Respond`, `Line`, `Ends`, `Post`, `Lose` |
| the timers of both, `armStallDiagnosis` | `Tick`, `HeadersExpire`, `WallExpires`, `IdleExpires`, `AskDiagnosis`, `Diagnose`, `Seen` |
| `wrapOpenAIError`, `withStallDiagnosis`, `bindAbortSignal` | `Failed`, `Heed` |
| `ScoreStore`, `preflightProviders`, `rankByScore` | `ScoresInit`, `Decayed`, `Boosted`, `Preflight`, `Usable`, `Ranked` |
| `recordTicketOutcome` | `RecordTicketOutcome`, `TicketOutcome` |
| `FallbackClient.chat`, its classification and retries | `Start`, `Probed`, `Judge`, `Gated`, `Wake`, `NextProvider`, `RateLimited`, `Retryable`, `Transient`, `WithoutStreaming` |
| `resolveSkillOperationWindow`, `computeRetryDelayMs` | `CallBudgets` |

The outcome of a ticket counts for or against every provider that worked on it, at any time. Nothing in the
program calls `recordTicketOutcome` yet, only `tests/router.test.ts:433-439`; it is modelled as any caller may use it.
A cancellation may come at any instant of a call, also while the end of a request or a refused answer is
being written down (`router.ts:476-491, 690-705`): the judgement that follows counts it or not by where
it looks, so that an OpenAI model whose answer was refused loses score although the task was cancelled meanwhile.

Things the model showed and the properties leave alone. With the default configuration the diagnosis of a stall (after 600 s)
can never come in a stream, whose first token is waited for 300 s and whose pauses last 60 s. A failed
fetch is retried at once, without the probe that is meant to gate such a retry; a time-out of the
headers, or of a model that has only thought, has none of the words a retry looks for, so that the call
switches at once, while Ollama's pause before its first token is retried. The text of a diagnosis joins
the message before the message is classified. `OllamaClient` hears neither the cancellation nor the
shorter budget of a retry without streaming; its answer after a cancellation may be refused, retried and
cost it its score. An OpenAI stream that has begun to answer has no time limit. The window of a call
counts the messages and not the prompt of a correction, and its floors exceed the window when the
prompt leaves fewer than 1024 tokens (`WindowIsShared`).

### FileTree, Sandbox, Workbench

Of a file the model keeps whether the index has it as it is (`current`), whether HEAD has
(`committed`), and whether it has changed with no tool to tell (`missed`). `tree` is the rest of the
stored index: its dirty mark and the revision it says it stands for. `job` is what each caller of
the index still has to tell it, with what a walk has passed and found. In `Sandbox`, a dependency set
is a name: the manifest names one, the lockfile pins one, and `modules` is one, part of one or
nothing; `key` is the signature file. `cmd` is the one command there is: its child, whether a
process it has left holds the pipes, and the idle checks of an installation. `flow` is where the run
continues when the command, the build and the update it waits for are over.

| Code | Model |
|---|---|
| `FileTreeService.record`, `markDirty`, `rescan`, `stat`, `list` | `Record`, `MarkDirty`, `Walk` and `Rescan`, `Read`, each between `Acquire` and its release |
| `writeWorkspaceFile`, `recordWorkspaceWrite` | `WriteWorkspaceFile`, `RecordFails`, `MarkDirtyFails` |
| `SubprocessSandbox.build`, `buildNode`, `buildPython` | `StartBuild`, `Probe`, `Retry`, `Installed`, `Validated`, `Seal`, `BuildFails` |
| `execRaw` | `Spawn`, `ChildExits`, `TimeIsUp`, `ProgressCheck`, `Kill`, `LetGo`, `Close` |
| the start of `runExecute` | `Start`, `Built`, `Scanned` |
| an attempt's tools | `WriteFile`, `ApplyPatch`, `Sync`, `AddDependency`, `Rebuild`, `Restore`, `Command` |
| its end: committed, or reset to the baseline | `Deliver`, `Delivered`, `FailAttempt` |
| the merge gate's checks and the landing | `Judge`, `Prepared`, `Checked`, `Land` |
| the delivery document and the scan stamped with its commit | `Publish` and what follows it |

`tree.of` is what the index says it stands for. The scans at the start of a run and after a landing stamp
the head, in full. A publication stamps what `git.snapshot()` returns, which is the abbreviated hash of `git commit`
(`run.ts:593-597`, `git.ts:89-90`), and compares it with the full head (`orchestrator.ts:223-226`, `242-243`); the
two are never equal, so that every publication is scanned and committed once more (`Reconcile`, `Repair`) and then marked
unverified (`Flag`). The model has the short hash as a revision of its own (`"short"`) that equals none. The
tests of the publication use one and the same hash for both. `astray` is what has changed with no tool to tell since
the run last found nothing uncommitted; it guards nothing.

Left out: a Python project without a manifest is no instance:
nothing is installed for it, and `add_dependency` creates one. Some things the model showed and the
properties leave alone, since the code recovers from them or says so: the container sandbox lacks the
retry of `ci` with `install`; a kill reaches the child and not what it has started; `install_deps`
is said not to write the manifest (`tools/sandbox.ts:422`), which `npm install` does; a patch that
fails on its second file leaves the environment unsynced with the first; going back to the baseline leaves the
index stale until the next scan; and an installation that fails, is killed or is rolled back
after a seal leaves the old signature over broken modules (`deps.ts:133-145, 207-226`), as does a process that ends in
the midst of one. The next build of that manifest then is a hit over them (`subprocess.ts:232`), and TLC reaches that.

### AttemptPolicy and DeliveryGates

`CorrectiveFlow` takes the verdict of an attempt as given and asks what the turns make of it, commit by
commit. `DeliveryGates` asks what the verdicts are: which failures an attempt can come to, what
`processFailure` makes of each, and for how long it is tried. A turn is one action here, for a start, an
attempt and its processing each, and a chain of Change Requests is one ticket that moves from Step to
Step (`Hop`), with new attempts at each, as the tickets of the code have them.

| Code | Model |
|---|---|
| `evaluateAttemptExtension`, the records of a ticket | `Extends`, `Logged`, `Aged` (another build), `Evidence` (attempts that left no record) |
| `resolveCorrectionChainOrigin`, `correctionParentIds`, `directCorrectionOrigin` | `ChainOrigin`, `CorrectionParents`, `DirectOrigin` |
| `resolveBaselineGateExecution`, `correctivePropagationStepIds`, `isQualityGapFinding` | `BaselineGate`, `Propagation`, `QualityGap` |
| `WorkScheduler.next`, `resume` | `Selection`, `Refuses` |
| `ProjectController.start`, `extendConvergingTicket` | `Start`: `Begin` or `Exhausted` |
| `AttemptRunner.runAttempt` | `Fail`, `Succeed`, `Cancelled`; `Can` says which failures are possible at this ticket |
| `AttemptResultProcessor.process`, `processFailure` | `ProcessPassed`, `ProcessFailed`, in the order of the code |
| `routeGateFindings`, `registerGateBatch` | `RouteNext`, one finding after the other; `Batch` |
| `routeFailure`, `routeQualityGap`, `routeDependencyChange`, `routeContractChange` | `RouteFailure`, `RouteGap`, `RouteDependency`, `RouteContract` |
| `propagateCorrectiveChange`, `completeChangeRequestStep`, `completeDependencyRequest` | `Propagate`, `Apply`, `Answered` |

A ticket has what the decisions look at: its Step, where it was found (`context`), in what it was raised
(`parent`, `bug`, `source`, `origins`, `trigger`), and how often each signature of a failure was recorded
under the present build. `cause` is no field of the code: it is the ticket whose attempt, or whose
repair, a correction came of, which the properties hold the recorded chain against. The progress guard
is left out: it ends runs this model lets go on. Some things the module showed and its properties leave
alone: an Enhancement raised in an Enhancement's attempt does not say so, and the origin of the chain is lost
(`Orphan`); an Enhancement never blocks the Story of the Step that found it; a contract change leaves the Step that
reported it in progress; and outages are recorded like failures of the work and count as recurrences.

## 3. The runs

| Run | Bounds | Checks | States |
|---|---|---|---|
| `project_lock` | 2 processes and their successors, one forced, no overlap, 3 builds of 2 Phases, 1 fault | `Exclusive`, `Coherent`, `LastOneGetsIn`, `Delivered` | 253 912 |
| `project_lock_race` | 2 processes | `Exclusive` **violated** | |
| `object_store` | 3 objects in a chain, 2 callers, 5 events, 1 failure | `Recoverable`, `NoOrphans`, `Implements` | 67 450 |
| `ticket_lifecycle` | a Story, a Task, 2 Bugs, a Change Request, 2 actors of one slot | `OwnedWork`, `ReservationsAreLive`, `ExecutionHoldsASlot` | 167 190 |
| `corrective_flow` | 4 Steps, 2 Bugs, 6 Change Requests, 2 crashes or deferrals | six, below | 72 188 |
| `project_run` | 3 Steps, the second isolated, 2 failures, 2 faults | seven, below | 1 008 825 |
| `agent_run` | 3 providers, 1 retry, 2 rounds and 1 more, 4 kinds of action, 1 attempt, 1 prompt, 1 session | `ToolConsent`, `DeliveredTested`, `CancelHolds`, `Answered` | 374 514 |
| `workbench` | 2 readers and 2 writers of the index, one of them the run, 2 files, TypeScript without and Python with a manifest, 1 attempt of 2 calls, 2 strays, 1 crash | five, below | 755 501 |
| `model_call` | 3 providers and an imported one, each timer a few ticks, 1 retry, 2 calls or recorded outcomes | `Explained`, `IsRouted`, `Deserved`, `CallEnds` | 720 216 |
| `delivery_gates` | 4 Steps, 14 ways to fail, 1 attempt to begin with, 3 tickets opened, builds that change | `BaselineHeld`, `CodeIsThere`, `NeverIdle`, `RetriesEnd` | 105 308 |
| `delivery_gates_repeat` | the same, tickets may fail as often as they like away from their Step, one build | `RepeatedFailuresStop` **violated** | |
| `gate_checks` | the bounds of `workbench` | `GateMeansPassed` **violated** | |

**project_lock.** Any succession of builds and runs in which no two are inside `acquireLock` or the
releaser at once; crashes at every call of the lock and at every write of a session, failed planners
and failed work, a holder overridden by `--force`. Two processes are the holder and the one it
meets; more at once are `ProjectLockProofs`' part. Two Phases of a build give the first, the last
and the step between them; three builds are a project, an increment on it and one that replaces or
extends what was broken off. Two faults with two builds (228 000 states, liveness included), two
with three builds (1.5 million, safety only), and three Phases (84 000) pass as well, outside the
listed runs. Fairness: a process that lives goes on, its place is taken when it has ended, and somebody
starts the next one; nobody has to build.

- `Exclusive`: one process works on the project. That nobody else removes its lock
  (`OnlyItsOwnerUnlinks`) is proved, and not checked again here.
- `LastOneGetsIn`: a file left empty, garbled or held by a dead process keeps nobody out.
- `Coherent`: at every instant the Steps in the registry come from the plan of their Phase's build,
  and the registry is at the Phase the PhasePlan names or at the next one: it leads by at most the
  step a run was in when it ended, and the next run makes up for it (`Unadvanced`).
- `Delivered`: runs started one after the other bring a project to its end.

`Coherent` exempts what a build that ended before its graph was in the registry leaves behind (`torn`, which a
forced takeover adds to as a death does: its checkpoint has overwritten the PhasePlan, `build.ts:524`): the Steps
of its Phases, and the Phases a broken-off increment has added to the PhasePlan alone. It also exempts a project
built from a checkpoint of the same requirement at a later Phase (`LeavesOut`, `build.ts:478`). The statement holds
for builds of any size and number, which is proved (`OneStory`); before that it was checked at wider bounds, outside the listed runs and safety only: 3 processes with 3 builds of 2 Phases
(1.9 million states) or of 3 Phases (4.1 million) and 1 fault, 2 processes with 4 builds of 3 Phases and 1 fault
(2.9 million) or of 2 Phases and 2 faults (7.7 million), or with 5 builds of a single Phase and 2 faults
(7.5 million). Versions that exempted less, or that renamed the Phases of an increment by their numbers and not by
their places, failed at these and at no smaller bounds: that a build is broken off has to be recorded when it is
overridden, since a checkpoint of it may be used again before the overridden process ends. `Delivered` exempts what the
code has no way out of, each a hazard in `PROJECT.json`: a death between the new graph and the
retirement of the old (`TwoProjects`, `build.ts:717`), one inside `completePhase` (`BetweenPhases`,
`project_controller.ts:623-647`), and a PhasePlan that is done before its project
(`NothingPlanned`). With `Overlap` the exclusion fails (finding below).

**object_store.** Two callers are what a lost update needs; a chain of three objects gives
retirement an order and a batch a parent registered with its child; five events are two batches and
a retirement; one failure is at every place a commit awaits. `Recoverable`: after any death, index
and log together load to a replay of the log. `NoOrphans`: what is registered hangs under what is
registered, though objects are retired one by one while commits under them are queued. `Implements`
is the refinement. What a caller may read beside it is not always what was committed: a refused batch is
not "simply never looked up" (`domain_object_repository.ts:125`), since a caller that lost a race has
overwritten the file and the cache entry of the winner's revision until the next load.

**ticket_lifecycle.** One slot per actor makes every reservation contend; `b2` blocks both Story and
`b1`, so that one actor's two executing tickets are parked in one commit; `b1` and `b2` have one
failure identity and may be duplicates. `OwnedWork`: nothing executes unregistered or unassigned.
`ReservationsAreLive`: no path leaks a slot. `ExecutionHoldsASlot`: nor is one given away while its
work executes.

**corrective_flow.** Two pairs give a source with a Step between it and its verification; two Bugs
are a Bug raised inside another's chain, or two chains that meet. With three Bugs and one crash, and
with three pairs and no crash, the same holds (125 000 states and more; outside the listed runs). If `MaxRequests` were
reached, the run would stop for want of a ticket and `NeverStuck` or `Delivered` would fail: it is
not.

- `Resumable`: between turns at most one Step is in progress and something can go on with it, so that
  `resume()` never throws, whatever was interrupted.
- `Carried`: from the commit that hands a Bug over until its failure has been replayed, an open Change
  Request carries it, or the one it was raised in is open. There is no instant between two hops.
- `VerdictComes`: a repaired Bug that waits will be replayed: some open Change Request is still to
  pass the Step that replays it.
- `InOrder`: no Story starts while an earlier Step is under repair. The scheduler tests only the Step
  before; what makes this true is that `First` picks the lowest Step.
- `NeverStuck`: a run never ends with open work and nothing to do.
- `Delivered`: the Phase is delivered in the end.

Fairness: the run always proceeds, and is started again when it has ended (`WF(Proceed)`: someone
runs `xcompiler load`); an attempt that is made again and again succeeds in the end, for a Story
(`SF(DeliverNormal)`), a Bug (`SF(Propagate)`) and a Change Request with all its replays
(`SF(ApplyRequest(Bugs))`). The code justifies the first by its loop, and the others only while
the attempt budgets last: liveness is claimed for projects whose agents succeed within them.

The passing run makes these assumptions about the environment, each a constant, and each needed:

- `Failures` leaves out `<<4,4>>`: a failure of the last verification on its own tests has no
  downstream Step to be carried to, and `process` stops the run (`attempt_result_processor.ts:81`).
- `HopFailures` names the failures of a Change Request whose repair rejoins it before the last hop.
  With `<<3,1>>`, `<<3,3>>` or one at Step 4, a chain raised in the last hop of another hangs under it,
  and the run stops: the last hop has a child, is not taken for the last (`ticket_workflow.ts:1012`), its
  proven source is never closed, and the Phase cannot be completed.
- `Recurs = {FALSE}`: a failure comes back only of a Bug that waits where it was found, not of one
  that was handed over. Such a Bug is reopened, and offered to nobody (`work_scheduler.ts:181`): its
  Change Request is open, so that the scheduler passes it over, and the request waits for it.
- `Partial = FALSE`: a gate that passes replays every Bug that waits for it. Without it, a Bug met by
  the Change Request under repair may be left out and is never closed.
- `CrashAt` names the operations a crash may come before. It leaves out those where the reconciliation
  at start does not recover: before `begin` and `defer` (Step and ticket part company, and
  `resume()` throws on each later run), before `close step` and `close pair` (the Story of a
  verification is closed and its Step not), from the record of a hop to its `close` (the
  reconciliation looks for a verified solution, recorded after the child is opened), and before the
  `release` after `await`. These are listed as hazards with their lines. `todo` holds one commit per
  operation, so a deferral between any two commits is not possible, and is not in the code.

**project_run.** Three Steps, the second with its work in a change set, are one before, one inside
and one after it. Two failures are at any attempts or gates: the second may come to a candidate that
an earlier Bug goes on with, and whose working copy cannot be made (`CannotPreserve`), which one
failure does not reach. Two faults are a crash and one met by its recovery, or a commit or a lost working copy beside it. `MaxBugs = 4` is the most these can open,
so that the bound never cuts a run short. `Owned = FALSE` has the merge authorized by the user. With
one failure and three faults it holds too (953 356 states, outside the listed runs). A run that
ends for good is a deadlock to TLC, which is why the cfg does not look for one. Fairness:
`WF(Proceed)`, a run goes on and is started again; failures and faults are bounded, so nothing has
to be assumed of them.

- `RecordAgrees`: after the start of a run, what is squashed is recorded as merged, and what is
  recorded as merged is there with all its branch holds.
- `LandedAsGated`: what lands is what a gate passed, on the target it was judged with.
- `OnlyAccepted`: between two tickets the canonical branch holds nothing no attempt or gate accepted,
  but what an interrupted run left (`left`).
- `NoWorkLost`: the work a ticket was delivered with is on the canonical branch or on its way there.
- `DownstreamSees`: a Story starts from everything delivered before it, but for a change set whose
  integration was given up (`cut`, `skipped`).
- `IsMainline`: the refinement of `Mainline`.
- `Delivered`: the Phase is delivered, or the project is `Wedged`: an interrupted creation's working
  copy is in the way (`CannotCreate`), or a change set that passed its gate can be neither merged nor
  judged again (`Overtaken`). The exemptions are hazards in `PROJECT.json`, at their lines.

**agent_run.** One prompt, with the client free to answer, to let a request expire, to cancel and to
close the session at any moment, and other processes in the project. Three providers are a first, a middle
and a last; one retry tells the classes of failure apart; two rounds and one earned are the
smallest with a first, a last and an extended one; the tools are one of each kind that matters: one
that looks, one that writes, one that tests, one that leaves the project, and the manifest, whose
write asks for the registry. One attempt of two or more rounds stands for each of a Step's attempts,
which share nothing but `cache`; with two attempts of one round it holds too (509 610 states,
outside the listed runs). The thresholds of the progress guards are the code's (`Stuck`, `Hopeless`)
and are reached within three rounds only in part: the longer ones need longer attempts. Fairness: each
task goes on, and the client answers what it is asked (`WF` per topic), or its permission expires.

- `ToolConsent`: what the tools of a run's attempts do outside the project - fetch, and install what a manifest they
  wrote declares - the client allowed in that run and refused at no time of it; a plan whose prompt wanted to be
  asked was agreed to. Of the environments the program builds itself it says nothing: nobody is asked about
  those, and a delivery may install what its attempt was refused.
- `DeliveredTested`: what changed something is accepted only after its tests passed in that attempt.
- `CancelHolds`: a cancelled task starts no run, waits for nobody, is allowed nothing more, and ends
  cancelled.
- `Answered`: every prompt is answered, or its session was closed on it.

**workbench.** Two writers are the run and a tool of another actor, two readers a batch; two files are
the manifest, which decides the environment, and one that does not. An attempt of two calls puts any
tool after any other, and what an attempt leaves meets what comes after it: a judgement, a landing,
the end of the Phase. Two strays are a change of a program's leftover and one more while the run
commits or walks. `MaxIdle = 1` and `MaxGrowth = 1` give an installation that moves once and then hangs.
Other callers are at the index only while the run scans it or is idle (`Alone`). Fairness: Node runs its
microtasks, whoever is inside the lock leaves it, timers fire, and a child that is gone and whose
pipes are closed is reported. Nobody has to call, and no program has to end by itself.

- `IndexTrue`: what a tool changed the index has, or it is still being told, or it is marked dirty: the
  files it may be wrong of are those that changed with no tool (`missed`).
- `Provenance`: from its start to its end a run that is not telling the index anything has a tree that is HEAD's
  if it says so and is not marked, but for what has gone `astray`. It is about the stamps of the start and of a
  landing; a publication's never claims to be HEAD's.
- `SealIsTrue`: when a signature is written, the manifest and the lockfile it names are those there are, and
  installed whole, whatever was refused, killed or interrupted before. It says nothing of what becomes of the
  modules afterwards: the code does not keep signature and modules together, and a later hit may be over broken ones.
- `WriterGetsIn`: no caller that changes the index waits for good, against any stream of readers.
- `CommandEnds`: a command with a time limit, or an installation, is over in the end, unless a process
  it has left holds its pipes (`held`), which the code waits for and cannot end.

**model_call.** Two endpoints, the second an aggregated route with its own bounds of scores, and an
Ollama model in between, with another model on its server that may be imported; scores that rank them
either way, and a user who has disabled the first. The timers are one to three ticks,
and the diagnosis is set to come within a stream (`Headers` 1, `Stall` 1, `Idle` 1, `First` 2, `Cap` 2, `Wall` 3);
those that are due at one instant fire in either order. What holds with timers of
any length is proved (`Explained`, `IsRouted`, `Deserved`). `MaxCalls` counts calls and
recorded outcomes of tickets: two are a call that fails and one that meets the scores it left, or a call with an outcome
before, during or after it. Fairness:
time passes and timers fire (`WF(Clock)`), and what a request came to is dealt with
(`WF(Probed \/ Judge \/ Gated \/ Wake)`); the peer owes nothing.

- `Explained`: a failure says what happened: how far the stream had come, a diagnosis only of the silence
  it ended in, "first token" only if there was none.
- `IsRouted`: the refinement of `LlmRouter`.
- `Deserved`: a call lowers only the score of the provider it is leaving for good, and only for a request of that provider
  that failed while the task was wanted, an answer of it that was refused, or an endpoint that is gone; it
  raises only that of the provider whose answer it returns. The check before a run and recorded outcomes of
  tickets change scores by rules of their own and are excepted; there is one role, and one call at a time.
- `CallEnds`: every call ends, unless an OpenAI stream that has begun to answer goes on for good.

**delivery_gates.** Two pairs are a development Step before CODE and CODE, with the verification of each.
One attempt to begin with makes every second one a decision of the retry policy. Three tickets opened are a
correction, one raised in its course, and one raised in that; the run in which the third of them finds
something more is cut there. The failures (`MCHappens`) are one for each way `processFailure` has, at the
Step and for the ticket where that way is open; each of its branches is taken. Between two runs the
build may change (`Patches`), so that records age. Fairness: a run goes on by itself, and an attempt
ends. Nothing makes an attempt succeed.

- `BaselineHeld`: a development Step that is corrected because of what was met at CODE or later runs the
  tests it wrote, however many corrections are in between.
- `CodeIsThere`: and no Step is made to, before there was an attempt at the code they test. (The stronger,
  that there is code, does not hold: an attempt at CODE may have left none.)
- `NeverIdle`: when the scheduler has nothing to offer, the Phase is done: nothing waits in a circle, and
  nothing is left behind parked.
- `RetriesEnd`: every run ends, however its attempts fail. It holds of tickets that are tried at the Step
  that keeps their records (`Strays = FALSE`); for the others see the third finding.

### Findings

Each is a `violation` run: a comment states a property, and the shortest behaviour that breaks it is
what TLC prints.

1. *merge_gate_checks.ts:65.* A check of the merge gate looks for the verdict in a field the command's
   result does not have (`code`, where it has `exitCode` and `timedOut`, `sandbox/types.ts:25-32`): a
   check that fails or is killed counts as passed, and the change lands.
2. *lock.ts:117.* Two processes started together both acquire the project lock: the file exists, empty,
   between its creation and its payload, and an unreadable lock is taken over.
3. *project_controller.ts:182.* A Bug or an Enhancement that is worked on away from the Step that met the
   fault is tried again and again, however often it fails of the same: its records name the
   instructions of one Step and are compared with those of the other, so that they never count.

## 4. The proofs

| Theorem | States | Assumes |
|---|---|---|
| `WorkbenchProofs!TypeCorrect`, `MutualExclusion`, `NothingForgotten` | `TypeOK`, `Exclusive`, `NoLostWakeup`, any finite sets of readers and writers | `RWLockAssumption`, `Barging = FALSE` |
| `WorkbenchProofs!IndexIsTrue`, `OneWriter` | `IndexTrue`, `Exclusive` of `Workbench`, any files, callers and bounds | `FilesAssumption`, `WorkbenchAssumption`, `RWLockAssumption`, `Barging = FALSE` |
| `WorkbenchProofs!SealsAreTrue` | `SealIsTrue`, an action property, the same, and whatever the callers of the index do | the same, without `Barging = FALSE` |
| `WorkbenchProofs!StampsAreTrue` | `Provenance`, any files, callers and bounds | as for `IndexIsTrue` |
| `ObjectStoreProofs!StoreTypes`, `RegistryRecovers`, `NothingIsOrphaned` | `TypeOK`, `Recoverable`, `NoOrphans`, any objects in any tree, callers, batches and bounds | `ObjectStoreAssumption` |
| `ObjectStoreProofs!StoreIsKept` | `Implements`: `ObjectStore` refines `VersionedStore` | `ObjectStoreAssumption` |
| `AgentRunProofs!DeliveredIsTested`, `ToolsHaveConsent` | `DeliveredTested`, `ToolConsent`, any prompts, sessions, providers, tools and rounds | `ExecutorAssumption`, `AgentAssumption` |
| `AgentRunProofs!CancellationHolds` | `CancelHolds`, an action property, the same | the same |
| `ProjectLockProofs!LockExcludes`, `LockIsUnlinkedByItsOwner` | `Exclusive`, `OnlyItsOwnerUnlinks`, any processes, any of them forced | `ProjectLockAssumption`, `Overlap = FALSE` |
| `ProjectLockProofs!OneProcessWorks` | `Exclusive` under `HistorySpec`, the specification of the run, any processes, builds and faults | the same |
| `ProjectLockProofs!OneStory` | `Coherent` under `HistorySpec`, builds of any number of Phases, any processes, builds and faults | the same, and `HistoryAssumption` |
| `ProjectRunProofs!RunHolds`, `RecordIsRight`, `AcceptedAlone`, `WorkIsKept`, `StoriesSee` | `RunInv`, `RecordAgrees`, `OnlyAccepted`, `NoWorkLost`, `DownstreamSees`, any numbers of Steps, Bugs, failures and faults | `ProjectAssumption`, `NamesAssumption` |
| `ProjectRunProofs!GatedAlone` | `LandedAsGated`, an action property, the same | the same |
| `ProjectRunProofs!MainlineIsKept` | `IsMainline`: `ProjectRun` refines `Mainline` | the same |
| `ProjectRunProofs!OneCommitEach`, `LandedForGood` | `LandsOnce` and `StaysLanded` of `Mainline`, an action property, on the canonical branch | the same |
| `DeliveryGatesProofs!BoardHolds`, `BaselineIsHeld` | `GatesInv`, `BaselineHeld`, any numbers of Steps, attempts, tickets, runs and patches, and whatever attempts come to | `GatesAssumption` |
| `DeliveryGatesProofs!CodeComesFirst` | `CodeIsThere`, the same | the same, and `PointsBack` |
| `ModelCallProofs!FailuresAreExplained`, `ProvidersRemain` | `Explained`, and that a call is never refused for want of a provider once the check has passed; any timers, roster, scores and number of calls | `StreamAssumption`, `ScoresAssumption`, `CallAssumption` |
| `ModelCallProofs!CallIsRouted` | `IsRouted`: `ModelCall` refines `LlmRouter`, the same | the same |
| `ModelCallProofs!ScoresAreDeserved` | `Deserved`, an action property, the same | the same |
| `ModelCallProofs!WindowIsShared`, `ChunksFit`, `WaitsAreBounded` | of `CallBudgets`: the shares of a window fit it exactly when the prompt leaves 1024 tokens; what tools may read and write fits their shares; waits stay within the policy | nothing |
| `TicketLifecycleProofs!TicketTypes`, `ExecutionIsOwned`, `NoSlotLeaks`, `ExecutionIsCounted` | the four invariants of `ticket_lifecycle`, any tickets, actors, capacities and routes | `TicketAssumption` |

**RWLock.** `IInv` adds two facts to the properties. `Counted`: the counter is the number of readers
inside, and the flag is up exactly when a writer is. `OneBatch`: at most one batch is woken, nobody is inside while
it is, and it is a set of readers or one writer. `Exclusive` is not inductive without it: a batch of
a writer and a reader, or a batch woken over a holder, would break it at `Resume`. Without barging no
release happens while a batch is woken, which is what keeps it single.

**Workbench.** `TreeInv` is RWLock's `IInv` with `IndexInv`. `IndexTrue` alone is not inductive: a rescan
replaces the index by what its walk has found, and that is the truth only because of `WalksTrue` (what
a walk has passed and does not have as it is, a tool is still to tell or none will), which holds
because whoever walks is inside the lock (`WalksInside`) and the lock has one writer (`Exclusive`). Most
actions of the run leave files and jobs alone (`Quiet`, `Still`), change files behind the tools' back
(`UntoldStep`), begin a write (`WriteStep`) or give the run something to tell (`TellStep`).

`SealIsTrue` rests on `InstallInv`, the types of the sandbox and `BuildInv`: while a build is under way the manifest is
the one it began with, and from the installation that succeeded to the seal what is installed is what that names; without
it the seal could write a signature over another manifest's modules, or over half of its own. It does not depend on who
is at the index. `Provenance` does: `StampInv` has nobody but the run at the index from its first scan on (`PeersQuiet`), and
each file HEAD has not either gone astray, or about to be told or marked (`Stamped`).

**ObjectStore.** `StoreInv` joins to the three properties what they rest on. `Ahead`: between the append of a
commit and its apply the log ends in that commit, and memory is what was there before it. Without it
`Recoverable` is not inductive, since the index a crash leaves may be one commit behind the log. `Turn`: who
waits in the queue is there once, with something to commit. `Counted` bounds revisions by events, and
`Ordered` has before an object's event one of what it hangs under, from which a log that begins anywhere
else than at the root is excluded (`RootIsLast`). What a replay of a log yields is not computed: `Replay`
takes for each object the last event about it, and `OneMore`, `LogGrows` and `Followed` say what that is when events
are appended; that there is a last one is an argument by a least counterexample (`LeastOf`). The refinement
has a case for each step that appends: an accepted `AppendBatch` is `Commit` of the abstract store
(`AppendCommits`), `Tombstone` is `Retire` (`TombstoneRetires`), and every other step leaves the log alone and is a stutter
(`StoreChanges`), the crash and the load included.

**AgentRun.** `DeliveredTested` needs `AttemptInv`, of which `TestsFollow` is the centre: whenever all
outputs of a Step are there and something was changed, or an action that is still to come would change it or bring the
last of them, the tests have passed, or are still to come in the same turn. It is what the gate's added
verification is for (`TurnKeeps`), and a failing tool keeps it because a failed test stays unresolved until
one passes (`TestsKeep`). `ToolConsent` needs `ConsentInv`: who is at a place that needs the project holds it,
so that the one run is his (`Held`); an answer that waits to be heard is the answer to what he asked there
(`Asked`); what the cache says is approved was granted in this run and never refused in it, which the
cache alone does not tell, since it outlives the asker (`Granted`); and a plan is saved for a prompt that
wanted to be asked only after it agreed (`Agreed`). `CancelHolds` follows step by step from the same invariant: `Held`
gives one running task, and `Asked` that a cancelled one waits for nothing, so that no answer can
still reach it.

**ProjectLock.** `LockInv` says what `Exclusive` rests on: whoever holds the lock and was not overridden is
the owner it records (`HolderRecorded`), so two holders are one; and whoever is about to write or to unlink
the lock has found it vacant (`Vacant`), writes to the empty file `.lock` names (`WritesTheLock`) or is its
owner (`OwnsWhatItUnlinks`). These survive the other processes because only one is inside the two functions
(`OneMidway`), which is what `Overlap = FALSE` says. A step that only moves a process on, a crash included,
is `MoveOn`; the five others have a case each. Under `HistorySpec` every step is one of these, or leaves the
lock alone (`LockSteps`), or is a `Recycle`; that keeps `LockInv` because nobody holds the lock then and the
file of the process that is replaced is not the one `.lock` names (`RecycleKeeps`).

**ProjectHistory.** `Coherent` is far from inductive: it compares the registry with the PhasePlan when both are at
rest, and says nothing of what a session has read and will write. `HistoryInv` has two sides. `DiskInv` is of the
files and the registry alone, and holds wherever the last session ended, since this is all the next one has: numbers of
builds that were given out (`Numbers`); a PhasePlan and projects made of whole builds, whose Phases are planned in order
(`PlanSound`, `ProjectsOK`); that the plans a run may take Steps from are of the build their Phase is of, or of a build that is
broken off (`Fit`); that a PhasePlan is of a build in the registry or of one that may never get there (`Origin`); and how far
it and the project are apart when they are of one build (`Settled`, which has `InStep` in it). `JobInv` has a conjunct for each
stretch of a session, that says what it still knows of the files where it stands: from the checkpoint to the graph the PhasePlan is
the build's own (`Ahead`), nothing of the registry is of it yet unless a build was broken off that it goes on with
(`Unused`, `torn`), an increment is numbered on from the delivered Phases (`Decomposed`, `Numbered`), its plan is saved before the
PhasePlan refers to it and that before the graph (`Saved`, `Referenced`), and a run is at the Phase the PhasePlan names
(`Running`). It may know this because nobody else writes meanwhile, which is `LockInv`: hence `Overlap = FALSE`.
Each action has a lemma; those of a session reduce to `SessionStep`, the ends of one (`Fail`, `Die`, the refusals)
to `GivesUpKeeps`, and the steps of the others to `QuietStep`. That a build is broken off is recorded when its session ends;
until then what it would leave behind is `LeftBehind`, so that `Loose`, which is what `DiskInv` excuses, does not change when it ends.
With builds of any size the numbering needs arithmetic: a build's Phases are a block of `Split`, the PhasePlan's are the cells of a finite
set of blocks (`Grid`), and renaming an increment by its places moves a grid onto whole blocks (`GridRenamed`); how many there are is
counted by a bijection (`CellsCount`), and that there is a first one to plan next is an argument by a least counterexample (`LeastOf`).

**TicketLifecycle.** `TicketInv` is the conjunction of the four properties, and inductive as it
stands. All operations but assignment and registration go through `Move`; `MoveKeeps` shows what any `Move`
preserves, given that whatever it starts is registered and owned, `AssignKeeps` what any assignment preserves, and each action of
`Next` is a case of `StepKeeps` that reduces to one of the two.

**ModelCall.** `Explained` needs what holds of a request under way: a diagnosis that is awaited, or
has come and counts, is of a silence no byte has broken (`Sound`: `heard` is false), which `AskDiagnosis` establishes and
`Seen` keeps by discarding the diagnosis with the byte that outlives it. `ProvidersRemain` rests on
`Served`: decay stops above zero and a pinned zero never moves, so that a provider which was usable at the
check is usable in every call. `Deserved` needs `Heard`, that the request under way is of the
provider in use, so that what is judged is its own; and `InRange`, that a score is zero or between the bounds of its
provider, without which the decay of a score below them would raise it and a credit above them lower it. Each way a call
gives a provider up (`GivingUp`) and every outcome that is recorded (`OutcomeRanges`) keeps both.

For the refinement, `LlmRouter` counts providers and attempts where `ModelCall` names them, and the mapping is sound
because of `RouteInv`: a call under way has a provider, and stands at the gate of another attempt only before its last
(`InCall`); the chain of a call is drawn from the roster, which is finite, so that a call begins with as many providers as
`LlmRouter` may choose. Each action of `Next` is then a step of the router or a stutter: a probe that finds its provider
moves the router on, a request under way is nothing to it until it is judged.

**ProjectRun.** `RunInv` has sixteen parts, since what Git holds and what the record says agree in a different way at
each point of a run. For where the run is: `AtWork`, `Placed` and `Integrating` say what is in hand and that nobody
else will come to it, `OneBug` that Bugs come one at a time, and `ToRestore` that a rejected candidate on the canonical
branch is the one commit after the baseline. For what a gate has said: `Candidates` has the branch of a gate belong to
nobody, so that no attempt changes what is judged, and `Judged` follows the verdict from the merge of both branches
(`gated`) through the check to the squash, where it still is of the branches as they are. `LandedAsGated` is
`Judged` at `commit`. `RecordAgrees` is not inductive: between the squash and its record, and from a death there to the
reconciliation of the next run, a change set is on the branch and not recorded. `Marked` says of each such change set that the run is at a
place that will record it (`Pending`), and that no gate has judged on top of it, which is what keeps a second verdict from
being taken for current; `Landing` has what landed stay whole under a roll-back. `OnlyAccepted` needs `Clear`, which
follows what nobody accepted through index, working copy and candidate. `NoWorkLost` needs to know that a roll-back goes to
a baseline that has it, and that the candidate an open Bug goes on with contains the source it replaces
(`Delivering`). `DownstreamSees` needs `InSight`: as long as there are Stories to come, a delivered change set has an open Bug, is in hand,
or waits for the start of a run (`Awaited`). The names that are made up must be fresh, which `Sources` and `Bound` give: generations and
the numbers of Bugs are at most the count of what there is; that there is a newest change set is the argument
by a least counterexample again. `StillKeeps`, `GitStepKeeps`, `StateStepKeeps`, `TicketStepKeeps`, `BindStepKeeps` and `EndKeeps` say what
survives a step that only moves the run, commits, changes the state of a change set, a ticket, a binding, or ends the run; each
action has a lemma that reduces to one of them. `NamesAssumption` says that `None` is no name, and that the canonical branch is not
called like a ticket's or a gate's.

For the refinement, `MainSteps` sorts the steps by what they do to the canonical branch: nothing, one unmarked
commit, its return, or `CommitMerge`, which `SquashIs` shows to land a change set that is not there yet. What `Mainline` sees of
the branch is its `Markers`.

That a change set has one commit, and that none is taken back, are promises to whoever reads the branch. They are
proved of `Mainline` as `ProjectRun` sees it, and by `MainlineIsKept` hold of `ProjectRun`. `LandsOnce` and the
shape of the history are inductive together; `StaysLanded` follows step by step, from the fact that only unmarked
commits are taken back (`TakingBackKeeps`).

**DeliveryGates.** `BaselineHeld` speaks of the origin of a chain, which `resolveCorrectionChainOrigin` finds by walking
from a ticket to what it was raised because of, and the walk is only right if the tickets are: `Links` is what every
service has to leave true of them. The first tickets are the Stories and nothing else is; a ticket names only tickets that are there; and
what it says it is there because of is a Story or one of the corrections it names, so that the walk misses nothing. `Both`, the board between two commits of a routing, has this as much as the board at rest, so that each function
that makes or changes tickets (`RouteFailure`, `RouteGap`, `RouteDependency`, `RouteContract`, `Hop`, `Deliver`, ...) has a lemma that it keeps
the board, and the actions reduce to these. `Routing` types what a gate found and PM has not yet routed, `AtWork`
follows the attempt in hand from its selection to its outcome. `CodeIsThere` needs the other half of `OnBoard`, `Early`: until an attempt
at CODE was made no Step from CODE on has begun, no ticket is of anything that was met there, and
a Change Request goes only downstream. That half is proved under `PointsBack`: what a gate finds
fault with is the Step itself or a development Step. `resolveFindingTarget` (attempt_result_processor.ts:693) would
take a finding of a development Step against its paired verification too, which puts a correction to work at a Step
behind CODE before there was any; that no executor writes one rests on its being told to of verification Steps alone
(calibration.ts:1246), which is a prompt and no check. The findings of the run satisfy it.

Beyond the prover: liveness (`WriterGetsIn`, `LastOneGetsIn`, `Answered`, `CallEnds`, `Delivered`) and anything under
fairness or `ENABLED`; and induction over data, such as what a fold or a selection from a sequence yields. Where a
proof needs an order, it argues by a least counterexample. What cannot be argued so stays with TLC. No module declares a
RECURSIVE operator.

Only model-checked: the liveness of `Workbench`, the recovery of `ProjectLock`, `Delivered` of `ProjectHistory`, `CorrectiveFlow`, `Delivered` of `ProjectRun`, `NeverIdle` and `RetriesEnd` of `DeliveryGates`, `Answered` of `AgentRun`, and `CallEnds` of `ModelCall`. `NeverIdle` says that the scheduler's whole selection finds something, and so needs that
the graph of who waits for whom has a source, an induction along a chain of tickets. What `CorrectiveFlow` does in a turn is computed by a fold over the
operations of the turn, which the prover cannot follow. Where the proofs cover any number of processes, the check of
`project_lock` shows what they cannot: that what was broken off is made up for and the project delivered.

## 5. Plan

What has been done is above; next, the most important first:

1. *Proofs.* `CorrectiveFlow`: `Carried` and `Resumable`, once its turn is typed by the set of its operations.
   `DeliveryGates`: `NeverIdle`.
2. *Budgets and progress.* The attempt counters, the progress guard and the escalation, composed with
   `CorrectiveFlow`: a run ends, and never because of a ticket that waits for another.
3. *Outbox, record and replay.* At-least-once; the order of fixtures.

## 6. Not modelled

Prompts, parsing, rendering and wording, the message catalogues of both languages, the reports; the
hash chain and the schema validation of stored objects; Git's, npm's and Docker's own behaviour; language-specific toolchains, lint and calibration; the text retrieval
of memory and debug wiki; configuration, plugins and skills. They are input, output and data, with
no state machine of their own, or belong to a component of the plan. Together they are the larger
part of the source's lines, which is why the map, which names only lines a definition stands for,
covers a minority of them.
