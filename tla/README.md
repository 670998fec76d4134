# A verification project for the StackWeaver API

StackWeaver's API (`src/backend`, Go) serves OpenTofu runs and Ansible jobs and hands the
work to runners. This directory holds TLA+ modules of its core protocol, the TLC
configurations that check them on small instances, and TLAPS proofs of what matters most
for every instance. `PROJECT.json` maps every definition to the lines it models.

Paths below are relative to `src/backend/internal`. `core/...` is a Go module of the
product that is not part of this repository: its operations (`ClaimForDispatch`,
`ApplyLostLauncherOutcome`, ...) are modelled from how the code here calls them and
from what its comments say of them, and are marked external in the map.

## 1. Inventory

The program is one stateless API process, possibly in several replicas, over a PostgreSQL
database and an object store. Everything hard about it comes from that: a request handler
is a sequence of SQL statements *without* an enclosing transaction, so the statements of
handlers interleave, and the row a handler read may be stale when it writes.

| Part | State | Operations | What is hard, what makes it correct |
|---|---|---|---|
| Run dispatch (`api/v2/handlers/runner_agent*.go`) | a run's `status`, `runner_id`, `dispatched_at`, `attempt`; `state_locks`; job tokens; the saved plan object | Heartbeat, JobStart, JobToken, UploadPlan, DownloadPlan, JobOutput, JobEvents, UploadState, JobComplete, Drain, Register, Deregister | Stale rows, lost answers, resends, two runners for one run. A run is executed once per attempt, an apply applies the plan that was reviewed and confirmed, tokens and locks go with the attempt. |
| Run lifecycle (`api/v2/handlers/terraform/runs.go`) | the same run row | Create (cancels conflicting runs), Apply, Discard, Cancel, ForceCancel, ForceExecute | Users race with reports and starts. A canceled run stays canceled and holds no lock. |
| Workspaces (`terraform/workspaces.go`) | manual lock, settings | Lock, Unlock, ForceUnlock, create, update, delete | The manual lock gates Create; ForceExecute removes it. |
| Monitor (`services/runner/monitor.go`) | runners' `status` and last heartbeat | a pass every 30 s | Crash recovery: reservations and started work of a silent runner come back or fail; races with a runner that is only slow. |
| Launcher (external) and executors (`executor/*exec`) | the process's own | poll, start, token; fetch, engine, upload, report; retries | Resends, orphans, cancellation while the engine runs. |
| Tokens (`services/apikey`, `api/middleware/runner_auth.go`) | job tokens bound to run, runner, attempt | mint, verify, revoke | A token outlives neither its attempt nor its run. |
| Task stages (`terraform/task_*.go`, `run_tasks.go`) | stage and result rows | callback, override, read | Callbacks late, twice, or of a canceled run. |
| State versions (`terraform/state_versions.go`, UploadState) | version rows and objects | create, upload, rollback, download | Row first, object second; serial regression; state of an interrupted apply. |
| Ansible (`api/v2/handlers/ansible`) | jobs, slices, events, workflows, schedules, inventories, credentials | launch, reserve, start, events, complete, cancel, relaunch | A claim, reservations offered again, reports late or of a canceled job, launchers that die with jobs. |
| Work items (`runner_agent_work_items.go`) | sync rows | claim, report | The same again. |
| Registration (`Register`, `agent_pools.go`, `agent_tokens.go`) | runner rows and their keys, JIT and pool tokens | register, re-register, deregister, drain | Several processes under one name; a drain while work is offered. |
| Long poll (`Heartbeat`) | waiters | wait, wake | Lost wake-ups; a held launcher taken for lost. |
| Access (`services/rbac`, `teams.go`, `team_*_access.go`, `team_sync`, `apikey`) | teams, members, access rows, keys | change them; check, list, flag, roll up, notify | The same question is answered by six routines written apart; a key outlives what its owner held. |
| Browser sessions (`services/auth`, `auth_proxy*.go`, `auth_browser_session.go`) | session rows, login transactions, Zitadel's sessions | sign in, resolve, touch, check, expire, sweep, supersede, sign out, revoke, back-channel logout | Rows share a Zitadel session; deletion here and there in two calls; expiry, checks and sign-outs overlap. |
| Registry (`registry_*.go`, `services/registry`) | module and provider versions, archives | publish, yank, download | Row and objects that must agree. |
| VCS (`vcs_*.go`, `webhook_events.go`, `createConfigurationVersionFromVCS`) | installations, connections; configuration versions, temporary files | push, pull request, run from the branch; installation flow | Each webhook is a goroutine that clones, packs, uploads and queues a run by itself, past the checks of Create: deliveries overlap, repeat and share files by name. |
| Everything else | organizations, projects, teams, variables, notifications, analytics, settings | one row per request | Records and rendering. |

Interaction: users and webhooks write runs; the launcher of a runner learns of them from
Heartbeat, takes them with JobStart and places an executor; the executor talks to the API
with a job token and ends with JobComplete; the monitor takes back what a silent runner
held. All of it meets in the run's row, the workspace's state lock and the token table.
`hazards` in `PROJECT.json` lists, line by line, what is hard to test there.

## 2. Modules

| Module | Contents |
|---|---|
| `RunDispatch` | The core protocol of runs, its properties, fairness. |
| `RunLifecycle` | What a user may rely on of one run: the abstract specification that `RunDispatch` implements. |
| `MCRunDispatch` | Constants for TLC. |
| `RunDispatchProofs` | What holds of dispatch without any hypothesis: `TypeCorrect`, `Confirmed`, `CanceledForGood`. |
| `RunDispatchOverlapProofs` | What holds while any number of requests overlap and nothing is lost: one executor to an attempt, and its token. |
| `StateVersions` | The states of a workspace: versions and their objects, the manual lock, the state lock, what runs plan from and leave. |
| `MCStateVersions` | Constants for TLC. |
| `StateVersionsProofs` | `VersionsInv` is inductive, and what follows from it; the state lock; the latest state covers what engines changed. |
| `RunnerFleet` | The launchers of a runner: registration, the heartbeat with its long poll and wake-ups, Ansible jobs, drain, and the monitor, in discrete time. |
| `MCRunnerFleet` | Constants for TLC. |
| `RunnerFleetProofs` | Its four safety properties. |
| `Permissions` | Pure: what each access row grants, and how a request changes a team's organization access. |
| `Access` | The routines that answer who may do what, and the handlers that change what they read. |
| `MCAccess` | Constants and requests for TLC. |
| `AccessProofs` | The routines agree in every state that is well typed; every reachable state is. |
| `BrowserSessions` | Sign-ins, the rows of sessions and the Zitadel sessions behind them. |
| `MCBrowserSessions` | The module that is run. |
| `BrowserSessionsProofs` | Its two safety properties. |
| `VcsDeliveries` | Pushes, pull requests and runs asked for, of one workspace: from the webhook to the queued run. |
| `MCVcsDeliveries` | Constants for TLC. |
| `VcsDeliveriesProofs` | Its four properties. |

`RunDispatch` and `StateVersions` meet at a run's phases. `RunDispatch` models how a phase
is started and ended and abstracts what it computes; `StateVersions` keeps of a run only
how it comes by its state lock and loses it, and its executor's work on the state, and models
what happens to the state. Both have the state lock and the manual lock, as each gates actions
of both. `RunnerFleet` has what `RunDispatch` abstracts to one step each: a heartbeat and a
registration. It follows Ansible jobs, whose protocol is the shorter one. `Access` and
`BrowserSessions` stand by themselves: they decide who a caller is and what it may do,
which the other modules take as given. `VcsDeliveries` ends where `RunDispatch` begins, at a
pending run; what becomes of it there is `RunMoves`.

### RunDispatch

*State.* `run` is the runs table: a row holds what was fixed at its
creation (`kind`: the operation, applied automatically or not, its task stages), its status, whether it is claimed
(`dispatched_at` is not null), its runner, its attempt and whether an apply of it was lost
with its launcher. `lock` is `state_locks`, `locked` the workspaces locked by hand,
`tokens` the job tokens that verify, `plan` the saved plan objects (by the attempt that
uploaded them), `online` the runners' status. `offers`, `launcher` and `execs` are what
runs on the runners' machines. `reqs` are the handlers in progress, `monitor` the monitor's
pass. `reviewed`, `confirmed` and `enacted` are history: the attempt whose plan completion
was accepted, the runs a user confirmed, and what engines applied.

*Grain.* A handler is cut where the code's statements are: what it reads together with
the check on it is one step, each write is another. A record of `reqs` holds its program
counter and the row it loaded.

| Code | Steps |
|---|---|
| `Heartbeat`, `findPendingJobsForRunner` | `Heartbeat` (reservation is one `FOR UPDATE SKIP LOCKED` query; the answer may be lost) |
| `jobStartTerraformRun` | `JobStart` (load, authorize), `StartClaim`, `StartLock`, `StartWrite`, `StartRevoke` |
| `JobToken` | `JobToken`, `TokenMint` |
| `getTerraformRunArtifacts`, `DownloadPlan` | `ExecFetch` |
| `tofuexec.run` | `ExecEngine`, then `UploadPlan` or `ExecReport` |
| `UploadPlan` | `UploadPlan` (checks), `UploadPut` |
| `JobComplete`, `jobCompleteTerraformRun` | `ExecReport` (also a resend), `CompleteLoad`, `CompleteWrite`, `CompleteRevoke`, `CompleteRelease` |
| `Cancel`, `ForceCancel` | `Cancel` / `ForceCancel` (one conditional update), `CancelRelease` |
| `ForceExecute` | `ForceExecute`, `ForceClear` |
| `Create`, `Apply`, `Discard` | one step each: their writes are conditional on what they checked |
| `Lock`, `Unlock`, `ForceUnlock` | one step each here; their read and their save are apart in `StateVersions` |
| task stages (core) | `BeginPrePlan`, `ContinueRun` |
| monitor | `MarkOffline` / `MonitorTick`, `ReleaseReservations`, `SettleLostWork`, `UnlockLost`, `RevokeLost` |
| faults | an answer lost (`Heartbeat`), a completion resent (`ExecReport`), a slow runner marked offline (`MarkOffline`), a request or offers abandoned (`LauncherGivesUp`), a machine down (`Crash`, back with `Register`) |

*Abstractions.* Payloads, logs, cache manifests, timestamps and notifications are left out.
What makes a completion apply automatically (per-run flag, or VCS source and workspace
setting) is decided once, in `kind`. The claim cleared by the automatic apply and the Save
that follows are one step, because the Save writes the same columns. Database errors are
left out, and so are `Create`'s refusal of a duplicate within ten seconds and the limit of
a hundred runs on the list of those it cancels. The expiry of a state lock is in
`StateVersions`; nothing here waits for it. A crashed
machine comes back only after it was marked offline; a faster restart under the same name
is in `RunnerFleet`.

### RunLifecycle

A run has a phase (absent, waiting, planning, reviewing, approved, closing, and the ends
applied, failed and cancelled) and whether an engine applied it. It reads closing or
applied only after an engine did apply it; it ends once, except that an apply lost with
its launcher may be approved again. `RunDispatch` maps the statuses of the table to these
phases (`PhaseIn`) and `enacted` to the flag; `ImplementsLifecycle` is the refinement, which
is checked for requests that do not overlap: findings 1 and 2 are how it fails when they do.

### StateVersions

*State.* `rows` is the `state_versions` table, `objects` the object store by version
number, `reserved` counts reservations and numbers the rows; `holder` is the
workspace's `locked_by`, `stateLock` its row of `state_locks`. `cli` is each user's client,
`work` each run's executor, `reqs` the requests that write a version, `releasing` those that
wrote a run's status and are about to release its lock. A state is its serial
and the set of writers whose changes it records. `canceled` and `settled` are the runs a user
canceled and the applies the monitor ended. `made` are the runs whose engines changed
resources, `unsaved` those of them that uploaded no state for it, `slipped` those whose lock
went while their phase was under way.

| Code | Steps |
|---|---|
| `Create` (a user's push) | `Create` (locks checked), then the three steps of a writer |
| `UploadState` (an executor's) | `UploadState` (authorized), then the three steps of a writer |
| `CreateNextVersion`, `PutStateObject`, the deletion of the row | `ReserveVersion`, `PutStateObject` or `PutFails`, `Rollback` |
| `CurrentStateVersion`, `Download` | `Pull` |
| `Lock`, `Unlock` | `LockRead`, `LockWrite`; `UnlockRead`, `UnlockWrite` |
| `ForceUnlock` | `ForceUnlock`, `ForceUnlockWrite` |
| `lockWorkspaceForRun`; the lease it takes | `LockForRun`; `LockExpires` |
| `getTerraformRunArtifacts`, `restoreState` | `FetchState` |
| `tofuexec.run` | `PlanEnds`, `ApplyEnds` (applied or stopped, failed, or refused by the engine), `UploadState` |
| `JobComplete`, `Cancel`, `settleLostWork`: the status | `JobComplete`, `Cancel`, `SettleLostWork` |
| the release that follows in each of them | `ReleaseStateLock`, at any time later |
| the death of an executor's machine | `ExecutorDies` |

*Abstractions.* A push carries the pulled state's serial plus one, as the client writes
it. A push of the same serial is accepted: only an older one is refused. The engine's
refusal of a saved plan whose state moved on is external, and so is the client. Outputs
and resources are derived from the stored object and left out, as are `RemoveResource` and
`Delete`, single calls into core. An apply that fails in the engine has changed what it
has changed and uploads nothing, like one whose machine is lost. A plan dispatched again
forgets the executor it had: that one leaves no state. The document of a push may name a run,
which allows it while that run has the state lock: both branches of `Create`'s
rule are in `MayPush`.

### RunnerFleet

*State.* `runner` is the runners table (its drain mark, its status, the age of its last
heartbeat), `keys` the launchers whose runner token verifies, `job` the `ansible_jobs`
table, `tokens` the job tokens. `proc` is each launcher process: what it was told, what it
claimed, the time until it polls again. `reg`, `poll` and `reports` are requests the API is
serving; `woken` is a wake-up on its way, `execs` the executors. `monitor` is the pass of
the monitor.

| Code | Steps |
|---|---|
| `Register`, `generateRunnerAPIKey` | `Start`, `RegisterRow`, `RegisterKeys`, `RegisterMint` or `RegisterFails`, `RegisterAnswer` |
| `Heartbeat` | `Heartbeat` (loads the runner, stamps it, first query), `Wait` (registers the waiter), `SecondQuery`, `Unpark` (stamps, last query) or `Abandon`, `Answer` (may be lost) |
| `findPendingJobsForRunner` | `Query`: what is held and not started is offered again, free jobs up to the capacity are reserved |
| the wake-up hub (core, Redis) | `Deliver`, `LoseWake` |
| `JobStart`, `JobToken` | `JobStart`, `JobToken` |
| `JobComplete` for an Ansible job | `ReportRead`, `ReportWrite`, `ReportSettle` |
| `Drain`, `Deregister` | `RequestDrain`; `Deregister`, `DeregisterStatus` |
| `markStaleRunners`, `settleLostWork` | `MonitorMark`, `MonitorRelease`, `MonitorSettle`, `MonitorRevoke` |
| `LaunchByOrganization`, `Cancel` | `Launch`, `Cancel` |
| the launcher (external) | its poll loop, `Discard`, `Terminate` (SIGTERM), `Crash` |

*Time* advances by `Tick`. It takes a launcher to poll again (`ClaimMax` at most) and a
heartbeat to be held (`LongPollMax` at most); other handlers are done within a tick. That
is what `OfflineAfter` is chosen against in `monitor.go:38-44`, and `TimingAssumption` is
its comment.

*Abstractions.* Work items and runs take the same steps and are left out. The
authorization of a start and its claim are one step, and so are the reading and the
writing of the runner's row by a registration. The stamp of a heartbeat and the query
after it are one step: nothing another step does in between changes either. The answer to
a start is not lost (the hazard at `runner_agent.go:908` is about that). Just-in-time
tokens, hosted runners, the deletion and the whole-row update of a runner, failing queries
and `WaitSeconds = 0` are not modelled, nor is a completion sent twice, which finding 2 is
about. A launcher that dies before its registration is answered is one that dies right
after. A row that a failed first registration removes is one no job refers to.

### Permissions and Access

*State.* `name`, `sso`, `access` and `members` are the teams: name, the group the sync puts
into the team, the flags of its organization access, its users. `orgMembers`,
`projectAccess`, `workspaceAccess` and `keys` are the tables of those names. `minting` are
regenerations of a team's token between deleting the old one and storing the new one.

The checks are set-valued: `CheckResourcePermission(c, p, w)` is the set of permissions
the code's function of that name says yes to. A caller is a user and the subject its key
is judged as (`SubjectForAPIKey`).

| Code | Definitions |
|---|---|
| the mappings in `rbac/service.go` | `getPermissionsFrom...`, `Implied`, `WorkspaceReads` |
| `updateOrganizationAccessFromRequest` (`teams.go`) | the operator of that name, as stages of `Toggle` |
| `CheckResourcePermission`, `checkOrgPermission`, `CheckWorkspaceAdminPermission`, `IsOrgOwner` | of those names, over `permits` |
| `readable`, `AddDashboardScope`, `OrgPermissionsForOrganizations`, `ReadsWholeOrganization` (`grants.go`) | of those names |
| `WorkspaceGrants` (`workspace_grants.go`, `workspace_permissions.go`) | `LoadWorkspaceGrants`, `Has`, `ManagesWorkspaces`, `IsWorkspaceAdmin`, `Flags` |
| `ListTeamsWithWorkspaceAccess` | of that name |
| handlers of organizations, teams, members, memberships, access rows, keys, team tokens; `SyncUserTeams` | one action each; `RegenerateTeamToken` and `StoreTeamToken` are two |

*Abstractions.* A handler's check and write are one step: what the properties compare is
read in one state. Names are those of teams; visibility and other attributes that no check
reads are left out, and so are keys' expiry and the suspension of users. A creation of an
organization that fails is one that did not happen: the code takes back what it made.
The organization a caller's token is confined to at the router, variable sets, the list
of a user's effective permissions and Ansible templates' own access are not modelled.

Reading the code for this module showed divergences no property here is about: custom
access "apply" grants `runs` only, where the comment at `rbac/service.go:573` adds
`workspace:write`; the flags of a workspace response ignore the scope of the key that asks
(`workspace_grants.go:31`); a user whose last group goes keeps the teams of that group,
because `SyncUserTeams` returns on an empty list (`team_sync/service.go:74`); two
regenerations of one team token at once leave two; a team named owners is refused after
its row is stored (`teams.go:526`), and the row stays; leaving an organization leaves the
memberships of its teams.

### BrowserSessions

*State.* `session` is a sign-in from its login transaction to the end of its row: its
Zitadel session, the time to its idle limit, absolute limit and next check. `zitadel` are
Zitadel's sessions. `work` are handlers in progress by operation and program counter,
`sweeping` what the sweeper listed, `logouts` the back-channel tokens on their way.
`excused` and `dead` are history.

| Code | Steps |
|---|---|
| `Authorize`, `FinalizeAuthRequest` | `Authorize`, `Finalize` |
| `CreateBrowserSession`, `Start` | `Store`, `Answer`, or `Refuse` |
| `Resolve`, `Lookup` | `Request` |
| `Touch` | `Touch` |
| `ZitadelLiveness.Check`, `classify` | `Claim`, `Read` |
| `endExpired` | `CheckShared`, `EndZitadel`, `DeleteRow` |
| `Supersede`, `SignOut` | `DeleteRow`, (`CheckShared`,) `EndZitadel` |
| `RevokeSession` | `Revoke`, `EndZitadel`, `DeleteRows` |
| `Sweep`, `RunSweeper` | `SweepList`, `SweepNext` |
| `handleBackchannelLogout` | `BackchannelLogout`; a token may never arrive |
| Zitadel (external) | `ZitadelEnds`, `Bar`: a lifetime, an administrator, another application; a user or organisation deactivated |
| faults | `Fail`: any set of handlers goes no further, as after a failed statement or when the API stops |

*Abstractions.* A sign-in is used once, as its login transaction is; that the transaction
times out is a `Refuse` at any time. A code may be redeemed although its Zitadel session
is gone. Time passes only once a sign-in whose row is stored is answered; all other
handlers may take any time. A request may name any held session, by cookie or log token. A
user or organisation deactivated stays so. The sweeper's batch size and sweepers of other
replicas are left out. An ended row forgets which Zitadel session it named: the handler of
a supersession whose own row was ended meanwhile takes a step more, without effect. The
screens of a login are not modelled.

What the model shows beside its properties: a request that read its session before it
expired and touches it after brings it back (`session_store.go:213`), which
`NoneLeftBehind` excuses; a sign-in may store its row between `endExpired`'s check for
others and its deletion of the Zitadel session (`session_expiry.go:49`), and the new row
then lasts until its next check; requests that lose the claim of a check, or whose claim fails,
are accepted meanwhile, as the code says.

### VcsDeliveries

*State.* A goroutine makes at most one version and one run, named after it. `job` is what
it is for (its kind, branch and commit), `pc` where it is, `clone` the commit it checked out,
`fd` the file it is writing. A run is pending, in a stage before or after its plan, being
planned, planned, past its post_plan stage, or ended. `tarball` are the temporary files, by the goroutine that created
them, with who is writing; several goroutines have one `Path`. `version` and `run` are the
rows, `todo` the runs still to cancel. `events` are what the provider may deliver, at any
time, in any order and again. `owed` and `failed` are history.

| Code | Steps |
|---|---|
| the repository (external) | `Push`, `FastForward` |
| `handleBranchPushEvent`, `handlePullRequestEvent`, `handleAzureDevOps...Event` | `Deliver`, then the goroutine: `Clone`, `Pack` / `Packed` (`createTarball`), `Check`, `Insert`, `Upload`, `List` / `CancelOne`, `Queue`, `Return` (the deferred calls) |
| `createConfigurationVersionFromVCS` and `Create` | `Request`, then `List`, `CancelOne`, `Queue`, `Return` |
| `AutoCancelConflictingRuns`, `AutoCancelSupersededSpeculativeRuns` | `List`, `CancelOne` |
| runners, users, the monitor | `RunMoves` |
| faults | `Lose`: a call of a goroutine fails, at every step that makes one; where the code only logs it (an archive that cannot be closed, in `Packed`) the delivery goes on with a file cut short |

*Abstractions.* The commit's short hash names the file; that two commits share one is left
out. So are path filters and closed pull requests (no event), plan-only and destroy runs
asked for by users, the limit of a hundred on the list, and deliveries that fail before
their clone. Temporary directories are a goroutine's own. Whether the table refuses two
versions of one commit is core's; the model allows both, and an insertion may fail. A GitHub
pull request's goroutine checks out the branch, all others a commit; an Azure pull request does not
look for a version of its commit. Several API processes have separate temporary directories: sharing, as
here, is the worse case.

What the model shows beside its properties, at their lines: the duplicate check of a
push counts the speculative version of a pull request, so a commit merged by moving the
branch to it may get no run that applies it (`vcs_app_installation.go:1666`); a GitHub pull
request's version is recorded under the commit of its event and may hold a later one
(line 2058); of two deliveries of one commit, one that is turned away as a duplicate removes
the file the other is about to upload, whose version then stays pending, and with it every
later delivery of the commit is a duplicate (line 1648); successive pushes may finish in
either order, and the last to finish cancels the run of the other (line 1745). A run that is
being planned reads `planning`, which the automatic cancellation does not look for, and so
do the statuses of task stages, though a plan that passed its post_plan stage can be confirmed.

### Mutants

Operators marked `a mutant` beside the definition they change are the plausible
bugs each property is shown to catch; no action uses them.

## 3. What is checked

| Run | Instance | Question |
|---|---|---|
| `dispatch_serial` | 1 run of any of the kinds of `MCRunDispatch`, 2 runners, 3 attempts, one runner or answer lost, the workspace may be locked by hand; requests one at a time, with fairness | `AppliedWasEnacted`, `EnactedWasConfirmed`, `EnactedWasReviewed`, `TokensAreCurrent`, `ImplementsLifecycle`, types; `PendingIsPlanned`, `ApplyEnds`, `LockIsReleased` |
| `dispatch_contention` | 2 runs of one workspace, some automatic and some destroying it, 2 runners, 2 attempts each, one request abandoned; requests one at a time | the state lock: `LockMeansWork`, `WorkMeansLock` |
| `dispatch_concurrent` | 2 runs, 2 runners (one without job tokens), 2 attempts each, two requests interleaved, no fault | `OneExecutorPerAttempt`, `TokensAreCurrent`, `AppliedWasEnacted`, `CancelSettles` |
| `state_versions` | 1 run and 1 user of a workspace, 3 requests interleaved, 4 versions, two object writes failing, the run canceled, settled or its lock expired, force-unlocks | `VersionsInv` (types and the inductive invariant), `NoDanglingVersion`, `ServedAsPushed` |
| `state_locks` | 3 runs of a workspace, 2 requests interleaved beside the releases of locks, 3 versions, one run canceled, one settled or a lock expired, any apply failed and any executor lost | `StateCoversResources` |
| `runner_fleet` | one runner with two launcher processes, one job, times of one tick, one rare fault or drain, with fairness | `LiveIsFresh`, `NoMissedWakeup`, `OneExecution`, `CancelStands`, `QueuedIsStarted`, `LostWorkEnds`, `DrainedLeaves`, types |
| `access` | 2 organizations, 5 teams, 2 users, 1 workspace, 1 key, any 3 changes after the organizations are there | `KeyWithinOwner`, `AudienceIsReaders`, `FlagsAgree`, `WholeOrganizationReads`, types |
| `browser_sessions` | 2 sign-ins, 2 Zitadel sessions, limits of two ticks, a check every tick, one failure or act of Zitadel's, with fairness | `NoneLeftBehind`, `DeadIsChecked`, `SessionsEnd`, types |
| `vcs_deliveries` | 2 goroutines, a branch and a pull request, 2 commits, GitHub or Azure DevOps, failures of one goroutine | `HoldsItsCommit`, `SupersededIsOut`, `DeliveryIsRun`, types |
| `plan_without_state` | the same as `state_versions` | `StartsFromState`, which the code refutes |
| `cancel_vs_report`, `report_twice` | the smallest instance that shows it | two statements of the code's comments and tests that its interleavings refute |

*Why "one at a time" and "interleaved" are different runs.* Several promises hold when
requests do not overlap and fail when they do: those are the findings. With
`MaxConcurrent = 1` a request is served from its first statement to its last, while
executors, launchers and users still act in any order; faults, attempts and task
stages are then explored exhaustively. The API does serve requests at once: what is checked only one at a time (the state
lock, the reviewed plan, the refinement, tokens under losses) is a promise about quiet times,
and the hazards that lie in the overlap are left open by it, as `hazards` says at each. With
`MaxConcurrent = 2` every pair of statements of two handlers is interleaved; what is
checked there is checked without further faults, which the findings show break most of the
rest. `CancelSettles` needs no such restriction: the theorem has none.

*Bounds.* `MaxAttempts` bounds claims of a run: two are enough for an orphan beside its
successor, three for an orphaned plan, its successor and an apply. `MaxLosses` and
`MaxDrops` bound faults; one is enough for every single-fault scenario. Requests are abandoned in
`dispatch_contention` only: who abandons the answer to a start leaves a run that nobody takes up
(a hazard at its line), which progress does not survive.
`MaxConcurrent` bounds handlers in progress, the monitor's pass included. Two runners and
two runs of one workspace are the least that contend; the properties are about pairs.
In `state_versions` `MaxVersions = 4` lets the two writers write, be rolled back and
write again under a number used before; `MaxConcurrent = 3` has both and a force-unlock at
once, and the orphan of a run at its upload is a third writer. `state_locks` needs two runs
to disturb one another and a third that starts from what they left. In `runner_fleet` two processes are the least that share a
name, and the second is as well the successor of the first; `MaxServed = 1` serves one
request at a time beside the held ones and any registration, so a heartbeat is still
held while reports, claims and registrations go by. Three changes in `access` are enough
to make a key, to take something from its owner and to change a grant. In
`browser_sessions` two sign-ins share a Zitadel session or supersede one another, and one
handler beside the sweeper and a supersession is at work. `Absolute = Idle` keeps the
instance small; it means that a row brought back is expired again at once. An instance with
longer limits and checks passes too, in more time. In `vcs_deliveries` two goroutines are
the least that share a file, a commit or a list of runs, and two commits the least that are
mixed up; goroutines are alike until they get a job, so symmetry is sound, there being no
liveness property there. The limit of eight slots is out of reach of two goroutines: its
effect, fewer interleavings, is covered by the theorems. The theorems of
section 4 need none of these bounds.

*Deadlock* is not checked: users may stop, runs end, and bounds stop the rest.

*Fairness* (`Fairness`). Launchers poll in a loop and finish what they began (each retries
its requests); the API serves what it admitted; an executor's engine ends, since the phase
has a time limit and cancellation stops it, and then reports; the monitor has a ticker, and
a machine that is down is eventually older than `OfflineAfter`. Users and task stages owe
nothing. A live launcher marked offline is a fault and is not required to happen. So
`PendingIsPlanned` is about runs without a pre_plan stage, whose callback may never come, and
excepts a workspace that is locked by hand: who keeps locking it and forcing the run past the
lock takes its runner away each time.

In `RunnerFleet` each launcher is one process, so one condition covers what it does; it is
strong, as is that of executors' reports, where `MaxServed` may turn a request away now and
again though the API would serve it, and so is that of time, which waits for handlers. The monitor is weakly fair.
In `BrowserSessions` time, the sweeper (one goroutine with a ticker) and the finishing of a
sign-in are weakly fair; no user, and not Zitadel, owes anything.

### Findings

1. **A cancellation is lost under a report** (`cancel_vs_report`). `jobCompleteTerraformRun`
   loads the row, decides and saves it whole (`runner_agent.go:1838`). A run canceled in
   between reads `planned` again, or `applying`. Only the end of an apply is guarded. The
   same Save overwrites the monitor's settlement of a lost attempt, whose late report thus
   still completes the run.
2. **A resent plan completion ends an apply that never ran** (`report_twice`). The second
   copy is authorized before the first one revokes the token, finds the run `planned` and
   falls to the default branch (`runner_agent.go:1783`), which writes `applied`.
3. **A run plans without the state that exists** (`plan_without_state`).
   `getTerraformRunArtifacts` reads the row of the latest version and leaves the state out
   when its object cannot be read (`runner_agent.go:2696`), with a 200. Every writer
   makes the row first and the object second. A push that was allowed before a run took
   the state lock, or the upload of a canceled run, leaves such a gap, and the run plans
   as if nothing existed.

The same model of dispatch shows, each with two overlapping requests:

* `JobStart`'s column write returns a run canceled after the claim to `planning`
  (`runner_agent.go:952`); of an apply, which has no status to write, the canceled run is left
  with the state lock, which its cancellation looked for before the start took it, until
  the lease is over.
* `JobComplete` writes the status, then revokes the run's tokens, then releases its lock
  (`runner_agent.go:1305`). The apply of a run that applies automatically can be claimed in
  between and loses both. So can the attempt that is claimed while the monitor goes on
  to release what a lost run held (`monitor.go:127`).
* An upload checked before its attempt was settled is stored after its successor's plan was
  reviewed and confirmed (`runner_agent_plan.go:78`), and the apply downloads what is stored.

And `VcsDeliveries`: the automatic cancellation of conflicting runs looks for pending, running
and planned (`runs.go:2470`); a plan past its post_plan stage waits in `post_plan_completed`,
survives the run that supersedes it, and is confirmed like a planned one.

They are listed under `hazards` at their lines. Updates conditional on status and attempt would
repair findings 1 and 2 and the first of these; a release conditional on the attempt, the
second.

## 4. What is proved

The theorems hold for every finite or infinite set of runs, runners and workspaces, any
assignment of workspaces, any kinds of run, any users, and any bounds, from each module's
assumption about its constants alone (`VcsDeliveries` has finitely many goroutines).

* `TypeCorrect == Spec => []TypeOK`. One lemma per group of actions; under each, the
  variables an action writes. The work is in what the helpers return (`RowTypes`,
  `RequestType`, `SavedType`, ...): no interleaving makes a handler write a row, lock or
  request that is not one.
* `Confirmed == Spec => []EnactedWasConfirmed`: nothing is applied before a plan of it was
  accepted and, unless it applies automatically, a user confirmed it. This holds *in spite*
  of the findings, which is why it is worth a proof. `EnactedWasConfirmed` is not
  inductive: an engine that applies must have been started by an allowed apply, the row
  that allowed it must have been honest, and rows are written from snapshots that reports
  took earlier. `ConfirmedInv` adds just that: `EnginesSanctioned` (about executors),
  `HonestRows` (about rows and snapshots), `Begun` (nothing of a run exists before its
  first attempt, so a kind never changes under a snapshot). `Keeps` is what every step
  preserves; `Frame` reduces an action to what it changes.

* `Versions_Inv == Spec => []VersionsInv`, and from it `Versions_NoDangling` and
  `Versions_Served`. That a version lacks its object only while its writer is at it does
  not carry over a step by itself: storing and rolling back act on numbers, so numbers
  must be unique (`Numbered`), and a writer must still have the row it reserved
  (`WritersHaveRows`) though others reserved and rolled back since. A fresh version is past
  the last one: `LastIsGreatest`, by the minimum principle of `WellFoundedInduction` on a
  set of bounded numbers. One lemma per action; `RowsKept`, `BystanderLeaves`, `Arrives` and
  `Elsewhere` say what the steps share.
* `RunnerFleet_LiveIsFresh`: no heartbeat alone keeps a launcher fresh; held, it is stamped
  again, and between two heartbeats the time left and the age add up to no more than the
  longest wait. That sum, per phase of launcher and heartbeat, is the invariant; it is
  where `TimingAssumption` is used.
* `RunnerFleet_OneExecution`: a job is claimed from pending once and never returns there,
  so whoever has it claimed or runs it found it so; with it `RunnerFleet_CancelStands`,
  step by step, and `RunnerFleet_NoMissedWakeup`, by what each step makes offerable.
* `Access_KeyWithinOwner`, `Access_AudienceIsReaders`, `Access_FlagsAgree`,
  `Access_WholeOrganizationReads`: the routines are compared in an arbitrary well-typed
  state, so each theorem is a lemma about operators (`KeysHold`, `AudienceHolds`,
  `FlagsHold`, `WholeReadsHold`), the first two with `Access_TypeCorrect`; the work is in
  how grants grow with teams (`PermitsGrow`) and what each flag implies.
* `BrowserSessions_NoneLeftBehind` and `BrowserSessions_DeadIsChecked`, on an invariant
  `Base` that ties handlers to rows: a task's session was answered and names the task's
  Zitadel session, what is being ended for its limits is expired or has an excuse, a
  Zitadel session whose rows are being deleted is gone. `TaskKept` says once what every step
  leaves of the tasks it does not take. `NoneLeftBehind` then is inductive: the row that
  `CheckShared` found live cannot be on its way out, and the row that supersedes another
  through the same Zitadel session is not answered yet, so nobody is at it.
* `Holds`, `Superseded_Out` and `Delivered` of `VcsDeliveriesProofs`. A version holds its commit because whoever
  writes or leaves a file under a name is of that name's kind and commit (`LinkedOK`,
  `WritersOK`), and a file is torn only under two writers (`TornOK`). What a run supersedes
  is listed or ended (`ListsOK`). A delivery on its way has its file or a rival of its name
  (`FileOK`), which is what makes `DeliveryIsRun` inductive.
* `CanceledForGood == Spec => CancelSettles`, with no hypothesis: of the requests served when a
  run is canceled only a start past its claim and a report that loaded the run before
  can bring it back (`Undoes`), and none of those arises from a canceled run. One lemma per group of
  actions (`UsersSettle`, `LaunchersSettle`, `ExecsSettle`, `HandlersSettle`); each says that
  the row stays canceled and that the step leaves no request that undoes it. Finding 1 and
  the start that overwrites a cancellation are the two exceptions, so the theorem says there is
  no third.
* `Versions_CoverResources == Spec => []StateCoversResources`. The property speaks of states
  in which no request is being served, and is far from inductive; `CoverInv` says how it
  comes about. `Calm` is its condition without the requests, and once false stays false
  (rows leave only by a roll-back, which means a failure). While it is calm a phase has the
  lock from before it reads the state until its upload was answered (`PhaseHoldsLock`, an
  invariant by itself), whichever releases come late, so the engine has the latest state and
  what it leaves is its successor (`UpToDate`); hence the upload is not refused (`UploadFollows`,
  which needs `NoDanglingVersion` and `ServedAsPushed`), its version is the last, and what is
  stored records all that was recorded and the run's own change. A settled run's orphan that
  uploads without its lock has `slipped`.

The two theorems of `RunDispatchOverlapProofs`, `ExecutedOnceOverlapping` and
`TokensCurrentOverlapping`, prove `OneExecutorPerAttempt` and `TokensAreCurrent` for any
number of requests served at once, where statements of starts, token requests, uploads,
reports, cancellations and stages interleave at will, runners have job tokens or not, and
launchers drop as many offers and requests as they like. Their hypotheses are `NoLosses`
(`MaxLosses` is 0) and `NeverLocked` (no workspace is locked by hand). The first is needed:
`TokensAreCurrent` fails after one loss (a start answered after its run was settled revokes
nothing that is minted later), `OneExecutorPerAttempt` after two. So is the second, at least
for the tokens: TLC finds that a run forced
past a manual lock, whose claim is cleared without being looked at again, races the start
that made the claim, and a token is minted for an attempt nobody has. Executors may stay
unanswered and runs be canceled, discarded or re-queued all the same.

* `FaultFree`: without losses the monitor never settles anything, and without manual locks
  no run is forced; so nothing but the report of its executor ends an attempt.
* `GateInv`: a row that a start may take is past its pre_plan stage, and stays so. A start
  that loaded its row earlier thus loaded one it could take, and the conditional update
  of the claim is what tells two starts apart.
* `ThreadsInv`: one thread carries an attempt on. It is first a start past its claim, then
  a launcher that was answered, a token request, an executor, and its report; never two
  of them at once. Before the executor the attempt has no executor or token (`Fresh`);
  until the report is written the row is in hand of the executor's runner at that attempt
  (`InHand`); a token is of such an attempt, or the report that revokes it is on its way.
  Each part of `Thread` is about one run, and a step carries on one run's thread:
  one lemma for each way of doing so, the other runs' threads being left as they are.

TLC had confirmed the three parts as invariants on an instance with two runs, two requests at
once and a drop, and on one with one run of any kind, three requests at once, three attempts
and a drop.

Every safety property of `state_versions`, `state_locks`, `access`, `runner_fleet`,
`browser_sessions` and `vcs_deliveries` is thus a theorem, and of dispatch types, confirmation
and cancellation without a hypothesis, executors and tokens without losses. Model-checked
only are the properties of dispatch that hold one request at a time (`LockMeansWork`,
`WorkMeansLock`, `EnactedWasReviewed`, `ImplementsLifecycle`, and `TokensAreCurrent` under
losses), `AppliedWasEnacted`, and the liveness properties (fairness and ENABLED
are beyond the prover). A theorem about one request at a time would assume away what the
API does, so there is none.

## 5. Plan

Done: `RunDispatch` with `RunLifecycle`, `StateVersions`, `RunnerFleet`, `Access`,
`BrowserSessions`, `VcsDeliveries`. Next, in this order:

1. `RunTasks`: stages, results, callbacks late or twice, overrides, and the continuation.
2. The registry: publication of a version as row and objects, beside deletion.
3. The cache of executors: the promotion of layers while others read them.
4. Ansible launches: slices and the template's concurrency gate, once core's part is known.
5. Proofs: what else of dispatch holds for overlapping requests without losses:
   `AppliedWasEnacted`, on the threads of `RunDispatchOverlapProofs`.

Runs are few on purpose: one per question, at most a dozen in all.

## 6. Not modelled

The screens of a login, registry publishing, VCS connections and the installation flow, executor file and object I/O
(archives, mirrors, caches, images), identity federation, analytics, notifications, and the
record keeping of projects, variables, inventories, credentials and schedules: see
`components` in `PROJECT.json` for each part and the reason. They are single-statement
records, rendering, or conversations with external services. Of the 82,000 lines a large
part is such code: reading parameters, checking them one by one, and writing JSON.
