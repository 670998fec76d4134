---------------------------- MODULE RunDispatch ----------------------------
(***************************************************************************)
(* The dispatch and completion of OpenTofu runs on runners: reservation and *)
(* offer (Heartbeat), claim and start (JobStart), the job token (JobToken), *)
(* the saved plan (UploadPlan), the completion (JobComplete), the actions   *)
(* of users (Create, Apply, Cancel, ForceCancel, Discard, ForceExecute),    *)
(* the continuation of a run after its task stages, and the monitor that    *)
(* settles the work of a lost launcher.                                     *)
(*                                                                         *)
(* A handler that reads the run's row and later writes it is a record of    *)
(* `reqs' with a program counter and the row it loaded: every database      *)
(* statement of it is a step of its own, and the statements of the other    *)
(* handlers, of the users and of the monitor interleave with them.          *)
(***************************************************************************)
EXTENDS Integers, FiniteSets

CONSTANTS
    Runs,          \* OpenTofu runs
    Runners,       \* registered runners of the runs' pool
    Workspaces,    \* the workspaces the runs belong to
    WorkspaceOf,   \* a run's workspace
    Kinds,         \* the kinds of run users create
    Lockable,      \* the workspaces users lock by hand
    Legacy,        \* the runners that did not declare the job-token capability
    NoRunner, NoRun,
    MaxJobs,       \* a runner's max_concurrent_jobs
    MaxAttempts,   \* bound: claims of one run
    MaxConcurrent, \* bound: handlers the API serves at once
    MaxLosses,     \* bound: runners fallen silent, answers lost, resends
    MaxDrops       \* bound: requests or offers a launcher abandons

(* What is settled when a run is created: its operation, whether its plan's *)
(* completion resolves to auto-apply, and its task stages.                 *)
Operations == {"plan_only", "plan_and_apply", "destroy"}
Kind == [op: Operations, auto: BOOLEAN,
         stages: SUBSET {"pre_plan", "post_plan", "pre_apply", "post_apply"}]
PlainKind == [op |-> "plan_and_apply", auto |-> FALSE, stages |-> {}]
Phases     == {"plan", "apply"}
Outcomes   == {"completed", "failed", "canceled"}
Statuses   == {"absent", "pending", "pre_plan_running", "pre_plan_completed",
               "planning", "post_plan_running", "post_plan_completed",
               "planned", "pre_apply_running", "applying",
               "post_apply_running", "applied", "failed", "cancelled"}

ASSUME ConstantsAssumption ==
    /\ WorkspaceOf \in [Runs -> Workspaces]
    /\ Kinds \subseteq Kind
    /\ \A k \in Kinds : k.auto => k.op # "plan_only"
    /\ Lockable \subseteq Workspaces
    /\ Legacy \subseteq Runners
    /\ NoRunner \notin Runners
    /\ NoRun \notin Runs
    /\ MaxJobs \in Nat /\ MaxAttempts \in Nat
    /\ MaxConcurrent \in Nat /\ MaxLosses \in Nat /\ MaxDrops \in Nat

VARIABLES
    run,      \* the runs table
    lock,     \* the state_locks table: the run holding each workspace
    locked,   \* the workspaces a user locked by hand
    tokens,   \* the job tokens that still verify
    online,   \* the runners the API counts as online
    losses,   \* the faults so far (bounds the state space)
    offers,   \* what each launcher was offered and has not claimed yet
    launcher, \* what each launcher is doing
    execs,    \* the executors placed for a claimed phase
    plan,     \* the saved plan object of a run: the attempt it came from
    reviewed, \* the attempt whose plan completion was accepted last
    confirmed, \* the runs a user confirmed, or re-queued
    enacted,  \* what engines applied: a run and the plan's attempt
    reqs,     \* the handlers the API is serving
    monitor   \* the monitor's pass over lost work

vars == <<run, lock, locked, tokens, online, losses, offers, launcher, execs,
          plan, reviewed, confirmed, enacted, reqs, monitor>>
runnerVars == <<online, losses, offers, launcher>>
planVars   == <<plan, reviewed, confirmed, enacted>>
jobVars    == <<execs, plan, reviewed, confirmed, enacted>>

-----------------------------------------------------------------------------
(* The rows.                                                               *)

RunnerOrNone == Runners \cup {NoRunner}
Row == [kind: Kind, status: Statuses, claimed: BOOLEAN,
        runner: RunnerOrNone, attempt: Nat, lost: BOOLEAN]
Token == [run: Runs, runner: Runners, attempt: Nat]
Offer == [run: Runs, phase: Phases]
Exec  == [run: Runs, runner: Runners, attempt: Nat, phase: Phases,
          job: BOOLEAN,             \* holds a job token, not the runner token
          pc: {"fetch", "engine", "upload", "uploading", "report", "sent"},
          plan: Nat,                \* the saved plan an apply downloaded
          outcome: Outcomes]
Req   == [kind: {"start", "token", "plan", "complete", "cancel", "force"},
          pc: {"load", "claim", "lock", "write", "revoke", "release"},
          run: Runs, runner: RunnerOrNone, attempt: Nat, phase: Phases,
          job: BOOLEAN, outcome: Outcomes, snap: Row]
Launcher == [pc: {"poll", "start", "token", "mint", "down"},
             run: Runs \cup {NoRun}, phase: Phases]
Losses   == [lost: Nat, dropped: Nat]

Finished  == {"applied", "failed", "cancelled"}
Startable == {"pending", "pre_plan_completed", "applying"}
Working   == {"planning", "applying"}

(* A run an unclaimed offer or claim may take: ClaimForDispatch refuses a   *)
(* pending run whose pre_plan stage has not passed.                        *)
Dispatchable(row) ==
    /\ row.status \in Startable
    /\ ~row.claimed
    /\ ~(row.status = "pending" /\ "pre_plan" \in row.kind.stages)

PhaseIsStatus(row) == row.status                                \* a mutant
PhaseOf(row)   == IF row.status = "applying" THEN "apply" ELSE "plan"
LocksState(r)  == run[r].kind.op # "plan_only"

Claimed(row)           == [row EXCEPT !.claimed = TRUE, !.attempt = @ + 1]
Unclaimed(row)         == [row EXCEPT !.claimed = FALSE, !.runner = NoRunner]

(* CountOutstandingForRunner: reserved or running, not finished.           *)
Outstanding(n) == {r \in Runs : /\ run[r].runner = n
                                /\ run[r].status \in Startable \cup Working}

(* authorizeRunnerForRunAs: the row must not be another runner's, and       *)
(* `assigned' demands it be the caller's.  A job token is further bound to  *)
(* the row's attempt, and refused once `finished'.                         *)
Authorized(row, q, assigned, finished) ==
    /\ row.runner \in {NoRunner, q.runner}
    /\ assigned => row.runner = q.runner
    /\ q.job => /\ row.runner = q.runner
                /\ row.attempt = q.attempt
                /\ ~finished
RunFinished(row)    == row.status \in Finished
ReportRefused(row)  == RunFinished(row) /\ row.status # "cancelled"

(* The token middleware: a job token must still verify.                    *)
Authenticated(e) ==
    e.job => [run |-> e.run, runner |-> e.runner, attempt |-> e.attempt]
                \in tokens

(* A handler is admitted while the API serves fewer than MaxConcurrent.    *)
Admitted == Cardinality(reqs) + (IF monitor.pc = "idle" THEN 0 ELSE 1)
                < MaxConcurrent

Request(kind, pc, e, outcome, snap) ==
    [kind |-> kind, pc |-> pc, run |-> e.run, runner |-> e.runner,
     attempt |-> e.attempt, phase |-> e.phase, job |-> e.job,
     outcome |-> outcome, snap |-> snap]
Advance(q, pc)  == reqs' = (reqs \ {q}) \cup {[q EXCEPT !.pc = pc]}
Answer(q)       == reqs' = reqs \ {q}

RevokeWhenFinished(r) ==                                        \* a mutant
    tokens' = {t \in tokens : t.run # r \/ ~RunFinished(run[r])}
RevokeTokens(r) == tokens' = {t \in tokens : t.run # r}

ReleaseWhileWorking(r) ==                                       \* a mutant
    lock' = IF lock[WorkspaceOf[r]] = r /\ run[r].status \in Working
              THEN [lock EXCEPT ![WorkspaceOf[r]] = NoRun] ELSE lock
ReleaseAnyones(r) ==                                            \* a mutant
    lock' = [lock EXCEPT ![WorkspaceOf[r]] = NoRun]
ReleaseLock(r) ==
    lock' = IF lock[WorkspaceOf[r]] = r
              THEN [lock EXCEPT ![WorkspaceOf[r]] = NoRun] ELSE lock

-----------------------------------------------------------------------------
EmptyRow == [kind |-> PlainKind, status |-> "absent", claimed |-> FALSE,
             runner |-> NoRunner, attempt |-> 0, lost |-> FALSE]
Idle     == [pc |-> "poll", run |-> NoRun, phase |-> "plan"]

Init ==
    /\ run = [r \in Runs |-> EmptyRow]
    /\ lock = [w \in Workspaces |-> NoRun]
    /\ locked = {}
    /\ tokens = {}
    /\ online = [n \in Runners |-> TRUE]
    /\ losses = [lost |-> 0, dropped |-> 0]
    /\ offers = [n \in Runners |-> {}]
    /\ launcher = [n \in Runners |-> Idle]
    /\ execs = {}
    /\ plan = [r \in Runs |-> 0]
    /\ reviewed = [r \in Runs |-> 0]
    /\ confirmed = {}
    /\ enacted = {}
    /\ reqs = {}
    /\ monitor = [pc |-> "idle", lost |-> {}, revoke |-> {}]

-----------------------------------------------------------------------------
(* Users: each action is a read, a check and one conditional UPDATE, so its  *)
(* check is the guard of the update.                                       *)

Set(r, row) == run' = [run EXCEPT ![r] = row]

(* Create cancels the workspace's conflicting runs (AutoCancelConflicting-  *)
(* Runs: those of its operation, and a destroy run every other one) and     *)
(* inserts the run.                                                        *)
Conflicts(r, kind) ==
    {x \in Runs \ {r} : /\ WorkspaceOf[x] = WorkspaceOf[r]
                        /\ kind.op \in {"destroy", run[x].kind.op}
                        /\ run[x].status \in {"pending", "planned"}}
Create(r) ==
    /\ Admitted
    /\ run[r].status = "absent" /\ WorkspaceOf[r] \notin locked
    /\ \E kind \in Kinds :
         run' = [x \in Runs |->
                   IF x = r
                     THEN [EmptyRow EXCEPT !.status = "pending", !.kind = kind]
                   ELSE IF x \in Conflicts(r, kind)
                     THEN [run[x] EXCEPT !.status = "cancelled"]
                   ELSE run[x]]
    /\ UNCHANGED <<locked, lock, tokens, runnerVars, jobVars, reqs, monitor>>

Confirmable == {"planned", "post_plan_completed"}

(* The confirmation of a plan, or the re-queue of an apply lost with its    *)
(* launcher.                                                               *)
Apply(r) ==
    /\ Admitted
    /\ run[r].kind.op # "plan_only"
    /\ \/ /\ run[r].status \in Confirmable
          /\ Set(r, IF "pre_apply" \in run[r].kind.stages
                      THEN [run[r] EXCEPT !.status = "pre_apply_running"]
                      ELSE [run[r] EXCEPT !.status = "applying",
                                          !.claimed = FALSE])
       \/ /\ run[r].status = "failed" /\ run[r].lost
          /\ Set(r, [Unclaimed(run[r]) EXCEPT !.status = "applying",
                                              !.lost = FALSE])
    /\ confirmed' = confirmed \cup {r}
    /\ UNCHANGED <<locked, lock, tokens, runnerVars, execs, plan, reviewed,
                   enacted, reqs, monitor>>

(* A request of a user about run r.                                        *)
UserReq(kind, pc, r) ==
    Request(kind, pc, [run |-> r, runner |-> NoRunner, attempt |-> 0,
                       phase |-> "plan", job |-> FALSE], "canceled", run[r])

CancelFrom(r, from) ==
    /\ Admitted
    /\ run[r].status \in from
    /\ Set(r, [run[r] EXCEPT !.status = "cancelled"])
    /\ reqs' = reqs \cup {UserReq("cancel", "release", r)}
    /\ UNCHANGED <<locked, lock, tokens, runnerVars, jobVars, monitor>>

CancelUnchecked(r) ==                                           \* a mutant
    run[r].status # "absent" /\ CancelFrom(r, Statuses)
Cancel(r) == CancelFrom(r, {"pending", "planning", "applying",
                            "pre_plan_running", "post_plan_running",
                            "pre_apply_running", "post_apply_running"})
ForceCancel(r) == CancelFrom(r, {"pending", "planning", "applying"})

CancelRelease(q) ==
    /\ q.kind = "cancel" /\ q.pc = "release"
    /\ ReleaseLock(q.run)
    /\ Answer(q)
    /\ UNCHANGED <<locked, run, tokens, runnerVars, jobVars, monitor>>

Discard(r) ==
    /\ Admitted
    /\ run[r].status \in {"pending", "planned", "post_plan_completed",
                          "post_plan_running"}
    /\ Set(r, [run[r] EXCEPT !.status = "cancelled"])
    /\ UNCHANGED <<locked, lock, tokens, runnerVars, jobVars, reqs, monitor>>

(* ForceExecute finds the run pending and its workspace locked by hand,     *)
(* unlocks the workspace, and clears the run's claim and reservation by an *)
(* UPDATE that does not check the run again.                               *)
ForceExecute(r) ==
    /\ Admitted
    /\ run[r].status = "pending" /\ WorkspaceOf[r] \in locked
    /\ locked' = locked \ {WorkspaceOf[r]}
    /\ reqs' = reqs \cup {UserReq("force", "write", r)}
    /\ UNCHANGED <<run, lock, tokens, runnerVars, jobVars, monitor>>

(* Lock, and Unlock or ForceUnlock, of a workspace by hand.                *)
LockWorkspace(w) ==
    /\ Admitted
    /\ w \in Lockable \ locked
    /\ locked' = locked \cup {w}
    /\ UNCHANGED <<run, lock, tokens, runnerVars, jobVars, reqs, monitor>>

UnlockWorkspace(w) ==
    /\ Admitted
    /\ w \in locked
    /\ locked' = locked \ {w}
    /\ UNCHANGED <<run, lock, tokens, runnerVars, jobVars, reqs, monitor>>

ForceClear(q) ==
    /\ q.kind = "force" /\ q.pc = "write"
    /\ Set(q.run, Unclaimed(run[q.run]))
    /\ Answer(q)
    /\ UNCHANGED <<locked, lock, tokens, runnerVars, jobVars, monitor>>

-----------------------------------------------------------------------------
(* Task stages (core/runtask and the orchestrator): a pending run with a     *)
(* pre_plan stage waits for it, and a run whose stage ended continues.      *)

BeginPrePlan(r) ==
    /\ Admitted
    /\ run[r].status = "pending" /\ "pre_plan" \in run[r].kind.stages
    /\ ~run[r].claimed
    /\ Set(r, [run[r] EXCEPT !.status = "pre_plan_running"])
    /\ UNCHANGED <<locked, lock, tokens, runnerVars, jobVars, reqs, monitor>>

ContinueRun(r) ==
    /\ Admitted
    /\ \/ /\ run[r].status = "pre_plan_running"
          /\ Set(r, [run[r] EXCEPT !.status = "pre_plan_completed"])
       \/ /\ run[r].status = "post_plan_running" /\ ~run[r].kind.auto
          /\ Set(r, [run[r] EXCEPT !.status = "post_plan_completed"])
       \/ /\ \/ run[r].status = "post_plan_running" /\ run[r].kind.auto
             \/ run[r].status = "pre_apply_running"
          /\ Set(r, [Unclaimed(run[r]) EXCEPT !.status = "applying"])
       \/ /\ run[r].status = "post_apply_running"
          /\ Set(r, [run[r] EXCEPT !.status = "applied"])
       \/ /\ run[r].status \in {"pre_plan_running", "post_plan_running",
                                "pre_apply_running", "post_apply_running"}
          /\ Set(r, [run[r] EXCEPT !.status = "failed"])
    /\ UNCHANGED <<locked, lock, tokens, runnerVars, jobVars, reqs, monitor>>

-----------------------------------------------------------------------------
(* Launchers: offers, the claim and the job token.                         *)

Lose == /\ losses.lost < MaxLosses
        /\ losses' = [losses EXCEPT !.lost = @ + 1]

HeldUnoffered(n) == {}                                          \* a mutant
Held(n) == {r \in Runs : run[r].runner = n /\ Dispatchable(run[r])}

(* A heartbeat marks the runner online, reserves dispatchable runs up to    *)
(* its free capacity and answers with what it holds and never started.     *)
(* `answered' is FALSE when the answer is lost.                            *)
Heartbeat(n) ==
    /\ Admitted
    /\ launcher[n] = Idle /\ offers[n] = {}
    /\ LET free == {r \in Runs : /\ run[r].runner = NoRunner
                                 /\ Dispatchable(run[r])}
           capacity == MaxJobs - Cardinality(Outstanding(n))
       IN \E new \in SUBSET free, answered \in BOOLEAN :
            /\ Cardinality(new) <= IF capacity > 0 THEN capacity ELSE 0
            /\ \/ new = free
               \/ Cardinality(new) >= capacity
            /\ run' = [r \in Runs |-> IF r \in new
                                        THEN [run[r] EXCEPT !.runner = n]
                                        ELSE run[r]]
            /\ IF answered
                 THEN /\ offers' = [offers EXCEPT ![n] =
                                      {[run |-> r, phase |-> PhaseOf(run[r])]
                                         : r \in Held(n) \cup new}]
                      /\ UNCHANGED losses
                 ELSE /\ Lose
                      /\ UNCHANGED offers
    /\ online' = [online EXCEPT ![n] = TRUE]
    /\ UNCHANGED <<locked, lock, tokens, launcher, jobVars, reqs, monitor>>

(* The launcher's own request about the run it is placing.                 *)
LauncherReq(kind, pc, n, o, job, attempt) ==
    Request(kind, pc, [run |-> o.run, runner |-> n, attempt |-> attempt,
                       phase |-> o.phase, job |-> job], "failed", run[o.run])

Forget(n) == launcher' = [launcher EXCEPT ![n] = Idle]

(* JobStart loads and authorizes the run; a refused offer is skipped.      *)
JobStart(n) ==
    /\ Admitted
    /\ launcher[n].pc = "poll"
    /\ \E o \in offers[n] :
         LET q == LauncherReq("start", "claim", n, o, FALSE, 0) IN
         /\ offers' = [offers EXCEPT ![n] = @ \ {o}]
         /\ IF Authorized(run[o.run], q, FALSE, FALSE)
              THEN /\ reqs' = reqs \cup {q}
                   /\ launcher' = [launcher EXCEPT ![n] =
                        [pc |-> "start", run |-> o.run, phase |-> o.phase]]
              ELSE UNCHANGED <<reqs, launcher>>
    /\ UNCHANGED <<locked, run, lock, tokens, online, losses, jobVars,
                   monitor>>

IsWaiting(q, pc) == launcher[q.runner] = [pc |-> pc, run |-> q.run,
                                          phase |-> q.phase]
SkipJob(q, pc) ==
    launcher' = IF IsWaiting(q, pc) THEN [launcher EXCEPT ![q.runner] = Idle]
                                    ELSE launcher

(* ClaimForDispatch: one conditional UPDATE.                               *)
StartClaim(q) ==
    /\ q.kind = "start" /\ q.pc = "claim"
    /\ IF Dispatchable(run[q.run])
         THEN /\ run[q.run].attempt < MaxAttempts
              /\ Set(q.run, Claimed(run[q.run]))
              /\ Advance(q, "lock")
              /\ UNCHANGED launcher
         ELSE /\ Answer(q)
              /\ SkipJob(q, "start")
              /\ UNCHANGED run
    /\ UNCHANGED <<locked, lock, tokens, online, losses, offers, jobVars,
                   monitor>>

(* lockWorkspaceForRun; a run whose workspace another run holds is          *)
(* unclaimed again.                                                        *)
StartLock(q) ==
    /\ q.kind = "start" /\ q.pc = "lock"
    /\ LET w == WorkspaceOf[q.run] IN
       IF LocksState(q.run) => lock[w] \in {NoRun, q.run}
         THEN /\ lock' = IF LocksState(q.run) THEN [lock EXCEPT ![w] = q.run]
                                              ELSE lock
              /\ Advance(q, "write")
              /\ UNCHANGED <<run, launcher>>
         ELSE /\ Set(q.run, Unclaimed(run[q.run]))
              /\ Answer(q)
              /\ SkipJob(q, "start")
              /\ UNCHANGED lock
    /\ UNCHANGED <<locked, tokens, online, losses, offers, jobVars, monitor>>

StartedWhole(q) ==                                              \* a mutant
    [q.snap EXCEPT !.runner = q.runner,
                   !.status = IF q.snap.status = "applying" THEN @ ELSE "planning"]

(* The phase's own columns, by run id alone; the status written is the one  *)
(* that follows the status loaded before the claim.                        *)
Started(q) ==
    [run[q.run] EXCEPT
       !.runner = q.runner,
       !.status = IF q.snap.status \in Startable \ {"applying"}
                    THEN "planning" ELSE @]

StartWrite(q) ==
    /\ q.kind = "start" /\ q.pc = "write"
    /\ Set(q.run, Started(q))
    /\ Advance(q, "revoke")
    /\ UNCHANGED <<locked, lock, tokens, runnerVars, jobVars, monitor>>

(* The executor a launcher places; a legacy one holds the runner token.    *)
NewExec(q, job) ==
    [run |-> q.run, runner |-> q.runner,
     attempt |-> IF job THEN q.attempt ELSE run[q.run].attempt,
     phase |-> q.phase, job |-> job, pc |-> "fetch", plan |-> 0,
     outcome |-> "failed"]

StartRevoke(q) ==
    /\ q.kind = "start" /\ q.pc = "revoke"
    /\ RevokeTokens(q.run)
    /\ Answer(q)
    /\ IF ~IsWaiting(q, "start") THEN UNCHANGED <<launcher, execs>>
       ELSE IF q.runner \in Legacy
         THEN /\ execs' = execs \cup {NewExec(q, FALSE)}
              /\ Forget(q.runner)
         ELSE /\ launcher' = [launcher EXCEPT ![q.runner].pc = "token"]
              /\ UNCHANGED execs
    /\ UNCHANGED <<locked, run, lock, online, losses, offers, planVars,
                   monitor>>

(* JobToken authorizes the claimed run, resolves its settings and mints a   *)
(* token for the attempt it loaded.                                        *)
JobToken(n) ==
    /\ Admitted
    /\ launcher[n].pc = "token"
    /\ LET r == launcher[n].run
           q == LauncherReq("token", "write", n, launcher[n], FALSE,
                            run[r].attempt)
       IN IF Authorized(run[r], q, TRUE, FALSE) /\ ~RunFinished(run[r])
            THEN /\ reqs' = reqs \cup {q}
                 /\ launcher' = [launcher EXCEPT ![n].pc = "mint"]
            ELSE Forget(n) /\ UNCHANGED reqs
    /\ UNCHANGED <<locked, run, lock, tokens, online, losses, offers, jobVars,
                   monitor>>

TokenMint(q) ==
    /\ q.kind = "token" /\ q.pc = "write"
    /\ tokens' = tokens \cup {[run |-> q.run, runner |-> q.runner,
                               attempt |-> q.attempt]}
    /\ Answer(q)
    /\ IF IsWaiting(q, "mint")
         THEN /\ execs' = execs \cup {NewExec(q, TRUE)}
              /\ Forget(q.runner)
         ELSE UNCHANGED <<execs, launcher>>
    /\ UNCHANGED <<locked, run, lock, online, losses, offers, planVars,
                   monitor>>

(* A launcher that gets no answer, or drops its offers, polls again.       *)
LauncherGivesUp(n) ==
    /\ losses.dropped < MaxDrops
    /\ launcher[n].pc \in {"start", "token", "mint"} \/ offers[n] # {}
    /\ losses' = [losses EXCEPT !.dropped = @ + 1]
    /\ Forget(n)
    /\ offers' = [offers EXCEPT ![n] = {}]
    /\ UNCHANGED <<locked, run, lock, tokens, online, jobVars, reqs, monitor>>

(* The machine of a runner goes down with its launcher and its executors,   *)
(* and comes back, to register again, after it was marked offline.         *)
Crash(n) ==
    /\ Lose
    /\ launcher[n].pc # "down"
    /\ launcher' = [launcher EXCEPT ![n] = [Idle EXCEPT !.pc = "down"]]
    /\ offers' = [offers EXCEPT ![n] = {}]
    /\ execs' = {e \in execs : e.runner # n}
    /\ UNCHANGED <<locked, run, lock, tokens, online, planVars, reqs, monitor>>

Register(n) ==
    /\ Admitted
    /\ launcher[n].pc = "down" /\ ~online[n]
    /\ Forget(n)
    /\ online' = [online EXCEPT ![n] = TRUE]
    /\ UNCHANGED <<locked, run, lock, tokens, losses, offers, jobVars, reqs,
                   monitor>>

-----------------------------------------------------------------------------
(* Executors: fetch the artifacts, run the engine, hand over the saved plan *)
(* of a plan phase, report the outcome.                                    *)

Become(e, f) == execs' = (execs \ {e}) \cup {f}

(* getTerraformRunArtifacts, and for an apply DownloadPlan: without a saved *)
(* plan of an applying run the phase fails.                                *)
ExecFetch(e) ==
    /\ Admitted
    /\ e.pc = "fetch"
    /\ LET row == run[e.run]
           served == /\ Authenticated(e)
                     /\ Authorized(row, e, FALSE, RunFinished(row))
                     /\ ~RunFinished(row)
           ready == \/ e.phase = "plan"
                    \/ row.status = "applying" /\ plan[e.run] # 0
       IN Become(e, IF served /\ ready
                      THEN [e EXCEPT !.pc = "engine",
                                     !.plan = IF e.phase = "apply"
                                                THEN plan[e.run] ELSE 0]
                      ELSE [e EXCEPT !.pc = "report", !.outcome = "failed"])
    /\ UNCHANGED <<locked, run, lock, tokens, runnerVars, planVars, reqs,
                   monitor>>

(* The engine ends by itself or is stopped (a cancellation the executor     *)
(* saw, or its placement stopped).                                         *)
ExecEngine(e, outcome) ==
    /\ e.pc = "engine"
    /\ Become(e, IF e.phase = "plan" /\ outcome = "completed"
                   THEN [e EXCEPT !.pc = "upload"]
                   ELSE [e EXCEPT !.pc = "report", !.outcome = outcome])
    /\ enacted' = IF e.phase = "apply" /\ outcome = "completed"
                    THEN enacted \cup {[run |-> e.run, plan |-> e.plan]}
                    ELSE enacted
    /\ UNCHANGED <<locked, run, lock, tokens, runnerVars, plan, reviewed,
                   confirmed, reqs, monitor>>

(* UploadPlan: authorized and checked to be planning, then the body is read *)
(* and stored.                                                             *)
UploadPlan(e) ==
    /\ Admitted
    /\ e.pc = "upload"
    /\ LET row == run[e.run] IN
       IF /\ Authenticated(e)
          /\ Authorized(row, e, TRUE, RunFinished(row))
          /\ row.status = "planning"
         THEN /\ reqs' = reqs \cup
                   {Request("plan", "write", e, "completed", row)}
              /\ Become(e, [e EXCEPT !.pc = "uploading"])
         ELSE /\ Become(e, [e EXCEPT !.pc = "report", !.outcome = "failed"])
              /\ UNCHANGED reqs
    /\ UNCHANGED <<locked, run, lock, tokens, runnerVars, planVars, monitor>>

IsOf(e, q) == /\ e.run = q.run /\ e.runner = q.runner
              /\ e.attempt = q.attempt /\ e.phase = q.phase /\ e.job = q.job

PutOnce(r, attempt)  == IF plan[r] = 0 THEN attempt ELSE plan[r]  \* a mutant
PutPlan(r, attempt)  == attempt
UploadPut(q) ==
    /\ q.kind = "plan" /\ q.pc = "write"
    /\ plan' = [plan EXCEPT ![q.run] = PutPlan(q.run, q.attempt)]
    /\ execs' = {IF IsOf(e, q) /\ e.pc = "uploading"
                   THEN [e EXCEPT !.pc = "report", !.outcome = "completed"]
                   ELSE e : e \in execs}
    /\ Answer(q)
    /\ UNCHANGED <<locked, run, lock, tokens, runnerVars, reviewed, confirmed,
                   enacted, monitor>>

(* The completion is sent; an answer of a proxy (502, 503, 504) makes the   *)
(* client send it again while the first may still be served.  A token that *)
(* no longer verifies stops the executor.                                  *)
ExecReport(e) ==
    /\ Admitted
    /\ \/ e.pc = "report" /\ UNCHANGED losses
       \/ e.pc = "sent" /\ Lose
    /\ IF Authenticated(e)
         THEN /\ reqs' = reqs \cup
                   {Request("complete", "load", e, e.outcome, run[e.run])}
              /\ Become(e, [e EXCEPT !.pc = "sent"])
         ELSE /\ execs' = execs \ {e}
              /\ UNCHANGED reqs
    /\ UNCHANGED <<locked, run, lock, tokens, online, offers, launcher,
                   planVars, monitor>>

-----------------------------------------------------------------------------
(* JobComplete.                                                            *)

Ended(q) == execs' = {e \in execs : ~(IsOf(e, q) /\ e.pc = "sent")}

(* The row is loaded and the report authorized: a canceled run still takes  *)
(* the report of the attempt that was running.                             *)
CompleteLoad(q) ==
    /\ q.kind = "complete" /\ q.pc = "load"
    /\ LET row == run[q.run] IN
       IF Authorized(row, q, TRUE, ReportRefused(row))
         THEN /\ reqs' = (reqs \ {q}) \cup
                           {[q EXCEPT !.pc = "write", !.snap = row]}
              /\ UNCHANGED execs
         ELSE /\ Answer(q)
              /\ Ended(q)
    /\ UNCHANGED <<locked, run, lock, tokens, runnerVars, planVars, monitor>>

AfterPlanUngated(row) ==                                        \* a mutant
    [Unclaimed(row) EXCEPT !.status = "applying"]
AfterPlanClaimed(row) ==                                        \* a mutant
    [row EXCEPT !.status = IF row.kind.auto THEN "applying" ELSE "planned"]
AfterPlan(row) ==
    CASE "post_plan" \in row.kind.stages ->
            [row EXCEPT !.status = "post_plan_running"]
      [] "post_plan" \notin row.kind.stages /\ row.kind.auto ->
            [Unclaimed(row) EXCEPT !.status = "applying"]
      [] OTHER -> [row EXCEPT !.status = "planned"]

SavedUnspared(q) ==                                             \* a mutant
    CASE q.outcome = "completed" /\ q.snap.status = "planning" ->
            AfterPlan(q.snap)
      [] q.outcome = "failed"   -> [q.snap EXCEPT !.status = "failed"]
      [] q.outcome = "canceled" -> [q.snap EXCEPT !.status = "cancelled"]
      [] OTHER -> q.snap

(* The row a report saves whole, computed from the row it loaded.          *)
Saved(q) ==
    CASE q.outcome = "completed" /\ q.snap.status = "planning" ->
            AfterPlan(q.snap)
      [] q.outcome = "failed" /\ q.snap.status # "cancelled" ->
            [q.snap EXCEPT !.status = "failed", !.lost = FALSE]
      [] q.outcome = "canceled" -> [q.snap EXCEPT !.status = "cancelled"]
      [] OTHER -> q.snap

EndsAnyPhase(q) == /\ q.outcome = "completed"                   \* a mutant
                   /\ q.snap.status # "cancelled"

(* A completion of anything but a planning or canceled run is the end of    *)
(* the apply: one UPDATE that spares a canceled run.                       *)
EndsApply(q) == /\ q.outcome = "completed"
                /\ q.snap.status \notin {"planning", "cancelled"}
AfterApply(r) ==
    IF run[r].status = "cancelled" THEN run[r]
    ELSE [run[r] EXCEPT !.status = IF "post_apply" \in run[r].kind.stages
                                     THEN "post_apply_running" ELSE "applied"]

CompleteWrite(q) ==
    /\ q.kind = "complete" /\ q.pc = "write"
    /\ Set(q.run, IF EndsApply(q) THEN AfterApply(q.run) ELSE Saved(q))
    /\ reviewed' = IF q.outcome = "completed" /\ q.snap.status = "planning"
                     THEN [reviewed EXCEPT ![q.run] = q.attempt] ELSE reviewed
    /\ Advance(q, "revoke")
    /\ UNCHANGED <<locked, lock, tokens, runnerVars, execs, plan, confirmed,
                   enacted, monitor>>

CompleteRevoke(q) ==
    /\ q.kind = "complete" /\ q.pc = "revoke"
    /\ RevokeTokens(q.run)
    /\ Advance(q, "release")
    /\ UNCHANGED <<locked, run, lock, runnerVars, jobVars, monitor>>

CompleteRelease(q) ==
    /\ q.kind = "complete" /\ q.pc = "release"
    /\ ReleaseLock(q.run)
    /\ Answer(q)
    /\ Ended(q)
    /\ UNCHANGED <<locked, run, tokens, runnerVars, planVars, monitor>>

-----------------------------------------------------------------------------
(* The monitor (services/runner/monitor.go).                               *)

OfflineRunners == {n \in Runners : ~online[n]}

(* A runner not heard of for OfflineAfter, whether it is gone or only slow. *)
MarkOffline(n) ==
    /\ Admitted
    /\ monitor.pc = "idle"
    /\ online[n]
    /\ \/ launcher[n].pc = "down" /\ UNCHANGED losses
       \/ launcher[n].pc # "down" /\ Lose
    /\ online' = [online EXCEPT ![n] = FALSE]
    /\ monitor' = [monitor EXCEPT !.pc = "release"]
    /\ UNCHANGED <<locked, run, lock, tokens, offers, launcher, jobVars, reqs>>

StaleReservations == {r \in Runs : /\ run[r].runner \in OfflineRunners
                                   /\ run[r].status \in Startable
                                   /\ ~run[r].claimed}
LostRuns == {r \in Runs : /\ run[r].runner \in OfflineRunners
                          /\ run[r].claimed
                          /\ run[r].status \in Working}

(* A later pass, when it finds anything to do.                             *)
MonitorTick ==
    /\ Admitted
    /\ monitor.pc = "idle"
    /\ StaleReservations \cup LostRuns # {}
    /\ monitor' = [monitor EXCEPT !.pc = "release"]
    /\ UNCHANGED <<locked, run, lock, tokens, runnerVars, jobVars, reqs>>

(* ReleaseStaleRunReservations.                                            *)
ReleaseReservations ==
    /\ monitor.pc = "release"
    /\ run' = [r \in Runs |-> IF r \in StaleReservations
                                THEN [run[r] EXCEPT !.runner = NoRunner]
                                ELSE run[r]]
    /\ monitor' = [monitor EXCEPT !.pc = "settle"]
    /\ UNCHANGED <<locked, lock, tokens, runnerVars, jobVars, reqs>>

(* ApplyLostLauncherOutcome: a started plan is re-dispatched, a started     *)
(* apply fails.                                                            *)
SettleLostWork ==
    /\ monitor.pc = "settle"
    /\ run' = [r \in Runs |->
                 IF r \notin LostRuns THEN run[r]
                 ELSE IF run[r].status = "planning"
                   THEN [Unclaimed(run[r]) EXCEPT !.status = "pending"]
                   ELSE [run[r] EXCEPT !.status = "failed", !.lost = TRUE]]
    /\ monitor' = [pc |-> IF LostRuns = {} THEN "idle" ELSE "unlock",
                   lost |-> LostRuns, revoke |-> {}]
    /\ UNCHANGED <<locked, lock, tokens, runnerVars, jobVars, reqs>>

(* Then, run by run, the state lock and the job tokens.                    *)
UnlockLost(r) ==
    /\ monitor.pc = "unlock" /\ monitor.revoke = {}
    /\ r \in monitor.lost
    /\ ReleaseLock(r)
    /\ monitor' = [monitor EXCEPT !.lost = @ \ {r}, !.revoke = {r}]
    /\ UNCHANGED <<locked, run, tokens, runnerVars, jobVars, reqs>>

RevokeLost(r) ==
    /\ r \in monitor.revoke
    /\ RevokeTokens(r)
    /\ monitor' = [monitor EXCEPT !.revoke = {},
                                  !.pc = IF monitor.lost = {} THEN "idle"
                                                             ELSE "unlock"]
    /\ UNCHANGED <<locked, run, lock, runnerVars, jobVars, reqs>>

-----------------------------------------------------------------------------
UserStep(r) == \/ Create(r) \/ Apply(r) \/ Cancel(r) \/ ForceCancel(r)
               \/ Discard(r) \/ ForceExecute(r)
StageStep(r) == BeginPrePlan(r) \/ ContinueRun(r)
LauncherStep(n) == Heartbeat(n) \/ JobStart(n) \/ JobToken(n) \/ Register(n)
FaultStep(n)    == LauncherGivesUp(n) \/ Crash(n) \/ MarkOffline(n)
StartStep(q) == StartClaim(q) \/ StartLock(q) \/ StartWrite(q) \/ StartRevoke(q)
CompleteStep(q) == \/ CompleteLoad(q) \/ CompleteWrite(q)
                   \/ CompleteRevoke(q) \/ CompleteRelease(q)
HandlerStep(q) == \/ StartStep(q) \/ TokenMint(q) \/ UploadPut(q)
                  \/ CompleteStep(q) \/ CancelRelease(q) \/ ForceClear(q)
ExecStep(e) == \/ ExecFetch(e) \/ UploadPlan(e) \/ ExecReport(e)
               \/ \E o \in Outcomes : ExecEngine(e, o)
MonitorStep == \/ MonitorTick \/ ReleaseReservations \/ SettleLostWork
               \/ \E r \in Runs : UnlockLost(r) \/ RevokeLost(r)

Next ==
    \/ \E r \in Runs : UserStep(r) \/ StageStep(r)
    \/ \E w \in Workspaces : LockWorkspace(w) \/ UnlockWorkspace(w)
    \/ \E n \in Runners : LauncherStep(n) \/ FaultStep(n)
    \/ \E q \in reqs : HandlerStep(q)
    \/ \E e \in execs : ExecStep(e)
    \/ MonitorStep

Spec == Init /\ [][Next]_vars

-----------------------------------------------------------------------------
(* The type of the state.                                                  *)
TypeOK ==
    /\ run \in [Runs -> Row]
    /\ lock \in [Workspaces -> Runs \cup {NoRun}]
    /\ locked \subseteq Workspaces
    /\ tokens \subseteq Token
    /\ online \in [Runners -> BOOLEAN]
    /\ losses \in Losses
    /\ offers \in [Runners -> SUBSET Offer]
    /\ launcher \in [Runners -> Launcher]
    /\ \A n \in Runners : launcher[n].pc \in {"start", "token", "mint"} =>
          launcher[n].run \in Runs
    /\ execs \subseteq Exec
    /\ plan \in [Runs -> Nat] /\ reviewed \in [Runs -> Nat]
    /\ confirmed \subseteq Runs
    /\ enacted \subseteq [run: Runs, plan: Nat]
    /\ reqs \subseteq Req
    /\ \A q \in reqs : q.kind \notin {"cancel", "force"} => q.runner \in Runners
    /\ monitor \in [pc: {"idle", "release", "settle", "unlock"},
                    lost: SUBSET Runs, revoke: SUBSET Runs]

-----------------------------------------------------------------------------
(* Nothing is in progress inside the API.                                  *)
Quiet == reqs = {} /\ monitor.pc = "idle"

(* Between requests, a run holds its workspace's state lock only while an   *)
(* attempt of it is under way: no completion, cancellation, refused start   *)
(* or lost launcher leaves a workspace wedged.                             *)
LockMeansWork ==
    Quiet => \A r \in Runs : lock[WorkspaceOf[r]] = r =>
                 run[r].status \in Working /\ run[r].claimed

(* The other way round: while an attempt of a run that touches the state is *)
(* under way the run holds the lock, so no two runs work on one workspace.  *)
WorkMeansLock ==
    Quiet => \A r \in Runs :
       LocksState(r) /\ run[r].status \in Working /\ run[r].claimed
          => lock[WorkspaceOf[r]] = r

(* A run that reads applied was applied by an engine: no report of another  *)
(* phase, another attempt or a second time ends the apply of a run.        *)
AppliedWasEnacted ==
    \A r \in Runs : run[r].status \in {"applied", "post_apply_running"} =>
        \E x \in enacted : x.run = r

(* An engine applies a run only after its plan completed and a user         *)
(* confirmed it, or the run applies automatically.                         *)
EnactedWasConfirmed ==
    \A x \in enacted : /\ \/ x.run \in confirmed
                           \/ run[x.run].kind.auto
                        /\ reviewed[x.run] # 0

(* Why, as an inductive invariant.  Nothing of an absent run exists, and a  *)
(* handler, launcher or executor past the claim means an attempt began;    *)
Begun ==
    /\ \A r \in Runs : run[r].status = "absent" => run[r] = EmptyRow
    /\ \A n \in Runners : launcher[n].pc \in {"token", "mint"} =>
          run[launcher[n].run].attempt # 0
    /\ \A e \in execs : e.attempt # 0 /\ run[e.run].attempt # 0
    /\ \A q \in reqs : q.kind = "start" /\ q.pc # "claim" =>
          run[q.run].attempt # 0
    /\ \A q \in reqs : q.kind \in {"token", "plan", "complete"} =>
          q.attempt # 0 /\ run[q.run].attempt # 0

(* a row past its plan, in the table or in a report's snapshot, had a plan  *)
(* completed, and one whose apply was allowed is sanctioned;               *)
Sanctioned(r) == r \in confirmed \/ run[r].kind.auto
PastPlan == {"post_plan_running", "post_plan_completed", "planned",
             "pre_apply_running", "applying"}
Honest(row, r) ==
    /\ row.status \in PastPlan \/ row.lost => reviewed[r] # 0
    /\ row.status \in {"pre_apply_running", "applying"} => Sanctioned(r)
HonestRows ==
    /\ \A r \in Runs : Honest(run[r], r)
    /\ \A q \in reqs : q.kind = "complete" /\ q.pc = "write" =>
          /\ Honest(q.snap, q.run)
          /\ q.snap.attempt # 0
          /\ q.snap.status # "absent"
          /\ q.snap.kind = run[q.run].kind

(* and an engine that applies was started while the run was applying.      *)
EnginesSanctioned ==
    \A e \in execs : e.phase = "apply" /\ e.pc = "engine" =>
        Sanctioned(e.run) /\ reviewed[e.run] # 0

ConfirmedInv ==
    TypeOK /\ Begun /\ HonestRows /\ EnginesSanctioned /\ EnactedWasConfirmed

(* The plan an engine applies is the one of the attempt whose completion    *)
(* put it up for review, never one that an orphan or a successor uploaded.  *)
(* This is for uploads that no other request overlaps: one checked before   *)
(* its attempt was settled may be stored after another plan was reviewed.   *)
EnactedWasReviewed == \A x \in enacted : x.plan = reviewed[x.run]

(* An attempt is executed once: no claim is answered twice and no job token *)
(* is minted for two executors.                                            *)
OneExecutorPerAttempt ==
    \A e, f \in execs : e.run = f.run /\ e.attempt = f.attempt => e = f

(* Between requests, a job token that verifies is of the current attempt of *)
(* a run under way (or canceled under way): what ended an attempt revoked   *)
(* its tokens.                                                             *)
TokensAreCurrent ==
    Quiet => \A t \in tokens :
       /\ run[t.run].runner = t.runner /\ run[t.run].attempt = t.attempt
       /\ run[t.run].status \in Working \cup {"cancelled"}

(* A cancellation may be undone by a handler it ran into: the write of a     *)
(* start that claimed the run, or of a report that loaded it before.  Once  *)
(* no such handler is left a canceled run is settled, and stays so: no later *)
(* report, claim, confirmation, task stage or settlement of lost work, and  *)
(* no handler that was then at another step, brings it back.               *)
Undoes(q) == \/ q.kind = "start" /\ q.pc \in {"lock", "write"}
             \/ /\ q.kind = "complete" /\ q.pc = "write"
                /\ q.snap.status # "cancelled"
Settled(r) == /\ run[r].status = "cancelled"
              /\ \A q \in reqs : q.run = r => ~Undoes(q)
CancelSettles == [][\A r \in Runs : Settled(r) => Settled(r)']_vars

(* The run's status keeps the promises of RunLifecycle: it ends once, reads *)
(* applied only after an engine applied it, and goes back only where a lost *)
(* launcher's work is taken up again.                                      *)
PhaseIn(status) ==
    CASE status \in {"pending", "pre_plan_running", "pre_plan_completed"} ->
            "waiting"
      [] status \in {"post_plan_running", "post_plan_completed", "planned"} ->
            "reviewing"
      [] status \in {"pre_apply_running", "applying"} -> "approved"
      [] status = "post_apply_running" -> "closing"
      [] OTHER -> status
Lifecycle == INSTANCE RunLifecycle WITH
                phase   <- [r \in Runs |-> PhaseIn(run[r].status)],
                applied <- {x.run : x \in enacted}
ImplementsLifecycle == Lifecycle!Spec

(* The report of a run that is canceled while it is served leaves the run    *)
(* canceled.                                                               *)
CancelSurvivesReport ==
    [][\A q \in reqs : CompleteWrite(q) /\ run[q.run].status = "cancelled"
                          => run'[q.run].status = "cancelled"]_vars

-----------------------------------------------------------------------------
(* The launchers poll, the API serves what it admitted, the executors run   *)
(* their engines and report, and the monitor ticks, all by themselves; no   *)
(* user and no task stage has to do anything.                              *)
Fairness ==
    /\ \A n \in Runners : /\ WF_vars(LauncherStep(n))
                           /\ WF_vars(MarkOffline(n) /\ launcher[n].pc = "down")
    /\ WF_vars(\E q \in reqs : HandlerStep(q))
    /\ WF_vars(\E e \in execs : ExecStep(e))
    /\ WF_vars(MonitorStep)
FairSpec == Spec /\ Fairness

(* A run that waits for its plan, and for no pre_plan stage, gets it, or     *)
(* ends, though the machine that was to run it crashes.  Who keeps locking  *)
(* its workspace and forcing it past the lock takes its runner away again.  *)
PendingIsPlanned ==
    \A r \in Runs :
        run[r].status = "pending" /\ "pre_plan" \notin run[r].kind.stages ~>
            \/ run[r].status \notin {"pending", "planning"}
            \/ WorkspaceOf[r] \in locked

(* An apply ends.                                                          *)
ApplyEnds ==
    \A r \in Runs : run[r].status = "applying" ~> run[r].status # "applying"

(* No state lock is held for ever.                                         *)
LockIsReleased ==
    \A w \in Workspaces : lock[w] # NoRun ~> lock[w] = NoRun

=============================================================================
