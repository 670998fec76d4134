------------------------- MODULE RunDispatchProofs -------------------------
(* Theorems about RunDispatch, for any runs, runners, workspaces and bounds. *)
EXTENDS RunDispatch, TLAPS

USE ConstantsAssumption DEF runnerVars, jobVars, planVars

-----------------------------------------------------------------------------
(* What the helpers on rows and requests return.                           *)

(* A row claimed or unclaimed is a row.                                    *)
LEMMA RowTypes ==
    ASSUME NEW row \in Row
    PROVE  /\ Claimed(row) \in Row
           /\ Unclaimed(row) \in Row
           /\ AfterPlan(row) \in Row
<1>1. Claimed(row) \in Row
  <2>1. \A k \in Nat : [row EXCEPT !.claimed = TRUE, !.attempt = k] \in Row
    BY DEF Row
  <2>2. row.attempt + 1 \in Nat
    BY DEF Row
  <2> QED
    BY <2>1, <2>2 DEF Claimed
<1>2. Unclaimed(row) \in Row
  BY DEF Row, Unclaimed, RunnerOrNone
<1>3. AfterPlan(row) \in Row
  <2>1. [row EXCEPT !.status = "post_plan_running"] \in Row
    BY DEF Row, Statuses
  <2>2. [Unclaimed(row) EXCEPT !.status = "applying"] \in Row
    BY <1>2 DEF Row, Statuses
  <2>3. [row EXCEPT !.status = "planned"] \in Row
    BY DEF Row, Statuses
  <2> QED
    BY <2>1, <2>2, <2>3 DEF AfterPlan
<1> QED
  BY <1>1, <1>2, <1>3

(* So are the other edits the handlers make of a row.                      *)
LEMMA RowEdits ==
    ASSUME NEW row \in Row, NEW s \in Statuses, NEW n \in RunnerOrNone,
           NEW b \in BOOLEAN
    PROVE  /\ [row EXCEPT !.status = s] \in Row
           /\ [row EXCEPT !.status = s, !.claimed = b] \in Row
           /\ [row EXCEPT !.status = s, !.lost = b] \in Row
           /\ [row EXCEPT !.runner = n] \in Row
           /\ [row EXCEPT !.runner = n, !.status = s] \in Row
BY DEF Row

(* A request built from its parts is a request.                            *)
LEMMA RequestType ==
    ASSUME NEW kind \in {"start", "token", "plan", "complete", "cancel", "force"},
           NEW pc \in {"load", "claim", "lock", "write", "revoke", "release"},
           NEW e, e.run \in Runs, e.runner \in RunnerOrNone, e.attempt \in Nat,
           e.phase \in Phases, e.job \in BOOLEAN,
           NEW o \in Outcomes, NEW snap \in Row
    PROVE  /\ Request(kind, pc, e, o, snap) \in Req
           /\ Request(kind, pc, e, o, snap).kind = kind
           /\ Request(kind, pc, e, o, snap).runner = e.runner
BY DEF Request, Req

(* Setting a run's row to a row keeps the runs table well typed.            *)
LEMMA SetType ==
    ASSUME TypeOK, NEW r \in Runs, NEW row \in Row, Set(r, row)
    PROVE  run' \in [Runs -> Row]
BY DEF TypeOK, Set

(* Revoking tokens and releasing a lock keep them well typed.              *)
LEMMA ReleaseType ==
    ASSUME TypeOK, NEW r \in Runs
    PROVE  /\ RevokeTokens(r) => tokens' \subseteq Token
           /\ ReleaseLock(r) => lock' \in [Workspaces -> Runs \cup {NoRun}]
BY DEF TypeOK, RevokeTokens, ReleaseLock

(* A handler that goes on or answers leaves well-typed requests.           *)
LEMMA ReqsTypes ==
    ASSUME TypeOK, NEW q \in reqs
    PROVE  /\ q \in Req
           /\ Answer(q) => /\ reqs' \subseteq Req
                           /\ \A x \in reqs' : x.kind \notin {"cancel", "force"}
                                                  => x.runner \in Runners
           /\ \A pc \in {"load", "claim", "lock", "write", "revoke", "release"} :
                Advance(q, pc) =>
                    /\ reqs' \subseteq Req
                    /\ \A x \in reqs' : x.kind \notin {"cancel", "force"}
                                           => x.runner \in Runners
BY DEF TypeOK, Answer, Advance, Req

-----------------------------------------------------------------------------
(* The types of every variable are kept by every step, whatever the handlers *)
(* in progress and however their statements interleave.                    *)

LEMMA InitTypes == Init => TypeOK
<1> SUFFICES ASSUME Init PROVE TypeOK
  OBVIOUS
<1>1. EmptyRow \in Row
  BY DEF EmptyRow, PlainKind, Kind, Operations, Row, Statuses, RunnerOrNone
<1>2. Idle \in Launcher /\ Idle.pc = "poll"
  BY DEF Idle, Launcher, Phases
<1> QED
  BY <1>1, <1>2 DEF Init, TypeOK, Losses

(* The elements of a well-typed state.                                     *)
LEMMA Elements ==
    ASSUME TypeOK
    PROVE  /\ \A r \in Runs : run[r] \in Row
           /\ \A q \in reqs : /\ q \in Req /\ q.run \in Runs /\ q.snap \in Row
                              /\ q.runner \in RunnerOrNone /\ q.phase \in Phases
                              /\ q.attempt \in Nat
           /\ \A q \in reqs : q.kind \notin {"cancel", "force"} =>
                               q.runner \in Runners
           /\ \A e \in execs : /\ e \in Exec /\ e.run \in Runs
                               /\ e.runner \in Runners /\ e.phase \in Phases
                               /\ e.attempt \in Nat /\ e.job \in BOOLEAN
                               /\ e.outcome \in Outcomes
           /\ \A n \in Runners : launcher[n] \in Launcher
BY DEF TypeOK, Req, Exec

(* The actions of users and task stages.                                   *)
LEMMA UserTypes ==
    ASSUME TypeOK, NEW r \in Runs, UserStep(r) \/ StageStep(r)
    PROVE  TypeOK'
<1>0. /\ \A x \in Runs : run[x] \in Row
      /\ \A s \in Statuses, x \in Runs :
            /\ [run[x] EXCEPT !.status = s] \in Row
            /\ [run[x] EXCEPT !.status = s, !.claimed = FALSE] \in Row
            /\ [Unclaimed(run[x]) EXCEPT !.status = s] \in Row
            /\ [Unclaimed(run[x]) EXCEPT !.status = s, !.lost = FALSE] \in Row
  BY Elements, RowTypes, RowEdits DEF RunnerOrNone
<1>a. \A kind, pc : UserReq(kind, pc, r).kind = kind
  BY DEF UserReq, Request
<1>b. /\ UserReq("cancel", "release", r) \in Req
      /\ UserReq("force", "write", r) \in Req
  BY Elements DEF UserReq, Request, Req, RunnerOrNone, Phases, Outcomes
<1>1. CASE Create(r)
  <2>1. \A kind \in Kinds :
          [EmptyRow EXCEPT !.status = "pending", !.kind = kind] \in Row
    BY DEF EmptyRow, PlainKind, Kind, Operations, Row, Statuses, RunnerOrNone
  <2>2. \A x \in Runs : [run[x] EXCEPT !.status = "cancelled"] \in Row
    BY <1>0 DEF Statuses
  <2>3. run' \in [Runs -> Row]
    BY <1>1, <1>0, <2>1, <2>2 DEF Create
  <2> QED
    BY <1>1, <2>3 DEF Create, TypeOK
<1>2. CASE Apply(r)
  <2>1. run' \in [Runs -> Row]
    BY <1>2, <1>0, SetType DEF Apply, Statuses
  <2> QED
    BY <1>2, <2>1 DEF Apply, TypeOK
<1>3. ASSUME NEW from, CancelFrom(r, from) PROVE TypeOK'
  <2>1. run' \in [Runs -> Row]
    BY <1>3, <1>0, SetType DEF CancelFrom, Statuses
  <2>2. /\ reqs' \subseteq Req
        /\ \A x \in reqs' : x.kind \notin {"cancel", "force"} =>
                              x.runner \in Runners
    BY <1>3, <1>a, <1>b DEF CancelFrom, TypeOK
  <2> QED
    BY <1>3, <2>1, <2>2 DEF CancelFrom, TypeOK
<1>4. CASE Discard(r)
  <2>1. run' \in [Runs -> Row]
    BY <1>4, <1>0, SetType DEF Discard, Statuses
  <2> QED
    BY <1>4, <2>1 DEF Discard, TypeOK
<1>5. CASE ForceExecute(r)
  <2>1. /\ reqs' \subseteq Req
        /\ \A x \in reqs' : x.kind \notin {"cancel", "force"} =>
                              x.runner \in Runners
    BY <1>5, <1>a, <1>b DEF ForceExecute, TypeOK
  <2> QED
    BY <1>5, <2>1 DEF ForceExecute, TypeOK
<1>6. CASE BeginPrePlan(r)
  <2>1. run' \in [Runs -> Row]
    BY <1>6, <1>0, SetType DEF BeginPrePlan, Statuses
  <2> QED
    BY <1>6, <2>1 DEF BeginPrePlan, TypeOK
<1>7. CASE ContinueRun(r)
  <2>1. run' \in [Runs -> Row]
    BY <1>7, <1>0, SetType DEF ContinueRun, Statuses
  <2> QED
    BY <1>7, <2>1 DEF ContinueRun, TypeOK
<1> QED
  BY <1>1, <1>2, <1>3, <1>4, <1>5, <1>6, <1>7
     DEF UserStep, StageStep, Cancel, ForceCancel

(* The conjuncts of TypeOK about handlers and about launchers.             *)
ReqsTyped ==
    /\ reqs \subseteq Req
    /\ \A q \in reqs : q.kind \notin {"cancel", "force"} => q.runner \in Runners
LaunchersTyped ==
    /\ launcher \in [Runners -> Launcher]
    /\ \A n \in Runners : launcher[n].pc \in {"start", "token", "mint"} =>
          launcher[n].run \in Runs

(* A request of a launcher or an executor, once served, keeps them typed.  *)
LEMMA AdmitTypes ==
    ASSUME TypeOK, NEW kind \in {"start", "token", "plan", "complete"},
           NEW pc \in {"load", "claim", "lock", "write", "revoke", "release"},
           NEW e, e.run \in Runs, e.runner \in Runners, e.attempt \in Nat,
           e.phase \in Phases, e.job \in BOOLEAN,
           NEW o \in Outcomes, NEW snap \in Row,
           reqs' = reqs \cup {Request(kind, pc, e, o, snap)}
    PROVE  ReqsTyped'
<1>1. e.runner \in RunnerOrNone
  BY DEF RunnerOrNone
<1>2. /\ Request(kind, pc, e, o, snap) \in Req
      /\ Request(kind, pc, e, o, snap).runner = e.runner
  BY <1>1, RequestType
<1> QED
  BY <1>2 DEF TypeOK, ReqsTyped

(* A launcher goes idle, or places a run.                                  *)
LEMMA LauncherEdits ==
    ASSUME TypeOK, NEW n \in Runners
    PROVE  /\ Forget(n) => LaunchersTyped'
           /\ \A r \in Runs, ph \in Phases, pc \in {"start", "token", "mint"} :
                launcher' = [launcher EXCEPT ![n] =
                               [pc |-> pc, run |-> r, phase |-> ph]]
                   => LaunchersTyped'
           /\ \A pc \in {"token", "mint"} :
                (/\ launcher[n].pc \in {"start", "token", "mint"}
                 /\ launcher' = [launcher EXCEPT ![n].pc = pc])
                   => LaunchersTyped'
           /\ launcher' = [launcher EXCEPT ![n] = [Idle EXCEPT !.pc = "down"]]
                   => LaunchersTyped'
<1>0. /\ launcher \in [Runners -> Launcher]
      /\ \A m \in Runners : launcher[m].pc \in {"start", "token", "mint"} =>
            launcher[m].run \in Runs
  BY DEF TypeOK
<1>1. Idle \in Launcher /\ Idle.pc = "poll"
  BY DEF Idle, Launcher, Phases
<1>2. Forget(n) => LaunchersTyped'
  BY <1>0, <1>1 DEF Forget, LaunchersTyped
<1>3. ASSUME NEW r \in Runs, NEW ph \in Phases,
             NEW pc \in {"start", "token", "mint"},
             launcher' = [launcher EXCEPT ![n] =
                            [pc |-> pc, run |-> r, phase |-> ph]]
      PROVE  LaunchersTyped'
  <2>1. [pc |-> pc, run |-> r, phase |-> ph] \in Launcher
    BY DEF Launcher
  <2> QED
    BY <1>0, <1>3, <2>1 DEF LaunchersTyped
<1>4. ASSUME NEW pc \in {"token", "mint"},
             launcher[n].pc \in {"start", "token", "mint"},
             launcher' = [launcher EXCEPT ![n].pc = pc]
      PROVE  LaunchersTyped'
  <2>1. [launcher[n] EXCEPT !.pc = pc] \in Launcher
    BY <1>0 DEF Launcher
  <2>2. launcher' = [launcher EXCEPT ![n] = [launcher[n] EXCEPT !.pc = pc]]
    BY <1>4
  <2>3. launcher[n].run \in Runs
    BY <1>0, <1>4
  <2>4. [launcher[n] EXCEPT !.pc = pc].run = launcher[n].run
    BY <1>0 DEF Launcher
  <2> QED
    BY <1>0, <2>1, <2>2, <2>3, <2>4 DEF LaunchersTyped
<1>5. launcher' = [launcher EXCEPT ![n] = [Idle EXCEPT !.pc = "down"]]
         => LaunchersTyped'
  <2>1. /\ [Idle EXCEPT !.pc = "down"] \in Launcher
        /\ [Idle EXCEPT !.pc = "down"].pc = "down"
    BY DEF Idle, Launcher, Phases
  <2> QED
    BY <1>0, <2>1 DEF LaunchersTyped
<1>6. \A r \in Runs, ph \in Phases, pc \in {"start", "token", "mint"} :
         launcher' = [launcher EXCEPT ![n] = [pc |-> pc, run |-> r, phase |-> ph]]
            => LaunchersTyped'
  BY <1>3
<1>7. \A pc \in {"token", "mint"} :
         (/\ launcher[n].pc \in {"start", "token", "mint"}
          /\ launcher' = [launcher EXCEPT ![n].pc = pc])
            => LaunchersTyped'
  BY <1>4
<1> QED
  BY <1>2, <1>5, <1>6, <1>7

LEMMA SkipTypes ==
    ASSUME TypeOK, NEW q, q.runner \in Runners, NEW pc, SkipJob(q, pc)
    PROVE  LaunchersTyped'
<1>1. CASE launcher' = launcher
  BY <1>1 DEF TypeOK, LaunchersTyped
<1>2. CASE Forget(q.runner)
  BY <1>2, LauncherEdits
<1> QED
  BY <1>1, <1>2 DEF SkipJob, Forget

LEMMA LoseTypes == TypeOK /\ Lose => losses' \in Losses
<1> SUFFICES ASSUME TypeOK, Lose PROVE losses' \in Losses
  OBVIOUS
<1>1. \A k \in Nat : [losses EXCEPT !.lost = k] \in Losses
  BY DEF TypeOK, Losses
<1>2. losses.lost + 1 \in Nat
  BY DEF TypeOK, Losses
<1> QED
  BY <1>1, <1>2 DEF Lose

(* Locks of users.                                                         *)
LEMMA WorkspaceTypes ==
    ASSUME TypeOK, NEW w \in Workspaces, LockWorkspace(w) \/ UnlockWorkspace(w)
    PROVE  TypeOK'
BY DEF TypeOK, LockWorkspace, UnlockWorkspace

(* The actions of launchers, and the faults.                               *)
LEMMA HeartbeatTypes ==
    ASSUME TypeOK, NEW n \in Runners, Heartbeat(n)
    PROVE  TypeOK'
<1>1. PICK new \in SUBSET Runs, answered \in BOOLEAN :
         /\ run' = [r \in Runs |-> IF r \in new THEN [run[r] EXCEPT !.runner = n]
                                                ELSE run[r]]
         /\ IF answered
              THEN /\ offers' = [offers EXCEPT ![n] =
                                   {[run |-> r, phase |-> PhaseOf(run[r])]
                                      : r \in Held(n) \cup new}]
                   /\ UNCHANGED losses
              ELSE Lose /\ UNCHANGED offers
  BY DEF Heartbeat
<1>2. run' \in [Runs -> Row]
  <2>1. \A r \in Runs : [run[r] EXCEPT !.runner = n] \in Row /\ run[r] \in Row
    BY Elements, RowEdits DEF RunnerOrNone, Statuses
  <2> QED
    BY <1>1, <2>1
<1>3. offers' \in [Runners -> SUBSET Offer]
  <2>1. \A r \in Runs : [run |-> r, phase |-> PhaseOf(run[r])] \in Offer
    BY DEF Offer, PhaseOf, Phases
  <2>2. {[run |-> r, phase |-> PhaseOf(run[r])] : r \in Held(n) \cup new}
          \in SUBSET Offer
    BY <2>1 DEF Held
  <2> QED
    BY <1>1, <2>2 DEF TypeOK
<1>4. losses' \in Losses
  BY <1>1, LoseTypes DEF TypeOK
<1>5. online' \in [Runners -> BOOLEAN]
  BY DEF Heartbeat, TypeOK
<1> QED
  BY <1>2, <1>3, <1>4, <1>5 DEF Heartbeat, TypeOK

LEMMA JobStartTypes ==
    ASSUME TypeOK, NEW n \in Runners, JobStart(n)
    PROVE  TypeOK'
<1>1. PICK o \in offers[n] :
        LET q == LauncherReq("start", "claim", n, o, FALSE, 0) IN
         /\ offers' = [offers EXCEPT ![n] = @ \ {o}]
         /\ IF Authorized(run[o.run], q, FALSE, FALSE)
              THEN /\ reqs' = reqs \cup {q}
                   /\ launcher' = [launcher EXCEPT ![n] =
                        [pc |-> "start", run |-> o.run, phase |-> o.phase]]
              ELSE UNCHANGED <<reqs, launcher>>
  BY DEF JobStart
<1>2. o.run \in Runs /\ o.phase \in Phases
  BY DEF TypeOK, Offer
<1>3. offers' \in [Runners -> SUBSET Offer]
  BY <1>1 DEF TypeOK
<1>4. ReqsTyped' /\ LaunchersTyped'
  <2>1. CASE UNCHANGED <<reqs, launcher>>
    BY <2>1 DEF TypeOK, ReqsTyped, LaunchersTyped
  <2>2. ASSUME reqs' = reqs \cup {LauncherReq("start", "claim", n, o, FALSE, 0)},
               launcher' = [launcher EXCEPT ![n] =
                              [pc |-> "start", run |-> o.run, phase |-> o.phase]]
        PROVE  ReqsTyped' /\ LaunchersTyped'
    <3>1. LaunchersTyped'
      BY <1>2, <2>2, LauncherEdits
    <3>2. run[o.run] \in Row
      BY <1>2, Elements
    <3>3. "failed" \in Outcomes
      BY DEF Outcomes
    <3> DEFINE e == [run |-> o.run, runner |-> n, attempt |-> 0,
                     phase |-> o.phase, job |-> FALSE]
    <3>4. /\ e.run \in Runs /\ e.runner \in Runners /\ e.attempt \in Nat
          /\ e.phase \in Phases /\ e.job \in BOOLEAN
      BY <1>2
    <3>5. reqs' = reqs \cup {Request("start", "claim", e, "failed", run[o.run])}
      BY <2>2 DEF LauncherReq
    <3> HIDE DEF e
    <3>6. ReqsTyped'
      BY <3>2, <3>3, <3>4, <3>5, AdmitTypes
    <3> QED
      BY <3>1, <3>6
  <2> QED
    BY <1>1, <2>1, <2>2
<1> QED
  BY <1>3, <1>4 DEF JobStart, TypeOK, ReqsTyped, LaunchersTyped

LEMMA JobTokenTypes ==
    ASSUME TypeOK, NEW n \in Runners, JobToken(n)
    PROVE  TypeOK'
<1> DEFINE r == launcher[n].run
           e == [run |-> r, runner |-> n, attempt |-> run[r].attempt,
                 phase |-> launcher[n].phase, job |-> FALSE]
<1>1. /\ r \in Runs /\ run[r] \in Row /\ launcher[n].phase \in Phases
      /\ run[r].attempt \in Nat
  BY Elements DEF JobToken, TypeOK, Launcher, Row
<1>2. ReqsTyped' /\ LaunchersTyped'
  <2>1. CASE Forget(n) /\ UNCHANGED reqs
    <3>1. LaunchersTyped'
      BY <2>1, LauncherEdits
    <3> QED
      BY <2>1, <3>1 DEF TypeOK, ReqsTyped
  <2>2. ASSUME reqs' = reqs \cup {Request("token", "write", e, "failed", run[r])},
               launcher' = [launcher EXCEPT ![n].pc = "mint"]
        PROVE  ReqsTyped' /\ LaunchersTyped'
    <3>1. /\ e.run \in Runs /\ e.runner \in Runners /\ e.attempt \in Nat
          /\ e.phase \in Phases /\ e.job \in BOOLEAN
      BY <1>1
    <3>2. LaunchersTyped'
      BY <2>2, LauncherEdits DEF JobToken
    <3>3. "failed" \in Outcomes
      BY DEF Outcomes
    <3> HIDE DEF e
    <3>4. ReqsTyped'
      BY <1>1, <2>2, <3>1, <3>3, AdmitTypes
    <3> QED
      BY <3>2, <3>4
  <2> QED
    BY <2>1, <2>2 DEF JobToken, LauncherReq
<1> QED
  BY <1>2 DEF JobToken, TypeOK, ReqsTyped, LaunchersTyped

LEMMA FaultTypes ==
    ASSUME TypeOK, NEW n \in Runners, FaultStep(n) \/ Register(n)
    PROVE  TypeOK'
<1>1. CASE LauncherGivesUp(n)
  <2>1. LaunchersTyped'
    BY <1>1, LauncherEdits DEF LauncherGivesUp
  <2>2. losses' \in Losses
    <3>1. \A k \in Nat : [losses EXCEPT !.dropped = k] \in Losses
      BY DEF TypeOK, Losses
    <3>2. losses.dropped + 1 \in Nat
      BY DEF TypeOK, Losses
    <3> QED
      BY <1>1, <3>1, <3>2 DEF LauncherGivesUp
  <2>3. offers' \in [Runners -> SUBSET Offer]
    BY <1>1 DEF LauncherGivesUp, TypeOK
  <2> QED
    BY <1>1, <2>1, <2>2, <2>3 DEF LauncherGivesUp, TypeOK, LaunchersTyped
<1>2. CASE Crash(n)
  <2>1. LaunchersTyped'
    BY <1>2, LauncherEdits DEF Crash
  <2>2. losses' \in Losses
    BY <1>2, LoseTypes DEF Crash
  <2>3. /\ offers' \in [Runners -> SUBSET Offer]
        /\ execs' \subseteq Exec
    BY <1>2 DEF Crash, TypeOK
  <2> QED
    BY <1>2, <2>1, <2>2, <2>3 DEF Crash, TypeOK, LaunchersTyped
<1>3. CASE MarkOffline(n)
  <2>1. losses' \in Losses
    BY <1>3, LoseTypes DEF MarkOffline, TypeOK
  <2>2. /\ online' \in [Runners -> BOOLEAN]
        /\ monitor' \in [pc: {"idle", "release", "settle", "unlock"},
                         lost: SUBSET Runs, revoke: SUBSET Runs]
    BY <1>3 DEF MarkOffline, TypeOK
  <2> QED
    BY <1>3, <2>1, <2>2 DEF MarkOffline, TypeOK
<1>4. CASE Register(n)
  <2>1. LaunchersTyped'
    BY <1>4, LauncherEdits DEF Register
  <2>2. online' \in [Runners -> BOOLEAN]
    BY <1>4 DEF Register, TypeOK
  <2> QED
    BY <1>4, <2>1, <2>2 DEF Register, TypeOK, LaunchersTyped
<1> QED
  BY <1>1, <1>2, <1>3, <1>4 DEF FaultStep

(* An executor placed by a start or a token request.                       *)
LEMMA NewExecType ==
    ASSUME TypeOK, NEW q \in reqs, q.runner \in Runners, NEW job \in BOOLEAN
    PROVE  NewExec(q, job) \in Exec
<1>1. /\ q.run \in Runs /\ q.attempt \in Nat /\ q.phase \in Phases
      /\ run[q.run].attempt \in Nat
  BY Elements DEF Row
<1> QED
  BY <1>1 DEF NewExec, Exec, Outcomes

(* The steps of a start.                                                   *)
LEMMA StartTypes ==
    ASSUME TypeOK, NEW q \in reqs, StartStep(q)
    PROVE  TypeOK'
<1>0. /\ q.kind = "start" /\ q.run \in Runs /\ q.runner \in Runners
      /\ run[q.run] \in Row /\ q.runner \in RunnerOrNone
  BY Elements DEF StartStep, StartClaim, StartLock, StartWrite, StartRevoke
<1>1. CASE StartClaim(q)
  <2>1. run' \in [Runs -> Row]
    BY <1>0, <1>1, RowTypes, SetType DEF StartClaim, TypeOK
  <2>2. ReqsTyped'
    BY <1>1, ReqsTypes DEF StartClaim, ReqsTyped
  <2>3. LaunchersTyped'
    BY <1>0, <1>1, SkipTypes DEF StartClaim, LaunchersTyped, TypeOK
  <2> QED
    BY <1>1, <2>1, <2>2, <2>3 DEF StartClaim, TypeOK, ReqsTyped, LaunchersTyped
<1>2. CASE StartLock(q)
  <2>1. run' \in [Runs -> Row]
    BY <1>0, <1>2, RowTypes, SetType DEF StartLock, TypeOK
  <2>2. ReqsTyped'
    BY <1>2, ReqsTypes DEF StartLock, ReqsTyped
  <2>3. LaunchersTyped'
    BY <1>0, <1>2, SkipTypes DEF StartLock, LaunchersTyped, TypeOK
  <2>4. lock' \in [Workspaces -> Runs \cup {NoRun}]
    BY <1>0, <1>2 DEF StartLock, TypeOK
  <2> QED
    BY <1>2, <2>1, <2>2, <2>3, <2>4
       DEF StartLock, TypeOK, ReqsTyped, LaunchersTyped
<1>3. CASE StartWrite(q)
  <2> DEFINE s == IF q.snap.status \in Startable \ {"applying"}
                    THEN "planning" ELSE run[q.run].status
  <2>1. s \in Statuses
    BY <1>0 DEF Row, Statuses
  <2>2. [run[q.run] EXCEPT !.runner = q.runner, !.status = s] \in Row
    BY <1>0, <2>1, RowEdits
  <2>3. run' \in [Runs -> Row]
    BY <1>0, <1>3, <2>2, SetType DEF StartWrite, Started
  <2>4. ReqsTyped'
    BY <1>3, ReqsTypes DEF StartWrite, Started, ReqsTyped
  <2> QED
    BY <1>3, <2>3, <2>4 DEF StartWrite, Started, TypeOK, ReqsTyped
<1>4. CASE StartRevoke(q)
  <2>1. ReqsTyped'
    BY <1>4, ReqsTypes DEF StartRevoke, ReqsTyped
  <2>2. tokens' \subseteq Token
    BY <1>0, <1>4, ReleaseType DEF StartRevoke
  <2>3. execs' \subseteq Exec
    <3>1. execs \subseteq Exec /\ NewExec(q, FALSE) \in Exec
      BY <1>0, NewExecType DEF TypeOK
    <3> QED
      BY <1>4, <3>1 DEF StartRevoke
  <2>4. LaunchersTyped'
    <3>1. CASE UNCHANGED launcher
      BY <3>1 DEF TypeOK, LaunchersTyped
    <3>2. CASE Forget(q.runner)
      BY <1>0, <3>2, LauncherEdits
    <3>3. ASSUME IsWaiting(q, "start"),
                 launcher' = [launcher EXCEPT ![q.runner].pc = "token"]
          PROVE  LaunchersTyped'
      <4>1. launcher[q.runner].pc \in {"start", "token", "mint"}
        BY <3>3 DEF IsWaiting
      <4> QED
        BY <1>0, <3>3, <4>1, LauncherEdits
    <3>4. \/ UNCHANGED launcher
          \/ Forget(q.runner)
          \/ /\ IsWaiting(q, "start")
             /\ launcher' = [launcher EXCEPT ![q.runner].pc = "token"]
      BY <1>4 DEF StartRevoke
    <3> QED
      BY <3>1, <3>2, <3>3, <3>4
  <2> QED
    BY <1>4, <2>1, <2>2, <2>3, <2>4
       DEF StartRevoke, TypeOK, ReqsTyped, LaunchersTyped
<1> QED
  BY <1>1, <1>2, <1>3, <1>4 DEF StartStep

(* The ends of the token and plan requests, a cancellation's release and a  *)
(* forced execution's write.                                               *)
LEMMA MintTypes ==
    ASSUME TypeOK, NEW q \in reqs, TokenMint(q)
    PROVE  TypeOK'
<1>0. /\ q.run \in Runs /\ q.runner \in Runners /\ q.attempt \in Nat
  BY Elements DEF TokenMint
<1>1. ReqsTyped'
  BY ReqsTypes DEF TokenMint, ReqsTyped
<1>2. tokens' \subseteq Token
  BY <1>0 DEF TokenMint, TypeOK, Token
<1>3. execs' \subseteq Exec
  <2>1. execs \subseteq Exec /\ NewExec(q, TRUE) \in Exec
    BY <1>0, NewExecType DEF TypeOK
  <2> QED
    BY <2>1 DEF TokenMint
<1>4. LaunchersTyped'
  <2>1. CASE UNCHANGED launcher
    BY <2>1 DEF TypeOK, LaunchersTyped
  <2>2. CASE Forget(q.runner)
    BY <1>0, <2>2, LauncherEdits
  <2> QED
    BY <2>1, <2>2 DEF TokenMint
<1> QED
  BY <1>1, <1>2, <1>3, <1>4 DEF TokenMint, TypeOK, ReqsTyped, LaunchersTyped

LEMMA PutTypes ==
    ASSUME TypeOK, NEW q \in reqs,
           UploadPut(q) \/ CancelRelease(q) \/ ForceClear(q)
    PROVE  TypeOK'
<1>0. /\ q.run \in Runs /\ q.attempt \in Nat /\ run[q.run] \in Row
  BY Elements
<1>1. CASE UploadPut(q)
  <2>1. ReqsTyped'
    BY <1>1, ReqsTypes DEF UploadPut, ReqsTyped
  <2>2. plan' \in [Runs -> Nat]
    BY <1>0, <1>1 DEF UploadPut, PutPlan, TypeOK
  <2>3. \A e \in Exec : [e EXCEPT !.pc = "report", !.outcome = "completed"]
                         \in Exec
    BY DEF Exec, Outcomes
  <2>4. execs' \subseteq Exec
    <3>1. execs \subseteq Exec
      BY DEF TypeOK
    <3>2. \A e \in execs :
            (IF IsOf(e, q) /\ e.pc = "uploading"
               THEN [e EXCEPT !.pc = "report", !.outcome = "completed"]
               ELSE e) \in Exec
      BY <2>3, <3>1
    <3> QED
      BY <1>1, <3>2 DEF UploadPut
  <2> QED
    BY <1>1, <2>1, <2>2, <2>4 DEF UploadPut, TypeOK, ReqsTyped
<1>2. CASE CancelRelease(q)
  <2>1. ReqsTyped'
    BY <1>2, ReqsTypes DEF CancelRelease, ReqsTyped
  <2>2. lock' \in [Workspaces -> Runs \cup {NoRun}]
    BY <1>0, <1>2, ReleaseType DEF CancelRelease
  <2> QED
    BY <1>2, <2>1, <2>2 DEF CancelRelease, TypeOK, ReqsTyped
<1>3. CASE ForceClear(q)
  <2>1. ReqsTyped'
    BY <1>3, ReqsTypes DEF ForceClear, ReqsTyped
  <2>2. run' \in [Runs -> Row]
    BY <1>0, <1>3, RowTypes, SetType DEF ForceClear
  <2> QED
    BY <1>3, <2>1, <2>2 DEF ForceClear, TypeOK, ReqsTyped
<1> QED
  BY <1>1, <1>2, <1>3

(* The steps of an executor.                                               *)
LEMMA ExecTypes ==
    ASSUME TypeOK, NEW e \in execs, ExecStep(e)
    PROVE  TypeOK'
<1>0. /\ e \in Exec /\ e.run \in Runs /\ e.runner \in Runners
      /\ e.phase \in Phases /\ e.attempt \in Nat /\ e.job \in BOOLEAN
      /\ e.outcome \in Outcomes /\ run[e.run] \in Row /\ plan[e.run] \in Nat
      /\ execs \subseteq Exec
  BY Elements DEF TypeOK
<1>1. CASE ExecFetch(e)
  <2>1. \A k \in Nat : [e EXCEPT !.pc = "engine", !.plan = k] \in Exec
    BY <1>0 DEF Exec
  <2>2. [e EXCEPT !.pc = "report", !.outcome = "failed"] \in Exec
    BY <1>0 DEF Exec, Outcomes
  <2>3. execs' \subseteq Exec
    BY <1>0, <1>1, <2>1, <2>2 DEF ExecFetch, Become
  <2> QED
    BY <1>1, <2>3 DEF ExecFetch, TypeOK
<1>2. ASSUME NEW outcome \in Outcomes, ExecEngine(e, outcome) PROVE TypeOK'
  <2>1. /\ [e EXCEPT !.pc = "upload"] \in Exec
        /\ [e EXCEPT !.pc = "report", !.outcome = outcome] \in Exec
    BY <1>0 DEF Exec
  <2>2. execs' \subseteq Exec
    BY <1>0, <1>2, <2>1 DEF ExecEngine, Become
  <2>3. [run |-> e.run, plan |-> e.plan] \in [run: Runs, plan: Nat]
    BY <1>0 DEF Exec
  <2>4. enacted' \subseteq [run: Runs, plan: Nat]
    BY <1>2, <2>3 DEF ExecEngine, TypeOK
  <2> QED
    BY <1>2, <2>2, <2>4 DEF ExecEngine, TypeOK
<1>3. CASE UploadPlan(e)
  <2>1. /\ [e EXCEPT !.pc = "uploading"] \in Exec
        /\ [e EXCEPT !.pc = "report", !.outcome = "failed"] \in Exec
    BY <1>0 DEF Exec, Outcomes
  <2>2. execs' \subseteq Exec
    BY <1>0, <1>3, <2>1 DEF UploadPlan, Become
  <2>3. ReqsTyped'
    <3>1. CASE UNCHANGED reqs
      BY <3>1 DEF TypeOK, ReqsTyped
    <3>2. CASE reqs' = reqs \cup {Request("plan", "write", e, "completed",
                                         run[e.run])}
      BY <1>0, <3>2, AdmitTypes DEF Outcomes
    <3> QED
      BY <1>3, <3>1, <3>2 DEF UploadPlan
  <2> QED
    BY <1>3, <2>2, <2>3 DEF UploadPlan, TypeOK, ReqsTyped
<1>4. CASE ExecReport(e)
  <2>1. [e EXCEPT !.pc = "sent"] \in Exec
    BY <1>0 DEF Exec
  <2>2. execs' \subseteq Exec
    BY <1>0, <1>4, <2>1 DEF ExecReport, Become
  <2>3. ReqsTyped'
    <3>1. CASE UNCHANGED reqs
      BY <3>1 DEF TypeOK, ReqsTyped
    <3>2. CASE reqs' = reqs \cup {Request("complete", "load", e, e.outcome,
                                         run[e.run])}
      BY <1>0, <3>2, AdmitTypes
    <3> QED
      BY <1>4, <3>1, <3>2 DEF ExecReport
  <2>4. losses' \in Losses
    BY <1>4, LoseTypes DEF ExecReport, TypeOK
  <2> QED
    BY <1>4, <2>2, <2>3, <2>4 DEF ExecReport, TypeOK, ReqsTyped
<1> QED
  BY <1>1, <1>2, <1>3, <1>4 DEF ExecStep

(* The row a report writes.                                                *)
LEMMA SavedType ==
    ASSUME TypeOK, NEW q \in reqs
    PROVE  Saved(q) \in Row /\ AfterApply(q.run) \in Row
<1>0. q.snap \in Row /\ run[q.run] \in Row
  BY Elements
<1>1. /\ AfterPlan(q.snap) \in Row
      /\ [q.snap EXCEPT !.status = "failed", !.lost = FALSE] \in Row
      /\ [q.snap EXCEPT !.status = "cancelled"] \in Row
  BY <1>0, RowTypes, RowEdits DEF Statuses, RunnerOrNone
<1>2. Saved(q) \in Row
  BY <1>0, <1>1 DEF Saved
<1>3. /\ [run[q.run] EXCEPT !.status = "post_apply_running"] \in Row
      /\ [run[q.run] EXCEPT !.status = "applied"] \in Row
  BY <1>0 DEF Row, Statuses
<1>4. AfterApply(q.run) \in Row
  BY <1>0, <1>3 DEF AfterApply
<1> QED
  BY <1>2, <1>4

(* The steps of a completion.                                              *)
LEMMA CompleteTypes ==
    ASSUME TypeOK, NEW q \in reqs, CompleteStep(q)
    PROVE  TypeOK'
<1>0. /\ q.kind = "complete" /\ q.run \in Runs /\ q.attempt \in Nat
      /\ q \in Req /\ q.runner \in Runners /\ run[q.run] \in Row
  BY Elements DEF CompleteStep, CompleteLoad, CompleteWrite, CompleteRevoke,
                  CompleteRelease
<1>1. CASE CompleteLoad(q)
  <2>1. [q EXCEPT !.pc = "write", !.snap = run[q.run]] \in Req
    BY <1>0 DEF Req
  <2>2. [q EXCEPT !.pc = "write", !.snap = run[q.run]].runner \in Runners
    BY <1>0 DEF Req
  <2>3. ReqsTyped'
    <3>1. CASE Answer(q)
      BY <3>1, ReqsTypes DEF ReqsTyped
    <3>2. CASE reqs' = (reqs \ {q}) \cup
                         {[q EXCEPT !.pc = "write", !.snap = run[q.run]]}
      BY <2>1, <2>2, <3>2 DEF TypeOK, ReqsTyped
    <3> QED
      BY <1>1, <3>1, <3>2 DEF CompleteLoad
  <2>4. execs' \subseteq Exec
    BY <1>1 DEF CompleteLoad, Ended, TypeOK
  <2> QED
    BY <1>1, <2>3, <2>4 DEF CompleteLoad, TypeOK, ReqsTyped
<1>2. CASE CompleteWrite(q)
  <2>1. run' \in [Runs -> Row]
    BY <1>0, <1>2, SavedType, SetType DEF CompleteWrite
  <2>2. ReqsTyped'
    BY <1>2, ReqsTypes DEF CompleteWrite, ReqsTyped
  <2>3. reviewed' \in [Runs -> Nat]
    BY <1>0, <1>2 DEF CompleteWrite, TypeOK
  <2> QED
    BY <1>2, <2>1, <2>2, <2>3 DEF CompleteWrite, TypeOK, ReqsTyped
<1>3. CASE CompleteRevoke(q)
  <2>1. ReqsTyped' /\ tokens' \subseteq Token
    BY <1>0, <1>3, ReqsTypes, ReleaseType DEF CompleteRevoke, ReqsTyped
  <2> QED
    BY <1>3, <2>1 DEF CompleteRevoke, TypeOK, ReqsTyped
<1>4. CASE CompleteRelease(q)
  <2>1. ReqsTyped' /\ lock' \in [Workspaces -> Runs \cup {NoRun}]
    BY <1>0, <1>4, ReqsTypes, ReleaseType DEF CompleteRelease, ReqsTyped
  <2>2. execs' \subseteq Exec
    BY <1>4 DEF CompleteRelease, Ended, TypeOK
  <2> QED
    BY <1>4, <2>1, <2>2 DEF CompleteRelease, TypeOK, ReqsTyped
<1> QED
  BY <1>1, <1>2, <1>3, <1>4 DEF CompleteStep

(* The monitor.                                                            *)
LEMMA MonitorTypes ==
    ASSUME TypeOK, MonitorStep
    PROVE  TypeOK'
<1> DEFINE Monitor == [pc: {"idle", "release", "settle", "unlock"},
                       lost: SUBSET Runs, revoke: SUBSET Runs]
<1>0. /\ monitor \in Monitor
      /\ \A r \in Runs : run[r] \in Row
  BY DEF TypeOK
<1>1. CASE MonitorTick
  <2>1. monitor' \in Monitor
    BY <1>0, <1>1 DEF MonitorTick
  <2> QED
    BY <1>1, <2>1 DEF MonitorTick, TypeOK
<1>2. CASE ReleaseReservations
  <2>1. monitor' \in Monitor
    BY <1>0, <1>2 DEF ReleaseReservations
  <2>2. \A r \in Runs : [run[r] EXCEPT !.runner = NoRunner] \in Row
    BY <1>0, RowEdits DEF RunnerOrNone, Statuses
  <2>3. run' \in [Runs -> Row]
    BY <1>0, <1>2, <2>2 DEF ReleaseReservations
  <2> QED
    BY <1>2, <2>1, <2>3 DEF ReleaseReservations, TypeOK
<1>3. CASE SettleLostWork
  <2>1. monitor' \in Monitor
    BY <1>0, <1>3 DEF SettleLostWork, LostRuns
  <2>2. \A r \in Runs :
           /\ [Unclaimed(run[r]) EXCEPT !.status = "pending"] \in Row
           /\ [run[r] EXCEPT !.status = "failed", !.lost = TRUE] \in Row
    BY <1>0, RowTypes, RowEdits DEF RunnerOrNone, Statuses
  <2>3. run' \in [Runs -> Row]
    BY <1>0, <1>3, <2>2 DEF SettleLostWork
  <2> QED
    BY <1>3, <2>1, <2>3 DEF SettleLostWork, TypeOK
<1>4. ASSUME NEW r \in Runs, UnlockLost(r) PROVE TypeOK'
  <2>1. monitor' \in Monitor
    BY <1>0, <1>4 DEF UnlockLost
  <2>2. lock' \in [Workspaces -> Runs \cup {NoRun}]
    BY <1>4, ReleaseType DEF UnlockLost
  <2> QED
    BY <1>4, <2>1, <2>2 DEF UnlockLost, TypeOK
<1>5. ASSUME NEW r \in Runs, RevokeLost(r) PROVE TypeOK'
  <2>1. monitor' \in Monitor
    BY <1>0, <1>5 DEF RevokeLost
  <2>2. tokens' \subseteq Token
    BY <1>5, ReleaseType DEF RevokeLost
  <2> QED
    BY <1>5, <2>1, <2>2 DEF RevokeLost, TypeOK
<1> QED
  BY <1>1, <1>2, <1>3, <1>4, <1>5 DEF MonitorStep

LEMMA NextTypes == TypeOK /\ [Next]_vars => TypeOK'
<1> SUFFICES ASSUME TypeOK, [Next]_vars PROVE TypeOK'
  OBVIOUS
<1>1. ASSUME NEW r \in Runs, UserStep(r) \/ StageStep(r) PROVE TypeOK'
  BY <1>1, UserTypes
<1>2. ASSUME NEW w \in Workspaces, LockWorkspace(w) \/ UnlockWorkspace(w)
      PROVE  TypeOK'
  BY <1>2, WorkspaceTypes
<1>3. ASSUME NEW n \in Runners, LauncherStep(n) \/ FaultStep(n) PROVE TypeOK'
  BY <1>3, HeartbeatTypes, JobStartTypes, JobTokenTypes, FaultTypes
     DEF LauncherStep
<1>4. ASSUME NEW q \in reqs, HandlerStep(q) PROVE TypeOK'
  BY <1>4, StartTypes, MintTypes, PutTypes, CompleteTypes DEF HandlerStep
<1>5. ASSUME NEW e \in execs, ExecStep(e) PROVE TypeOK'
  BY <1>5, ExecTypes
<1>6. CASE MonitorStep
  BY <1>6, MonitorTypes
<1>7. CASE UNCHANGED vars
  BY <1>7 DEF vars, TypeOK
<1> QED
  BY <1>1, <1>2, <1>3, <1>4, <1>5, <1>6, <1>7 DEF Next

(* Every reachable state is well typed: no handler in progress ever writes  *)
(* a row, a lock or a request that is not one, however the statements of   *)
(* the handlers interleave.                                                *)
THEOREM TypeCorrect == Spec => []TypeOK
<1>1. Init => TypeOK
  BY InitTypes
<1>2. TypeOK /\ [Next]_vars => TypeOK'
  BY NextTypes
<1> QED
  BY <1>1, <1>2, PTL DEF Spec

-----------------------------------------------------------------------------
(* An engine never applies a run whose plan was not completed, or that no   *)
(* user confirmed and that does not apply automatically: ConfirmedInv is    *)
(* inductive, for any runs, runners, workspaces and bounds.                 *)

(* What every step keeps: the kind of a run, the fact that an attempt of it *)
(* began, that a plan of it was completed, and that it was confirmed; and  *)
(* no run becomes absent again.                                            *)
Keeps ==
    /\ \A r \in Runs :
          /\ run[r].status # "absent" => run'[r].kind = run[r].kind
          /\ run[r].attempt # 0 => run'[r].attempt # 0
          /\ run'[r] = run[r] \/ run'[r].status # "absent"
          /\ reviewed[r] # 0 => reviewed'[r] # 0
    /\ confirmed \subseteq confirmed'

(* The parts of ConfirmedInv about one executor and one handler.           *)
ExecOK(e) ==
    /\ e.attempt # 0 /\ run[e.run].attempt # 0
    /\ e.phase = "apply" /\ e.pc = "engine" =>
          Sanctioned(e.run) /\ reviewed[e.run] # 0
ReqOK(q) ==
    /\ q.kind = "start" /\ q.pc # "claim" => run[q.run].attempt # 0
    /\ q.kind \in {"token", "plan", "complete"} =>
          q.attempt # 0 /\ run[q.run].attempt # 0
    /\ q.kind = "complete" /\ q.pc = "write" =>
          /\ Honest(q.snap, q.run)
          /\ q.snap.attempt # 0
          /\ q.snap.status # "absent"
          /\ q.snap.kind = run[q.run].kind

(* ConfirmedInv, part by part.                                             *)
LEMMA Parts ==
    ConfirmedInv <=>
      /\ TypeOK
      /\ \A r \in Runs : /\ run[r].status = "absent" => run[r] = EmptyRow
                         /\ Honest(run[r], r)
      /\ \A n \in Runners : launcher[n].pc \in {"token", "mint"} =>
            run[launcher[n].run].attempt # 0
      /\ \A e \in execs : ExecOK(e)
      /\ \A q \in reqs : ReqOK(q)
      /\ \A x \in enacted : Sanctioned(x.run) /\ reviewed[x.run] # 0
BY DEF ConfirmedInv, Begun, HonestRows, EnginesSanctioned, EnactedWasConfirmed,
       Sanctioned, ExecOK, ReqOK

(* An absent run was never confirmed to begin, so what was sanctioned stays *)
(* sanctioned.                                                             *)
LEMMA Kept ==
    ASSUME ConfirmedInv, Keeps
    PROVE  /\ \A r \in Runs : Sanctioned(r) => Sanctioned(r)'
           /\ \A r \in Runs : run[r].attempt # 0 => run[r].status # "absent"
           /\ \A r \in Runs, row \in Row : Honest(row, r) => Honest(row, r)'
<1>1. \A r \in Runs : run[r].status = "absent" =>
         run[r].attempt = 0 /\ ~run[r].kind.auto
  BY Parts DEF EmptyRow, PlainKind
<1>2. \A r \in Runs : Sanctioned(r) => Sanctioned(r)'
  BY <1>1 DEF Keeps, Sanctioned
<1>3. \A r \in Runs, row \in Row : Honest(row, r) => Honest(row, r)'
  BY <1>2 DEF Keeps, Honest
<1> QED
  BY <1>1, <1>2, <1>3

(* A step preserves ConfirmedInv when what it changes is right.            *)
LEMMA Frame ==
    ASSUME ConfirmedInv, TypeOK', Keeps,
           \A r \in Runs : run'[r] = run[r] \/ Honest(run[r], r)',
           \A n \in Runners : launcher'[n].pc \in {"token", "mint"} =>
              launcher'[n] = launcher[n] \/ run'[launcher'[n].run].attempt # 0,
           \A e \in execs' : e \in execs \/ ExecOK(e)',
           \A q \in reqs' : q \in reqs \/ ReqOK(q)',
           \A x \in enacted' :
              x \in enacted \/ (Sanctioned(x.run)' /\ reviewed'[x.run] # 0)
    PROVE  ConfirmedInv'
<1>0. TypeOK
  BY Parts
<1>1. \A r \in Runs : run'[r].status = "absent" => run'[r] = EmptyRow
  BY Parts DEF Keeps
<1>2. \A r \in Runs : Honest(run[r], r)'
  <2>1. ASSUME NEW r \in Runs, run'[r] = run[r] PROVE Honest(run[r], r)'
    <3>1. Honest(run[r], r) /\ run[r] \in Row
      BY Parts, <1>0, Elements
    <3>2. reviewed[r] # 0 => reviewed'[r] # 0
      BY DEF Keeps
    <3>3. Sanctioned(r) => Sanctioned(r)'
      BY Kept
    <3> QED
      BY <2>1, <3>1, <3>2, <3>3 DEF Honest
  <2> QED
    BY <2>1
<1>3. \A n \in Runners : launcher'[n].pc \in {"token", "mint"} =>
        run'[launcher'[n].run].attempt # 0
  <2>1. \A n \in Runners : launcher[n].pc \in {"token", "mint"} =>
          launcher[n].run \in Runs /\ run[launcher[n].run].attempt # 0
    BY <1>0, Parts DEF TypeOK
  <2> QED
    BY <2>1 DEF Keeps
<1>4. \A e \in execs' : ExecOK(e)'
  <2>1. ASSUME NEW e \in execs, ExecOK(e) PROVE ExecOK(e)'
    <3>1. e.run \in Runs
      BY <1>0, Elements
    <3> QED
      BY <2>1, <3>1, Kept DEF ExecOK, Keeps
  <2> QED
    BY <2>1, Parts
<1>5. \A q \in reqs' : ReqOK(q)'
  <2>1. ASSUME NEW q \in reqs, ReqOK(q) PROVE ReqOK(q)'
    <3>1. q.run \in Runs /\ q.snap \in Row
      BY <1>0, Elements
    <3>2. Honest(q.snap, q.run) => Honest(q.snap, q.run)'
      BY <3>1, Kept DEF Honest, Keeps
    <3>3. run[q.run].attempt # 0 => /\ run'[q.run].attempt # 0
                                    /\ run'[q.run].kind = run[q.run].kind
      BY <3>1, Kept DEF Keeps
    <3> QED
      BY <2>1, <3>2, <3>3 DEF ReqOK
  <2> QED
    BY <2>1, Parts
<1>6. \A x \in enacted' : Sanctioned(x.run)' /\ reviewed'[x.run] # 0
  <2>1. ASSUME NEW x \in enacted PROVE Sanctioned(x.run)' /\ reviewed'[x.run] # 0
    <3>1. x.run \in Runs
      BY <1>0 DEF TypeOK
    <3> QED
      BY <3>1, Kept, Parts DEF Keeps
  <2> QED
    BY <2>1
<1> QED
  BY <1>1, <1>2, <1>3, <1>4, <1>5, <1>6
     DEF ConfirmedInv, Begun, HonestRows, EnginesSanctioned,
         EnactedWasConfirmed, Sanctioned, ExecOK, ReqOK

(* Steps that leave the rows, the confirmations and the reviews alone.     *)
LEMMA KeepsAll ==
    ASSUME TypeOK, UNCHANGED <<run, confirmed, reviewed>>
    PROVE  Keeps
BY DEF Keeps, TypeOK

(* Steps that edit one row.                                                *)
LEMMA KeepsSet ==
    ASSUME ConfirmedInv, NEW r \in Runs, NEW row, Set(r, row),
           run[r].status # "absent" => row.kind = run[r].kind,
           row.status # "absent",
           run[r].attempt # 0 => row.attempt # 0,
           confirmed \subseteq confirmed',
           \A x \in Runs : reviewed[x] # 0 => reviewed'[x] # 0
    PROVE  /\ Keeps
           /\ run'[r] = row
           /\ \A x \in Runs \ {r} : run'[x] = run[x]
<1>1. run'[r] = row /\ \A x \in Runs \ {r} : run'[x] = run[x]
  BY Parts DEF Set, TypeOK
<1> QED
  BY <1>1 DEF Keeps

(* Steps that change only rows, and perhaps the requests.                  *)
LEMMA RowFrame ==
    ASSUME ConfirmedInv, TypeOK', Keeps,
           \A r \in Runs : run'[r] = run[r] \/ Honest(run[r], r)',
           UNCHANGED <<launcher, execs, enacted>>,
           \A q \in reqs' : q \in reqs \/ ReqOK(q)'
    PROVE  ConfirmedInv'
BY Frame

(* An edit that never puts a run past its plan keeps its row honest.       *)
LEMMA HonestEdit ==
    ASSUME ConfirmedInv, Keeps, NEW r \in Runs,
           run'[r].lost => run[r].lost,
           \/ run'[r].status \notin PastPlan
           \/ /\ run'[r].status = run[r].status
              /\ run'[r].kind = run[r].kind
    PROVE  Honest(run[r], r)'
<1>1. Honest(run[r], r) /\ (Sanctioned(r) => Sanctioned(r)')
  BY Parts, Kept
<1> QED
  BY <1>1 DEF Keeps, Honest, PastPlan

(* The actions of users and of task stages.                                *)
LEMMA UserConfirmed ==
    ASSUME ConfirmedInv, TypeOK', NEW r \in Runs, UserStep(r) \/ StageStep(r)
    PROVE  ConfirmedInv'
<1>0. /\ TypeOK /\ run \in [Runs -> Row]
      /\ Honest(run[r], r) /\ run[r] \in Row
      /\ run[r].status = "absent" => run[r].attempt = 0
  BY Parts, Kept DEF TypeOK, EmptyRow
<1>1. CASE Create(r)
  <2>1. PICK kind \in Kinds :
           run' = [x \in Runs |->
                   IF x = r
                     THEN [EmptyRow EXCEPT !.status = "pending", !.kind = kind]
                   ELSE IF x \in Conflicts(r, kind)
                     THEN [run[x] EXCEPT !.status = "cancelled"]
                   ELSE run[x]]
    BY <1>1 DEF Create
  <2>2. \A x \in Conflicts(r, kind) : run[x].status # "absent"
    BY DEF Conflicts
  <2>3. \A x \in Runs : run[x] \in Row
    BY <1>0
  <2>4. Keeps
    BY <1>0, <1>1, <2>1, <2>2, <2>3 DEF Create, Keeps, Row, EmptyRow
  <2>5. ASSUME NEW x \in Runs PROVE run'[x] = run[x] \/ Honest(run[x], x)'
    <3>1. CASE x = r
      BY <2>1, <3>1 DEF Honest, EmptyRow, PastPlan
    <3>2. CASE x # r /\ x \in Conflicts(r, kind)
      BY <2>1, <2>3, <2>4, <3>2, HonestEdit DEF PastPlan, Row
    <3>3. CASE x # r /\ x \notin Conflicts(r, kind)
      BY <2>1, <3>3
    <3> QED
      BY <3>1, <3>2, <3>3
  <2> QED
    BY <1>1, <2>4, <2>5, RowFrame DEF Create
<1>2. CASE Apply(r)
  <2>1. PICK row : /\ Set(r, row)
                   /\ row.kind = run[r].kind /\ row.attempt = run[r].attempt
                   /\ row.status # "absent"
                   /\ row.lost = run[r].lost \/ row.lost = FALSE
                   /\ reviewed[r] # 0
    BY <1>0, <1>2 DEF Apply, Confirmable, Unclaimed, Row, Honest, PastPlan
  <2>2. confirmed' = confirmed \cup {r} /\ reviewed' = reviewed
    BY <1>2 DEF Apply
  <2>3. Keeps /\ run'[r] = row /\ \A x \in Runs \ {r} : run'[x] = run[x]
    BY <2>1, <2>2, KeepsSet
  <2>4. Honest(run[r], r)'
    BY <2>1, <2>2, <2>3 DEF Honest, Sanctioned
  <2> QED
    BY <1>2, <2>3, <2>4, RowFrame DEF Apply
<1>3. ASSUME NEW from, from \subseteq Statuses \ {"absent"}, CancelFrom(r, from)
      PROVE  ConfirmedInv'
  <2>1. Set(r, [run[r] EXCEPT !.status = "cancelled"])
    BY <1>3 DEF CancelFrom
  <2>2. Keeps /\ run'[r] = [run[r] EXCEPT !.status = "cancelled"]
        /\ \A x \in Runs \ {r} : run'[x] = run[x]
    BY <1>0, <1>3, <2>1, KeepsSet DEF CancelFrom, Row
  <2>3. Honest(run[r], r)'
    BY <1>0, <2>2, HonestEdit DEF PastPlan, Row
  <2>4. \A q : q.kind = "cancel" => ReqOK(q)'
    BY DEF ReqOK
  <2>5. /\ reqs' = reqs \cup {UserReq("cancel", "release", r)}
        /\ UNCHANGED <<launcher, execs, enacted>>
    BY <1>3 DEF CancelFrom
  <2>6. \A q \in reqs' : q \in reqs \/ ReqOK(q)'
    BY <2>4, <2>5 DEF UserReq, Request
  <2> QED
    BY <2>2, <2>3, <2>5, <2>6, RowFrame
<1>4. CASE Discard(r)
  <2>1. Keeps /\ run'[r] = [run[r] EXCEPT !.status = "cancelled"]
        /\ \A x \in Runs \ {r} : run'[x] = run[x]
    BY <1>0, <1>4, KeepsSet DEF Discard, Row
  <2>2. Honest(run[r], r)'
    BY <1>0, <2>1, HonestEdit DEF PastPlan, Row
  <2> QED
    BY <1>4, <2>1, <2>2, RowFrame DEF Discard
<1>5. CASE ForceExecute(r)
  <2>1. \A q : q.kind = "force" => ReqOK(q)'
    BY DEF ReqOK
  <2>2. Keeps
    BY <1>0, <1>5, KeepsAll DEF ForceExecute
  <2>3. /\ reqs' = reqs \cup {UserReq("force", "write", r)}
        /\ UNCHANGED <<run, launcher, execs, enacted>>
    BY <1>5 DEF ForceExecute
  <2>4. \A q \in reqs' : q \in reqs \/ ReqOK(q)'
    BY <2>1, <2>3 DEF UserReq, Request
  <2> QED
    BY <2>2, <2>3, <2>4, RowFrame
<1>6. CASE BeginPrePlan(r)
  <2>1. Keeps /\ run'[r] = [run[r] EXCEPT !.status = "pre_plan_running"]
        /\ \A x \in Runs \ {r} : run'[x] = run[x]
    BY <1>0, <1>6, KeepsSet DEF BeginPrePlan, Row
  <2>2. Honest(run[r], r)'
    BY <1>0, <2>1, HonestEdit DEF PastPlan, Row
  <2> QED
    BY <1>6, <2>1, <2>2, RowFrame DEF BeginPrePlan
<1>7. CASE ContinueRun(r)
  <2>1. PICK row : /\ Set(r, row)
                   /\ row.kind = run[r].kind /\ row.attempt = run[r].attempt
                   /\ row.status # "absent" /\ row.lost = run[r].lost
                   /\ row.status \in PastPlan => reviewed[r] # 0
                   /\ row.status \in {"pre_apply_running", "applying"} =>
                         Sanctioned(r)
    <3> DEFINE Right(row) ==
                 /\ Set(r, row)
                 /\ row.kind = run[r].kind /\ row.attempt = run[r].attempt
                 /\ row.status # "absent" /\ row.lost = run[r].lost
                 /\ row.status \in PastPlan => reviewed[r] # 0
                 /\ row.status \in {"pre_apply_running", "applying"} =>
                       Sanctioned(r)
    <3>1. ASSUME NEW s \in Statuses \ {"absent"},
                 Set(r, [run[r] EXCEPT !.status = s]),
                 s \in PastPlan => run[r].status \in PastPlan,
                 s \notin {"pre_apply_running", "applying"}
          PROVE  Right([run[r] EXCEPT !.status = s])
      BY <1>0, <3>1 DEF Honest, Row
    <3>2. ASSUME Set(r, [Unclaimed(run[r]) EXCEPT !.status = "applying"]),
                 \/ run[r].status = "post_plan_running" /\ run[r].kind.auto
                 \/ run[r].status = "pre_apply_running"
          PROVE  Right([Unclaimed(run[r]) EXCEPT !.status = "applying"])
      BY <1>0, <3>2 DEF Honest, Row, Unclaimed, PastPlan, Sanctioned
    <3>3. \/ Set(r, [run[r] EXCEPT !.status = "pre_plan_completed"])
          \/ /\ Set(r, [run[r] EXCEPT !.status = "post_plan_completed"])
             /\ run[r].status = "post_plan_running"
          \/ /\ Set(r, [Unclaimed(run[r]) EXCEPT !.status = "applying"])
             /\ \/ run[r].status = "post_plan_running" /\ run[r].kind.auto
                \/ run[r].status = "pre_apply_running"
          \/ Set(r, [run[r] EXCEPT !.status = "applied"])
          \/ Set(r, [run[r] EXCEPT !.status = "failed"])
      BY <1>7 DEF ContinueRun
    <3> HIDE DEF Right
    <3>4. \E row : Right(row)
      BY <3>1, <3>2, <3>3 DEF PastPlan, Statuses
    <3> QED
      BY <3>4 DEF Right
  <2>2. UNCHANGED <<confirmed, reviewed>>
    BY <1>7 DEF ContinueRun, jobVars
  <2>3. Keeps /\ run'[r] = row /\ \A x \in Runs \ {r} : run'[x] = run[x]
    BY <2>1, <2>2, KeepsSet
  <2>4. Honest(run[r], r)'
    BY <1>0, <2>1, <2>2, <2>3, Kept DEF Honest, Sanctioned
  <2> QED
    BY <1>7, <2>3, <2>4, RowFrame DEF ContinueRun
<1> QED
  BY <1>1, <1>2, <1>3, <1>4, <1>5, <1>6, <1>7
     DEF UserStep, StageStep, Cancel, ForceCancel, Statuses

(* The actions of launchers, and the faults.                               *)
LEMMA LauncherConfirmed ==
    ASSUME ConfirmedInv, TypeOK', NEW n \in Runners,
           LauncherStep(n) \/ FaultStep(n)
    PROVE  ConfirmedInv'
<1>0. /\ TypeOK /\ \A r \in Runs : run[r] \in Row
      /\ \A r \in Runs : run[r].status = "absent" => run[r].attempt = 0
      /\ launcher \in [Runners -> Launcher]
  BY Parts, Kept DEF TypeOK, EmptyRow
<1>1. Idle.pc = "poll" /\ [Idle EXCEPT !.pc = "down"].pc = "down"
  BY DEF Idle
<1>2. CASE Heartbeat(n)
  <2>1. PICK new \in SUBSET Runs :
           /\ run' = [r \in Runs |-> IF r \in new
                                       THEN [run[r] EXCEPT !.runner = n]
                                       ELSE run[r]]
           /\ \A r \in new : Dispatchable(run[r])
    BY <1>2 DEF Heartbeat
  <2>2. \A r \in new : run[r].status # "absent"
    BY <2>1 DEF Dispatchable, Startable
  <2>3. Keeps
    BY <1>0, <1>2, <2>1, <2>2 DEF Heartbeat, Keeps, Row
  <2>4. ASSUME NEW r \in Runs PROVE run'[r] = run[r] \/ Honest(run[r], r)'
    <3>1. CASE r \in new
      BY <1>0, <2>1, <2>3, <3>1, HonestEdit DEF Row
    <3>2. CASE r \notin new
      BY <2>1, <3>2
    <3> QED
      BY <3>1, <3>2
  <2> QED
    BY <1>2, <2>3, <2>4, RowFrame DEF Heartbeat
<1>3. CASE JobStart(n)
  <2>1. Keeps
    BY <1>0, <1>3, KeepsAll DEF JobStart
  <2>2. PICK o \in offers[n] :
          \/ UNCHANGED <<reqs, launcher>>
          \/ /\ reqs' = reqs \cup
                          {LauncherReq("start", "claim", n, o, FALSE, 0)}
             /\ launcher' = [launcher EXCEPT ![n] =
                  [pc |-> "start", run |-> o.run, phase |-> o.phase]]
    BY <1>3 DEF JobStart
  <2>3. \A q : q.kind = "start" /\ q.pc = "claim" => ReqOK(q)'
    BY DEF ReqOK
  <2>4. \A q \in reqs' : q \in reqs \/ ReqOK(q)'
    BY <2>2, <2>3 DEF LauncherReq, Request
  <2>5. \A m \in Runners : launcher'[m].pc \in {"token", "mint"} =>
           launcher'[m] = launcher[m]
    <3>1. CASE launcher' = [launcher EXCEPT ![n] =
                  [pc |-> "start", run |-> o.run, phase |-> o.phase]]
      <4>1. launcher'[n].pc = "start"
        BY <1>0, <3>1
      <4>2. \A m \in Runners \ {n} : launcher'[m] = launcher[m]
        BY <1>0, <3>1
      <4> QED
        BY <4>1, <4>2
    <3> QED
      BY <2>2, <3>1
  <2>6. UNCHANGED <<run, execs, enacted>>
    BY <1>3 DEF JobStart
  <2> QED
    BY <2>1, <2>4, <2>5, <2>6, Frame
<1>4. CASE JobToken(n)
  <2> DEFINE r == launcher[n].run
             q == LauncherReq("token", "write", n, launcher[n], FALSE,
                              run[r].attempt)
  <2>1. r \in Runs /\ run[r].attempt # 0 /\ launcher[n].pc = "token"
    BY <1>0, <1>4, Parts DEF JobToken, TypeOK
  <2>2. Keeps /\ UNCHANGED <<run, execs, enacted>>
    BY <1>0, <1>4, KeepsAll DEF JobToken
  <2>3. \/ reqs' = reqs \cup {q} /\ launcher' = [launcher EXCEPT ![n].pc = "mint"]
        \/ reqs' = reqs /\ Forget(n)
    BY <1>4 DEF JobToken
  <2>4. /\ q.kind = "token" /\ q.pc = "write" /\ q.run = r
        /\ q.attempt = run[r].attempt
    BY DEF LauncherReq, Request
  <2>5. \A x : x.kind = "token" /\ x.attempt # 0 /\ run'[x.run].attempt # 0
                 => ReqOK(x)'
    BY DEF ReqOK
  <2> HIDE DEF q
  <2>6. \A x \in reqs' : x \in reqs \/ ReqOK(x)'
    BY <2>1, <2>2, <2>3, <2>4, <2>5
  <2>7. \A m \in Runners : launcher'[m].pc \in {"token", "mint"} =>
           launcher'[m] = launcher[m] \/ run'[launcher'[m].run].attempt # 0
    <3>1. CASE Forget(n)
      BY <1>0, <1>1, <3>1 DEF Forget
    <3>2. CASE launcher' = [launcher EXCEPT ![n].pc = "mint"]
      <4>1. launcher'[n].run = r
        BY <1>0, <3>2 DEF Launcher
      <4>2. \A m \in Runners \ {n} : launcher'[m] = launcher[m]
        BY <1>0, <3>2
      <4> QED
        BY <2>1, <2>2, <4>1, <4>2
    <3> QED
      BY <2>3, <3>1, <3>2
  <2> QED
    BY <2>2, <2>6, <2>7, Frame
<1>5. CASE Register(n) \/ LauncherGivesUp(n) \/ Crash(n) \/ MarkOffline(n)
  <2>1. /\ UNCHANGED <<run, confirmed, reviewed, enacted, reqs>>
        /\ execs' \subseteq execs
        /\ \/ Forget(n) \/ UNCHANGED launcher
           \/ launcher' = [launcher EXCEPT ![n] = [Idle EXCEPT !.pc = "down"]]
    BY <1>5 DEF Register, LauncherGivesUp, Crash, MarkOffline
  <2>2. \A m \in Runners : launcher'[m].pc \in {"token", "mint"} =>
           launcher'[m] = launcher[m]
    BY <1>0, <1>1, <2>1 DEF Forget
  <2>3. Keeps
    BY <1>0, <2>1, KeepsAll
  <2> QED
    BY <2>1, <2>2, <2>3, Frame
<1> QED
  BY <1>2, <1>3, <1>4, <1>5 DEF LauncherStep, FaultStep

(* A handler that goes on keeps its request but for its program counter.   *)
LEMMA AdvanceOK ==
    ASSUME ConfirmedInv, Keeps, NEW q \in reqs
    PROVE  /\ Answer(q) => \A x \in reqs' : x \in reqs \/ ReqOK(x)'
           /\ \A pc \in {"lock", "write", "revoke", "release"} :
                (Advance(q, pc) /\ (q.kind = "start" => run'[q.run].attempt # 0)
                                /\ ~(q.kind = "complete" /\ pc = "write"))
                => \A x \in reqs' : x \in reqs \/ ReqOK(x)'
<1>1. q \in Req /\ q.run \in Runs /\ ReqOK(q)
  BY Parts, Elements
<1>2. ASSUME NEW pc \in {"lock", "write", "revoke", "release"},
             q.kind = "start" => run'[q.run].attempt # 0,
             ~(q.kind = "complete" /\ pc = "write"),
             NEW x, x = [q EXCEPT !.pc = pc]
      PROVE  ReqOK(x)'
  <2>1. /\ x.kind = q.kind /\ x.run = q.run /\ x.attempt = q.attempt
        /\ x.pc = pc
    BY <1>1, <1>2 DEF Req
  <2>2. run[q.run].attempt # 0 => run'[q.run].attempt # 0
    BY <1>1 DEF Keeps
  <2> QED
    BY <1>1, <1>2, <2>1, <2>2 DEF ReqOK
<1>3. Answer(q) => \A x \in reqs' : x \in reqs \/ ReqOK(x)'
  BY DEF Answer
<1> QED
  BY <1>2, <1>3 DEF Advance

(* The steps of a start.                                                   *)
LEMMA StartConfirmed ==
    ASSUME ConfirmedInv, TypeOK', NEW q \in reqs, StartStep(q)
    PROVE  ConfirmedInv'
<1>0. /\ TypeOK /\ q.kind = "start" /\ q.run \in Runs /\ run[q.run] \in Row
      /\ q.runner \in Runners /\ launcher \in [Runners -> Launcher]
      /\ run[q.run].status = "absent" => run[q.run].attempt = 0
      /\ ReqOK(q)
  <2>1. q.kind = "start"
    BY DEF StartStep, StartClaim, StartLock, StartWrite, StartRevoke
  <2>2. /\ TypeOK /\ ReqOK(q)
        /\ \A r \in Runs : run[r].status = "absent" => run[r].attempt = 0
    BY Parts DEF EmptyRow
  <2>3. /\ q.run \in Runs /\ run[q.run] \in Row /\ q.runner \in Runners
        /\ launcher \in [Runners -> Launcher]
    BY <2>1, <2>2, Elements DEF TypeOK
  <2> QED
    BY <2>1, <2>2, <2>3
<1>1. Idle.pc = "poll"
  BY DEF Idle
<1>b. Forget(q.runner) \/ UNCHANGED launcher =>
         \A m \in Runners : launcher'[m].pc \in {"token", "mint"} =>
            launcher'[m] = launcher[m]
  BY <1>0, <1>1 DEF Forget
<1>a. \A pc : SkipJob(q, pc) \/ UNCHANGED launcher =>
         \A m \in Runners : launcher'[m].pc \in {"token", "mint"} =>
            launcher'[m] = launcher[m]
  BY <1>b DEF SkipJob, Forget
<1>2. CASE StartClaim(q)
  <2>1. CASE Dispatchable(run[q.run])
    <3>1. /\ Set(q.run, Claimed(run[q.run])) /\ Advance(q, "lock")
          /\ UNCHANGED <<launcher, execs, enacted, confirmed, reviewed>>
      BY <1>2, <2>1 DEF StartClaim
    <3>2. /\ Claimed(run[q.run]).kind = run[q.run].kind
          /\ Claimed(run[q.run]).status = run[q.run].status
          /\ Claimed(run[q.run]).lost = run[q.run].lost
          /\ Claimed(run[q.run]).attempt # 0
          /\ run[q.run].status # "absent"
      BY <1>0, <2>1 DEF Claimed, Row, Dispatchable, Startable
    <3>3. /\ Keeps /\ run'[q.run] = Claimed(run[q.run])
          /\ \A x \in Runs \ {q.run} : run'[x] = run[x]
      BY <1>0, <3>1, <3>2, KeepsSet
    <3>4. Honest(run[q.run], q.run)'
      BY <1>0, <3>2, <3>3, HonestEdit
    <3>5. \A x \in reqs' : x \in reqs \/ ReqOK(x)'
      BY <1>0, <3>1, <3>2, <3>3, AdvanceOK
    <3> QED
      BY <3>1, <3>3, <3>4, <3>5, RowFrame
  <2>2. CASE ~Dispatchable(run[q.run])
    <3>1. /\ Answer(q) /\ SkipJob(q, "start")
          /\ UNCHANGED <<run, execs, enacted, confirmed, reviewed>>
      BY <1>2, <2>2 DEF StartClaim
    <3>2. Keeps
      BY <1>0, <3>1, KeepsAll
    <3>3. \A x \in reqs' : x \in reqs \/ ReqOK(x)'
      BY <3>1, <3>2, AdvanceOK
    <3> QED
      BY <1>a, <3>1, <3>2, <3>3, Frame
  <2> QED
    BY <2>1, <2>2
<1>3. CASE StartLock(q)
  <2>0. run[q.run].attempt # 0
    BY <1>0, <1>3 DEF StartLock, ReqOK
  <2>1. CASE UNCHANGED run
    <3>1. /\ Advance(q, "write") \/ Answer(q)
          /\ SkipJob(q, "start") \/ UNCHANGED launcher
          /\ UNCHANGED <<execs, enacted, confirmed, reviewed>>
      BY <1>3 DEF StartLock
    <3>2. Keeps
      BY <1>0, <2>1, <3>1, KeepsAll
    <3>3. \A x \in reqs' : x \in reqs \/ ReqOK(x)'
      BY <1>0, <2>0, <2>1, <3>1, <3>2, AdvanceOK
    <3> QED
      BY <1>a, <2>1, <3>1, <3>2, <3>3, Frame
  <2>2. CASE Set(q.run, Unclaimed(run[q.run])) /\ Answer(q)
    <3>1. /\ SkipJob(q, "start") \/ UNCHANGED launcher
          /\ UNCHANGED <<execs, enacted, confirmed, reviewed>>
      BY <1>3 DEF StartLock
    <3>2. /\ Unclaimed(run[q.run]).kind = run[q.run].kind
          /\ Unclaimed(run[q.run]).status = run[q.run].status
          /\ Unclaimed(run[q.run]).lost = run[q.run].lost
          /\ Unclaimed(run[q.run]).attempt = run[q.run].attempt
      BY <1>0 DEF Unclaimed, Row
    <3>3. /\ Keeps /\ run'[q.run] = Unclaimed(run[q.run])
          /\ \A x \in Runs \ {q.run} : run'[x] = run[x]
      BY <1>0, <2>0, <2>2, <3>1, <3>2, KeepsSet
    <3>4. Honest(run[q.run], q.run)'
      BY <1>0, <3>2, <3>3, HonestEdit
    <3>5. \A x \in reqs' : x \in reqs \/ ReqOK(x)'
      BY <2>2, <3>3, AdvanceOK
    <3>6. \A r \in Runs : run'[r] = run[r] \/ Honest(run[r], r)'
      BY <3>3, <3>4
    <3> QED
      BY <1>a, <3>1, <3>3, <3>5, <3>6, Frame
  <2> QED
    BY <1>3, <2>1, <2>2 DEF StartLock
<1>4. CASE StartWrite(q)
  <2> DEFINE s == IF q.snap.status \in Startable \ {"applying"}
                    THEN "planning" ELSE run[q.run].status
             row == [run[q.run] EXCEPT !.runner = q.runner, !.status = s]
  <2>0. run[q.run].attempt # 0 /\ run[q.run].status # "absent"
    BY <1>0, <1>4 DEF StartWrite, ReqOK
  <2>1. /\ Set(q.run, row) /\ Advance(q, "revoke")
        /\ UNCHANGED <<launcher, execs, enacted, confirmed, reviewed>>
    BY <1>4 DEF StartWrite, Started
  <2>2. /\ row.kind = run[q.run].kind /\ row.lost = run[q.run].lost
        /\ row.attempt = run[q.run].attempt
        /\ row.status = run[q.run].status \/ row.status = "planning"
    BY <1>0 DEF Row
  <2> HIDE DEF row
  <2>3. /\ Keeps /\ run'[q.run] = row
        /\ \A x \in Runs \ {q.run} : run'[x] = run[x]
    BY <1>0, <2>0, <2>1, <2>2, KeepsSet
  <2>4. Honest(run[q.run], q.run)'
    BY <1>0, <2>2, <2>3, HonestEdit DEF PastPlan
  <2>5. \A x \in reqs' : x \in reqs \/ ReqOK(x)'
    BY <1>0, <2>0, <2>1, <2>2, <2>3, AdvanceOK
  <2> QED
    BY <2>1, <2>3, <2>4, <2>5, RowFrame
<1>5. CASE StartRevoke(q)
  <2>0. run[q.run].attempt # 0
    BY <1>0, <1>5 DEF StartRevoke, ReqOK
  <2>1. Answer(q) /\ UNCHANGED <<run, enacted, confirmed, reviewed>>
    BY <1>5 DEF StartRevoke
  <2>2. Keeps
    BY <1>0, <2>1, KeepsAll
  <2>3. \A x \in reqs' : x \in reqs \/ ReqOK(x)'
    BY <2>1, <2>2, AdvanceOK
  <2>4. \A e \in execs' : e \in execs \/ e = NewExec(q, FALSE)
    BY <1>5 DEF StartRevoke
  <2>5. \A e : e.run = q.run /\ e.attempt = run[q.run].attempt /\ e.pc = "fetch"
                 => ExecOK(e)'
    BY <2>0, <2>1 DEF ExecOK
  <2>6. \A e \in execs' : e \in execs \/ ExecOK(e)'
    BY <2>4, <2>5 DEF NewExec
  <2>7. \A m \in Runners : launcher'[m].pc \in {"token", "mint"} =>
           launcher'[m] = launcher[m] \/ run'[launcher'[m].run].attempt # 0
    <3>1. CASE Forget(q.runner) \/ UNCHANGED launcher
      BY <1>b, <3>1
    <3>2. CASE /\ IsWaiting(q, "start")
               /\ launcher' = [launcher EXCEPT ![q.runner].pc = "token"]
      <4>1. launcher'[q.runner].run = q.run
        BY <1>0, <3>2 DEF Launcher, IsWaiting
      <4>2. \A m \in Runners \ {q.runner} : launcher'[m] = launcher[m]
        BY <1>0, <3>2
      <4> QED
        BY <2>0, <2>1, <4>1, <4>2
    <3>3. \/ UNCHANGED launcher
          \/ Forget(q.runner)
          \/ /\ IsWaiting(q, "start")
             /\ launcher' = [launcher EXCEPT ![q.runner].pc = "token"]
      BY <1>5 DEF StartRevoke
    <3> QED
      BY <3>1, <3>2, <3>3
  <2> QED
    BY <2>1, <2>2, <2>3, <2>6, <2>7, Frame
<1> QED
  BY <1>2, <1>3, <1>4, <1>5 DEF StartStep

(* The ends of the token and plan requests, a cancellation's release and a  *)
(* forced execution's write.                                               *)
LEMMA PutConfirmed ==
    ASSUME ConfirmedInv, TypeOK', NEW q \in reqs,
           TokenMint(q) \/ UploadPut(q) \/ CancelRelease(q) \/ ForceClear(q)
    PROVE  ConfirmedInv'
<1>0. /\ TypeOK /\ q.run \in Runs /\ run[q.run] \in Row /\ ReqOK(q)
      /\ launcher \in [Runners -> Launcher] /\ execs \subseteq Exec
      /\ \A e \in execs : ExecOK(e) /\ e.run \in Runs
  <2>1. TypeOK
    BY Parts
  <2> QED
    BY <2>1, Parts, Elements DEF TypeOK
<1>1. CASE TokenMint(q)
  <2>0. q.kind = "token" /\ q.attempt # 0 /\ run[q.run].attempt # 0
        /\ q.runner \in Runners
    BY <1>0, <1>1, Elements DEF TokenMint, ReqOK
  <2>1. /\ Answer(q) /\ UNCHANGED <<run, enacted, confirmed, reviewed>>
        /\ Forget(q.runner) \/ UNCHANGED launcher
        /\ execs' \subseteq execs \cup {NewExec(q, TRUE)}
    BY <1>1 DEF TokenMint
  <2>2. Keeps
    BY <1>0, <2>1, KeepsAll
  <2>3. \A x \in reqs' : x \in reqs \/ ReqOK(x)'
    BY <2>1, <2>2, AdvanceOK
  <2>4. \A e : e.run = q.run /\ e.attempt = q.attempt /\ e.pc = "fetch"
                 => ExecOK(e)'
    BY <2>0, <2>1 DEF ExecOK
  <2>5. \A e \in execs' : e \in execs \/ ExecOK(e)'
    BY <2>1, <2>4 DEF NewExec
  <2>6. \A m \in Runners : launcher'[m].pc \in {"token", "mint"} =>
           launcher'[m] = launcher[m]
    BY <1>0, <2>0, <2>1 DEF Forget, Idle
  <2> QED
    BY <2>1, <2>2, <2>3, <2>5, <2>6, Frame
<1>2. CASE UploadPut(q)
  <2>1. /\ Answer(q)
        /\ UNCHANGED <<run, launcher, enacted, confirmed, reviewed>>
    BY <1>2 DEF UploadPut
  <2>2. Keeps
    BY <1>0, <2>1, KeepsAll
  <2>3. \A x \in reqs' : x \in reqs \/ ReqOK(x)'
    BY <2>1, <2>2, AdvanceOK
  <2>4. ASSUME NEW f \in execs, NEW e,
               e = [f EXCEPT !.pc = "report", !.outcome = "completed"]
        PROVE  ExecOK(e)'
    <3>1. /\ e.run = f.run /\ e.attempt = f.attempt /\ e.phase = f.phase
          /\ e.pc = "report"
      BY <1>0, <2>4 DEF Exec
    <3> QED
      BY <1>0, <2>1, <3>1 DEF ExecOK
  <2>5. \A e \in execs' : \/ e \in execs
           \/ \E f \in execs :
                e = [f EXCEPT !.pc = "report", !.outcome = "completed"]
    BY <1>2 DEF UploadPut
  <2>6. \A e \in execs' : e \in execs \/ ExecOK(e)'
    BY <2>4, <2>5
  <2> QED
    BY <2>1, <2>2, <2>3, <2>6, Frame
<1>3. CASE CancelRelease(q)
  <2>1. /\ Answer(q)
        /\ UNCHANGED <<run, launcher, execs, enacted, confirmed, reviewed>>
    BY <1>3 DEF CancelRelease
  <2>2. Keeps
    BY <1>0, <2>1, KeepsAll
  <2>3. \A x \in reqs' : x \in reqs \/ ReqOK(x)'
    BY <2>1, <2>2, AdvanceOK
  <2> QED
    BY <2>1, <2>2, <2>3, Frame
<1>4. CASE ForceClear(q)
  <2>1. /\ Answer(q) /\ Set(q.run, Unclaimed(run[q.run]))
        /\ UNCHANGED <<launcher, execs, enacted, confirmed, reviewed>>
    BY <1>4 DEF ForceClear
  <2>2. /\ Unclaimed(run[q.run]).kind = run[q.run].kind
        /\ Unclaimed(run[q.run]).status = run[q.run].status
        /\ Unclaimed(run[q.run]).lost = run[q.run].lost
        /\ Unclaimed(run[q.run]).attempt = run[q.run].attempt
    BY <1>0 DEF Unclaimed, Row
  <2>3. CASE run[q.run].status # "absent"
    <3>1. /\ Keeps /\ run'[q.run] = Unclaimed(run[q.run])
          /\ \A x \in Runs \ {q.run} : run'[x] = run[x]
      BY <1>0, <2>1, <2>2, <2>3, KeepsSet
    <3>2. Honest(run[q.run], q.run)'
      BY <1>0, <2>2, <3>1, HonestEdit
    <3>3. \A x \in reqs' : x \in reqs \/ ReqOK(x)'
      BY <2>1, <3>1, AdvanceOK
    <3> QED
      BY <2>1, <3>1, <3>2, <3>3, RowFrame
  <2>4. CASE run[q.run].status = "absent"
    <3>1. run[q.run] = EmptyRow
      BY <1>0, <2>4, Parts
    <3>2. Unclaimed(run[q.run]) = run[q.run]
      <4>1. \A row \in Row : row.claimed = FALSE /\ row.runner = NoRunner
                              => Unclaimed(row) = row
        BY DEF Row, Unclaimed
      <4> QED
        BY <1>0, <3>1, <4>1 DEF EmptyRow
    <3>3. run' = run
      BY <1>0, <2>1, <3>2 DEF Set, TypeOK
    <3>4. Keeps
      BY <1>0, <2>1, <3>3, KeepsAll
    <3>5. \A x \in reqs' : x \in reqs \/ ReqOK(x)'
      BY <2>1, <3>4, AdvanceOK
    <3> QED
      BY <2>1, <3>3, <3>4, <3>5, RowFrame
  <2> QED
    BY <2>3, <2>4
<1> QED
  BY <1>1, <1>2, <1>3, <1>4

(* An executor that goes on stays the executor of its attempt.             *)
LEMMA ExecEdits ==
    ASSUME NEW e \in Exec, NEW pc, NEW o
    PROVE  /\ [e EXCEPT !.pc = pc].run = e.run
           /\ [e EXCEPT !.pc = pc].attempt = e.attempt
           /\ [e EXCEPT !.pc = pc].pc = pc
           /\ [e EXCEPT !.pc = pc, !.outcome = o].run = e.run
           /\ [e EXCEPT !.pc = pc, !.outcome = o].attempt = e.attempt
           /\ [e EXCEPT !.pc = pc, !.outcome = o].pc = pc
BY DEF Exec

(* The steps of an executor: an engine applies only a run that is applying. *)
LEMMA ExecConfirmed ==
    ASSUME ConfirmedInv, TypeOK', NEW e \in execs, ExecStep(e)
    PROVE  ConfirmedInv'
<1>0. /\ TypeOK /\ ExecOK(e) /\ e \in Exec /\ e.run \in Runs
      /\ run[e.run] \in Row /\ Honest(run[e.run], e.run)
  <2>1. TypeOK
    BY Parts
  <2> QED
    BY <2>1, Parts, Elements
<1>1. UNCHANGED <<run, launcher, confirmed, reviewed>>
  BY DEF ExecStep, ExecFetch, ExecEngine, UploadPlan, ExecReport
<1>2. Keeps
  BY <1>0, <1>1, KeepsAll
<1>3. CASE ExecFetch(e)
  <2>1. UNCHANGED <<reqs, enacted>>
    BY <1>3 DEF ExecFetch
  <2>2. PICK f : /\ execs' = (execs \ {e}) \cup {f}
                 /\ f.run = e.run /\ f.attempt = e.attempt
                 /\ f.phase = e.phase
                 /\ (f.phase = "apply" /\ f.pc = "engine" =>
                       run[e.run].status = "applying")
    <3> DEFINE ready == \/ e.phase = "plan"
                        \/ run[e.run].status = "applying" /\ plan[e.run] # 0
               good(k) == [e EXCEPT !.pc = "engine", !.plan = k]
               bad == [e EXCEPT !.pc = "report", !.outcome = "failed"]
    <3>1. \/ /\ ready
             /\ \E k : execs' = (execs \ {e}) \cup {good(k)}
          \/ execs' = (execs \ {e}) \cup {bad}
      BY <1>3 DEF ExecFetch, Become
    <3>2. /\ \A k : /\ good(k).run = e.run /\ good(k).attempt = e.attempt
                     /\ good(k).phase = e.phase
          /\ bad.run = e.run /\ bad.attempt = e.attempt
          /\ bad.phase = e.phase /\ bad.pc = "report"
      BY <1>0 DEF Exec
    <3>3. ready /\ e.phase = "apply" => run[e.run].status = "applying"
      OBVIOUS
    <3> HIDE DEF ready, good, bad
    <3> QED
      BY <3>1, <3>2, <3>3
  <2>3. ExecOK(f)'
    BY <1>0, <1>1, <2>2 DEF ExecOK, Honest, PastPlan, Sanctioned
  <2>4. \A x \in execs' : x \in execs \/ ExecOK(x)'
    BY <2>2, <2>3
  <2> QED
    BY <1>1, <1>2, <2>1, <2>4, Frame
<1>4. ASSUME NEW outcome \in Outcomes, ExecEngine(e, outcome)
      PROVE  ConfirmedInv'
  <2>1. UNCHANGED reqs
    BY <1>4 DEF ExecEngine
  <2>2. PICK f : /\ execs' = (execs \ {e}) \cup {f}
                 /\ f.run = e.run /\ f.attempt = e.attempt /\ f.pc # "engine"
    <3>1. \/ execs' = (execs \ {e}) \cup {[e EXCEPT !.pc = "upload"]}
          \/ execs' = (execs \ {e}) \cup
                        {[e EXCEPT !.pc = "report", !.outcome = outcome]}
      BY <1>4 DEF ExecEngine, Become
    <3>2. /\ [e EXCEPT !.pc = "upload"].run = e.run
          /\ [e EXCEPT !.pc = "upload"].attempt = e.attempt
          /\ [e EXCEPT !.pc = "upload"].pc # "engine"
      BY <1>0, ExecEdits
    <3>3. /\ [e EXCEPT !.pc = "report", !.outcome = outcome].run = e.run
          /\ [e EXCEPT !.pc = "report", !.outcome = outcome].attempt = e.attempt
          /\ [e EXCEPT !.pc = "report", !.outcome = outcome].pc # "engine"
      BY <1>0, ExecEdits
    <3> QED
      BY <3>1, <3>2, <3>3
  <2>3. ExecOK(f)'
    BY <1>0, <1>1, <2>2 DEF ExecOK
  <2>4. \A x \in execs' : x \in execs \/ ExecOK(x)'
    BY <2>2, <2>3
  <2>5. \A x \in enacted' :
           x \in enacted \/ (Sanctioned(x.run)' /\ reviewed'[x.run] # 0)
    <3>1. CASE e.phase = "apply"
      <4>1. Sanctioned(e.run)' /\ reviewed'[e.run] # 0
        BY <1>0, <1>1, <1>4, <3>1 DEF ExecEngine, ExecOK, Sanctioned
      <4>2. \A x \in enacted' : x \in enacted \/ x.run = e.run
        BY <1>4 DEF ExecEngine
      <4> QED
        BY <4>1, <4>2
    <3>2. CASE e.phase # "apply"
      BY <1>4, <3>2 DEF ExecEngine
    <3> QED
      BY <3>1, <3>2
  <2> QED
    BY <1>1, <1>2, <2>1, <2>4, <2>5, Frame
<1>5. CASE UploadPlan(e) \/ ExecReport(e)
  <2>1. UNCHANGED enacted
    BY <1>5 DEF UploadPlan, ExecReport
  <2>2. \/ execs' \subseteq execs
        \/ \E f : /\ execs' = (execs \ {e}) \cup {f} /\ f.run = e.run
                  /\ f.attempt = e.attempt /\ f.pc # "engine"
    <3>1. \/ execs' \subseteq execs
          \/ execs' = (execs \ {e}) \cup {[e EXCEPT !.pc = "uploading"]}
          \/ execs' = (execs \ {e}) \cup
                        {[e EXCEPT !.pc = "report", !.outcome = "failed"]}
          \/ execs' = (execs \ {e}) \cup {[e EXCEPT !.pc = "sent"]}
      <4>1. CASE UploadPlan(e)
        BY <4>1 DEF UploadPlan, Become
      <4>2. CASE ExecReport(e)
        <5>1. execs' = execs \ {e} => execs' \subseteq execs
          OBVIOUS
        <5> QED
          BY <4>2, <5>1 DEF ExecReport, Become
      <4> QED
        BY <1>5, <4>1, <4>2
    <3>2. /\ [e EXCEPT !.pc = "uploading"].run = e.run
          /\ [e EXCEPT !.pc = "uploading"].attempt = e.attempt
          /\ [e EXCEPT !.pc = "uploading"].pc # "engine"
          /\ [e EXCEPT !.pc = "sent"].run = e.run
          /\ [e EXCEPT !.pc = "sent"].attempt = e.attempt
          /\ [e EXCEPT !.pc = "sent"].pc # "engine"
      BY <1>0, ExecEdits
    <3>3. [e EXCEPT !.pc = "report", !.outcome = "failed"].run = e.run
          /\ [e EXCEPT !.pc = "report", !.outcome = "failed"].attempt = e.attempt
          /\ [e EXCEPT !.pc = "report", !.outcome = "failed"].pc # "engine"
      BY <1>0, ExecEdits
    <3> QED
      BY <3>1, <3>2, <3>3
  <2>3. \A f : f.run = e.run /\ f.attempt = e.attempt /\ f.pc # "engine"
                 => ExecOK(f)'
    BY <1>0, <1>1 DEF ExecOK
  <2>4. \A x \in execs' : x \in execs \/ ExecOK(x)'
    BY <2>2, <2>3
  <2>5. \A x \in reqs' : \/ x \in reqs
                         \/ /\ x.kind = "plan" \/ x.pc = "load"
                            /\ x.kind \in {"plan", "complete"}
                            /\ x.run = e.run /\ x.attempt = e.attempt
    <3>1. CASE UploadPlan(e)
      <4>1. reqs' \subseteq reqs \cup
               {Request("plan", "write", e, "completed", run[e.run])}
        BY <3>1 DEF UploadPlan
      <4> QED
        BY <4>1 DEF Request
    <3>2. CASE ExecReport(e)
      <4>1. reqs' \subseteq reqs \cup
               {Request("complete", "load", e, e.outcome, run[e.run])}
        BY <3>2 DEF ExecReport
      <4> QED
        BY <4>1 DEF Request
    <3> QED
      BY <1>5, <3>1, <3>2
  <2>6. \A x : (/\ x.kind = "plan" \/ x.pc = "load"
                /\ x.kind \in {"plan", "complete"}
                /\ x.run = e.run /\ x.attempt = e.attempt) => ReqOK(x)'
    BY <1>0, <1>1 DEF ExecOK, ReqOK
  <2>7. \A x \in reqs' : x \in reqs \/ ReqOK(x)'
    BY <2>5, <2>6
  <2> QED
    BY <1>1, <1>2, <2>1, <2>4, <2>7, Frame
<1> QED
  BY <1>3, <1>4, <1>5 DEF ExecStep

(* The steps of a completion: what a report saves is what its plan, or the  *)
(* row it loaded, allows.                                                  *)
LEMMA CompleteConfirmed ==
    ASSUME ConfirmedInv, TypeOK', NEW q \in reqs, CompleteStep(q)
    PROVE  ConfirmedInv'
<1>0. /\ TypeOK /\ q.run \in Runs /\ run[q.run] \in Row /\ ReqOK(q)
      /\ q.snap \in Row /\ q \in Req /\ q.kind = "complete"
      /\ q.attempt # 0 /\ run[q.run].attempt # 0
      /\ run[q.run].status # "absent" /\ Honest(run[q.run], q.run)
  <2>1. TypeOK /\ ReqOK(q) /\ \A r \in Runs : Honest(run[r], r)
    BY Parts
  <2>2. q.kind = "complete"
    BY DEF CompleteStep, CompleteLoad, CompleteWrite, CompleteRevoke,
           CompleteRelease
  <2>3. /\ q.run \in Runs /\ run[q.run] \in Row
        /\ q.snap \in Row /\ q \in Req
    BY <2>1, Elements
  <2>4. q.attempt # 0 /\ run[q.run].attempt # 0
    BY <2>1, <2>2 DEF ReqOK
  <2>5. run[q.run].status # "absent"
    BY <2>3, <2>4, Parts DEF EmptyRow
  <2> QED
    BY <2>1, <2>2, <2>3, <2>4, <2>5
<1>1. CASE CompleteLoad(q)
  <2>1. /\ UNCHANGED <<run, launcher, enacted, confirmed, reviewed>>
        /\ execs' \subseteq execs
    BY <1>1 DEF CompleteLoad, Ended
  <2>2. Keeps
    BY <1>0, <2>1, KeepsAll
  <2> DEFINE x == [q EXCEPT !.pc = "write", !.snap = run[q.run]]
  <2>3. \A y \in reqs' : y \in reqs \/ y = x
    BY <1>1 DEF CompleteLoad, Answer
  <2>4. /\ x.kind = "complete" /\ x.run = q.run /\ x.attempt = q.attempt
        /\ x.snap = run[q.run]
    BY <1>0 DEF Req
  <2> HIDE DEF x
  <2>5. \A y : y.kind = "complete" /\ y.run = q.run /\ y.attempt = q.attempt
                 /\ y.snap = run[q.run] => ReqOK(y)'
    BY <1>0, <2>1 DEF ReqOK, Honest, Sanctioned
  <2>6. \A y \in reqs' : y \in reqs \/ ReqOK(y)'
    BY <2>3, <2>4, <2>5
  <2> QED
    BY <2>1, <2>2, <2>6, Frame
<1>2. CASE CompleteWrite(q)
  <2> DEFINE planned == q.outcome = "completed" /\ q.snap.status = "planning"
             row == IF EndsApply(q) THEN AfterApply(q.run) ELSE Saved(q)
  <2>1. /\ Set(q.run, row) /\ Advance(q, "revoke")
        /\ UNCHANGED <<launcher, execs, enacted, confirmed>>
        /\ reviewed' = IF planned THEN [reviewed EXCEPT ![q.run] = q.attempt]
                                  ELSE reviewed
    BY <1>2 DEF CompleteWrite
  <2>2. /\ Honest(q.snap, q.run) /\ q.snap.attempt # 0
        /\ q.snap.status # "absent" /\ q.snap.kind = run[q.run].kind
    BY <1>0, <1>2 DEF CompleteWrite, ReqOK
  <2>3. /\ \A x \in Runs : reviewed[x] # 0 => reviewed'[x] # 0
        /\ planned => reviewed'[q.run] # 0
    BY <1>0, <2>1 DEF TypeOK
  <2>4. /\ row.kind = run[q.run].kind /\ row.attempt # 0
        /\ row.status # "absent"
        /\ row.status \in PastPlan \/ row.lost =>
              planned \/ reviewed[q.run] # 0
        /\ row.status \in {"pre_apply_running", "applying"} =>
              Sanctioned(q.run)
    <3>1. CASE EndsApply(q)
      BY <1>0, <3>1 DEF AfterApply, Row, Honest, PastPlan
    <3>2. CASE ~EndsApply(q) /\ planned
      <4>1. row = AfterPlan(q.snap)
        BY <3>2 DEF Saved
      <4>2. /\ row.kind = q.snap.kind /\ row.attempt = q.snap.attempt
            /\ row.status \in {"post_plan_running", "planned", "applying"}
            /\ row.status = "applying" => q.snap.kind.auto
        BY <1>0, <4>1 DEF AfterPlan, Unclaimed, Row
      <4> QED
        BY <2>2, <3>2, <4>2 DEF Sanctioned
    <3>3. CASE ~EndsApply(q) /\ ~planned
      <4>1. \/ row = [q.snap EXCEPT !.status = "failed", !.lost = FALSE]
            \/ row = [q.snap EXCEPT !.status = "cancelled"]
            \/ row = q.snap
        BY <3>3 DEF Saved
      <4>2. /\ row.kind = q.snap.kind /\ row.attempt = q.snap.attempt
            /\ row.lost => q.snap.lost
            /\ row.status \in {"failed", "cancelled", q.snap.status}
        BY <1>0, <4>1 DEF Row
      <4> QED
        BY <2>2, <4>2 DEF Honest, PastPlan
    <3> QED
      BY <3>1, <3>2, <3>3
  <2> HIDE DEF row, planned
  <2>5. /\ Keeps /\ run'[q.run] = row
        /\ \A x \in Runs \ {q.run} : run'[x] = run[x]
    BY <1>0, <2>1, <2>3, <2>4, KeepsSet
  <2>6. Honest(run[q.run], q.run)'
    BY <1>0, <2>3, <2>4, <2>5, Kept DEF Honest
  <2>7. \A x \in reqs' : x \in reqs \/ ReqOK(x)'
    BY <1>0, <2>1, <2>5, AdvanceOK
  <2> QED
    BY <2>1, <2>5, <2>6, <2>7, RowFrame
<1>3. CASE CompleteRevoke(q) \/ CompleteRelease(q)
  <2>1. /\ UNCHANGED <<run, launcher, enacted, confirmed, reviewed>>
        /\ execs' \subseteq execs
        /\ Advance(q, "release") \/ Answer(q)
    BY <1>3 DEF CompleteRevoke, CompleteRelease, Ended
  <2>2. Keeps
    BY <1>0, <2>1, KeepsAll
  <2>3. \A x \in reqs' : x \in reqs \/ ReqOK(x)'
    BY <1>0, <2>1, <2>2, AdvanceOK
  <2> QED
    BY <2>1, <2>2, <2>3, Frame
<1> QED
  BY <1>1, <1>2, <1>3 DEF CompleteStep

(* The monitor: a plan goes back to pending, an apply fails.               *)
LEMMA MonitorConfirmed ==
    ASSUME ConfirmedInv, TypeOK', MonitorStep
    PROVE  ConfirmedInv'
<1>0. /\ TypeOK /\ \A r \in Runs : run[r] \in Row
  BY Parts DEF TypeOK
<1>1. UNCHANGED <<launcher, execs, enacted, confirmed, reviewed, reqs>>
  BY DEF MonitorStep, MonitorTick, ReleaseReservations, SettleLostWork,
         UnlockLost, RevokeLost
<1>2. CASE UNCHANGED run
  BY <1>0, <1>1, <1>2, KeepsAll, RowFrame
<1>3. CASE ReleaseReservations
  <2>1. run' = [r \in Runs |-> IF r \in StaleReservations
                                THEN [run[r] EXCEPT !.runner = NoRunner]
                                ELSE run[r]]
    BY <1>3 DEF ReleaseReservations
  <2>2. \A r \in StaleReservations : run[r].status # "absent"
    BY DEF StaleReservations, Startable
  <2>3. Keeps
    BY <1>0, <1>1, <2>1, <2>2 DEF Keeps, Row
  <2>4. ASSUME NEW r \in Runs PROVE run'[r] = run[r] \/ Honest(run[r], r)'
    <3>1. CASE r \in StaleReservations
      BY <1>0, <2>1, <2>3, <3>1, HonestEdit DEF Row
    <3> QED
      BY <2>1, <3>1
  <2> QED
    BY <1>1, <2>3, <2>4, RowFrame
<1>4. CASE SettleLostWork
  <2>1. run' = [r \in Runs |->
                 IF r \notin LostRuns THEN run[r]
                 ELSE IF run[r].status = "planning"
                   THEN [Unclaimed(run[r]) EXCEPT !.status = "pending"]
                   ELSE [run[r] EXCEPT !.status = "failed", !.lost = TRUE]]
    BY <1>4 DEF SettleLostWork
  <2>2. \A r \in LostRuns : run[r].status \in {"planning", "applying"}
    BY DEF LostRuns, Working
  <2>3. Keeps
    BY <1>0, <1>1, <2>1, <2>2 DEF Keeps, Row, Unclaimed
  <2>4. ASSUME NEW r \in Runs PROVE run'[r] = run[r] \/ Honest(run[r], r)'
    <3>1. CASE r \in LostRuns /\ run[r].status = "planning"
      <4>1. run'[r] = [Unclaimed(run[r]) EXCEPT !.status = "pending"]
        BY <2>1, <3>1
      <4>2. run'[r].status = "pending" /\ run'[r].lost = run[r].lost
        BY <1>0, <4>1 DEF Row, Unclaimed
      <4> QED
        BY <2>3, <4>2, HonestEdit DEF PastPlan
    <3>2. CASE r \in LostRuns /\ run[r].status = "applying"
      <4>1. run'[r] = [run[r] EXCEPT !.status = "failed", !.lost = TRUE]
        BY <2>1, <3>2
      <4>2. run'[r].status = "failed"
        BY <1>0, <4>1 DEF Row
      <4>3. reviewed[r] # 0
        BY <3>2, Parts DEF Honest, PastPlan
      <4> QED
        BY <1>1, <4>2, <4>3 DEF Honest, PastPlan
    <3> QED
      BY <2>1, <2>2, <3>1, <3>2
  <2> QED
    BY <1>1, <2>3, <2>4, RowFrame
<1> QED
  BY <1>2, <1>3, <1>4 DEF MonitorStep, MonitorTick, UnlockLost, RevokeLost

LEMMA InitConfirmed == Init => ConfirmedInv
<1> SUFFICES ASSUME Init PROVE ConfirmedInv
  OBVIOUS
<1>1. /\ EmptyRow.status = "absent" /\ EmptyRow.lost = FALSE
      /\ Idle.pc = "poll"
  BY DEF EmptyRow, Idle
<1>2. TypeOK
  BY InitTypes
<1>3. \A r \in Runs : run[r] = EmptyRow /\ Honest(run[r], r)
  BY <1>1 DEF Init, Honest, PastPlan
<1> QED
  BY <1>1, <1>2, <1>3, Parts DEF Init

LEMMA NextConfirmed == ConfirmedInv /\ [Next]_vars => ConfirmedInv'
<1> SUFFICES ASSUME ConfirmedInv, [Next]_vars PROVE ConfirmedInv'
  OBVIOUS
<1>0. TypeOK /\ TypeOK'
  BY Parts, NextTypes
<1>1. ASSUME NEW r \in Runs, UserStep(r) \/ StageStep(r) PROVE ConfirmedInv'
  BY <1>0, <1>1, UserConfirmed
<1>2. ASSUME NEW w \in Workspaces, LockWorkspace(w) \/ UnlockWorkspace(w)
      PROVE  ConfirmedInv'
  <2>1. UNCHANGED <<run, launcher, execs, enacted, confirmed, reviewed, reqs>>
    BY <1>2 DEF LockWorkspace, UnlockWorkspace
  <2> QED
    BY <1>0, <2>1, KeepsAll, RowFrame
<1>3. ASSUME NEW n \in Runners, LauncherStep(n) \/ FaultStep(n)
      PROVE  ConfirmedInv'
  BY <1>0, <1>3, LauncherConfirmed
<1>4. ASSUME NEW q \in reqs, HandlerStep(q) PROVE ConfirmedInv'
  BY <1>0, <1>4, StartConfirmed, PutConfirmed, CompleteConfirmed
     DEF HandlerStep
<1>5. ASSUME NEW e \in execs, ExecStep(e) PROVE ConfirmedInv'
  BY <1>0, <1>5, ExecConfirmed
<1>6. CASE MonitorStep
  BY <1>0, <1>6, MonitorConfirmed
<1>7. CASE UNCHANGED vars
  <2>1. UNCHANGED <<run, launcher, execs, enacted, confirmed, reviewed, reqs>>
    BY <1>7 DEF vars
  <2> QED
    BY <1>0, <2>1, KeepsAll, RowFrame
<1> QED
  BY <1>1, <1>2, <1>3, <1>4, <1>5, <1>6, <1>7 DEF Next

(* No engine ever applies a run before a plan of it was accepted and, unless *)
(* the run applies automatically, a user confirmed it: not when reports are *)
(* resent, late or sent by orphans, not when work is settled, re-queued or *)
(* canceled, and whatever the number of runs, runners and attempts.        *)
THEOREM Confirmed == Spec => []EnactedWasConfirmed
<1>1. Init => ConfirmedInv
  BY InitConfirmed
<1>2. ConfirmedInv /\ [Next]_vars => ConfirmedInv'
  BY NextConfirmed
<1>3. ConfirmedInv => EnactedWasConfirmed
  BY DEF ConfirmedInv
<1> QED
  BY <1>1, <1>2, <1>3, PTL DEF Spec

-----------------------------------------------------------------------------
(* Facts about the rows and requests of a state.                           *)
LEMMA StateFacts ==
    ASSUME ConfirmedInv
    PROVE  /\ TypeOK
           /\ run \in [Runs -> Row] /\ \A r \in Runs : run[r] \in Row
           /\ \A q \in reqs : q \in Req /\ q.run \in Runs /\ run[q.run] \in Row
           /\ \A e \in execs : e \in Exec /\ e.run \in Runs /\ run[e.run] \in Row
           /\ launcher \in [Runners -> Launcher]
<1>1. TypeOK
  BY Parts
<1> QED
  BY <1>1, Elements DEF TypeOK

LEMMA SetRow ==
    ASSUME ConfirmedInv, NEW r \in Runs, NEW row, Set(r, row)
    PROVE  run'[r] = row /\ \A x \in Runs \ {r} : run'[x] = run[x]
BY StateFacts DEF Set

-----------------------------------------------------------------------------
(* A settled cancellation.  A step keeps it when it leaves the run canceled *)
(* and brings no handler to a write that would change that.                *)
LEMMA SettledFrame ==
    ASSUME NEW r \in Runs, Settled(r), run'[r].status = run[r].status,
           \A q \in reqs' : q \in reqs \/ q.run # r \/ ~Undoes(q)
    PROVE  Settled(r)'
BY DEF Settled, Undoes

(* Users and task stages leave a canceled run alone.                       *)
LEMMA UsersSettle ==
    ASSUME TypeOK, NEW r \in Runs, Settled(r),
           NEW x \in Runs, UserStep(x) \/ StageStep(x)
    PROVE  Settled(r)'
<1>1. /\ run \in [Runs -> Row] /\ run[r].status = "cancelled"
      /\ \A y \in Runs : run[y] \in Row
  BY DEF TypeOK, Settled
<1>2. /\ ~Undoes(UserReq("cancel", "release", x))
      /\ ~Undoes(UserReq("force", "write", x))
  BY DEF UserReq, Request, Undoes
<1>3. run'[r].status = run[r].status
  <2>1. CASE Create(x)
    BY <1>1, <2>1 DEF Create, Conflicts
  <2>2. ASSUME NEW row, Set(x, row), run[x].status # "cancelled"
        PROVE  run'[r].status = run[r].status
    BY <1>1, <2>2 DEF Set
  <2>3. CASE Apply(x)
    BY <2>2, <2>3 DEF Apply, Confirmable
  <2>4. CASE Cancel(x) \/ ForceCancel(x)
    BY <2>2, <2>4 DEF Cancel, ForceCancel, CancelFrom
  <2>5. CASE Discard(x)
    BY <2>2, <2>5 DEF Discard
  <2>6. CASE ForceExecute(x)
    BY <2>6 DEF ForceExecute
  <2>7. CASE BeginPrePlan(x)
    BY <2>2, <2>7 DEF BeginPrePlan
  <2>8. CASE ContinueRun(x)
    BY <2>2, <2>8 DEF ContinueRun
  <2> QED
    BY <2>1, <2>3, <2>4, <2>5, <2>6, <2>7, <2>8 DEF UserStep, StageStep
<1>4. \A q \in reqs' : q \in reqs \/ ~Undoes(q)
  <2>1. CASE Cancel(x) \/ ForceCancel(x) \/ ForceExecute(x)
    BY <1>2, <2>1 DEF Cancel, ForceCancel, CancelFrom, ForceExecute
  <2>2. CASE Create(x) \/ Apply(x) \/ Discard(x) \/ StageStep(x)
    BY <2>2 DEF Create, Apply, Discard, StageStep, BeginPrePlan, ContinueRun
  <2> QED
    BY <2>1, <2>2 DEF UserStep
<1> QED
  BY <1>3, <1>4, SettledFrame

(* So do launchers, their faults, and executors: the requests they make     *)
(* start at a step that reads the run.                                     *)
LEMMA LaunchersSettle ==
    ASSUME TypeOK, NEW r \in Runs, Settled(r),
           NEW n \in Runners, LauncherStep(n) \/ FaultStep(n)
    PROVE  Settled(r)'
<1>1. /\ run \in [Runs -> Row] /\ \A y \in Runs : run[y] \in Row
  BY DEF TypeOK
<1>2. \A o, job, attempt :
         /\ ~Undoes(LauncherReq("start", "claim", n, o, job, attempt))
         /\ ~Undoes(LauncherReq("token", "write", n, o, job, attempt))
  BY DEF LauncherReq, Request, Undoes
<1>3. CASE Heartbeat(n)
  <2>1. run'[r].status = run[r].status /\ reqs' = reqs
    BY <1>1, <1>3 DEF Heartbeat, Row
  <2> QED
    BY <2>1, SettledFrame
<1>4. CASE JobStart(n)
  <2>1. run' = run
    BY <1>4 DEF JobStart
  <2>2. PICK o \in offers[n] :
          \/ reqs' = reqs
          \/ reqs' = reqs \cup {LauncherReq("start", "claim", n, o, FALSE, 0)}
    BY <1>4 DEF JobStart
  <2>3. ~Undoes(LauncherReq("start", "claim", n, o, FALSE, 0))
    BY <1>2
  <2>4. \A q \in reqs' : q \in reqs \/ ~Undoes(q)
    BY <2>2, <2>3
  <2> QED
    BY <2>1, <2>4, SettledFrame
<1>5. CASE JobToken(n)
  <2>1. run' = run
    BY <1>5 DEF JobToken
  <2> DEFINE token == LauncherReq("token", "write", n, launcher[n], FALSE,
                                  run[launcher[n].run].attempt)
  <2>2. reqs' = reqs \/ reqs' = reqs \cup {token}
    BY <1>5 DEF JobToken
  <2>3. ~Undoes(token)
    BY <1>2
  <2> HIDE DEF token
  <2>4. \A q \in reqs' : q \in reqs \/ ~Undoes(q)
    BY <2>2, <2>3
  <2> QED
    BY <2>1, <2>4, SettledFrame
<1>6. CASE Register(n) \/ FaultStep(n)
  <2>1. run' = run /\ reqs' = reqs
    BY <1>6 DEF Register, FaultStep, LauncherGivesUp, Crash, MarkOffline
  <2> QED
    BY <2>1, SettledFrame
<1> QED
  BY <1>3, <1>4, <1>5, <1>6 DEF LauncherStep

LEMMA ExecsSettle ==
    ASSUME TypeOK, NEW r \in Runs, Settled(r),
           NEW e \in execs, ExecStep(e)
    PROVE  Settled(r)'
<1>1. \A o, row : /\ ~Undoes(Request("plan", "write", e, o, row))
                  /\ ~Undoes(Request("complete", "load", e, o, row))
  BY DEF Request, Undoes
<1>2. run' = run
  BY DEF ExecStep, ExecFetch, ExecEngine, UploadPlan, ExecReport
<1>3. \A q \in reqs' : q \in reqs \/ ~Undoes(q)
  <2>1. CASE ExecFetch(e) \/ \E o \in Outcomes : ExecEngine(e, o)
    BY <2>1 DEF ExecFetch, ExecEngine
  <2>2. CASE UploadPlan(e)
    <3>1. \/ reqs' = reqs
          \/ reqs' = reqs \cup
                       {Request("plan", "write", e, "completed", run[e.run])}
      BY <2>2 DEF UploadPlan
    <3> QED
      BY <1>1, <3>1
  <2>3. CASE ExecReport(e)
    BY <1>1, <2>3 DEF ExecReport
  <2> QED
    BY <2>1, <2>2, <2>3 DEF ExecStep
<1> QED
  BY <1>2, <1>3, SettledFrame

(* A handler writes its own run, and none at such a write is about r: a     *)
(* claim is refused, and a report loads the cancellation.                  *)
LEMMA HandlersSettle ==
    ASSUME TypeOK, NEW r \in Runs, Settled(r),
           NEW q \in reqs, HandlerStep(q)
    PROVE  Settled(r)'
<1>1. /\ run \in [Runs -> Row] /\ \A y \in Runs : run[y] \in Row
      /\ q \in Req /\ q.run \in Runs /\ q.snap \in Row
      /\ run[r].status = "cancelled"
      /\ q.run = r => ~Undoes(q)
  BY Elements DEF TypeOK, Settled
<1>2. \A p \in reqs' : p \in reqs \/ p.run = q.run
  <2>1. ASSUME \/ reqs' \subseteq reqs
               \/ \E p : p.run = q.run /\ reqs' = (reqs \ {q}) \cup {p}
        PROVE  \A p \in reqs' : p \in reqs \/ p.run = q.run
    BY <2>1
  <2>2. \A pc, row : /\ [q EXCEPT !.pc = pc].run = q.run
                     /\ [q EXCEPT !.pc = pc, !.snap = row].run = q.run
    BY <1>1 DEF Req
  <2>3. CASE StartStep(q)
    BY <2>1, <2>2, <2>3 DEF StartStep, StartClaim, StartLock, StartWrite,
       StartRevoke, Advance, Answer
  <2>4. CASE CompleteStep(q)
    BY <2>1, <2>2, <2>4 DEF CompleteStep, CompleteLoad, CompleteWrite,
       CompleteRevoke, CompleteRelease, Advance, Answer
  <2>5. CASE \/ TokenMint(q) \/ UploadPut(q) \/ CancelRelease(q)
             \/ ForceClear(q)
    BY <2>1, <2>5 DEF TokenMint, UploadPut, CancelRelease, ForceClear, Answer
  <2> QED
    BY <2>3, <2>4, <2>5 DEF HandlerStep
<1>3. CASE q.run # r
  <2>1. run'[r] = run[r]
    BY <1>1, <1>3 DEF HandlerStep, StartStep, CompleteStep, StartClaim,
       StartLock, StartWrite, StartRevoke, TokenMint, UploadPut, CompleteLoad,
       CompleteWrite, CompleteRevoke, CompleteRelease, CancelRelease,
       ForceClear, Set
  <2> QED
    BY <1>2, <1>3, <2>1, SettledFrame
<1>4. ASSUME UNCHANGED run, Answer(q) PROVE Settled(r)'
  BY <1>4, SettledFrame DEF Answer
<1>5. CASE q.run = r /\ StartStep(q)
  <2>1. ~StartLock(q) /\ ~StartWrite(q)
    BY <1>1, <1>5 DEF StartLock, StartWrite, Undoes
  <2>2. CASE StartClaim(q)
    <3>1. ~Dispatchable(run[q.run])
      BY <1>1, <1>5 DEF Dispatchable, Startable
    <3> QED
      BY <1>4, <2>2, <3>1 DEF StartClaim
  <2>3. CASE StartRevoke(q)
    BY <1>4, <2>3 DEF StartRevoke
  <2> QED
    BY <1>5, <2>1, <2>2, <2>3 DEF StartStep
<1>6. CASE q.run = r /\ CompleteStep(q)
  <2>1. CASE CompleteLoad(q)
    <3>1. ~Undoes([q EXCEPT !.pc = "write", !.snap = run[q.run]])
      BY <1>1, <1>6, <2>1 DEF Undoes, CompleteLoad, Req
    <3>2. run' = run /\ \A p \in reqs' : p \in reqs \/ ~Undoes(p)
      BY <2>1, <3>1 DEF CompleteLoad, Answer
    <3> QED
      BY <3>2, SettledFrame
  <2>2. CASE CompleteWrite(q)
    <3>1. q.snap.status = "cancelled" /\ q.kind = "complete"
      BY <1>1, <1>6, <2>2 DEF CompleteWrite, Undoes
    <3>2. ~EndsApply(q) /\ Saved(q).status = "cancelled"
      <4>1. [q.snap EXCEPT !.status = "cancelled"].status = "cancelled"
        BY <1>1 DEF Row
      <4> QED
        BY <3>1, <4>1 DEF EndsApply, Saved
    <3>3. run'[r].status = run[r].status
      BY <1>1, <1>6, <2>2, <3>2 DEF CompleteWrite, Set
    <3>4. ~Undoes([q EXCEPT !.pc = "revoke"])
      BY <1>1, <3>1 DEF Undoes, Req
    <3>5. \A p \in reqs' : p \in reqs \/ ~Undoes(p)
      BY <2>2, <3>4 DEF CompleteWrite, Advance
    <3> QED
      BY <3>3, <3>5, SettledFrame
  <2>3. CASE CompleteRevoke(q)
    <3>1. ~Undoes([q EXCEPT !.pc = "release"])
      BY <1>1, <2>3 DEF CompleteRevoke, Undoes, Req
    <3>2. run' = run /\ \A p \in reqs' : p \in reqs \/ ~Undoes(p)
      BY <2>3, <3>1 DEF CompleteRevoke, Advance
    <3> QED
      BY <3>2, SettledFrame
  <2>4. CASE CompleteRelease(q)
    BY <1>4, <2>4 DEF CompleteRelease
  <2> QED
    BY <1>6, <2>1, <2>2, <2>3, <2>4 DEF CompleteStep
<1>7. CASE q.run = r /\ ForceClear(q)
  <2>1. run'[r].status = run[r].status
    BY <1>1, <1>7 DEF ForceClear, Set, Unclaimed, Row
  <2>2. \A p \in reqs' : p \in reqs
    BY <1>7 DEF ForceClear, Answer
  <2> QED
    BY <2>1, <2>2, SettledFrame
<1>8. CASE TokenMint(q) \/ UploadPut(q) \/ CancelRelease(q)
  BY <1>4, <1>8 DEF TokenMint, UploadPut, CancelRelease
<1> QED
  BY <1>3, <1>5, <1>6, <1>7, <1>8 DEF HandlerStep

LEMMA NextSettles ==
    ASSUME TypeOK, [Next]_vars, NEW r \in Runs, Settled(r)
    PROVE  Settled(r)'
<1>1. CASE MonitorStep
  <2>1. run[r] \in Row /\ run[r].status = "cancelled" /\ r \notin LostRuns
    BY DEF TypeOK, Settled, LostRuns, Working
  <2>2. reqs' = reqs
    BY <1>1 DEF MonitorStep, MonitorTick, ReleaseReservations, SettleLostWork,
       UnlockLost, RevokeLost
  <2>3. run'[r].status = run[r].status
    <3>1. CASE ReleaseReservations
      BY <2>1, <3>1 DEF ReleaseReservations, Row
    <3>2. CASE SettleLostWork
      BY <2>1, <3>2 DEF SettleLostWork
    <3>3. CASE MonitorTick \/ \E x \in Runs : UnlockLost(x) \/ RevokeLost(x)
      BY <3>3 DEF MonitorTick, UnlockLost, RevokeLost
    <3> QED
      BY <1>1, <3>1, <3>2, <3>3 DEF MonitorStep
  <2> QED
    BY <2>2, <2>3, SettledFrame
<1>2. CASE \/ \E w \in Workspaces : LockWorkspace(w) \/ UnlockWorkspace(w)
           \/ UNCHANGED vars
  <2>1. run' = run /\ reqs' = reqs
    BY <1>2 DEF LockWorkspace, UnlockWorkspace, vars
  <2> QED
    BY <2>1, SettledFrame
<1> QED
  BY <1>1, <1>2, UsersSettle, LaunchersSettle, HandlersSettle, ExecsSettle
     DEF Next

(* However many requests the API serves at once and whatever is lost, a      *)
(* canceled run that no start or report was about to write stays canceled. *)
THEOREM CanceledForGood == Spec => CancelSettles
<1>1. TypeOK /\ [Next]_vars => \A r \in Runs : Settled(r) => Settled(r)'
  BY NextSettles
<1> QED
  BY <1>1, TypeCorrect, PTL DEF Spec, CancelSettles

=============================================================================
