---------------------- MODULE RunDispatchOverlapProofs ----------------------
(* What RunDispatch guarantees of attempts, executors and job tokens however *)
(* many requests the API serves at once, as long as nothing is lost: the    *)
(* statements of any number of starts, token requests, uploads, reports,    *)
(* cancellations and stages interleave, launchers drop offers and requests  *)
(* they are waiting for, and runners hold job tokens or do not.            *)
EXTENDS RunDispatchProofs

USE ConstantsAssumption DEF runnerVars, jobVars, planVars

(* No machine fails, no runner falls silent, no answer is lost or repeated;  *)
NoLosses == MaxLosses = 0
(* and nobody locks a workspace by hand, so that no run is forced: a forced *)
(* execution clears the claim of its run without looking at it again.      *)
NeverLocked == Lockable = {}

FaultFree ==
    /\ locked = {}
    /\ \A n \in Runners : online[n] /\ launcher[n].pc # "down"
    /\ monitor.pc = "idle" /\ monitor.lost = {} /\ monitor.revoke = {}
    /\ \A q \in reqs : q.kind # "force"

-----------------------------------------------------------------------------
(* Requests and executors, as their steps change them.                     *)

LEMMA UserReqFields ==
    ASSUME NEW kind, NEW pc, NEW r
    PROVE  /\ UserReq(kind, pc, r).kind = kind /\ UserReq(kind, pc, r).pc = pc
           /\ UserReq(kind, pc, r).run = r
           /\ UserReq(kind, pc, r).snap = run[r]
BY DEF UserReq, Request

(* The request p continues q at pc.                                        *)
Continues(p, q, pc) ==
    /\ p.kind = q.kind /\ p.pc = pc /\ p.run = q.run /\ p.runner = q.runner
    /\ p.attempt = q.attempt /\ p.phase = q.phase /\ p.job = q.job
    /\ p.outcome = q.outcome /\ p.snap = q.snap

(* A report that loads its run goes on with the row, or is refused.        *)
SameReport(p, q) ==
    /\ p.kind = q.kind /\ p.run = q.run /\ p.runner = q.runner
    /\ p.attempt = q.attempt /\ p.phase = q.phase /\ p.job = q.job
    /\ p.outcome = q.outcome

(* Executors.  How the set of executors moves: an executor goes on as the   *)
(* executor of its attempt, or is gone.                                    *)
SameExec(f, e) == /\ f.run = e.run /\ f.runner = e.runner
                  /\ f.attempt = e.attempt /\ f.phase = e.phase
                  /\ f.job = e.job
CarriedOn == /\ \A f \in execs' : \E e \in execs : SameExec(f, e)
             /\ OneExecutorPerAttempt => OneExecutorPerAttempt'

LEMMA FewerExecs == execs' \subseteq execs => CarriedOn
BY DEF CarriedOn, SameExec, OneExecutorPerAttempt

LEMMA NextExec ==
    ASSUME NEW e \in execs, NEW f, Become(e, f), SameExec(f, e)
    PROVE  CarriedOn
<1>1. \A g \in execs' : g = f \/ (g \in execs /\ g # e)
  BY DEF Become
<1>2. \A g \in execs' : \E x \in execs : SameExec(g, x)
  BY <1>1 DEF SameExec
<1>3. OneExecutorPerAttempt => OneExecutorPerAttempt'
  BY <1>1 DEF SameExec, OneExecutorPerAttempt
<1> QED
  BY <1>2, <1>3 DEF CarriedOn

(* What each step of an executor makes of it.                              *)
Fetched(e, f) ==
    /\ SameExec(f, e) /\ Become(e, f) /\ e.pc = "fetch"
    /\ \/ /\ f.pc = "engine"
          /\ e.phase = "apply" => /\ run[e.run].status = "applying"
                                  /\ f.plan = plan[e.run]
       \/ f.pc = "report" /\ f.outcome = "failed"
Worked(e, f, o) ==
    /\ SameExec(f, e) /\ Become(e, f) /\ e.pc = "engine"
    /\ \/ f.pc = "upload" /\ e.phase = "plan" /\ o = "completed"
       \/ /\ f.pc = "report" /\ f.outcome = o
          /\ e.phase = "apply" \/ o # "completed"
Uploading(e, f) ==
    /\ SameExec(f, e) /\ Become(e, f) /\ e.pc = "upload"
    /\ \/ f.pc = "uploading"
       \/ f.pc = "report" /\ f.outcome = "failed"
Reporting(e, f) ==
    /\ SameExec(f, e) /\ Become(e, f) /\ e.pc \in {"report", "sent"}
    /\ f.pc = "sent" /\ f.outcome = e.outcome

LEMMA ExecChanges ==
    ASSUME ConfirmedInv, NEW e \in execs
    PROVE  /\ ExecFetch(e) => \E f : Fetched(e, f)
           /\ \A o \in Outcomes : ExecEngine(e, o) => \E f : Worked(e, f, o)
           /\ UploadPlan(e) => \E f : Uploading(e, f)
           /\ ExecReport(e) => \/ \E f : Reporting(e, f)
                               \/ execs' = execs \ {e} /\ reqs' = reqs
<1>0. e \in Exec
  BY StateFacts
<1>a. ASSUME NEW pc
      PROVE  \E f : /\ f = [e EXCEPT !.pc = pc] /\ SameExec(f, e)
                    /\ f.pc = pc /\ f.outcome = e.outcome
  <2> DEFINE f == [e EXCEPT !.pc = pc]
  <2>1. SameExec(f, e) /\ f.pc = pc /\ f.outcome = e.outcome
    BY <1>0 DEF Exec, SameExec
  <2> QED
    BY <2>1
<1>b. ASSUME NEW o
      PROVE  \E f : /\ f = [e EXCEPT !.pc = "report", !.outcome = o]
                    /\ SameExec(f, e) /\ f.pc = "report" /\ f.outcome = o
  <2> DEFINE f == [e EXCEPT !.pc = "report", !.outcome = o]
  <2>1. SameExec(f, e) /\ f.pc = "report" /\ f.outcome = o
    BY <1>0 DEF Exec, SameExec
  <2> QED
    BY <2>1
<1>c. ASSUME NEW o
      PROVE  \E f : /\ f = [e EXCEPT !.pc = "engine", !.plan = o]
                    /\ SameExec(f, e) /\ f.pc = "engine" /\ f.plan = o
  <2> DEFINE f == [e EXCEPT !.pc = "engine", !.plan = o]
  <2>1. SameExec(f, e) /\ f.pc = "engine" /\ f.plan = o
    BY <1>0 DEF Exec, SameExec
  <2> QED
    BY <2>1
<1>d. PICK failed : /\ failed = [e EXCEPT !.pc = "report", !.outcome = "failed"]
                    /\ SameExec(failed, e) /\ failed.pc = "report"
                    /\ failed.outcome = "failed"
  BY <1>b
<1>2. ASSUME ExecFetch(e) PROVE \E f : Fetched(e, f)
  <2>1. CASE Become(e, failed)
    <3>1. Fetched(e, failed)
      BY <1>d, <1>2, <2>1 DEF Fetched, ExecFetch
    <3> QED
      BY <3>1
  <2>2. CASE ~Become(e, failed)
    <3>1. PICK o : o = IF e.phase = "apply" THEN plan[e.run] ELSE 0
      OBVIOUS
    <3>2. PICK f : /\ f = [e EXCEPT !.pc = "engine", !.plan = o]
                   /\ SameExec(f, e) /\ f.pc = "engine" /\ f.plan = o
      BY <1>c
    <3>3. /\ e.pc = "fetch" /\ Become(e, f)
          /\ e.phase = "plan" \/ run[e.run].status = "applying"
      BY <1>2, <1>d, <2>2, <3>1, <3>2 DEF ExecFetch
    <3>4. Fetched(e, f)
      BY <3>1, <3>2, <3>3 DEF Fetched
    <3> QED
      BY <3>4
  <2> QED
    BY <2>1, <2>2
<1>3. ASSUME NEW o \in Outcomes, ExecEngine(e, o) PROVE \E f : Worked(e, f, o)
  <2>1. CASE e.phase = "plan" /\ o = "completed"
    <3>1. PICK f : /\ f = [e EXCEPT !.pc = "upload"]
                   /\ SameExec(f, e) /\ f.pc = "upload"
      BY <1>a
    <3>2. Worked(e, f, o)
      BY <1>3, <2>1, <3>1 DEF Worked, ExecEngine
    <3> QED
      BY <3>2
  <2>2. CASE ~(e.phase = "plan" /\ o = "completed")
    <3>1. PICK f : /\ f = [e EXCEPT !.pc = "report", !.outcome = o]
                   /\ SameExec(f, e) /\ f.pc = "report" /\ f.outcome = o
      BY <1>b
    <3>2. e.phase \in Phases
      BY <1>0 DEF Exec
    <3>3. Worked(e, f, o)
      BY <1>3, <2>2, <3>1, <3>2 DEF Worked, ExecEngine, Phases
    <3> QED
      BY <3>3
  <2> QED
    BY <2>1, <2>2
<1>4. ASSUME UploadPlan(e) PROVE \E f : Uploading(e, f)
  <2>1. PICK f : /\ f = [e EXCEPT !.pc = "uploading"]
                 /\ SameExec(f, e) /\ f.pc = "uploading"
    BY <1>a
  <2>2. e.pc = "upload" /\ (Become(e, f) \/ Become(e, failed))
    BY <1>4, <1>d, <2>1 DEF UploadPlan
  <2>3. Uploading(e, f) \/ Uploading(e, failed)
    BY <1>d, <2>1, <2>2 DEF Uploading
  <2> QED
    BY <2>3
<1>5. ASSUME ExecReport(e)
      PROVE  \/ \E f : Reporting(e, f)
             \/ execs' = execs \ {e} /\ reqs' = reqs
  <2>1. PICK f : /\ f = [e EXCEPT !.pc = "sent"] /\ SameExec(f, e)
                 /\ f.pc = "sent" /\ f.outcome = e.outcome
    BY <1>a
  <2>2. \/ Reporting(e, f)
        \/ execs' = execs \ {e} /\ reqs' = reqs
    BY <1>5, <2>1 DEF Reporting, ExecReport
  <2> QED
    BY <2>2
<1> QED
  BY <1>2, <1>3, <1>4, <1>5

(* The plan a served upload stored.                                        *)
PutBack(g, e, q) ==
    /\ SameExec(g, e)
    /\ \/ g = e
       \/ /\ e.pc = "uploading" /\ IsOf(e, q)
          /\ g.pc = "report" /\ g.outcome = "completed"
LEMMA PutChanges ==
    ASSUME ConfirmedInv, NEW q \in reqs, UploadPut(q)
    PROVE  /\ \A g \in execs' : \E e \in execs : PutBack(g, e, q)
           /\ CarriedOn
<1>1. \A e \in execs : e \in Exec
  BY StateFacts
<1> DEFINE g(e) == IF IsOf(e, q) /\ e.pc = "uploading"
                     THEN [e EXCEPT !.pc = "report", !.outcome = "completed"]
                     ELSE e
<1>2. ASSUME NEW e \in execs PROVE PutBack(g(e), e, q)
  BY <1>1, <1>2 DEF PutBack, SameExec, Exec
<1>3. execs' = {g(e) : e \in execs}
  BY DEF UploadPut
<1> HIDE DEF g
<1>4. \A f \in execs' : \E e \in execs : f = g(e) /\ PutBack(f, e, q)
  BY <1>2, <1>3
<1>5. OneExecutorPerAttempt => OneExecutorPerAttempt'
  BY <1>4 DEF OneExecutorPerAttempt, PutBack, SameExec
<1> QED
  BY <1>4, <1>5 DEF CarriedOn, PutBack

(* No executor of the run's current attempt is placed yet.                  *)
Unplaced(r) == \A e \in execs : e.run = r => e.attempt # run[r].attempt

-----------------------------------------------------------------------------
(* A run that a start may take has passed its pre_plan stage, and never goes *)
(* back to where the start that loaded its row did not find it.            *)
Ready == {"pending", "pre_plan_completed"}
Gated(row) == \/ row.status \in {"absent", "pre_plan_running"}
              \/ row.status = "pending" /\ "pre_plan" \in row.kind.stages
StartGate(q) == q.kind = "start" =>
    /\ ~Gated(run[q.run])
    /\ run[q.run].status \in Ready => q.snap.status \in Ready
OffersGate == \A n \in Runners : \A o \in offers[n] : ~Gated(run[o.run])
GateInv == OffersGate /\ \A q \in reqs : StartGate(q)

-----------------------------------------------------------------------------
(* The thread of a run's attempt: at any time one start, launcher, token     *)
(* request or executor carries it on, and the row says so.                 *)
Busy == Startable \cup Working \cup {"cancelled"}
InHand(r, n) == /\ run[r].claimed /\ run[r].runner = n
                /\ run[r].status \in Working \cup {"cancelled"}
(* A start past its claim, or a request for the job token;                  *)
Claimant(q) == \/ q.kind = "start" /\ q.pc \in {"lock", "write", "revoke"}
               \/ q.kind = "token"
(* a launcher that was answered and will ask for the token;                 *)
Placing(n, r) == launcher[n].pc = "token" /\ launcher[n].run = r
(* an executor whose report was not written yet.                            *)
Writing(c, r) == /\ c.kind = "complete" /\ c.run = r
                 /\ c.pc \in {"load", "write"}
Unanswered(e) == \/ e.pc # "sent"
                 \/ \E c \in reqs : Writing(c, e.run) /\ IsOf(e, c)
(* What the attempt has brought forth so far: nothing.                      *)
Fresh(r) == /\ Unplaced(r)
            /\ \A t \in tokens : t.run = r => t.attempt # run[r].attempt
Revoking(r) == \E c \in reqs : /\ c.kind = "complete" /\ c.pc = "revoke"
                             /\ c.run = r

ClaimantRow(q) ==
    IF q.kind = "start" /\ q.pc \in {"lock", "write"}
      THEN run[q.run].claimed /\ run[q.run].status \in Startable \cup {"cancelled"}
      ELSE InHand(q.run, q.runner)
ClaimantAlone(q) == Claimant(q) =>
    /\ Fresh(q.run) /\ ClaimantRow(q)
    /\ \A p \in reqs : Claimant(p) /\ p.run = q.run => p = q
    /\ \A n \in Runners : ~Placing(n, q.run)
    /\ q.kind = "token" => q.attempt = run[q.run].attempt
PlacingAlone(n, r) == Placing(n, r) => Fresh(r) /\ InHand(r, n)
ExecCurrent(e) ==
    /\ e.attempt <= run[e.run].attempt
    /\ Unanswered(e) => /\ InHand(e.run, e.runner)
                        /\ e.attempt = run[e.run].attempt
ReportAlone(c) == c.kind = "complete" =>
    /\ \E e \in execs : e.pc = "sent" /\ IsOf(e, c)
    /\ \A d \in reqs : /\ d.kind = "complete" /\ d.run = c.run
                       /\ d.attempt = c.attempt
                       => d = c
    /\ c.pc = "write" => /\ c.snap.attempt = run[c.run].attempt
                         /\ c.snap.runner = run[c.run].runner
                         /\ c.snap.claimed
                         /\ c.snap.status \in Working \cup {"cancelled"}
TokenCurrent(t) ==
    /\ t.attempt <= run[t.run].attempt
    /\ \/ InHand(t.run, t.runner) /\ t.attempt = run[t.run].attempt
       \/ Revoking(t.run)

ExecsOf(r)  == {e \in execs : e.run = r}
TokensOf(r) == {t \in tokens : t.run = r}
ReqsOf(r)   == {q \in reqs : q.run = r}
Thread(r) ==
    /\ \A e, f \in ExecsOf(r) : e.attempt = f.attempt => e = f
    /\ \A q \in ReqsOf(r) : ClaimantAlone(q) /\ ReportAlone(q)
    /\ \A n \in Runners : PlacingAlone(n, r)
    /\ \A e \in ExecsOf(r) : ExecCurrent(e)
    /\ \A t \in TokensOf(r) : TokenCurrent(t)
ThreadsInv == \A r \in Runs : Thread(r)

OverlapInv == ConfirmedInv /\ FaultFree /\ GateInv /\ ThreadsInv

-----------------------------------------------------------------------------
(* Without faults, nothing is lost, forced or settled.                     *)
UserMove(r) == Create(r) \/ Apply(r) \/ Cancel(r) \/ ForceCancel(r) \/ Discard(r)
FaultlessLauncher(n) ==
    Heartbeat(n) \/ JobStart(n) \/ JobToken(n) \/ LauncherGivesUp(n)
FaultlessHandler(q) == \/ StartStep(q) \/ TokenMint(q) \/ UploadPut(q)
                       \/ CompleteStep(q) \/ CancelRelease(q)
FaultlessStep ==
    \/ \E r \in Runs : UserMove(r) \/ StageStep(r)
    \/ \E n \in Runners : FaultlessLauncher(n)
    \/ \E q \in reqs : FaultlessHandler(q)
    \/ \E e \in execs : ExecStep(e)

LEMMA NothingLost == NoLosses /\ ConfirmedInv => ~Lose
<1> SUFFICES ASSUME NoLosses, ConfirmedInv PROVE ~Lose
  OBVIOUS
<1>1. losses \in Losses
  BY StateFacts DEF TypeOK
<1> QED
  BY <1>1 DEF Lose, Losses, NoLosses

LEMMA Faultless ==
    ASSUME NoLosses, NeverLocked, ConfirmedInv, FaultFree, Next
    PROVE  FaultlessStep
<1>1. ASSUME NEW r \in Runs PROVE ~ForceExecute(r)
  BY DEF FaultFree, ForceExecute
<1>2. ASSUME NEW w \in Workspaces PROVE ~LockWorkspace(w) /\ ~UnlockWorkspace(w)
  BY DEF FaultFree, NeverLocked, LockWorkspace, UnlockWorkspace
<1>3. ASSUME NEW n \in Runners
      PROVE  ~Register(n) /\ ~Crash(n) /\ ~MarkOffline(n)
  BY NothingLost DEF FaultFree, Register, Crash, MarkOffline
<1>4. ASSUME NEW q \in reqs PROVE ~ForceClear(q)
  BY DEF FaultFree, ForceClear
<1>5. ~MonitorStep
  <2>1. OfflineRunners = {}
    BY DEF FaultFree, OfflineRunners
  <2>2. StaleReservations = {} /\ LostRuns = {}
    BY <2>1 DEF StaleReservations, LostRuns
  <2>3. ~MonitorTick /\ ~ReleaseReservations /\ ~SettleLostWork
    BY <2>2 DEF FaultFree, MonitorTick, ReleaseReservations, SettleLostWork
  <2>4. \A r \in Runs : ~UnlockLost(r) /\ ~RevokeLost(r)
    BY DEF FaultFree, UnlockLost, RevokeLost
  <2> QED
    BY <2>3, <2>4 DEF MonitorStep
<1> QED
  BY <1>1, <1>2, <1>3, <1>4, <1>5
  DEF Next, FaultlessStep, UserStep, UserMove, LauncherStep, FaultStep,
      FaultlessLauncher, HandlerStep, FaultlessHandler

(* A handler goes on with its request, or a report with the row it loaded.  *)
LEMMA Advanced ==
    ASSUME ConfirmedInv, NEW q \in reqs,
           NEW pc \in {"lock", "write", "revoke", "release"}, Advance(q, pc)
    PROVE  \E p : Continues(p, q, pc) /\ reqs' = (reqs \ {q}) \cup {p}
<1>1. q \in Req
  BY StateFacts
<1>2. Continues([q EXCEPT !.pc = pc], q, pc)
  BY <1>1 DEF Continues, Req
<1> QED
  BY <1>2 DEF Advance

LEMMA Loaded ==
    ASSUME ConfirmedInv, NEW q \in reqs, CompleteLoad(q)
    PROVE  \/ /\ UNCHANGED execs
              /\ \E p : /\ SameReport(p, q) /\ p.pc = "write"
                        /\ p.snap = run[q.run]
                        /\ reqs' = (reqs \ {q}) \cup {p}
           \/ Answer(q) /\ Ended(q)
<1>1. q \in Req
  BY StateFacts
<1> DEFINE p == [q EXCEPT !.pc = "write", !.snap = run[q.run]]
<1>2. SameReport(p, q) /\ p.pc = "write" /\ p.snap = run[q.run]
  BY <1>1 DEF Req, SameReport
<1>3. \/ reqs' = (reqs \ {q}) \cup {p} /\ UNCHANGED execs
      \/ Answer(q) /\ Ended(q)
  BY DEF CompleteLoad
<1> QED
  BY <1>2, <1>3

(* Where the requests of a step come from: they were there, they go on with *)
(* the kind they had, or they were admitted.                               *)
OffersRun(p) == \E n \in Runners : \E o \in offers[n] :
                    p.run = o.run /\ p.snap = run[o.run]
Begins(p) == \/ p.kind = "start" /\ p.pc = "claim" /\ OffersRun(p)
             \/ p.kind = "token" /\ p.pc = "write"
             \/ p.kind = "plan" /\ p.pc = "write"
             \/ p.kind = "complete" /\ p.pc = "load"
             \/ p.kind = "cancel" /\ p.pc = "release"
LEMMA RequestFields ==
    ASSUME NEW kind, NEW pc, NEW e, NEW outcome, NEW snap
    PROVE  LET p == Request(kind, pc, e, outcome, snap) IN
           /\ p.kind = kind /\ p.pc = pc /\ p.run = e.run
           /\ p.runner = e.runner /\ p.attempt = e.attempt
           /\ p.phase = e.phase /\ p.job = e.job
           /\ p.outcome = outcome /\ p.snap = snap
BY DEF Request

LEMMA RequestsFrom ==
    ASSUME ConfirmedInv, FaultlessStep
    PROVE  \A p \in reqs' : p \in reqs \/ Begins(p)
                            \/ \E q \in reqs :
                                  /\ p.kind = q.kind /\ p.run = q.run
                                  /\ p.kind # "complete" => p.snap = q.snap
<1> USE DEF Begins
<1>1. CASE \E r \in Runs : UserMove(r) \/ StageStep(r)
  <2>1. \/ UNCHANGED reqs
        \/ \E r \in Runs : reqs' = reqs \cup {UserReq("cancel", "release", r)}
    BY <1>1 DEF UserMove, Create, Apply, Cancel, ForceCancel, CancelFrom,
       Discard, StageStep, BeginPrePlan, ContinueRun
  <2> QED
    BY <2>1, UserReqFields
<1>2. CASE \E n \in Runners : FaultlessLauncher(n)
  <2>1. \/ UNCHANGED reqs
        \/ \E p : Begins(p) /\ reqs' = reqs \cup {p}
    <3>1. PICK n \in Runners : FaultlessLauncher(n)
      BY <1>2
    <3>2. CASE JobStart(n)
      <4>1. \/ UNCHANGED reqs
            \/ \E o \in offers[n] : reqs' = reqs \cup
                  {LauncherReq("start", "claim", n, o, FALSE, 0)}
        BY <3>2 DEF JobStart
      <4>2. ASSUME NEW o \in offers[n]
            PROVE  Begins(LauncherReq("start", "claim", n, o, FALSE, 0))
        BY RequestFields DEF LauncherReq, OffersRun
      <4> QED
        BY <4>1, <4>2
    <3>3. CASE JobToken(n)
      <4>1. PICK p : /\ p = LauncherReq("token", "write", n, launcher[n], FALSE,
                                      run[launcher[n].run].attempt)
                     /\ p.kind = "token" /\ p.pc = "write"
        BY RequestFields DEF LauncherReq
      <4>2. UNCHANGED reqs \/ reqs' = reqs \cup {p}
        BY <3>3, <4>1 DEF JobToken
      <4> QED
        BY <4>1, <4>2
    <3>4. CASE Heartbeat(n) \/ LauncherGivesUp(n)
      BY <3>4 DEF Heartbeat, LauncherGivesUp
    <3> QED
      BY <3>1, <3>2, <3>3, <3>4 DEF FaultlessLauncher
  <2> QED
    BY <2>1
<1>3. CASE \E q \in reqs : FaultlessHandler(q)
  <2>1. PICK q \in reqs : FaultlessHandler(q)
    BY <1>3
  <2>2. CASE CompleteLoad(q)
    <3>1. q.kind = "complete"
      BY <2>2 DEF CompleteLoad
    <3> QED
      BY <2>2, <3>1, Loaded DEF SameReport, Answer
  <2>3. CASE ~CompleteLoad(q)
    <3>1. \/ Answer(q)
          \/ \E pc \in {"lock", "write", "revoke", "release"} : Advance(q, pc)
      BY <2>1, <2>3 DEF FaultlessHandler, StartStep, StartClaim, StartLock,
         StartWrite, StartRevoke, TokenMint, UploadPut, CompleteStep,
         CompleteWrite, CompleteRevoke, CompleteRelease, CancelRelease
    <3> QED
      BY <3>1, Advanced DEF Continues, Answer
  <2> QED
    BY <2>2, <2>3
<1>4. CASE \E e \in execs : ExecStep(e)
  <2>1. \/ UNCHANGED reqs
        \/ \E e, o, s :
              \/ reqs' = reqs \cup {Request("plan", "write", e, o, s)}
              \/ reqs' = reqs \cup {Request("complete", "load", e, o, s)}
    BY <1>4 DEF ExecStep, ExecFetch, UploadPlan, ExecReport, ExecEngine
  <2> QED
    BY <2>1, RequestFields
<1> QED
  BY <1>1, <1>2, <1>3, <1>4 DEF FaultlessStep

LEMMA FaultFreeKept ==
    ASSUME NoLosses, ConfirmedInv, FaultFree, FaultlessStep
    PROVE  FaultFree'
<1>1. UNCHANGED <<locked, monitor>>
  BY DEF FaultlessStep, UserMove, Create, Apply, Cancel, ForceCancel, CancelFrom,
     Discard, StageStep, BeginPrePlan, ContinueRun, FaultlessLauncher, Heartbeat,
     JobStart, JobToken, LauncherGivesUp, FaultlessHandler, StartStep, StartClaim,
     StartLock, StartWrite, StartRevoke, TokenMint, UploadPut, CompleteStep,
     CompleteLoad, CompleteWrite, CompleteRevoke, CompleteRelease, CancelRelease,
     ExecStep, ExecFetch, ExecEngine, UploadPlan, ExecReport
<1>2. \A p \in reqs' : p.kind # "force"
  BY RequestsFrom DEF FaultFree, Begins
<1>3. online \in [Runners -> BOOLEAN] /\ launcher \in [Runners -> Launcher]
  BY StateFacts DEF TypeOK
<1>4. \A n \in Runners : online'[n]
  BY <1>3 DEF FaultFree, FaultlessStep, UserMove, Create, Apply, Cancel,
     ForceCancel, CancelFrom, Discard, StageStep, BeginPrePlan, ContinueRun,
     FaultlessLauncher, Heartbeat, JobStart, JobToken, LauncherGivesUp,
     FaultlessHandler, StartStep, StartClaim, StartLock, StartWrite, StartRevoke,
     TokenMint, UploadPut, CompleteStep, CompleteLoad, CompleteWrite,
     CompleteRevoke, CompleteRelease, CancelRelease, ExecStep, ExecFetch,
     ExecEngine, UploadPlan, ExecReport
<1>5. \A n \in Runners : launcher'[n].pc # "down"
  <2>1. Idle.pc = "poll"
    BY DEF Idle
  <2>a. ASSUME NEW n \in Runners,
               \/ UNCHANGED launcher \/ Forget(n)
               \/ \E l : l.pc # "down" /\ launcher' = [launcher EXCEPT ![n] = l]
               \/ \E pc \in {"token", "mint"} :
                     launcher' = [launcher EXCEPT ![n].pc = pc]
        PROVE  \A m \in Runners : launcher'[m].pc # "down"
    <3>1. \A m \in Runners : launcher[m] \in Launcher /\ launcher[m].pc # "down"
      BY <1>3 DEF FaultFree
    <3>2. ASSUME NEW pc \in {"token", "mint"}, NEW m \in Runners,
                 launcher' = [launcher EXCEPT ![n].pc = pc]
          PROVE  launcher'[m].pc # "down"
      BY <1>3, <3>1, <3>2 DEF Launcher
    <3> QED
      BY <1>3, <2>1, <2>a, <3>1, <3>2 DEF Forget
  <2>2. CASE \E n \in Runners : FaultlessLauncher(n)
    <3>1. PICK n \in Runners : FaultlessLauncher(n)
      BY <2>2
    <3>2. CASE Heartbeat(n)
      BY <3>2, <2>a DEF Heartbeat
    <3>3. CASE JobStart(n)
      <4>1. PICK o : \/ UNCHANGED launcher
                     \/ launcher' = [launcher EXCEPT ![n] =
                          [pc |-> "start", run |-> o.run, phase |-> o.phase]]
        BY <3>3 DEF JobStart
      <4> QED
        BY <2>a, <4>1
    <3>4. CASE JobToken(n)
      BY <3>4, <2>a DEF JobToken
    <3>5. CASE LauncherGivesUp(n)
      BY <3>5, <2>a DEF LauncherGivesUp
    <3> QED
      BY <3>1, <3>2, <3>3, <3>4, <3>5 DEF FaultlessLauncher
  <2>3. CASE \E q \in reqs : FaultlessHandler(q)
    <3>1. PICK q \in reqs : FaultlessHandler(q)
      BY <2>3
    <3>2. \/ UNCHANGED launcher
          \/ /\ q.kind \in {"start", "token"}
             /\ \/ SkipJob(q, "start") \/ Forget(q.runner)
                \/ launcher' = [launcher EXCEPT ![q.runner].pc = "token"]
      BY <3>1 DEF FaultlessHandler, StartStep, StartClaim, StartLock, StartWrite,
         StartRevoke, TokenMint, UploadPut, CompleteStep, CompleteLoad,
         CompleteWrite, CompleteRevoke, CompleteRelease, CancelRelease
    <3>3. q.kind \in {"start", "token"} => q.runner \in Runners
      BY StateFacts DEF TypeOK
    <3>4. UNCHANGED launcher => \A m \in Runners : launcher'[m].pc # "down"
      BY DEF FaultFree
    <3>5. SkipJob(q, "start") => Forget(q.runner) \/ UNCHANGED launcher
      BY DEF SkipJob, Forget
    <3> QED
      BY <2>a, <3>2, <3>3, <3>4, <3>5
  <2>4. CASE \/ \E r \in Runs : UserMove(r) \/ StageStep(r)
             \/ \E e \in execs : ExecStep(e)
    BY <2>4 DEF FaultFree, UserMove, Create, Apply, Cancel, ForceCancel,
       CancelFrom, Discard, StageStep, BeginPrePlan, ContinueRun, ExecStep,
       ExecFetch, ExecEngine, UploadPlan, ExecReport
  <2> QED
    BY <2>2, <2>3, <2>4 DEF FaultlessStep
<1> QED
  BY <1>1, <1>2, <1>4, <1>5 DEF FaultFree

-----------------------------------------------------------------------------
(* A run's row is left to the attempt that claimed it: users and stages end  *)
(* such a run as canceled, or leave it alone.                              *)
RowCalm(r) ==
    /\ run'[r].attempt = run[r].attempt
    /\ run[r].claimed /\ run[r].status \in Busy =>
         /\ run'[r].claimed /\ run'[r].runner = run[r].runner
         /\ run'[r].status \in {run[r].status, "cancelled"}
GatePassed(r) == ~Gated(run[r]) =>
    /\ ~Gated(run'[r])
    /\ run'[r].status \in Ready => run[r].status \in Ready

(* An edit of the status, and of the claim, of a row.                       *)
Edited(row, old) ==
    row.kind = old.kind /\ row.attempt = old.attempt
LEMMA SameRow ==
    ASSUME NEW r \in Runs, run'[r] = run[r]
    PROVE  RowCalm(r) /\ GatePassed(r)
BY DEF RowCalm, GatePassed

(* The moves users and stages make of one run.                              *)
UserEdit(row, old) ==
    /\ Edited(row, old)
    /\ \/ /\ row.status = "cancelled"
          /\ row.claimed = old.claimed /\ row.runner = old.runner
       \/ /\ old.status \in {"post_plan_completed", "planned", "failed",
                             "post_plan_running", "pre_apply_running",
                             "post_apply_running"}
          /\ row.status \in {"pre_apply_running", "applying", "applied",
                             "post_plan_completed", "failed"}
       \/ /\ old.status = "pre_plan_running"
          /\ row.status \in {"pre_plan_completed", "failed"}
       \/ /\ Gated(old) /\ ~old.claimed /\ row.status = "pre_plan_running"

LEMMA UserEditCalm ==
    ASSUME NEW r \in Runs, UserEdit(run'[r], run[r])
    PROVE  RowCalm(r) /\ GatePassed(r)
BY DEF UserEdit, Edited, RowCalm, GatePassed, Gated, Ready, Busy, Startable,
       Working

LEMMA UserEdits ==
    ASSUME ConfirmedInv, NEW r \in Runs,
           \/ Apply(r) \/ Cancel(r) \/ ForceCancel(r) \/ Discard(r)
           \/ BeginPrePlan(r) \/ ContinueRun(r)
    PROVE  /\ UserEdit(run'[r], run[r])
           /\ \A x \in Runs \ {r} : run'[x] = run[x]
<1>1. run[r] \in Row
  BY StateFacts
<1>2. ASSUME NEW row, Set(r, row)
      PROVE  run'[r] = row /\ \A x \in Runs \ {r} : run'[x] = run[x]
  BY <1>2, SetRow
<1>3. CASE Apply(r)
  <2>1. CASE run[r].status \in Confirmable /\ "pre_apply" \in run[r].kind.stages
    <3>1. run'[r] = [run[r] EXCEPT !.status = "pre_apply_running"]
      BY <1>2, <1>3, <2>1 DEF Apply, Confirmable
    <3> QED
      BY <1>1, <1>2, <1>3, <2>1, <3>1
      DEF Apply, Row, UserEdit, Edited, Confirmable
  <2>2. CASE run[r].status \in Confirmable /\ "pre_apply" \notin run[r].kind.stages
    <3>1. run'[r] = [run[r] EXCEPT !.status = "applying", !.claimed = FALSE]
      BY <1>2, <1>3, <2>2 DEF Apply, Confirmable
    <3> QED
      BY <1>1, <1>2, <1>3, <2>2, <3>1
      DEF Apply, Row, UserEdit, Edited, Confirmable
  <2>3. CASE run[r].status \notin Confirmable
    <3>1. /\ run[r].status = "failed"
          /\ run'[r] = [Unclaimed(run[r]) EXCEPT !.status = "applying",
                                                !.lost = FALSE]
      BY <1>2, <1>3, <2>3 DEF Apply
    <3> QED
      BY <1>1, <1>2, <1>3, <2>3, <3>1
      DEF Apply, Row, UserEdit, Edited, Unclaimed
  <2> QED
    BY <1>2, <1>3, <2>1, <2>2, <2>3 DEF Apply
<1>4. CASE Cancel(r) \/ ForceCancel(r) \/ Discard(r)
  <2>1. Set(r, [run[r] EXCEPT !.status = "cancelled"])
    BY <1>4 DEF Cancel, ForceCancel, CancelFrom, Discard
  <2>2. run'[r] = [run[r] EXCEPT !.status = "cancelled"]
    BY <1>2, <2>1
  <2> QED
    BY <1>1, <1>2, <2>1, <2>2 DEF Row, UserEdit, Edited
<1>5. CASE BeginPrePlan(r)
  <2>1. Set(r, [run[r] EXCEPT !.status = "pre_plan_running"])
    BY <1>5 DEF BeginPrePlan
  <2>2. run'[r] = [run[r] EXCEPT !.status = "pre_plan_running"]
    BY <1>2, <2>1
  <2> QED
    BY <1>1, <1>2, <1>5, <2>1, <2>2
    DEF BeginPrePlan, Row, UserEdit, Edited, Gated
<1>6. CASE ContinueRun(r)
  <2>1. ASSUME NEW row,
               \/ row = Unclaimed(run[r])
               \/ row = run[r],
               NEW s, run'[r] = [row EXCEPT !.status = s]
        PROVE  Edited(run'[r], run[r]) /\ run'[r].status = s
    BY <1>1, <2>1 DEF Row, Edited, Unclaimed
  <2>2. \/ /\ run[r].status = "pre_plan_running"
           /\ \E s \in {"pre_plan_completed", "failed"} :
                 Set(r, [run[r] EXCEPT !.status = s])
        \/ /\ run[r].status \in {"post_plan_running", "pre_apply_running",
                                 "post_apply_running"}
           /\ \/ \E s \in {"post_plan_completed", "applied", "failed"} :
                    Set(r, [run[r] EXCEPT !.status = s])
              \/ Set(r, [Unclaimed(run[r]) EXCEPT !.status = "applying"])
    BY <1>6 DEF ContinueRun
  <2>3. ASSUME NEW s, Set(r, [run[r] EXCEPT !.status = s])
        PROVE  /\ Edited(run'[r], run[r]) /\ run'[r].status = s
               /\ \A x \in Runs \ {r} : run'[x] = run[x]
    BY <1>2, <2>1, <2>3
  <2>4. ASSUME NEW s, Set(r, [Unclaimed(run[r]) EXCEPT !.status = s])
        PROVE  /\ Edited(run'[r], run[r]) /\ run'[r].status = s
               /\ \A x \in Runs \ {r} : run'[x] = run[x]
    BY <1>2, <2>1, <2>4
  <2> QED
    BY <2>2, <2>3, <2>4 DEF UserEdit
<1> QED
  BY <1>3, <1>4, <1>5, <1>6

LEMMA CreateCalm ==
    ASSUME ConfirmedInv, NEW r \in Runs, Create(r)
    PROVE  \A x \in Runs : RowCalm(x) /\ GatePassed(x)
<1>1. run[r] = EmptyRow
  BY Parts DEF Create
<1>2. PICK kind \in Kinds :
         run' = [x \in Runs |->
                   IF x = r
                     THEN [EmptyRow EXCEPT !.status = "pending", !.kind = kind]
                   ELSE IF x \in Conflicts(r, kind)
                     THEN [run[x] EXCEPT !.status = "cancelled"]
                   ELSE run[x]]
  BY DEF Create
<1>3. RowCalm(r) /\ GatePassed(r)
  <2>1. run'[r] = [EmptyRow EXCEPT !.status = "pending", !.kind = kind]
    BY <1>2
  <2>2. run'[r].attempt = 0
    BY <2>1 DEF EmptyRow
  <2>3. run[r].attempt = 0 /\ ~run[r].claimed /\ Gated(run[r])
    BY <1>1 DEF EmptyRow, Gated
  <2> QED
    BY <2>2, <2>3 DEF RowCalm, GatePassed
<1>4. ASSUME NEW x \in Runs \ {r} PROVE RowCalm(x) /\ GatePassed(x)
  <2>1. run[x] \in Row
    BY StateFacts
  <2>2. CASE run'[x] = run[x]
    BY <2>2, SameRow
  <2>3. CASE run'[x] = [run[x] EXCEPT !.status = "cancelled"]
    <3>1. UserEdit(run'[x], run[x])
      BY <2>1, <2>3 DEF Row, UserEdit, Edited
    <3> QED
      BY <3>1, UserEditCalm
  <2> QED
    BY <1>2, <2>2, <2>3
<1> QED
  BY <1>3, <1>4

LEMMA HeartbeatCalm ==
    ASSUME ConfirmedInv, NEW n \in Runners, Heartbeat(n)
    PROVE  \A x \in Runs : RowCalm(x) /\ GatePassed(x)
<1>1. ASSUME NEW x \in Runs
      PROVE  \/ run'[x] = run[x]
             \/ run'[x] = [run[x] EXCEPT !.runner = n] /\ ~run[x].claimed
  BY DEF Heartbeat, Dispatchable
<1>2. ASSUME NEW x \in Runs, ~run[x].claimed,
             run'[x] = [run[x] EXCEPT !.runner = n]
      PROVE  RowCalm(x) /\ GatePassed(x)
  <2>1. run[x] \in Row
    BY StateFacts
  <2>2. /\ run'[x].status = run[x].status /\ run'[x].attempt = run[x].attempt
        /\ run'[x].kind = run[x].kind
    BY <1>2, <2>1 DEF Row
  <2> QED
    BY <1>2, <2>2 DEF RowCalm, GatePassed, Gated
<1> QED
  BY <1>1, <1>2, SameRow

(* Every step but those of a start and of a report's write.                 *)
LEMMA OthersCalm ==
    ASSUME ConfirmedInv, FaultlessStep,
           \A q \in reqs : ~StartStep(q) /\ ~CompleteWrite(q)
    PROVE  \A x \in Runs : RowCalm(x) /\ GatePassed(x)
<1>1. CASE \E r \in Runs : UserMove(r) \/ StageStep(r)
  BY <1>1, UserEdits, UserEditCalm, CreateCalm, SameRow DEF UserMove, StageStep
<1>2. CASE \E n \in Runners : Heartbeat(n)
  BY <1>2, HeartbeatCalm
<1>3. CASE UNCHANGED run
  BY <1>3, SameRow
<1>4. ASSUME NEW n \in Runners, FaultlessLauncher(n)
      PROVE  Heartbeat(n) \/ UNCHANGED run
  BY <1>4 DEF FaultlessLauncher, JobStart, JobToken, LauncherGivesUp
<1>5. ASSUME NEW q \in reqs, FaultlessHandler(q) PROVE UNCHANGED run
  BY <1>5 DEF FaultlessHandler, TokenMint, UploadPut, CompleteStep, CompleteLoad,
              CompleteRevoke, CompleteRelease, CancelRelease
<1>6. ASSUME NEW e \in execs, ExecStep(e) PROVE UNCHANGED run
  BY <1>6 DEF ExecStep, ExecFetch, ExecEngine, UploadPlan, ExecReport
<1> QED
  BY <1>1, <1>2, <1>3, <1>4, <1>5, <1>6 DEF FaultlessStep

-----------------------------------------------------------------------------
(* What a start makes of its run's row, and what the write of a report does. *)
SameOthers(r) == \A x \in Runs \ {r} : run'[x] = run[x]
Refused(q)    == Answer(q) /\ SkipJob(q, "start")
LEMMA StartMoves ==
    ASSUME ConfirmedInv, NEW q \in reqs
    PROVE  /\ StartClaim(q) =>
                /\ SameOthers(q.run)
                /\ \/ /\ Dispatchable(run[q.run]) /\ Advance(q, "lock")
                      /\ UNCHANGED launcher
                      /\ Edited(run'[q.run],
                                [run[q.run] EXCEPT !.attempt = @ + 1])
                      /\ run'[q.run].attempt = run[q.run].attempt + 1
                      /\ run'[q.run].claimed
                      /\ run'[q.run].status = run[q.run].status
                   \/ Refused(q) /\ UNCHANGED run
           /\ StartLock(q) =>
                /\ SameOthers(q.run)
                /\ \/ Advance(q, "write") /\ UNCHANGED <<run, launcher>>
                   \/ /\ Refused(q)
                      /\ Edited(run'[q.run], run[q.run])
                      /\ run'[q.run].status = run[q.run].status
           /\ StartWrite(q) =>
                /\ SameOthers(q.run)
                /\ Advance(q, "revoke") /\ UNCHANGED launcher
                /\ Edited(run'[q.run], run[q.run])
                /\ run'[q.run].claimed = run[q.run].claimed
                /\ run'[q.run].runner = q.runner
                /\ run'[q.run].status = IF q.snap.status \in Ready
                                          THEN "planning"
                                          ELSE run[q.run].status
           /\ StartRevoke(q) => UNCHANGED run
<1>1. q.run \in Runs /\ run[q.run] \in Row
  BY StateFacts
<1>2. ASSUME NEW row, Set(q.run, row)
      PROVE  run'[q.run] = row /\ SameOthers(q.run)
  BY <1>1, <1>2, SetRow DEF SameOthers
<1>3. UNCHANGED run => SameOthers(q.run)
  BY DEF SameOthers
<1>4. ASSUME StartClaim(q), Dispatchable(run[q.run])
      PROVE  /\ Advance(q, "lock") /\ UNCHANGED launcher /\ SameOthers(q.run)
             /\ Edited(run'[q.run], [run[q.run] EXCEPT !.attempt = @ + 1])
             /\ run'[q.run].attempt = run[q.run].attempt + 1
             /\ run'[q.run].claimed
             /\ run'[q.run].status = run[q.run].status
  <2>1. Set(q.run, Claimed(run[q.run])) /\ Advance(q, "lock") /\ UNCHANGED launcher
    BY <1>4 DEF StartClaim
  <2>2. run'[q.run] = Claimed(run[q.run]) /\ SameOthers(q.run)
    BY <1>2, <2>1
  <2> QED
    BY <1>1, <2>1, <2>2 DEF Claimed, Row, Edited
<1>5. ASSUME StartClaim(q), ~Dispatchable(run[q.run])
      PROVE  Refused(q) /\ UNCHANGED run
  BY <1>5 DEF StartClaim, Refused
<1>6. ASSUME StartLock(q)
      PROVE  /\ SameOthers(q.run)
             /\ \/ Advance(q, "write") /\ UNCHANGED <<run, launcher>>
                \/ /\ Refused(q)
                   /\ Edited(run'[q.run], run[q.run])
                   /\ run'[q.run].status = run[q.run].status
  <2>1. \/ Advance(q, "write") /\ UNCHANGED <<run, launcher>>
        \/ Set(q.run, Unclaimed(run[q.run])) /\ Refused(q)
    BY <1>6 DEF StartLock, Refused
  <2>2. CASE Set(q.run, Unclaimed(run[q.run])) /\ Refused(q)
    <3>1. run'[q.run] = Unclaimed(run[q.run]) /\ SameOthers(q.run)
      BY <1>2, <2>2
    <3> QED
      BY <1>1, <2>2, <3>1 DEF Unclaimed, Row, Edited
  <2> QED
    BY <1>3, <2>1, <2>2
<1>7. ASSUME StartWrite(q)
      PROVE  /\ SameOthers(q.run)
             /\ Advance(q, "revoke") /\ UNCHANGED launcher
             /\ Edited(run'[q.run], run[q.run])
             /\ run'[q.run].claimed = run[q.run].claimed
             /\ run'[q.run].runner = q.runner
             /\ run'[q.run].status = IF q.snap.status \in Ready
                                       THEN "planning" ELSE run[q.run].status
  <2>1. Set(q.run, Started(q)) /\ Advance(q, "revoke") /\ UNCHANGED launcher
    BY <1>7 DEF StartWrite
  <2>2. run'[q.run] = Started(q) /\ SameOthers(q.run)
    BY <1>2, <2>1
  <2> QED
    BY <1>1, <2>1, <2>2 DEF Started, Row, Edited, Ready, Startable
<1>8. StartRevoke(q) => UNCHANGED run
  BY DEF StartRevoke
<1> QED
  BY <1>3, <1>4, <1>5, <1>6, <1>7, <1>8

LEMMA StartGates ==
    ASSUME ConfirmedInv, NEW q \in reqs, StartStep(q)
    PROVE  \A r \in Runs : GatePassed(r)
<1>1. q.run \in Runs /\ run[q.run] \in Row
  BY StateFacts
<1>2. [run[q.run] EXCEPT !.attempt = @ + 1].kind = run[q.run].kind
  BY <1>1 DEF Row
<1>3. \/ UNCHANGED run
      \/ /\ SameOthers(q.run) /\ run'[q.run].kind = run[q.run].kind
         /\ run'[q.run].status \in {run[q.run].status, "planning"}
  BY <1>2, StartMoves DEF StartStep, Edited
<1>4. SameOthers(q.run) => \A x \in Runs \ {q.run} : GatePassed(x)
  BY SameRow DEF SameOthers
<1> QED
  BY <1>3, <1>4, SameRow DEF GatePassed, Gated, Ready

LEMMA WriteMoves ==
    ASSUME ConfirmedInv, NEW q \in reqs, CompleteWrite(q), ReportAlone(q)
    PROVE  /\ \A r \in Runs : GatePassed(r)
           /\ SameOthers(q.run)
           /\ run'[q.run].attempt = run[q.run].attempt
<1>1. q \in Req /\ q.run \in Runs /\ run[q.run] \in Row
  BY StateFacts
<1>2. q.snap \in Row
  BY <1>1 DEF Req
<1>3. q.snap.attempt = run[q.run].attempt
      /\ q.snap.status \in Working \cup {"cancelled"}
  BY DEF CompleteWrite, ReportAlone
<1>4. /\ run'[q.run] = IF EndsApply(q) THEN AfterApply(q.run) ELSE Saved(q)
      /\ SameOthers(q.run)
  BY <1>1, SetRow DEF CompleteWrite, SameOthers
<1>5. CASE EndsApply(q)
  <2>1. CASE run[q.run].status = "cancelled"
    BY <1>4, <1>5, <2>1, SameRow DEF AfterApply, SameOthers
  <2>2. CASE run[q.run].status # "cancelled"
    <3>1. PICK s \in {"post_apply_running", "applied"} :
             run'[q.run] = [run[q.run] EXCEPT !.status = s]
      BY <1>4, <1>5, <2>2 DEF AfterApply
    <3>2. run'[q.run].status = s /\ run'[q.run].attempt = run[q.run].attempt
      BY <1>1, <3>1 DEF Row
    <3>3. GatePassed(q.run)
      BY <3>2 DEF GatePassed, Gated, Ready
    <3> QED
      BY <1>4, <3>2, <3>3, SameRow DEF SameOthers
  <2> QED
    BY <2>1, <2>2
<1>6. CASE ~EndsApply(q)
  <2>1. /\ AfterPlan(q.snap).attempt = q.snap.attempt
        /\ AfterPlan(q.snap).status \in
             {"post_plan_running", "applying", "planned"}
    BY <1>2 DEF Row, AfterPlan, Unclaimed
  <2>2. /\ Saved(q).attempt = q.snap.attempt
        /\ Saved(q).status \in {"post_plan_running", "applying", "planned",
                                "failed", "cancelled", "planning"}
    <3>1. CASE q.outcome = "completed" /\ q.snap.status = "planning"
      BY <2>1, <3>1 DEF Saved
    <3>2. CASE q.outcome = "failed" /\ q.snap.status # "cancelled"
      BY <1>2, <3>2 DEF Saved, Row
    <3>3. CASE q.outcome = "canceled"
      BY <1>2, <3>3 DEF Saved, Row
    <3>4. CASE /\ ~(q.outcome = "completed" /\ q.snap.status = "planning")
               /\ ~(q.outcome = "failed" /\ q.snap.status # "cancelled")
               /\ q.outcome # "canceled"
      BY <1>3, <3>4 DEF Saved, Working
    <3> QED
      BY <3>1, <3>2, <3>3, <3>4
  <2>3. GatePassed(q.run)
    BY <1>4, <1>6, <2>2 DEF GatePassed, Gated, Ready
  <2> QED
    BY <1>3, <1>4, <1>6, <2>2, <2>3, SameRow DEF SameOthers
<1> QED
  BY <1>5, <1>6

LEMMA Gates ==
    ASSUME ConfirmedInv, ThreadsInv, FaultlessStep
    PROVE  \A r \in Runs : GatePassed(r)
<1>1. CASE \E q \in reqs : StartStep(q)
  BY <1>1, StartGates
<1>2. CASE \E q \in reqs : CompleteWrite(q)
  <2>1. PICK q \in reqs : CompleteWrite(q)
    BY <1>2
  <2>2. ReportAlone(q)
    BY StateFacts DEF ThreadsInv, Thread, ReqsOf
  <2> QED
    BY <2>1, <2>2, WriteMoves
<1>3. CASE \A q \in reqs : ~StartStep(q) /\ ~CompleteWrite(q)
  BY <1>3, OthersCalm
<1> QED
  BY <1>1, <1>2, <1>3

(* The gate is never entered again: what a start found ready stays ready    *)
(* until the start, or what is to come after it, moves it on.              *)
LEMMA GateKept ==
    ASSUME ConfirmedInv, GateInv, ThreadsInv, FaultlessStep
    PROVE  GateInv'
<1>1. /\ offers \in [Runners -> SUBSET Offer]
      /\ \A n \in Runners : \A o \in offers[n] : o.run \in Runs
  BY StateFacts DEF TypeOK, Offer
<1>2. ASSUME NEW n \in Runners, NEW o \in offers'[n]
      PROVE  o.run \in Runs /\ ~Gated(run[o.run])
  <2>1. CASE o \in offers[n]
    BY <1>1, <2>1 DEF GateInv, OffersGate
  <2>2. CASE o \notin offers[n]
    <3>1. Heartbeat(n)
      <4>1. ~UNCHANGED offers
        BY <1>2, <2>2
      <4>2. PICK m \in Runners : FaultlessLauncher(m)
        BY <4>1 DEF FaultlessStep, UserMove, Create, Apply, Cancel, ForceCancel,
           CancelFrom, Discard, StageStep, BeginPrePlan, ContinueRun,
           FaultlessHandler, StartStep, StartClaim, StartLock, StartWrite,
           StartRevoke, TokenMint, UploadPut, CompleteStep, CompleteLoad,
           CompleteWrite, CompleteRevoke, CompleteRelease, CancelRelease,
           ExecStep, ExecFetch, ExecEngine, UploadPlan, ExecReport
      <4>3. ASSUME JobStart(m) \/ LauncherGivesUp(m)
            PROVE  offers'[n] \subseteq offers[n]
        BY <1>1, <4>3 DEF JobStart, LauncherGivesUp
      <4>4. Heartbeat(m)
        BY <1>2, <2>2, <4>1, <4>2, <4>3 DEF FaultlessLauncher, JobToken
      <4>5. m = n
        BY <1>1, <1>2, <2>2, <4>4 DEF Heartbeat
      <4> QED
        BY <4>4, <4>5
    <3>2. PICK new \in SUBSET {r \in Runs : /\ run[r].runner = NoRunner
                                            /\ Dispatchable(run[r])} :
             o \in {[run |-> r, phase |-> PhaseOf(run[r])] : r \in Held(n) \cup new}
      BY <1>1, <1>2, <2>2, <3>1 DEF Heartbeat
    <3>3. o.run \in Runs /\ Dispatchable(run[o.run])
      BY <3>2 DEF Held
    <3> QED
      BY <3>3 DEF Dispatchable, Gated, Startable
  <2> QED
    BY <2>1, <2>2
<1>3. OffersGate'
  BY <1>2, Gates DEF OffersGate, GatePassed
<1>4. ASSUME NEW q, StartGate(q), q.run \in Runs PROVE StartGate(q)'
  BY <1>4, Gates DEF StartGate, GatePassed
<1>5. ASSUME NEW p \in reqs' PROVE StartGate(p)'
  <2>1. CASE p \in reqs
    BY <1>4, <2>1, StateFacts DEF GateInv
  <2>2. CASE Begins(p)
    <3>1. SUFFICES ASSUME p.kind = "start" PROVE StartGate(p)'
      BY DEF StartGate
    <3>2. OffersRun(p)
      BY <2>2, <3>1 DEF Begins
    <3>3. StartGate(p) /\ p.run \in Runs
      BY <1>1, <3>2 DEF OffersRun, GateInv, OffersGate, StartGate
    <3> QED
      BY <1>4, <3>3
  <2>3. CASE \E q \in reqs : /\ p.kind = q.kind /\ p.run = q.run
                             /\ p.kind # "complete" => p.snap = q.snap
    <3>1. StartGate(p) /\ p.run \in Runs
      BY <2>3, StateFacts DEF GateInv, StartGate
    <3> QED
      BY <1>4, <3>1
  <2> QED
    BY <2>1, <2>2, <2>3, RequestsFrom
<1> QED
  BY <1>3, <1>5 DEF GateInv

-----------------------------------------------------------------------------
(* A step that carries the thread of run r on as it is, or drops it.        *)
ExecsCalm(r) ==
    /\ \A f \in ExecsOf(r)' :
         \/ f \in execs
         \/ f.pc # "sent" /\ \E e \in execs : e.pc # "sent" /\ SameExec(f, e)
    /\ \A e, f \in ExecsOf(r)' : e.attempt = f.attempt => e = f
    /\ \A e \in ExecsOf(r) : e.pc = "sent" =>
         e \in execs' \/ \A c \in reqs' : c.kind = "complete" => ~IsOf(e, c)
ReqsCalm(r) ==
    /\ \A q \in ReqsOf(r)' : Claimant(q) \/ q.kind = "complete" => q \in reqs
    /\ \A q \in ReqsOf(r) : q.kind = "complete" /\ q.pc = "revoke" => q \in reqs'
Calm(r) == /\ RowCalm(r) /\ ReqsCalm(r) /\ ExecsCalm(r)
           /\ \A t \in TokensOf(r)' : t \in tokens
           /\ \A n \in Runners : Placing(n, r)' => Placing(n, r)

LEMMA CalmFrame ==
    ASSUME ConfirmedInv, NEW r \in Runs, Thread(r), Calm(r)
    PROVE  Thread(r)'
<1>1. run'[r].attempt = run[r].attempt
  BY DEF Calm, RowCalm
<1>2. Fresh(r) => Fresh(r)'
  <2>1. \A f \in execs' : f.run = r =>
           \E e \in execs : e.run = r /\ e.attempt = f.attempt
    BY DEF Calm, ExecsCalm, ExecsOf, SameExec
  <2>2. \A t \in tokens' : t.run = r => t \in tokens
    BY DEF Calm, TokensOf
  <2> QED
    BY <1>1, <2>1, <2>2 DEF Fresh, Unplaced
<1>3. ASSUME NEW n, InHand(r, n) PROVE InHand(r, n)'
  BY <1>3 DEF Calm, RowCalm, InHand, Busy
<1>4. ASSUME NEW q \in ReqsOf(r)', Claimant(q) PROVE ClaimantAlone(q)'
  <2>1. q \in reqs /\ q.run = r /\ ClaimantAlone(q)
    BY <1>4 DEF Calm, ReqsCalm, ReqsOf, Thread
  <2>2. Fresh(r) /\ ClaimantRow(q)
    BY <1>4, <2>1 DEF ClaimantAlone
  <2>3. ClaimantRow(q)'
    BY <1>3, <2>1, <2>2 DEF ClaimantRow, Calm, RowCalm, Busy
  <2>4. \A p \in reqs' : Claimant(p) /\ p.run = q.run => p = q
    BY <1>4, <2>1 DEF ClaimantAlone, Calm, ReqsCalm, ReqsOf
  <2>5. \A n \in Runners : ~Placing(n, q.run)'
    BY <1>4, <2>1 DEF ClaimantAlone, Calm
  <2>6. q.kind = "token" => q.attempt = run'[q.run].attempt
    BY <1>1, <1>4, <2>1 DEF ClaimantAlone
  <2>7. Fresh(q.run)'
    BY <1>2, <2>1, <2>2
  <2> QED
    BY <2>3, <2>4, <2>5, <2>6, <2>7 DEF ClaimantAlone
<1>5. ASSUME NEW n \in Runners PROVE PlacingAlone(n, r)'
  BY <1>2, <1>3 DEF PlacingAlone, Calm, Thread
<1>6. ASSUME NEW e \in execs, NEW f \in execs', SameExec(f, e), e.run = r,
             f = e \/ (f.pc # "sent" /\ e.pc # "sent")
      PROVE  ExecCurrent(f)'
  <2>1. ExecCurrent(e)
    BY <1>6 DEF Thread, ExecsOf
  <2>2. ASSUME Unanswered(f)' PROVE Unanswered(e)
    <3>1. ASSUME f = e, f.pc = "sent" PROVE Unanswered(e)
      <4>1. PICK c \in reqs' : Writing(c, f.run) /\ IsOf(f, c)
        BY <2>2, <3>1 DEF Unanswered
      <4>2. c \in reqs
        BY <1>6, <4>1 DEF Writing, Calm, ReqsCalm, ReqsOf, SameExec
      <4> QED
        BY <3>1, <4>1, <4>2 DEF Unanswered
    <3> QED
      BY <1>6, <3>1 DEF Unanswered
  <2> QED
    BY <1>1, <1>3, <1>6, <2>1, <2>2 DEF ExecCurrent, SameExec
<1>7. ASSUME NEW f \in ExecsOf(r)' PROVE ExecCurrent(f)'
  <2>1. PICK e \in execs : /\ SameExec(f, e) /\ e.run = r
                           /\ f = e \/ (f.pc # "sent" /\ e.pc # "sent")
    BY <1>7 DEF Calm, ExecsCalm, ExecsOf, SameExec
  <2> QED
    BY <1>6, <1>7, <2>1 DEF ExecsOf
<1>8. ASSUME NEW c \in ReqsOf(r)', c.kind = "complete" PROVE ReportAlone(c)'
  <2>1. c \in reqs /\ c \in reqs' /\ c.run = r /\ ReportAlone(c)
    BY <1>8 DEF Calm, ReqsCalm, ReqsOf, Thread
  <2>2. PICK e \in execs : e.pc = "sent" /\ IsOf(e, c)
    BY <1>8, <2>1 DEF ReportAlone
  <2>3. e.run = r /\ e \in execs'
    BY <1>8, <2>1, <2>2 DEF Calm, ExecsCalm, ExecsOf, IsOf
  <2>4. \A d \in reqs' : /\ d.kind = "complete" /\ d.run = c.run
                         /\ d.attempt = c.attempt
                         => d = c
    BY <1>8, <2>1 DEF ReportAlone, Calm, ReqsCalm, ReqsOf
  <2>5. ASSUME c.pc = "write"
        PROVE  /\ c.snap.attempt = run'[c.run].attempt
               /\ c.snap.runner = run'[c.run].runner
               /\ c.snap.claimed
               /\ c.snap.status \in Working \cup {"cancelled"}
    <3>1. Unanswered(e)
      BY <1>8, <2>1, <2>2, <2>3, <2>5 DEF Unanswered, Writing
    <3>2. InHand(r, e.runner)
      BY <2>3, <3>1 DEF Thread, ExecsOf, ExecCurrent
    <3>3. InHand(r, e.runner)'
      BY <1>3, <3>2
    <3> QED
      BY <1>1, <1>8, <2>1, <2>5, <3>2, <3>3 DEF ReportAlone, InHand
  <2> QED
    BY <2>2, <2>3, <2>4, <2>5 DEF ReportAlone
<1>9. ASSUME NEW t \in TokensOf(r)' PROVE TokenCurrent(t)'
  <2>1. t \in tokens /\ t.run = r /\ TokenCurrent(t)
    BY <1>9 DEF Calm, TokensOf, Thread
  <2>2. Revoking(r) => Revoking(r)'
    BY DEF Revoking, Calm, ReqsCalm, ReqsOf
  <2> QED
    BY <1>1, <1>3, <2>1, <2>2 DEF TokenCurrent
<1>10. \A q \in ReqsOf(r)' : ClaimantAlone(q)' /\ ReportAlone(q)'
  BY <1>4, <1>8 DEF ClaimantAlone, ReportAlone
<1>11. \A e, f \in ExecsOf(r)' : e.attempt = f.attempt => e = f
  BY DEF Calm, ExecsCalm
<1> QED
  BY <1>5, <1>7, <1>9, <1>10, <1>11 DEF Thread

(* What leaves the launchers, the requests and the executors of a run calm.  *)
LEMMA LaunchersCalm ==
    ASSUME ConfirmedInv, NEW n \in Runners,
           \/ UNCHANGED launcher \/ Forget(n)
           \/ \E l : l.pc # "token" /\ launcher' = [launcher EXCEPT ![n] = l]
           \/ launcher' = [launcher EXCEPT ![n].pc = "mint"]
    PROVE  \A m \in Runners, r \in Runs : Placing(m, r)' => Placing(m, r)
<1>1. /\ launcher \in [Runners -> Launcher]
      /\ \A m \in Runners : launcher[m] \in Launcher
  BY StateFacts
<1>2. ASSUME launcher' = [launcher EXCEPT ![n].pc = "mint"]
      PROVE  launcher'[n].pc = "mint"
  BY <1>1, <1>2 DEF Launcher
<1>3. ASSUME Forget(n) PROVE launcher'[n].pc = "poll"
  BY <1>1, <1>3 DEF Forget, Idle
<1>4. \A m \in Runners : \/ launcher'[m] = launcher[m]
                         \/ launcher'[m].pc # "token"
  <2>1. \A m \in Runners \ {n} : launcher'[m] = launcher[m]
    BY <1>1 DEF Forget
  <2>2. launcher'[n] = launcher[n] \/ launcher'[n].pc # "token"
    BY <1>1, <1>2, <1>3
  <2> QED
    BY <2>1, <2>2
<1> QED
  BY <1>4 DEF Placing

LEMMA ReqsKept ==
    ASSUME NEW p, ~Claimant(p), p.kind # "complete",
           reqs' = reqs \/ reqs' = reqs \cup {p}
    PROVE  \A r \in Runs : ReqsCalm(r)
BY DEF ReqsCalm, ReqsOf

LEMMA ReqsAnswered ==
    ASSUME NEW q \in reqs, Answer(q), ~(q.kind = "complete" /\ q.pc = "revoke")
    PROVE  \A r \in Runs : ReqsCalm(r)
BY DEF ReqsCalm, ReqsOf, Answer

LEMMA OneExecutor ==
    ConfirmedInv /\ ThreadsInv => OneExecutorPerAttempt
BY StateFacts DEF ThreadsInv, Thread, ExecsOf, OneExecutorPerAttempt

LEMMA ExecsSame ==
    ASSUME NEW r \in Runs, Thread(r), ExecsOf(r)' = ExecsOf(r)
    PROVE  ExecsCalm(r)
<1>1. \A e \in ExecsOf(r) : e \in execs'
  BY DEF ExecsOf
<1>2. \A f \in ExecsOf(r)' : f \in execs /\ f \in ExecsOf(r)
  BY DEF ExecsOf
<1> QED
  BY <1>1, <1>2 DEF ExecsCalm, Thread

LEMMA ExecsBecome ==
    ASSUME NEW r \in Runs, Thread(r), NEW e \in execs, NEW f, Become(e, f),
           SameExec(f, e), e.pc # "sent", f.pc # "sent"
    PROVE  ExecsCalm(r)
<1>1. \A g \in execs' : g = f \/ (g \in execs /\ g # e)
  BY DEF Become
<1>2. \A x, y \in execs : x.run = r /\ y.run = r /\ x.attempt = y.attempt => x = y
  BY DEF Thread, ExecsOf
<1>3. \A g, h \in ExecsOf(r)' : g.attempt = h.attempt => g = h
  BY <1>1, <1>2 DEF ExecsOf, SameExec
<1>4. \A x \in execs : x.pc = "sent" => x \in execs'
  BY DEF Become
<1> QED
  BY <1>1, <1>3, <1>4 DEF ExecsCalm, ExecsOf

LEMMA ExecsFewer ==
    ASSUME NEW r \in Runs, Thread(r), execs' \subseteq execs,
           \A e \in execs : e.pc = "sent" =>
             e \in execs' \/ \A c \in reqs' : c.kind = "complete" => ~IsOf(e, c)
    PROVE  ExecsCalm(r)
<1>1. \A e, f \in ExecsOf(r)' : e.attempt = f.attempt => e = f
  BY DEF Thread, ExecsOf
<1> QED
  BY <1>1 DEF ExecsCalm, ExecsOf

LEMMA ExecsPut ==
    ASSUME ConfirmedInv, ThreadsInv, NEW q \in reqs, UploadPut(q)
    PROVE  \A r \in Runs : ExecsCalm(r)
<1>1. /\ \A g \in execs' : \E e \in execs : PutBack(g, e, q)
      /\ OneExecutorPerAttempt'
  BY PutChanges, OneExecutor DEF CarriedOn
<1>2. \A e \in execs : e.pc = "sent" => e \in execs'
  BY DEF UploadPut
<1>3. \A f \in execs' : \/ f \in execs
                        \/ f.pc # "sent" /\ \E e \in execs : /\ e.pc # "sent"
                                                             /\ SameExec(f, e)
  BY <1>1 DEF PutBack
<1> QED
  BY <1>1, <1>2, <1>3 DEF ExecsCalm, ExecsOf, OneExecutorPerAttempt

(* A completion that is answered drops the executor it answers.             *)
LEMMA ExecsEnded ==
    ASSUME ConfirmedInv, ThreadsInv, NEW q \in reqs, q.kind = "complete",
           Answer(q), Ended(q)
    PROVE  \A r \in Runs : ExecsCalm(r)
<1>1. ASSUME NEW e \in execs, e \notin execs', NEW c \in reqs', c.kind = "complete",
             IsOf(e, c)
      PROVE  FALSE
  <2>1. IsOf(e, q) /\ c \in reqs /\ c # q
    BY <1>1 DEF Ended, Answer
  <2>2. c.run = q.run /\ c.attempt = q.attempt
    BY <1>1, <2>1 DEF IsOf
  <2>3. ReportAlone(q)
    BY StateFacts DEF ThreadsInv, Thread, ReqsOf
  <2> QED
    BY <1>1, <2>1, <2>2, <2>3 DEF ReportAlone
<1>2. execs' \subseteq execs
  BY DEF Ended
<1> QED
  BY <1>1, <1>2, ExecsFewer DEF ThreadsInv

LEMMA TokensSame ==
    UNCHANGED tokens => \A r \in Runs : \A t \in TokensOf(r)' : t \in tokens
BY DEF TokensOf

LEMMA LauncherSame ==
    UNCHANGED launcher =>
        \A m \in Runners, r \in Runs : Placing(m, r)' => Placing(m, r)
BY DEF Placing

(* The steps of users and stages, of heartbeats and offers, of uploads and   *)
(* releases, and of executors, and every refusal, are calm.                *)
LEMMA UsersCalm ==
    ASSUME ConfirmedInv, ThreadsInv, NEW r \in Runs, UserMove(r) \/ StageStep(r)
    PROVE  \A x \in Runs : Calm(x)
<1>1. \A x \in Runs : RowCalm(x)
  <2>1. CASE Create(r)
    BY <2>1, CreateCalm
  <2>2. CASE ~Create(r)
    <3>1. /\ UserEdit(run'[r], run[r])
          /\ \A x \in Runs \ {r} : run'[x] = run[x]
      BY <2>2, UserEdits DEF UserMove, StageStep
    <3> QED
      BY <3>1, UserEditCalm, SameRow
  <2> QED
    BY <2>1, <2>2
<1>2. /\ UNCHANGED <<tokens, launcher, execs>>
      /\ \/ UNCHANGED reqs
         \/ reqs' = reqs \cup {UserReq("cancel", "release", r)}
  BY DEF UserMove, Create, Apply, Cancel, ForceCancel, CancelFrom, Discard,
     StageStep, BeginPrePlan, ContinueRun
<1>3. UserReq("cancel", "release", r).kind = "cancel"
  BY UserReqFields
<1>4. \A x \in Runs : ReqsCalm(x)
  BY <1>2, <1>3, ReqsKept DEF Claimant
<1>5. \A x \in Runs : ExecsCalm(x)
  BY <1>2, ExecsSame DEF ThreadsInv, ExecsOf
<1> QED
  BY <1>1, <1>2, <1>4, <1>5, TokensSame, LauncherSame DEF Calm

LEMMA LauncherCalm ==
    ASSUME ConfirmedInv, ThreadsInv, NEW n \in Runners,
           Heartbeat(n) \/ JobStart(n) \/ LauncherGivesUp(n)
    PROVE  \A x \in Runs : Calm(x)
<1>1. \A x \in Runs : RowCalm(x)
  BY HeartbeatCalm, SameRow DEF JobStart, LauncherGivesUp
<1>2. UNCHANGED <<tokens, execs>>
  BY DEF Heartbeat, JobStart, LauncherGivesUp
<1>3. \A x \in Runs : ReqsCalm(x)
  <2>1. CASE UNCHANGED reqs
    BY <2>1 DEF ReqsCalm, ReqsOf
  <2>2. CASE JobStart(n) /\ ~UNCHANGED reqs
    <3>1. PICK o : reqs' = reqs \cup
                     {LauncherReq("start", "claim", n, o, FALSE, 0)}
      BY <2>2 DEF JobStart
    <3>2. PICK p : /\ p = LauncherReq("start", "claim", n, o, FALSE, 0)
                   /\ p.kind = "start" /\ p.pc = "claim"
      BY RequestFields DEF LauncherReq
    <3> QED
      BY <3>1, <3>2, ReqsKept DEF Claimant
  <2> QED
    BY <2>1, <2>2 DEF Heartbeat, LauncherGivesUp
<1>4. \A m \in Runners, x \in Runs : Placing(m, x)' => Placing(m, x)
  <2>1. CASE JobStart(n)
    <3>1. PICK o : \/ UNCHANGED launcher
                   \/ launcher' = [launcher EXCEPT ![n] =
                        [pc |-> "start", run |-> o.run, phase |-> o.phase]]
      BY <2>1 DEF JobStart
    <3> QED
      BY <3>1, LaunchersCalm
  <2>2. CASE Heartbeat(n) \/ LauncherGivesUp(n)
    BY <2>2, LaunchersCalm DEF Heartbeat, LauncherGivesUp
  <2> QED
    BY <2>1, <2>2
<1>5. \A x \in Runs : ExecsCalm(x)
  BY <1>2, ExecsSame DEF ThreadsInv, ExecsOf
<1> QED
  BY <1>1, <1>2, <1>3, <1>4, <1>5, TokensSame DEF Calm

LEMMA HandlerCalm ==
    ASSUME ConfirmedInv, ThreadsInv, NEW q \in reqs,
           \/ UploadPut(q) \/ CancelRelease(q) \/ CompleteRelease(q)
           \/ CompleteLoad(q) /\ Answer(q) /\ Ended(q)
           \/ StartClaim(q) /\ Refused(q) /\ UNCHANGED run
    PROVE  \A x \in Runs : Calm(x)
<1>1. UNCHANGED <<run, tokens>> /\ Answer(q)
  BY DEF UploadPut, CancelRelease, CompleteLoad, CompleteRelease, StartClaim,
     Refused
<1>2. ~(q.kind = "complete" /\ q.pc = "revoke")
  BY DEF UploadPut, CancelRelease, CompleteLoad, CompleteRelease, StartClaim
<1>3. \A x \in Runs : RowCalm(x) /\ ReqsCalm(x)
  BY <1>1, <1>2, SameRow, ReqsAnswered
<1>4. \A m \in Runners, x \in Runs : Placing(m, x)' => Placing(m, x)
  <2>1. CASE UNCHANGED launcher
    BY <2>1, LauncherSame
  <2>2. CASE StartClaim(q) /\ SkipJob(q, "start") /\ ~UNCHANGED launcher
    <3>1. q.runner \in Runners
      BY <2>2, StateFacts DEF StartClaim, TypeOK
    <3>2. Forget(q.runner)
      BY <2>2 DEF SkipJob, Forget
    <3> QED
      BY <3>1, <3>2, LaunchersCalm
  <2> QED
    BY <2>1, <2>2 DEF UploadPut, CancelRelease, CompleteLoad, CompleteRelease,
                      Refused
<1>5. \A x \in Runs : ExecsCalm(x)
  <2>1. CASE UploadPut(q)
    BY <2>1, ExecsPut
  <2>2. CASE q.kind = "complete" /\ Ended(q)
    BY <1>1, <2>2, ExecsEnded
  <2>3. CASE UNCHANGED execs
    BY <2>3, ExecsSame DEF ThreadsInv, ExecsOf
  <2> QED
    BY <2>1, <2>2, <2>3 DEF CancelRelease, CompleteLoad, CompleteRelease,
                            StartClaim
<1> QED
  BY <1>1, <1>3, <1>4, <1>5, TokensSame DEF Calm

LEMMA ExecCalm ==
    ASSUME NoLosses, ConfirmedInv, ThreadsInv, NEW e \in execs,
           \/ ExecFetch(e) \/ UploadPlan(e) \/ \E o \in Outcomes : ExecEngine(e, o)
           \/ ExecReport(e) /\ execs' = execs \ {e} /\ UNCHANGED reqs
    PROVE  \A x \in Runs : Calm(x)
<1>1. UNCHANGED <<run, tokens, launcher>>
  BY DEF ExecFetch, UploadPlan, ExecEngine, ExecReport
<1>2. \A x \in Runs : ReqsCalm(x)
  <2>1. CASE UNCHANGED reqs
    BY <2>1 DEF ReqsCalm, ReqsOf
  <2>2. CASE UploadPlan(e) /\ ~UNCHANGED reqs
    <3>1. reqs' = reqs \cup {Request("plan", "write", e, "completed", run[e.run])}
      BY <2>2 DEF UploadPlan
    <3>2. PICK p : /\ p = Request("plan", "write", e, "completed", run[e.run])
                   /\ p.kind = "plan"
      BY RequestFields
    <3> QED
      BY <3>1, <3>2, ReqsKept DEF Claimant
  <2> QED
    BY <2>1, <2>2 DEF ExecFetch, ExecEngine
<1>3. \A x \in Runs : ExecsCalm(x)
  <2>1. CASE ExecReport(e) /\ execs' = execs \ {e}
    <3>1. e.pc # "sent"
      BY <2>1, NothingLost DEF ExecReport
    <3> QED
      BY <2>1, <3>1, ExecsFewer DEF ThreadsInv
  <2>2. CASE \/ ExecFetch(e) \/ UploadPlan(e)
             \/ \E o \in Outcomes : ExecEngine(e, o)
    <3>1. \/ \E f : Fetched(e, f) \/ Uploading(e, f)
          \/ \E o \in Outcomes : \E f : Worked(e, f, o)
      BY <2>2, ExecChanges
    <3>2. PICK f : SameExec(f, e) /\ Become(e, f) /\ e.pc # "sent" /\ f.pc # "sent"
      BY <3>1 DEF Fetched, Worked, Uploading
    <3> QED
      BY <3>2, ExecsBecome DEF ThreadsInv
  <2> QED
    BY <2>1, <2>2
<1> QED
  BY <1>1, <1>2, <1>3, SameRow, TokensSame, LauncherSame DEF Calm

(* A step that is about another run.                                        *)
LEMMA OtherCalm ==
    ASSUME NEW x \in Runs, Thread(x), run'[x] = run[x],
           ReqsOf(x)' = ReqsOf(x), ExecsOf(x)' = ExecsOf(x),
           TokensOf(x)' \subseteq TokensOf(x),
           \A m \in Runners : Placing(m, x)' => Placing(m, x)
    PROVE  Calm(x)
<1>1. RowCalm(x) /\ ExecsCalm(x)
  BY SameRow, ExecsSame
<1>2. ReqsCalm(x)
  <2>1. \A q \in ReqsOf(x)' : q \in reqs
    BY DEF ReqsOf
  <2>2. \A q \in ReqsOf(x) : q \in reqs'
    BY DEF ReqsOf
  <2> QED
    BY <2>1, <2>2 DEF ReqsCalm
<1>3. \A t \in TokensOf(x)' : t \in tokens
  BY DEF TokensOf
<1> QED
  BY <1>1, <1>2, <1>3 DEF Calm

-----------------------------------------------------------------------------
(* A run whose attempt has brought forth nothing yet, or that nobody holds:  *)
(* what there is of earlier attempts was answered, or is being revoked.    *)
Dormant(r) ==
    /\ \A e \in ExecsOf(r) : ~Unanswered(e)
    /\ \A c \in ReqsOf(r) : ~Writing(c, r)
    /\ TokensOf(r) # {} => Revoking(r)

LEMMA DormantWhen ==
    ASSUME NEW r \in Runs, Thread(r), ~run[r].claimed \/ Fresh(r)
    PROVE  Dormant(r)
<1>1. ASSUME NEW e \in ExecsOf(r), Unanswered(e) PROVE FALSE
  <2>1. InHand(r, e.runner) /\ e.attempt = run[r].attempt
    BY <1>1 DEF Thread, ExecCurrent, ExecsOf
  <2> QED
    BY <2>1 DEF InHand, Fresh, Unplaced, ExecsOf
<1>2. ASSUME NEW c \in ReqsOf(r), Writing(c, r) PROVE FALSE
  <2>1. PICK e \in execs : e.pc = "sent" /\ IsOf(e, c)
    BY <1>2 DEF Thread, ReportAlone, Writing
  <2>2. e \in ExecsOf(r) /\ Unanswered(e)
    BY <1>2, <2>1 DEF IsOf, ReqsOf, ExecsOf, Unanswered
  <2> QED
    BY <1>1, <2>2
<1>3. ASSUME NEW t \in TokensOf(r) PROVE Revoking(r)
  <2>1. TokenCurrent(t) /\ t.run = r /\ t \in tokens
    BY DEF Thread, TokensOf
  <2> QED
    BY <2>1 DEF TokenCurrent, InHand, Fresh
<1> QED
  BY <1>1, <1>2, <1>3 DEF Dormant

LEMMA UnclaimedIsFree ==
    ASSUME NEW r \in Runs, Thread(r), ~run[r].claimed
    PROVE  /\ \A q \in ReqsOf(r) : ~Claimant(q)
           /\ \A n \in Runners : ~Placing(n, r)
BY DEF Thread, ReqsOf, ClaimantAlone, ClaimantRow, PlacingAlone, InHand

(* A step of the start that carries the run's thread on, or takes it up.    *)
Placed(f, r) ==
    /\ f.pc # "sent" /\ f.attempt = run'[r].attempt /\ InHand(r, f.runner)'
    /\ \A e \in ExecsOf(r) : e.attempt # f.attempt
LEMMA Renewed ==
    ASSUME ConfirmedInv, NEW r \in Runs, Thread(r), Dormant(r),
           run'[r].attempt \in Nat, run[r].attempt <= run'[r].attempt,
           \A c : c.kind = "complete" => (c \in ReqsOf(r)' <=> c \in ReqsOf(r)),
           \A f \in ExecsOf(r)' : f \in execs \/ Placed(f, r),
           \A f, g \in ExecsOf(r)' : f \in execs \/ g \in execs \/ f = g,
           \A e \in ExecsOf(r) : e \in execs',
           \A t \in TokensOf(r)' :
             t \in tokens \/ (t.attempt = run'[r].attempt /\ InHand(r, t.runner)'),
           \A q \in ReqsOf(r)' : ClaimantAlone(q)',
           \A n \in Runners : PlacingAlone(n, r)'
    PROVE  Thread(r)'
<1>0. /\ run[r].attempt \in Nat
      /\ \A e \in execs : e.attempt \in Nat
      /\ \A t \in tokens : t.attempt \in Nat
  BY StateFacts DEF Row, Exec, Token, TypeOK
<1>1. \A e, f \in ExecsOf(r)' : e.attempt = f.attempt => e = f
  BY DEF ExecsOf, Thread, Placed
<1>2. ASSUME NEW e \in ExecsOf(r)' PROVE ExecCurrent(e)'
  <2>1. CASE e \in execs
    <3>1. e \in ExecsOf(r) /\ ExecCurrent(e) /\ ~Unanswered(e)
      BY <1>2, <2>1 DEF ExecsOf, Thread, Dormant
    <3>2. ~Unanswered(e)'
      <4>1. SUFFICES ASSUME NEW c \in reqs', Writing(c, r), IsOf(e, c)
                     PROVE  FALSE
        BY <3>1 DEF Unanswered, ExecsOf
      <4>2. c \in ReqsOf(r)'
        BY <4>1 DEF ReqsOf, Writing
      <4>3. c \in ReqsOf(r)
        BY <4>1, <4>2 DEF Writing
      <4> QED
        BY <4>1, <4>3 DEF Dormant
    <3> QED
      BY <1>0, <2>1, <3>1, <3>2 DEF ExecCurrent, ExecsOf
  <2>2. CASE Placed(e, r)
    BY <1>2, <2>2 DEF Placed, ExecCurrent, ExecsOf
  <2> QED
    BY <2>1, <2>2
<1>3. ASSUME NEW c \in ReqsOf(r)', c.kind = "complete" PROVE ReportAlone(c)'
  <2>1. c \in ReqsOf(r) /\ c \in reqs /\ ReportAlone(c) /\ c.run = r
    BY <1>3 DEF ReqsOf, Thread
  <2>2. c.pc # "write"
    BY <1>3, <2>1 DEF Dormant, Writing
  <2>3. PICK e \in execs : e.pc = "sent" /\ IsOf(e, c)
    BY <1>3, <2>1 DEF ReportAlone
  <2>4. e \in execs'
    BY <2>1, <2>3 DEF IsOf, ExecsOf
  <2>5. ASSUME NEW d \in reqs', d.kind = "complete", d.run = c.run,
               d.attempt = c.attempt
        PROVE  d = c
    <3>1. d \in ReqsOf(r)'
      BY <2>1, <2>5 DEF ReqsOf
    <3>2. d \in reqs
      BY <2>5, <3>1 DEF ReqsOf
    <3> QED
      BY <1>3, <2>1, <2>5, <3>2 DEF ReportAlone
  <2> QED
    BY <2>2, <2>3, <2>4, <2>5 DEF ReportAlone
<1>4. ASSUME NEW t \in TokensOf(r)' PROVE TokenCurrent(t)'
  <2>1. t.run = r
    BY DEF TokensOf
  <2>2. CASE t \in tokens
    <3>1. TokenCurrent(t) /\ Revoking(r)
      BY <2>1, <2>2 DEF TokensOf, Thread, Dormant
    <3>2. PICK c \in reqs : c.kind = "complete" /\ c.pc = "revoke" /\ c.run = r
      BY <3>1 DEF Revoking
    <3>3. c \in ReqsOf(r)'
      BY <3>2 DEF ReqsOf
    <3>4. Revoking(r)'
      BY <3>2, <3>3 DEF ReqsOf, Revoking
    <3> QED
      BY <1>0, <2>1, <2>2, <3>1, <3>4 DEF TokenCurrent
  <2>3. CASE t.attempt = run'[r].attempt /\ InHand(r, t.runner)'
    BY <2>1, <2>3 DEF TokenCurrent
  <2> QED
    BY <1>4, <2>2, <2>3
<1>5. \A q \in ReqsOf(r)' : ClaimantAlone(q)' /\ ReportAlone(q)'
  BY <1>3 DEF ReportAlone
<1> QED
  BY <1>1, <1>2, <1>4, <1>5 DEF Thread

(* The other runs of a step about run r.                                    *)
LEMMA ThreadsBut ==
    ASSUME ConfirmedInv, ThreadsInv, NEW r \in Runs, Thread(r)', SameOthers(r),
           \A x \in Runs \ {r} : /\ ReqsOf(x)' = ReqsOf(x)
                                 /\ ExecsOf(x)' = ExecsOf(x)
                                 /\ TokensOf(x)' \subseteq TokensOf(x)
                                 /\ \A m \in Runners : Placing(m, x)' => Placing(m, x)
    PROVE  ThreadsInv'
<1>1. ASSUME NEW x \in Runs \ {r} PROVE Thread(x)'
  <2>1. Thread(x) /\ run'[x] = run[x]
    BY DEF ThreadsInv, SameOthers
  <2>2. Calm(x)
    BY <2>1, OtherCalm
  <2> QED
    BY <2>1, <2>2, CalmFrame
<1> QED
  BY <1>1 DEF ThreadsInv

(* The request served goes on, or is answered.                              *)
GoesOn(q, p) == /\ p.kind = q.kind /\ p.run = q.run
                /\ reqs' = (reqs \ {q}) \cup {p}
LEMMA ServedReqs ==
    ASSUME NEW q \in reqs, Answer(q) \/ \E p : GoesOn(q, p)
    PROVE  /\ \A x \in Runs \ {q.run} : ReqsOf(x)' = ReqsOf(x)
           /\ q.kind # "complete" =>
                \A c : c.kind = "complete" =>
                         (c \in ReqsOf(q.run)' <=> c \in ReqsOf(q.run))
BY DEF ReqsOf, Answer, GoesOn

LEMMA ClaimThreads ==
    ASSUME ConfirmedInv, ThreadsInv, NEW q \in reqs, StartClaim(q)
    PROVE  ThreadsInv'
<1> DEFINE r == q.run
<1>0. r \in Runs /\ run[r] \in Row /\ q.kind = "start" /\ q.pc = "claim"
  BY StateFacts DEF StartClaim
<1>1. CASE Refused(q) /\ UNCHANGED run
  BY <1>1, HandlerCalm, CalmFrame DEF ThreadsInv
<1>2. CASE /\ Dispatchable(run[r]) /\ Advance(q, "lock") /\ UNCHANGED launcher
           /\ run'[r].attempt = run[r].attempt + 1 /\ run'[r].claimed
           /\ run'[r].status = run[r].status
  <2>1. Thread(r) /\ ~run[r].claimed /\ run[r].status \in Startable
    BY <1>0, <1>2 DEF ThreadsInv, Dispatchable
  <2>2. /\ Dormant(r) /\ \A p \in ReqsOf(r) : ~Claimant(p)
        /\ \A n \in Runners : ~Placing(n, r)
    BY <1>0, <2>1, DormantWhen, UnclaimedIsFree
  <2>3. PICK p : Continues(p, q, "lock") /\ GoesOn(q, p)
    BY <1>2, Advanced DEF GoesOn, Continues
  <2>4. UNCHANGED <<tokens, execs>> /\ SameOthers(r)
    BY StartMoves DEF StartClaim
  <2>5. run[r].attempt \in Nat /\ run'[r].attempt = run[r].attempt + 1
    BY <1>0, <1>2 DEF Row
  <2>6. Fresh(r)'
    <3>1. \A e \in execs : e.run = r => e.attempt <= run[r].attempt
      BY <2>1 DEF Thread, ExecCurrent, ExecsOf
    <3>2. \A t \in tokens : t.run = r => t.attempt <= run[r].attempt
      BY <2>1 DEF Thread, TokenCurrent, TokensOf
    <3>3. /\ \A e \in execs : e.attempt \in Nat
          /\ \A t \in tokens : t.attempt \in Nat
      BY StateFacts DEF Exec, Token, TypeOK
    <3>4. \A e \in execs' : e.run = r => e.attempt # run'[r].attempt
      BY <2>4, <2>5, <3>1, <3>3
    <3>5. \A t \in tokens' : t.run = r => t.attempt # run'[r].attempt
      BY <2>4, <2>5, <3>2, <3>3
    <3> QED
      BY <3>4, <3>5 DEF Fresh, Unplaced
  <2>7. \A x \in reqs' : Claimant(x) /\ x.run = r => x = p
    BY <2>2, <2>3 DEF GoesOn, ReqsOf
  <2>8. ClaimantRow(p)'
    BY <1>0, <1>2, <2>1, <2>3 DEF Continues, ClaimantRow
  <2>9. \A n \in Runners, x \in Runs : Placing(n, x)' => Placing(n, x)
    BY <1>2, LauncherSame
  <2>10. ASSUME NEW x \in ReqsOf(r)' PROVE ClaimantAlone(x)'
    <3>1. SUFFICES ASSUME Claimant(x) PROVE ClaimantAlone(x)'
      BY DEF ClaimantAlone
    <3>2. x = p /\ x.run = r /\ x.kind = "start"
      BY <1>0, <2>3, <2>7, <2>10, <3>1 DEF ReqsOf, Continues
    <3> QED
      BY <1>0, <2>2, <2>6, <2>7, <2>8, <2>9, <3>2 DEF ClaimantAlone
  <2>11. \A x \in Runs : /\ ExecsOf(x)' = ExecsOf(x)
                        /\ TokensOf(x)' = TokensOf(x)
    BY <2>4 DEF ExecsOf, TokensOf
  <2>12. \A n \in Runners : PlacingAlone(n, r)'
    BY <1>0, <2>2, <2>9 DEF PlacingAlone
  <2>13. Thread(r)'
    <3>1. \A f \in ExecsOf(r)' : f \in execs
      BY <2>4 DEF ExecsOf
    <3>2. \A e \in ExecsOf(r) : e \in execs'
      BY <2>4 DEF ExecsOf
    <3>3. \A t \in TokensOf(r)' : t \in tokens
      BY <2>4 DEF TokensOf
    <3>4. \A c : c.kind = "complete" => (c \in ReqsOf(r)' <=> c \in ReqsOf(r))
      BY <1>0, <2>3, ServedReqs
    <3> HIDE DEF r
    <3> QED
      BY <1>0, <2>1, <2>2, <2>5, <2>10, <2>12, <3>1, <3>2, <3>3, <3>4, Renewed
  <2> QED
    BY <1>0, <2>3, <2>4, <2>9, <2>11, <2>13, ServedReqs, ThreadsBut
<1> QED
  BY <1>1, <1>2, StartMoves

(* What a claimant finds: its run is its own.                               *)
LEMMA ClaimantFacts ==
    ASSUME ConfirmedInv, ThreadsInv, NEW q \in reqs, Claimant(q)
    PROVE  /\ q.run \in Runs /\ run[q.run] \in Row /\ run[q.run].attempt \in Nat
           /\ q.runner \in Runners /\ q.kind # "complete"
           /\ Thread(q.run) /\ Fresh(q.run) /\ ClaimantRow(q) /\ Dormant(q.run)
           /\ \A p \in reqs : Claimant(p) /\ p.run = q.run => p = q
           /\ \A n \in Runners : ~Placing(n, q.run)
           /\ q.kind = "token" => q.attempt = run[q.run].attempt
<1>1. q.run \in Runs /\ run[q.run] \in Row /\ q.runner \in Runners
  BY StateFacts DEF TypeOK, Claimant
<1>2. Thread(q.run) /\ ClaimantAlone(q)
  BY <1>1 DEF ThreadsInv, Thread, ReqsOf
<1>3. run[q.run].attempt \in Nat
  BY <1>1 DEF Row
<1>4. Dormant(q.run)
  BY <1>1, <1>2, DormantWhen DEF ClaimantAlone
<1> QED
  BY <1>1, <1>2, <1>3, <1>4 DEF ClaimantAlone, Claimant

(* A start that goes on keeps the thread of its run.                        *)
LEMMA OnThreads ==
    ASSUME ConfirmedInv, ThreadsInv, NEW q \in reqs, Claimant(q),
           NEW p, GoesOn(q, p), p.kind = "start",
           UNCHANGED <<tokens, execs, launcher>>, SameOthers(q.run),
           run'[q.run].attempt = run[q.run].attempt, ClaimantRow(p)'
    PROVE  ThreadsInv'
<1> DEFINE r == q.run
<1>1. /\ r \in Runs /\ Thread(r) /\ Dormant(r) /\ run[r].attempt \in Nat
      /\ p.run = r
  BY ClaimantFacts DEF GoesOn
<1>2. Fresh(r)'
  BY ClaimantFacts DEF Fresh, Unplaced
<1>3. \A x \in reqs' : Claimant(x) /\ x.run = r => x = p
  BY ClaimantFacts DEF GoesOn
<1>4. \A n \in Runners, x \in Runs : Placing(n, x)' => Placing(n, x)
  BY LauncherSame
<1>5. ASSUME NEW x \in ReqsOf(r)' PROVE ClaimantAlone(x)'
  <2>1. SUFFICES ASSUME Claimant(x) PROVE ClaimantAlone(x)'
    BY DEF ClaimantAlone
  <2>2. x = p /\ x.run = r
    BY <1>3, <1>5, <2>1 DEF ReqsOf
  <2> QED
    BY <1>1, <1>2, <1>3, <1>4, <2>2, ClaimantFacts DEF ClaimantAlone
<1>6. \A x \in Runs : ExecsOf(x)' = ExecsOf(x) /\ TokensOf(x)' = TokensOf(x)
  BY DEF ExecsOf, TokensOf
<1>7. Thread(r)'
  <2>1. \A n \in Runners : PlacingAlone(n, r)'
    BY <1>1, <1>4, ClaimantFacts DEF PlacingAlone
  <2>2. \A f \in ExecsOf(r)' : f \in execs
    BY DEF ExecsOf
  <2>3. \A e \in ExecsOf(r) : e \in execs'
    BY DEF ExecsOf
  <2>4. \A t \in TokensOf(r)' : t \in tokens
    BY DEF TokensOf
  <2>5. \A c : c.kind = "complete" => (c \in ReqsOf(r)' <=> c \in ReqsOf(r))
    BY ClaimantFacts, ServedReqs
  <2>6. run'[r].attempt \in Nat /\ run[r].attempt <= run'[r].attempt
    BY <1>1
  <2> HIDE DEF r
  <2> QED
    BY <1>1, <1>5, <2>1, <2>2, <2>3, <2>4, <2>5, <2>6, Renewed
<1> QED
  BY <1>1, <1>4, <1>6, <1>7, ServedReqs, ThreadsBut

(* One that is answered leaves it to the executor it placed, to the launcher *)
(* it answered, or to nobody.                                              *)
LEMMA AnsweredThreads ==
    ASSUME ConfirmedInv, ThreadsInv, NEW q \in reqs, Claimant(q), Answer(q),
           SameOthers(q.run), run'[q.run].attempt = run[q.run].attempt,
           \/ UNCHANGED execs
           \/ \E f : /\ f.run = q.run /\ Placed(f, q.run)
                     /\ execs' = execs \cup {f},
           \A t \in tokens' \ tokens : /\ t.run = q.run
                                       /\ t.attempt = run'[q.run].attempt
                                       /\ InHand(q.run, t.runner)',
           \A n \in Runners, x \in Runs \ {q.run} :
             Placing(n, x)' => Placing(n, x),
           \A n \in Runners : PlacingAlone(n, q.run)'
    PROVE  ThreadsInv'
<1> DEFINE r == q.run
<1>1. r \in Runs /\ Thread(r) /\ Dormant(r) /\ run[r].attempt \in Nat
  BY ClaimantFacts
<1>2. \A x \in reqs' : x.run = r => ~Claimant(x)
  BY ClaimantFacts DEF Answer
<1>3. \A x \in ReqsOf(r)' : ClaimantAlone(x)'
  BY <1>2 DEF ClaimantAlone, ReqsOf
<1>4. \A x \in Runs \ {r} : /\ ExecsOf(x)' = ExecsOf(x)
                           /\ TokensOf(x)' \subseteq TokensOf(x)
  BY DEF ExecsOf, TokensOf
<1>5. Thread(r)'
  <2>1. \A f, g \in ExecsOf(r)' : /\ f \in execs \/ Placed(f, r)
                                  /\ f \in execs \/ g \in execs \/ f = g
    BY DEF ExecsOf
  <2>2. \A e \in ExecsOf(r) : e \in execs'
    BY DEF ExecsOf
  <2>3. \A t \in TokensOf(r)' :
          t \in tokens \/ (t.attempt = run'[r].attempt /\ InHand(r, t.runner)')
    BY DEF TokensOf
  <2>4. \A c : c.kind = "complete" => (c \in ReqsOf(r)' <=> c \in ReqsOf(r))
    BY ClaimantFacts, ServedReqs
  <2>5. run'[r].attempt \in Nat /\ run[r].attempt <= run'[r].attempt
    BY <1>1
  <2>6. \A n \in Runners : PlacingAlone(n, r)'
    OBVIOUS
  <2> HIDE DEF r
  <2> QED
    BY <1>1, <1>3, <2>1, <2>2, <2>3, <2>4, <2>5, <2>6, Renewed
<1> QED
  BY <1>1, <1>4, <1>5, ServedReqs, ThreadsBut

LEMMA LockThreads ==
    ASSUME ConfirmedInv, ThreadsInv, NEW q \in reqs, StartLock(q)
    PROVE  ThreadsInv'
<1>1. /\ q.kind = "start" /\ q.pc = "lock" /\ Claimant(q)
      /\ UNCHANGED <<tokens, execs>>
  BY DEF StartLock, Claimant
<1>2. CASE Advance(q, "write") /\ UNCHANGED <<run, launcher>>
  <2>1. PICK p : Continues(p, q, "write") /\ GoesOn(q, p)
    BY <1>2, Advanced DEF GoesOn, Continues
  <2>2. ClaimantRow(p)'
    <3>1. ClaimantRow(q)
      BY <1>1, ClaimantFacts
    <3> QED
      BY <1>1, <1>2, <2>1, <3>1 DEF ClaimantRow, Continues
  <2>3. p.kind = "start" /\ SameOthers(q.run)
    BY <1>1, <1>2, <2>1 DEF Continues, SameOthers
  <2> QED
    BY <1>1, <1>2, <2>1, <2>2, <2>3, OnThreads
<1>3. CASE /\ Refused(q) /\ SameOthers(q.run)
           /\ Edited(run'[q.run], run[q.run])
  <2>1. \A n \in Runners, x \in Runs : Placing(n, x)' => Placing(n, x)
    <3>1. UNCHANGED launcher \/ Forget(q.runner)
      BY <1>3 DEF Refused, SkipJob, Forget
    <3> QED
      BY <1>1, <3>1, ClaimantFacts, LaunchersCalm
  <2>2. \A n \in Runners : PlacingAlone(n, q.run)'
    BY <1>1, <2>1, ClaimantFacts DEF PlacingAlone
  <2>3. Answer(q) /\ run'[q.run].attempt = run[q.run].attempt
    BY <1>3 DEF Refused, Edited
  <2> QED
    BY <1>1, <1>3, <2>1, <2>2, <2>3, AnsweredThreads
<1> QED
  BY <1>2, <1>3, StartMoves

LEMMA WriteThreads ==
    ASSUME ConfirmedInv, GateInv, ThreadsInv, NEW q \in reqs, StartWrite(q)
    PROVE  ThreadsInv'
<1>1. /\ q.kind = "start" /\ q.pc = "write" /\ Claimant(q)
      /\ UNCHANGED <<tokens, execs>>
  BY DEF StartWrite, Claimant
<1>2. /\ SameOthers(q.run)
      /\ Advance(q, "revoke") /\ UNCHANGED launcher
      /\ Edited(run'[q.run], run[q.run])
      /\ run'[q.run].claimed = run[q.run].claimed
      /\ run'[q.run].runner = q.runner
      /\ run'[q.run].status = IF q.snap.status \in Ready
                                THEN "planning" ELSE run[q.run].status
  BY StartMoves
<1>3. PICK p : Continues(p, q, "revoke") /\ GoesOn(q, p)
  BY <1>2, Advanced DEF GoesOn, Continues
<1>4. ClaimantRow(p)'
  <2>1. run[q.run].claimed /\ run[q.run].status \in Startable \cup {"cancelled"}
    BY <1>1, ClaimantFacts DEF ClaimantRow
  <2>2. run[q.run].status \in Ready => q.snap.status \in Ready
    BY <1>1 DEF GateInv, StartGate
  <2>3. run'[q.run].status \in Working \cup {"cancelled"}
    BY <1>2, <2>1, <2>2 DEF Startable, Ready, Working
  <2> QED
    BY <1>2, <1>3, <2>1, <2>3 DEF ClaimantRow, Continues, InHand
<1>5. p.kind = "start" /\ run'[q.run].attempt = run[q.run].attempt
  BY <1>1, <1>2, <1>3 DEF Continues, Edited
<1> QED
  BY <1>1, <1>2, <1>3, <1>4, <1>5, OnThreads

(* The executor a start, or a token request, places.                        *)
LEMMA PlacesOwn ==
    ASSUME ConfirmedInv, ThreadsInv, NEW q \in reqs, Claimant(q),
           q.pc \notin {"lock", "write"} \/ q.kind = "token", UNCHANGED run,
           NEW job \in BOOLEAN, job => q.kind = "token"
    PROVE  /\ \E f : /\ f = NewExec(q, job) /\ f.run = q.run
                     /\ Placed(f, q.run)
           /\ InHand(q.run, q.runner) /\ InHand(q.run, q.runner)'
<1>1. InHand(q.run, q.runner)
  BY ClaimantFacts DEF ClaimantRow
<1>2. InHand(q.run, q.runner)'
  BY <1>1 DEF InHand
<1>3. /\ NewExec(q, job).run = q.run /\ NewExec(q, job).runner = q.runner
      /\ NewExec(q, job).pc = "fetch"
      /\ NewExec(q, job).attempt = run[q.run].attempt
  BY ClaimantFacts DEF NewExec
<1>4. PICK f : f = NewExec(q, job)
  OBVIOUS
<1>5. \A e \in ExecsOf(q.run) : e.attempt # run[q.run].attempt
  BY ClaimantFacts DEF Fresh, Unplaced, ExecsOf
<1> QED
  BY <1>1, <1>2, <1>3, <1>4, <1>5 DEF Placed

LEMMA RevokeThreads ==
    ASSUME ConfirmedInv, ThreadsInv, NEW q \in reqs, StartRevoke(q)
    PROVE  ThreadsInv'
<1>1. /\ q.kind = "start" /\ q.pc = "revoke" /\ Claimant(q) /\ Answer(q)
      /\ UNCHANGED run /\ tokens' \subseteq tokens /\ SameOthers(q.run)
  BY DEF StartRevoke, Claimant, RevokeTokens, SameOthers
<1>2. q.runner \in Runners /\ q.run \in Runs
  BY <1>1, ClaimantFacts
<1>3. CASE UNCHANGED execs /\ UNCHANGED launcher
  <2>1. \A n \in Runners, x \in Runs : Placing(n, x)' => Placing(n, x)
    BY <1>3, LauncherSame
  <2>2. \A n \in Runners : PlacingAlone(n, q.run)'
    BY <1>1, <1>2, <2>1, ClaimantFacts DEF PlacingAlone
  <2> QED
    BY <1>1, <1>3, <2>1, <2>2, AnsweredThreads
<1>4. CASE execs' = execs \cup {NewExec(q, FALSE)} /\ Forget(q.runner)
  <2>1. \A n \in Runners, x \in Runs : Placing(n, x)' => Placing(n, x)
    BY <1>2, <1>4, LaunchersCalm
  <2>2. \A n \in Runners : PlacingAlone(n, q.run)'
    BY <1>1, <1>2, <2>1, ClaimantFacts DEF PlacingAlone
  <2>3. \E f : f = NewExec(q, FALSE) /\ f.run = q.run /\ Placed(f, q.run)
    BY <1>1, PlacesOwn
  <2> QED
    BY <1>1, <1>4, <2>1, <2>2, <2>3, AnsweredThreads
<1>5. CASE /\ IsWaiting(q, "start") /\ UNCHANGED execs
           /\ launcher' = [launcher EXCEPT ![q.runner].pc = "token"]
  <2>1. /\ launcher \in [Runners -> Launcher] /\ launcher[q.runner] \in Launcher
        /\ launcher[q.runner].run = q.run
    BY <1>2, <1>5, StateFacts DEF IsWaiting
  <2>2. launcher'[q.runner].run = q.run
    BY <1>2, <1>5, <2>1 DEF Launcher
  <2>3. \A n \in Runners \ {q.runner} : launcher'[n] = launcher[n]
    BY <1>2, <1>5, <2>1
  <2>4. \A n \in Runners, x \in Runs \ {q.run} : Placing(n, x)' => Placing(n, x)
    BY <2>2, <2>3 DEF Placing
  <2>5. \A n \in Runners : Placing(n, q.run)' => n = q.runner
    BY <1>1, <2>3, ClaimantFacts DEF Placing
  <2>6. Fresh(q.run)' /\ InHand(q.run, q.runner)'
    <3>1. InHand(q.run, q.runner)'
      BY <1>1, PlacesOwn
    <3>2. Fresh(q.run)
      BY <1>1, ClaimantFacts
    <3> QED
      BY <1>1, <1>5, <3>1, <3>2 DEF Fresh, Unplaced
  <2>7. \A n \in Runners : PlacingAlone(n, q.run)'
    BY <2>5, <2>6 DEF PlacingAlone
  <2> QED
    BY <1>1, <1>5, <2>4, <2>7, AnsweredThreads
<1> QED
  BY <1>3, <1>4, <1>5 DEF StartRevoke

LEMMA MintThreads ==
    ASSUME ConfirmedInv, ThreadsInv, NEW q \in reqs, TokenMint(q)
    PROVE  ThreadsInv'
<1>1. /\ q.kind = "token" /\ Claimant(q) /\ Answer(q) /\ UNCHANGED run
      /\ SameOthers(q.run)
      /\ tokens' = tokens \cup {[run |-> q.run, runner |-> q.runner,
                                 attempt |-> q.attempt]}
  BY DEF TokenMint, Claimant, SameOthers
<1>2. q.runner \in Runners /\ q.run \in Runs /\ q.attempt = run[q.run].attempt
  BY <1>1, ClaimantFacts
<1>3. /\ \E f : f = NewExec(q, TRUE) /\ f.run = q.run /\ Placed(f, q.run)
      /\ InHand(q.run, q.runner)'
  BY <1>1, PlacesOwn
<1>4. \A t \in tokens' \ tokens : /\ t.run = q.run
                                  /\ t.attempt = run'[q.run].attempt
                                  /\ InHand(q.run, t.runner)'
  BY <1>1, <1>2, <1>3
<1>5. \A n \in Runners, x \in Runs : Placing(n, x)' => Placing(n, x)
  <2>1. UNCHANGED launcher \/ Forget(q.runner)
    BY DEF TokenMint
  <2> QED
    BY <1>2, <2>1, LaunchersCalm
<1>6. \A n \in Runners : PlacingAlone(n, q.run)'
  BY <1>1, <1>2, <1>5, ClaimantFacts DEF PlacingAlone
<1>7. UNCHANGED execs \/ execs' = execs \cup {NewExec(q, TRUE)}
  BY DEF TokenMint
<1> QED
  BY <1>1, <1>2, <1>3, <1>4, <1>5, <1>6, <1>7, AnsweredThreads

(* The launcher that was answered asks for its token, or finds the run ended. *)
LEMMA JobTokenThreads ==
    ASSUME ConfirmedInv, ThreadsInv, NEW n \in Runners, JobToken(n)
    PROVE  ThreadsInv'
<1>1. /\ launcher[n].pc = "token"
      /\ UNCHANGED <<run, tokens, execs>>
  BY DEF JobToken
<1>2. CASE Forget(n) /\ UNCHANGED reqs
  <2>1. \A m \in Runners, x \in Runs : Placing(m, x)' => Placing(m, x)
    BY <1>2, LaunchersCalm
  <2>2. ASSUME NEW x \in Runs PROVE Calm(x)
    <3>1. /\ ReqsOf(x)' = ReqsOf(x) /\ ExecsOf(x)' = ExecsOf(x)
          /\ TokensOf(x)' = TokensOf(x)
      BY <1>1, <1>2 DEF ReqsOf, ExecsOf, TokensOf
    <3> QED
      BY <1>1, <2>1, <3>1, OtherCalm DEF ThreadsInv
  <2> QED
    BY <2>2, CalmFrame DEF ThreadsInv
<1>3. CASE ~(Forget(n) /\ UNCHANGED reqs)
  <2>1. PICK r : r = launcher[n].run
    OBVIOUS
  <2>2. r \in Runs /\ Placing(n, r)
    BY <1>1, <2>1, StateFacts DEF TypeOK, Placing
  <2>3. /\ Thread(r) /\ Fresh(r) /\ InHand(r, n) /\ Dormant(r)
        /\ run[r].attempt \in Nat
    <3>1. Thread(r) /\ Fresh(r) /\ InHand(r, n)
      BY <2>2 DEF ThreadsInv, Thread, PlacingAlone
    <3>2. run[r] \in Row
      BY <2>2, StateFacts
    <3> QED
      BY <2>2, <3>1, <3>2, DormantWhen DEF Row
  <2>4. PICK p : /\ p = LauncherReq("token", "write", n, launcher[n], FALSE,
                                    run[r].attempt)
                 /\ p.kind = "token" /\ p.pc = "write" /\ p.run = r
                 /\ p.runner = n /\ p.attempt = run[r].attempt
    BY <2>1, RequestFields DEF LauncherReq
  <2>5. reqs' = reqs \cup {p} /\ launcher' = [launcher EXCEPT ![n].pc = "mint"]
    BY <1>3, <2>1, <2>4 DEF JobToken
  <2>6. \A m \in Runners, x \in Runs : Placing(m, x)' => Placing(m, x)
    BY <2>5, LaunchersCalm
  <2>7. \A x \in reqs : x.run = r => ~Claimant(x)
    BY <2>2, <2>3 DEF Thread, ReqsOf, ClaimantAlone
  <2>8. \A m \in Runners : ~Placing(m, r)'
    <3>1. ~Placing(n, r)'
      BY <2>5, StateFacts DEF Placing, Launcher
    <3>2. ASSUME NEW m \in Runners, Placing(m, r) PROVE m = n
      BY <2>3, <3>2 DEF Thread, PlacingAlone, InHand
    <3> QED
      BY <2>2, <2>6, <3>1, <3>2
  <2>9. Fresh(r)' /\ ClaimantRow(p)'
    BY <1>1, <2>3, <2>4 DEF Fresh, Unplaced, ClaimantRow, InHand
  <2>10. ASSUME NEW x \in ReqsOf(r)' PROVE ClaimantAlone(x)'
    <3>1. SUFFICES ASSUME Claimant(x) PROVE ClaimantAlone(x)'
      BY DEF ClaimantAlone
    <3>2. x = p /\ \A y \in reqs' : Claimant(y) /\ y.run = r => y = p
      BY <2>5, <2>7, <2>10, <3>1 DEF ReqsOf
    <3> QED
      BY <1>1, <2>4, <2>8, <2>9, <3>2 DEF ClaimantAlone
  <2>11. /\ \A x \in Runs : ExecsOf(x)' = ExecsOf(x) /\ TokensOf(x)' = TokensOf(x)
         /\ \A x \in Runs \ {r} : ReqsOf(x)' = ReqsOf(x)
         /\ \A c : c.kind = "complete" => (c \in ReqsOf(r)' <=> c \in ReqsOf(r))
    BY <1>1, <2>4, <2>5 DEF ReqsOf, ExecsOf, TokensOf
  <2>12. Thread(r)'
    <3>1. \A m \in Runners : PlacingAlone(m, r)'
      BY <2>8 DEF PlacingAlone
    <3>2. \A f \in ExecsOf(r)' : f \in execs
      BY <1>1 DEF ExecsOf
    <3>3. \A e \in ExecsOf(r) : e \in execs'
      BY <1>1 DEF ExecsOf
    <3>4. \A t \in TokensOf(r)' : t \in tokens
      BY <1>1 DEF TokensOf
    <3>5. run'[r].attempt \in Nat /\ run[r].attempt <= run'[r].attempt
      BY <1>1, <2>3
    <3> QED
      BY <2>2, <2>3, <2>10, <2>11, <3>1, <3>2, <3>3, <3>4, <3>5, Renewed
  <2>13. SameOthers(r)
    BY <1>1 DEF SameOthers
  <2> QED
    BY <2>2, <2>6, <2>11, <2>12, <2>13, ThreadsBut
<1> QED
  BY <1>2, <1>3

-----------------------------------------------------------------------------
(* Reports.  The executor of a report that is not written holds its run.    *)
LEMMA HolderFacts ==
    ASSUME NEW r \in Runs, Thread(r), NEW e \in ExecsOf(r), Unanswered(e)
    PROVE  /\ InHand(r, e.runner) /\ e.attempt = run[r].attempt
           /\ \A q \in ReqsOf(r) : ~Claimant(q)
           /\ \A n \in Runners : ~Placing(n, r)
           /\ \A g \in ExecsOf(r) : Unanswered(g) => g = e
<1>1. InHand(r, e.runner) /\ e.attempt = run[r].attempt
  BY DEF Thread, ExecCurrent, ExecsOf
<1>2. ~Fresh(r)
  BY <1>1 DEF Fresh, Unplaced, ExecsOf
<1>3. \A q \in ReqsOf(r) : ~Claimant(q)
  BY <1>2 DEF Thread, ClaimantAlone, ReqsOf
<1>4. \A n \in Runners : ~Placing(n, r)
  BY <1>2 DEF Thread, PlacingAlone
<1>5. \A g \in ExecsOf(r) : Unanswered(g) => g.attempt = run[r].attempt
  BY DEF Thread, ExecCurrent, ExecsOf
<1> QED
  BY <1>1, <1>3, <1>4, <1>5 DEF Thread

LEMMA ReporterFacts ==
    ASSUME NEW r \in Runs, Thread(r), NEW q \in ReqsOf(r), q.kind = "complete"
    PROVE  /\ \E e \in ExecsOf(r) : /\ e.pc = "sent" /\ IsOf(e, q)
                                    /\ Writing(q, r) => Unanswered(e)
           /\ \A d \in ReqsOf(r) : /\ d.kind = "complete"
                                   /\ d.attempt = q.attempt
                                   => d = q
<1>1. q \in reqs /\ q.run = r /\ ReportAlone(q)
  BY DEF ReqsOf, Thread
<1>2. PICK e \in execs : e.pc = "sent" /\ IsOf(e, q)
  BY <1>1 DEF ReportAlone
<1>3. e \in ExecsOf(r) /\ (Writing(q, r) => Unanswered(e))
  BY <1>1, <1>2 DEF IsOf, ExecsOf, Unanswered
<1>4. \A d \in ReqsOf(r) : d.kind = "complete" /\ d.attempt = q.attempt => d = q
  BY <1>1 DEF ReportAlone, ReqsOf
<1> QED
  BY <1>2, <1>3, <1>4

(* A completion that goes on stays the only one of its attempt.             *)
LEMMA ReportsOn ==
    ASSUME NEW r \in Runs, Thread(r), NEW q \in ReqsOf(r), q.kind = "complete",
           NEW p, SameReport(p, q), reqs' = (reqs \ {q}) \cup {p},
           UNCHANGED execs
    PROVE  /\ \A d \in ReqsOf(r)' : d.kind = "complete" =>
                /\ \E e \in execs' : e.pc = "sent" /\ IsOf(e, d)
                /\ \A c \in reqs' : /\ c.kind = "complete" /\ c.run = d.run
                                    /\ c.attempt = d.attempt
                                    => c = d
           /\ \A d \in ReqsOf(r)' : d = p \/ (d \in ReqsOf(r) /\ d # q)
           /\ p.kind = "complete" /\ p.run = r
           /\ \A x \in Runs \ {r} : ReqsOf(x)' = ReqsOf(x)
<1>1. p.kind = "complete" /\ p.run = r /\ p.attempt = q.attempt
  BY DEF SameReport, ReqsOf
<1>2. \A d \in ReqsOf(r)' : d = p \/ (d \in ReqsOf(r) /\ d # q)
  BY DEF ReqsOf
<1>3. ASSUME NEW d \in ReqsOf(r)', d.kind = "complete"
      PROVE  \E e \in execs' : e.pc = "sent" /\ IsOf(e, d)
  <2>1. CASE d = p
    BY <2>1, ReporterFacts DEF SameReport, IsOf, ExecsOf
  <2>2. CASE d \in ReqsOf(r)
    BY <1>3, <2>2, ReporterFacts DEF ExecsOf
  <2> QED
    BY <1>2, <2>1, <2>2
<1>4. ASSUME NEW d \in ReqsOf(r)', d.kind = "complete",
             NEW c \in reqs', c.kind = "complete", c.run = d.run,
             c.attempt = d.attempt
      PROVE  c = d
  <2>1. c \in ReqsOf(r)'
    BY <1>4 DEF ReqsOf
  <2>2. \/ c = p \/ (c \in ReqsOf(r) /\ c # q)
    BY <1>2, <2>1
  <2>3. \/ d = p \/ (d \in ReqsOf(r) /\ d # q)
    BY <1>2
  <2> QED
    BY <1>1, <1>4, <2>2, <2>3, ReporterFacts
<1>5. \A x \in Runs \ {r} : ReqsOf(x)' = ReqsOf(x)
  BY <1>1 DEF ReqsOf
<1> QED
  BY <1>1, <1>2, <1>3, <1>4, <1>5

LEMMA NoClaimants ==
    ASSUME NEW r \in Runs,
           \A q \in ReqsOf(r)' : ~Claimant(q), \A n \in Runners : ~Placing(n, r)'
    PROVE  /\ \A q \in ReqsOf(r)' : ClaimantAlone(q)'
           /\ \A n \in Runners : PlacingAlone(n, r)'
BY DEF ClaimantAlone, PlacingAlone

LEMMA LoadThreads ==
    ASSUME ConfirmedInv, ThreadsInv, NEW q \in reqs, CompleteLoad(q)
    PROVE  ThreadsInv'
<1> DEFINE r == q.run
<1>1. /\ r \in Runs /\ Thread(r) /\ q \in ReqsOf(r)
      /\ q.kind = "complete" /\ q.pc = "load" /\ Writing(q, r)
      /\ UNCHANGED <<run, tokens, launcher>>
  BY StateFacts DEF CompleteLoad, ThreadsInv, ReqsOf, Writing
<1>2. CASE Answer(q) /\ Ended(q)
  BY <1>2, HandlerCalm, CalmFrame DEF ThreadsInv
<1>3. CASE /\ UNCHANGED execs
           /\ \E p : /\ SameReport(p, q) /\ p.pc = "write" /\ p.snap = run[q.run]
                     /\ reqs' = (reqs \ {q}) \cup {p}
  <2>1. PICK p : /\ SameReport(p, q) /\ p.pc = "write" /\ p.snap = run[q.run]
                 /\ reqs' = (reqs \ {q}) \cup {p}
    BY <1>3
  <2>2. PICK e \in ExecsOf(r) : e.pc = "sent" /\ IsOf(e, q) /\ Unanswered(e)
    BY <1>1, ReporterFacts
  <2> HIDE DEF r
  <2>3. /\ InHand(r, e.runner) /\ e.attempt = run[r].attempt
        /\ \A x \in ReqsOf(r) : ~Claimant(x)
        /\ \A n \in Runners : ~Placing(n, r)
    BY <1>1, <2>2, HolderFacts
  <2>4. /\ \A d \in ReqsOf(r)' : d.kind = "complete" =>
             /\ \E g \in execs' : g.pc = "sent" /\ IsOf(g, d)
             /\ \A c \in reqs' : /\ c.kind = "complete" /\ c.run = d.run
                                 /\ c.attempt = d.attempt
                                 => c = d
        /\ \A d \in ReqsOf(r)' : d = p \/ (d \in ReqsOf(r) /\ d # q)
        /\ p.kind = "complete" /\ p.run = r
        /\ \A x \in Runs \ {r} : ReqsOf(x)' = ReqsOf(x)
    BY <1>1, <1>3, <2>1, ReportsOn
  <2>5. /\ \A q1 \in ReqsOf(r)' : ClaimantAlone(q1)'
        /\ \A n \in Runners : PlacingAlone(n, r)'
    BY <1>1, <2>3, <2>4, NoClaimants DEF Claimant, Placing
  <2>6. ASSUME NEW d \in ReqsOf(r)', d.kind = "complete" PROVE ReportAlone(d)'
    <3>1. CASE d = p
      BY <1>1, <2>1, <2>3, <2>4, <2>6, <3>1 DEF ReportAlone, InHand, r
    <3>2. CASE d \in ReqsOf(r)
      <4>1. ReportAlone(d)
        BY <1>1, <3>2 DEF Thread
      <4> QED
        BY <1>1, <2>4, <2>6, <4>1 DEF ReportAlone
    <3> QED
      BY <2>4, <3>1, <3>2
  <2>7. ASSUME NEW g \in ExecsOf(r)' PROVE ExecCurrent(g)'
    <3>1. g \in ExecsOf(r) /\ g.run = r /\ ExecCurrent(g)
      BY <1>1, <1>3 DEF ExecsOf, Thread
    <3>2. ASSUME NEW c \in reqs', Writing(c, r), IsOf(g, c) PROVE Unanswered(g)
      <4>1. CASE c = p
        <5>1. IsOf(g, q)
          BY <2>1, <3>2, <4>1 DEF IsOf, SameReport
        <5> QED
          BY <1>1, <3>1, <5>1 DEF Unanswered, ReqsOf
      <4>2. CASE c # p
        BY <2>1, <3>1, <3>2, <4>2 DEF Unanswered
      <4> QED
        BY <4>1, <4>2
    <3>3. Unanswered(g)' => Unanswered(g)
      BY <3>1, <3>2 DEF Unanswered
    <3> QED
      BY <1>1, <3>1, <3>3 DEF ExecCurrent, InHand
  <2>8. ASSUME NEW t \in TokensOf(r)' PROVE TokenCurrent(t)'
    <3>1. t \in TokensOf(r) /\ t.run = r /\ TokenCurrent(t)
      BY <1>1 DEF TokensOf, Thread
    <3>2. Revoking(r) => Revoking(r)'
      BY <1>1, <2>1 DEF Revoking
    <3> QED
      BY <1>1, <3>1, <3>2 DEF TokenCurrent, InHand
  <2>9. Thread(r)'
    <3>1. \A x, y \in ExecsOf(r)' : x.attempt = y.attempt => x = y
      BY <1>1, <1>3 DEF Thread, ExecsOf
    <3>2. \A d \in ReqsOf(r)' : ReportAlone(d)'
      BY <2>6 DEF ReportAlone
    <3> QED
      BY <2>5, <2>7, <2>8, <3>1, <3>2 DEF Thread
  <2>10. /\ \A x \in Runs : ExecsOf(x)' = ExecsOf(x) /\ TokensOf(x)' = TokensOf(x)
         /\ SameOthers(r)
    BY <1>1, <1>3 DEF ExecsOf, TokensOf, SameOthers
  <2> QED
    BY <1>1, <2>4, <2>9, <2>10, LauncherSame, ThreadsBut
<1> QED
  BY <1>2, <1>3, Loaded

LEMMA EndThreads ==
    ASSUME ConfirmedInv, ThreadsInv, NEW q \in reqs, CompleteWrite(q)
    PROVE  ThreadsInv'
<1>1. PICK r : r = q.run
  OBVIOUS
<1>2. /\ r \in Runs /\ Thread(r) /\ q \in ReqsOf(r)
      /\ q.kind = "complete" /\ q.pc = "write" /\ Writing(q, r)
      /\ UNCHANGED <<tokens, execs, launcher>>
  BY <1>1, StateFacts DEF CompleteWrite, ThreadsInv, ReqsOf, Writing
<1>3. ReportAlone(q)
  BY <1>2 DEF Thread
<1>4. SameOthers(r) /\ run'[r].attempt = run[r].attempt
  BY <1>1, <1>3, WriteMoves
<1>5. PICK p : /\ SameReport(p, q) /\ p.pc = "revoke"
               /\ reqs' = (reqs \ {q}) \cup {p}
  BY Advanced DEF CompleteWrite, Continues, SameReport
<1>6. PICK e \in ExecsOf(r) : e.pc = "sent" /\ IsOf(e, q) /\ Unanswered(e)
  BY <1>2, ReporterFacts
<1>7. /\ InHand(r, e.runner) /\ e.attempt = run[r].attempt
      /\ \A x \in ReqsOf(r) : ~Claimant(x)
      /\ \A n \in Runners : ~Placing(n, r)
      /\ \A g \in ExecsOf(r) : Unanswered(g) => g = e
  BY <1>2, <1>6, HolderFacts
<1>8. /\ \A d \in ReqsOf(r)' : d.kind = "complete" =>
           /\ \E g \in execs' : g.pc = "sent" /\ IsOf(g, d)
           /\ \A c \in reqs' : /\ c.kind = "complete" /\ c.run = d.run
                               /\ c.attempt = d.attempt
                               => c = d
      /\ \A d \in ReqsOf(r)' : d = p \/ (d \in ReqsOf(r) /\ d # q)
      /\ p.kind = "complete" /\ p.run = r
      /\ \A x \in Runs \ {r} : ReqsOf(x)' = ReqsOf(x)
  BY <1>2, <1>5, ReportsOn
<1>9. /\ \A x \in ReqsOf(r)' : ClaimantAlone(x)'
      /\ \A n \in Runners : PlacingAlone(n, r)'
  BY <1>2, <1>7, <1>8, NoClaimants DEF Claimant, Placing
(* No other report of the attempt is being served, so none is left to write. *)
<1>10. \A d \in ReqsOf(r)' : ~Writing(d, r) \/ \A g \in ExecsOf(r) : ~IsOf(g, d)
  <2>1. SUFFICES ASSUME NEW d \in ReqsOf(r)', Writing(d, r),
                        NEW g \in ExecsOf(r), IsOf(g, d)
                 PROVE  FALSE
    OBVIOUS
  <2>2. d \in ReqsOf(r) /\ d # q
    BY <1>5, <1>8, <2>1 DEF Writing
  <2>3. Unanswered(g)
    BY <2>1, <2>2 DEF Unanswered, ReqsOf, ExecsOf
  <2>4. d.attempt = q.attempt
    BY <1>6, <1>7, <2>1, <2>3 DEF IsOf
  <2> QED
    BY <1>2, <2>1, <2>2, <2>4, ReporterFacts DEF Writing
<1>11. ASSUME NEW d \in ReqsOf(r)', d.kind = "complete" PROVE ReportAlone(d)'
  <2>1. d.pc # "write"
    <3>1. PICK g \in execs' : g.pc = "sent" /\ IsOf(g, d)
      BY <1>8, <1>11
    <3>2. g \in ExecsOf(r) /\ d.run = r
      BY <1>2, <3>1 DEF IsOf, ReqsOf, ExecsOf
    <3> QED
      BY <1>10, <1>11, <3>1, <3>2 DEF Writing
  <2> QED
    BY <1>8, <1>11, <2>1 DEF ReportAlone
<1>12. ASSUME NEW g \in ExecsOf(r)' PROVE ExecCurrent(g)'
  <2>1. g \in ExecsOf(r) /\ g.run = r /\ ExecCurrent(g)
    BY <1>2 DEF ExecsOf, Thread
  <2>2. g.pc = "sent"
    BY <1>6, <1>7, <2>1 DEF Unanswered
  <2>3. ~Unanswered(g)'
    BY <1>10, <2>1, <2>2 DEF Unanswered, Writing, ReqsOf
  <2> QED
    BY <1>4, <2>1, <2>3 DEF ExecCurrent
<1>13. ASSUME NEW t \in TokensOf(r)' PROVE TokenCurrent(t)'
  <2>1. t \in TokensOf(r) /\ t.run = r /\ TokenCurrent(t)
    BY <1>2 DEF TokensOf, Thread
  <2>2. Revoking(r)'
    BY <1>5, <1>8 DEF Revoking
  <2> QED
    BY <1>4, <2>1, <2>2 DEF TokenCurrent
<1>14. Thread(r)'
  <2>1. \A x, y \in ExecsOf(r)' : x.attempt = y.attempt => x = y
    BY <1>2 DEF Thread, ExecsOf
  <2>2. \A d \in ReqsOf(r)' : ReportAlone(d)'
    BY <1>11 DEF ReportAlone
  <2> QED
    BY <1>9, <1>12, <1>13, <2>1, <2>2 DEF Thread
<1>15. \A x \in Runs : ExecsOf(x)' = ExecsOf(x) /\ TokensOf(x)' = TokensOf(x)
  BY <1>2 DEF ExecsOf, TokensOf
<1> QED
  BY <1>2, <1>4, <1>8, <1>14, <1>15, LauncherSame, ThreadsBut

(* The tokens of the run are revoked, those of a new attempt included.       *)
LEMMA RevokedThreads ==
    ASSUME ConfirmedInv, ThreadsInv, NEW q \in reqs, CompleteRevoke(q)
    PROVE  ThreadsInv'
<1>1. PICK r : r = q.run
  OBVIOUS
<1>2. /\ r \in Runs /\ Thread(r) /\ q \in ReqsOf(r)
      /\ q.kind = "complete" /\ q.pc = "revoke"
      /\ UNCHANGED <<run, execs, launcher>>
      /\ tokens' = {t \in tokens : t.run # r}
  BY <1>1, StateFacts DEF CompleteRevoke, RevokeTokens, ThreadsInv, ReqsOf
<1>3. PICK p : /\ SameReport(p, q) /\ p.pc = "release"
               /\ reqs' = (reqs \ {q}) \cup {p}
  BY Advanced DEF CompleteRevoke, Continues, SameReport
<1>4. /\ \A d \in ReqsOf(r)' : d.kind = "complete" =>
           /\ \E g \in execs' : g.pc = "sent" /\ IsOf(g, d)
           /\ \A c \in reqs' : /\ c.kind = "complete" /\ c.run = d.run
                               /\ c.attempt = d.attempt
                               => c = d
      /\ \A d \in ReqsOf(r)' : d = p \/ (d \in ReqsOf(r) /\ d # q)
      /\ p.kind = "complete" /\ p.run = r
      /\ \A x \in Runs \ {r} : ReqsOf(x)' = ReqsOf(x)
  BY <1>2, <1>3, ReportsOn
<1>5. Fresh(r) => Fresh(r)'
  BY <1>2 DEF Fresh, Unplaced
<1>6. ASSUME NEW x \in ReqsOf(r)' PROVE ClaimantAlone(x)'
  <2>1. SUFFICES ASSUME Claimant(x) PROVE ClaimantAlone(x)'
    BY DEF ClaimantAlone
  <2>2. x \in ReqsOf(r) /\ x.run = r /\ ClaimantAlone(x)
    BY <1>2, <1>4, <1>6, <2>1 DEF Claimant, Thread, ReqsOf
  <2>3. \A y \in reqs' : Claimant(y) /\ y.run = x.run => y = x
    BY <1>3, <1>4, <2>1, <2>2 DEF ClaimantAlone, Claimant
  <2>4. ClaimantRow(x)' /\ \A n \in Runners : ~Placing(n, x.run)'
    BY <1>2, <2>1, <2>2 DEF ClaimantAlone, ClaimantRow, InHand, Placing
  <2> QED
    BY <1>2, <1>5, <2>1, <2>2, <2>3, <2>4 DEF ClaimantAlone
<1>7. \A n \in Runners : PlacingAlone(n, r)'
  BY <1>2, <1>5 DEF Thread, PlacingAlone, Placing, InHand
<1>8. ASSUME NEW d \in ReqsOf(r)', d.kind = "complete" PROVE ReportAlone(d)'
  <2>1. CASE d = p
    BY <1>3, <1>4, <1>8, <2>1 DEF ReportAlone
  <2>2. CASE d \in ReqsOf(r)
    <3>1. ReportAlone(d)
      BY <1>2, <2>2 DEF Thread
    <3> QED
      BY <1>2, <1>4, <1>8, <3>1 DEF ReportAlone
  <2> QED
    BY <1>4, <2>1, <2>2
<1>9. ASSUME NEW g \in ExecsOf(r)' PROVE ExecCurrent(g)'
  <2>1. g \in ExecsOf(r) /\ g.run = r /\ ExecCurrent(g)
    BY <1>2 DEF ExecsOf, Thread
  <2>2. Unanswered(g)' => Unanswered(g)
    BY <1>3, <2>1 DEF Unanswered, Writing
  <2> QED
    BY <1>2, <2>1, <2>2 DEF ExecCurrent, InHand
<1>10. TokensOf(r)' = {} /\ SameOthers(r)
  BY <1>2 DEF TokensOf, SameOthers
<1>11. Thread(r)'
  <2>1. \A x, y \in ExecsOf(r)' : x.attempt = y.attempt => x = y
    BY <1>2 DEF Thread, ExecsOf
  <2>2. \A d \in ReqsOf(r)' : ReportAlone(d)'
    BY <1>8 DEF ReportAlone
  <2> QED
    BY <1>6, <1>7, <1>9, <1>10, <2>1, <2>2 DEF Thread
<1>12. \A x \in Runs \ {r} : /\ ExecsOf(x)' = ExecsOf(x)
                             /\ TokensOf(x)' \subseteq TokensOf(x)
  BY <1>2 DEF ExecsOf, TokensOf
<1> QED
  BY <1>2, <1>4, <1>10, <1>11, <1>12, LauncherSame, ThreadsBut

(* An executor sends its report, once.                                      *)
LEMMA SentThreads ==
    ASSUME NoLosses, ConfirmedInv, ThreadsInv, NEW e \in execs, ExecReport(e)
    PROVE  ThreadsInv'
<1>1. e.pc = "report" /\ UNCHANGED <<run, tokens, launcher>>
  BY NothingLost DEF ExecReport
<1>2. CASE execs' = execs \ {e} /\ UNCHANGED reqs
  BY <1>2, ExecCalm, CalmFrame DEF ThreadsInv
<1>3. CASE ~(execs' = execs \ {e} /\ UNCHANGED reqs)
  <2>1. PICK r, c : /\ r = e.run
                    /\ c = Request("complete", "load", e, e.outcome, run[e.run])
    OBVIOUS
  <2>2. /\ c.kind = "complete" /\ c.pc = "load" /\ c.run = r
        /\ c.attempt = e.attempt /\ IsOf(e, c)
    BY <2>1, RequestFields DEF IsOf
  <2>3. PICK f : Reporting(e, f)
    BY <1>3, ExecChanges DEF ExecReport
  <2>4. /\ SameExec(f, e) /\ f.pc = "sent" /\ execs' = (execs \ {e}) \cup {f}
        /\ reqs' = reqs \cup {c}
    BY <1>3, <2>1, <2>3 DEF Reporting, Become, ExecReport
  <2>5. /\ r \in Runs /\ Thread(r) /\ e \in ExecsOf(r) /\ Unanswered(e)
        /\ f.run = r /\ f.attempt = e.attempt /\ IsOf(f, c)
    BY <1>1, <2>1, <2>2, <2>4, StateFacts
    DEF ThreadsInv, ExecsOf, Unanswered, SameExec, IsOf
  <2>6. /\ InHand(r, e.runner) /\ e.attempt = run[r].attempt
        /\ \A q \in ReqsOf(r) : ~Claimant(q)
        /\ \A n \in Runners : ~Placing(n, r)
        /\ \A g \in ExecsOf(r) : Unanswered(g) => g = e
    BY <2>5, HolderFacts
  <2>7. \A d \in ReqsOf(r)' : d = c \/ d \in ReqsOf(r)
    BY <2>4 DEF ReqsOf
  <2>8. \A g \in ExecsOf(r)' : g = f \/ (g \in ExecsOf(r) /\ g # e)
    BY <2>4 DEF ExecsOf
  <2>9. \A x, y \in ExecsOf(r) : x.attempt = y.attempt => x = y
    BY <2>5 DEF Thread
  <2>10. \A x, y \in ExecsOf(r)' : x.attempt = y.attempt => x = y
    BY <2>5, <2>8, <2>9
  <2>11. /\ \A q \in ReqsOf(r)' : ClaimantAlone(q)'
         /\ \A n \in Runners : PlacingAlone(n, r)'
    BY <1>1, <2>2, <2>5, <2>6, <2>7, NoClaimants DEF Claimant, Placing
(* It had not reported before: the executor of an earlier report was sent.  *)
  <2>12. \A d \in ReqsOf(r) : d.kind = "complete" => d.attempt # e.attempt
    <3>1. SUFFICES ASSUME NEW d \in ReqsOf(r), d.kind = "complete",
                          d.attempt = e.attempt
                   PROVE  FALSE
      OBVIOUS
    <3>2. PICK g \in ExecsOf(r) : g.pc = "sent" /\ IsOf(g, d)
      BY <2>5, <3>1, ReporterFacts
    <3>3. g = e
      BY <2>5, <2>9, <3>1, <3>2 DEF IsOf
    <3> QED
      BY <1>1, <3>2, <3>3
  <2>13. ASSUME NEW d \in ReqsOf(r)', d.kind = "complete" PROVE ReportAlone(d)'
    <3>1. \A x \in reqs' : /\ x.kind = "complete" /\ x.run = d.run
                           /\ x.attempt = d.attempt
                           => x = d
      <4>1. SUFFICES ASSUME NEW x \in reqs', x.kind = "complete", x.run = d.run,
                            x.attempt = d.attempt
                     PROVE  x = d
        OBVIOUS
      <4>2. x \in ReqsOf(r)'
        BY <2>13, <4>1 DEF ReqsOf
      <4>3. CASE x \in ReqsOf(r) /\ d \in ReqsOf(r)
        BY <2>5, <2>13, <4>1, <4>3, ReporterFacts
      <4> QED
        BY <2>2, <2>7, <2>12, <2>13, <4>1, <4>2, <4>3
    <3>2. CASE d = c
      BY <2>2, <2>4, <2>5, <3>1, <3>2 DEF ReportAlone
    <3>3. CASE d \in ReqsOf(r)
      <4>1. PICK g \in execs : g.pc = "sent" /\ IsOf(g, d)
        BY <2>5, <2>13, <3>3, ReporterFacts DEF ExecsOf
      <4>2. g \in execs'
        BY <1>1, <2>4, <4>1
      <4>3. ReportAlone(d)
        BY <2>5, <3>3 DEF Thread
      <4> QED
        BY <1>1, <2>13, <3>1, <4>1, <4>2, <4>3 DEF ReportAlone
    <3> QED
      BY <2>7, <3>2, <3>3
  <2>14. ASSUME NEW g \in ExecsOf(r)' PROVE ExecCurrent(g)'
    <3>1. CASE g = f
      BY <1>1, <2>4, <2>5, <2>6, <3>1, StateFacts
      DEF ExecCurrent, InHand, SameExec, Exec
    <3>2. CASE g \in ExecsOf(r) /\ g # e
      <4>1. ExecCurrent(g) /\ g.run = r
        BY <2>5, <3>2 DEF Thread, ExecsOf
      <4>2. ~IsOf(g, c)
        BY <2>2, <2>5, <2>9, <3>2 DEF IsOf
      <4>3. Unanswered(g)' => Unanswered(g)
        BY <2>4, <4>1, <4>2 DEF Unanswered
      <4> QED
        BY <1>1, <4>1, <4>3 DEF ExecCurrent, InHand
    <3> QED
      BY <2>8, <3>1, <3>2
  <2>15. ASSUME NEW t \in TokensOf(r)' PROVE TokenCurrent(t)'
    <3>1. t \in TokensOf(r) /\ t.run = r /\ TokenCurrent(t)
      BY <1>1, <2>5 DEF TokensOf, Thread
    <3>2. Revoking(r) => Revoking(r)'
      BY <2>4 DEF Revoking
    <3> QED
      BY <1>1, <3>1, <3>2 DEF TokenCurrent, InHand
  <2>16. Thread(r)'
    <3>1. \A d \in ReqsOf(r)' : ReportAlone(d)'
      BY <2>13 DEF ReportAlone
    <3> QED
      BY <2>10, <2>11, <2>14, <2>15, <3>1 DEF Thread
  <2>17. /\ SameOthers(r)
         /\ \A x \in Runs \ {r} : /\ ReqsOf(x)' = ReqsOf(x)
                                  /\ ExecsOf(x)' = ExecsOf(x)
                                  /\ TokensOf(x)' = TokensOf(x)
    BY <1>1, <2>2, <2>4, <2>5 DEF SameOthers, ReqsOf, ExecsOf, TokensOf
  <2> QED
    BY <1>1, <2>5, <2>16, <2>17, LauncherSame, ThreadsBut
<1> QED
  BY <1>2, <1>3

-----------------------------------------------------------------------------
LEMMA InitOverlap == Init => FaultFree /\ GateInv /\ ThreadsInv
<1> SUFFICES ASSUME Init PROVE FaultFree /\ GateInv /\ ThreadsInv
  OBVIOUS
<1>1. FaultFree /\ GateInv
  BY DEF Init, FaultFree, Idle, GateInv, OffersGate
<1>2. \A r \in Runs : ExecsOf(r) = {} /\ ReqsOf(r) = {} /\ TokensOf(r) = {}
  BY DEF Init, ExecsOf, ReqsOf, TokensOf
<1>3. \A n \in Runners, r \in Runs : PlacingAlone(n, r)
  BY DEF Init, Idle, PlacingAlone, Placing
<1> QED
  BY <1>1, <1>2, <1>3 DEF ThreadsInv, Thread

LEMMA NextThreads ==
    ASSUME NoLosses, ConfirmedInv, GateInv, ThreadsInv, FaultlessStep
    PROVE  ThreadsInv'
<1>1. ASSUME \A r \in Runs : Calm(r) PROVE ThreadsInv'
  BY <1>1, CalmFrame DEF ThreadsInv
<1>2. CASE \E r \in Runs : UserMove(r) \/ StageStep(r)
  BY <1>1, <1>2, UsersCalm
<1>3. CASE \E n \in Runners : FaultlessLauncher(n)
  BY <1>1, <1>3, LauncherCalm, JobTokenThreads DEF FaultlessLauncher
<1>4. ASSUME NEW q \in reqs, FaultlessHandler(q) PROVE ThreadsInv'
  <2>1. CASE StartStep(q)
    BY <2>1, ClaimThreads, LockThreads, WriteThreads, RevokeThreads DEF StartStep
  <2>2. CASE TokenMint(q)
    BY <2>2, MintThreads
  <2>3. CASE UploadPut(q) \/ CancelRelease(q) \/ CompleteRelease(q)
    BY <1>1, <2>3, HandlerCalm
  <2>4. CASE CompleteLoad(q) \/ CompleteWrite(q) \/ CompleteRevoke(q)
    BY <2>4, LoadThreads, EndThreads, RevokedThreads
  <2> QED
    BY <1>4, <2>1, <2>2, <2>3, <2>4 DEF FaultlessHandler, CompleteStep
<1>5. ASSUME NEW e \in execs, ExecStep(e) PROVE ThreadsInv'
  <2>1. CASE ExecReport(e)
    BY <2>1, SentThreads
  <2>2. CASE ~ExecReport(e)
    BY <1>1, <1>5, <2>2, ExecCalm DEF ExecStep
  <2> QED
    BY <2>1, <2>2
<1> QED
  BY <1>2, <1>3, <1>4, <1>5 DEF FaultlessStep

LEMMA NextOverlap ==
    NoLosses /\ NeverLocked /\ OverlapInv /\ [Next]_vars => OverlapInv'
<1> SUFFICES ASSUME NoLosses, NeverLocked, OverlapInv, [Next]_vars
             PROVE  OverlapInv'
  OBVIOUS
<1>1. ConfirmedInv /\ FaultFree /\ GateInv /\ ThreadsInv
  BY DEF OverlapInv
<1>2. ConfirmedInv'
  BY <1>1, NextConfirmed
<1>3. CASE Next
  <2>1. FaultlessStep
    BY <1>1, <1>3, Faultless
  <2> QED
    BY <1>1, <1>2, <2>1, FaultFreeKept, GateKept, NextThreads DEF OverlapInv
<1>4. CASE UNCHANGED vars
  <2>1. FaultFree' /\ GateInv'
    BY <1>1, <1>4 DEF vars, FaultFree, GateInv, OffersGate, StartGate
  <2>2. \A r \in Runs : Calm(r)
    <3>1. ASSUME NEW r \in Runs PROVE Calm(r)
      <4>1. /\ ReqsOf(r)' = ReqsOf(r) /\ ExecsOf(r)' = ExecsOf(r)
            /\ TokensOf(r)' = TokensOf(r) /\ UNCHANGED <<run, launcher>>
        BY <1>4 DEF vars, ReqsOf, ExecsOf, TokensOf
      <4> QED
        BY <1>1, <4>1, LauncherSame, OtherCalm DEF ThreadsInv
    <3> QED
      BY <3>1
  <2>3. ThreadsInv'
    BY <1>1, <2>2, CalmFrame DEF ThreadsInv
  <2> QED
    BY <1>2, <2>1, <2>3 DEF OverlapInv
<1> QED
  BY <1>3, <1>4

LEMMA OverlapAlways ==
    ASSUME NoLosses, NeverLocked PROVE Spec => []OverlapInv
<1>1. Init => OverlapInv
  BY InitConfirmed, InitOverlap DEF OverlapInv
<1>2. OverlapInv /\ [Next]_vars => OverlapInv'
  BY NextOverlap
<1> QED
  BY <1>1, <1>2, PTL DEF Spec

(* However many requests are served at once, an attempt is executed once: no *)
(* claim is answered twice and no job token is minted for two executors,    *)
(* as long as no launcher, answer or heartbeat is lost and no workspace is  *)
(* locked by hand.                                                         *)
THEOREM ExecutedOnceOverlapping ==
    ASSUME NoLosses, NeverLocked
    PROVE  Spec => []OneExecutorPerAttempt
<1>1. Spec => []OverlapInv
  BY OverlapAlways
<1>2. OverlapInv => OneExecutorPerAttempt
  BY OneExecutor DEF OverlapInv
<1> QED
  BY <1>1, <1>2, PTL

(* And once the requests served are answered, every job token that verifies *)
(* is of the current attempt of a run under way, or canceled under way,     *)
(* whether the runners hold job tokens or not.                             *)
THEOREM TokensCurrentOverlapping ==
    ASSUME NoLosses, NeverLocked
    PROVE  Spec => []TokensAreCurrent
<1>1. Spec => []OverlapInv
  BY OverlapAlways
<1>2. ASSUME OverlapInv PROVE TokensAreCurrent
  <2>1. SUFFICES ASSUME Quiet, NEW t \in tokens
                 PROVE  /\ run[t.run].runner = t.runner
                        /\ run[t.run].attempt = t.attempt
                        /\ run[t.run].status \in Working \cup {"cancelled"}
    BY DEF TokensAreCurrent
  <2>2. t.run \in Runs
    BY <1>2, StateFacts DEF OverlapInv, TypeOK, Token
  <2>3. TokenCurrent(t) /\ ~Revoking(t.run)
    BY <1>2, <2>1, <2>2
    DEF OverlapInv, ThreadsInv, Thread, TokensOf, Quiet, Revoking
  <2> QED
    BY <2>3 DEF TokenCurrent, InHand
<1>3. OverlapInv => TokensAreCurrent
  BY <1>2
<1> QED
  BY <1>1, <1>3, PTL

=============================================================================
