----------------------------- MODULE RunnerFleet -----------------------------
(***************************************************************************)
(* The runners of a pool and the Ansible jobs they are offered: the         *)
(* registration of a launcher process under a runner's name (Register), the *)
(* heartbeat and its long poll, the wake-ups it waits for, the reservation, *)
(* claim and report of Ansible jobs, drain and deregistration, and the      *)
(* monitor's pass over the runners that fell silent.                        *)
(*                                                                         *)
(* Time is discrete.  The handlers' own database statements take none; what *)
(* takes time is a parked heartbeat and a launcher between two heartbeats.  *)
(* RunDispatch models OpenTofu runs and has a heartbeat as one step; here   *)
(* it is taken apart, and a runner may be served by several processes.      *)
(***************************************************************************)
EXTENDS Integers, FiniteSets

CONSTANTS
    Jobs,          \* Ansible jobs of the pool
    Runners,       \* the runners table, by name
    Launchers,     \* launcher processes: each starts once, a restart is another
    RunnerOf,      \* the name a launcher process registers
    Drainable,     \* the runners operators drain
    NoRunner,
    MaxJobs,       \* a runner's max_concurrent_jobs
    LongPollMax,   \* how long a heartbeat is held
    OfflineAfter,  \* how long a runner may be silent
    ClaimMax,      \* how long a launcher takes between two heartbeats
    MaxRare,       \* bound: answers and wake-ups lost, keys not minted, drains
    MaxServed      \* bound: requests the API serves at once, held ones aside

(* How a job ended, successful or failed, makes no difference here.        *)
Finished == {"ended", "canceled"}
Statuses == {"absent", "pending", "running"} \cup Finished

ASSUME ConstantsAssumption ==
    /\ RunnerOf \in [Launchers -> Runners]
    /\ Drainable \subseteq Runners
    /\ NoRunner \notin Runners
    /\ IsFiniteSet(Jobs)
    /\ MaxJobs \in Nat \ {0} /\ MaxRare \in Nat /\ MaxServed \in Nat
    /\ LongPollMax \in Nat /\ OfflineAfter \in Nat /\ ClaimMax \in Nat

(* OfflineAfter "spans several heartbeats": no single hold, and no time a   *)
(* launcher takes to claim its offers, is longer.                          *)
ASSUME TimingAssumption ==
    LongPollMax <= OfflineAfter /\ ClaimMax <= OfflineAfter

VARIABLES
    runner,   \* the runners table
    keys,     \* the launchers whose runner token still verifies, by runner
    proc,     \* the launcher processes
    reg,      \* the registrations the API is serving
    poll,     \* the heartbeats the API is serving
    job,      \* the ansible_jobs table
    execs,    \* the executors placed for claimed jobs
    tokens,   \* the jobs whose job token still verifies
    reports,  \* the completions the API is serving
    woken,    \* whether a wake-up was published and not delivered yet
    monitor,  \* the monitor's pass
    rare      \* those faults and drains so far (bounds the state space)

vars == <<runner, keys, proc, reg, poll, job, execs, tokens, reports, woken,
          monitor, rare>>
workVars == <<job, execs, tokens, reports>>

-----------------------------------------------------------------------------
RunnerRow == [registered: BOOLEAN, online: BOOLEAN, drain: BOOLEAN, age: Nat]
Process   == [pc: {"new", "registering", "up", "calling", "leaving", "gone"},
              told: SUBSET Jobs,     \* offers it has not claimed yet
              claimed: SUBSET Jobs,  \* claims without an executor yet
              left: Nat,             \* time it may still take to poll again
              drain: BOOLEAN]        \* it claims nothing more
Registration == [pc: {"none", "row", "keys", "mint", "offer"},
                 existing: BOOLEAN]
Poll      == [pc: {"none", "wait", "second", "parked", "answer"},
              drain: BOOLEAN, woken: BOOLEAN, left: Nat, offers: SUBSET Jobs,
              missed: SUBSET Jobs]   \* offerable since, with no wake-up (history)
JobRow    == [status: Statuses, runner: Runners \cup {NoRunner}]
Exec      == [job: Jobs, by: Launchers]
Report    == [job: Jobs, canceled: BOOLEAN, pc: {"write", "settle"}]

TypeOK ==
    /\ runner \in [Runners -> RunnerRow]
    /\ keys \in [Runners -> SUBSET Launchers]
    /\ proc \in [Launchers -> Process]
    /\ reg \in [Launchers -> Registration]
    /\ poll \in [Launchers -> Poll]
    /\ job \in [Jobs -> JobRow]
    /\ execs \subseteq Exec
    /\ tokens \subseteq Jobs
    /\ reports \subseteq Report
    /\ woken \in BOOLEAN
    /\ monitor \in [pc: {"idle", "release", "settle", "revoke"}, lost: SUBSET Jobs]
    /\ rare \in Nat

NoPoll == [pc |-> "none", drain |-> FALSE, woken |-> FALSE, left |-> 0,
            offers |-> {}, missed |-> {}]
NoReg  == [pc |-> "none", existing |-> FALSE]
NoRow  == [registered |-> FALSE, online |-> FALSE, drain |-> FALSE, age |-> 0]
Idle(pc) == [pc |-> pc, told |-> {}, claimed |-> {}, left |-> 0, drain |-> FALSE]
Gone     == Idle("gone")

Init ==
    /\ runner = [n \in Runners |-> NoRow]
    /\ keys = [n \in Runners |-> {}]
    /\ proc = [l \in Launchers |-> Idle("new")]
    /\ reg = [l \in Launchers |-> NoReg]
    /\ poll = [l \in Launchers |-> NoPoll]
    /\ job = [j \in Jobs |-> [status |-> "absent", runner |-> NoRunner]]
    /\ execs = {} /\ tokens = {} /\ reports = {}
    /\ woken = FALSE
    /\ monitor = [pc |-> "idle", lost |-> {}]
    /\ rare = 0

-----------------------------------------------------------------------------
(* What a runner holds and is offered (findPendingJobsForRunner): the jobs   *)
(* reserved for it that it never started, then unreserved ones up to its    *)
(* capacity, reserved in the same statement.                               *)

Free           == {j \in Jobs : job[j].status = "pending" /\ job[j].runner = NoRunner}
HeldNever(n)   == {}                                            \* a mutant
Held(n)        == {j \in Jobs : job[j].status = "pending" /\ job[j].runner = n}
Outstanding(n) == {j \in Jobs : /\ job[j].runner = n
                                /\ job[j].status \in {"pending", "running"}}
HasCapacity(n) == Cardinality(Outstanding(n)) < MaxJobs
Offerable(n)   == Held(n) \cup (IF HasCapacity(n) THEN Free ELSE {})

(* The two answers of an offers query: `again' are offered again, `new' are *)
(* reserved.                                                               *)
Query(n, again, new) ==
    /\ again \subseteq Held(n) /\ new \subseteq Free
    /\ Cardinality(again) <= MaxJobs
    /\ Held(n) # {} => again # {}
    /\ IF HasCapacity(n)
         THEN /\ Cardinality(new) <= MaxJobs - Cardinality(Outstanding(n))
              /\ Free # {} => new # {}
         ELSE new = {}
    /\ job' = [j \in Jobs |-> IF j \in new THEN [job[j] EXCEPT !.runner = n]
                              ELSE job[j]]

-----------------------------------------------------------------------------
(* Time.  A parked heartbeat is held for LongPollMax at most and a launcher  *)
(* polls again within ClaimMax; every other handler is done at once.        *)

Tick ==
    /\ \A l \in Launchers :
         /\ reg[l].pc = "none"
         /\ poll[l].pc \in {"none", "parked"}
         /\ poll[l].pc = "parked" => poll[l].left > 0 /\ ~poll[l].woken
         /\ proc[l].pc = "up" => proc[l].left > 0
    /\ runner' = [n \in Runners |->
                    IF runner[n].registered /\ runner[n].age <= OfflineAfter
                      THEN [runner[n] EXCEPT !.age = @ + 1] ELSE runner[n]]
    /\ poll' = [l \in Launchers |->
                  IF poll[l].pc = "parked" THEN [poll[l] EXCEPT !.left = @ - 1]
                  ELSE poll[l]]
    /\ proc' = [l \in Launchers |->
                  IF proc[l].pc = "up" THEN [proc[l] EXCEPT !.left = @ - 1]
                  ELSE proc[l]]
    /\ UNCHANGED <<keys, reg, workVars, woken, monitor, rare>>

(* A request is admitted while the API serves fewer than MaxServed, those    *)
(* held in a long poll not counted.  A registration always is.             *)
BeingRegistered == {l \in Launchers : reg[l].pc # "none"}
Polled     == {l \in Launchers : poll[l].pc \notin {"none", "parked"}}
Admitted   == Cardinality(BeingRegistered) + Cardinality(Polled) + Cardinality(reports)
                < MaxServed

(* A fault, or an operator's request to drain.                              *)
Rarely == rare < MaxRare /\ rare' = rare + 1

-----------------------------------------------------------------------------
(* Registration (Register, generateRunnerAPIKey): the row, then the old keys *)
(* go, then the new one is minted; an existing runner is offered work too.  *)

Step(l, pc) == reg' = [reg EXCEPT ![l] = [@ EXCEPT !.pc = pc]]

(* RunnerAuth: the token verifies and its runner is there.                 *)
Auth(l) == runner[RunnerOf[l]].registered /\ l \in keys[RunnerOf[l]]

Start(l) ==
    /\ proc[l].pc = "new"
    /\ proc' = [proc EXCEPT ![l] = [@ EXCEPT !.pc = "registering"]]
    /\ Step(l, "row")
    /\ UNCHANGED <<runner, keys, poll, workVars, woken, monitor, rare>>

RegisterRow(l) ==
    /\ reg[l].pc = "row"
    /\ runner' = [runner EXCEPT ![RunnerOf[l]] =
                    [registered |-> TRUE, online |-> TRUE, drain |-> FALSE, age |-> 0]]
    /\ reg' = [reg EXCEPT ![l] =
                 [pc |-> "keys", existing |-> runner[RunnerOf[l]].registered]]
    /\ UNCHANGED <<keys, proc, poll, workVars, woken, monitor, rare>>

RegisterKeys(l) ==
    /\ reg[l].pc = "keys"
    /\ keys' = [keys EXCEPT ![RunnerOf[l]] = {}]
    /\ Step(l, "mint")
    /\ UNCHANGED <<runner, proc, poll, workVars, woken, monitor, rare>>

RegisterMint(l) ==
    /\ reg[l].pc = "mint"
    /\ keys' = [keys EXCEPT ![RunnerOf[l]] = @ \cup {l}]
    /\ Step(l, "offer")
    /\ UNCHANGED <<runner, proc, poll, workVars, woken, monitor, rare>>

(* The key is not minted: a row made for it is removed again.  (Left out: a   *)
(* row that another registration found meanwhile and jobs refer to; what     *)
(* becomes of those is the database's foreign keys'.)                       *)
RegisterFails(l) ==
    /\ reg[l].pc = "mint" /\ Rarely
    /\ reg[l].existing \/ \A j \in Jobs : job[j].runner # RunnerOf[l]
    /\ runner' = IF reg[l].existing THEN runner
                 ELSE [runner EXCEPT ![RunnerOf[l]] = NoRow]
    /\ reg' = [reg EXCEPT ![l] = NoReg]
    /\ proc' = [proc EXCEPT ![l] = Gone]
    /\ UNCHANGED <<keys, poll, workVars, woken, monitor>>

(* The launcher has the answer and what it is told: it is `up' and polls     *)
(* again within ClaimMax.                                                  *)
Told(l, offers, drain) ==
    [proc[l] EXCEPT !.pc = "up", !.told = offers, !.left = ClaimMax,
                    !.drain = @ \/ drain]

RegisterAnswer(l) ==
    /\ reg[l].pc = "offer"
    /\ \E again, new \in SUBSET Jobs :
         /\ IF reg[l].existing THEN Query(RunnerOf[l], again, new)
                               ELSE again = {} /\ new = {} /\ UNCHANGED job
         /\ proc' = IF proc[l].pc = "registering"
                      THEN [proc EXCEPT ![l] = Told(l, again \cup new, FALSE)]
                      ELSE proc
    /\ reg' = [reg EXCEPT ![l] = NoReg]
    /\ UNCHANGED <<runner, keys, poll, execs, tokens, reports, woken,
                   monitor, rare>>

-----------------------------------------------------------------------------
(* The heartbeat.                                                          *)

Busy(l) == proc[l].claimed \cup {e.job : e \in {x \in execs : x.by = l}}
Drained(l) == proc[l].drain /\ proc[l].told = {} /\ Busy(l) = {}
PollAt(l, pc) == poll' = [poll EXCEPT ![l] = [@ EXCEPT !.pc = pc]]
StampedAhead(n) == [runner EXCEPT ![n] = [@ EXCEPT !.online = TRUE, !.age = -1]]  \* a mutant
Stamped(n)    == [runner EXCEPT ![n] = [@ EXCEPT !.online = TRUE, !.age = 0]]

(* An offers query: with nothing to offer the heartbeat goes on at `next'.   *)
Offers(l, next) ==
    \E again, new \in SUBSET Jobs :
      /\ Query(RunnerOf[l], again, new)
      /\ poll' = [poll EXCEPT ![l] =
           IF again \cup new # {} \/ next = "answer"
             THEN [NoPoll EXCEPT !.pc = "answer", !.offers = again \cup new]
             ELSE [@ EXCEPT !.pc = next,
                            !.left = IF next = "parked" THEN LongPollMax ELSE 0]]

(* A launcher that claimed what it was offered calls, unless it drained.     *)
(* The runner is loaded, with its drain mark, and stamped; one that drains,  *)
(* or whose launcher has no free slot, is offered nothing.  (Between the     *)
(* stamp and the query nothing that others do makes a difference.)          *)
MayCall(l) ==
    /\ proc[l].pc = "up" /\ poll[l].pc = "none" /\ Admitted
    /\ proc[l].told = {} /\ proc[l].claimed = {} /\ ~Drained(l)
    /\ Auth(l)

CallOffering(l) ==                                              \* a mutant
    /\ MayCall(l)
    /\ runner' = Stamped(RunnerOf[l])
    /\ proc' = [proc EXCEPT ![l] = [@ EXCEPT !.pc = "calling"]]
    /\ Offers(l, "wait")
    /\ UNCHANGED <<keys, reg, execs, tokens, reports, woken, monitor, rare>>
Heartbeat(l) ==
    /\ MayCall(l)
    /\ runner' = Stamped(RunnerOf[l])
    /\ proc' = [proc EXCEPT ![l] = [@ EXCEPT !.pc = "calling"]]
    /\ LET drain == runner[RunnerOf[l]].drain
       IN IF drain \/ Cardinality(Busy(l)) >= MaxJobs
            THEN /\ poll' = [poll EXCEPT ![l] =
                               [NoPoll EXCEPT !.pc = "answer", !.drain = drain]]
                 /\ UNCHANGED job
            ELSE Offers(l, "wait")
    /\ UNCHANGED <<keys, reg, execs, tokens, reports, woken, monitor, rare>>

(* Its token no longer verifies, or its runner is gone: it stops.          *)
Refused(l) ==
    /\ proc[l].pc = "up" /\ ~Auth(l)
    /\ proc' = [proc EXCEPT ![l] = Gone]
    /\ UNCHANGED <<runner, keys, reg, poll, workVars, woken, monitor, rare>>

(* The waiter is registered, then the offers are queried again.            *)
WaitUnqueried(l) ==                                             \* a mutant
    /\ poll[l].pc = "wait"
    /\ poll' = [poll EXCEPT ![l] = [@ EXCEPT !.pc = "parked", !.left = LongPollMax]]
    /\ UNCHANGED <<runner, keys, proc, reg, workVars, woken, monitor, rare>>
Wait(l) ==
    /\ poll[l].pc = "wait"
    /\ PollAt(l, "second")
    /\ UNCHANGED <<runner, keys, proc, reg, workVars, woken, monitor, rare>>

SecondQuery(l) ==
    /\ poll[l].pc = "second"
    /\ Offers(l, "parked")
    /\ UNCHANGED <<runner, keys, proc, reg, execs, tokens, reports, woken,
                   monitor, rare>>

(* The wait ends, by a wake-up or by the timer: the runner is stamped again  *)
(* and the offers are queried a last time.                                 *)
UnparkUnstamped(l) ==                                           \* a mutant
    /\ poll[l].pc = "parked" /\ Admitted /\ proc[l].pc = "calling"
    /\ poll[l].woken \/ poll[l].left = 0
    /\ Offers(l, "answer")
    /\ UNCHANGED <<runner, keys, proc, reg, execs, tokens, reports, woken,
                   monitor, rare>>
Unpark(l) ==
    /\ poll[l].pc = "parked" /\ Admitted /\ proc[l].pc = "calling"
    /\ poll[l].woken \/ poll[l].left = 0
    /\ runner' = Stamped(RunnerOf[l])
    /\ Offers(l, "answer")
    /\ UNCHANGED <<keys, proc, reg, execs, tokens, reports, woken, monitor, rare>>

(* The client is gone: the request ends.                                   *)
Abandon(l) ==
    /\ poll[l].pc = "parked" /\ proc[l].pc # "calling"
    /\ poll' = [poll EXCEPT ![l] = NoPoll]
    /\ UNCHANGED <<runner, keys, proc, reg, workVars, woken, monitor, rare>>

(* The answer, which may be lost.                                          *)
Answer(l) ==
    /\ poll[l].pc = "answer"
    /\ poll' = [poll EXCEPT ![l] = NoPoll]
    /\ IF proc[l].pc = "calling"
         THEN \/ /\ proc' = [proc EXCEPT ![l] = Told(l, poll[l].offers, poll[l].drain)]
                 /\ UNCHANGED rare
              \/ /\ Rarely
                 /\ proc' = [proc EXCEPT ![l] = Told(l, {}, FALSE)]
         ELSE UNCHANGED <<proc, rare>>
    /\ UNCHANGED <<runner, keys, reg, workVars, woken, monitor>>

-----------------------------------------------------------------------------
(* Wake-ups (core/services/wakeup): a publish reaches every waiter that is   *)
(* registered when it arrives; Redis may lose it.                          *)

Waiters == {l \in Launchers : poll[l].pc \in {"second", "parked"}}

Deliver ==
    /\ woken /\ woken' = FALSE
    /\ poll' = [l \in Launchers |->
                  IF l \in Waiters THEN [poll[l] EXCEPT !.woken = TRUE] ELSE poll[l]]
    /\ UNCHANGED <<runner, keys, proc, reg, workVars, monitor, rare>>

(* What the parked heartbeats miss when jobs become offerable and no wake-up *)
(* tells them.                                                             *)
Missing(jobs) ==
    poll' = [l \in Launchers |->
               IF poll[l].pc = "parked" THEN [poll[l] EXCEPT !.missed = @ \cup jobs]
               ELSE poll[l]]

LoseWake ==
    /\ woken /\ woken' = FALSE /\ Rarely
    /\ Missing({j \in Jobs : job[j].status = "pending"})
    /\ UNCHANGED <<runner, keys, proc, reg, workVars, monitor>>

-----------------------------------------------------------------------------
(* Users and operators: launching and canceling a job (core/services/       *)
(* ansible), draining a runner.                                            *)

Launch(j) ==
    /\ job[j].status = "absent"
    /\ job' = [job EXCEPT ![j].status = "pending"]
    /\ woken' = TRUE
    /\ UNCHANGED <<runner, keys, proc, reg, poll, execs, tokens, reports, monitor,
                   rare>>

Cancel(j) ==
    /\ job[j].status \in {"pending", "running"}
    /\ job' = [job EXCEPT ![j].status = "canceled"]
    /\ Missing(Free)
    /\ UNCHANGED <<runner, keys, proc, reg, execs, tokens, reports, woken, monitor,
                   rare>>

RequestDrain(n) ==
    /\ n \in Drainable /\ runner[n].registered /\ ~runner[n].drain /\ Rarely
    /\ runner' = [runner EXCEPT ![n] = [@ EXCEPT !.drain = TRUE]]
    /\ UNCHANGED <<keys, proc, reg, poll, workVars, woken, monitor>>

-----------------------------------------------------------------------------
(* The launcher's work: claim (JobStart), the job token (JobToken), report. *)

ClaimAgain(l, j) ==                                             \* a mutant
    /\ job[j].status \in {"pending", "running"}
    /\ job[j].runner \in {NoRunner, RunnerOf[l]}
(* authorizeRunnerForAnsibleJob and ClaimForRunner.                        *)
Claimable(l, j) ==
    /\ job[j].status = "pending"
    /\ job[j].runner \in {NoRunner, RunnerOf[l]}

Untold(p, j)    == [p EXCEPT !.told = @ \ {j}]
Claims(p, j)    == [p EXCEPT !.told = @ \ {j}, !.claimed = @ \cup {j}]
Unclaims(p, j)  == [p EXCEPT !.claimed = @ \ {j}]

JobStart(l, j) ==
    /\ proc[l].pc = "up" /\ j \in proc[l].told /\ Auth(l)
    /\ ~proc[l].drain /\ Cardinality(Busy(l)) < MaxJobs
    /\ IF Claimable(l, j)
         THEN /\ job' = [job EXCEPT ![j] = [status |-> "running", runner |-> RunnerOf[l]]]
              /\ tokens' = tokens \ {j}
              /\ proc' = [proc EXCEPT ![l] = Claims(proc[l], j)]
         ELSE /\ proc' = [proc EXCEPT ![l] = Untold(proc[l], j)]
              /\ UNCHANGED <<job, tokens>>
    /\ UNCHANGED <<runner, keys, reg, poll, execs, reports, woken, monitor, rare>>

(* A launcher without a free slot, or that drains, discards an offer.      *)
Discard(l, j) ==
    /\ proc[l].pc = "up" /\ j \in proc[l].told
    /\ proc[l].drain \/ Cardinality(Busy(l)) >= MaxJobs
    /\ proc' = [proc EXCEPT ![l] = Untold(proc[l], j)]
    /\ UNCHANGED <<runner, keys, reg, poll, workVars, woken, monitor, rare>>

(* The job token of a claim; with it the launcher places the executor.  A    *)
(* job that ended meanwhile gets none.                                     *)
JobToken(l, j) ==
    /\ proc[l].pc = "up" /\ j \in proc[l].claimed /\ Auth(l)
    /\ proc' = [proc EXCEPT ![l] = Unclaims(proc[l], j)]
    /\ IF job[j].runner = RunnerOf[l] /\ job[j].status \notin Finished
         THEN /\ tokens' = tokens \cup {j}
              /\ execs' = execs \cup {[job |-> j, by |-> l]}
         ELSE UNCHANGED <<tokens, execs>>
    /\ UNCHANGED <<runner, keys, reg, poll, job, reports, woken, monitor, rare>>

(* The executor's report, JobComplete.  Reading: authorizeRunnerForAnsible-  *)
(* JobReport takes the report of a canceled job, refuses a finished one's.  *)
ReportRead(e) ==
    /\ e \in execs /\ Admitted
    /\ execs' = execs \ {e}
    /\ IF /\ e.job \in tokens
          /\ job[e.job].runner = RunnerOf[e.by]
          /\ job[e.job].status \notin Finished \ {"canceled"}
         THEN reports' = reports \cup
                {[job |-> e.job, canceled |-> job[e.job].status = "canceled",
                  pc |-> "write"]}
         ELSE UNCHANGED reports
    /\ UNCHANGED <<runner, keys, proc, reg, poll, job, tokens, woken, monitor, rare>>

(* Writing: what the executor reports, unless the job was read canceled.   *)
WritesAlways(q) == TRUE                                         \* a mutant
Writes(q) == ~q.canceled

ReportWrite(q) ==
    /\ q \in reports /\ q.pc = "write"
    /\ \E outcome \in Finished :
         job' = IF Writes(q) THEN [job EXCEPT ![q.job] = [@ EXCEPT !.status = outcome]]
                ELSE job
    /\ reports' = (reports \ {q}) \cup {[q EXCEPT !.pc = "settle"]}
    /\ UNCHANGED <<runner, keys, proc, reg, poll, execs, tokens, woken, monitor, rare>>

(* The rest: the runner is online if it has no other execution (`idle'), the *)
(* job's tokens are revoked, the pool is woken.                             *)
ReportSettle(q) ==
    /\ q \in reports /\ q.pc = "settle"
    /\ \E idle \in BOOLEAN :
         runner' = IF idle THEN [runner EXCEPT ![job[q.job].runner].online = TRUE]
                   ELSE runner
    /\ tokens' = tokens \ {q.job}
    /\ woken' = TRUE
    /\ reports' = reports \ {q}
    /\ UNCHANGED <<keys, proc, reg, poll, job, execs, monitor, rare>>

-----------------------------------------------------------------------------
(* The end of a launcher process.                                          *)

(* A drained launcher with nothing left deregisters: its runner's keys go,   *)
(* then the runner is offline.                                             *)
Deregister(l) ==
    /\ proc[l].pc = "up" /\ Auth(l) /\ Drained(l)
    /\ keys' = [keys EXCEPT ![RunnerOf[l]] = {}]
    /\ proc' = [proc EXCEPT ![l] = [@ EXCEPT !.pc = "leaving"]]
    /\ UNCHANGED <<runner, reg, poll, workVars, woken, monitor, rare>>

DeregisterStatus(l) ==
    /\ proc[l].pc = "leaving"
    /\ runner' = [runner EXCEPT ![RunnerOf[l]].online = FALSE]
    /\ proc' = [proc EXCEPT ![l] = Gone]
    /\ UNCHANGED <<keys, reg, poll, workVars, woken, monitor, rare>>

(* It is asked to end (SIGTERM) while it has offers, which a launcher that   *)
(* is told to drain never has; it drains as if it had been told to.         *)
Terminate(l) ==
    /\ proc[l].pc = "up" /\ proc[l].told # {} /\ ~proc[l].drain /\ Rarely
    /\ proc' = [proc EXCEPT ![l] = [@ EXCEPT !.drain = TRUE]]
    /\ UNCHANGED <<runner, keys, reg, poll, workVars, woken, monitor>>

(* It dies, alone or with its host and the executors there.  What the API is *)
(* serving for it goes on.  (Dying before the answer to its registration is  *)
(* dying right after it.)                                                  *)
Crash(l) ==
    /\ proc[l].pc \in {"up", "calling"}
    /\ proc' = [proc EXCEPT ![l] = Gone]
    /\ execs' \in {execs, {e \in execs : e.by # l}}
    /\ UNCHANGED <<runner, keys, reg, poll, job, tokens, reports, woken, monitor, rare>>

-----------------------------------------------------------------------------
(* The monitor (markStaleRunners): one statement marks the silent runners   *)
(* offline, one releases what offline runners reserved, one ends what they  *)
(* started; then the tokens of what was ended are revoked.                  *)

Stale(n)   == runner[n].registered /\ runner[n].online /\ runner[n].age > OfflineAfter
Offline(n) == runner[n].registered /\ ~runner[n].online
Of(status) == {j \in Jobs : /\ job[j].status = status /\ job[j].runner # NoRunner
                            /\ Offline(job[j].runner)}

MonitorMark ==
    /\ monitor.pc = "idle"
    /\ (\E n \in Runners : Stale(n)) \/ Of("pending") # {} \/ Of("running") # {}
    /\ runner' = [n \in Runners |-> IF Stale(n) THEN [runner[n] EXCEPT !.online = FALSE]
                                    ELSE runner[n]]
    /\ monitor' = [pc |-> "release", lost |-> {}]
    /\ UNCHANGED <<keys, proc, reg, poll, workVars, woken, rare>>

MonitorRelease ==
    /\ monitor.pc = "release"
    /\ job' = [j \in Jobs |-> IF j \in Of("pending")
                                THEN [job[j] EXCEPT !.runner = NoRunner] ELSE job[j]]
    /\ Missing(Free \cup Of("pending"))
    /\ monitor' = [monitor EXCEPT !.pc = "settle"]
    /\ UNCHANGED <<runner, keys, proc, reg, execs, tokens, reports, woken, rare>>

LostTokenless == {j \in Of("running") : j \in tokens}           \* a mutant
Lost == Of("running")

MonitorSettle ==
    /\ monitor.pc = "settle"
    /\ job' = [j \in Jobs |-> IF j \in Lost THEN [job[j] EXCEPT !.status = "ended"]
                              ELSE job[j]]
    /\ Missing(Free)
    /\ monitor' = [pc |-> "revoke", lost |-> Lost]
    /\ UNCHANGED <<runner, keys, proc, reg, execs, tokens, reports, woken, rare>>

MonitorRevoke ==
    /\ monitor.pc = "revoke"
    /\ tokens' = tokens \ monitor.lost
    /\ monitor' = [pc |-> "idle", lost |-> {}]
    /\ UNCHANGED <<runner, keys, proc, reg, poll, job, execs, reports, woken, rare>>

-----------------------------------------------------------------------------
Registering(l) == RegisterRow(l) \/ RegisterKeys(l) \/ RegisterMint(l)
                  \/ RegisterFails(l) \/ RegisterAnswer(l)
Polling(l)     == Wait(l) \/ SecondQuery(l) \/ Unpark(l) \/ Abandon(l)
                  \/ Answer(l)
Claiming(l)    == \E j \in Jobs : JobStart(l, j) \/ Discard(l, j) \/ JobToken(l, j)
Leaving(l)     == Deregister(l) \/ DeregisterStatus(l)
Reporting      == \/ \E e \in execs : ReportRead(e)
                  \/ \E q \in reports : ReportWrite(q) \/ ReportSettle(q)
Monitoring     == MonitorMark \/ MonitorRelease \/ MonitorSettle \/ MonitorRevoke

Next ==
    \/ Tick
    \/ \E l \in Launchers : \/ Start(l) \/ Registering(l)
                            \/ Heartbeat(l) \/ Refused(l) \/ Polling(l)
                            \/ Claiming(l) \/ Leaving(l)
                            \/ Terminate(l) \/ Crash(l)
    \/ Deliver \/ LoseWake
    \/ \E j \in Jobs : Launch(j) \/ Cancel(j)
    \/ \E n \in Runners : RequestDrain(n)
    \/ Reporting
    \/ Monitoring

Spec == Init /\ [][Next]_vars

(* Time passes, a launcher that is up calls and works and the API's handlers *)
(* for it go on, executors end (their jobs have a timeout) and report, the  *)
(* monitor goes on.  What a launcher does, it does in order, so one          *)
(* condition covers it; it is a strong one where MaxServed may turn a       *)
(* request away now and again.                                             *)
Serving(l) == \/ Registering(l) \/ Heartbeat(l) \/ Refused(l) \/ Polling(l)
              \/ Claiming(l) \/ Leaving(l)
Fairness ==
    /\ SF_vars(Tick)
    /\ \A l \in Launchers : SF_vars(Serving(l))
    /\ SF_vars(Reporting)
    /\ WF_vars(Monitoring)

FairSpec == Spec /\ Fairness

-----------------------------------------------------------------------------
(* A launcher that is up and whose token verifies is never silent for longer *)
(* than OfflineAfter, whatever it was held for and however long its claims  *)
(* took: the monitor does not settle the work of a launcher that is there.   *)
Live(l) == proc[l].pc \in {"up", "calling"} /\ l \in keys[RunnerOf[l]]
LiveIsFresh ==
    \A l \in Launchers : Live(l) => runner[RunnerOf[l]].age <= OfflineAfter

(* While a heartbeat is parked and not woken, there is nothing to offer it,  *)
(* unless a wake-up is on its way, a report has still to publish one, or    *)
(* what there is became offerable without one.                             *)
NoMissedWakeup ==
    \A l \in Launchers :
      poll[l].pc = "parked" /\ ~poll[l].woken =>
        \/ Offerable(RunnerOf[l]) \subseteq poll[l].missed
        \/ woken
        \/ \E q \in reports : q.pc = "settle"

(* A claimed job is executed once: offering a reservation again, to the     *)
(* process that has it or to another of its runner, starts nothing twice.   *)
OneExecution ==
    /\ \A j \in Jobs :
         \/ \A e \in execs : e.job # j
         \/ \A l \in Launchers : j \notin proc[l].claimed
    /\ \A e, f \in execs : e.job = f.job => e = f
    /\ \A l, m \in Launchers : l # m => proc[l].claimed \cap proc[m].claimed = {}

(* "The job stays canceled whatever the interrupted playbook's exit says":   *)
(* only a report that read the job before it was canceled may overwrite it. *)
CancelStands ==
    [][\A j \in Jobs :
         (/\ job[j].status = "canceled"
          /\ \A q \in reports : q.job = j /\ q.pc = "write" => q.canceled)
         => job'[j].status = "canceled"]_vars

(* Every queued job is started or ends while there is a launcher to start    *)
(* it, though answers and wake-ups are lost and launchers die with what     *)
(* they reserved.                                                          *)
QueuedIsStarted ==
    \A j \in Jobs :
      job[j].status = "pending" ~>
        \/ job[j].status # "pending"
        \/ \A l \in Launchers : proc[l].pc \in {"new", "leaving", "gone"}

(* A started job whose runner has no launcher any more ends.               *)
LostWorkEnds ==
    \A j \in Jobs :
      (/\ job[j].status = "running"
       /\ \A l \in Launchers : RunnerOf[l] = job[j].runner => proc[l].pc = "gone")
      ~> job[j].status # "running"

(* A runner asked to drain goes offline, or a new launcher takes it over.   *)
DrainedLeaves ==
    \A n \in Runners : runner[n].drain ~> ~runner[n].drain \/ ~runner[n].online
=============================================================================
