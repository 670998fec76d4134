-------------------------- MODULE RunnerFleetProofs --------------------------
(***************************************************************************)
(* Proofs about RunnerFleet, for any jobs, runners, launchers and timing    *)
(* constants that satisfy the module's assumptions.                        *)
(***************************************************************************)
EXTENDS RunnerFleet, FiniteSetTheorems, TLAPS

-----------------------------------------------------------------------------
(* Type correctness.                                                       *)

LEMMA InitTyped == Init => TypeOK
<1>1. /\ NoRow \in RunnerRow /\ NoPoll \in Poll /\ NoReg \in Registration
      /\ Idle("new") \in Process
  BY DEF NoRow, NoPoll, NoReg, Idle, RunnerRow, Process, Registration, Poll
<1>2. [status |-> "absent", runner |-> NoRunner] \in JobRow
  BY DEF JobRow, Statuses
<1> SUFFICES ASSUME Init PROVE TypeOK
  OBVIOUS
<1>3. /\ runner \in [Runners -> RunnerRow]
      /\ keys \in [Runners -> SUBSET Launchers]
  BY <1>1 DEF Init
<1>4. /\ proc \in [Launchers -> Process]
      /\ reg \in [Launchers -> Registration]
      /\ poll \in [Launchers -> Poll]
  BY <1>1 DEF Init
<1>5. job \in [Jobs -> JobRow]
  BY <1>2 DEF Init
<1>6. /\ execs \subseteq Exec /\ tokens \subseteq Jobs /\ reports \subseteq Report
      /\ woken \in BOOLEAN /\ rare \in Nat
      /\ monitor \in [pc: {"idle", "release", "settle", "revoke"}, lost: SUBSET Jobs]
  BY DEF Init
<1> QED BY <1>3, <1>4, <1>5, <1>6 DEF TypeOK

LEMMA QueryTyped ==
    ASSUME TypeOK, NEW l \in Launchers, NEW again, NEW new,
           Query(RunnerOf[l], again, new)
    PROVE  /\ job' \in [Jobs -> JobRow]
           /\ again \cup new \subseteq Jobs
           /\ \A j \in Jobs : job'[j].status = job[j].status
  BY ConstantsAssumption DEF TypeOK, Query, JobRow, Held, Free, Statuses

LEMMA OffersTyped ==
    ASSUME TypeOK, NEW l \in Launchers, NEW next \in {"wait", "parked", "answer"},
           Offers(l, next)
    PROVE  job' \in [Jobs -> JobRow] /\ poll' \in [Launchers -> Poll]
<1>1. PICK again, new \in SUBSET Jobs :
        /\ Query(RunnerOf[l], again, new)
        /\ poll' = [poll EXCEPT ![l] =
             IF again \cup new # {} \/ next = "answer"
               THEN [NoPoll EXCEPT !.pc = "answer", !.offers = again \cup new]
               ELSE [@ EXCEPT !.pc = next,
                              !.left = IF next = "parked" THEN LongPollMax ELSE 0]]
  BY DEF Offers
<1>2. job' \in [Jobs -> JobRow]
  BY <1>1, QueryTyped
<1>3. poll[l] \in Poll /\ LongPollMax \in Nat
  BY ConstantsAssumption DEF TypeOK
<1>4. [NoPoll EXCEPT !.pc = "answer", !.offers = again \cup new] \in Poll
  BY DEF NoPoll, Poll
<1>5. [poll[l] EXCEPT !.pc = next,
                      !.left = IF next = "parked" THEN LongPollMax ELSE 0] \in Poll
  BY <1>3 DEF Poll
<1>6. poll' \in [Launchers -> Poll]
  BY <1>1, <1>4, <1>5 DEF TypeOK
<1> QED BY <1>2, <1>6

LEMMA MissingTyped ==
    ASSUME TypeOK, NEW jobs \in SUBSET Jobs, Missing(jobs)
    PROVE  poll' \in [Launchers -> Poll]
<1>1. \A l \in Launchers : [poll[l] EXCEPT !.missed = @ \cup jobs] \in Poll
  BY DEF TypeOK, Poll
<1> QED BY <1>1 DEF Missing, TypeOK

LEMMA ToldTyped ==
    ASSUME TypeOK, NEW l \in Launchers, NEW offers \in SUBSET Jobs,
           NEW drain \in BOOLEAN
    PROVE  Told(l, offers, drain) \in Process
<1>1. proc[l] \in Process /\ ClaimMax \in Nat
  BY ConstantsAssumption DEF TypeOK
<1> QED BY <1>1 DEF Told, Process

LEMMA GoneTyped == Gone \in Process
  BY DEF Gone, Idle, Process

LEMMA StampedTyped ==
    ASSUME TypeOK, NEW n \in Runners
    PROVE  Stamped(n) \in [Runners -> RunnerRow]
<1>1. runner[n] \in RunnerRow
  BY DEF TypeOK
<1>2. [runner[n] EXCEPT !.online = TRUE, !.age = 0] \in RunnerRow
  BY <1>1 DEF RunnerRow
<1> QED BY <1>2 DEF Stamped, TypeOK

(* Time.                                                                   *)
LEMMA TickTyped == TypeOK /\ Tick => TypeOK'
<1> SUFFICES ASSUME TypeOK, Tick PROVE TypeOK'
  OBVIOUS
<1>1. runner' \in [Runners -> RunnerRow]
  <2>1. \A n \in Runners : [runner[n] EXCEPT !.age = @ + 1] \in RunnerRow
    BY DEF TypeOK, RunnerRow
  <2> QED BY <2>1 DEF Tick, TypeOK
<1>2. poll' \in [Launchers -> Poll]
  <2>1. \A l \in Launchers : poll[l].pc = "parked" => poll[l].left > 0
    BY DEF Tick
  <2>2. \A p \in Poll : p.left > 0 => [p EXCEPT !.left = @ - 1] \in Poll
    BY DEF Poll
  <2>3. \A l \in Launchers : poll[l].pc = "parked" =>
          [poll[l] EXCEPT !.left = @ - 1] \in Poll
    BY <2>1, <2>2 DEF TypeOK
  <2> QED BY <2>3 DEF Tick, TypeOK
<1>3. proc' \in [Launchers -> Process]
  <2>1. \A l \in Launchers : proc[l].pc = "up" => proc[l].left > 0
    BY DEF Tick
  <2>2. \A p \in Process : p.left > 0 => [p EXCEPT !.left = @ - 1] \in Process
    BY DEF Process
  <2>3. \A l \in Launchers : proc[l].pc = "up" =>
          [proc[l] EXCEPT !.left = @ - 1] \in Process
    BY <2>1, <2>2 DEF TypeOK
  <2> QED BY <2>3 DEF Tick, TypeOK
<1> QED BY <1>1, <1>2, <1>3 DEF Tick, TypeOK, workVars

(* Registration.                                                           *)
LEMMA RegisteringTyped ==
    ASSUME TypeOK, NEW l \in Launchers, Start(l) \/ Registering(l)
    PROVE  TypeOK'
<1>0. /\ RunnerOf[l] \in Runners
      /\ proc[l] \in Process /\ reg[l] \in Registration
      /\ rare \in Nat
  BY ConstantsAssumption DEF TypeOK
<1>0a. \A pc \in {"row", "keys", "mint", "offer"} : [reg[l] EXCEPT !.pc = pc] \in Registration
  BY <1>0 DEF Registration
<1>1. CASE Start(l)
  <2>1. [proc[l] EXCEPT !.pc = "registering"] \in Process
    BY <1>0 DEF Process
  <2> QED BY <1>1, <2>1, <1>0a DEF Start, Step, TypeOK, workVars
<1>2. CASE RegisterRow(l)
  <2>1. [registered |-> TRUE, online |-> TRUE, drain |-> FALSE, age |-> 0] \in RunnerRow
    BY DEF RunnerRow
  <2>2. [pc |-> "keys", existing |-> runner[RunnerOf[l]].registered] \in Registration
    BY <1>0 DEF TypeOK, RunnerRow, Registration
  <2> QED BY <1>2, <2>1, <2>2, <1>0 DEF RegisterRow, TypeOK, workVars
<1>3. CASE RegisterKeys(l)
  BY <1>3, <1>0, <1>0a DEF RegisterKeys, Step, TypeOK, workVars
<1>4. CASE RegisterMint(l)
  BY <1>4, <1>0, <1>0a DEF RegisterMint, Step, TypeOK, workVars
<1>5. CASE RegisterFails(l)
  <2>1. NoReg \in Registration /\ NoRow \in RunnerRow
    BY DEF NoReg, Registration, NoRow, RunnerRow
  <2> QED BY <1>5, <2>1, GoneTyped, <1>0 DEF RegisterFails, Rarely, TypeOK, workVars
<1>6. CASE RegisterAnswer(l)
  <2>1. NoReg \in Registration
    BY DEF NoReg, Registration
  <2>2. PICK again, new \in SUBSET Jobs :
          /\ IF reg[l].existing THEN Query(RunnerOf[l], again, new)
                                ELSE again = {} /\ new = {} /\ UNCHANGED job
          /\ proc' = IF proc[l].pc = "registering"
                       THEN [proc EXCEPT ![l] = Told(l, again \cup new, FALSE)]
                       ELSE proc
    BY <1>6 DEF RegisterAnswer
  <2>3. job' \in [Jobs -> JobRow]
    BY <2>2, QueryTyped DEF TypeOK
  <2>4. proc' \in [Launchers -> Process]
    <3>1. Told(l, again \cup new, FALSE) \in Process
      BY ToldTyped, again \cup new \in SUBSET Jobs
    <3> QED BY <2>2, <3>1 DEF TypeOK
  <2> QED BY <1>6, <2>1, <2>3, <2>4 DEF RegisterAnswer, TypeOK
<1> QED BY <1>1, <1>2, <1>3, <1>4, <1>5, <1>6 DEF Registering

(* The heartbeat and the wake-ups.                                         *)
LEMMA HeartbeatTyped ==
    ASSUME TypeOK, NEW l \in Launchers, Heartbeat(l)
    PROVE  TypeOK'
<1> DEFINE drain == runner[RunnerOf[l]].drain
<1>0. /\ RunnerOf[l] \in Runners
      /\ proc[l] \in Process
      /\ drain \in BOOLEAN
  BY ConstantsAssumption DEF TypeOK, RunnerRow
<1>1. runner' \in [Runners -> RunnerRow]
  BY <1>0, StampedTyped DEF Heartbeat
<1>2. proc' \in [Launchers -> Process]
  <2>1. [proc[l] EXCEPT !.pc = "calling"] \in Process
    BY <1>0 DEF Process
  <2> QED BY <2>1 DEF Heartbeat, TypeOK
<1>3. job' \in [Jobs -> JobRow] /\ poll' \in [Launchers -> Poll]
  <2>1. CASE drain \/ Cardinality(Busy(l)) >= MaxJobs
    <3>1. [NoPoll EXCEPT !.pc = "answer", !.drain = drain] \in Poll
      BY <1>0 DEF NoPoll, Poll
    <3>2. poll' = [poll EXCEPT ![l] = [NoPoll EXCEPT !.pc = "answer", !.drain = drain]]
          /\ UNCHANGED job
      BY <2>1 DEF Heartbeat
    <3> QED BY <3>1, <3>2 DEF TypeOK
  <2>2. CASE ~(drain \/ Cardinality(Busy(l)) >= MaxJobs)
    <3>1. Offers(l, "wait")
      BY <2>2 DEF Heartbeat
    <3> QED BY <3>1, OffersTyped
  <2> QED BY <2>1, <2>2
<1> QED BY <1>1, <1>2, <1>3 DEF Heartbeat, TypeOK

LEMMA PollingTyped ==
    ASSUME TypeOK, NEW l \in Launchers, Polling(l) \/ Refused(l)
    PROVE  TypeOK'
<1>0. /\ RunnerOf[l] \in Runners
      /\ proc[l] \in Process /\ poll[l] \in Poll
      /\ NoPoll \in Poll /\ rare \in Nat
  BY ConstantsAssumption DEF TypeOK, NoPoll, Poll
<1>1. CASE Wait(l)
  <2>1. [poll[l] EXCEPT !.pc = "second"] \in Poll
    BY <1>0 DEF Poll
  <2> QED BY <1>1, <2>1 DEF Wait, PollAt, TypeOK, workVars
<1>2. CASE SecondQuery(l)
  BY <1>2, OffersTyped DEF SecondQuery, TypeOK
<1>3. CASE Unpark(l)
  <2>1. job' \in [Jobs -> JobRow] /\ poll' \in [Launchers -> Poll]
    BY <1>3, OffersTyped DEF Unpark
  <2>2. runner' \in [Runners -> RunnerRow]
    BY <1>3, <1>0, StampedTyped DEF Unpark
  <2> QED BY <1>3, <2>1, <2>2 DEF Unpark, TypeOK
<1>4. CASE Abandon(l)
  BY <1>4, <1>0 DEF Abandon, TypeOK, workVars
<1>5. CASE Answer(l)
  <2>1. /\ Told(l, poll[l].offers, poll[l].drain) \in Process
        /\ Told(l, {}, FALSE) \in Process
    BY <1>0, ToldTyped DEF Poll
  <2>2. proc' \in [Launchers -> Process] /\ rare' \in Nat
    <3>1. CASE proc' = [proc EXCEPT ![l] = Told(l, poll[l].offers, poll[l].drain)]
               /\ UNCHANGED rare
      BY <3>1, <1>0, <2>1 DEF TypeOK
    <3>2. CASE Rarely /\ proc' = [proc EXCEPT ![l] = Told(l, {}, FALSE)]
      <4>1. rare' \in Nat
        BY <3>2, <1>0 DEF Rarely
      <4> QED BY <3>2, <4>1, <2>1 DEF TypeOK
    <3>3. CASE UNCHANGED <<proc, rare>>
      BY <3>3, <1>0 DEF TypeOK
    <3> QED BY <1>5, <3>1, <3>2, <3>3 DEF Answer
  <2>3. poll' \in [Launchers -> Poll]
    BY <1>5, <1>0 DEF Answer, TypeOK
  <2> QED BY <1>5, <2>2, <2>3 DEF Answer, TypeOK, workVars
<1>6. CASE Refused(l)
  BY <1>6, GoneTyped DEF Refused, TypeOK, workVars
<1> QED BY <1>1, <1>2, <1>3, <1>4, <1>5, <1>6 DEF Polling

LEMMA WakeTyped == TypeOK /\ (Deliver \/ LoseWake) => TypeOK'
<1> SUFFICES ASSUME TypeOK, Deliver \/ LoseWake PROVE TypeOK'
  OBVIOUS
<1>1. CASE Deliver
  <2>1. \A l \in Launchers : [poll[l] EXCEPT !.woken = TRUE] \in Poll
    BY DEF TypeOK, Poll
  <2> QED BY <1>1, <2>1 DEF Deliver, TypeOK, workVars
<1>2. CASE LoseWake
  <2>1. poll' \in [Launchers -> Poll]
    BY <1>2, MissingTyped DEF LoseWake
  <2>2. rare' \in Nat
    BY <1>2 DEF LoseWake, Rarely, TypeOK
  <2> QED BY <1>2, <2>1, <2>2 DEF LoseWake, TypeOK, workVars
<1> QED BY <1>1, <1>2

(* Users, operators and the work of launchers.                             *)
LEMMA UserTyped ==
    ASSUME TypeOK,
           \/ \E j \in Jobs : Launch(j) \/ Cancel(j)
           \/ \E n \in Runners : RequestDrain(n)
    PROVE  TypeOK'
<1>0. \A j \in Jobs : job[j] \in JobRow
  BY DEF TypeOK
<1>1. ASSUME NEW j \in Jobs, Launch(j) PROVE TypeOK'
  <2>1. [job[j] EXCEPT !.status = "pending"] \in JobRow
    BY <1>0 DEF JobRow, Statuses
  <2>2. job' \in [Jobs -> JobRow]
    BY <1>1, <2>1 DEF Launch, TypeOK
  <2> QED BY <1>1, <2>2 DEF Launch, TypeOK
<1>2. ASSUME NEW j \in Jobs, Cancel(j) PROVE TypeOK'
  <2>1. [job[j] EXCEPT !.status = "canceled"] \in JobRow
    BY <1>0 DEF JobRow, Statuses, Finished
  <2>2. job' \in [Jobs -> JobRow]
    BY <1>2, <2>1 DEF Cancel, TypeOK
  <2>3. poll' \in [Launchers -> Poll]
    BY <1>2, MissingTyped DEF Cancel, Free
  <2> QED BY <1>2, <2>2, <2>3 DEF Cancel, TypeOK
<1>3. ASSUME NEW n \in Runners, RequestDrain(n) PROVE TypeOK'
  <2>0. runner[n] \in RunnerRow /\ runner \in [Runners -> RunnerRow]
    BY DEF TypeOK
  <2>1. [runner[n] EXCEPT !.drain = TRUE] \in RunnerRow
    BY <2>0 DEF RunnerRow
  <2>2. runner' = [runner EXCEPT ![n] = [@ EXCEPT !.drain = TRUE]]
    BY <1>3 DEF RequestDrain
  <2>3. runner' \in [Runners -> RunnerRow]
    BY <2>0, <2>1, <2>2
  <2>4. rare' \in Nat
    BY <1>3 DEF RequestDrain, Rarely, TypeOK
  <2> QED BY <1>3, <2>3, <2>4 DEF RequestDrain, TypeOK, workVars
<1> QED BY <1>1, <1>2, <1>3

LEMMA ClaimingTyped ==
    ASSUME TypeOK, NEW l \in Launchers, Claiming(l)
    PROVE  TypeOK'
<1>0. PICK j \in Jobs : JobStart(l, j) \/ Discard(l, j) \/ JobToken(l, j)
  BY DEF Claiming
<1>0a. /\ RunnerOf[l] \in Runners
       /\ proc[l] \in Process
  BY ConstantsAssumption DEF TypeOK
<1>0b. /\ Untold(proc[l], j) \in Process /\ Claims(proc[l], j) \in Process
       /\ Unclaims(proc[l], j) \in Process
  BY <1>0a DEF Process, Untold, Claims, Unclaims
<1>1. CASE JobStart(l, j)
  <2>1. [status |-> "running", runner |-> RunnerOf[l]] \in JobRow
    BY <1>0a DEF JobRow, Statuses
  <2>3. job' \in [Jobs -> JobRow] /\ tokens' \subseteq Jobs
    BY <1>1, <2>1 DEF JobStart, TypeOK
  <2>4. proc' \in [Launchers -> Process]
    BY <1>1, <1>0b DEF JobStart, TypeOK
  <2> QED BY <1>1, <2>3, <2>4 DEF JobStart, TypeOK
<1>2. CASE Discard(l, j)
  BY <1>2, <1>0b DEF Discard, TypeOK, workVars
<1>3. CASE JobToken(l, j)
  <2>1. [job |-> j, by |-> l] \in Exec
    BY DEF Exec
  <2>2. tokens' \subseteq Jobs /\ execs' \subseteq Exec
    BY <1>3, <2>1 DEF JobToken, TypeOK
  <2>4. proc' \in [Launchers -> Process]
    BY <1>3, <1>0b DEF JobToken, TypeOK
  <2> QED BY <1>3, <2>2, <2>4 DEF JobToken, TypeOK
<1> QED BY <1>0, <1>1, <1>2, <1>3

LEMMA ReportingTyped == TypeOK /\ Reporting => TypeOK'
<1> SUFFICES ASSUME TypeOK, Reporting PROVE TypeOK'
  OBVIOUS
<1>1. ASSUME NEW e \in execs, ReportRead(e) PROVE TypeOK'
  <2>1. e.job \in Jobs
    BY DEF TypeOK, Exec
  <2>2. [job |-> e.job, canceled |-> job[e.job].status = "canceled",
         pc |-> "write"] \in Report
    BY <2>1 DEF Report
  <2>3. reports' \subseteq Report /\ execs' \subseteq Exec
    BY <1>1, <2>2 DEF ReportRead, TypeOK
  <2> QED BY <1>1, <2>3 DEF ReportRead, TypeOK
<1>2. ASSUME NEW q \in reports, ReportWrite(q) PROVE TypeOK'
  <2>1. q \in Report /\ q.job \in Jobs
    BY DEF TypeOK, Report
  <2>2. PICK outcome \in Finished :
          job' = IF Writes(q) THEN [job EXCEPT ![q.job] = [@ EXCEPT !.status = outcome]]
                 ELSE job
    BY <1>2 DEF ReportWrite
  <2>3. [job[q.job] EXCEPT !.status = outcome] \in JobRow
    BY <2>1 DEF TypeOK, JobRow, Statuses
  <2>4. job' \in [Jobs -> JobRow]
    BY <2>2, <2>3 DEF TypeOK
  <2>5. [q EXCEPT !.pc = "settle"] \in Report
    BY <2>1 DEF Report
  <2> QED BY <1>2, <2>4, <2>5 DEF ReportWrite, TypeOK
<1>3. ASSUME NEW q \in reports, ReportSettle(q) PROVE TypeOK'
  <2>1. PICK idle \in BOOLEAN :
          runner' = IF idle THEN [runner EXCEPT ![job[q.job].runner].online = TRUE]
                    ELSE runner
    BY <1>3 DEF ReportSettle
  <2>2. runner' \in [Runners -> RunnerRow]
    <3>1. \A n \in Runners : [runner[n] EXCEPT !.online = TRUE] \in RunnerRow
      BY DEF TypeOK, RunnerRow
    <3> QED BY <2>1, <3>1 DEF TypeOK
  <2> QED BY <1>3, <2>2 DEF ReportSettle, TypeOK
<1> QED BY <1>1, <1>2, <1>3 DEF Reporting

(* The end of a process, and the monitor.                                  *)
LEMMA LeavingTyped ==
    ASSUME TypeOK, NEW l \in Launchers, Leaving(l) \/ Terminate(l) \/ Crash(l)
    PROVE  TypeOK'
<1>0. RunnerOf[l] \in Runners /\ proc[l] \in Process /\ rare \in Nat
  BY ConstantsAssumption DEF TypeOK
<1>1. CASE Deregister(l)
  <2>1. [proc[l] EXCEPT !.pc = "leaving"] \in Process
    BY <1>0 DEF Process
  <2> QED BY <1>1, <1>0, <2>1 DEF Deregister, TypeOK, workVars
<1>2. CASE DeregisterStatus(l)
  <2>0. runner[RunnerOf[l]] \in RunnerRow
    BY <1>0 DEF TypeOK
  <2>1. [runner[RunnerOf[l]] EXCEPT !.online = FALSE] \in RunnerRow
    BY <2>0 DEF RunnerRow
  <2> QED BY <1>2, <1>0, <2>1, GoneTyped DEF DeregisterStatus, TypeOK, workVars
<1>3. CASE Terminate(l)
  <2>1. [proc[l] EXCEPT !.drain = TRUE] \in Process
    BY <1>0 DEF Process
  <2> QED BY <1>3, <1>0, <2>1 DEF Terminate, Rarely, TypeOK, workVars
<1>4. CASE Crash(l)
  BY <1>4, GoneTyped DEF Crash, TypeOK
<1> QED BY <1>1, <1>2, <1>3, <1>4 DEF Leaving

LEMMA MonitoringTyped == TypeOK /\ Monitoring => TypeOK'
<1> SUFFICES ASSUME TypeOK, Monitoring PROVE TypeOK'
  OBVIOUS
<1>0. \A j \in Jobs : job[j] \in JobRow
  BY DEF TypeOK
<1>0a. \A status : Of(status) \subseteq Jobs
  BY DEF Of
<1>1. CASE MonitorMark
  <2>1. \A n \in Runners : [runner[n] EXCEPT !.online = FALSE] \in RunnerRow
    BY DEF TypeOK, RunnerRow
  <2>2. runner' \in [Runners -> RunnerRow]
    BY <1>1, <2>1 DEF MonitorMark, TypeOK
  <2> QED BY <1>1, <2>2 DEF MonitorMark, TypeOK, workVars
<1>2. CASE MonitorRelease
  <2>1. \A j \in Jobs : [job[j] EXCEPT !.runner = NoRunner] \in JobRow
    BY <1>0 DEF JobRow
  <2>2. job' \in [Jobs -> JobRow]
    BY <1>2, <2>1 DEF MonitorRelease, TypeOK
  <2>3. poll' \in [Launchers -> Poll]
    BY <1>2, <1>0a, MissingTyped DEF MonitorRelease, Free
  <2>4. monitor' = [pc |-> "settle", lost |-> monitor.lost]
    BY <1>2 DEF MonitorRelease, TypeOK
  <2> QED BY <1>2, <2>2, <2>3, <2>4 DEF MonitorRelease, TypeOK
<1>3. CASE MonitorSettle
  <2>1. \A j \in Jobs : [job[j] EXCEPT !.status = "ended"] \in JobRow
    BY <1>0 DEF JobRow, Statuses, Finished
  <2>2. job' \in [Jobs -> JobRow]
    BY <1>3, <2>1 DEF MonitorSettle, TypeOK
  <2>3. poll' \in [Launchers -> Poll]
    BY <1>3, MissingTyped DEF MonitorSettle, Free
  <2> QED BY <1>3, <1>0a, <2>2, <2>3 DEF MonitorSettle, Lost, TypeOK
<1>4. CASE MonitorRevoke
  BY <1>4 DEF MonitorRevoke, TypeOK
<1> QED BY <1>1, <1>2, <1>3, <1>4 DEF Monitoring

LEMMA StutterTyped == TypeOK /\ UNCHANGED vars => TypeOK'
  BY DEF TypeOK, vars

(* Every variable of RunnerFleet keeps its type.                            *)
THEOREM RunnerFleet_TypeCorrect == Spec => []TypeOK
<1>1. Init => TypeOK
  BY InitTyped
<1>2. TypeOK /\ [Next]_vars => TypeOK'
  BY TickTyped, RegisteringTyped, HeartbeatTyped, PollingTyped, WakeTyped, UserTyped,
     ClaimingTyped, ReportingTyped, LeavingTyped, MonitoringTyped, StutterTyped
  DEF Next
<1> QED BY <1>1, <1>2, PTL DEF Spec

-----------------------------------------------------------------------------
(* Silence.  A request that is being served was stamped with no time gone    *)
(* since, and the time a runner has been silent and the time it may still   *)
(* be are one hold, or one launcher's time between two heartbeats, at most.  *)

Age(l) == runner[RunnerOf[l]].age

FreshInv ==
    \A l \in Launchers :
      /\ proc[l].pc = "up" => Age(l) + proc[l].left <= ClaimMax
      /\ proc[l].pc = "calling" => poll[l].pc # "none"
      /\ poll[l].pc \in {"wait", "second", "answer"} => Age(l) = 0
      /\ poll[l].pc = "parked" => Age(l) + poll[l].left <= LongPollMax
      /\ reg[l].pc \in {"keys", "mint", "offer"} => Age(l) = 0

LEMMA FreshInvSuffices == TypeOK /\ FreshInv => LiveIsFresh
<1> SUFFICES ASSUME TypeOK, FreshInv, NEW l \in Launchers, Live(l)
             PROVE  Age(l) <= OfflineAfter
  BY DEF LiveIsFresh, Age
<1>1. /\ Age(l) \in Nat /\ proc[l].left \in Nat /\ poll[l].left \in Nat
      /\ LongPollMax \in Nat /\ ClaimMax \in Nat /\ OfflineAfter \in Nat
      /\ poll[l].pc \in {"none", "wait", "second", "parked", "answer"}
  BY ConstantsAssumption DEF TypeOK, Age, RunnerRow, Process, Poll
<1>2. CASE proc[l].pc = "up"
  BY <1>1, <1>2, TimingAssumption DEF FreshInv
<1>3. CASE proc[l].pc = "calling"
  BY <1>1, <1>3, TimingAssumption DEF FreshInv
<1> QED BY <1>2, <1>3 DEF Live

(* A step that stamps some runners and touches no process, heartbeat or      *)
(* registration keeps it.                                                  *)
AgesDrop == \A n \in Runners : runner'[n].age \in {0, runner[n].age}

LEMMA AgesDropKeepsFresh ==
    ASSUME TypeOK, FreshInv, AgesDrop,
           \A l \in Launchers :
             /\ proc'[l].pc = "up" =>
                  \/ proc[l].pc = "up" /\ proc'[l].left = proc[l].left
                  \/ runner'[RunnerOf[l]].age = 0 /\ proc'[l].left = ClaimMax
             /\ proc'[l].pc = "calling" => poll'[l].pc # "none"
             /\ poll'[l].pc \in {"wait", "second", "answer"} =>
                  \/ poll[l].pc \in {"wait", "second", "answer"}
                  \/ runner'[RunnerOf[l]].age = 0
             /\ poll'[l].pc = "parked" =>
                  \/ poll[l].pc = "parked" /\ poll'[l].left = poll[l].left
                  \/ runner'[RunnerOf[l]].age = 0 /\ poll'[l].left = LongPollMax
             /\ reg'[l].pc \in {"keys", "mint", "offer"} =>
                  \/ reg[l].pc \in {"keys", "mint", "offer"}
                  \/ runner'[RunnerOf[l]].age = 0
    PROVE  FreshInv'
<1> SUFFICES ASSUME NEW l \in Launchers
    PROVE  /\ proc'[l].pc = "up" =>
                 runner'[RunnerOf[l]].age + proc'[l].left <= ClaimMax
           /\ proc'[l].pc = "calling" => poll'[l].pc # "none"
           /\ poll'[l].pc \in {"wait", "second", "answer"} =>
                 runner'[RunnerOf[l]].age = 0
           /\ poll'[l].pc = "parked" =>
                 runner'[RunnerOf[l]].age + poll'[l].left <= LongPollMax
           /\ reg'[l].pc \in {"keys", "mint", "offer"} =>
                 runner'[RunnerOf[l]].age = 0
  BY DEF FreshInv, Age
<1>1. /\ runner'[RunnerOf[l]].age \in {0, Age(l)} /\ Age(l) \in Nat
      /\ proc[l].left \in Nat /\ poll[l].left \in Nat
      /\ LongPollMax \in Nat /\ ClaimMax \in Nat
  BY ConstantsAssumption DEF TypeOK, RunnerRow, Process, Poll, AgesDrop, Age
<1>2. /\ proc[l].pc = "up" => Age(l) + proc[l].left <= ClaimMax
      /\ poll[l].pc \in {"wait", "second", "answer"} => Age(l) = 0
      /\ poll[l].pc = "parked" => Age(l) + poll[l].left <= LongPollMax
      /\ reg[l].pc \in {"keys", "mint", "offer"} => Age(l) = 0
  BY DEF FreshInv
<1> QED BY <1>1, <1>2

LEMMA OffersPolls ==
    ASSUME TypeOK, NEW l \in Launchers, NEW next \in {"wait", "parked", "answer"},
           Offers(l, next)
    PROVE  /\ poll'[l].pc \in {"answer", next}
           /\ poll'[l].pc = "parked" => poll'[l].left = LongPollMax
           /\ \A m \in Launchers : m # l => poll'[m] = poll[m]
<1>1. PICK again, new \in SUBSET Jobs :
        poll' = [poll EXCEPT ![l] =
             IF again \cup new # {} \/ next = "answer"
               THEN [NoPoll EXCEPT !.pc = "answer", !.offers = again \cup new]
               ELSE [@ EXCEPT !.pc = next,
                              !.left = IF next = "parked" THEN LongPollMax ELSE 0]]
  BY DEF Offers
<1>2. poll[l] \in Poll
  BY DEF TypeOK
<1>3. poll'[l] = IF again \cup new # {} \/ next = "answer"
               THEN [NoPoll EXCEPT !.pc = "answer", !.offers = again \cup new]
               ELSE [poll[l] EXCEPT !.pc = next,
                              !.left = IF next = "parked" THEN LongPollMax ELSE 0]
  BY <1>1 DEF TypeOK
<1>4. CASE again \cup new # {} \/ next = "answer"
  BY <1>1, <1>3, <1>4 DEF NoPoll, TypeOK
<1>5. CASE ~(again \cup new # {} \/ next = "answer")
  <2>1. /\ poll'[l].pc = next
        /\ poll'[l].left = IF next = "parked" THEN LongPollMax ELSE 0
    BY <1>2, <1>3, <1>5 DEF Poll
  <2> QED BY <1>1, <2>1 DEF TypeOK
<1> QED BY <1>4, <1>5

LEMMA TickKeepsFresh == TypeOK /\ FreshInv /\ Tick => FreshInv'
<1> SUFFICES ASSUME TypeOK, FreshInv, Tick, NEW l \in Launchers
    PROVE  /\ proc'[l].pc = "up" =>
                 runner'[RunnerOf[l]].age + proc'[l].left <= ClaimMax
           /\ proc'[l].pc = "calling" => poll'[l].pc # "none"
           /\ poll'[l].pc \in {"wait", "second", "answer"} =>
                 runner'[RunnerOf[l]].age = 0
           /\ poll'[l].pc = "parked" =>
                 runner'[RunnerOf[l]].age + poll'[l].left <= LongPollMax
           /\ reg'[l].pc \in {"keys", "mint", "offer"} =>
                 runner'[RunnerOf[l]].age = 0
  BY DEF FreshInv, Age
<1>1. /\ RunnerOf[l] \in Runners /\ Age(l) \in Nat
      /\ proc[l] \in Process /\ poll[l] \in Poll
      /\ proc[l].left \in Nat /\ poll[l].left \in Nat
      /\ LongPollMax \in Nat /\ ClaimMax \in Nat
  BY ConstantsAssumption DEF TypeOK, RunnerRow, Process, Poll, Age
<1>2. runner'[RunnerOf[l]].age \in {Age(l), Age(l) + 1}
  <2>1. runner[RunnerOf[l]] \in RunnerRow
    BY <1>1 DEF TypeOK
  <2>2. [runner[RunnerOf[l]] EXCEPT !.age = @ + 1].age = Age(l) + 1
    BY <2>1 DEF RunnerRow, Age
  <2> QED BY <1>1, <2>2 DEF Tick, Age, TypeOK
<1>3. poll'[l].pc = poll[l].pc /\ poll[l].pc \in {"none", "parked"}
  BY <1>1 DEF Tick, Poll
<1>4. poll[l].pc = "parked" => poll'[l].left = poll[l].left - 1
  BY <1>1 DEF Tick, Poll
<1>5. proc'[l].pc = proc[l].pc
  BY <1>1 DEF Tick, Process
<1>6. proc[l].pc = "up" => proc'[l].left = proc[l].left - 1
  BY <1>1 DEF Tick, Process
<1>7. reg'[l].pc = "none"
  BY DEF Tick
<1> QED BY <1>1, <1>2, <1>3, <1>4, <1>5, <1>6, <1>7 DEF FreshInv

LEMMA RegisteringKeepsFresh ==
    ASSUME TypeOK, FreshInv, NEW l \in Launchers, Start(l) \/ Registering(l)
    PROVE  FreshInv'
<1>0. /\ RunnerOf[l] \in Runners /\ proc[l] \in Process /\ reg[l] \in Registration
  BY ConstantsAssumption DEF TypeOK
<1>1. CASE Start(l)
  <2>1. /\ UNCHANGED <<runner, poll>>
        /\ proc'[l].pc = "registering" /\ reg'[l].pc = "row"
        /\ \A m \in Launchers : m # l => proc'[m] = proc[m] /\ reg'[m] = reg[m]
    BY <1>1, <1>0 DEF Start, Step, TypeOK, Process, Registration
  <2> QED BY <2>1, AgesDropKeepsFresh DEF AgesDrop, FreshInv
<1>2. CASE RegisterRow(l)
  <2>1. /\ UNCHANGED <<proc, poll>>
        /\ runner'[RunnerOf[l]].age = 0
        /\ \A n \in Runners : n # RunnerOf[l] => runner'[n] = runner[n]
        /\ \A m \in Launchers : m # l => reg'[m] = reg[m]
    BY <1>2, <1>0 DEF RegisterRow, TypeOK
  <2> QED BY <2>1, AgesDropKeepsFresh DEF AgesDrop, FreshInv
<1>3. CASE RegisterKeys(l) \/ RegisterMint(l)
  <2>1. /\ UNCHANGED <<runner, proc, poll>>
        /\ reg[l].pc \in {"keys", "mint"}
        /\ \A m \in Launchers : m # l => reg'[m] = reg[m]
    BY <1>3, <1>0 DEF RegisterKeys, RegisterMint, Step, TypeOK
  <2> QED BY <2>1, AgesDropKeepsFresh DEF AgesDrop, FreshInv
<1>5. CASE RegisterFails(l)
  <2>1. /\ UNCHANGED poll /\ proc'[l].pc = "gone" /\ reg'[l].pc = "none"
        /\ \A m \in Launchers : m # l => proc'[m] = proc[m] /\ reg'[m] = reg[m]
    BY <1>5, <1>0 DEF RegisterFails, TypeOK, NoReg, Gone, Idle
  <2>2. AgesDrop
    BY <1>5, <1>0 DEF RegisterFails, AgesDrop, TypeOK, NoRow
  <2> QED BY <2>1, <2>2, AgesDropKeepsFresh DEF FreshInv
<1>6. CASE RegisterAnswer(l)
  <2>0. PICK again, new \in SUBSET Jobs :
          proc' = IF proc[l].pc = "registering"
                       THEN [proc EXCEPT ![l] = Told(l, again \cup new, FALSE)]
                       ELSE proc
    BY <1>6 DEF RegisterAnswer
  <2>1. \/ UNCHANGED proc
        \/ /\ proc'[l].pc = "up" /\ proc'[l].left = ClaimMax
           /\ \A m \in Launchers : m # l => proc'[m] = proc[m]
    BY <2>0, <1>0 DEF Told, Process, TypeOK
  <2>2. /\ UNCHANGED <<runner, poll>> /\ reg[l].pc = "offer" /\ reg'[l].pc = "none"
        /\ \A m \in Launchers : m # l => reg'[m] = reg[m]
    BY <1>6, <1>0 DEF RegisterAnswer, NoReg, TypeOK
  <2>3. runner'[RunnerOf[l]].age = 0
    BY <2>2 DEF FreshInv, Age
  <2> QED BY <2>1, <2>2, <2>3, AgesDropKeepsFresh DEF AgesDrop, FreshInv
<1> QED BY <1>1, <1>2, <1>3, <1>5, <1>6 DEF Registering

LEMMA StampedAges ==
    ASSUME TypeOK, NEW l \in Launchers, runner' = Stamped(RunnerOf[l])
    PROVE  AgesDrop /\ runner'[RunnerOf[l]].age = 0
<1>1. RunnerOf[l] \in Runners /\ runner[RunnerOf[l]] \in RunnerRow
  BY ConstantsAssumption DEF TypeOK
<1>2. [runner[RunnerOf[l]] EXCEPT !.online = TRUE, !.age = 0].age = 0
  BY <1>1 DEF RunnerRow
<1> QED BY <1>1, <1>2 DEF Stamped, AgesDrop, TypeOK

LEMMA HeartbeatKeepsFresh ==
    ASSUME TypeOK, FreshInv, NEW l \in Launchers, Heartbeat(l)
    PROVE  FreshInv'
<1>1. AgesDrop /\ runner'[RunnerOf[l]].age = 0
  BY StampedAges DEF Heartbeat
<1>2. /\ proc'[l].pc = "calling" /\ UNCHANGED reg
      /\ \A m \in Launchers : m # l => proc'[m] = proc[m]
  <2>1. proc[l] \in Process
    BY DEF TypeOK
  <2>2. [proc[l] EXCEPT !.pc = "calling"].pc = "calling"
    BY <2>1 DEF Process
  <2> QED BY <2>2 DEF Heartbeat, TypeOK
<1>3. /\ poll'[l].pc \in {"answer", "wait"}
      /\ \A m \in Launchers : m # l => poll'[m] = poll[m]
  <2> DEFINE drain == runner[RunnerOf[l]].drain
  <2>1. CASE drain \/ Cardinality(Busy(l)) >= MaxJobs
    <3>1. poll' = [poll EXCEPT ![l] = [NoPoll EXCEPT !.pc = "answer", !.drain = drain]]
      BY <2>1 DEF Heartbeat
    <3> QED BY <3>1 DEF NoPoll, TypeOK
  <2>2. CASE ~(drain \/ Cardinality(Busy(l)) >= MaxJobs)
    <3>1. Offers(l, "wait")
      BY <2>2 DEF Heartbeat
    <3> QED BY <3>1, OffersPolls
  <2> QED BY <2>1, <2>2
<1> QED BY <1>1, <1>2, <1>3, AgesDropKeepsFresh DEF FreshInv

LEMMA PollingKeepsFresh ==
    ASSUME TypeOK, FreshInv, NEW l \in Launchers, Polling(l) \/ Refused(l)
    PROVE  FreshInv'
<1>0. /\ proc[l] \in Process /\ poll[l] \in Poll /\ RunnerOf[l] \in Runners
  BY ConstantsAssumption DEF TypeOK
<1>1. CASE Wait(l)
  <2>1. /\ UNCHANGED <<runner, proc, reg>>
        /\ poll[l].pc = "wait" /\ poll'[l].pc = "second"
        /\ \A m \in Launchers : m # l => poll'[m] = poll[m]
    BY <1>1, <1>0 DEF Wait, PollAt, TypeOK, Poll
  <2> QED BY <2>1, AgesDropKeepsFresh DEF AgesDrop, FreshInv
<1>2. CASE SecondQuery(l)
  <2>1. /\ UNCHANGED <<runner, proc, reg>> /\ poll[l].pc = "second"
        /\ Offers(l, "parked")
    BY <1>2 DEF SecondQuery
  <2>2. runner'[RunnerOf[l]].age = 0
    BY <2>1 DEF FreshInv, Age
  <2>3. /\ poll'[l].pc \in {"answer", "parked"}
        /\ poll'[l].pc = "parked" => poll'[l].left = LongPollMax
        /\ \A m \in Launchers : m # l => poll'[m] = poll[m]
    BY <2>1, OffersPolls
  <2> QED BY <2>1, <2>2, <2>3, AgesDropKeepsFresh DEF AgesDrop, FreshInv
<1>3. CASE Unpark(l)
  <2>1. /\ UNCHANGED <<proc, reg>> /\ Offers(l, "answer")
        /\ AgesDrop /\ runner'[RunnerOf[l]].age = 0
    BY <1>3, StampedAges DEF Unpark
  <2>2. /\ poll'[l].pc = "answer"
        /\ \A m \in Launchers : m # l => poll'[m] = poll[m]
    BY <2>1, OffersPolls
  <2> QED BY <2>1, <2>2, AgesDropKeepsFresh DEF FreshInv
<1>4. CASE Abandon(l)
  <2>1. /\ UNCHANGED <<runner, proc, reg>> /\ proc[l].pc # "calling"
        /\ poll'[l].pc = "none"
        /\ \A m \in Launchers : m # l => poll'[m] = poll[m]
    BY <1>4, <1>0 DEF Abandon, NoPoll, TypeOK
  <2> QED BY <2>1, AgesDropKeepsFresh DEF AgesDrop, FreshInv
<1>5. CASE Answer(l)
  <2>1. /\ UNCHANGED <<runner, reg>> /\ poll[l].pc = "answer"
        /\ poll'[l].pc = "none"
        /\ \A m \in Launchers : m # l => poll'[m] = poll[m]
    BY <1>5, <1>0 DEF Answer, NoPoll, TypeOK
  <2>2. \/ UNCHANGED proc /\ proc[l].pc # "calling"
        \/ /\ proc'[l].pc = "up" /\ proc'[l].left = ClaimMax
           /\ \A m \in Launchers : m # l => proc'[m] = proc[m]
    <3>1. \A offers, drain : /\ Told(l, offers, drain).pc = "up"
                             /\ Told(l, offers, drain).left = ClaimMax
      BY <1>0 DEF Told, Process
    <3>2. \/ UNCHANGED proc /\ proc[l].pc # "calling"
          \/ \E offers, drain : proc' = [proc EXCEPT ![l] = Told(l, offers, drain)]
      BY <1>5 DEF Answer
    <3> QED BY <3>1, <3>2 DEF TypeOK
  <2>3. runner'[RunnerOf[l]].age = 0
    BY <2>1 DEF FreshInv, Age
  <2> QED BY <2>1, <2>2, <2>3, AgesDropKeepsFresh DEF AgesDrop, FreshInv
<1>6. CASE Refused(l)
  <2>1. /\ UNCHANGED <<runner, poll, reg>> /\ proc'[l].pc = "gone"
        /\ \A m \in Launchers : m # l => proc'[m] = proc[m]
    BY <1>6, <1>0 DEF Refused, Gone, Idle, TypeOK
  <2> QED BY <2>1, AgesDropKeepsFresh DEF AgesDrop, FreshInv
<1> QED BY <1>1, <1>2, <1>3, <1>4, <1>5, <1>6 DEF Polling

(* No other step stamps anything but to no age, or moves a process, a        *)
(* heartbeat or a registration on.                                         *)
LEMMA OthersKeepFresh ==
    ASSUME TypeOK, FreshInv, AgesDrop, UNCHANGED reg,
           \A l \in Launchers :
             /\ \/ proc'[l].pc = proc[l].pc /\ proc'[l].left = proc[l].left
                \/ proc'[l].pc \in {"leaving", "gone"}
             /\ poll'[l].pc = poll[l].pc /\ poll'[l].left = poll[l].left
    PROVE  FreshInv'
<1>1. \A l \in Launchers : proc'[l].pc = "calling" => poll'[l].pc # "none"
  BY DEF FreshInv
<1> QED BY <1>1, AgesDropKeepsFresh

LEMMA MissingPolls ==
    ASSUME TypeOK, NEW jobs, Missing(jobs), NEW l \in Launchers
    PROVE  /\ poll'[l].pc = poll[l].pc /\ poll'[l].left = poll[l].left
           /\ poll'[l].woken = poll[l].woken
           /\ poll[l].pc = "parked" => poll'[l].missed = poll[l].missed \cup jobs
<1>1. poll[l] \in Poll
  BY DEF TypeOK
<1> QED BY <1>1 DEF Missing, Poll

LEMMA DeliverPolls ==
    ASSUME TypeOK, Deliver, NEW l \in Launchers
    PROVE  /\ poll'[l].pc = poll[l].pc /\ poll'[l].left = poll[l].left
           /\ poll[l].pc = "parked" => poll'[l].woken
<1>1. poll[l] \in Poll
  BY DEF TypeOK
<1> QED BY <1>1 DEF Deliver, Waiters, Poll

LEMMA WakeKeepsFresh == TypeOK /\ FreshInv /\ (Deliver \/ LoseWake) => FreshInv'
<1> SUFFICES ASSUME TypeOK, FreshInv, Deliver \/ LoseWake PROVE FreshInv'
  OBVIOUS
<1>1. CASE Deliver
  <2>1. AgesDrop /\ UNCHANGED <<proc, reg>>
    BY <1>1 DEF Deliver, AgesDrop
  <2> QED BY <1>1, <2>1, DeliverPolls, OthersKeepFresh
<1>2. CASE LoseWake
  <2>1. AgesDrop /\ UNCHANGED <<proc, reg>>
        /\ Missing({j \in Jobs : job[j].status = "pending"})
    BY <1>2 DEF LoseWake, AgesDrop
  <2> QED BY <2>1, MissingPolls, OthersKeepFresh
<1> QED BY <1>1, <1>2

LEMMA UserKeepsFresh ==
    ASSUME TypeOK, FreshInv,
           \/ \E j \in Jobs : Launch(j) \/ Cancel(j)
           \/ \E n \in Runners : RequestDrain(n)
    PROVE  FreshInv'
<1>1. ASSUME NEW j \in Jobs, Launch(j) PROVE FreshInv'
  <2>1. AgesDrop /\ UNCHANGED <<proc, reg, poll>>
    BY <1>1 DEF Launch, AgesDrop
  <2> QED BY <2>1, OthersKeepFresh
<1>2. ASSUME NEW j \in Jobs, Cancel(j) PROVE FreshInv'
  <2>1. AgesDrop /\ UNCHANGED <<proc, reg>> /\ Missing(Free)
    BY <1>2 DEF Cancel, AgesDrop
  <2> QED BY <2>1, MissingPolls, OthersKeepFresh
<1>3. ASSUME NEW n \in Runners, RequestDrain(n) PROVE FreshInv'
  <2>1. AgesDrop
    BY <1>3 DEF RequestDrain, AgesDrop, TypeOK, RunnerRow
  <2>2. UNCHANGED <<proc, reg, poll>>
    BY <1>3 DEF RequestDrain
  <2> QED BY <2>1, <2>2, OthersKeepFresh
<1> QED BY <1>1, <1>2, <1>3

LEMMA ClaimsKeepPlace ==
    ASSUME NEW p \in Process, NEW j
    PROVE  /\ Untold(p, j).pc = p.pc /\ Untold(p, j).left = p.left
           /\ Claims(p, j).pc = p.pc /\ Claims(p, j).left = p.left
           /\ Unclaims(p, j).pc = p.pc /\ Unclaims(p, j).left = p.left
  BY DEF Process, Untold, Claims, Unclaims

LEMMA ClaimingKeepsFresh ==
    ASSUME TypeOK, FreshInv, NEW l \in Launchers, Claiming(l)
    PROVE  FreshInv'
<1>1. AgesDrop /\ UNCHANGED <<reg, poll>>
  BY DEF Claiming, JobStart, Discard, JobToken, AgesDrop, workVars
<1>2. proc[l] \in Process
  BY DEF TypeOK
<1>3. PICK j \in Jobs : proc' \in {[proc EXCEPT ![l] = Untold(proc[l], j)],
                                 [proc EXCEPT ![l] = Claims(proc[l], j)],
                                 [proc EXCEPT ![l] = Unclaims(proc[l], j)]}
  BY DEF Claiming, JobStart, Discard, JobToken
<1>4. \A m \in Launchers : proc'[m].pc = proc[m].pc /\ proc'[m].left = proc[m].left
  BY <1>2, <1>3, ClaimsKeepPlace DEF TypeOK
<1> QED BY <1>1, <1>4, OthersKeepFresh

LEMMA ReportingKeepsFresh == TypeOK /\ FreshInv /\ Reporting => FreshInv'
<1> SUFFICES ASSUME TypeOK, FreshInv, Reporting PROVE FreshInv'
  OBVIOUS
<1>1. UNCHANGED <<proc, reg, poll>>
  BY DEF Reporting, ReportRead, ReportWrite, ReportSettle
<1>2. AgesDrop
  <2>1. CASE UNCHANGED runner
    BY <2>1 DEF AgesDrop
  <2>2. CASE \E n : runner' = [runner EXCEPT ![n].online = TRUE]
    BY <2>2 DEF AgesDrop, TypeOK, RunnerRow
  <2> QED BY <2>1, <2>2 DEF Reporting, ReportRead, ReportWrite, ReportSettle
<1> QED BY <1>1, <1>2, OthersKeepFresh

LEMMA LeavingKeepsFresh ==
    ASSUME TypeOK, FreshInv, NEW l \in Launchers, Leaving(l) \/ Terminate(l) \/ Crash(l)
    PROVE  FreshInv'
<1>0. UNCHANGED <<reg, poll>> /\ proc[l] \in Process
  BY DEF Leaving, Deregister, DeregisterStatus, Terminate, Crash, workVars, TypeOK
<1>1. AgesDrop
  <2>1. CASE UNCHANGED runner
    BY <2>1 DEF AgesDrop
  <2>2. CASE DeregisterStatus(l)
    BY <2>2 DEF DeregisterStatus, AgesDrop, TypeOK, RunnerRow
  <2> QED BY <2>1, <2>2 DEF Leaving, Deregister, Terminate, Crash
<1>2. \A m \in Launchers :
        \/ proc'[m].pc = proc[m].pc /\ proc'[m].left = proc[m].left
        \/ proc'[m].pc \in {"leaving", "gone"}
  <2>1. [proc[l] EXCEPT !.pc = "leaving"].pc = "leaving" /\ Gone.pc = "gone"
    BY <1>0 DEF Process, Gone, Idle
  <2>2. /\ [proc[l] EXCEPT !.drain = TRUE].pc = proc[l].pc
        /\ [proc[l] EXCEPT !.drain = TRUE].left = proc[l].left
    BY <1>0 DEF Process
  <2>3. proc' \in {[proc EXCEPT ![l] = [proc[l] EXCEPT !.pc = "leaving"]],
                   [proc EXCEPT ![l] = Gone],
                   [proc EXCEPT ![l] = [proc[l] EXCEPT !.drain = TRUE]]}
    BY DEF Leaving, Deregister, DeregisterStatus, Terminate, Crash
  <2> QED BY <2>1, <2>2, <2>3 DEF TypeOK
<1> QED BY <1>0, <1>1, <1>2, OthersKeepFresh

LEMMA MonitoringKeepsFresh == TypeOK /\ FreshInv /\ Monitoring => FreshInv'
<1> SUFFICES ASSUME TypeOK, FreshInv, Monitoring PROVE FreshInv'
  OBVIOUS
<1>1. UNCHANGED <<proc, reg>>
  BY DEF Monitoring, MonitorMark, MonitorRelease, MonitorSettle, MonitorRevoke, workVars
<1>2. AgesDrop
  <2>1. CASE UNCHANGED runner
    BY <2>1 DEF AgesDrop
  <2>2. CASE MonitorMark
    BY <2>2 DEF MonitorMark, AgesDrop, TypeOK, RunnerRow
  <2> QED BY <2>1, <2>2 DEF Monitoring, MonitorRelease, MonitorSettle, MonitorRevoke
<1>3. UNCHANGED poll \/ \E jobs : Missing(jobs)
  BY DEF Monitoring, MonitorMark, MonitorRelease, MonitorSettle, MonitorRevoke, workVars
<1>4. \A l \in Launchers : poll'[l].pc = poll[l].pc /\ poll'[l].left = poll[l].left
  BY <1>3, MissingPolls
<1> QED BY <1>1, <1>2, <1>4, OthersKeepFresh

LEMMA InitFresh == Init => FreshInv
  BY DEF Init, FreshInv, Idle, NoPoll, NoReg

(* A launcher that is up, or waits for an answer, and whose token verifies   *)
(* is never silent for longer than OfflineAfter, though its heartbeats are  *)
(* held and its claims take their time (LiveIsFresh): the monitor marks and  *)
(* settles none that is there.                                             *)
THEOREM RunnerFleet_LiveIsFresh == Spec => []LiveIsFresh
<1>1. Init => FreshInv
  BY InitFresh
<1>2. TypeOK /\ FreshInv /\ [Next]_vars => FreshInv'
  <2>1. TypeOK /\ FreshInv /\ UNCHANGED vars => FreshInv'
    BY DEF FreshInv, Age, vars
  <2> QED BY <2>1, TickKeepsFresh, RegisteringKeepsFresh, HeartbeatKeepsFresh,
       PollingKeepsFresh, WakeKeepsFresh, UserKeepsFresh, ClaimingKeepsFresh,
       ReportingKeepsFresh, LeavingKeepsFresh, MonitoringKeepsFresh
    DEF Next
<1>3. TypeOK /\ FreshInv => LiveIsFresh
  BY FreshInvSuffices
<1> QED BY <1>1, <1>2, <1>3, RunnerFleet_TypeCorrect, PTL DEF Spec

-----------------------------------------------------------------------------
(* One execution.  A claim is taken of a pending job only, and a job that    *)
(* was claimed is never pending again.                                     *)

Taken(j) == \/ \E l \in Launchers : j \in proc[l].claimed
                     \/ \E e \in execs : e.job = j
ClaimedLeftQueue ==
    \A j \in Jobs : Taken(j) => job[j].status \notin {"absent", "pending"}
OneInv == ClaimedLeftQueue /\ OneExecution

(* A step that leaves claims and executors alone, or takes some away, keeps  *)
(* it when no job goes back to the queue.                                  *)
LEMMA FewerKeepOne ==
    ASSUME TypeOK, OneInv,
           \A l \in Launchers : proc'[l].claimed \subseteq proc[l].claimed,
           execs' \subseteq execs,
           \A j \in Jobs : job'[j].status \in {"absent", "pending"} =>
                              job[j].status \in {"absent", "pending"}
    PROVE  OneInv'
<1>1. ClaimedLeftQueue'
  BY DEF OneInv, ClaimedLeftQueue, Taken
<1>2. OneExecution'
  BY DEF OneInv, OneExecution
<1> QED BY <1>1, <1>2 DEF OneInv

LEMMA OffersKeepStatus ==
    ASSUME TypeOK, NEW l \in Launchers, NEW next, Offers(l, next)
    PROVE  \A j \in Jobs : job'[j].status = job[j].status
  BY QueryTyped DEF Offers

LEMMA ProcStep ==
    ASSUME TypeOK, NEW l \in Launchers, NEW p, p.claimed \subseteq proc[l].claimed,
           proc' = [proc EXCEPT ![l] = p]
    PROVE  \A m \in Launchers : proc'[m].claimed \subseteq proc[m].claimed
  BY DEF TypeOK

LEMMA RegisteringKeepsOne ==
    ASSUME TypeOK, OneInv, NEW l \in Launchers, Start(l) \/ Registering(l)
    PROVE  OneInv'
<1>0. proc[l] \in Process /\ UNCHANGED execs
  BY DEF TypeOK, Start, Registering, RegisterRow, RegisterKeys, RegisterMint,
     RegisterFails, RegisterAnswer, workVars
<1>1. \A j \in Jobs : job'[j].status = job[j].status
  BY QueryTyped DEF Start, Registering, RegisterRow, RegisterKeys, RegisterMint,
     RegisterFails, RegisterAnswer, workVars
<1>2. \A m \in Launchers : proc'[m].claimed \subseteq proc[m].claimed
  <2>1. \/ UNCHANGED proc
        \/ proc' = [proc EXCEPT ![l] = [proc[l] EXCEPT !.pc = "registering"]]
        \/ proc' = [proc EXCEPT ![l] = Gone]
        \/ \E offers : proc' = [proc EXCEPT ![l] = Told(l, offers, FALSE)]
    BY DEF Start, Registering, RegisterRow, RegisterKeys, RegisterMint,
       RegisterFails, RegisterAnswer
  <2>2. /\ [proc[l] EXCEPT !.pc = "registering"].claimed = proc[l].claimed
        /\ Gone.claimed = {}
        /\ \A offers : Told(l, offers, FALSE).claimed = proc[l].claimed
    BY <1>0 DEF Process, Gone, Idle, Told
  <2> QED BY <2>1, <2>2, ProcStep
<1> QED BY <1>0, <1>1, <1>2, FewerKeepOne

LEMMA HeartbeatKeepsOne ==
    ASSUME TypeOK, OneInv, NEW l \in Launchers,
           Heartbeat(l) \/ Polling(l) \/ Refused(l)
    PROVE  OneInv'
<1>0. proc[l] \in Process /\ UNCHANGED execs
  BY DEF TypeOK, Heartbeat, Polling, Refused, Wait, SecondQuery, Unpark, Abandon,
     Answer, workVars
<1>1. \A j \in Jobs : job'[j].status = job[j].status
  BY OffersKeepStatus DEF Heartbeat, Polling, Refused, Wait, SecondQuery, Unpark,
     Abandon, Answer, workVars
<1>2. \A m \in Launchers : proc'[m].claimed \subseteq proc[m].claimed
  <2>1. \/ UNCHANGED proc
        \/ proc' = [proc EXCEPT ![l] = [proc[l] EXCEPT !.pc = "calling"]]
        \/ proc' = [proc EXCEPT ![l] = Gone]
        \/ \E offers, drain : proc' = [proc EXCEPT ![l] = Told(l, offers, drain)]
    BY DEF Heartbeat, Polling, Refused, Wait, SecondQuery, Unpark, Abandon, Answer
  <2>2. /\ [proc[l] EXCEPT !.pc = "calling"].claimed = proc[l].claimed
        /\ Gone.claimed = {}
        /\ \A offers, drain : Told(l, offers, drain).claimed = proc[l].claimed
    BY <1>0 DEF Process, Gone, Idle, Told
  <2>3. CASE \E offers, drain : proc' = [proc EXCEPT ![l] = Told(l, offers, drain)]
    <3>1. PICK offers, drain : proc' = [proc EXCEPT ![l] = Told(l, offers, drain)]
      BY <2>3
    <3> QED BY <2>2, <3>1, ProcStep
  <2> QED BY <2>1, <2>2, <2>3, ProcStep
<1> QED BY <1>0, <1>1, <1>2, FewerKeepOne

LEMMA TickAndWakesKeepOne ==
    TypeOK /\ OneInv /\ (Tick \/ Deliver \/ LoseWake) => OneInv'
<1> SUFFICES ASSUME TypeOK, OneInv, Tick \/ Deliver \/ LoseWake PROVE OneInv'
  OBVIOUS
<1>1. UNCHANGED <<job, execs>>
  BY DEF Tick, Deliver, LoseWake, workVars
<1>2. \A m \in Launchers : proc'[m].claimed \subseteq proc[m].claimed
  <2>1. CASE UNCHANGED proc
    BY <2>1
  <2>2. CASE Tick
    <3>1. \A p \in Process : [p EXCEPT !.left = @ - 1].claimed = p.claimed
      BY DEF Process
    <3> QED BY <2>2, <3>1 DEF Tick, TypeOK
  <2> QED BY <2>1, <2>2 DEF Deliver, LoseWake
<1> QED BY <1>1, <1>2, FewerKeepOne

LEMMA UserKeepsOne ==
    ASSUME TypeOK, OneInv,
           \/ \E j \in Jobs : Launch(j) \/ Cancel(j)
           \/ \E n \in Runners : RequestDrain(n)
    PROVE  OneInv'
<1>1. UNCHANGED <<proc, execs>>
  BY DEF Launch, Cancel, RequestDrain, workVars
<1>2. \A j \in Jobs : job'[j].status \in {"absent", "pending"} =>
                          job[j].status \in {"absent", "pending"}
  BY DEF Launch, Cancel, RequestDrain, workVars, TypeOK, JobRow
<1> QED BY <1>1, <1>2, FewerKeepOne

LEMMA ClaimingKeepsOne ==
    ASSUME TypeOK, OneInv, NEW l \in Launchers, Claiming(l)
    PROVE  OneInv'
<1>0. PICK j \in Jobs : JobStart(l, j) \/ Discard(l, j) \/ JobToken(l, j)
  BY DEF Claiming
<1>0a. proc[l] \in Process
  BY DEF TypeOK
<1>0b. /\ Untold(proc[l], j).claimed = proc[l].claimed
       /\ Claims(proc[l], j).claimed = proc[l].claimed \cup {j}
       /\ Unclaims(proc[l], j).claimed = proc[l].claimed \ {j}
  BY <1>0a DEF Process, Untold, Claims, Unclaims
<1>1. CASE JobStart(l, j) /\ Claimable(l, j)
  <2>1. /\ job' = [job EXCEPT ![j] = [status |-> "running", runner |-> RunnerOf[l]]]
        /\ proc' = [proc EXCEPT ![l] = Claims(proc[l], j)]
        /\ UNCHANGED execs
    BY <1>1 DEF JobStart
  <2>2. ~Taken(j)
    BY <1>1 DEF Claimable, OneInv, ClaimedLeftQueue
  <2>3. /\ proc'[l].claimed = proc[l].claimed \cup {j}
        /\ \A m \in Launchers : m # l => proc'[m] = proc[m]
        /\ job'[j].status = "running"
        /\ \A i \in Jobs : i # j => job'[i] = job[i]
    BY <2>1, <1>0b DEF TypeOK
  <2>4. ClaimedLeftQueue'
    BY <2>1, <2>3 DEF OneInv, ClaimedLeftQueue, Taken
  <2>5. OneExecution'
    BY <2>1, <2>2, <2>3 DEF OneInv, OneExecution, Taken
  <2> QED BY <2>4, <2>5 DEF OneInv
<1>2. CASE (JobStart(l, j) /\ ~Claimable(l, j)) \/ Discard(l, j)
  <2>1. /\ proc' = [proc EXCEPT ![l] = Untold(proc[l], j)]
        /\ UNCHANGED <<job, execs>>
    BY <1>2 DEF JobStart, Discard, workVars
  <2>2. \A m \in Launchers : proc'[m].claimed \subseteq proc[m].claimed
    BY <2>1, <1>0b DEF TypeOK
  <2> QED BY <2>1, <2>2, FewerKeepOne
<1>3. CASE JobToken(l, j)
  <2>1. /\ j \in proc[l].claimed /\ UNCHANGED job
        /\ proc' = [proc EXCEPT ![l] = Unclaims(proc[l], j)]
        /\ execs' = execs \cup {[job |-> j, by |-> l]} \/ UNCHANGED execs
    BY <1>3 DEF JobToken
  <2>2. /\ proc'[l].claimed = proc[l].claimed \ {j}
        /\ \A m \in Launchers : m # l => proc'[m] = proc[m]
    BY <2>1, <1>0b DEF TypeOK
  <2>3. /\ \A e \in execs : e.job # j
        /\ \A m \in Launchers : m # l => j \notin proc[m].claimed
    BY <2>1 DEF OneInv, OneExecution
  <2>4. ClaimedLeftQueue'
    BY <2>1, <2>2 DEF OneInv, ClaimedLeftQueue, Taken
  <2>5. CASE UNCHANGED execs
    BY <2>1, <2>2, <2>4, <2>5 DEF OneInv, OneExecution
  <2>6. CASE execs' = execs \cup {[job |-> j, by |-> l]}
    <3>1. \A i \in Jobs : \/ \A e \in execs' : e.job # i
                          \/ \A m \in Launchers : i \notin proc'[m].claimed
      BY <2>2, <2>3, <2>6 DEF OneInv, OneExecution
    <3>2. \A e, f \in execs' : e.job = f.job => e = f
      BY <2>3, <2>6 DEF OneInv, OneExecution
    <3>3. \A k, m \in Launchers :
            k # m => proc'[k].claimed \cap proc'[m].claimed = {}
      BY <2>2 DEF OneInv, OneExecution
    <3> QED BY <2>4, <3>1, <3>2, <3>3 DEF OneInv, OneExecution
  <2> QED BY <2>1, <2>5, <2>6
<1> QED BY <1>0, <1>1, <1>2, <1>3

LEMMA ReportingKeepsOne == TypeOK /\ OneInv /\ Reporting => OneInv'
<1> SUFFICES ASSUME TypeOK, OneInv, Reporting PROVE OneInv'
  OBVIOUS
<1>1. UNCHANGED proc /\ execs' \subseteq execs
  BY DEF Reporting, ReportRead, ReportWrite, ReportSettle
<1>2. \A j \in Jobs : job'[j].status \in {"absent", "pending"} =>
                          job[j].status \in {"absent", "pending"}
  <2>1. CASE UNCHANGED job
    BY <2>1
  <2>2. ASSUME NEW q \in reports, ReportWrite(q)
        PROVE  \A j \in Jobs : job'[j].status \in {"absent", "pending"} =>
                                  job[j].status \in {"absent", "pending"}
    <3>1. \/ UNCHANGED job
          \/ \E outcome \in Finished :
               job' = [job EXCEPT ![q.job] = [@ EXCEPT !.status = outcome]]
      BY <2>2 DEF ReportWrite
    <3> QED BY <3>1 DEF TypeOK, JobRow, Finished
  <2> QED BY <2>1, <2>2 DEF Reporting, ReportRead, ReportSettle
<1> QED BY <1>1, <1>2, FewerKeepOne

LEMMA LeavingKeepsOne ==
    ASSUME TypeOK, OneInv, NEW l \in Launchers,
           Leaving(l) \/ Terminate(l) \/ Crash(l)
    PROVE  OneInv'
<1>0. proc[l] \in Process /\ UNCHANGED job
  BY DEF Leaving, Deregister, DeregisterStatus, Terminate, Crash, workVars, TypeOK
<1>1. execs' \subseteq execs
  BY DEF Leaving, Deregister, DeregisterStatus, Terminate, Crash, workVars
<1>2. \A m \in Launchers : proc'[m].claimed \subseteq proc[m].claimed
  <2>1. /\ [proc[l] EXCEPT !.pc = "leaving"].claimed = proc[l].claimed
        /\ [proc[l] EXCEPT !.drain = TRUE].claimed = proc[l].claimed
        /\ Gone.claimed = {}
    BY <1>0 DEF Process, Gone, Idle
  <2>2. proc' \in {[proc EXCEPT ![l] = [proc[l] EXCEPT !.pc = "leaving"]],
                   [proc EXCEPT ![l] = Gone],
                   [proc EXCEPT ![l] = [proc[l] EXCEPT !.drain = TRUE]]}
    BY DEF Leaving, Deregister, DeregisterStatus, Terminate, Crash
  <2> QED BY <2>1, <2>2 DEF TypeOK
<1> QED BY <1>0, <1>1, <1>2, FewerKeepOne

LEMMA MonitoringKeepsOne == TypeOK /\ OneInv /\ Monitoring => OneInv'
<1> SUFFICES ASSUME TypeOK, OneInv, Monitoring PROVE OneInv'
  OBVIOUS
<1>1. UNCHANGED <<proc, execs>>
  BY DEF Monitoring, MonitorMark, MonitorRelease, MonitorSettle, MonitorRevoke, workVars
<1>2. \A j \in Jobs : job'[j].status \in {"absent", "pending"} =>
                          job[j].status \in {"absent", "pending"}
  BY DEF Monitoring, MonitorMark, MonitorRelease, MonitorSettle, MonitorRevoke,
     workVars, TypeOK, JobRow
<1> QED BY <1>1, <1>2, FewerKeepOne

(* An Ansible job is claimed, and executed, once, whichever offers of it     *)
(* were lost, made again or told to several processes (OneExecution).      *)
THEOREM RunnerFleet_OneExecution == Spec => []OneExecution
<1>1. Init => OneInv
  BY DEF Init, OneInv, ClaimedLeftQueue, OneExecution, Taken, Idle
<1>2. TypeOK /\ OneInv /\ [Next]_vars => OneInv'
  <2>1. TypeOK /\ OneInv /\ UNCHANGED vars => OneInv'
    BY DEF OneInv, ClaimedLeftQueue, OneExecution, Taken, vars
  <2> QED BY <2>1, RegisteringKeepsOne, HeartbeatKeepsOne, TickAndWakesKeepOne,
       UserKeepsOne, ClaimingKeepsOne, ReportingKeepsOne, LeavingKeepsOne,
       MonitoringKeepsOne
    DEF Next
<1>3. OneInv => OneExecution
  BY DEF OneInv
<1> QED BY <1>1, <1>2, <1>3, RunnerFleet_TypeCorrect, PTL DEF Spec

-----------------------------------------------------------------------------
(* A canceled job stays canceled unless a report read it before (CancelStands): *)
(* the claim, the monitor and the users' steps change pending and running    *)
(* jobs only, and a report that read it canceled writes no status.          *)
THEOREM RunnerFleet_CancelStands == Spec => CancelStands
<1> DEFINE Stands == \A j \in Jobs :
                       (/\ job[j].status = "canceled"
                        /\ \A q \in reports : q.job = j /\ q.pc = "write" => q.canceled)
                       => job'[j].status = "canceled"
<1>1. TypeOK /\ [Next]_vars => [Stands]_vars
  <2> SUFFICES ASSUME TypeOK, Next, NEW j \in Jobs,
                      job[j].status = "canceled",
                      \A q \in reports : q.job = j /\ q.pc = "write" => q.canceled
               PROVE  job'[j].status = "canceled"
    OBVIOUS
  <2>1. CASE \A i \in Jobs : job'[i].status = job[i].status
    BY <2>1
  <2>2. ASSUME NEW l \in Launchers,
               Start(l) \/ Registering(l) \/ Heartbeat(l) \/ Refused(l) \/ Polling(l)
                 \/ Leaving(l) \/ Terminate(l) \/ Crash(l)
        PROVE  job'[j].status = job[j].status
    BY <2>2, QueryTyped, OffersKeepStatus
    DEF Start, Registering, RegisterRow, RegisterKeys, RegisterMint, RegisterFails,
        RegisterAnswer, Heartbeat, Refused, Polling, Wait, SecondQuery, Unpark, Abandon,
        Answer, Leaving, Deregister, DeregisterStatus, Terminate, Crash, workVars
  <2>3. ASSUME NEW l \in Launchers, Claiming(l) PROVE job'[j].status = "canceled"
    BY <2>3 DEF Claiming, JobStart, Claimable, Discard, JobToken, workVars, TypeOK
  <2>4. ASSUME NEW i \in Jobs, Launch(i) \/ Cancel(i)
        PROVE  job'[j].status = "canceled"
    BY <2>4 DEF Launch, Cancel, TypeOK
  <2>5. CASE Reporting
    <3>1. ASSUME NEW q \in reports, ReportWrite(q) PROVE job'[j].status = "canceled"
      <4>1. CASE Writes(q)
        <5>1. q.job # j /\ q.job \in Jobs
          BY <3>1, <4>1 DEF Writes, ReportWrite, TypeOK, Report
        <5> QED BY <3>1, <5>1 DEF ReportWrite, TypeOK
      <4>2. CASE ~Writes(q)
        BY <3>1, <4>2 DEF ReportWrite
      <4> QED BY <4>1, <4>2
    <3> QED BY <2>5, <3>1 DEF Reporting, ReportRead, ReportSettle
  <2>6. CASE Monitoring
    BY <2>6 DEF Monitoring, MonitorMark, MonitorRelease, MonitorSettle, MonitorRevoke,
       Lost, Of, workVars, TypeOK, JobRow
  <2>7. CASE Tick \/ Deliver \/ LoseWake \/ \E n \in Runners : RequestDrain(n)
    BY <2>7 DEF Tick, Deliver, LoseWake, RequestDrain, workVars
  <2> QED BY <2>2, <2>3, <2>4, <2>5, <2>6, <2>7 DEF Next
<1> QED BY <1>1, RunnerFleet_TypeCorrect, PTL DEF Spec, CancelStands

-----------------------------------------------------------------------------
(* Wake-ups.                                                               *)

LEMMA FewerHaveCapacity ==
    ASSUME NEW A, NEW B \in SUBSET Jobs, A \subseteq B, Cardinality(B) < MaxJobs
    PROVE  Cardinality(A) < MaxJobs
<1>1. IsFiniteSet(B)
  BY ConstantsAssumption, FS_Subset
<1>2. IsFiniteSet(A) /\ Cardinality(A) <= Cardinality(B)
  BY <1>1, FS_Subset
<1>3. Cardinality(A) \in Nat /\ Cardinality(B) \in Nat
  BY <1>1, <1>2, FS_CardinalityType
<1> QED BY <1>2, <1>3, ConstantsAssumption

(* No runner is offered more when no job becomes free, what it holds was     *)
(* offered to it, and what is outstanding stays so.                         *)
LEMMA OfferedNoMore ==
    ASSUME NEW n \in Runners, Free' \subseteq Free, Held(n)' \subseteq Offerable(n),
           Outstanding(n) \subseteq Outstanding(n)'
    PROVE  Offerable(n)' \subseteq Offerable(n)
<1>1. HasCapacity(n)' => HasCapacity(n)
  <2>1. Outstanding(n)' \in SUBSET Jobs
    BY DEF Outstanding
  <2> QED BY <2>1, FewerHaveCapacity DEF HasCapacity
<1> QED BY <1>1 DEF Offerable

LEMMA QueryOffersNoMore ==
    ASSUME TypeOK, NEW m \in Runners, NEW again, NEW new, Query(m, again, new),
           NEW n \in Runners
    PROVE  Offerable(n)' \subseteq Offerable(n)
<1>1. /\ new \subseteq Free
      /\ new # {} => HasCapacity(m)
      /\ job' = [j \in Jobs |-> IF j \in new THEN [job[j] EXCEPT !.runner = m]
                               ELSE job[j]]
  BY DEF Query
<1>2. \A j \in Jobs :
        /\ job'[j].status = job[j].status
        /\ j \in new => job'[j].runner = m
        /\ j \notin new => job'[j] = job[j]
  BY <1>1 DEF TypeOK, JobRow
<1>3. n # NoRunner /\ m # NoRunner
  BY ConstantsAssumption
<1>4. Free' \subseteq Free
  BY <1>2, <1>3 DEF Free
<1>5. Held(n)' \subseteq Offerable(n)
  BY <1>1, <1>2 DEF Held, Offerable
<1>6. Outstanding(n) \subseteq Outstanding(n)'
  BY <1>1, <1>2, <1>3 DEF Outstanding, Free
<1> QED BY <1>4, <1>5, <1>6, OfferedNoMore

(* What must hold of one launcher, and a step that offers its runner no more *)
(* than before but what it then misses.                                    *)
Alert(l) ==
    poll[l].pc = "parked" /\ ~poll[l].woken =>
        \/ Offerable(RunnerOf[l]) \subseteq poll[l].missed
        \/ woken
        \/ \E q \in reports : q.pc = "settle"

LEMMA NoMoreKeepsTold ==
    ASSUME NEW l \in Launchers, Alert(l),
           /\ poll'[l].pc = "parked" /\ ~poll'[l].woken =>
                /\ poll[l].pc = "parked" /\ ~poll[l].woken
                /\ poll[l].missed \subseteq poll'[l].missed
                /\ Offerable(RunnerOf[l])' \subseteq Offerable(RunnerOf[l]) \cup poll'[l].missed
           /\ woken => woken'
           /\ \A q \in reports : q.pc = "settle" => q \in reports'
    PROVE  Alert(l)'
  BY DEF Alert

(* Steps that change no job, report or published wake-up.                  *)
LEMMA QuietKeepsAlert ==
    ASSUME NoMissedWakeup, UNCHANGED <<job, woken>>, reports \subseteq reports',
           NEW l \in Launchers,
           poll'[l].pc = "parked" /\ ~poll'[l].woken =>
             /\ poll[l].pc = "parked" /\ ~poll[l].woken
             /\ poll[l].missed \subseteq poll'[l].missed
    PROVE  Alert(l)'
<1>1. Alert(l)
  BY DEF NoMissedWakeup, Alert
<1>2. Offerable(RunnerOf[l])' = Offerable(RunnerOf[l])
  BY DEF Offerable, Held, HasCapacity, Outstanding, Free
<1> QED BY <1>1, <1>2, NoMoreKeepsTold

LEMMA TickKeepsAlert ==
    ASSUME TypeOK, NoMissedWakeup, Tick, NEW l \in Launchers
    PROVE  Alert(l)'
<1>1. poll[l] \in Poll
  BY DEF TypeOK
<1>2. /\ [poll[l] EXCEPT !.left = @ - 1].pc = poll[l].pc
      /\ [poll[l] EXCEPT !.left = @ - 1].woken = poll[l].woken
      /\ [poll[l] EXCEPT !.left = @ - 1].missed = poll[l].missed
  BY <1>1 DEF Poll
<1>3. /\ poll'[l].pc = poll[l].pc /\ poll'[l].woken = poll[l].woken
      /\ poll'[l].missed = poll[l].missed
  BY <1>2 DEF Tick
<1> QED BY <1>3, QuietKeepsAlert DEF Tick, workVars

LEMMA RegisteringKeepsAlert ==
    ASSUME TypeOK, NoMissedWakeup, NEW m \in Launchers, Start(m) \/ Registering(m),
           NEW l \in Launchers
    PROVE  Alert(l)'
<1>1. UNCHANGED <<poll, woken, reports>>
  BY DEF Start, Registering, RegisterRow, RegisterKeys, RegisterMint,
     RegisterFails, RegisterAnswer, workVars
<1>2. CASE UNCHANGED job
  BY <1>1, <1>2, QuietKeepsAlert
<1>3. CASE \E again, new : Query(RunnerOf[m], again, new)
  <2>1. RunnerOf[m] \in Runners /\ RunnerOf[l] \in Runners
    BY ConstantsAssumption
  <2>2. Offerable(RunnerOf[l])' \subseteq Offerable(RunnerOf[l])
    BY <1>3, <2>1, QueryOffersNoMore
  <2>3. Alert(l)
    BY DEF NoMissedWakeup, Alert
  <2> QED BY <1>1, <2>2, <2>3, NoMoreKeepsTold
<1> QED BY <1>2, <1>3 DEF Start, Registering, RegisterRow, RegisterKeys,
     RegisterMint, RegisterFails, RegisterAnswer, workVars

(* An offers query that finds nothing to offer: that is when a heartbeat     *)
(* parks.                                                                  *)
LEMMA NothingOffered ==
    ASSUME TypeOK, NEW m \in Runners, Query(m, {}, {})
    PROVE  Offerable(m)' = {}
<1>1. job' = job
  BY DEF Query, TypeOK
<1>2. Held(m) = {} /\ (HasCapacity(m) => Free = {})
  BY DEF Query
<1>3. Offerable(m) = {}
  BY <1>2 DEF Offerable
<1> QED BY <1>1, <1>3 DEF Offerable, Held, HasCapacity, Outstanding, Free

LEMMA OffersKeepAlert ==
    ASSUME TypeOK, NoMissedWakeup, NEW m \in Launchers,
           NEW next \in {"wait", "parked", "answer"}, Offers(m, next),
           UNCHANGED <<woken, reports>>, NEW l \in Launchers
    PROVE  Alert(l)'
<1>0. RunnerOf[m] \in Runners /\ RunnerOf[l] \in Runners /\ poll[m] \in Poll
  BY ConstantsAssumption DEF TypeOK
<1>1. PICK again, new \in SUBSET Jobs :
        /\ Query(RunnerOf[m], again, new)
        /\ poll' = [poll EXCEPT ![m] =
             IF again \cup new # {} \/ next = "answer"
               THEN [NoPoll EXCEPT !.pc = "answer", !.offers = again \cup new]
               ELSE [@ EXCEPT !.pc = next,
                              !.left = IF next = "parked" THEN LongPollMax ELSE 0]]
  BY DEF Offers
<1>2. CASE l # m
  <2>1. Offerable(RunnerOf[l])' \subseteq Offerable(RunnerOf[l])
    BY <1>0, <1>1, QueryOffersNoMore
  <2>2. poll'[l] = poll[l]
    BY <1>1, <1>2 DEF TypeOK
  <2>3. Alert(l)
    BY DEF NoMissedWakeup, Alert
  <2> QED BY <2>1, <2>2, <2>3, NoMoreKeepsTold
<1>3. CASE l = m /\ (again \cup new # {} \/ next = "answer")
  <2>1. poll'[l] = [NoPoll EXCEPT !.pc = "answer", !.offers = again \cup new]
    BY <1>1, <1>3 DEF TypeOK
  <2>2. poll'[l].pc = "answer"
    BY <2>1 DEF NoPoll
  <2> QED BY <2>2 DEF Alert
<1>4. CASE l = m /\ again \cup new = {}
  <2>1. Query(RunnerOf[l], {}, {})
    BY <1>1, <1>4
  <2>2. Offerable(RunnerOf[l])' = {}
    BY <1>0, <2>1, NothingOffered
  <2> QED BY <2>2 DEF Alert
<1> QED BY <1>2, <1>3, <1>4

LEMMA OwnPollKeepsAlert ==
    ASSUME TypeOK, NoMissedWakeup, NEW m \in Launchers, poll'[m].pc # "parked",
           \A k \in Launchers : k # m => poll'[k] = poll[k],
           UNCHANGED job, UNCHANGED <<woken, reports>>, NEW l \in Launchers
    PROVE  Alert(l)'
<1>1. poll'[l].pc = "parked" => poll'[l] = poll[l]
  OBVIOUS
<1> QED BY <1>1, QuietKeepsAlert

LEMMA HeartbeatKeepsAlert ==
    ASSUME TypeOK, NoMissedWakeup, NEW m \in Launchers,
           Heartbeat(m) \/ Polling(m) \/ Refused(m), NEW l \in Launchers
    PROVE  Alert(l)'
<1>0. poll[m] \in Poll
  BY DEF TypeOK
<1>1. UNCHANGED <<woken, reports>>
  BY DEF Heartbeat, Polling, Refused, Wait, SecondQuery, Unpark, Abandon, Answer, workVars
<1>2. CASE \E next \in {"wait", "parked", "answer"} : Offers(m, next)
  BY <1>1, <1>2, OffersKeepAlert
<1>4. CASE Wait(m)
  <2>1. [poll[m] EXCEPT !.pc = "second"].pc = "second"
    BY <1>0 DEF Poll
  <2>2. /\ poll' = [poll EXCEPT ![m] = [poll[m] EXCEPT !.pc = "second"]]
        /\ UNCHANGED job
    BY <1>4 DEF Wait, PollAt, workVars
  <2>3. /\ poll'[m].pc = "second"
        /\ \A k \in Launchers : k # m => poll'[k] = poll[k]
    BY <2>1, <2>2 DEF TypeOK
  <2> QED BY <1>1, <2>2, <2>3, OwnPollKeepsAlert
<1>5. CASE Abandon(m) \/ Answer(m)
  <2>1. NoPoll.pc = "none"
    BY DEF NoPoll
  <2>2. poll' = [poll EXCEPT ![m] = NoPoll] /\ UNCHANGED job
    BY <1>5 DEF Abandon, Answer, workVars
  <2>3. /\ poll'[m].pc = "none"
        /\ \A k \in Launchers : k # m => poll'[k] = poll[k]
    BY <2>1, <2>2 DEF TypeOK
  <2> QED BY <1>1, <2>2, <2>3, OwnPollKeepsAlert
<1>6. CASE Refused(m)
  BY <1>6, <1>1, QuietKeepsAlert DEF Refused, workVars
<1>7. CASE SecondQuery(m) \/ Unpark(m)
  BY <1>2, <1>7 DEF SecondQuery, Unpark
<1>8. CASE Heartbeat(m)
  <2> DEFINE drain == runner[RunnerOf[m]].drain
  <2>1. CASE drain \/ Cardinality(Busy(m)) >= MaxJobs
    <3>1. [NoPoll EXCEPT !.pc = "answer", !.drain = drain].pc = "answer"
      BY DEF NoPoll
    <3>2. /\ poll' = [poll EXCEPT ![m] = [NoPoll EXCEPT !.pc = "answer", !.drain = drain]]
          /\ UNCHANGED job
      BY <1>8, <2>1 DEF Heartbeat
    <3>3. /\ poll'[m].pc = "answer"
          /\ \A k \in Launchers : k # m => poll'[k] = poll[k]
      BY <3>1, <3>2 DEF TypeOK
    <3> QED BY <1>1, <3>2, <3>3, OwnPollKeepsAlert
  <2>2. CASE ~(drain \/ Cardinality(Busy(m)) >= MaxJobs)
    BY <1>2, <1>8, <2>2 DEF Heartbeat
  <2> QED BY <2>1, <2>2
<1> QED BY <1>4, <1>5, <1>6, <1>7, <1>8 DEF Polling

LEMMA WakeKeepsAlert ==
    ASSUME TypeOK, NoMissedWakeup, Deliver \/ LoseWake, NEW l \in Launchers
    PROVE  Alert(l)'
<1>1. CASE Deliver
  <2>1. poll'[l].pc = "parked" => poll'[l].woken
    BY <1>1, DeliverPolls
  <2> QED BY <2>1 DEF Alert
<1>2. CASE LoseWake
  <2> DEFINE queued == {j \in Jobs : job[j].status = "pending"}
  <2>1. Missing(queued) /\ UNCHANGED job
    BY <1>2 DEF LoseWake, workVars
  <2>2. poll'[l].pc = "parked" => queued \subseteq poll'[l].missed
    BY <2>1, MissingPolls
  <2>3. Offerable(RunnerOf[l])' \subseteq queued
    BY <2>1 DEF Offerable, Held, Free
  <2> QED BY <2>2, <2>3 DEF Alert
<1> QED BY <1>1, <1>2

(* Steps that free capacity or jobs, and tell no one: what becomes offerable *)
(* is free, or was held.                                                   *)
LEMMA UntoldKeepsAlert ==
    ASSUME TypeOK, NoMissedWakeup, NEW jobs, Missing(jobs), UNCHANGED <<woken, reports>>,
           Free' \subseteq jobs, NEW l \in Launchers,
           Held(RunnerOf[l])' \subseteq Held(RunnerOf[l])
    PROVE  Alert(l)'
<1>1. Alert(l)
  BY DEF NoMissedWakeup, Alert
<1>2. /\ poll'[l].pc = poll[l].pc /\ poll'[l].woken = poll[l].woken
      /\ poll[l].pc = "parked" => poll'[l].missed = poll[l].missed \cup jobs
  BY MissingPolls
<1>3. Offerable(RunnerOf[l])' \subseteq Held(RunnerOf[l]) \cup jobs
  BY DEF Offerable
<1>4. Held(RunnerOf[l]) \subseteq Offerable(RunnerOf[l])
  BY DEF Offerable
<1> QED BY <1>1, <1>2, <1>3, <1>4, NoMoreKeepsTold

LEMMA UserKeepsAlert ==
    ASSUME TypeOK, NoMissedWakeup,
           \/ \E j \in Jobs : Launch(j) \/ Cancel(j)
           \/ \E n \in Runners : RequestDrain(n),
           NEW l \in Launchers
    PROVE  Alert(l)'
<1>1. ASSUME NEW j \in Jobs, Launch(j) PROVE Alert(l)'
  BY <1>1 DEF Launch, Alert
<1>2. ASSUME NEW j \in Jobs, Cancel(j) PROVE Alert(l)'
  <2>1. \A i \in Jobs : job'[i].status = "pending" => job'[i] = job[i]
    BY <1>2 DEF Cancel, TypeOK, JobRow
  <2>2. Free' \subseteq Free /\ Held(RunnerOf[l])' \subseteq Held(RunnerOf[l])
    BY <2>1 DEF Free, Held
  <2>3. Missing(Free) /\ UNCHANGED <<woken, reports>>
    BY <1>2 DEF Cancel
  <2> QED BY <2>2, <2>3, UntoldKeepsAlert
<1>3. ASSUME NEW n \in Runners, RequestDrain(n) PROVE Alert(l)'
  BY <1>3, QuietKeepsAlert DEF RequestDrain, workVars
<1> QED BY <1>1, <1>2, <1>3

LEMMA ClaimingKeepsAlert ==
    ASSUME TypeOK, NoMissedWakeup, NEW m \in Launchers, Claiming(m), NEW l \in Launchers
    PROVE  Alert(l)'
<1>1. PICK j \in Jobs : JobStart(m, j) \/ Discard(m, j) \/ JobToken(m, j)
  BY DEF Claiming
<1>2. UNCHANGED <<poll, woken, reports>>
  BY <1>1 DEF JobStart, Discard, JobToken, workVars
<1>3. CASE UNCHANGED job
  BY <1>2, <1>3, QuietKeepsAlert
<1>4. CASE JobStart(m, j) /\ Claimable(m, j)
  <2>0. RunnerOf[l] \in Runners /\ RunnerOf[l] # NoRunner
    BY ConstantsAssumption
  <2>1. /\ job[j].status = "pending" /\ job[j].runner \in {NoRunner, RunnerOf[m]}
        /\ job' = [job EXCEPT ![j] = [status |-> "running", runner |-> RunnerOf[m]]]
    BY <1>4 DEF JobStart, Claimable
  <2>2. /\ job'[j].status = "running" /\ job'[j].runner = RunnerOf[m]
        /\ \A i \in Jobs : i # j => job'[i] = job[i]
    BY <2>1 DEF TypeOK
  <2>3. Free' \subseteq Free /\ Held(RunnerOf[l])' \subseteq Offerable(RunnerOf[l])
    BY <2>2 DEF Free, Held, Offerable
  <2>4. Outstanding(RunnerOf[l]) \subseteq Outstanding(RunnerOf[l])'
    BY <2>0, <2>1, <2>2 DEF Outstanding
  <2>5. Offerable(RunnerOf[l])' \subseteq Offerable(RunnerOf[l])
    BY <2>0, <2>3, <2>4, OfferedNoMore
  <2>6. Alert(l)
    BY DEF NoMissedWakeup, Alert
  <2> QED BY <1>2, <2>5, <2>6, NoMoreKeepsTold
<1> QED BY <1>1, <1>3, <1>4 DEF JobStart, Discard, JobToken, workVars

LEMMA ReportingKeepsAlert ==
    ASSUME TypeOK, NoMissedWakeup, Reporting, NEW l \in Launchers
    PROVE  Alert(l)'
<1>1. ASSUME NEW e \in execs, ReportRead(e) PROVE Alert(l)'
  BY <1>1, QuietKeepsAlert DEF ReportRead
<1>2. ASSUME NEW q \in reports, ReportWrite(q) PROVE Alert(l)'
  <2>1. [q EXCEPT !.pc = "settle"] \in reports'
    BY <1>2 DEF ReportWrite
  <2>2. [q EXCEPT !.pc = "settle"].pc = "settle"
    BY DEF TypeOK, Report
  <2> QED BY <2>1, <2>2 DEF Alert
<1>3. ASSUME NEW q \in reports, ReportSettle(q) PROVE Alert(l)'
  BY <1>3 DEF ReportSettle, Alert
<1> QED BY <1>1, <1>2, <1>3 DEF Reporting

LEMMA LeavingKeepsAlert ==
    ASSUME TypeOK, NoMissedWakeup, NEW m \in Launchers,
           Leaving(m) \/ Terminate(m) \/ Crash(m), NEW l \in Launchers
    PROVE  Alert(l)'
<1>1. UNCHANGED <<poll, job, woken, reports>>
  BY DEF Leaving, Deregister, DeregisterStatus, Terminate, Crash, workVars
<1> QED BY <1>1, QuietKeepsAlert

LEMMA MonitoringKeepsAlert ==
    ASSUME TypeOK, NoMissedWakeup, Monitoring, NEW l \in Launchers
    PROVE  Alert(l)'
<1>1. CASE MonitorMark \/ MonitorRevoke
  BY <1>1, QuietKeepsAlert DEF MonitorMark, MonitorRevoke, workVars
<1>2. CASE MonitorRelease
  <2> DEFINE released == Of("pending")
  <2>1. \A i \in Jobs :
          /\ job'[i].status = job[i].status
          /\ job'[i].runner = IF i \in released THEN NoRunner ELSE job[i].runner
    BY <1>2 DEF MonitorRelease, TypeOK, JobRow
  <2>2. RunnerOf[l] # NoRunner
    BY ConstantsAssumption
  <2> HIDE DEF released
  <2>3. Free' \subseteq Free \cup released
    BY <2>1 DEF Free
  <2>5. Held(RunnerOf[l])' \subseteq Held(RunnerOf[l])
    BY <2>1, <2>2 DEF Held
  <2>4. Missing(Free \cup released) /\ UNCHANGED <<woken, reports>>
    BY <1>2 DEF MonitorRelease, released
  <2> QED BY <2>3, <2>4, <2>5, UntoldKeepsAlert
<1>3. CASE MonitorSettle
  <2>1. \A i \in Jobs : job'[i].status = "pending" => job'[i] = job[i]
    BY <1>3 DEF MonitorSettle, TypeOK, JobRow
  <2>2. Free' \subseteq Free /\ Held(RunnerOf[l])' \subseteq Held(RunnerOf[l])
    BY <2>1 DEF Free, Held
  <2>3. Missing(Free) /\ UNCHANGED <<woken, reports>>
    BY <1>3 DEF MonitorSettle
  <2> QED BY <2>2, <2>3, UntoldKeepsAlert
<1> QED BY <1>1, <1>2, <1>3 DEF Monitoring

(* A heartbeat parks with nothing to offer it, and what becomes offerable    *)
(* after that wakes it, unless no wake-up is published for it or the one     *)
(* that was is lost (NoMissedWakeup).                                       *)
THEOREM RunnerFleet_NoMissedWakeup == Spec => []NoMissedWakeup
<1>1. Init => NoMissedWakeup
  BY DEF Init, NoMissedWakeup, NoPoll
<1>2. TypeOK /\ NoMissedWakeup /\ [Next]_vars => NoMissedWakeup'
  <2> SUFFICES ASSUME TypeOK, NoMissedWakeup, [Next]_vars, NEW l \in Launchers
               PROVE  Alert(l)'
    BY DEF NoMissedWakeup, Alert
  <2>1. CASE UNCHANGED vars
    BY <2>1, QuietKeepsAlert DEF vars
  <2> QED BY <2>1, TickKeepsAlert, RegisteringKeepsAlert, HeartbeatKeepsAlert,
       WakeKeepsAlert, UserKeepsAlert, ClaimingKeepsAlert, ReportingKeepsAlert,
       LeavingKeepsAlert, MonitoringKeepsAlert
    DEF Next
<1> QED BY <1>1, <1>2, RunnerFleet_TypeCorrect, PTL DEF Spec

=============================================================================
