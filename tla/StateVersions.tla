--------------------------- MODULE StateVersions ----------------------------
(***************************************************************************)
(* The states of one workspace: the lock a user takes by hand, the lock a   *)
(* run takes for a phase, and the versions that users push (Create) and     *)
(* executors upload (UploadState).  A version is a row first and an object  *)
(* second, without a transaction over both; the steps of two writers, of a  *)
(* reader and of the locks interleave.                                     *)
(*                                                                         *)
(* Of a run this module keeps what touches its workspace's state: the lock  *)
(* of a phase, the state its executor starts from, the state it leaves.    *)
(* How the run gets there is RunDispatch.                                  *)
(***************************************************************************)
EXTENDS Integers, FiniteSets

CONSTANTS
    Users,         \* users who lock the workspace and push its state
    Runs,          \* runs that plan and apply
    Nobody,
    MaxVersions,   \* bound: version rows ever reserved
    MaxConcurrent, \* bound: handlers the API serves at once
    MaxFailures,   \* bound: object writes that fail
    MaxCancels,    \* bound: runs canceled
    MaxLosses      \* bound: locks that expire, and runs the monitor settles

ASSUME ConstantsAssumption ==
    /\ Nobody \notin Users \cup Runs
    /\ Users \cap Runs = {}
    /\ MaxVersions \in Nat /\ MaxConcurrent \in Nat
    /\ MaxFailures \in Nat /\ MaxCancels \in Nat /\ MaxLosses \in Nat

VARIABLES
    holder,    \* workspaces.locked_by: the user who locked it by hand
    stateLock, \* state_locks: the run whose phase is under way
    rows,      \* the state_versions table
    objects,   \* the object store: the state stored for a version number
    reserved,  \* how many rows were ever reserved; numbers them
    cli,       \* each user's client
    work,      \* each run's executor
    releasing, \* for each run, the requests that are about to release its lock
    slipped,   \* history: the runs that lost their lock during a phase
    losses,    \* locks expired and runs settled
    canceled,  \* the runs canceled
    settled,   \* the applies that the monitor ended
    made,      \* the runs whose engine changed resources
    unsaved,   \* history: those of them that uploaded no state for it
    failures,  \* object writes that failed
    reqs       \* the requests that write a version, and force-unlocks

storeVars == <<rows, objects, reserved, failures>>
runLock   == <<stateLock, releasing, slipped, losses>>
lockVars  == <<holder, stateLock, releasing, slipped, losses>>
history   == <<canceled, settled, made, unsaved>>
runVars   == <<work, canceled, settled, made, unsaved>>
vars      == <<holder, runLock, storeVars, cli, runVars, reqs>>

-----------------------------------------------------------------------------
(* A state is its serial and the changes it records: those of the runs that *)
(* applied and of the users that pushed.                                   *)
State    == [serial: Nat, has: SUBSET (Users \cup Runs)]
NoState  == [serial |-> 0, has |-> {}]
Versions == 1..MaxVersions

Row  == [id: Nat, version: Nat, serial: Nat, by: Users \cup Runs]
Req  == [by: Users \cup Runs, pc: {"reserve", "put", "rollback", "unlock"},
         id: Nat, version: Nat, state: State]
Cli  == [pc: {"idle", "locking", "locked", "pulled", "pushing", "unlocking"},
         state: State]
Work == [pc: {"idle", "fetch", "engine", "upload", "uploading", "report", "dead",
              "done"},
         phase: {"plan", "apply"},
         state: State, \* what the engine works on
         base: Nat]    \* the serial the saved plan was made from

(* GetLatest: the row of the highest version.                              *)
LastVersion == IF rows = {} THEN 0
               ELSE CHOOSE v \in {row.version : row \in rows} :
                      \A row \in rows : row.version <= v
Serials == {row.serial : row \in {x \in rows : x.version = LastVersion}}

(* The state a reader of the latest version gets: none while its object is  *)
(* not there.                                                              *)
Latest == IF LastVersion \in DOMAIN objects THEN objects[LastVersion] ELSE NoState

Admitted == Cardinality(reqs) < MaxConcurrent

Init ==
    /\ holder = Nobody /\ stateLock = Nobody
    /\ rows = {} /\ objects = <<>> /\ reserved = 0
    /\ cli = [u \in Users |-> [pc |-> "idle", state |-> NoState]]
    /\ work = [r \in Runs |-> [pc |-> "idle", phase |-> "plan",
                               state |-> NoState, base |-> 0]]
    /\ releasing = [r \in Runs |-> 0] /\ slipped = {} /\ losses = 0
    /\ canceled = {} /\ settled = {} /\ made = {} /\ unsaved = {}
    /\ failures = 0 /\ reqs = {}

-----------------------------------------------------------------------------
(* Writing a version: CreateNextVersion, PutStateObject, and the deletion   *)
(* of the row when the object was not stored.                              *)

Put(by, state) == [by |-> by, pc |-> "reserve", id |-> 0, version |-> 0,
                   state |-> state]

(* Whoever asked goes on, whatever the answer: an executor only logs an     *)
(* upload that failed.                                                     *)
Answer(q) ==
    /\ reqs' = reqs \ {q}
    /\ IF q.by \in Users
         THEN /\ cli' = [cli EXCEPT ![q.by] = [pc |-> "locked", state |-> NoState]]
              /\ UNCHANGED work
         ELSE /\ work' = [work EXCEPT ![q.by].pc = "report"]
              /\ UNCHANGED cli

(* The next version is reserved unless the state is older than the latest.  *)
ReserveVersion(q) ==
    /\ q.pc = "reserve"
    /\ reserved < MaxVersions
    /\ IF \E s \in Serials : q.state.serial < s
         THEN /\ Answer(q)
              /\ UNCHANGED <<rows, reserved>>
         ELSE /\ reserved' = reserved + 1
              /\ rows' = rows \cup
                   {[id |-> reserved', version |-> LastVersion + 1,
                     serial |-> q.state.serial, by |-> q.by]}
              /\ reqs' = (reqs \ {q}) \cup
                   {[by |-> q.by, pc |-> "put", id |-> reserved',
                     version |-> LastVersion + 1, state |-> q.state]}
              /\ UNCHANGED <<cli, work>>
    /\ UNCHANGED <<lockVars, objects, failures, history>>

PutAtLatest(q)  == LastVersion                                  \* a mutant
PutBefore(q)    == q.version - 1                                \* a mutant
StoredAt(q)     == q.version

PutStateObject(q) ==
    /\ q.pc = "put"
    /\ objects' = [v \in DOMAIN objects \cup {StoredAt(q)} |->
                     IF v = StoredAt(q) THEN q.state ELSE objects[v]]
    /\ Answer(q)
    /\ UNCHANGED <<lockVars, rows, reserved, failures, history>>

PutFails(q) ==
    /\ q.pc = "put"
    /\ failures < MaxFailures
    /\ failures' = failures + 1
    /\ reqs' = (reqs \ {q}) \cup {[q EXCEPT !.pc = "rollback"]}
    /\ UNCHANGED <<lockVars, rows, objects, reserved, cli, runVars>>

RollsNothingBack(q) == rows                                     \* a mutant
RolledBack(q)       == {row \in rows : row.id # q.id}

Rollback(q) ==
    /\ q.pc = "rollback"
    /\ rows' = RolledBack(q)
    /\ Answer(q)
    /\ UNCHANGED <<lockVars, objects, reserved, failures, history>>

-----------------------------------------------------------------------------
(* Users.  A client locks the workspace, pulls, pushes, unlocks; Lock and   *)
(* Unlock read the workspace's row, decide, and save it.                   *)

LockRead(u) ==
    /\ cli[u].pc = "idle"
    /\ holder = Nobody
    /\ cli' = [cli EXCEPT ![u].pc = "locking"]
    /\ UNCHANGED <<lockVars, storeVars, runVars, reqs>>

LockWrite(u) ==
    /\ cli[u].pc = "locking"
    /\ holder' = u
    /\ cli' = [cli EXCEPT ![u].pc = "locked"]
    /\ UNCHANGED <<runLock, storeVars, runVars, reqs>>

(* CurrentStateVersion and Download; without the object there is no answer. *)
Pull(u) ==
    /\ cli[u].pc = "locked"
    /\ rows = {} \/ LastVersion \in DOMAIN objects
    /\ cli' = [cli EXCEPT ![u] = [pc |-> "pulled", state |-> Latest]]
    /\ UNCHANGED <<lockVars, storeVars, runVars, reqs>>

(* Create's lock rule: the state is locked by the run that the document     *)
(* names, or by no run while the caller holds the workspace.               *)
MayPush(u, named) == IF stateLock = Nobody THEN holder = u ELSE named = stateLock
Create(u) ==
    /\ Admitted
    /\ cli[u].pc = "pulled"
    /\ \E named \in Runs \cup {Nobody} :
         IF MayPush(u, named)
           THEN /\ reqs' = reqs \cup
                     {Put(u, [serial |-> cli[u].state.serial + 1,
                              has    |-> cli[u].state.has \cup {u}])}
                /\ cli' = [cli EXCEPT ![u].pc = "pushing"]
           ELSE /\ cli' = [cli EXCEPT ![u] = [pc |-> "locked", state |-> NoState]]
                /\ UNCHANGED reqs
    /\ UNCHANGED <<lockVars, storeVars, runVars>>

UnlockRead(u) ==
    /\ cli[u].pc \in {"locked", "pulled"}
    /\ cli' = [cli EXCEPT ![u] = [pc |-> IF holder = u THEN "unlocking" ELSE "idle",
                                  state |-> NoState]]
    /\ UNCHANGED <<lockVars, storeVars, runVars, reqs>>

UnlockWrite(u) ==
    /\ cli[u].pc = "unlocking"
    /\ holder' = Nobody
    /\ cli' = [cli EXCEPT ![u].pc = "idle"]
    /\ UNCHANGED <<runLock, storeVars, runVars, reqs>>

(* An administrator's ForceUnlock, whoever holds the workspace.            *)
ForceUnlock ==
    /\ Admitted
    /\ \E u \in Users :
         /\ holder = u
         /\ reqs' = reqs \cup {[Put(u, NoState) EXCEPT !.pc = "unlock"]}
    /\ UNCHANGED <<lockVars, storeVars, cli, runVars>>

ForceUnlockWrite(q) ==
    /\ q.pc = "unlock"
    /\ holder' = Nobody
    /\ reqs' = reqs \ {q}
    /\ UNCHANGED <<runLock, storeVars, cli, runVars>>

-----------------------------------------------------------------------------
(* Runs.                                                                   *)

Becomes(r, pc) == work' = [work EXCEPT ![r].pc = pc]
WorksOn(r, pc, state, base) ==
    work' = [work EXCEPT ![r] = [pc |-> pc, phase |-> work[r].phase,
                                 state |-> state, base |-> base]]

(* A run's phase is under way from its start until its executor has nothing *)
(* to upload any more.                                                     *)
Working(r)  == work[r].pc \in {"engine", "upload", "uploading"}
UnderWay(r) == Working(r) \/ work[r].pc = "fetch"

(* The lock that r holds goes.                                             *)
LosesLock(r) ==
    /\ stateLock' = Nobody
    /\ slipped' = IF UnderWay(r) THEN slipped \cup {r} ELSE slipped

(* A phase starts when the run can take its workspace's state lock, which    *)
(* it may hold still.                                                      *)
AlwaysFree(r)  == TRUE                                          \* a mutant
StateIsFree(r) == stateLock \in {Nobody, r}
LockForRun(r) ==
    /\ work[r].pc = "idle" /\ r \notin canceled
    /\ StateIsFree(r)
    /\ stateLock' = r
    /\ Becomes(r, "fetch")
    /\ UNCHANGED <<holder, releasing, slipped, losses, storeVars, cli, history, reqs>>

(* The lock is leased for the workspace's run timeout.                     *)
LockExpires ==
    /\ stateLock # Nobody
    /\ losses < MaxLosses
    /\ losses' = losses + 1
    /\ LosesLock(stateLock)
    /\ UNCHANGED <<holder, releasing, storeVars, cli, runVars, reqs>>

(* The artifacts include the latest version's object, or nothing when it    *)
(* cannot be read; a run that is canceled or settled is refused them.       *)
FetchState(r) ==
    /\ work[r].pc = "fetch"
    /\ IF r \in canceled \cup settled
         THEN Becomes(r, "report")
         ELSE WorksOn(r, "engine", Latest, work[r].base)
    /\ UNCHANGED <<lockVars, storeVars, cli, history, reqs>>

PlanEnds(r) ==
    /\ work[r].pc = "engine" /\ work[r].phase = "plan"
    /\ WorksOn(r, "report", work[r].state, work[r].state.serial)
    /\ UNCHANGED <<lockVars, storeVars, cli, history, reqs>>

(* The engine refuses a saved plan the state moved past.  What it does not  *)
(* refuse changes resources and leaves a state, to be uploaded when it ends *)
(* well or is stopped; an apply that fails uploads nothing, whatever it has *)
(* changed by then.                                                        *)
AppliesPlan(r) == work[r].state.serial = work[r].base
ApplyEnds(r) ==
    /\ work[r].pc = "engine" /\ work[r].phase = "apply"
    /\ \/ /\ AppliesPlan(r)
          /\ made' = made \cup {r}
          /\ \/ /\ WorksOn(r, "upload",
                           [serial |-> work[r].state.serial + 1,
                            has    |-> work[r].state.has \cup {r}], work[r].base)
                /\ UNCHANGED unsaved
             \/ /\ unsaved' = unsaved \cup {r}
                /\ Becomes(r, "report")
       \/ /\ Becomes(r, "report")
          /\ UNCHANGED <<made, unsaved>>
    /\ UNCHANGED <<lockVars, storeVars, cli, canceled, settled, reqs>>

(* UploadState is authorized as a report is: a canceled run still takes it, *)
(* a settled one until its tokens are revoked, and it does not ask for the  *)
(* state lock.                                                             *)
UploadState(r) ==
    /\ work[r].pc = "upload"
    /\ \/ /\ Admitted
          /\ reqs' = reqs \cup {Put(r, work[r].state)}
          /\ Becomes(r, "uploading")
          /\ UNCHANGED unsaved
       \/ /\ r \in settled
          /\ unsaved' = unsaved \cup {r}
          /\ Becomes(r, "report")
          /\ UNCHANGED reqs
    /\ UNCHANGED <<lockVars, storeVars, cli, canceled, settled, made>>

(* The executor's machine is lost.  (One that is lost while it waits for an *)
(* answer is one that takes no step after it.)                             *)
ExecutorDies(r) ==
    /\ work[r].pc \in {"fetch", "engine", "upload"}
    /\ Becomes(r, "dead")
    /\ IF work[r].phase = "apply" /\ work[r].pc # "fetch"
         THEN /\ made' \in {made, made \cup {r}}
              /\ unsaved' = unsaved \cup {r}
         ELSE UNCHANGED <<made, unsaved>>
    /\ UNCHANGED <<lockVars, storeVars, cli, canceled, settled, reqs>>

(* JobComplete, Cancel and the monitor write the run first and release its  *)
(* lock later; ReleaseStateLock frees no lock but the run's.               *)
WillRelease(r) == releasing' = [releasing EXCEPT ![r] = @ + 1]
ReleaseStateLock(r) ==
    /\ releasing[r] > 0
    /\ releasing' = [releasing EXCEPT ![r] = @ - 1]
    /\ IF stateLock = r THEN LosesLock(r) ELSE UNCHANGED <<stateLock, slipped>>
    /\ UNCHANGED <<holder, losses, storeVars, cli, runVars, reqs>>

(* JobComplete ends a phase; an apply is left after a plan that was not     *)
(* canceled.  The completion of a settled run is refused.                  *)
JobComplete(r) ==
    /\ work[r].pc = "report"
    /\ work' = [work EXCEPT ![r] =
                  [pc    |-> IF work[r].phase = "plan" /\ r \notin canceled
                               THEN "idle" ELSE "done",
                   phase |-> "apply", state |-> NoState, base |-> work[r].base]]
    /\ IF r \in settled THEN UNCHANGED releasing ELSE WillRelease(r)
    /\ UNCHANGED <<holder, stateLock, slipped, losses, storeVars, cli, history, reqs>>

(* Cancel: the executor notices later.                                     *)
Cancel(r) ==
    /\ work[r].pc \notin {"idle", "done"} /\ r \notin canceled \cup settled
    /\ Cardinality(canceled) < MaxCancels
    /\ canceled' = canceled \cup {r}
    /\ WillRelease(r)
    /\ UNCHANGED <<holder, stateLock, slipped, losses, storeVars, cli, work,
                   settled, made, unsaved, reqs>>

(* The monitor believes the run's launcher lost, rightly or not: a plan is  *)
(* dispatched again (its old executor leaves no state), an apply has ended, *)
(* though its executor may work on.                                        *)
SettleLostWork(r) ==
    /\ work[r].pc \notin {"idle", "done"} /\ r \notin canceled \cup settled
    /\ losses < MaxLosses
    /\ losses' = losses + 1
    /\ WillRelease(r)
    /\ IF work[r].phase = "plan"
         THEN /\ WorksOn(r, "idle", NoState, work[r].base)
              /\ UNCHANGED settled
         ELSE /\ settled' = settled \cup {r}
              /\ UNCHANGED work
    /\ UNCHANGED <<holder, stateLock, slipped, storeVars, cli, canceled, made,
                   unsaved, reqs>>

-----------------------------------------------------------------------------
UserStep(u) == \/ LockRead(u) \/ LockWrite(u) \/ Pull(u) \/ Create(u)
               \/ UnlockRead(u) \/ UnlockWrite(u)
RunStep(r)  == \/ LockForRun(r) \/ FetchState(r) \/ PlanEnds(r) \/ ApplyEnds(r)
               \/ UploadState(r) \/ ExecutorDies(r) \/ JobComplete(r) \/ Cancel(r)
               \/ SettleLostWork(r) \/ ReleaseStateLock(r)
HandlerStep(q) == \/ ReserveVersion(q) \/ PutStateObject(q) \/ PutFails(q)
                  \/ Rollback(q) \/ ForceUnlockWrite(q)

Next == \/ \E u \in Users : UserStep(u)
        \/ \E r \in Runs : RunStep(r)
        \/ \E q \in reqs : HandlerStep(q)
        \/ ForceUnlock \/ LockExpires

Spec == Init /\ [][Next]_vars

-----------------------------------------------------------------------------
(* The state space: every row, object, request and process is of its kind.  *)
LockTypes ==
    /\ holder \in Users \cup {Nobody}
    /\ stateLock \in Runs \cup {Nobody}
    /\ releasing \in [Runs -> Nat] /\ losses \in Nat
    /\ slipped \subseteq Runs
HistoryTypes ==
    /\ canceled \subseteq Runs /\ settled \subseteq Runs
    /\ made \subseteq Runs /\ unsaved \subseteq Runs
TypeOK ==
    /\ LockTypes /\ HistoryTypes
    /\ rows \subseteq Row
    /\ DOMAIN objects \subseteq Versions
    /\ \A v \in DOMAIN objects : objects[v] \in State
    /\ reserved \in Nat /\ failures \in Nat
    /\ cli \in [Users -> Cli]
    /\ work \in [Runs -> Work]
    /\ reqs \subseteq Req

InFlight(row) == \E q \in reqs : q.pc \in {"put", "rollback"} /\ q.id = row.id

(* No version dangles: a row without its object is one whose writer is      *)
(* still at it, so no push or upload that failed leaves a version behind    *)
(* that nobody can download.                                               *)
NoDanglingVersion ==
    \A row \in rows : InFlight(row) \/ row.version \in DOMAIN objects

(* What is served as a version is what was pushed as that version, though   *)
(* numbers are reused after a roll-back and writers overlap.               *)
ServedAsPushed ==
    \A row \in rows : InFlight(row) \/ row.version \notin DOMAIN objects \/
        /\ objects[row.version].serial = row.serial
        /\ row.by \in objects[row.version].has

(* Why, as an inductive invariant.  A row is numbered once, by a version    *)
(* that no other row has; a writer past its reservation has a row of its    *)
(* own; and what is pushed records its pusher's change.                    *)
Numbered ==
    /\ \A row \in rows : row.id \in 1..reserved /\ row.version \in 1..reserved
    /\ \A x, y \in rows : x.id = y.id \/ x.version = y.version => x = y
RowOf(q) == [id |-> q.id, version |-> q.version, serial |-> q.state.serial,
             by |-> q.by]
WritersHaveRows ==
    /\ \A q \in reqs : q.pc \in {"put", "rollback"} => RowOf(q) \in rows
    /\ \A p, q \in reqs :
         (p.pc \in {"put", "rollback"}
          /\ q.pc \in {"put", "rollback"} /\ p.id = q.id) => p = q
PushersRecorded ==
    /\ \A q \in reqs : q.pc # "unlock" => q.by \in q.state.has
    /\ \A r \in Runs : work[r].pc \in {"upload", "uploading"} =>
          r \in work[r].state.has
VersionsInv ==
    /\ TypeOK /\ reserved <= MaxVersions
    /\ Numbered /\ WritersHaveRows /\ PushersRecorded
    /\ NoDanglingVersion /\ ServedAsPushed

(* The run whose phase is under way holds the lock, unless the lock went    *)
(* under its feet.                                                         *)
PhaseHoldsLock == \A r \in Runs : UnderWay(r) => stateLock = r \/ r \in slipped

(* As long as no phase lost its lock, nobody pushed, and every object was   *)
(* stored, the latest state records every resource that engines changed and *)
(* left a state for, once their uploads were answered and no version is     *)
(* being written: through failed applies, lost executors, cancellations,    *)
(* settlements and releases that come after the next phase started.         *)
Undisturbed == /\ slipped = {} /\ failures = 0 /\ reqs = {}
               /\ \A row \in rows : row.by \in Runs
StateCoversResources ==
    Undisturbed =>
        {r \in made \ unsaved : work[r].pc \in {"report", "done"}} \subseteq Latest.has

(* A run that starts while the workspace has a stored state is given one:   *)
(* the artifacts include the latest state so that the executor knows the    *)
(* resources there are.                                                    *)
StartsFromState ==
    [][\A r \in Runs : FetchState(r) /\ r \notin canceled \cup settled /\ DOMAIN objects # {}
          => work'[r].state # NoState]_vars

=============================================================================
