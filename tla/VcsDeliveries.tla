---------------------------- MODULE VcsDeliveries ----------------------------
(* How pushes and pull requests become runs of one workspace.  A webhook    *)
(* starts a goroutine that clones the repository, packs it into a temporary *)
(* file, records a configuration version, uploads the file, cancels the     *)
(* runs the new one supersedes and queues its run.  A run asked for without *)
(* a configuration is queued beside them.  Providers deliver late, out of   *)
(* order and more than once, goroutines interleave at every call, and any   *)
(* call may fail.  A goroutine makes at most one version and one run, which *)
(* are therefore named after it.                                            *)
EXTENDS Integers, FiniteSets

CONSTANTS
    Goroutines,  \* deliveries and requests under way or over
    Pulls,       \* pull requests against the workspace's branch
    Main,        \* the workspace's branch
    None,
    Slots,       \* deliveries the API works on at once
    MaxCommits,  \* bound: commits pushed to all branches
    MaxFailures  \* bound: goroutines that meet failures

ASSUME DeliveriesAssumption ==
    /\ Main \notin Pulls /\ None \notin Goroutines
    /\ IsFiniteSet(Goroutines)
    /\ Slots \in Nat \ {0}
    /\ MaxCommits \in Nat /\ MaxFailures \in Nat

VARIABLES
    provider, \* the workspace's VCS connection is to it
    commits,  \* commits pushed so far: they are numbered in that order
    tip,      \* the newest commit of each branch, 0 before the first
    events,   \* what the provider may deliver, at any time and again
    job,      \* what each goroutine is for
    pc,       \* where it is
    clone,    \* the commit it checked out
    fd,       \* the file it writes, named after its creator
    tarball,  \* the temporary files
    version,  \* the configuration versions
    run,      \* the runs' statuses, all past a plan's wait being ended
    todo,     \* the runs a goroutine listed and has yet to cancel
    owed,     \* history: those it supersedes, but what it found under way
    failed    \* history: the goroutines a call of which failed

vars == <<provider, commits, tip, events, job, pc, clone, fd, tarball, version, run,
          todo, owed, failed>>

Branches == Pulls \cup {Main}
Commit   == 1..MaxCommits
Event    == [branch: Branches, commit: Commit]
Kinds    == {"push", "pull", "user"}    \* the latter asked for
Job      == [kind: Kinds, branch: Branches, commit: 0..MaxCommits]
Object   == [commit: 0..MaxCommits, whole: BOOLEAN]
Version  == [status: {"none", "pending", "uploaded", "errored"},
             object: Object \cup {None}]
Tarball  == [linked: BOOLEAN, content: 0..MaxCommits,
             writers: SUBSET Goroutines, torn: BOOLEAN]
Statuses == {"none", "pending", "pre_plan", "planning", "planned",
             "post_plan_running", "post_plan_completed", "ended"}
Waiting  == {"pending", "planned"}      \* what a delivery may cancel
PCs      == {"idle", "waiting", "cloned", "packing", "packed", "checked",
             "inserted", "uploaded", "canceling", "returning", "over"}

NoJob     == [kind |-> "user", branch |-> Main, commit |-> 0]
NoVersion == [status |-> "none", object |-> None]
Reserved  == [status |-> "pending", object |-> None]
Errored   == [status |-> "errored", object |-> None]
NoTarball == [linked |-> FALSE, content |-> 0, writers |-> {}, torn |-> FALSE]

Init ==
    /\ provider \in {"github", "azure"}
    /\ commits = 0 /\ failed = {}
    /\ tip = [b \in Branches |-> 0]
    /\ events = {}
    /\ job = [g \in Goroutines |-> NoJob]
    /\ pc = [g \in Goroutines |-> "idle"]
    /\ clone = [g \in Goroutines |-> 0]
    /\ fd = [g \in Goroutines |-> None]
    /\ tarball = [g \in Goroutines |-> NoTarball]
    /\ version = [g \in Goroutines |-> NoVersion]
    /\ run = [g \in Goroutines |-> "none"]
    /\ todo = [g \in Goroutines |-> {}]
    /\ owed = [g \in Goroutines |-> {}]

outside == <<provider, commits, tip, events>>
files   == <<clone, fd, tarball>>
listing == <<todo, owed>>

-----------------------------------------------------------------------------
(* The repository: commits pushed to a branch, and a pull request merged by *)
(* moving the branch to its head.  Either is an event the provider tells.   *)
MoveTip(b, c) ==
    /\ tip' = [tip EXCEPT ![b] = c]
    /\ events' = events \cup {[branch |-> b, commit |-> c]}
    /\ UNCHANGED <<files, listing, provider, job, pc, version, run, failed>>

Push(b) ==
    /\ commits < MaxCommits /\ commits' = commits + 1
    /\ MoveTip(b, commits + 1)

FastForward(p) ==
    /\ tip[p] > tip[Main] /\ UNCHANGED commits
    /\ MoveTip(Main, tip[p])

-----------------------------------------------------------------------------
(* Goroutines.  Goto moves g; Lose fails a call of it.                      *)
Goto(g, from, to) == pc[g] = from /\ pc' = [pc EXCEPT ![g] = to]
Lose(g) == /\ g \in failed \/ Cardinality(failed) < MaxFailures
           /\ failed' = failed \cup {g}

(* A delivery, authenticated and matched to the workspace, leaves the       *)
(* handler in a goroutine that waits for a slot.                            *)
Deliver(g, e) ==
    /\ Goto(g, "idle", "waiting")
    /\ job' = [job EXCEPT ![g] =
                 [kind |-> IF e.branch = Main THEN "push" ELSE "pull",
                  branch |-> e.branch, commit |-> e.commit]]
    /\ UNCHANGED <<outside, files, listing, version, run, failed>>

(* A run asked for without a configuration version gets one of the branch's *)
(* tip.  Its file and version are its own until it lists runs, so that the  *)
(* steps before are one; one that fails may leave the version pending, or   *)
(* the file cut short (see Packed).                                         *)
Request(g) ==
    /\ tip[Main] # 0
    /\ job' = [job EXCEPT ![g] = NoJob]
    /\ \/ /\ Goto(g, "idle", "uploaded")
          /\ \E whole \in BOOLEAN :
                /\ IF whole THEN UNCHANGED failed ELSE Lose(g)
                /\ version' = [version EXCEPT ![g] =
                      [status |-> "uploaded",
                       object |-> [commit |-> tip[Main], whole |-> whole]]]
       \/ /\ Goto(g, "idle", "over") /\ Lose(g)
          /\ \/ UNCHANGED version
             \/ version' = [version EXCEPT ![g] = Reserved]
    /\ UNCHANGED <<outside, files, listing, run>>

(* A slot is held from the clone until the goroutine returns.               *)
Holding == {h \in Goroutines : /\ pc[h] \notin {"idle", "waiting", "over"}
                               /\ job[h].kind # "user"}
SlotFree == Cardinality(Holding) < Slots

(* A GitHub pull request checks its branch out, everything else a commit.   *)
ByBranch(g) == job[g].kind = "pull" /\ provider = "github"
CheckedOutBase(g) == IF ByBranch(g) THEN tip[Main] ELSE job[g].commit \* a mutant
CheckedOut(g) == IF ByBranch(g) THEN tip[job[g].branch] ELSE job[g].commit

Clone(g) ==
    /\ SlotFree
    /\ \/ /\ Goto(g, "waiting", "cloned")
          /\ clone' = [clone EXCEPT ![g] = CheckedOut(g)]
          /\ UNCHANGED failed
       \/ Goto(g, "waiting", "over") /\ Lose(g) /\ UNCHANGED clone
    /\ UNCHANGED <<outside, listing, job, fd, tarball, version, run>>

(* The temporary file of a delivery is named after its kind and commit.     *)
PathOfKind(g) == <<job[g].kind, 0>>                                  \* a mutant
Path(g) == <<job[g].kind, job[g].commit>>
Named(g) == {i \in Goroutines : tarball[i].linked /\ Path(i) = Path(g)}

(* Creating the file truncates one of that name; writing it takes a while.  *)
Pack(g) ==
    /\ Goto(g, "cloned", "packing") /\ clone' = [clone EXCEPT ![g] = 0]
    /\ \/ /\ Named(g) = {}
          /\ tarball' = [tarball EXCEPT ![g] =
                [linked |-> TRUE, content |-> clone[g], writers |-> {g},
                 torn |-> FALSE]]
          /\ fd' = [fd EXCEPT ![g] = g]
       \/ \E i \in Named(g) :
          /\ tarball' = [tarball EXCEPT ![i] =
                [linked |-> TRUE, content |-> clone[g],
                 writers |-> @.writers \cup {g}, torn |-> @.writers # {}]]
          /\ fd' = [fd EXCEPT ![g] = i]
    /\ UNCHANGED <<outside, listing, job, version, run, failed>>

(* Closing writes what is buffered: the tar, gzip or file that cannot be     *)
(* closed is cut short, which is logged, and the delivery goes on.          *)
Closed(t, g) == [t EXCEPT !.writers = @ \ {g}]
CutShort(t)  == [t EXCEPT !.torn = TRUE]
Packed(g) ==
    /\ \/ /\ Goto(g, "packing", "packed") /\ UNCHANGED failed
          /\ tarball' = [tarball EXCEPT ![fd[g]] = Closed(@, g)]
       \/ /\ Goto(g, "packing", "packed") /\ Lose(g)
          /\ tarball' = [tarball EXCEPT ![fd[g]] = CutShort(Closed(@, g))]
       \/ /\ Goto(g, "packing", "returning") /\ Lose(g)
          /\ tarball' = [tarball EXCEPT ![fd[g]] = Closed(@, g)]
    /\ fd' = [fd EXCEPT ![g] = None]
    /\ UNCHANGED <<outside, listing, job, clone, version, run>>

(* Whether the commit has a version already.  An Azure pull request does    *)
(* not ask, and who asks goes on when the question fails.                   *)
Asks(g) == job[g].kind = "push" \/ provider = "github"
KnownAtAll(g) == \E h \in Goroutines :                                \* a mutant
    /\ version[h].status \in {"pending", "uploaded"}
    /\ job[h].commit = job[g].commit
Known(g) == \E h \in Goroutines :
    /\ version[h].status \in {"pending", "uploaded"}
    /\ job[h].commit = job[g].commit
    /\ job[g].kind = "pull" => job[h].kind = "pull"

Check(g) ==
    /\ \/ /\ Asks(g) /\ Known(g) /\ Goto(g, "packed", "returning")
          /\ UNCHANGED failed
       \/ /\ ~(Asks(g) /\ Known(g)) /\ Goto(g, "packed", "checked")
          /\ UNCHANGED failed
       \/ Asks(g) /\ Lose(g) /\ Goto(g, "packed", "checked")
    /\ UNCHANGED <<outside, files, listing, job, version, run>>

Insert(g) ==
    /\ \/ /\ Goto(g, "checked", "inserted")
          /\ version' = [version EXCEPT ![g] = Reserved]
          /\ UNCHANGED failed
       \/ Goto(g, "checked", "returning") /\ Lose(g) /\ UNCHANGED version
    /\ UNCHANGED <<outside, files, listing, job, run>>

(* What the upload reads: a file that is being written, was by two at once   *)
(* or was cut short is torn.                                                *)
Read(i) == [commit |-> tarball[i].content,
            whole |-> tarball[i].writers = {} /\ ~tarball[i].torn]

(* Another delivery of the commit may have removed the file: the version    *)
(* then stays pending.  Otherwise it is uploaded; or errored when the store *)
(* refuses it; or stays pending, with its object or without, when its       *)
(* status cannot be written.                                                *)
Upload(g) ==
    /\ \/ /\ Named(g) = {} /\ Goto(g, "inserted", "returning")
          /\ UNCHANGED <<version, failed>>
       \/ \E i \in Named(g) :
          \/ /\ Goto(g, "inserted", "uploaded") /\ UNCHANGED failed
             /\ version' = [version EXCEPT ![g] =
                              [status |-> "uploaded", object |-> Read(i)]]
          \/ /\ Goto(g, "inserted", "returning") /\ Lose(g)
             /\ \/ UNCHANGED version
                \/ version' = [version EXCEPT ![g] =
                                 [status |-> "pending", object |-> Read(i)]]
                \/ version' = [version EXCEPT ![g] = Errored]
    /\ UNCHANGED <<outside, files, listing, job, run>>

-----------------------------------------------------------------------------
(* The runs the new one supersedes: a pull request's, those of the same     *)
(* pull request; otherwise all that plan and apply.                         *)
Superseded(g) ==
    {h \in Goroutines : /\ run[h] # "none"
                        /\ IF job[g].kind = "pull"
                           THEN /\ job[h].kind = "pull"
                                /\ job[h].branch = job[g].branch
                           ELSE job[h].kind # "pull"}

(* What is under way is left alone: a plan an engine makes, and a run in a   *)
(* task stage before or after its plan.                                     *)
UnderWay == {h \in Goroutines :
               run[h] \in {"pre_plan", "planning", "post_plan_running"}}

(* They are listed once.  Nothing is canceled when that fails, or for a     *)
(* pull request of an organization that does not manage speculative plans.  *)
List(g) ==
    /\ Goto(g, "uploaded", "canceling")
    /\ \/ /\ todo' = [todo EXCEPT ![g] =
                           {h \in Superseded(g) : run[h] \in Waiting}]
          /\ owed' = [owed EXCEPT ![g] = Superseded(g) \ UnderWay]
          /\ UNCHANGED failed
       \/ job[g].kind = "pull" /\ UNCHANGED <<listing, failed>>
       \/ Lose(g) /\ UNCHANGED listing
    /\ UNCHANGED <<outside, files, job, version, run>>

(* Each is canceled if it still waits when its turn comes.                  *)
CanceledPending(h) == IF run[h] = "pending" THEN [run EXCEPT ![h] = "ended"]
                      ELSE run                                       \* a mutant
Canceled(h) == IF run[h] \in Waiting THEN [run EXCEPT ![h] = "ended"] ELSE run

CancelOne(g) ==
    /\ pc[g] = "canceling"
    /\ \E h \in todo[g] :
          /\ todo' = [todo EXCEPT ![g] = @ \ {h}]
          /\ \/ /\ run' = Canceled(h)
                /\ owed' = [owed EXCEPT ![g] = @ \ (UnderWay \cap {h})]
                /\ UNCHANGED failed
             \/ /\ Lose(g) /\ UNCHANGED run
                /\ owed' = [owed EXCEPT ![g] = @ \ {h}]
    /\ UNCHANGED <<outside, files, job, pc, version>>

(* A request that meets a run like its own, queued meanwhile, answers with  *)
(* that one.                                                                *)
Queue(g) ==
    /\ todo[g] = {} /\ Goto(g, "canceling", "returning")
    /\ \/ run' = [run EXCEPT ![g] = "pending"] /\ UNCHANGED failed
       \/ /\ job[g].kind = "user" /\ UNCHANGED <<run, failed>>
          /\ \E h \in Superseded(g) : run[h] = "pending"
       \/ Lose(g) /\ UNCHANGED run
    /\ UNCHANGED <<outside, files, listing, job, version>>

(* Deferred: the file of that name goes, whoever made it, and the slot.     *)
Unlinked(t) == IF t.writers = {} THEN NoTarball ELSE [t EXCEPT !.linked = FALSE]
Return(g) ==
    /\ Goto(g, "returning", "over")
    /\ tarball' = [i \in Goroutines |->
                     IF i \notin Named(g) THEN tarball[i]
                     ELSE Unlinked(tarball[i])]
    /\ UNCHANGED <<outside, listing, job, clone, fd, version, run, failed>>

(* What runners, task stages, the monitor and users do to a run, in         *)
(* RunDispatch.                                                             *)
Moves == {<<"pending", "pre_plan">>, <<"pre_plan", "planning">>,
          <<"pending", "planning">>, <<"planning", "pending">>,
          <<"planning", "planned">>, <<"planning", "post_plan_running">>,
          <<"post_plan_running", "post_plan_completed">>}
          \cup {<<s, "ended">> : s \in Statuses \ {"none", "ended"}}
RunMoves(h) ==
    /\ \E m \in Moves : run[h] = m[1] /\ run' = [run EXCEPT ![h] = m[2]]
    /\ UNCHANGED <<outside, files, listing, job, pc, version, failed>>

-----------------------------------------------------------------------------
Step(g) == \/ Clone(g) \/ Pack(g) \/ Packed(g) \/ Check(g) \/ Insert(g)
           \/ Upload(g) \/ List(g) \/ CancelOne(g) \/ Queue(g)
           \/ Return(g)

Next ==
    \/ \E b \in Branches : Push(b)
    \/ \E p \in Pulls : FastForward(p)
    \/ \E g \in Goroutines : \/ \E e \in events : Deliver(g, e)
                              \/ Request(g)
                              \/ Step(g)
                              \/ RunMoves(g)

Spec == Init /\ [][Next]_vars

-----------------------------------------------------------------------------
(* The type of the state.                                                   *)
TypeOK ==
    /\ provider \in {"github", "azure"}
    /\ commits \in 0..MaxCommits /\ failed \subseteq Goroutines
    /\ tip \in [Branches -> 0..MaxCommits]
    /\ events \subseteq Event
    /\ job \in [Goroutines -> Job]
    /\ pc \in [Goroutines -> PCs]
    /\ clone \in [Goroutines -> 0..MaxCommits]
    /\ fd \in [Goroutines -> Goroutines \cup {None}]
    /\ \A g \in Goroutines : /\ clone[g] # 0 <=> pc[g] = "cloned"
                             /\ fd[g] # None <=> pc[g] = "packing"
    /\ tarball \in [Goroutines -> Tarball]
    /\ version \in [Goroutines -> Version]
    /\ run \in [Goroutines -> Statuses]
    /\ todo \in [Goroutines -> SUBSET Goroutines]
    /\ owed \in [Goroutines -> SUBSET Goroutines]

(* Two goroutines were for one commit.                                      *)
Shared(g) == \E h \in Goroutines \ {g} : /\ job[h].kind = job[g].kind
                                         /\ job[h].commit = job[g].commit

(* What a version holds is its own commit, though the file it was uploaded  *)
(* from is shared, overwritten and removed under a name; only a GitHub pull *)
(* request may hold another.  And it is whole, unless its commit was        *)
(* delivered twice or its own delivery had a failure: no failure of another *)
(* reaches it.                                                              *)
HoldsItsCommit ==
    \A g \in Goroutines :
       version[g].object # None /\ job[g].kind # "user" =>
          /\ ByBranch(g) \/ version[g].object.commit = job[g].commit
          /\ Shared(g) \/ g \in failed \/ version[g].object.whole

(* When a run is queued, no run it found pending or planned is left pending *)
(* or planned, though each is canceled in a step of its own while runners   *)
(* and users move it: but for those under way when their turn came, and     *)
(* those whose cancellation failed.  What rivals queue after it listed is   *)
(* none of those it found, and a plan past its post_plan stage, which a     *)
(* user may still confirm, is none the code looks for.                     *)
SupersededIsOut ==
    \A g \in Goroutines : run[g] # "none" =>
       \A h \in owed[g] : run[h] \notin Waiting

(* A delivery is over without a run only when one of its calls failed or    *)
(* another delivery carried its commit: no order of deliveries, and nothing *)
(* that went wrong for others, takes its file away or makes it a duplicate. *)
(* A push is none of a pull request, but the code skips it as one.          *)
DeliveryIsRun ==
    \A g \in Goroutines :
       pc[g] = "over" /\ job[g].kind # "user" =>
          \/ run[g] # "none" \/ g \in failed
          \/ \E h \in Goroutines \ {g} :
                /\ job[h].commit = job[g].commit
                /\ job[g].kind = "pull" => job[h].kind = "pull"
=============================================================================
