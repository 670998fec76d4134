------------------------- MODULE VcsDeliveriesProofs -------------------------
(***************************************************************************)
(* Proofs about VcsDeliveries, for any goroutines, pull requests, slots,   *)
(* commits and failures.                                                   *)
(***************************************************************************)
EXTENDS VcsDeliveries, TLAPS

-----------------------------------------------------------------------------
(* Types, and whose jobs are at which steps.                               *)

(* A delivery is about a commit of a branch that exists; a request has no     *)
(* commit and never touches files.                                         *)
JobOK ==
    /\ \A e \in events : tip[e.branch] # 0
    /\ \A g \in Goroutines :
         /\ pc[g] = "idle" => job[g] = NoJob
         /\ job[g].kind = "user" =>
              /\ job[g].commit = 0
              /\ pc[g] \in {"idle", "uploaded", "canceling", "returning", "over"}
         /\ job[g].kind # "user" =>
              job[g].commit # 0 /\ tip[job[g].branch] # 0

Base == TypeOK /\ JobOK

(* What a step leaves of the jobs: once given they are kept.               *)
JobsKept == \A g \in Goroutines :
    /\ pc[g] # "idle" => job'[g] = job[g] /\ pc'[g] # "idle"
    /\ job[g].kind # "user" => job'[g] = job[g]

LEMMA JobsAreKept == ASSUME Base, Next PROVE JobsKept
<1> USE DEF Base, TypeOK
<1>1. CASE \E b \in Branches : Push(b)
  BY <1>1 DEF Push, MoveTip, JobsKept
<1>2. CASE \E p \in Pulls : FastForward(p)
  BY <1>2 DEF FastForward, MoveTip, JobsKept
<1>3. CASE \E g \in Goroutines : \E e \in events : Deliver(g, e)
  BY <1>3 DEF Deliver, Goto, JobsKept, JobOK, NoJob
<1>4. CASE \E g \in Goroutines : Request(g)
  BY <1>4 DEF Request, Goto, JobsKept, JobOK, NoJob
<1>5. CASE \E g \in Goroutines : Step(g)
  BY <1>5 DEF Step, Clone, Pack, Packed, Check, Insert, Upload, List, CancelOne,
              Queue, Return, Goto, JobsKept, outside, files, listing
<1>6. CASE \E g \in Goroutines : RunMoves(g)
  BY <1>6 DEF RunMoves, JobsKept
<1> QED BY <1>1, <1>2, <1>3, <1>4, <1>5, <1>6 DEF Next

(* What closing and unlinking a temporary file do to its record.             *)
LEMMA ClosedFile ==
    ASSUME NEW t \in Tarball, NEW g
    PROVE  /\ Closed(t, g) \in Tarball
           /\ Closed(t, g).linked = t.linked /\ Closed(t, g).content = t.content
           /\ Closed(t, g).writers = t.writers \ {g} /\ Closed(t, g).torn = t.torn
BY DEF Closed, Tarball

LEMMA CutShortFile ==
    ASSUME NEW t \in Tarball
    PROVE  /\ CutShort(t) \in Tarball
           /\ CutShort(t).linked = t.linked /\ CutShort(t).content = t.content
           /\ CutShort(t).writers = t.writers
BY DEF CutShort, Tarball

LEMMA UnlinkedFile ==
    ASSUME NEW t \in Tarball
    PROVE  /\ Unlinked(t) \in Tarball
           /\ ~Unlinked(t).linked
           /\ Unlinked(t).writers = t.writers
           /\ Unlinked(t).torn => t.torn
<1>1. CASE t.writers = {}
  BY <1>1, DeliveriesAssumption DEF Unlinked, Tarball, NoTarball
<1>2. CASE t.writers # {}
  <2>1. Unlinked(t) = [t EXCEPT !.linked = FALSE] BY <1>2 DEF Unlinked
  <2>2. [t EXCEPT !.linked = FALSE] \in Tarball BY DEF Tarball
  <2> QED BY <2>1, <2>2 DEF Tarball
<1> QED BY <1>1, <1>2

LEMMA VersionRecords ==
    /\ NoVersion \in Version /\ Reserved \in Version /\ Errored \in Version
    /\ \A o \in Object : /\ [status |-> "uploaded", object |-> o] \in Version
                         /\ [status |-> "pending", object |-> o] \in Version
BY DEF NoVersion, Reserved, Errored, Version

LEMMA InitBase == Init => Base
BY DeliveriesAssumption DEF Init, Base, TypeOK, JobOK, NoJob, NoVersion, NoTarball,
     Job, Kinds, Branches, Object, Version, Tarball, Statuses, PCs

LEMMA RepositoryType ==
    ASSUME Base,
           \/ \E b \in Branches : Push(b)
           \/ \E p \in Pulls : FastForward(p)
    PROVE  Base'
<1> USE DeliveriesAssumption DEF Base, TypeOK, Branches
<1>1. CASE \E b \in Branches : Push(b)
  <2> PICK b \in Branches : Push(b) BY <1>1
  <2>1. TypeOK' BY DEF Push, MoveTip, Event, Commit, files, listing
  <2>2. JobOK' BY DEF Push, MoveTip, Event, Commit, files, listing, JobOK, Job
  <2> QED BY <2>1, <2>2
<1>2. CASE \E p \in Pulls : FastForward(p)
  <2> PICK p \in Pulls : FastForward(p) BY <1>2
  <2>1. TypeOK' BY DEF FastForward, MoveTip, Event, Commit, files, listing
  <2>2. JobOK' BY DEF FastForward, MoveTip, Event, Commit, files, listing, JobOK, Job
  <2> QED BY <2>1, <2>2
<1> QED BY <1>1, <1>2

LEMMA ArrivalType ==
    ASSUME Base, NEW g \in Goroutines,
           Request(g) \/ \E e \in events : Deliver(g, e)
    PROVE  Base'
<1> USE DeliveriesAssumption DEF Base, TypeOK, Branches, PCs
<1>1. CASE Request(g)
  <2> USE <1>1 DEF Request, Goto, Lose, outside, files, listing, NoJob
  <2>1. TypeOK'
    <3>1. \A whole \in BOOLEAN : [commit |-> tip[Main], whole |-> whole] \in Object
      BY DEF Object
    <3>2. NoJob \in Job
      BY DEF Job, Kinds
    <3>3. version' \in [Goroutines -> Version]
      <4>1. \/ version' = version
            \/ \E v \in Version : version' = [version EXCEPT ![g] = v]
        BY <3>1, VersionRecords
      <4> QED BY <4>1
    <3>4. failed' \subseteq Goroutines
      OBVIOUS
    <3>5. /\ job' \in [Goroutines -> Job]
          /\ pc' \in [Goroutines -> PCs]
      BY <3>2
    <3>6. \A h \in Goroutines : /\ clone'[h] # 0 <=> pc'[h] = "cloned"
                                /\ fd'[h] # None <=> pc'[h] = "packing"
      OBVIOUS
    <3>7. /\ UNCHANGED <<provider, commits, tip, events, clone, fd, tarball>>
          /\ UNCHANGED <<run, todo, owed>>
      OBVIOUS
    <3> QED BY <3>3, <3>4, <3>5, <3>6, <3>7
  <2>2. JobOK'
    BY DEF JobOK
  <2> QED BY <2>1, <2>2
<1>2. CASE \E e \in events : Deliver(g, e)
  <2> PICK e \in events : Deliver(g, e) BY <1>2
  <2> USE DEF Deliver, Goto, outside, files, listing
  <2>1. e \in Event BY DEF TypeOK
  <2>2. TypeOK' BY <2>1 DEF Job, Kinds, Event, Commit
  <2>3. JobOK' BY <2>1 DEF JobOK, Event, Commit, Job, Kinds
  <2> QED BY <2>2, <2>3
<1> QED BY <1>1, <1>2

LEMMA FileType ==
    ASSUME Base, NEW g \in Goroutines,
           Clone(g) \/ Pack(g) \/ Packed(g) \/ Return(g)
    PROVE  Base'
<1> USE DeliveriesAssumption DEF Base, TypeOK, PCs, Goto, Lose, outside, files, listing
<1>1. CASE Clone(g)
  <2>1. job[g] \in Job /\ job[g].kind # "user" /\ tip[job[g].branch] \in 0..MaxCommits
    BY <1>1 DEF Clone, JobOK, Job
  <2>2. CheckedOut(g) \in 0..MaxCommits /\ CheckedOut(g) # 0
    BY <2>1 DEF CheckedOut, JobOK, Job
  <2>3. TypeOK' BY <1>1, <2>2 DEF Clone
  <2>4. JobOK' BY <1>1, <2>1 DEF Clone, JobOK
  <2> QED BY <2>3, <2>4
<1>2. CASE Pack(g)
  <2>1. tarball' \in [Goroutines -> Tarball]
    <3>1. clone[g] \in 0..MaxCommits /\ {g} \in SUBSET Goroutines
      OBVIOUS
    <3>2. \A i \in Goroutines :
             [linked |-> TRUE, content |-> clone[g],
              writers |-> tarball[i].writers \cup {g},
              torn |-> tarball[i].writers # {}] \in Tarball
      BY <3>1 DEF Tarball
    <3>3. [linked |-> TRUE, content |-> clone[g], writers |-> {g},
           torn |-> FALSE] \in Tarball
      BY <3>1 DEF Tarball
    <3>4. \E i \in Goroutines : \E t \in Tarball :
             tarball' = [tarball EXCEPT ![i] = t]
      BY <1>2, <3>2, <3>3 DEF Pack, Named
    <3> QED BY <3>4
  <2>2. TypeOK' BY <1>2, <2>1 DEF Pack, Named
  <2>3. JobOK' BY <1>2 DEF Pack, JobOK
  <2> QED BY <2>2, <2>3
<1>3. CASE Packed(g)
  <2>1. fd[g] \in Goroutines BY <1>3 DEF Packed
  <2>2. tarball' \in [Goroutines -> Tarball]
    BY <1>3, <2>1, ClosedFile, CutShortFile DEF Packed
  <2>3. TypeOK' BY <1>3, <2>1, <2>2 DEF Packed
  <2>4. JobOK' BY <1>3 DEF Packed, JobOK
  <2> QED BY <2>3, <2>4
<1>4. CASE Return(g)
  <2>1. tarball' \in [Goroutines -> Tarball]
    BY <1>4, UnlinkedFile DEF Return
  <2>2. TypeOK' BY <1>4, <2>1 DEF Return
  <2>3. JobOK' BY <1>4 DEF Return, JobOK
  <2> QED BY <2>2, <2>3
<1> QED BY <1>1, <1>2, <1>3, <1>4

LEMMA VersionType ==
    ASSUME Base, NEW g \in Goroutines,
           Check(g) \/ Insert(g) \/ Upload(g)
    PROVE  Base'
<1> USE DeliveriesAssumption DEF Base, TypeOK, PCs, Goto, Lose, outside, files, listing
<1>1. CASE Check(g)
  <2>1. TypeOK' BY <1>1 DEF Check
  <2>2. JobOK' BY <1>1 DEF Check, JobOK
  <2> QED BY <2>1, <2>2
<1>2. CASE Insert(g)
  <2>1. TypeOK' BY <1>2, VersionRecords DEF Insert
  <2>2. JobOK' BY <1>2 DEF Insert, JobOK
  <2> QED BY <2>1, <2>2
<1>3. CASE Upload(g)
  <2>1. \A i \in Named(g) : Read(i) \in Object
    BY DEF Named, Read, Object, Tarball
  <2>2. version' \in [Goroutines -> Version]
    <3>1. \/ version' = version
          \/ \E v \in Version : version' = [version EXCEPT ![g] = v]
      BY <1>3, <2>1, VersionRecords DEF Upload
    <3> QED BY <3>1
  <2>3. TypeOK' BY <1>3, <2>2 DEF Upload
  <2>4. JobOK' BY <1>3 DEF Upload, JobOK
  <2> QED BY <2>3, <2>4
<1> QED BY <1>1, <1>2, <1>3

LEMMA RunType ==
    ASSUME Base, NEW g \in Goroutines,
           List(g) \/ CancelOne(g) \/ Queue(g) \/ RunMoves(g)
    PROVE  Base'
<1> USE DeliveriesAssumption
    DEF Base, TypeOK, PCs, Statuses, Goto, Lose, outside, files, listing
<1>1. CASE List(g)
  <2>1. TypeOK' BY <1>1 DEF List, Superseded
  <2>2. JobOK' BY <1>1 DEF List, JobOK
  <2> QED BY <2>1, <2>2
<1>2. CASE CancelOne(g)
  <2>1. TypeOK' BY <1>2 DEF CancelOne, Canceled
  <2>2. JobOK' BY <1>2 DEF CancelOne, JobOK
  <2> QED BY <2>1, <2>2
<1>3. CASE Queue(g)
  <2>1. TypeOK' BY <1>3 DEF Queue
  <2>2. JobOK' BY <1>3 DEF Queue, JobOK
  <2> QED BY <2>1, <2>2
<1>4. CASE RunMoves(g)
  <2>1. TypeOK' BY <1>4 DEF RunMoves, Moves
  <2>2. JobOK' BY <1>4 DEF RunMoves, JobOK
  <2> QED BY <2>1, <2>2
<1> QED BY <1>1, <1>2, <1>3, <1>4

LEMMA NextBase == Base /\ [Next]_vars => Base'
<1> SUFFICES ASSUME Base, [Next]_vars PROVE Base' OBVIOUS
<1>1. CASE Next
  BY <1>1, RepositoryType, ArrivalType, FileType, VersionType, RunType DEF Next, Step
<1>2. CASE UNCHANGED vars
  BY <1>2 DEF vars, Base, TypeOK, JobOK
<1> QED BY <1>1, <1>2

LEMMA BaseHolds == Spec => []Base
BY InitBase, NextBase, PTL DEF Spec

(* Every reachable state is well typed: a goroutine that cloned holds a       *)
(* commit that exists, one that writes a file has it open.                 *)
THEOREM TypeCorrect == Spec => []TypeOK
<1>1. Base => TypeOK BY DEF Base
<1> QED BY <1>1, BaseHolds, PTL

-----------------------------------------------------------------------------
(* Files: a temporary file is written by deliveries of its own name, and     *)
(* names stand for one kind and commit.                                    *)
ClonesOK == \A g \in Goroutines :
    pc[g] = "cloned" => ByBranch(g) \/ clone[g] = job[g].commit
WritersOK == \A i, w \in Goroutines :
    w \in tarball[i].writers => pc[w] = "packing" /\ fd[w] = i /\ Path(w) = Path(i)
OpenOK == \A w \in Goroutines : pc[w] = "packing" => Path(fd[w]) = Path(w)
LinkedOK == \A i \in Goroutines :
    tarball[i].linked => /\ job[i].kind # "user"
                         /\ ByBranch(i) \/ tarball[i].content = job[i].commit
TornOK == \A i \in Goroutines :
    tarball[i].torn => job[i].kind # "user" /\ (Shared(i) \/ i \in failed)

FilesOK == ClonesOK /\ WritersOK /\ OpenOK /\ LinkedOK /\ TornOK

LEMMA InitFiles == Init => FilesOK
BY DEF Init, FilesOK, ClonesOK, WritersOK, OpenOK, LinkedOK, TornOK, NoTarball

(* A failure is not forgotten.                                             *)
LEMMA FailuresKept == Next => failed \subseteq failed'
<1> SUFFICES ASSUME Next PROVE failed \subseteq failed' OBVIOUS
<1>1. CASE \E g \in Goroutines : Step(g)
  BY <1>1 DEF Step, Clone, Pack, Packed, Check, Insert, Upload, List, CancelOne,
              Queue, Return, Lose
<1> QED BY <1>1 DEF Next, Push, FastForward, MoveTip, Deliver, Request, RunMoves,
                    Lose

(* Deliveries keep what they are.                                          *)
LEMMA KeptJobs ==
    ASSUME Base, JobsKept, provider' = provider
    PROVE  \A g \in Goroutines : job[g].kind # "user" =>
              /\ job'[g] = job[g] /\ Path(g)' = Path(g)
              /\ ByBranch(g)' <=> ByBranch(g)
              /\ Shared(g) => Shared(g)'
BY DEF JobsKept, Path, ByBranch, Shared

(* Steps that leave the files alone.                                       *)
LEMMA SameFiles ==
    ASSUME Base, FilesOK, JobsKept, provider' = provider, UNCHANGED files,
           failed \subseteq failed',
           \A g \in Goroutines : /\ pc'[g] = "cloned" <=> pc[g] = "cloned"
                                 /\ pc'[g] = "packing" <=> pc[g] = "packing"
    PROVE  FilesOK'
<1> USE DEF Base, FilesOK, files
<1>1. ClonesOK'
  BY KeptJobs DEF ClonesOK, JobOK
<1>2. WritersOK'
  <2> SUFFICES ASSUME NEW i \in Goroutines, NEW w \in Goroutines,
                      w \in tarball[i].writers
               PROVE  pc'[w] = "packing" /\ fd'[w] = i /\ Path(w)' = Path(i)'
    BY DEF WritersOK
  <2>1. pc[w] = "packing" /\ fd[w] = i /\ Path(w) = Path(i)
    BY DEF WritersOK
  <2>2. job[w].kind # "user" /\ job[i].kind # "user"
    BY <2>1 DEF JobOK, Path
  <2> QED BY <2>1, <2>2, KeptJobs
<1>3. OpenOK'
  <2> SUFFICES ASSUME NEW w \in Goroutines, pc[w] = "packing"
               PROVE  Path(fd[w])' = Path(w)'
    BY DEF OpenOK
  <2>1. fd[w] \in Goroutines /\ Path(fd[w]) = Path(w) BY DEF OpenOK, TypeOK
  <2>2. job[w].kind # "user" /\ job[fd[w]].kind # "user"
    BY <2>1 DEF JobOK, Path
  <2>3. UNCHANGED fd OBVIOUS
  <2> QED BY <2>1, <2>2, <2>3, KeptJobs DEF Path
<1>4. LinkedOK'
  BY KeptJobs DEF LinkedOK
<1>5. TornOK'
  BY KeptJobs DEF TornOK
<1> QED BY <1>1, <1>2, <1>3, <1>4, <1>5

LEMMA CloneFiles ==
    ASSUME Base, FilesOK, JobsKept, NEW g \in Goroutines, Clone(g)
    PROVE  FilesOK'
<1> USE DEF Base, TypeOK, FilesOK, Clone, Goto, outside
<1>1. ClonesOK'
  BY DEF ClonesOK, CheckedOut, ByBranch
<1>2. WritersOK' /\ OpenOK' BY DEF WritersOK, OpenOK, Path
<1>3. LinkedOK' BY DEF LinkedOK, ByBranch
<1>4. TornOK' BY DEF TornOK, Shared, Lose
<1> QED BY <1>1, <1>2, <1>3, <1>4

LEMMA PackFiles ==
    ASSUME Base, FilesOK, JobsKept, NEW g \in Goroutines, Pack(g)
    PROVE  FilesOK'
<1> USE DEF Base, TypeOK, FilesOK
<1> DEFINE T(i, W, b) == [linked |-> TRUE, content |-> clone[g], writers |-> W,
                          torn |-> b]
<1>1. /\ pc[g] = "cloned" /\ pc' = [pc EXCEPT ![g] = "packing"]
      /\ UNCHANGED <<provider, job, failed>>
      /\ \A h \in Goroutines : h # g => clone'[h] = clone[h]
  BY DEF Pack, Goto, outside
<1>2. job[g].kind # "user" /\ (ByBranch(g) \/ clone[g] = job[g].commit)
  BY <1>1 DEF JobOK, ClonesOK
<1>3. PICK i \in Goroutines : \E W \in SUBSET Goroutines : \E b \in BOOLEAN :
         /\ Path(i) = Path(g)
         /\ tarball' = [tarball EXCEPT ![i] = T(i, W, b)]
         /\ fd' = [fd EXCEPT ![g] = i]
         /\ W \subseteq tarball[i].writers \cup {g}
         /\ b => tarball[i].writers # {}
  <2>1. CASE Named(g) = {}
    <3>1. /\ tarball' = [tarball EXCEPT ![g] = T(g, {g}, FALSE)]
          /\ fd' = [fd EXCEPT ![g] = g]
      BY <2>1 DEF Pack
    <3>2. {g} \in SUBSET Goroutines /\ {g} \subseteq tarball[g].writers \cup {g}
      OBVIOUS
    <3> QED BY <3>1, <3>2
  <2>2. CASE Named(g) # {}
    <3>1. PICK i \in Named(g) :
             /\ tarball' = [tarball EXCEPT ![i] =
                    T(i, tarball[i].writers \cup {g}, tarball[i].writers # {})]
             /\ fd' = [fd EXCEPT ![g] = i]
      BY <2>2 DEF Pack
    <3>2. i \in Goroutines /\ Path(i) = Path(g)
      BY DEF Named
    <3>3. tarball[i].writers \cup {g} \in SUBSET Goroutines
      BY <3>2 DEF Tarball
    <3>4. (tarball[i].writers # {}) \in BOOLEAN
      OBVIOUS
    <3> QED BY <3>1, <3>2, <3>3, <3>4
  <2> QED BY <2>1, <2>2
<1>4. PICK W \in SUBSET Goroutines, b \in BOOLEAN :
         /\ tarball' = [tarball EXCEPT ![i] = T(i, W, b)]
         /\ W \subseteq tarball[i].writers \cup {g}
         /\ b => tarball[i].writers # {}
  BY <1>3
<1>5. Path(i) = Path(g) /\ fd' = [fd EXCEPT ![g] = i]
  BY <1>3
<1>6. /\ tarball'[i] = T(i, W, b)
      /\ \A j \in Goroutines : j # i => tarball'[j] = tarball[j]
  BY <1>4
<1>7. job[i].kind = job[g].kind /\ job[i].commit = job[g].commit
      /\ (ByBranch(i) <=> ByBranch(g))
  BY <1>5 DEF Path, ByBranch
<1>8. \A h \in Goroutines : Path(h)' = Path(h) /\ (ByBranch(h)' <=> ByBranch(h))
                            /\ (Shared(h)' <=> Shared(h))
  BY <1>1 DEF Path, ByBranch, Shared
<1>9. ClonesOK'
  <2> SUFFICES ASSUME NEW h \in Goroutines, pc'[h] = "cloned"
               PROVE  ByBranch(h)' \/ clone'[h] = job'[h].commit
    BY DEF ClonesOK
  <2>1. h # g /\ pc[h] = "cloned" BY <1>1
  <2> QED BY <2>1, <1>1, <1>8 DEF ClonesOK
<1>10. WritersOK'
  <2> SUFFICES ASSUME NEW j \in Goroutines, NEW w \in Goroutines,
                      w \in tarball'[j].writers
               PROVE  pc'[w] = "packing" /\ fd'[w] = j /\ Path(w)' = Path(j)'
    BY DEF WritersOK
  <2>1. CASE w \in tarball[j].writers
    <3>1. pc[w] = "packing" /\ fd[w] = j /\ Path(w) = Path(j)
      BY <2>1 DEF WritersOK
    <3> QED BY <3>1, <1>1, <1>5, <1>8
  <2>2. CASE w \notin tarball[j].writers
    <3>1. j = i BY <2>2, <1>6
    <3>2. w = g BY <2>2, <3>1, <1>4, <1>6
    <3> QED BY <3>1, <3>2, <1>1, <1>5, <1>8
  <2> QED BY <2>1, <2>2
<1>11. LinkedOK'
  <2> SUFFICES ASSUME NEW j \in Goroutines, tarball'[j].linked
               PROVE  /\ job'[j].kind # "user"
                      /\ ByBranch(j)' \/ tarball'[j].content = job'[j].commit
    BY DEF LinkedOK
  <2>1. CASE j = i
    BY <2>1, <1>1, <1>2, <1>6, <1>7, <1>8
  <2>2. CASE j # i
    BY <2>2, <1>1, <1>6, <1>8 DEF LinkedOK
  <2> QED BY <2>1, <2>2
<1>12. TornOK'
  <2> SUFFICES ASSUME NEW j \in Goroutines, tarball'[j].torn
               PROVE  job'[j].kind # "user" /\ (Shared(j)' \/ j \in failed')
    BY DEF TornOK
  <2>1. CASE j = i
    <3>1. b BY <2>1, <1>6
    <3>2. PICK w \in tarball[i].writers : TRUE BY <3>1, <1>4
    <3>3. w \in Goroutines BY DEF Tarball
    <3>4. pc[w] = "packing" /\ Path(w) = Path(i)
      BY <3>2, <3>3 DEF WritersOK
    <3>5. w # g BY <3>4, <1>1
    <3>6. Shared(i)
      <4>1. CASE i = g
        BY <3>3, <3>4, <3>5, <4>1 DEF Shared, Path
      <4>2. CASE i # g
        BY <1>7, <4>2 DEF Shared
      <4> QED BY <4>1, <4>2
    <3> QED BY <2>1, <3>6, <1>1, <1>2, <1>7, <1>8
  <2>2. CASE j # i
    BY <2>2, <1>1, <1>6, <1>8 DEF TornOK
  <2> QED BY <2>1, <2>2
<1>13. OpenOK'
  <2> SUFFICES ASSUME NEW w \in Goroutines, pc'[w] = "packing"
               PROVE  Path(fd[w])' = Path(w)'
    BY DEF OpenOK
  <2>1. CASE w = g
    <3>1. fd'[w] = i BY <2>1, <1>5
    <3> QED BY <3>1, <2>1, <1>5, <1>8
  <2>2. CASE w # g
    <3>1. pc[w] = "packing" /\ fd'[w] = fd[w] BY <2>2, <1>1, <1>5
    <3>2. Path(fd[w]) = Path(w) /\ fd[w] \in Goroutines BY <3>1 DEF OpenOK
    <3> QED BY <3>1, <3>2, <1>8
  <2> QED BY <2>1, <2>2
<1> QED BY <1>9, <1>10, <1>11, <1>12, <1>13

LEMMA PackedFiles ==
    ASSUME Base, FilesOK, JobsKept, NEW g \in Goroutines, Packed(g)
    PROVE  FilesOK'
<1> USE DEF Base, TypeOK, FilesOK
<1>1. /\ pc[g] = "packing" /\ fd' = [fd EXCEPT ![g] = None]
      /\ \A h \in Goroutines : h # g => pc'[h] = pc[h]
      /\ pc'[g] # "cloned"
      /\ UNCHANGED <<provider, job, clone>>
  BY DEF Packed, Goto, outside
<1>2. fd[g] \in Goroutines BY <1>1
<1>3. \A j \in Goroutines :
         /\ tarball'[j].linked = tarball[j].linked
         /\ tarball'[j].content = tarball[j].content
         /\ tarball'[j].torn => tarball[j].torn \/ (j = fd[g] /\ g \in failed')
         /\ tarball'[j].writers \subseteq tarball[j].writers
         /\ j = fd[g] => g \notin tarball'[j].writers
  <2>1. /\ Closed(tarball[fd[g]], g) \in Tarball
        /\ Closed(tarball[fd[g]], g).linked = tarball[fd[g]].linked
        /\ Closed(tarball[fd[g]], g).content = tarball[fd[g]].content
        /\ Closed(tarball[fd[g]], g).writers = tarball[fd[g]].writers \ {g}
        /\ Closed(tarball[fd[g]], g).torn = tarball[fd[g]].torn
    BY <1>2, ClosedFile
  <2>2. CASE tarball' = [tarball EXCEPT ![fd[g]] = Closed(@, g)]
    BY <1>2, <2>1, <2>2
  <2>3. CASE /\ tarball' = [tarball EXCEPT ![fd[g]] = CutShort(Closed(@, g))]
             /\ g \in failed'
    BY <1>2, <2>1, <2>3, CutShortFile
  <2> QED BY <2>2, <2>3 DEF Packed, Lose
<1>4. \A h \in Goroutines : Path(h)' = Path(h) /\ (ByBranch(h)' <=> ByBranch(h))
                            /\ (Shared(h)' <=> Shared(h))
  BY <1>1 DEF Path, ByBranch, Shared
<1>5. ClonesOK' BY <1>1, <1>4 DEF ClonesOK
<1>6. WritersOK'
  <2> SUFFICES ASSUME NEW j \in Goroutines, NEW w \in Goroutines,
                      w \in tarball'[j].writers
               PROVE  pc'[w] = "packing" /\ fd'[w] = j /\ Path(w)' = Path(j)'
    BY DEF WritersOK
  <2>1. pc[w] = "packing" /\ fd[w] = j /\ Path(w) = Path(j)
    BY <1>3 DEF WritersOK
  <2>2. w # g BY <2>1, <1>3
  <2> QED BY <2>1, <2>2, <1>1, <1>4
<1>7. LinkedOK' BY <1>1, <1>3, <1>4 DEF LinkedOK
<1>8. TornOK'
  <2> SUFFICES ASSUME NEW j \in Goroutines, tarball'[j].torn
               PROVE  job'[j].kind # "user" /\ (Shared(j)' \/ j \in failed')
    BY DEF TornOK
  <2>1. CASE tarball[j].torn
    BY <2>1, <1>1, <1>4 DEF TornOK, Packed, Lose
  <2>2. CASE j = fd[g] /\ g \in failed'
    <3>1. Path(j) = Path(g) BY <2>2, <1>1 DEF OpenOK
    <3>2. job[g].kind # "user" BY <1>1 DEF JobOK
    <3>3. j = g \/ Shared(j) BY <3>1 DEF Shared, Path
    <3> QED BY <2>2, <3>1, <3>2, <3>3, <1>1, <1>4 DEF Path
  <2> QED BY <2>1, <2>2, <1>3
<1>9. OpenOK'
  <2> SUFFICES ASSUME NEW w \in Goroutines, pc'[w] = "packing"
               PROVE  Path(fd[w])' = Path(w)'
    BY DEF OpenOK
  <2>1. w # g BY DEF Packed, Goto
  <2>2. pc[w] = "packing" /\ fd'[w] = fd[w] BY <2>1, <1>1
  <2>3. Path(fd[w]) = Path(w) /\ fd[w] \in Goroutines BY <2>2 DEF OpenOK
  <2> QED BY <2>2, <2>3, <1>4
<1> QED BY <1>5, <1>6, <1>7, <1>8, <1>9

LEMMA ReturnFiles ==
    ASSUME Base, FilesOK, JobsKept, NEW g \in Goroutines, Return(g)
    PROVE  FilesOK'
<1> USE DEF Base, TypeOK, FilesOK
<1>1. /\ pc[g] = "returning" /\ pc' = [pc EXCEPT ![g] = "over"]
      /\ UNCHANGED <<provider, job, clone, fd, failed>>
  BY DEF Return, Goto, outside
<1>2. \A j \in Goroutines :
         /\ tarball'[j].linked => tarball'[j] = tarball[j]
         /\ tarball'[j].torn => tarball[j].torn
         /\ tarball'[j].writers = tarball[j].writers
  BY UnlinkedFile DEF Return
<1>3. \A h \in Goroutines : Path(h)' = Path(h) /\ (ByBranch(h)' <=> ByBranch(h))
                            /\ (Shared(h)' <=> Shared(h))
  BY <1>1 DEF Path, ByBranch, Shared
<1>4. ClonesOK' BY <1>1, <1>3 DEF ClonesOK
<1>5. WritersOK' BY <1>1, <1>2, <1>3 DEF WritersOK
<1>6. LinkedOK' BY <1>1, <1>2, <1>3 DEF LinkedOK
<1>7. TornOK' BY <1>1, <1>2, <1>3 DEF TornOK
<1>8. OpenOK'
  <2> SUFFICES ASSUME NEW w \in Goroutines, pc'[w] = "packing"
               PROVE  Path(fd[w])' = Path(w)'
    BY DEF OpenOK
  <2>1. pc[w] = "packing" /\ fd'[w] = fd[w] BY <1>1
  <2>2. Path(fd[w]) = Path(w) /\ fd[w] \in Goroutines BY <2>1 DEF OpenOK
  <2> QED BY <2>1, <2>2, <1>3
<1> QED BY <1>4, <1>5, <1>6, <1>7, <1>8

(* Which steps leave the files alone.                                      *)
LEMMA OtherFiles ==
    ASSUME Base, Next,
           \A g \in Goroutines : ~(Clone(g) \/ Pack(g) \/ Packed(g) \/ Return(g))
    PROVE  /\ UNCHANGED files
           /\ \A g \in Goroutines : /\ pc'[g] = "cloned" <=> pc[g] = "cloned"
                                    /\ pc'[g] = "packing" <=> pc[g] = "packing"
<1> USE DEF Base, TypeOK, files
<1>1. CASE \/ \E b \in Branches : Push(b)
           \/ \E p \in Pulls : FastForward(p)
  BY <1>1 DEF Push, FastForward, MoveTip
<1>2. CASE \E g \in Goroutines : Request(g) \/ \E e \in events : Deliver(g, e)
  BY <1>2 DEF Deliver, Request, Goto
<1>3. CASE \E g \in Goroutines : Step(g)
  BY <1>3 DEF Step, Check, Insert, Upload, List, CancelOne, Queue, Goto
<1>4. CASE \E g \in Goroutines : RunMoves(g)
  BY <1>4 DEF RunMoves
<1> QED BY <1>1, <1>2, <1>3, <1>4 DEF Next

LEMMA SameProvider == Next => provider' = provider
<1> SUFFICES ASSUME Next PROVE provider' = provider OBVIOUS
<1>1. CASE \E g \in Goroutines : Step(g)
  BY <1>1 DEF Step, Clone, Pack, Packed, Check, Insert, Upload, List, CancelOne,
              Queue, Return, outside
<1> QED BY <1>1 DEF Next, Push, FastForward, MoveTip, Deliver, Request, RunMoves,
                    outside

LEMMA NextFiles == Base /\ FilesOK /\ [Next]_vars => FilesOK'
<1> SUFFICES ASSUME Base, FilesOK, [Next]_vars PROVE FilesOK' OBVIOUS
<1>1. CASE Next
  <2>1. JobsKept BY <1>1, JobsAreKept
  <2>2. CASE \E g \in Goroutines : Clone(g) \/ Pack(g) \/ Packed(g) \/ Return(g)
    BY <2>1, <2>2, CloneFiles, PackFiles, PackedFiles, ReturnFiles
  <2>3. CASE ~\E g \in Goroutines : Clone(g) \/ Pack(g) \/ Packed(g) \/ Return(g)
    BY <1>1, <2>1, <2>3, SameProvider, FailuresKept, OtherFiles, SameFiles
  <2> QED BY <2>2, <2>3
<1>2. CASE UNCHANGED vars
  BY <1>2 DEF vars, FilesOK, ClonesOK, WritersOK, OpenOK, LinkedOK, TornOK, ByBranch,
              Path, Shared
<1> QED BY <1>1, <1>2

-----------------------------------------------------------------------------
(* Versions: none before a goroutine inserts its own; objects as the commit  *)
(* says.                                                                   *)
Before == {"idle", "waiting", "cloned", "packing", "packed", "checked"}
NoneBefore == \A g \in Goroutines : pc[g] \in Before => version[g] = NoVersion

(* What one step does to versions: an upload by g stores what it reads.      *)
LEMMA VersionSteps ==
    ASSUME Base, Next, NoneBefore, NEW h \in Goroutines
    PROVE  \/ version'[h] = version[h]
           \/ version'[h].object = None
           \/ job'[h].kind = "user"
           \/ /\ pc[h] = "inserted" /\ UNCHANGED <<job, provider>>
              /\ \E i \in Named(h) : version'[h].object = Read(i)
<1> USE DEF Base, TypeOK
<1>1. CASE \E g \in Goroutines : Step(g)
  <2> PICK g \in Goroutines : Step(g) BY <1>1
  <2>1. CASE Upload(g)
    <3>1. pc[g] = "inserted" /\ UNCHANGED <<job, provider>>
      BY <2>1 DEF Upload, Goto, outside
    <3>2. \/ UNCHANGED version
          \/ version' = [version EXCEPT ![g] = Errored]
          \/ \E i \in Named(g) :
               \/ version' = [version EXCEPT ![g] =
                                [status |-> "uploaded", object |-> Read(i)]]
               \/ version' = [version EXCEPT ![g] =
                                [status |-> "pending", object |-> Read(i)]]
      BY <2>1 DEF Upload
    <3> QED BY <3>1, <3>2 DEF Errored
  <2>2. CASE Insert(g)
    BY <2>2 DEF Insert, Reserved
  <2>3. CASE ~Upload(g) /\ ~Insert(g)
    BY <2>3 DEF Step, Clone, Pack, Packed, Check, List, CancelOne, Queue, Return
  <2> QED BY <2>1, <2>2, <2>3
<1>2. CASE \E g \in Goroutines : Request(g)
  <2> PICK g \in Goroutines : Request(g) BY <1>2
  <2>1. job'[g].kind = "user" BY DEF Request, NoJob
  <2>2. h # g => version'[h] = version[h] BY DEF Request
  <2> QED BY <2>1, <2>2
<1> QED BY <1>1, <1>2 DEF Next, Push, FastForward, MoveTip, Deliver, RunMoves

LEMMA NextNoneBefore == Base /\ NoneBefore /\ [Next]_vars => NoneBefore'
<1> SUFFICES ASSUME Base, NoneBefore, [Next]_vars PROVE NoneBefore' OBVIOUS
<1> USE DEF Base, TypeOK, NoneBefore, Before
<1>1. CASE \E g \in Goroutines : Step(g)
  BY <1>1 DEF Step, Clone, Pack, Packed, Check, Insert, Upload, List, CancelOne,
              Queue, Return, Goto
<1>2. CASE \E g \in Goroutines : Request(g) \/ \E e \in events : Deliver(g, e)
  BY <1>2 DEF Request, Deliver, Goto
<1>3. CASE UNCHANGED vars
  BY <1>3 DEF vars
<1> QED BY <1>1, <1>2, <1>3 DEF Next, Push, FastForward, MoveTip, RunMoves

(* A file of g's name that g can read holds its commit, and is torn only if   *)
(* another delivery has its name or g failed itself.                       *)
LEMMA ReadsItsCommit ==
    ASSUME Base, FilesOK, NEW g \in Goroutines, job[g].kind # "user",
           pc[g] # "packing", NEW i \in Named(g)
    PROVE  /\ ByBranch(g) \/ Read(i).commit = job[g].commit
           /\ Shared(g) \/ g \in failed \/ Read(i).whole
<1> USE DEF Base, TypeOK, FilesOK
<1>1. i \in Goroutines /\ tarball[i].linked /\ Path(i) = Path(g)
  BY DEF Named
<1>2. job[i].kind = job[g].kind /\ job[i].commit = job[g].commit
      /\ (ByBranch(i) <=> ByBranch(g))
  BY <1>1 DEF Path, ByBranch
<1>3. ByBranch(g) \/ Read(i).commit = job[g].commit
  BY <1>1, <1>2 DEF LinkedOK, Read
<1>4. ASSUME ~Shared(g), g \notin failed PROVE Read(i).whole
  <2>1. i = g BY <1>1, <1>2, <1>4 DEF Shared
  <2>2. tarball[g].writers = {}
    <3> SUFFICES ASSUME NEW w \in tarball[g].writers PROVE FALSE OBVIOUS
    <3>1. w \in Goroutines BY DEF Tarball
    <3>2. pc[w] = "packing" /\ Path(w) = Path(g) BY <3>1 DEF WritersOK
    <3> QED BY <3>1, <3>2, <1>4 DEF Shared, Path
  <2>3. ~tarball[g].torn BY <1>4 DEF TornOK
  <2> QED BY <2>1, <2>2, <2>3 DEF Read
<1> QED BY <1>3, <1>4

LEMMA NextHolds ==
    Base /\ FilesOK /\ NoneBefore /\ HoldsItsCommit /\ [Next]_vars => HoldsItsCommit'
<1> SUFFICES ASSUME Base, FilesOK, NoneBefore, HoldsItsCommit, [Next]_vars
             PROVE  HoldsItsCommit'
  OBVIOUS
<1>1. CASE Next
  <2>1. JobsKept /\ provider' = provider BY <1>1, JobsAreKept, SameProvider
  <2> SUFFICES ASSUME NEW h \in Goroutines, version'[h].object # None,
                      job'[h].kind # "user"
               PROVE  /\ ByBranch(h)' \/ version'[h].object.commit = job'[h].commit
                      /\ Shared(h)' \/ h \in failed' \/ version'[h].object.whole
    BY DEF HoldsItsCommit
  <2>2. CASE version'[h] = version[h]
    <3>1. version[h] # NoVersion BY <2>2 DEF NoVersion
    <3>2. pc[h] # "idle" BY <3>1 DEF NoneBefore, Before
    <3>3. job'[h] = job[h] BY <2>1, <3>2 DEF JobsKept
    <3> QED BY <1>1, <2>1, <2>2, <3>3, KeptJobs, FailuresKept DEF HoldsItsCommit
  <2>3. CASE version'[h] # version[h]
    <3>1. pc[h] = "inserted" /\ UNCHANGED <<job, provider>>
      BY <1>1, <2>3, VersionSteps
    <3>2. PICK i \in Named(h) : version'[h].object = Read(i)
      BY <1>1, <2>3, VersionSteps
    <3>3. /\ ByBranch(h) \/ Read(i).commit = job[h].commit
          /\ Shared(h) \/ h \in failed \/ Read(i).whole
      BY <3>1, ReadsItsCommit
    <3> QED BY <1>1, <3>1, <3>2, <3>3, FailuresKept DEF ByBranch, Shared
  <2> QED BY <2>2, <2>3
<1>2. CASE UNCHANGED vars
  BY <1>2 DEF vars, HoldsItsCommit, ByBranch, Shared
<1> QED BY <1>1, <1>2

(* A version holds its own commit, whole unless the commit was delivered      *)
(* twice or its own delivery failed: the file it was uploaded from was     *)
(* shared only with its like.                                              *)
THEOREM Holds == Spec => []HoldsItsCommit
<1>1. Init => FilesOK /\ NoneBefore /\ HoldsItsCommit
  <2>1. Init => NoneBefore /\ HoldsItsCommit
    BY DEF Init, NoneBefore, HoldsItsCommit, NoVersion
  <2> QED BY <2>1, InitFiles
<1>2. FilesOK /\ NoneBefore /\ HoldsItsCommit /\ Base /\ [Next]_vars
        => (FilesOK /\ NoneBefore /\ HoldsItsCommit)'
  BY NextFiles, NextNoneBefore, NextHolds
<1> QED BY <1>1, <1>2, BaseHolds, PTL DEF Spec

-----------------------------------------------------------------------------
(* Runs superseded: what a goroutine owes is on its list, or past waiting    *)
(* for good.                                                               *)
Over == {"returning", "over"}
Past == {"post_plan_completed", "ended"}
ListsOK == \A g \in Goroutines :
    /\ pc[g] # "canceling" => todo[g] = {}
    /\ pc[g] \notin Over \cup {"canceling"} => owed[g] = {}
    /\ run[g] # "none" => pc[g] \in Over
    /\ \A h \in owed[g] : run[h] # "none" /\ (h \in todo[g] \/ run[h] \in Past)

(* Canceling ends a run that waits and leaves every other.                 *)
LEMMA CanceledRuns ==
    ASSUME Base, NEW h \in Goroutines, NEW j \in Goroutines
    PROVE  /\ Canceled(h)[j] = run[j] \/ (Canceled(h)[j] = "ended" /\ run[j] # "none")
           /\ run[j] \in Past => Canceled(h)[j] = run[j]
<1>1. run \in [Goroutines -> Statuses] BY DEF Base, TypeOK
<1>2. CASE run[h] \in Waiting
  <2>1. Canceled(h) = [run EXCEPT ![h] = "ended"] BY <1>2 DEF Canceled
  <2>2. run[h] # "none" BY <1>2 DEF Waiting
  <2> QED BY <1>1, <1>2, <2>1, <2>2 DEF Waiting, Past
<1>3. CASE run[h] \notin Waiting
  BY <1>3 DEF Canceled
<1> QED BY <1>2, <1>3

LEMMA NextLists == Base /\ ListsOK /\ [Next]_vars => ListsOK'
<1> SUFFICES ASSUME Base, ListsOK, [Next]_vars PROVE ListsOK' OBVIOUS
<1> USE DEF Base, TypeOK, ListsOK, Over
<1>1. ASSUME NEW g \in Goroutines, List(g) PROVE ListsOK'
  <2>1. /\ pc[g] = "uploaded" /\ pc' = [pc EXCEPT ![g] = "canceling"]
        /\ UNCHANGED run
    BY <1>1 DEF List, Goto
  <2>2. \/ UNCHANGED <<todo, owed>>
        \/ /\ todo' = [todo EXCEPT ![g] = {h \in Superseded(g) : run[h] \in Waiting}]
           /\ owed' = [owed EXCEPT ![g] = Superseded(g) \ UnderWay]
    BY <1>1 DEF List, listing
  <2>3. \A h \in Superseded(g) \ UnderWay : run[h] \in Waiting \cup Past
    BY DEF Superseded, UnderWay, Waiting, Statuses, Past
  <2>4. CASE UNCHANGED <<todo, owed>>
    BY <2>1, <2>4
  <2>5. CASE /\ todo' = [todo EXCEPT ![g] = {h \in Superseded(g) : run[h] \in Waiting}]
             /\ owed' = [owed EXCEPT ![g] = Superseded(g) \ UnderWay]
    <3>1. \A h \in owed'[g] : run'[h] # "none" /\ (h \in todo'[g] \/ run'[h] \in Past)
      BY <2>1, <2>3, <2>5 DEF Superseded
    <3>2. \A i \in Goroutines : i # g => todo'[i] = todo[i] /\ owed'[i] = owed[i]
      BY <2>5
    <3>3. \A i \in Goroutines : i # g => pc'[i] = pc[i]
      BY <2>1
    <3>4. pc'[g] = "canceling" /\ run'[g] = "none"
      BY <2>1
    <3> QED BY <2>1, <3>1, <3>2, <3>3, <3>4
  <2> QED BY <2>2, <2>4, <2>5
<1>2. ASSUME NEW g \in Goroutines, CancelOne(g) PROVE ListsOK'
  <2>1. pc[g] = "canceling" /\ UNCHANGED pc BY <1>2 DEF CancelOne
  <2>2. PICK h \in todo[g] :
          /\ todo' = [todo EXCEPT ![g] = @ \ {h}]
          /\ \/ /\ run' = Canceled(h)
                /\ owed' = [owed EXCEPT ![g] = @ \ (UnderWay \cap {h})]
             \/ UNCHANGED run /\ owed' = [owed EXCEPT ![g] = @ \ {h}]
    BY <1>2 DEF CancelOne
  <2>3. h \in Goroutines OBVIOUS
  <2>4. \A j \in Goroutines : /\ run'[j] = run[j] \/ (run'[j] = "ended" /\ run[j] # "none")
                              /\ run[j] \in Past => run'[j] = run[j]
    <3>1. run' = run \/ run' = Canceled(h)
      BY <2>2
    <3> QED BY <2>3, <3>1, CanceledRuns
  <2>5. \A i \in Goroutines : \A j \in owed'[i] :
           run'[j] # "none" /\ (j \in todo'[i] \/ run'[j] \in Past)
    <3> SUFFICES ASSUME NEW i \in Goroutines, NEW j \in owed'[i]
                 PROVE  run'[j] # "none" /\ (j \in todo'[i] \/ run'[j] \in Past)
      OBVIOUS
    <3>1. j \in owed[i] /\ j \in Goroutines BY <2>2
    <3>4. run'[j] # "none" BY <3>1, <2>4
    <3> SUFFICES ASSUME j \notin todo'[i] PROVE run'[j] \in Past BY <3>4
    <3>2. CASE run[j] \in Past BY <3>1, <3>2, <2>4
    <3>3. CASE run[j] \notin Past
      <4>1. j \in todo[i] BY <3>1, <3>3
      <4>2. i = g /\ j = h BY <4>1, <2>2
      <4>3. run' = Canceled(h) /\ h \notin UnderWay BY <4>2, <2>2
      <4>4. run[h] \in Waiting
        <5>1. /\ run[h] \in Statuses /\ run[h] \notin Past
              /\ run[h] \notin {"pre_plan", "planning", "post_plan_running"}
          BY <2>3, <3>3, <4>2, <4>3 DEF UnderWay
        <5>2. run[h] # "none"
          BY <3>1, <4>2
        <5> QED BY <5>1, <5>2 DEF Statuses, Waiting, Past
      <4> QED BY <4>2, <4>3, <4>4, <2>3 DEF Canceled, Past
    <3> QED BY <3>2, <3>3
  <2> QED BY <2>1, <2>2, <2>4, <2>5
<1>3. ASSUME NEW g \in Goroutines, Queue(g) PROVE ListsOK'
  <2>1. /\ pc[g] = "canceling" /\ pc' = [pc EXCEPT ![g] = "returning"]
        /\ todo[g] = {} /\ UNCHANGED <<todo, owed>>
    BY <1>3 DEF Queue, Goto, listing
  <2>2. run[g] = "none" BY <2>1
  <2>3. UNCHANGED run \/ run' = [run EXCEPT ![g] = "pending"]
    BY <1>3 DEF Queue
  <2> QED BY <2>1, <2>2, <2>3
<1>4. ASSUME NEW g \in Goroutines, RunMoves(g) PROVE ListsOK'
  <2>1. UNCHANGED <<pc, todo, owed>> BY <1>4 DEF RunMoves, listing
  <2>2. \A j \in Goroutines : /\ run'[j] # "none" <=> run[j] # "none"
                              /\ run[j] \in Past => run'[j] \in Past
    BY <1>4 DEF RunMoves, Moves, Past, Statuses
  <2> QED BY <2>1, <2>2
<1>5. ASSUME UNCHANGED <<run, todo, owed>>,
             \A g \in Goroutines :
                \/ pc'[g] = pc[g]
                \/ pc[g] \notin Over \cup {"canceling"} /\ pc'[g] # "canceling"
      PROVE  ListsOK'
  BY <1>5
<1>6. ASSUME NEW g \in Goroutines,
             \/ Clone(g) \/ Pack(g) \/ Packed(g) \/ Check(g) \/ Insert(g)
             \/ Upload(g) \/ Request(g) \/ \E e \in events : Deliver(g, e)
      PROVE  ListsOK'
  BY <1>5, <1>6 DEF Clone, Pack, Packed, Check, Insert, Upload, Request, Deliver,
                    Goto, listing
<1>7. ASSUME NEW g \in Goroutines, Return(g) PROVE ListsOK'
  BY <1>7 DEF Return, Goto, listing
<1>8. ASSUME \/ \E b \in Branches : Push(b)
             \/ \E q \in Pulls : FastForward(q)
      PROVE  ListsOK'
  BY <1>5, <1>8 DEF Push, FastForward, MoveTip, listing
<1>9. CASE UNCHANGED vars
  BY <1>5, <1>9 DEF vars
<1> QED BY <1>1, <1>2, <1>3, <1>4, <1>6, <1>7, <1>8, <1>9 DEF Next, Step

(* Once a run is queued, nothing it found pending or planned is still so,     *)
(* unless it was under way when its turn came or its cancellation failed.  *)
THEOREM Superseded_Out == Spec => []SupersededIsOut
<1>1. Init => ListsOK
  BY DEF Init, ListsOK, Over
<1>2. Base /\ ListsOK => SupersededIsOut
  BY DEF Base, TypeOK, ListsOK, SupersededIsOut, Over, Waiting, Past
<1> QED BY <1>1, <1>2, NextLists, BaseHolds, PTL DEF Spec

-----------------------------------------------------------------------------
(* Deliveries: while one is on its way its file is there, or another of its   *)
(* name took it; it ends without a run for a failure or for a rival.       *)
Rival(g) == \E h \in Goroutines \ {g} :
    /\ job[h].commit = job[g].commit
    /\ job[g].kind = "pull" => job[h].kind = "pull"
OnItsWay == {"packing", "packed", "checked", "inserted"}
FileOK == \A g \in Goroutines : pc[g] \in OnItsWay => Named(g) # {} \/ Rival(g)
EndOK == \A g \in Goroutines :
    pc[g] \in Over /\ job[g].kind # "user" =>
       run[g] # "none" \/ g \in failed \/ Rival(g)

LEMMA RivalKept ==
    ASSUME Base, JobsKept, NEW g \in Goroutines, job[g].kind # "user", Rival(g)
    PROVE  Rival(g)'
<1>1. PICK h \in Goroutines \ {g} : /\ job[h].commit = job[g].commit
                                    /\ job[g].kind = "pull" => job[h].kind = "pull"
  BY DEF Rival
<1>2. job[h].kind # "user" BY <1>1 DEF Base, JobOK
<1> QED BY <1>1, <1>2 DEF Rival, JobsKept

LEMMA NextFile == Base /\ FilesOK /\ FileOK /\ [Next]_vars => FileOK'
<1> SUFFICES ASSUME Base, FilesOK, FileOK, [Next]_vars PROVE FileOK' OBVIOUS
<1> USE DEF Base, TypeOK
<1>1. CASE Next
  <2>1. JobsKept BY <1>1, JobsAreKept
  <2>2. SUFFICES ASSUME NEW h \in Goroutines, pc'[h] \in OnItsWay, ~Rival(h)'
                 PROVE  Named(h)' # {}
    BY DEF FileOK
  <2>3. ASSUME pc[h] \in OnItsWay, UNCHANGED <<job, tarball>> PROVE Named(h)' # {}
    BY <2>2, <2>3 DEF FileOK, Named, Path, Rival
  <2>4. ASSUME NEW g \in Goroutines, Return(g) PROVE Named(h)' # {}
    <3>1. UNCHANGED job /\ pc[g] = "returning" /\ pc'[g] = "over"
      BY <2>4 DEF Return, Goto, outside
    <3>2. h # g /\ pc[h] \in OnItsWay
      BY <2>2, <2>4, <3>1 DEF Return, Goto, OnItsWay
    <3>3. Path(g) # Path(h) BY <2>2, <3>1, <3>2 DEF Rival, Path
    <3>4. PICK i \in Named(h) : TRUE BY <2>2, <3>1, <3>2 DEF FileOK, Rival
    <3>5. i \in Goroutines /\ i \notin Named(g) BY <3>3, <3>4 DEF Named
    <3>6. tarball'[i] = tarball[i] BY <2>4, <3>5 DEF Return
    <3> QED BY <3>1, <3>4, <3>6 DEF Named, Path
  <2>5. ASSUME NEW g \in Goroutines, Pack(g) PROVE Named(h)' # {}
    <3>1. UNCHANGED job /\ pc[g] = "cloned" /\ pc' = [pc EXCEPT ![g] = "packing"]
      BY <2>5 DEF Pack, Goto, outside
    <3>2. \A i \in Goroutines : Path(i)' = Path(i) BY <3>1 DEF Path
    <3>3. /\ \A i \in Goroutines : tarball[i].linked => tarball'[i].linked
          /\ \E i \in Goroutines : Path(i) = Path(g) /\ tarball'[i].linked
      <4>1. CASE Named(g) = {}
        BY <2>5, <4>1 DEF Pack
      <4>2. CASE Named(g) # {}
        BY <2>5, <4>2 DEF Pack, Named
      <4> QED BY <4>1, <4>2
    <3>4. CASE h = g BY <3>2, <3>3, <3>4 DEF Named
    <3>5. CASE h # g
      <4>1. Named(h) # {} BY <2>2, <3>1, <3>5 DEF FileOK, Rival
      <4> QED BY <4>1, <3>2, <3>3 DEF Named
    <3> QED BY <3>4, <3>5
  <2>6. ASSUME NEW g \in Goroutines, Packed(g) PROVE Named(h)' # {}
    <3>1. UNCHANGED job /\ pc[g] = "packing" /\ fd[g] \in Goroutines
      BY <2>6 DEF Packed, Goto, outside
    <3>2. pc[h] \in OnItsWay
      BY <2>2, <2>6 DEF Packed, Goto, OnItsWay
    <3>3. \A i \in Goroutines : tarball'[i].linked = tarball[i].linked
      <4>1. /\ Closed(tarball[fd[g]], g) \in Tarball
            /\ Closed(tarball[fd[g]], g).linked = tarball[fd[g]].linked
        BY <3>1, ClosedFile
      <4> QED BY <2>6, <3>1, <4>1, CutShortFile DEF Packed
    <3>4. Named(h) # {} BY <2>2, <3>1, <3>2 DEF FileOK, Rival
    <3> QED BY <3>1, <3>3, <3>4 DEF Named, Path
  <2>7. ASSUME \/ \E g \in Goroutines :
                    \/ Clone(g) \/ Check(g) \/ Insert(g) \/ Upload(g) \/ List(g)
                    \/ CancelOne(g) \/ Queue(g) \/ RunMoves(g)
               \/ \E b \in Branches : Push(b)
               \/ \E q \in Pulls : FastForward(q)
        PROVE  Named(h)' # {}
    <3>1. UNCHANGED <<job, tarball>>
      BY <2>7 DEF Clone, Check, Insert, Upload, List, CancelOne, Queue, RunMoves,
                  Push, FastForward, MoveTip, files
    <3>2. pc[h] \in OnItsWay
      BY <2>2, <2>7 DEF Clone, Check, Insert, Upload, List, CancelOne, Queue, RunMoves,
                  Push, FastForward, MoveTip, Goto, OnItsWay
    <3> QED BY <3>1, <3>2, <2>3
  <2>8. ASSUME NEW g \in Goroutines, Request(g) \/ \E e \in events : Deliver(g, e)
        PROVE  Named(h)' # {}
    <3>1. h # g /\ pc[h] \in OnItsWay /\ UNCHANGED tarball
      BY <2>2, <2>8 DEF Request, Deliver, Goto, OnItsWay, files
    <3>2. job[h].kind # "user" BY <3>1 DEF JobOK, OnItsWay
    <3>3. ~Rival(h) BY <2>1, <2>2, <3>2, RivalKept
    <3>4. PICK i \in Named(h) : TRUE BY <3>1, <3>3 DEF FileOK
    <3>5. i \in Goroutines /\ tarball[i].linked /\ Path(i) = Path(h)
      BY <3>4 DEF Named
    <3>6. job'[i] = job[i] /\ job'[h] = job[h]
      BY <2>1, <3>2, <3>5 DEF FilesOK, LinkedOK, JobsKept
    <3> QED BY <3>1, <3>5, <3>6 DEF Named, Path
  <2> QED BY <1>1, <2>4, <2>5, <2>6, <2>7, <2>8 DEF Next, Step
<1>2. CASE UNCHANGED vars
  BY <1>2 DEF vars, FileOK, Named, Path, Rival
<1> QED BY <1>1, <1>2

LEMMA NextEnd ==
    Base /\ FilesOK /\ NoneBefore /\ ListsOK /\ FileOK /\ EndOK /\ [Next]_vars => EndOK'
<1> SUFFICES ASSUME Base, FilesOK, NoneBefore, ListsOK, FileOK, EndOK, [Next]_vars
             PROVE  EndOK'
  OBVIOUS
<1> USE DEF Base, TypeOK, Over
<1>1. CASE Next
  <2>1. JobsKept BY <1>1, JobsAreKept
  <2> SUFFICES ASSUME NEW h \in Goroutines, pc'[h] \in Over, job'[h].kind # "user"
               PROVE  run'[h] # "none" \/ h \in failed' \/ Rival(h)'
    BY DEF EndOK
  <2>2. failed \subseteq failed' /\ (run[h] # "none" => run'[h] # "none")
    <3>1. CASE \E g \in Goroutines : Step(g) \/ Request(g) \/ RunMoves(g)
      BY <3>1 DEF Step, Clone, Pack, Packed, Check, Insert, Upload, List, CancelOne,
                  Queue, Return, Request, RunMoves, Moves, Lose, Canceled, Waiting
    <3> QED BY <1>1, <3>1 DEF Next, Push, FastForward, MoveTip, Deliver
  <2>3. CASE pc[h] \in Over
    <3>1. job'[h] = job[h] BY <2>1, <2>3 DEF JobsKept
    <3>2. run[h] # "none" \/ h \in failed \/ Rival(h) BY <2>3, <3>1 DEF EndOK
    <3> QED BY <2>1, <2>2, <3>1, <3>2, RivalKept
  <2>4. CASE pc[h] \notin Over /\ Step(h)
    <3>1. UNCHANGED job
      BY <2>4 DEF Step, Clone, Pack, Packed, Check, Insert, Upload, List, CancelOne,
                  Queue, Return, outside
    <3>2. CASE Lose(h) BY <3>2 DEF Lose
    <3>3. CASE ~Lose(h)
      <4>1. CASE Check(h)
        <5>1. pc[h] = "packed" /\ Known(h)
          BY <2>4, <3>3, <4>1 DEF Check, Goto
        <5>2. PICK i \in Goroutines :
                 /\ version[i].status \in {"pending", "uploaded"}
                 /\ job[i].commit = job[h].commit
                 /\ job[h].kind = "pull" => job[i].kind = "pull"
          BY <5>1 DEF Known
        <5>3. i # h BY <5>1, <5>2 DEF NoneBefore, Before, NoVersion
        <5> QED BY <3>1, <5>2, <5>3 DEF Rival
      <4>2. CASE Upload(h)
        <5>1. pc[h] = "inserted" /\ Named(h) = {}
          BY <2>4, <3>3, <4>2 DEF Upload, Goto
        <5>2. Rival(h) BY <5>1 DEF FileOK, OnItsWay
        <5> QED BY <3>1, <5>2 DEF Rival
      <4>3. CASE Queue(h)
        BY <3>1, <3>3, <4>3 DEF Queue
      <4>4. CASE ~Check(h) /\ ~Upload(h) /\ ~Queue(h)
        BY <2>4, <3>3, <4>4 DEF Step, Clone, Pack, Packed, Insert, List, CancelOne,
                                Return, Goto
      <4> QED BY <4>1, <4>2, <4>3, <4>4
    <3> QED BY <3>2, <3>3
  <2>5. CASE pc[h] \notin Over /\ ~Step(h)
    <3>1. CASE Request(h)
      BY <3>1 DEF Request, NoJob
    <3>2. CASE ~Request(h)
      <4>1. pc'[h] = pc[h] \/ pc'[h] = "waiting"
        <5>1. ASSUME NEW g \in Goroutines, g # h, Step(g) \/ Request(g)
              PROVE  pc'[h] = pc[h]
          BY <5>1 DEF Step, Clone, Pack, Packed, Check, Insert, Upload, List,
                      CancelOne, Queue, Return, Request, Goto
        <5>2. ASSUME NEW g \in Goroutines, \E e \in events : Deliver(g, e)
              PROVE  pc'[h] = pc[h] \/ pc'[h] = "waiting"
          BY <5>2 DEF Deliver, Goto
        <5>3. ASSUME \/ \E b \in Branches : Push(b)
                     \/ \E q \in Pulls : FastForward(q)
                     \/ \E g \in Goroutines : RunMoves(g)
              PROVE  pc'[h] = pc[h]
          BY <5>3 DEF Push, FastForward, MoveTip, RunMoves
        <5> QED BY <1>1, <2>5, <3>2, <5>1, <5>2, <5>3 DEF Next
      <4> QED BY <2>5, <4>1
    <3> QED BY <3>1, <3>2
  <2> QED BY <2>3, <2>4, <2>5
<1>2. CASE UNCHANGED vars
  BY <1>2 DEF vars, EndOK, Rival
<1> QED BY <1>1, <1>2

(* A delivery that ends without a run failed itself, or shared its commit     *)
(* with another that counts as its duplicate.                              *)
THEOREM Delivered == Spec => []DeliveryIsRun
<1> DEFINE I == FilesOK /\ NoneBefore /\ ListsOK /\ FileOK /\ EndOK
<1>1. Init => I
  <2>1. Init => NoneBefore /\ ListsOK /\ FileOK /\ EndOK
    BY DEF Init, NoneBefore, ListsOK, FileOK, EndOK, Over, OnItsWay
  <2> QED BY <2>1, InitFiles
<1>2. Base /\ I /\ [Next]_vars => I'
  BY NextFiles, NextNoneBefore, NextLists, NextFile, NextEnd
<1>3. I => DeliveryIsRun
  BY DEF EndOK, DeliveryIsRun, Over, Rival
<1> QED BY <1>1, <1>2, <1>3, BaseHolds, PTL DEF Spec
=============================================================================
