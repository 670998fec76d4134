------------------------ MODULE StateVersionsProofs ------------------------
(***************************************************************************)
(* Proofs about StateVersions: a version row without its object is one that *)
(* its writer is still at, and what is served as a version is what was      *)
(* pushed as it, for any writers and any overlap of them.  Both follow from *)
(* VersionsInv, which every step preserves.  With the lock of a run's phase *)
(* it gives that the latest state covers what engines changed.             *)
(***************************************************************************)
EXTENDS StateVersions, WellFoundedInduction, TLAPS

(* A non-empty set of numbers up to m has a greatest one.                  *)
LEMMA GreatestOf ==
    ASSUME NEW m \in Nat, NEW S \in SUBSET (1..m), S # {}
    PROVE  \E v \in S : \A w \in S : w <= v
<1> DEFINE T == {m - v : v \in S}
           R == OpToRel(<, Nat)
<1>1. T \subseteq Nat
  <2>1. ASSUME NEW v \in S PROVE m - v \in Nat
    <3>1. v \in 1..m
      OBVIOUS
    <3> QED
      BY <3>1
  <2> QED
    BY <2>1
<1>2. T # {}
  OBVIOUS
<1>3. IsWellFoundedOn(R, Nat)
  BY NatLessThanWellFounded
<1>4. PICK x \in T : \A y \in T : ~(<<y, x>> \in R)
  <2> HIDE DEF T, R
  <2> QED
    BY <1>1, <1>2, <1>3, WFMin
<1>5. \A y \in T : ~(y < x)
  BY <1>1, <1>4 DEF OpToRel
<1>6. PICK v \in S : x = m - v
  BY <1>4
<1>7. \A w \in S : w <= v
  <2>1. ASSUME NEW w \in S PROVE w <= v
    <3>1. m - w \in T
      OBVIOUS
    <3>2. ~(m - w < m - v)
      BY <1>5, <1>6, <3>1
    <3>3. v \in 1..m /\ w \in 1..m
      OBVIOUS
    <3> QED
      BY <3>2, <3>3
  <2> QED
    BY <2>1
<1> QED
  BY <1>7

(* LastVersion is the greatest version number in use, and 0 without rows.  *)
LEMMA LastIsGreatest ==
    ASSUME VersionsInv
    PROVE  /\ LastVersion \in 0..reserved
           /\ \A row \in rows : row.version <= LastVersion
<1>1. reserved \in Nat
  BY DEF VersionsInv, TypeOK
<1>2. CASE rows = {}
  BY <1>1, <1>2 DEF LastVersion
<1>3. CASE rows # {}
  <2> DEFINE S == {row.version : row \in rows}
  <2>1. S \in SUBSET (1..reserved) /\ S # {}
    BY <1>3 DEF VersionsInv, Numbered
  <2>2. \E v \in S : \A w \in S : w <= v
    BY <1>1, <2>1, GreatestOf
  <2>3. PICK v \in S : \A row \in rows : row.version <= v
    BY <2>2
  <2>4. /\ LastVersion \in S
        /\ \A row \in rows : row.version <= LastVersion
    BY <1>3, <2>3 DEF LastVersion
  <2> QED
    BY <1>1, <2>1, <2>4
<1> QED
  BY <1>2, <1>3

-----------------------------------------------------------------------------
(* Types.                                                                  *)

LEMMA StateTypes ==
    ASSUME TypeOK
    PROVE  NoState \in State /\ Latest \in State
<1>1. NoState \in State
  BY DEF NoState, State
<1>2. LastVersion \in DOMAIN objects => objects[LastVersion] \in State
  BY DEF TypeOK
<1> QED
  BY <1>1, <1>2 DEF Latest

(* An answer leaves every process with a state it had, or with none.       *)
LEMMA AnswerKeeps ==
    ASSUME TypeOK, NEW q \in reqs, Answer(q)
    PROVE  /\ reqs' = reqs \ {q}
           /\ cli' \in [Users -> Cli]
           /\ work' \in [Runs -> Work]
           /\ \A r \in Runs : /\ work'[r].pc \in {work[r].pc, "report"}
                              /\ work'[r].state = work[r].state
<1>1. reqs' = reqs \ {q}
  BY DEF Answer
<1>2. q.by \in Users \cup Runs
  BY DEF TypeOK, Req
<1>3. CASE q.by \in Users
  <2>1. cli' = [cli EXCEPT ![q.by] = [pc |-> "locked", state |-> NoState]]
        /\ work' = work
    BY <1>3 DEF Answer
  <2>2. [pc |-> "locked", state |-> NoState] \in Cli
    BY StateTypes DEF Cli
  <2>3. cli' \in [Users -> Cli]
    BY <2>1, <2>2 DEF TypeOK
  <2> QED
    BY <1>1, <2>1, <2>3 DEF TypeOK
<1>4. CASE q.by \notin Users
  <2>1. work' = [work EXCEPT ![q.by].pc = "report"] /\ cli' = cli
    BY <1>4 DEF Answer
  <2>2. q.by \in Runs
    BY <1>2, <1>4
  <2>3. work \in [Runs -> Work] /\ cli \in [Users -> Cli]
    BY DEF TypeOK
  <2>4. work' \in [Runs -> Work]
    BY <2>1, <2>2, <2>3 DEF Work
  <2>5. \A r \in Runs : /\ work'[r].pc \in {work[r].pc, "report"}
                        /\ work'[r].state = work[r].state
    BY <2>1, <2>2, <2>3 DEF Work
  <2> QED
    BY <1>1, <2>1, <2>3, <2>4, <2>5
<1> QED
  BY <1>3, <1>4

(* A process changed by one step stays a process.                          *)
LEMMA WorkStep ==
    ASSUME work \in [Runs -> Work], NEW r \in Runs, NEW w \in Work,
           work' = [work EXCEPT ![r] = w]
    PROVE  /\ work' \in [Runs -> Work]
           /\ work'[r] = w
           /\ \A s \in Runs : s # r => work'[s] = work[s]
  OBVIOUS

-----------------------------------------------------------------------------
(* Rows whose writer goes on, and rows nobody touches, keep what holds of   *)
(* them.                                                                   *)
LEMMA RowsKept ==
    ASSUME NoDanglingVersion, ServedAsPushed,
           rows' \subseteq rows, objects' = objects,
           \A row \in rows' : InFlight(row) => InFlight(row)'
    PROVE  NoDanglingVersion' /\ ServedAsPushed'
<1>1. NoDanglingVersion'
  BY DEF NoDanglingVersion
<1>2. ASSUME NEW row \in rows'
      PROVE  InFlight(row)' \/ row.version \notin DOMAIN objects' \/
               /\ objects'[row.version].serial = row.serial
               /\ row.by \in objects'[row.version].has
  BY <1>2 DEF ServedAsPushed
<1> QED
  BY <1>1, <1>2 DEF ServedAsPushed

(* A request that leaves without being past its reservation leaves every    *)
(* writer at its row.                                                      *)
LEMMA BystanderLeaves ==
    ASSUME VersionsInv, NEW q \in reqs, q.pc \in {"reserve", "unlock"},
           reqs' = reqs \ {q}, rows' = rows, objects' = objects,
           reserved' = reserved
    PROVE  /\ Numbered' /\ WritersHaveRows'
           /\ NoDanglingVersion' /\ ServedAsPushed'
<1>1. Numbered'
  BY DEF VersionsInv, Numbered
<1>2. WritersHaveRows'
  BY DEF VersionsInv, WritersHaveRows, RowOf
<1>3. ASSUME NEW row \in rows', InFlight(row) PROVE InFlight(row)'
  <2>1. PICK p \in reqs : p.pc \in {"put", "rollback"} /\ p.id = row.id
    BY <1>3 DEF InFlight
  <2>2. p \in reqs'
    BY <2>1
  <2> QED
    BY <2>1, <2>2 DEF InFlight
<1> QED
  BY <1>1, <1>2, <1>3, RowsKept DEF VersionsInv

(* A request that arrives takes no row yet.                                *)
LEMMA Arrives ==
    ASSUME VersionsInv, NEW q, q.pc \in {"reserve", "unlock"},
           reqs' = reqs \cup {q}, rows' = rows, objects' = objects,
           reserved' = reserved
    PROVE  /\ Numbered' /\ WritersHaveRows'
           /\ NoDanglingVersion' /\ ServedAsPushed'
<1>1. Numbered'
  BY DEF VersionsInv, Numbered
<1>2. WritersHaveRows'
  BY DEF VersionsInv, WritersHaveRows, RowOf
<1>3. ASSUME NEW row \in rows', InFlight(row) PROVE InFlight(row)'
  BY <1>3 DEF InFlight
<1> QED
  BY <1>1, <1>2, <1>3, RowsKept DEF VersionsInv

(* A step of a client or of an executor that writes no version.            *)
LEMMA Elsewhere ==
    ASSUME VersionsInv, reqs' = reqs, rows' = rows, objects' = objects,
           reserved' = reserved
    PROVE  /\ Numbered' /\ WritersHaveRows'
           /\ NoDanglingVersion' /\ ServedAsPushed'
<1>1. Numbered'
  BY DEF VersionsInv, Numbered
<1>2. WritersHaveRows'
  BY DEF VersionsInv, WritersHaveRows, RowOf
<1>3. ASSUME NEW row \in rows', InFlight(row) PROVE InFlight(row)'
  BY <1>3 DEF InFlight
<1> QED
  BY <1>1, <1>2, <1>3, RowsKept DEF VersionsInv

-----------------------------------------------------------------------------
(* The steps of a writer.                                                  *)

LEMMA PushersAfterAnswer ==
    ASSUME TypeOK, PushersRecorded, NEW q \in reqs, Answer(q)
    PROVE  PushersRecorded'
<1>1. \A p \in reqs' : p.pc # "unlock" => p.by \in p.state.has
  BY AnswerKeeps DEF PushersRecorded
<1>2. ASSUME NEW r \in Runs, work'[r].pc \in {"upload", "uploading"}
      PROVE  r \in work'[r].state.has
  <2>1. work'[r].pc = work[r].pc /\ work'[r].state = work[r].state
    BY <1>2, AnswerKeeps
  <2> QED
    BY <1>2, <2>1 DEF PushersRecorded
<1> QED
  BY <1>1, <1>2 DEF PushersRecorded

LEMMA ReservationRefused ==
    ASSUME VersionsInv, NEW q \in reqs, ReserveVersion(q),
           \E s \in Serials : q.state.serial < s
    PROVE  VersionsInv'
<1>1. /\ Answer(q) /\ q.pc = "reserve"
      /\ UNCHANGED <<rows, reserved>>
      /\ UNCHANGED <<lockVars, objects, failures, history>>
  BY DEF ReserveVersion, lockVars
<1>2. TypeOK /\ PushersRecorded
  BY DEF VersionsInv
<1>3. TypeOK'
  BY <1>1, <1>2, AnswerKeeps DEF TypeOK, LockTypes, HistoryTypes,
     lockVars, history
<1>4. PushersRecorded'
  BY <1>1, <1>2, PushersAfterAnswer
<1>5. /\ Numbered' /\ WritersHaveRows'
      /\ NoDanglingVersion' /\ ServedAsPushed'
  BY <1>1, <1>2, AnswerKeeps, BystanderLeaves
<1> QED
  BY <1>1, <1>3, <1>4, <1>5 DEF VersionsInv

LEMMA ReservedRequest ==
    ASSUME NEW q \in Req, NEW i \in Nat, NEW v \in Nat
    PROVE  LET asks == [by |-> q.by, pc |-> "put", id |-> i, version |-> v,
                        state |-> q.state]
           IN  /\ asks \in Req /\ asks.pc = "put" /\ asks.id = i
               /\ asks.version = v /\ asks.state = q.state /\ asks.by = q.by
  BY DEF Req

(* The new row has an id and a version of its own: its version is past the  *)
(* last, and its id past all that were reserved.                           *)
LEMMA ReservationMade ==
    ASSUME VersionsInv, NEW q \in reqs, ReserveVersion(q),
           ~ \E s \in Serials : q.state.serial < s
    PROVE  VersionsInv'
<1> DEFINE new  == [id |-> reserved + 1, version |-> LastVersion + 1,
                    serial |-> q.state.serial, by |-> q.by]
           asks == [by |-> q.by, pc |-> "put", id |-> reserved + 1,
                    version |-> LastVersion + 1, state |-> q.state]
<1>1. /\ q.pc = "reserve" /\ reserved < MaxVersions
      /\ reserved' = reserved + 1
      /\ rows' = rows \cup {new}
      /\ reqs' = (reqs \ {q}) \cup {asks}
      /\ UNCHANGED <<lockVars, objects, failures, history, cli, work>>
  BY DEF ReserveVersion, lockVars
<1>2. TypeOK /\ PushersRecorded /\ Numbered /\ WritersHaveRows
      /\ NoDanglingVersion /\ ServedAsPushed
  BY DEF VersionsInv
<1>3. reserved \in Nat /\ MaxVersions \in Nat
  BY <1>2, ConstantsAssumption DEF TypeOK
<1>4. LastVersion \in 0..reserved /\ \A row \in rows : row.version <= LastVersion
  BY LastIsGreatest
<1>5. q \in Req
  BY <1>2 DEF TypeOK
<1>6. /\ asks \in Req /\ asks.pc = "put" /\ asks.id = reserved + 1
      /\ asks.version = LastVersion + 1 /\ asks.state = q.state /\ asks.by = q.by
  <2>1. LastVersion + 1 \in Nat /\ reserved + 1 \in Nat
    BY <1>3, <1>4
  <2> QED
    BY <1>5, <2>1, ReservedRequest
<1>7. /\ new \in Row /\ new.id = reserved + 1 /\ new.version = LastVersion + 1
      /\ new.serial = q.state.serial /\ new.by = q.by
  BY <1>3, <1>4, <1>5 DEF Req, Row, State
<1>8. TypeOK'
  <2>1. rows' \subseteq Row /\ reqs' \subseteq Req /\ reserved' \in Nat
    BY <1>1, <1>2, <1>3, <1>6, <1>7 DEF TypeOK
  <2> QED
    BY <1>1, <1>2, <2>1 DEF TypeOK, LockTypes, HistoryTypes,
       lockVars, history
<1> HIDE DEF new, asks
<1>9. Numbered'
  <2>1. \A row \in rows' : row.id \in 1..reserved' /\ row.version \in 1..reserved'
    <3>1. \A row \in rows : row.id \in 1..(reserved + 1)
                            /\ row.version \in 1..(reserved + 1)
      BY <1>2, <1>3 DEF Numbered
    <3>2. new.id \in 1..(reserved + 1) /\ new.version \in 1..(reserved + 1)
      BY <1>3, <1>4, <1>7
    <3> QED
      BY <1>1, <3>1, <3>2
  <2>2. \A x \in rows : x.id # new.id /\ x.version # new.version
    <3>1. ASSUME NEW x \in rows PROVE x.id # new.id /\ x.version # new.version
      <4>1. x.id \in 1..reserved /\ x.version \in 1..reserved
            /\ x.version <= LastVersion
        BY <1>2, <1>4 DEF Numbered
      <4> QED
        BY <1>3, <1>4, <1>7, <4>1
    <3> QED
      BY <3>1
  <2>3. \A x, y \in rows' : x.id = y.id \/ x.version = y.version => x = y
    BY <1>1, <1>2, <2>2 DEF Numbered
  <2> QED
    BY <2>1, <2>3 DEF Numbered
<1>10. WritersHaveRows'
  <2>1. RowOf(asks) = new
    BY <1>6 DEF RowOf, new
  <2>2. ASSUME NEW p \in reqs', p.pc \in {"put", "rollback"}
        PROVE  RowOf(p) \in rows'
    BY <1>1, <1>2, <2>1, <2>2 DEF WritersHaveRows
  <2>3. ASSUME NEW p \in reqs, p.pc \in {"put", "rollback"}
        PROVE  p.id # asks.id
    <3>1. RowOf(p) \in rows /\ RowOf(p).id = p.id
      BY <1>2, <2>3 DEF WritersHaveRows, RowOf
    <3>2. p.id \in 1..reserved
      BY <1>2, <3>1 DEF Numbered
    <3> QED
      BY <1>3, <1>6, <3>2
  <2>4. ASSUME NEW x \in reqs', NEW y \in reqs', x.pc \in {"put", "rollback"},
               y.pc \in {"put", "rollback"}, x.id = y.id
        PROVE  x = y
    <3>1. CASE x \in reqs /\ y \in reqs
      BY <1>2, <2>4, <3>1 DEF WritersHaveRows
    <3>2. CASE x \notin reqs \/ y \notin reqs
      BY <1>1, <2>3, <2>4, <3>2
    <3> QED
      BY <3>1, <3>2
  <2>5. \A p \in reqs' : p.pc \in {"put", "rollback"} => RowOf(p) \in rows'
    BY <2>2
  <2> QED
    BY <2>4, <2>5 DEF WritersHaveRows, RowOf
<1>11. PushersRecorded'
  <2>1. q.by \in q.state.has
    BY <1>1, <1>2 DEF PushersRecorded
  <2>2. \A p \in reqs' : p.pc # "unlock" => p.by \in p.state.has
    BY <1>1, <1>2, <1>6, <2>1 DEF PushersRecorded
  <2> QED
    BY <1>1, <1>2, <2>2 DEF PushersRecorded
<1>12. ASSUME NEW row \in rows', ~ InFlight(row)'
       PROVE  row \in rows /\ ~ InFlight(row)
  <2>1. row # new
    <3>1. asks \in reqs' /\ asks.pc = "put" /\ asks.id = new.id
      BY <1>1, <1>6, <1>7
    <3> QED
      BY <1>12, <3>1 DEF InFlight
  <2>2. ~ InFlight(row)
    <3>1. SUFFICES ASSUME NEW p \in reqs, p.pc \in {"put", "rollback"}, p.id = row.id
                   PROVE  FALSE
      BY DEF InFlight
    <3>2. p \in reqs'
      BY <1>1, <3>1
    <3> QED
      BY <1>12, <3>1, <3>2 DEF InFlight
  <2> QED
    BY <1>1, <2>1, <2>2
<1>13. NoDanglingVersion'
  BY <1>1, <1>2, <1>12 DEF NoDanglingVersion
<1>14. ServedAsPushed'
  BY <1>1, <1>2, <1>12 DEF ServedAsPushed
<1>15. reserved' <= MaxVersions'
  BY <1>1, <1>3
<1> QED
  BY <1>8, <1>9, <1>10, <1>11, <1>13, <1>14, <1>15 DEF VersionsInv

LEMMA ReservationStep ==
    ASSUME VersionsInv, NEW q \in reqs, ReserveVersion(q)
    PROVE  VersionsInv'
  BY ReservationRefused, ReservationMade

(* Only this writer's row has this version, so storing it touches what is   *)
(* served as no other row.                                                 *)
LEMMA PutStep ==
    ASSUME VersionsInv, NEW q \in reqs, PutStateObject(q)
    PROVE  VersionsInv'
<1>1. /\ q.pc = "put" /\ Answer(q)
      /\ objects' = [v \in DOMAIN objects \cup {q.version} |->
                       IF v = q.version THEN q.state ELSE objects[v]]
      /\ UNCHANGED <<lockVars, rows, reserved, failures, history>>
  BY DEF PutStateObject, StoredAt, lockVars
<1>2. TypeOK /\ PushersRecorded /\ Numbered /\ WritersHaveRows
      /\ NoDanglingVersion /\ ServedAsPushed
      /\ reserved <= MaxVersions
  BY DEF VersionsInv
<1>3. /\ reqs' = reqs \ {q}
      /\ cli' \in [Users -> Cli] /\ work' \in [Runs -> Work]
  BY <1>1, <1>2, AnswerKeeps
<1>4. q.state \in State
  BY <1>2 DEF TypeOK, Req
<1>5. RowOf(q) \in rows /\ RowOf(q).version = q.version /\ RowOf(q).id = q.id
      /\ RowOf(q).by = q.by /\ RowOf(q).serial = q.state.serial
  BY <1>1, <1>2 DEF WritersHaveRows, RowOf
<1>6. q.version \in Versions
  <2>1. q.version \in 1..reserved
    BY <1>2, <1>5 DEF Numbered
  <2>2. reserved \in Nat /\ MaxVersions \in Nat
    BY <1>2, ConstantsAssumption DEF TypeOK
  <2> QED
    BY <1>2, <2>1, <2>2 DEF Versions
<1>7. /\ DOMAIN objects' = DOMAIN objects \cup {q.version}
      /\ objects'[q.version] = q.state
      /\ \A v \in DOMAIN objects : v # q.version => objects'[v] = objects[v]
  BY <1>1
<1>8. TypeOK'
  <2>1. /\ DOMAIN objects' \subseteq Versions
        /\ \A v \in DOMAIN objects' : objects'[v] \in State
    BY <1>2, <1>4, <1>6, <1>7 DEF TypeOK
  <2> QED
    BY <1>1, <1>2, <1>3, <2>1 DEF TypeOK, LockTypes, HistoryTypes,
       lockVars, history
<1>9. Numbered'
  BY <1>1, <1>2 DEF Numbered
<1>10. WritersHaveRows'
  BY <1>1, <1>2, <1>3 DEF WritersHaveRows, RowOf
<1>11. PushersRecorded'
  BY <1>1, <1>2, PushersAfterAnswer
<1>12. q.by \in q.state.has
  BY <1>1, <1>2 DEF PushersRecorded
<1>13. ASSUME NEW row \in rows', ~ InFlight(row)', row # RowOf(q)
       PROVE  row \in rows /\ ~ InFlight(row) /\ row.version # q.version
  <2>1. row.version # q.version /\ row.id # q.id
    BY <1>1, <1>2, <1>5, <1>13 DEF Numbered
  <2>2. ~ InFlight(row)
    <3>1. SUFFICES ASSUME NEW p \in reqs, p.pc \in {"put", "rollback"}, p.id = row.id
                   PROVE  FALSE
      BY DEF InFlight
    <3>2. p \in reqs'
      BY <1>3, <2>1, <3>1
    <3> QED
      BY <1>13, <3>1, <3>2 DEF InFlight
  <2> QED
    BY <1>1, <2>1, <2>2
<1>14. NoDanglingVersion'
  BY <1>2, <1>5, <1>7, <1>13 DEF NoDanglingVersion
<1>15. ASSUME NEW row \in rows', ~ InFlight(row)', row.version \in DOMAIN objects'
       PROVE  /\ objects'[row.version].serial = row.serial
              /\ row.by \in objects'[row.version].has
  <2>1. CASE row = RowOf(q)
    BY <1>5, <1>7, <1>12, <2>1
  <2>2. CASE row # RowOf(q)
    <3>1. row \in rows /\ ~ InFlight(row) /\ row.version # q.version
      BY <1>13, <1>15, <2>2
    <3>2. row.version \in DOMAIN objects
          /\ objects'[row.version] = objects[row.version]
      BY <1>7, <1>15, <3>1
    <3> QED
      BY <1>2, <3>1, <3>2 DEF ServedAsPushed
  <2> QED
    BY <2>1, <2>2
<1>16. ServedAsPushed'
  BY <1>15 DEF ServedAsPushed
<1>17. reserved' <= MaxVersions'
  BY <1>1, <1>2
<1> QED
  BY <1>8, <1>9, <1>10, <1>11, <1>14, <1>16, <1>17 DEF VersionsInv

(* A write that failed leaves its writer at its row.                       *)
LEMMA PutFailsStep ==
    ASSUME VersionsInv, NEW q \in reqs, PutFails(q)
    PROVE  VersionsInv'
<1> DEFINE asks == [q EXCEPT !.pc = "rollback"]
<1>1. /\ q.pc = "put" /\ failures' = failures + 1
      /\ reqs' = (reqs \ {q}) \cup {asks}
      /\ UNCHANGED <<lockVars, rows, objects, reserved, cli, work, history>>
  BY DEF PutFails, lockVars, runVars, history
<1>2. TypeOK /\ PushersRecorded /\ Numbered /\ WritersHaveRows
      /\ NoDanglingVersion /\ ServedAsPushed
      /\ reserved <= MaxVersions
  BY DEF VersionsInv
<1>3. q \in Req
  BY <1>2 DEF TypeOK
<1>4. /\ asks \in Req /\ asks.pc = "rollback" /\ asks.id = q.id
      /\ asks.version = q.version /\ asks.state = q.state /\ asks.by = q.by
  <2>1. asks = [by |-> q.by, pc |-> "rollback", id |-> q.id,
                version |-> q.version, state |-> q.state]
    BY <1>3 DEF Req
  <2>2. /\ q.by \in Users \cup Runs /\ q.id \in Nat
        /\ q.version \in Nat /\ q.state \in State
    BY <1>3 DEF Req
  <2> HIDE DEF asks
  <2> QED
    BY <2>1, <2>2 DEF Req
<1> HIDE DEF asks
<1>5. TypeOK'
  <2>1. reqs' \subseteq Req /\ failures' \in Nat
    BY <1>1, <1>2, <1>4 DEF TypeOK
  <2> QED
    BY <1>1, <1>2, <2>1 DEF TypeOK, LockTypes, HistoryTypes,
       lockVars, history
<1>6. Numbered'
  BY <1>1, <1>2 DEF Numbered
<1>7. WritersHaveRows'
  <2>1. RowOf(asks) = RowOf(q) /\ RowOf(q) \in rows
    BY <1>1, <1>2, <1>4 DEF WritersHaveRows, RowOf
  <2>2. \A p \in reqs' : p.pc \in {"put", "rollback"} => RowOf(p) \in rows
    BY <1>1, <1>2, <2>1 DEF WritersHaveRows
  <2>3. \A p \in reqs \ {q} : p.pc \in {"put", "rollback"} => p.id # q.id
    BY <1>1, <1>2 DEF WritersHaveRows
  <2>4. ASSUME NEW x \in reqs', NEW y \in reqs', x.pc \in {"put", "rollback"},
               y.pc \in {"put", "rollback"}, x.id = y.id
        PROVE  x = y
    <3>1. CASE x = asks \/ y = asks
      BY <1>1, <1>4, <2>3, <2>4, <3>1
    <3>2. CASE x # asks /\ y # asks
      BY <1>1, <1>2, <2>4, <3>2 DEF WritersHaveRows
    <3> QED
      BY <3>1, <3>2
  <2> QED
    BY <1>1, <2>2, <2>4 DEF WritersHaveRows, RowOf
<1>8. PushersRecorded'
  <2>1. \A p \in reqs' : p.pc # "unlock" => p.by \in p.state.has
    BY <1>1, <1>2, <1>4 DEF PushersRecorded
  <2> QED
    BY <1>1, <1>2, <2>1 DEF PushersRecorded
<1>9. ASSUME NEW row \in rows', InFlight(row) PROVE InFlight(row)'
  <2>1. PICK p \in reqs : p.pc \in {"put", "rollback"} /\ p.id = row.id
    BY <1>9 DEF InFlight
  <2>2. CASE p = q
    BY <1>1, <1>4, <2>1, <2>2 DEF InFlight
  <2>3. CASE p # q
    BY <1>1, <2>1, <2>3 DEF InFlight
  <2> QED
    BY <2>2, <2>3
<1>10. NoDanglingVersion' /\ ServedAsPushed'
  BY <1>1, <1>2, <1>9, RowsKept
<1> QED
  BY <1>1, <1>2, <1>5, <1>6, <1>7, <1>8, <1>10 DEF VersionsInv

(* A roll-back removes this writer's row and no other.                     *)
LEMMA RollbackStep ==
    ASSUME VersionsInv, NEW q \in reqs, Rollback(q)
    PROVE  VersionsInv'
<1>1. /\ q.pc = "rollback" /\ Answer(q)
      /\ rows' = {row \in rows : row.id # q.id}
      /\ UNCHANGED <<lockVars, objects, reserved, failures, history>>
  BY DEF Rollback, RolledBack, lockVars
<1>2. TypeOK /\ PushersRecorded /\ Numbered /\ WritersHaveRows
      /\ NoDanglingVersion /\ ServedAsPushed
      /\ reserved <= MaxVersions
  BY DEF VersionsInv
<1>3. /\ reqs' = reqs \ {q}
      /\ cli' \in [Users -> Cli] /\ work' \in [Runs -> Work]
  BY <1>1, <1>2, AnswerKeeps
<1>4. TypeOK'
  BY <1>1, <1>2, <1>3 DEF TypeOK, LockTypes, HistoryTypes,
     lockVars, history
<1>5. Numbered'
  BY <1>1, <1>2 DEF Numbered
<1>6. WritersHaveRows'
  <2>1. ASSUME NEW p \in reqs', p.pc \in {"put", "rollback"}
        PROVE  RowOf(p) \in rows'
    <3>1. p.id # q.id
      BY <1>1, <1>2, <1>3, <2>1 DEF WritersHaveRows
    <3>2. RowOf(p) \in rows /\ RowOf(p).id = p.id
      BY <1>2, <1>3, <2>1 DEF WritersHaveRows, RowOf
    <3> QED
      BY <1>1, <3>1, <3>2
  <2>2. \A x, y \in reqs' :
          (x.pc \in {"put", "rollback"} /\ y.pc \in {"put", "rollback"}
            /\ x.id = y.id) => x = y
    BY <1>2, <1>3 DEF WritersHaveRows
  <2> QED
    BY <2>1, <2>2 DEF WritersHaveRows, RowOf
<1>7. PushersRecorded'
  BY <1>1, <1>2, PushersAfterAnswer
<1>8. ASSUME NEW row \in rows', InFlight(row) PROVE InFlight(row)'
  <2>1. PICK p \in reqs : p.pc \in {"put", "rollback"} /\ p.id = row.id
    BY <1>8 DEF InFlight
  <2>2. row.id # q.id
    BY <1>1
  <2> QED
    BY <1>3, <2>1, <2>2 DEF InFlight
<1>9. NoDanglingVersion' /\ ServedAsPushed'
  BY <1>1, <1>2, <1>8, RowsKept
<1> QED
  BY <1>1, <1>2, <1>4, <1>5, <1>6, <1>7, <1>9 DEF VersionsInv

-----------------------------------------------------------------------------
(* Users and administrators.                                               *)

(* A client's step that writes no version.                                 *)
LEMMA ClientStep ==
    ASSUME VersionsInv, cli' \in [Users -> Cli], holder' \in Users \cup {Nobody},
           UNCHANGED <<runLock, storeVars, runVars, reqs>>
    PROVE  VersionsInv'
<1>1. UNCHANGED <<stateLock, releasing, slipped, losses, rows, objects, reserved,
                  failures, work, history, reqs>>
  BY DEF runLock, storeVars, runVars, history
<1>2. TypeOK /\ PushersRecorded /\ reserved <= MaxVersions
  BY DEF VersionsInv
<1>3. TypeOK'
  BY <1>1, <1>2 DEF TypeOK, LockTypes, HistoryTypes,
     lockVars, history
<1>4. PushersRecorded'
  BY <1>1, <1>2 DEF PushersRecorded
<1> QED
  BY <1>1, <1>2, <1>3, <1>4, Elsewhere DEF VersionsInv

LEMMA LockSteps ==
    ASSUME VersionsInv, NEW u \in Users,
           LockRead(u) \/ LockWrite(u) \/ UnlockRead(u) \/ UnlockWrite(u) \/ Pull(u)
    PROVE  VersionsInv'
<1>1. /\ cli \in [Users -> Cli] /\ holder \in Users \cup {Nobody}
      /\ NoState \in State /\ Latest \in State
  BY StateTypes DEF VersionsInv, TypeOK, LockTypes
<1>2. CASE LockRead(u)
  <2>1. cli' \in [Users -> Cli] /\ holder' \in Users \cup {Nobody}
    BY <1>1, <1>2 DEF LockRead, Cli, lockVars
  <2> QED
    BY <1>2, <2>1, ClientStep DEF LockRead, lockVars, runLock
<1>3. CASE LockWrite(u)
  <2>1. cli' \in [Users -> Cli] /\ holder' \in Users \cup {Nobody}
    BY <1>1, <1>3 DEF LockWrite, Cli
  <2> QED
    BY <1>3, <2>1, ClientStep DEF LockWrite
<1>4. CASE UnlockRead(u)
  <2>1. ASSUME NEW pc \in {"unlocking", "idle"}
        PROVE  [pc |-> pc, state |-> NoState] \in Cli
    BY <1>1 DEF Cli
  <2>2. cli' \in [Users -> Cli] /\ holder' \in Users \cup {Nobody}
    BY <1>1, <1>4, <2>1 DEF UnlockRead, lockVars
  <2> QED
    BY <1>4, <2>2, ClientStep DEF UnlockRead, lockVars, runLock
<1>5. CASE UnlockWrite(u)
  <2>1. cli' \in [Users -> Cli] /\ holder' \in Users \cup {Nobody}
    BY <1>1, <1>5 DEF UnlockWrite, Cli
  <2> QED
    BY <1>5, <2>1, ClientStep DEF UnlockWrite
<1>6. CASE Pull(u)
  <2>1. [pc |-> "pulled", state |-> Latest] \in Cli
    BY <1>1 DEF Cli
  <2>2. cli' \in [Users -> Cli] /\ holder' \in Users \cup {Nobody}
    BY <1>1, <1>6, <2>1 DEF Pull, lockVars
  <2> QED
    BY <1>6, <2>2, ClientStep DEF Pull, lockVars, runLock
<1> QED
  BY <1>2, <1>3, <1>4, <1>5, <1>6

LEMMA CreateStep ==
    ASSUME VersionsInv, NEW u \in Users, Create(u)
    PROVE  VersionsInv'
<1>1. TypeOK /\ PushersRecorded /\ reserved <= MaxVersions
  BY DEF VersionsInv
<1>2. /\ cli \in [Users -> Cli]
      /\ UNCHANGED <<lockVars, rows, objects, reserved, failures, work, history>>
  BY <1>1 DEF Create, TypeOK, storeVars, runVars, history
<1> DEFINE pushed == [serial |-> cli[u].state.serial + 1,
                      has    |-> cli[u].state.has \cup {u}]
           asks   == Put(u, pushed)
<1>3. CASE reqs' = reqs \cup {asks} /\ cli' = [cli EXCEPT ![u].pc = "pushing"]
  <2>1. pushed \in State /\ u \in pushed.has
    <3>1. cli[u].state.serial \in Nat /\ cli[u].state.has \in SUBSET (Users \cup Runs)
      BY <1>2 DEF Cli, State
    <3> QED
      BY <3>1 DEF State
  <2> HIDE DEF pushed
  <2>2. /\ asks \in Req /\ asks.pc = "reserve" /\ asks.by = u
        /\ asks.state = pushed
    BY <2>1 DEF Put, Req
  <2>3. cli' \in [Users -> Cli]
    BY <1>2, <1>3 DEF Cli
  <2> HIDE DEF asks
  <2>4. TypeOK'
    BY <1>1, <1>2, <1>3, <2>2, <2>3 DEF TypeOK, LockTypes, HistoryTypes,
       lockVars, history
  <2>5. PushersRecorded'
    <3>1. \A p \in reqs' : p.pc # "unlock" => p.by \in p.state.has
      BY <1>1, <1>3, <2>1, <2>2 DEF PushersRecorded
    <3> QED
      BY <1>1, <1>2, <3>1 DEF PushersRecorded
  <2>6. /\ Numbered' /\ WritersHaveRows'
        /\ NoDanglingVersion' /\ ServedAsPushed'
    BY <1>2, <1>3, <2>2, Arrives
  <2> QED
    BY <1>1, <1>2, <2>4, <2>5, <2>6 DEF VersionsInv
<1>4. CASE /\ cli' = [cli EXCEPT ![u] = [pc |-> "locked", state |-> NoState]]
           /\ reqs' = reqs
  <2>1. [pc |-> "locked", state |-> NoState] \in Cli
    BY <1>1, StateTypes DEF Cli
  <2>2. cli' \in [Users -> Cli] /\ holder' \in Users \cup {Nobody}
    BY <1>1, <1>2, <1>4, <2>1 DEF TypeOK, LockTypes, lockVars
  <2> QED
    BY <1>2, <1>4, <2>2, ClientStep DEF lockVars, runLock, storeVars, runVars, history
<1> QED
  BY <1>3, <1>4 DEF Create

LEMMA ForceUnlockSteps ==
    ASSUME VersionsInv, ForceUnlock \/ \E q \in reqs : ForceUnlockWrite(q)
    PROVE  VersionsInv'
<1>1. TypeOK /\ PushersRecorded /\ reserved <= MaxVersions
      /\ NoState \in State
  BY StateTypes DEF VersionsInv
<1>2. CASE ForceUnlock
  <2>1. PICK u \in Users : reqs' = reqs \cup {[Put(u, NoState) EXCEPT !.pc = "unlock"]}
    BY <1>2 DEF ForceUnlock
  <2> DEFINE asks == [Put(u, NoState) EXCEPT !.pc = "unlock"]
  <2>2. UNCHANGED <<lockVars, rows, objects, reserved, failures, cli, work, history>>
    BY <1>2 DEF ForceUnlock, storeVars, runVars, history
  <2>3. asks \in Req /\ asks.pc = "unlock"
    BY <1>1 DEF Put, Req
  <2> HIDE DEF asks
  <2>4. reqs' = reqs \cup {asks}
    BY <2>1 DEF asks
  <2>5. TypeOK'
    BY <1>1, <2>2, <2>3, <2>4 DEF TypeOK, LockTypes, HistoryTypes,
       lockVars, history
  <2>6. PushersRecorded'
    <3>1. \A p \in reqs' : p.pc # "unlock" => p.by \in p.state.has
      BY <1>1, <2>3, <2>4 DEF PushersRecorded
    <3> QED
      BY <1>1, <2>2, <3>1 DEF PushersRecorded
  <2>7. /\ Numbered' /\ WritersHaveRows'
        /\ NoDanglingVersion' /\ ServedAsPushed'
    BY <2>2, <2>3, <2>4, Arrives
  <2> QED
    BY <1>1, <2>2, <2>5, <2>6, <2>7 DEF VersionsInv
<1>3. ASSUME NEW q \in reqs, ForceUnlockWrite(q) PROVE VersionsInv'
  <2>1. /\ q.pc = "unlock" /\ holder' = Nobody /\ reqs' = reqs \ {q}
        /\ UNCHANGED <<stateLock, releasing, slipped, losses, rows, objects,
                       reserved, failures, cli, work, history>>
    BY <1>3 DEF ForceUnlockWrite, runLock, storeVars, runVars, history
  <2>2. TypeOK'
    BY <1>1, <2>1 DEF TypeOK, LockTypes, HistoryTypes,
       lockVars, history
  <2>3. PushersRecorded'
    BY <1>1, <2>1 DEF PushersRecorded
  <2>4. /\ Numbered' /\ WritersHaveRows'
        /\ NoDanglingVersion' /\ ServedAsPushed'
    BY <2>1, BystanderLeaves
  <2> QED
    BY <1>1, <2>1, <2>2, <2>3, <2>4 DEF VersionsInv
<1> QED
  BY <1>2, <1>3

-----------------------------------------------------------------------------
(* Runs.                                                                   *)

(* Locks and history that no step touched.                                 *)
LEMMA SameTypes ==
    ASSUME TypeOK
    PROVE  /\ UNCHANGED lockVars => LockTypes'
           /\ UNCHANGED history => HistoryTypes'
  BY DEF TypeOK, LockTypes, HistoryTypes, lockVars, history

(* A lock that its run loses, and one more or one fewer release to come.    *)
LEMMA LockMoves ==
    ASSUME TypeOK, NEW r \in Runs
    PROVE  /\ LosesLock(r) => stateLock' \in Runs \cup {Nobody} /\ slipped' \subseteq Runs
           /\ WillRelease(r) => releasing' \in [Runs -> Nat]
           /\ (releasing[r] > 0 /\ releasing' = [releasing EXCEPT ![r] = @ - 1])
                => releasing' \in [Runs -> Nat]
<1>1. releasing \in [Runs -> Nat] /\ slipped \subseteq Runs
  BY DEF TypeOK, LockTypes
<1>2. LosesLock(r) => stateLock' \in Runs \cup {Nobody} /\ slipped' \subseteq Runs
  BY <1>1 DEF LosesLock
<1>3. releasing[r] + 1 \in Nat /\ (releasing[r] > 0 => releasing[r] - 1 \in Nat)
  BY <1>1
<1> QED
  BY <1>1, <1>2, <1>3 DEF WillRelease

(* A step of a lock alone.                                                 *)
LEMMA LockStep ==
    ASSUME VersionsInv, LockTypes', UNCHANGED <<storeVars, cli, runVars, reqs>>
    PROVE  VersionsInv'
<1>1. UNCHANGED <<rows, objects, reserved, failures, work, history>>
  BY DEF storeVars, runVars, history
<1>2. TypeOK /\ PushersRecorded /\ reserved <= MaxVersions
  BY DEF VersionsInv
<1>3. TypeOK'
  BY <1>1, <1>2, SameTypes DEF TypeOK
<1>4. PushersRecorded'
  BY <1>1, <1>2 DEF PushersRecorded
<1> QED
  BY <1>1, <1>2, <1>3, <1>4, Elsewhere DEF VersionsInv

(* An executor's step that writes no version and, when it leaves a state to *)
(* upload, leaves one that records the run.                                *)
LEMMA ExecutorStep ==
    ASSUME VersionsInv, NEW r \in Runs, NEW w \in Work,
           work' = [work EXCEPT ![r] = w],
           w.pc \in {"upload", "uploading"} => r \in w.state.has,
           LockTypes', HistoryTypes', UNCHANGED <<storeVars, cli, reqs>>
    PROVE  VersionsInv'
<1>1. UNCHANGED <<rows, objects, reserved, failures>>
  BY DEF storeVars
<1>2. TypeOK /\ PushersRecorded /\ reserved <= MaxVersions
  BY DEF VersionsInv
<1>3. work' \in [Runs -> Work] /\ work'[r] = w
      /\ \A s \in Runs : s # r => work'[s] = work[s]
  BY <1>2, WorkStep DEF TypeOK
<1>4. TypeOK'
  BY <1>1, <1>2, <1>3 DEF TypeOK
<1>5. PushersRecorded'
  <2>1. ASSUME NEW s \in Runs, work'[s].pc \in {"upload", "uploading"}
        PROVE  s \in work'[s].state.has
    <3>1. CASE s = r
      BY <1>3, <2>1, <3>1
    <3>2. CASE s # r
      BY <1>2, <1>3, <2>1, <3>2 DEF PushersRecorded
    <3> QED
      BY <3>1, <3>2
  <2> QED
    BY <1>2, <2>1 DEF PushersRecorded
<1> QED
  BY <1>1, <1>2, <1>4, <1>5, Elsewhere DEF VersionsInv

LEMMA WorkFields ==
    ASSUME NEW w \in Work
    PROVE  /\ w.phase \in {"plan", "apply"} /\ w.state \in State /\ w.base \in Nat
           /\ w.state.serial \in Nat /\ w.state.has \in SUBSET (Users \cup Runs)
           /\ w = [pc |-> w.pc, phase |-> w.phase, state |-> w.state, base |-> w.base]
  BY DEF Work, State

(* An executor that goes on with the state it has, or with another.        *)
LEMMA MovesOn ==
    ASSUME VersionsInv, NEW r \in Runs, NEW pc, Becomes(r, pc),
           pc \in {"fetch", "report", "dead"},
           LockTypes', HistoryTypes', UNCHANGED <<storeVars, cli, reqs>>
    PROVE  VersionsInv'
<1> DEFINE w == [work[r] EXCEPT !.pc = pc]
<1>1. work \in [Runs -> Work]
  BY DEF VersionsInv, TypeOK
<1>2. w \in Work /\ w.pc = pc
  BY <1>1 DEF Work
<1>3. work' = [work EXCEPT ![r] = w]
  BY <1>1 DEF Becomes
<1> HIDE DEF w
<1> QED
  BY <1>2, <1>3, ExecutorStep

LEMMA TakesUp ==
    ASSUME VersionsInv, NEW r \in Runs, NEW pc, NEW state \in State, NEW base \in Nat,
           WorksOn(r, pc, state, base),
           pc \in {"idle", "engine", "report", "upload"},
           pc = "upload" => r \in state.has,
           LockTypes', HistoryTypes', UNCHANGED <<storeVars, cli, reqs>>
    PROVE  VersionsInv'
<1> DEFINE w == [pc |-> pc, phase |-> work[r].phase, state |-> state, base |-> base]
<1>1. work \in [Runs -> Work]
  BY DEF VersionsInv, TypeOK
<1>2. w \in Work /\ w.pc = pc /\ w.state = state
  BY <1>1, WorkFields DEF Work
<1>3. work' = [work EXCEPT ![r] = w]
  BY <1>1 DEF WorksOn
<1> HIDE DEF w
<1> QED
  BY <1>2, <1>3, ExecutorStep

LEMMA LockForRunStep ==
    ASSUME VersionsInv, NEW r \in Runs, LockForRun(r)
    PROVE  VersionsInv'
<1>1. TypeOK
  BY DEF VersionsInv
<1>2. LockTypes'
  BY <1>1 DEF LockForRun, TypeOK, LockTypes
<1> QED
  BY <1>1, <1>2, SameTypes, MovesOn DEF LockForRun

LEMMA LockExpiresStep ==
    ASSUME VersionsInv, LockExpires
    PROVE  VersionsInv'
<1>1. TypeOK /\ stateLock \in Runs
  BY DEF VersionsInv, LockExpires, TypeOK, LockTypes
<1>2. LockTypes'
  BY <1>1, LockMoves DEF LockExpires, TypeOK, LockTypes
<1> QED
  BY <1>2, LockStep DEF LockExpires

LEMMA FetchStateStep ==
    ASSUME VersionsInv, NEW r \in Runs, FetchState(r)
    PROVE  VersionsInv'
<1>1. TypeOK /\ Latest \in State /\ work[r].base \in Nat
  BY StateTypes, WorkFields DEF VersionsInv, TypeOK
<1>2. /\ LockTypes' /\ HistoryTypes'
      /\ UNCHANGED <<storeVars, cli, reqs>>
  BY <1>1, SameTypes DEF FetchState
<1>3. CASE Becomes(r, "report")
  BY <1>2, <1>3, MovesOn
<1>4. CASE WorksOn(r, "engine", Latest, work[r].base)
  BY <1>1, <1>2, <1>4, TakesUp
<1> QED
  BY <1>3, <1>4 DEF FetchState

LEMMA PlanEndsStep ==
    ASSUME VersionsInv, NEW r \in Runs, PlanEnds(r)
    PROVE  VersionsInv'
<1>1. TypeOK /\ work[r].state \in State /\ work[r].state.serial \in Nat
  BY WorkFields DEF VersionsInv, TypeOK
<1>2. /\ LockTypes' /\ HistoryTypes'
      /\ UNCHANGED <<storeVars, cli, reqs>>
  BY <1>1, SameTypes DEF PlanEnds
<1> QED
  BY <1>1, <1>2, TakesUp DEF PlanEnds

(* What an apply leaves records the run that applied.                      *)
LEMMA ApplyEndsStep ==
    ASSUME VersionsInv, NEW r \in Runs, ApplyEnds(r)
    PROVE  VersionsInv'
<1> DEFINE left == [serial |-> work[r].state.serial + 1,
                    has    |-> work[r].state.has \cup {r}]
<1>1. TypeOK /\ work[r] \in Work
  BY DEF VersionsInv, TypeOK
<1>2. /\ LockTypes' /\ HistoryTypes'
      /\ UNCHANGED <<storeVars, cli, reqs>>
  <2>1. HistoryTypes'
    BY <1>1 DEF ApplyEnds, TypeOK, HistoryTypes
  <2> QED
    BY <1>1, <2>1, SameTypes DEF ApplyEnds
<1>3. left \in State /\ r \in left.has /\ work[r].base \in Nat
  BY <1>1, WorkFields DEF State
<1>4. CASE Becomes(r, "report")
  BY <1>2, <1>4, MovesOn
<1>5. CASE WorksOn(r, "upload", left, work[r].base)
  <2> HIDE DEF left
  <2> QED
    BY <1>2, <1>3, <1>5, TakesUp
<1> QED
  BY <1>4, <1>5 DEF ApplyEnds

LEMMA UploadStateStep ==
    ASSUME VersionsInv, NEW r \in Runs, UploadState(r)
    PROVE  VersionsInv'
<1> DEFINE w    == [work[r] EXCEPT !.pc = "uploading"]
           asks == Put(r, work[r].state)
<1>1. TypeOK /\ PushersRecorded /\ reserved <= MaxVersions
  BY DEF VersionsInv
<1>2. work \in [Runs -> Work] /\ work[r] \in Work
  BY <1>1 DEF TypeOK
<1>3. /\ LockTypes' /\ HistoryTypes'
      /\ UNCHANGED <<rows, objects, reserved, failures, cli>>
  <2>1. HistoryTypes'
    BY <1>1 DEF UploadState, TypeOK, HistoryTypes
  <2> QED
    BY <1>1, <2>1, SameTypes DEF UploadState, storeVars
<1>4. CASE Becomes(r, "report") /\ reqs' = reqs
  BY <1>3, <1>4, MovesOn DEF storeVars
<1>5. CASE reqs' = reqs \cup {asks} /\ Becomes(r, "uploading")
  <2>1. w \in Work /\ w.state = work[r].state
    BY <1>2 DEF Work
  <2>2. work' = [work EXCEPT ![r] = w]
    BY <1>2, <1>5 DEF Becomes
  <2>3. r \in work[r].state.has
    BY <1>1 DEF PushersRecorded, UploadState
  <2>4. /\ asks \in Req /\ asks.pc = "reserve" /\ asks.by = r
        /\ asks.state = work[r].state
    BY <1>2, WorkFields DEF Put, Req
  <2> HIDE DEF w, asks
  <2>5. work' \in [Runs -> Work] /\ work'[r] = w
        /\ \A s \in Runs : s # r => work'[s] = work[s]
    BY <1>2, <2>1, <2>2, WorkStep
  <2>6. TypeOK'
    BY <1>1, <1>3, <1>5, <2>4, <2>5 DEF TypeOK
  <2>7. PushersRecorded'
    <3>1. \A p \in reqs' : p.pc # "unlock" => p.by \in p.state.has
      BY <1>1, <1>5, <2>3, <2>4 DEF PushersRecorded
    <3>2. ASSUME NEW s \in Runs, work'[s].pc \in {"upload", "uploading"}
          PROVE  s \in work'[s].state.has
      <4>1. CASE s = r
        BY <2>1, <2>3, <2>5, <4>1
      <4>2. CASE s # r
        BY <1>1, <2>5, <3>2, <4>2 DEF PushersRecorded
      <4> QED
        BY <4>1, <4>2
    <3> QED
      BY <3>1, <3>2 DEF PushersRecorded
  <2>8. /\ Numbered' /\ WritersHaveRows'
        /\ NoDanglingVersion' /\ ServedAsPushed'
    BY <1>3, <1>5, <2>4, Arrives
  <2> QED
    BY <1>1, <1>3, <2>6, <2>7, <2>8 DEF VersionsInv
<1> QED
  BY <1>4, <1>5 DEF UploadState

LEMMA ExecutorDiesStep ==
    ASSUME VersionsInv, NEW r \in Runs, ExecutorDies(r)
    PROVE  VersionsInv'
<1>1. TypeOK
  BY DEF VersionsInv
<1>2. HistoryTypes'
  BY <1>1 DEF ExecutorDies, TypeOK, HistoryTypes
<1> QED
  BY <1>1, <1>2, SameTypes, MovesOn DEF ExecutorDies

LEMMA JobCompleteStep ==
    ASSUME VersionsInv, NEW r \in Runs, JobComplete(r)
    PROVE  VersionsInv'
<1> DEFINE w == [pc    |-> IF work[r].phase = "plan" /\ r \notin canceled
                             THEN "idle" ELSE "done",
                 phase |-> "apply", state |-> NoState, base |-> work[r].base]
<1>1. TypeOK /\ work[r] \in Work /\ NoState \in State
  BY StateTypes DEF VersionsInv, TypeOK
<1>2. w \in Work /\ w.pc \in {"idle", "done"}
  BY <1>1, WorkFields DEF Work
<1>3. work' = [work EXCEPT ![r] = w]
  BY DEF JobComplete
<1>4. LockTypes'
  BY <1>1, LockMoves DEF JobComplete, TypeOK, LockTypes
<1>5. HistoryTypes' /\ UNCHANGED <<storeVars, cli, reqs>>
  BY <1>1, SameTypes DEF JobComplete
<1> HIDE DEF w
<1> QED
  BY <1>2, <1>3, <1>4, <1>5, ExecutorStep

LEMMA CancelStep ==
    ASSUME VersionsInv, NEW r \in Runs, Cancel(r)
    PROVE  VersionsInv'
<1>1. TypeOK /\ work \in [Runs -> Work] /\ work[r] \in Work
  BY DEF VersionsInv, TypeOK
<1>2. work' = [work EXCEPT ![r] = work[r]]
  BY <1>1 DEF Cancel
<1>3. work[r].pc \in {"upload", "uploading"} => r \in work[r].state.has
  BY DEF VersionsInv, PushersRecorded
<1>4. LockTypes'
  BY <1>1, LockMoves DEF Cancel, TypeOK, LockTypes
<1>5. HistoryTypes'
  BY <1>1 DEF Cancel, TypeOK, HistoryTypes
<1>6. UNCHANGED <<storeVars, cli, reqs>>
  BY DEF Cancel
<1> QED
  BY <1>1, <1>2, <1>3, <1>4, <1>5, <1>6, ExecutorStep

LEMMA SettleLostWorkStep ==
    ASSUME VersionsInv, NEW r \in Runs, SettleLostWork(r)
    PROVE  VersionsInv'
<1>1. TypeOK /\ work \in [Runs -> Work] /\ work[r] \in Work /\ NoState \in State
  BY StateTypes DEF VersionsInv, TypeOK
<1>2. LockTypes'
  BY <1>1, LockMoves DEF SettleLostWork, TypeOK, LockTypes
<1>3. HistoryTypes'
  BY <1>1 DEF SettleLostWork, TypeOK, HistoryTypes
<1>4. UNCHANGED <<storeVars, cli, reqs>>
  BY DEF SettleLostWork
<1>5. CASE WorksOn(r, "idle", NoState, work[r].base)
  <2>1. work[r].base \in Nat
    BY <1>1, WorkFields
  <2> QED
    BY <1>1, <1>2, <1>3, <1>4, <1>5, <2>1, TakesUp
<1>6. CASE work' = work
  <2>1. work' = [work EXCEPT ![r] = work[r]]
    BY <1>1, <1>6
  <2>2. work[r].pc \in {"upload", "uploading"} => r \in work[r].state.has
    BY DEF VersionsInv, PushersRecorded
  <2> QED
    BY <1>1, <1>2, <1>3, <1>4, <2>1, <2>2, ExecutorStep
<1> QED
  BY <1>5, <1>6 DEF SettleLostWork

LEMMA ReleaseStateLockStep ==
    ASSUME VersionsInv, NEW r \in Runs, ReleaseStateLock(r)
    PROVE  VersionsInv'
<1>1. TypeOK
  BY DEF VersionsInv
<1>2. LockTypes'
  BY <1>1, LockMoves DEF ReleaseStateLock, TypeOK, LockTypes
<1> QED
  BY <1>2, LockStep DEF ReleaseStateLock

-----------------------------------------------------------------------------
LEMMA VersionsInit == Init => VersionsInv
<1> SUFFICES ASSUME Init PROVE VersionsInv
  OBVIOUS
<1>1. NoState \in State
  BY DEF NoState, State
<1>2. [pc |-> "idle", state |-> NoState] \in Cli
  BY <1>1 DEF Cli
<1>3. [pc |-> "idle", phase |-> "plan", state |-> NoState, base |-> 0] \in Work
  BY <1>1 DEF Work
<1>4. DOMAIN objects = {}
  BY DEF Init
<1>5. TypeOK
  BY <1>2, <1>3, <1>4 DEF Init, TypeOK, LockTypes, HistoryTypes
<1>6. reserved <= MaxVersions
  BY ConstantsAssumption DEF Init
<1>7. Numbered /\ WritersHaveRows /\ NoDanglingVersion /\ ServedAsPushed
  BY DEF Init, Numbered, WritersHaveRows, NoDanglingVersion, ServedAsPushed
<1>8. PushersRecorded
  BY DEF Init, PushersRecorded
<1> QED
  BY <1>5, <1>6, <1>7, <1>8 DEF VersionsInv

LEMMA VersionsNext == VersionsInv /\ [Next]_vars => VersionsInv'
<1> SUFFICES ASSUME VersionsInv, [Next]_vars PROVE VersionsInv'
  OBVIOUS
<1>1. CASE UNCHANGED vars
  <2>1. LockTypes' /\ UNCHANGED <<storeVars, cli, runVars, reqs>>
    BY <1>1, SameTypes DEF vars, runLock, lockVars, VersionsInv
  <2> QED
    BY <2>1, LockStep
<1>2. ASSUME NEW u \in Users, UserStep(u) PROVE VersionsInv'
  BY <1>2, LockSteps, CreateStep DEF UserStep
<1>3. ASSUME NEW r \in Runs, RunStep(r) PROVE VersionsInv'
  BY <1>3, LockForRunStep, FetchStateStep, PlanEndsStep, ApplyEndsStep,
     UploadStateStep, ExecutorDiesStep, JobCompleteStep, CancelStep,
     SettleLostWorkStep, ReleaseStateLockStep DEF RunStep
<1>4. ASSUME NEW q \in reqs, HandlerStep(q) PROVE VersionsInv'
  BY <1>4, ReservationStep, PutStep, PutFailsStep, RollbackStep,
     ForceUnlockSteps DEF HandlerStep
<1>5. CASE ForceUnlock \/ LockExpires
  BY <1>5, ForceUnlockSteps, LockExpiresStep
<1> QED
  BY <1>1, <1>2, <1>3, <1>4, <1>5 DEF Next

(* Every reachable state satisfies the inductive invariant: rows, objects   *)
(* and requests agree however their writers interleave.                    *)
THEOREM Versions_Inv == Spec => []VersionsInv
<1>1. Init => VersionsInv
  BY VersionsInit
<1>2. VersionsInv /\ [Next]_vars => VersionsInv'
  BY VersionsNext
<1> QED
  BY <1>1, <1>2, PTL DEF Spec

(* A version that lists without its object is one its writer is still at:   *)
(* no push and no upload that failed leaves one behind.                    *)
THEOREM Versions_NoDangling == Spec => []NoDanglingVersion
<1>1. VersionsInv => NoDanglingVersion
  BY DEF VersionsInv
<1> QED
  BY <1>1, Versions_Inv, PTL

(* What a version serves is what its writer pushed as that version, though  *)
(* the number may have been used before by a write that was rolled back.   *)
THEOREM Versions_Served == Spec => []ServedAsPushed
<1>1. VersionsInv => ServedAsPushed
  BY DEF VersionsInv
<1> QED
  BY <1>1, Versions_Inv, PTL

-----------------------------------------------------------------------------
(* The state lock.                                                         *)

(* A step after which no more phases are under way, no fewer have lost      *)
(* their lock, and the lock is whose it was, keeps the locks.               *)
LEMMA LocksKept ==
    ASSUME PhaseHoldsLock, stateLock' = stateLock, slipped \subseteq slipped',
           \A r \in Runs : UnderWay(r)' => UnderWay(r)
    PROVE  PhaseHoldsLock'
  BY DEF PhaseHoldsLock

(* A lock that goes under a phase has slipped.                             *)
LEMMA LocksLost ==
    ASSUME PhaseHoldsLock, NEW h \in Runs, stateLock = h, LosesLock(h), work' = work
    PROVE  PhaseHoldsLock'
<1>1. ASSUME NEW s \in Runs, UnderWay(s)' PROVE s \in slipped'
  <2>1. UnderWay(s)
    BY <1>1 DEF UnderWay, Working
  <2>2. CASE s = h
    BY <2>1, <2>2 DEF LosesLock
  <2>3. CASE s # h
    BY <2>1, <2>3 DEF PhaseHoldsLock, LosesLock
  <2> QED
    BY <2>2, <2>3
<1> QED
  BY <1>1 DEF PhaseHoldsLock

LEMMA LocksKeptByHandlers ==
    ASSUME TypeOK, PhaseHoldsLock, NEW q \in reqs, HandlerStep(q)
    PROVE  PhaseHoldsLock'
<1>1. CASE Answer(q) /\ UNCHANGED <<stateLock, slipped>>
  <2>1. \A r \in Runs : work'[r].pc \in {work[r].pc, "report"}
    BY <1>1, AnswerKeeps
  <2>2. \A r \in Runs : UnderWay(r)' => UnderWay(r)
    BY <2>1 DEF UnderWay, Working
  <2> QED
    BY <1>1, <2>2, LocksKept
<1>2. CASE UNCHANGED <<stateLock, slipped, work>>
  BY <1>2 DEF PhaseHoldsLock, UnderWay, Working
<1> QED
  BY <1>1, <1>2 DEF HandlerStep, ReserveVersion, PutStateObject, PutFails,
     Rollback, ForceUnlockWrite, lockVars, runLock, storeVars, runVars

LEMMA LocksKeptByRuns ==
    ASSUME TypeOK, PhaseHoldsLock, NEW r \in Runs, RunStep(r)
    PROVE  PhaseHoldsLock'
<1>1. work \in [Runs -> Work]
  BY DEF TypeOK
<1>2. CASE LockForRun(r)
  <2>1. /\ stateLock \in {Nobody, r} /\ stateLock' = r /\ slipped' = slipped
        /\ work' = [work EXCEPT ![r].pc = "fetch"]
    BY <1>2 DEF LockForRun, StateIsFree, Becomes
  <2>2. Nobody \notin Runs
    BY ConstantsAssumption
  <2>3. ASSUME NEW s \in Runs, UnderWay(s)', s # r
        PROVE  s \in slipped'
    <3>1. work'[s] = work[s]
      BY <1>1, <2>1, <2>3
    <3>2. stateLock = s \/ s \in slipped
      BY <2>3, <3>1 DEF PhaseHoldsLock, UnderWay, Working
    <3> QED
      BY <2>1, <2>2, <2>3, <3>2
  <2> QED
    BY <2>1, <2>3 DEF PhaseHoldsLock
<1>3. CASE FetchState(r) \/ PlanEnds(r) \/ ApplyEnds(r) \/ UploadState(r)
           \/ ExecutorDies(r)
  <2>1. UNCHANGED <<stateLock, slipped>>
    BY <1>3 DEF FetchState, PlanEnds, ApplyEnds, UploadState, ExecutorDies, lockVars
  <2>2. UnderWay(r)
    BY <1>3 DEF FetchState, PlanEnds, ApplyEnds, UploadState, ExecutorDies,
       UnderWay, Working
  <2>3. \A s \in Runs : s # r => work'[s] = work[s]
    BY <1>1, <1>3 DEF FetchState, PlanEnds, ApplyEnds, UploadState, ExecutorDies,
       Becomes, WorksOn
  <2>4. \A s \in Runs : UnderWay(s)' => UnderWay(s)
    BY <2>2, <2>3 DEF UnderWay, Working
  <2> QED
    BY <2>1, <2>4, LocksKept
<1>4. CASE JobComplete(r) \/ Cancel(r) \/ SettleLostWork(r)
  <2>1. UNCHANGED <<stateLock, slipped>>
    BY <1>4 DEF JobComplete, Cancel, SettleLostWork
  <2>2. \A s \in Runs : work'[s] = work[s] \/ work'[s].pc \in {"idle", "done"}
    BY <1>1, <1>4 DEF JobComplete, Cancel, SettleLostWork, WorksOn
  <2>3. \A s \in Runs : UnderWay(s)' => UnderWay(s)
    BY <2>2 DEF UnderWay, Working
  <2> QED
    BY <2>1, <2>3, LocksKept
<1>5. CASE ReleaseStateLock(r)
  <2>1. work' = work
    BY <1>5 DEF ReleaseStateLock, runVars
  <2>2. CASE stateLock = r
    BY <1>5, <2>1, <2>2, LocksLost DEF ReleaseStateLock
  <2>3. CASE stateLock # r
    BY <1>5, <2>1, <2>3 DEF ReleaseStateLock, PhaseHoldsLock, UnderWay, Working
  <2> QED
    BY <2>2, <2>3
<1> QED
  BY <1>2, <1>3, <1>4, <1>5 DEF RunStep

LEMMA LocksInit == Init => PhaseHoldsLock
<1> SUFFICES ASSUME Init PROVE PhaseHoldsLock
  OBVIOUS
<1>1. \A r \in Runs : work[r].pc = "idle"
  BY DEF Init
<1> QED
  BY <1>1 DEF PhaseHoldsLock, UnderWay, Working

LEMMA LocksNext == TypeOK /\ PhaseHoldsLock /\ [Next]_vars => PhaseHoldsLock'
<1> SUFFICES ASSUME TypeOK, PhaseHoldsLock, [Next]_vars PROVE PhaseHoldsLock'
  OBVIOUS
<1>1. CASE UNCHANGED <<stateLock, slipped, work>>
  BY <1>1 DEF PhaseHoldsLock, UnderWay, Working
<1>2. ASSUME NEW u \in Users, UserStep(u) PROVE PhaseHoldsLock'
  BY <1>1, <1>2 DEF UserStep, LockRead, LockWrite, Pull, Create, UnlockRead,
     UnlockWrite, lockVars, runLock, runVars
<1>3. CASE ForceUnlock
  BY <1>1, <1>3 DEF ForceUnlock, lockVars, runVars
<1>4. CASE LockExpires
  <2>1. stateLock \in Runs /\ LosesLock(stateLock) /\ work' = work
    BY <1>4 DEF LockExpires, TypeOK, LockTypes, runVars
  <2> QED
    BY <2>1, LocksLost
<1>5. CASE UNCHANGED vars
  BY <1>1, <1>5 DEF vars, runLock, runVars
<1> QED
  BY <1>2, <1>3, <1>4, <1>5, LocksKeptByHandlers, LocksKeptByRuns DEF Next

-----------------------------------------------------------------------------
(* The latest state covers what engines changed.                           *)

(* As long as no phase lost its lock, nobody pushed and every object was    *)
(* stored: a condition that, once false, stays false.                      *)
Calm == /\ slipped = {} /\ failures = 0
        /\ \A row \in rows : row.by \in Runs

Storing  == \E q \in reqs : q.pc = "put"
Recorded == {r \in made \ unsaved : work[r].pc \in {"report", "done"}}

(* Only a write that failed is rolled back.                                *)
NoRollbacks == failures = 0 => \A q \in reqs : q.pc # "rollback"

(* What engines change they change in an apply, which leaves a state.      *)
MadeByApply == \A r \in made :
    /\ work[r].phase = "apply"
    /\ work[r].pc \in {"upload", "uploading", "report", "dead", "done"}

(* Applies upload, and an executor waits for the one upload it asked for.   *)
Uploads ==
    /\ \A r \in Runs : work[r].pc \in {"upload", "uploading"} =>
          work[r].phase = "apply"
    /\ \A q \in reqs : q.by \in Runs =>
          /\ q.pc # "unlock"
          /\ work[q.by].pc = "uploading" /\ q.state = work[q.by].state
    /\ \A p, q \in reqs : p.by \in Runs /\ p.by = q.by => p = q

(* An engine works on the latest state, and what it leaves is the next.    *)
UpToDate(r) ==
    /\ work[r].pc = "engine" => work[r].state = Latest
    /\ (work[r].pc \in {"upload", "uploading"} /\ ~Storing) =>
         work[r].state = [serial |-> Latest.serial + 1,
                          has    |-> Latest.has \cup {r}]

Covered ==
    /\ ~Storing => Recorded \subseteq Latest.has
    /\ \A r \in Runs : UpToDate(r)
    /\ \A q \in reqs : q.pc = "put" =>
          q.version = LastVersion /\ Recorded \subseteq q.state.has

CoverInv == NoRollbacks /\ MadeByApply /\ Uploads /\ (Calm => Covered)

(* Whose answer changes what: a client's, or one executor's.               *)
LEMMA AnswerTells ==
    ASSUME TypeOK, NEW q \in reqs, Answer(q)
    PROVE  /\ reqs' = reqs \ {q}
           /\ q.by \notin Runs => work' = work
           /\ q.by \in Runs =>
                /\ work'[q.by].pc = "report"
                /\ work'[q.by].phase = work[q.by].phase
                /\ \A s \in Runs : s # q.by => work'[s] = work[s]
<1>1. q.by \in Users \cup Runs /\ work \in [Runs -> Work]
  BY DEF TypeOK, Req
<1>2. CASE q.by \in Runs
  <2>1. q.by \notin Users
    BY <1>2, ConstantsAssumption
  <2>2. work' = [work EXCEPT ![q.by].pc = "report"] /\ reqs' = reqs \ {q}
    BY <2>1 DEF Answer
  <2> QED
    BY <1>1, <1>2, <2>2 DEF Work
<1>3. CASE q.by \notin Runs
  BY <1>1, <1>3 DEF Answer
<1> QED
  BY <1>2, <1>3

(* A run's step is one of its executor alone.                              *)
LEMMA RunAlone ==
    ASSUME TypeOK, NEW r \in Runs, RunStep(r)
    PROVE  \A s \in Runs : s # r => work'[s] = work[s]
  BY DEF TypeOK, RunStep, LockForRun, FetchState, PlanEnds, ApplyEnds, UploadState,
     ExecutorDies, JobComplete, Cancel, SettleLostWork, ReleaseStateLock, Becomes,
     WorksOn, runVars

(* What a run's step leaves of its executor.                               *)
LEMMA RunBecomes ==
    ASSUME TypeOK, NEW r \in Runs
    PROVE  /\ \A pc : Becomes(r, pc) =>
                 work'[r].pc = pc /\ work'[r].phase = work[r].phase
                 /\ work'[r].state = work[r].state
           /\ \A pc, state, base : WorksOn(r, pc, state, base) =>
                 work'[r].pc = pc /\ work'[r].phase = work[r].phase
                 /\ work'[r].state = state
  BY DEF TypeOK, Becomes, WorksOn, Work

-----------------------------------------------------------------------------
LEMMA NoRollbacksNext == TypeOK /\ NoRollbacks /\ [Next]_vars => NoRollbacks'
<1> SUFFICES ASSUME TypeOK, NoRollbacks, [Next]_vars PROVE NoRollbacks'
  OBVIOUS
<1>1. failures \in Nat /\ reqs \subseteq Req
  BY DEF TypeOK
<1>2. CASE /\ failures' = failures
           /\ \A p \in reqs' : p \in reqs \/ p.pc # "rollback"
  BY <1>2 DEF NoRollbacks
<1>3. CASE UNCHANGED vars
  BY <1>2, <1>3 DEF vars, storeVars
<1>4. ASSUME NEW u \in Users, UserStep(u) PROVE NoRollbacks'
  <2>1. CASE Create(u)
    <3>1. failures' = failures
      BY <2>1 DEF Create, storeVars
    <3>2. \A p \in reqs' : p \in reqs \/ p.pc = "reserve"
      BY <2>1 DEF Create, Put
    <3> QED
      BY <1>2, <3>1, <3>2
  <2>2. CASE UNCHANGED <<failures, reqs>>
    BY <1>2, <2>2
  <2> QED
    BY <1>4, <2>1, <2>2 DEF UserStep, LockRead, LockWrite, Pull, UnlockRead,
       UnlockWrite, storeVars
<1>5. ASSUME NEW r \in Runs, RunStep(r) PROVE NoRollbacks'
  <2>1. CASE UploadState(r)
    <3>1. failures' = failures
      BY <2>1 DEF UploadState, storeVars
    <3>2. \A p \in reqs' : p \in reqs \/ p.pc = "reserve"
      BY <2>1 DEF UploadState, Put
    <3> QED
      BY <1>2, <3>1, <3>2
  <2>2. CASE UNCHANGED <<failures, reqs>>
    BY <1>2, <2>2
  <2> QED
    BY <1>5, <2>1, <2>2 DEF RunStep, LockForRun, FetchState, PlanEnds, ApplyEnds,
       ExecutorDies, JobComplete, Cancel, SettleLostWork, ReleaseStateLock, storeVars
<1>6. ASSUME NEW q \in reqs, HandlerStep(q) PROVE NoRollbacks'
  <2>1. CASE ReserveVersion(q)
    <3>1. failures' = failures
      BY <2>1 DEF ReserveVersion
    <3>2. \A p \in reqs' : p \in reqs \/ p.pc = "put"
      BY <2>1 DEF ReserveVersion, Answer
    <3> QED
      BY <1>2, <3>1, <3>2
  <2>2. CASE PutFails(q)
    BY <1>1, <2>2 DEF PutFails, NoRollbacks
  <2>3. CASE failures' = failures /\ reqs' = reqs \ {q}
    BY <1>2, <2>3
  <2> QED
    BY <1>6, <2>1, <2>2, <2>3 DEF HandlerStep, PutStateObject, Rollback,
       ForceUnlockWrite, Answer, storeVars
<1>7. CASE ForceUnlock
  <2>1. failures' = failures
    BY <1>7 DEF ForceUnlock, storeVars
  <2>2. \A p \in reqs' : p \in reqs \/ p.pc = "unlock"
    BY <1>7 DEF ForceUnlock, Put
  <2> QED
    BY <1>2, <2>1, <2>2
<1>8. CASE LockExpires
  BY <1>2, <1>8 DEF LockExpires, storeVars
<1> QED
  BY <1>3, <1>4, <1>5, <1>6, <1>7, <1>8 DEF Next

(* Once a phase lost its lock, somebody pushed or an object was not stored, *)
(* it is not calm again: a row leaves only when storing it failed.          *)
LEMMA CalmBefore ==
    ASSUME TypeOK, NoRollbacks, [Next]_vars, Calm' PROVE Calm
<1>1. failures \in Nat
  BY DEF TypeOK
<1>2. slipped \subseteq slipped' /\ failures <= failures'
  <2>1. slipped \subseteq slipped'
    BY DEF Next, vars, UserStep, RunStep, HandlerStep, LockRead, LockWrite, Pull,
       Create, UnlockRead, UnlockWrite, LockForRun, FetchState, PlanEnds, ApplyEnds,
       UploadState, ExecutorDies, JobComplete, Cancel, SettleLostWork,
       ReleaseStateLock, LosesLock, ReserveVersion, PutStateObject, PutFails,
       Rollback, ForceUnlockWrite, ForceUnlock, LockExpires, lockVars, runLock
  <2>2. failures' = failures \/ failures' = failures + 1
    BY DEF Next, vars, UserStep, RunStep, HandlerStep, LockRead, LockWrite, Pull,
       Create, UnlockRead, UnlockWrite, LockForRun, FetchState, PlanEnds, ApplyEnds,
       UploadState, ExecutorDies, JobComplete, Cancel, SettleLostWork,
       ReleaseStateLock, ReserveVersion, PutStateObject, PutFails,
       Rollback, ForceUnlockWrite, ForceUnlock, LockExpires, storeVars
  <2> QED
    BY <1>1, <2>1, <2>2
<1>3. failures = 0 /\ slipped = {}
  BY <1>1, <1>2 DEF Calm
<1>4. rows \subseteq rows' \/ \E q \in reqs : Rollback(q)
  BY DEF Next, vars, UserStep, RunStep, HandlerStep, LockRead, LockWrite, Pull,
     Create, UnlockRead, UnlockWrite, LockForRun, FetchState, PlanEnds, ApplyEnds,
     UploadState, ExecutorDies, JobComplete, Cancel, SettleLostWork,
     ReleaseStateLock, ReserveVersion, PutStateObject, PutFails,
     ForceUnlockWrite, ForceUnlock, LockExpires, storeVars
<1>5. rows \subseteq rows'
  BY <1>3, <1>4 DEF NoRollbacks, Rollback
<1> QED
  BY <1>3, <1>5 DEF Calm

LEMMA MadeByApplyNext == TypeOK /\ MadeByApply /\ Uploads /\ [Next]_vars => MadeByApply'
<1> SUFFICES ASSUME TypeOK, MadeByApply, Uploads, [Next]_vars PROVE MadeByApply'
  OBVIOUS
<1>1. work \in [Runs -> Work] /\ made \subseteq Runs
  BY DEF TypeOK, HistoryTypes
<1>2. CASE UNCHANGED <<work, made>>
  BY <1>2 DEF MadeByApply
<1>3. ASSUME NEW r \in Runs, RunStep(r) PROVE MadeByApply'
  <2>1. made' \subseteq made \cup {r}
    BY <1>3 DEF RunStep, LockForRun, FetchState, PlanEnds, ApplyEnds, UploadState,
       ExecutorDies, JobComplete, Cancel, SettleLostWork, ReleaseStateLock, history,
       runVars
  <2>2. \A s \in Runs : s # r => work'[s] = work[s]
    BY <1>3, RunAlone
  <2>3. r \in made' =>
          /\ work'[r].phase = "apply"
          /\ work'[r].pc \in {"upload", "uploading", "report", "dead", "done"}
    <3>1. CASE LockForRun(r) \/ FetchState(r) \/ PlanEnds(r)
      BY <3>1 DEF LockForRun, FetchState, PlanEnds, MadeByApply, history
    <3>2. CASE ApplyEnds(r)
      <4>1. work[r].phase = "apply"
        BY <3>2 DEF ApplyEnds
      <4>2. work'[r].phase = work[r].phase /\ work'[r].pc \in {"upload", "report"}
        BY <3>2, RunBecomes DEF ApplyEnds
      <4> QED
        BY <4>1, <4>2
    <3>3. CASE UploadState(r)
      <4>1. made' = made
        BY <3>3 DEF UploadState
      <4>2. work'[r].phase = work[r].phase /\ work'[r].pc \in {"uploading", "report"}
        BY <3>3, RunBecomes DEF UploadState
      <4> QED
        BY <4>1, <4>2 DEF MadeByApply
    <3>4. CASE ExecutorDies(r)
      <4>1. r \in made' => work[r].phase = "apply"
        BY <3>4 DEF ExecutorDies, MadeByApply
      <4>2. work'[r].phase = work[r].phase /\ work'[r].pc = "dead"
        BY <3>4, RunBecomes DEF ExecutorDies
      <4> QED
        BY <4>1, <4>2
    <3>5. CASE JobComplete(r)
      <4>1. made' = made /\ work'[r].phase = "apply"
        BY <1>1, <3>5 DEF JobComplete, history
      <4>2. r \in made => work'[r].pc = "done"
        BY <1>1, <3>5 DEF JobComplete, MadeByApply
      <4> QED
        BY <4>1, <4>2
    <3>6. CASE SettleLostWork(r)
      BY <3>6 DEF SettleLostWork, MadeByApply
    <3>7. CASE Cancel(r) \/ ReleaseStateLock(r)
      BY <3>7 DEF Cancel, ReleaseStateLock, MadeByApply, runVars
    <3> QED
      BY <1>3, <3>1, <3>2, <3>3, <3>4, <3>5, <3>6, <3>7 DEF RunStep
  <2> QED
    BY <1>1, <2>1, <2>2, <2>3 DEF MadeByApply
<1>4. ASSUME NEW q \in reqs, HandlerStep(q) PROVE MadeByApply'
  <2>1. CASE Answer(q) /\ made' = made
    <3>1. ASSUME NEW s \in made
          PROVE  /\ work'[s].phase = "apply"
                 /\ work'[s].pc \in {"upload", "uploading", "report", "dead", "done"}
      BY <1>1, <2>1, AnswerTells DEF MadeByApply
    <3> QED
      BY <2>1, <3>1 DEF MadeByApply
  <2> QED
    BY <1>2, <1>4, <2>1 DEF HandlerStep, ReserveVersion, PutStateObject, PutFails,
       Rollback, ForceUnlockWrite, runVars, history
<1>5. CASE UNCHANGED vars \/ ForceUnlock \/ LockExpires \/ \E u \in Users : UserStep(u)
  BY <1>2, <1>5 DEF vars, ForceUnlock, LockExpires, UserStep, LockRead, LockWrite,
     Pull, Create, UnlockRead, UnlockWrite, runVars
<1> QED
  BY <1>3, <1>4, <1>5 DEF Next

LEMMA UploadsNext == TypeOK /\ Uploads /\ [Next]_vars => Uploads'
<1> SUFFICES ASSUME TypeOK, Uploads, [Next]_vars PROVE Uploads'
  OBVIOUS
<1>1. work \in [Runs -> Work] /\ reqs \subseteq Req /\ Users \cap Runs = {}
  BY ConstantsAssumption DEF TypeOK
<1>2. CASE UNCHANGED work /\ \A q \in reqs' : q.by \in Runs => q \in reqs
  BY <1>2 DEF Uploads
<1>3. ASSUME NEW u \in Users, UserStep(u) PROVE Uploads'
  <2>1. UNCHANGED work
    BY <1>3 DEF UserStep, LockRead, LockWrite, Pull, Create, UnlockRead,
       UnlockWrite, runVars
  <2>2. \A q \in reqs' : q \in reqs \/ q.by = u
    BY <1>3 DEF UserStep, LockRead, LockWrite, Pull, Create, UnlockRead,
       UnlockWrite, Put
  <2> QED
    BY <1>1, <1>2, <2>1, <2>2
<1>4. CASE ForceUnlock
  <2>1. UNCHANGED work /\ \A q \in reqs' : q \in reqs \/ q.by \in Users
    BY <1>4 DEF ForceUnlock, runVars, Put
  <2> QED
    BY <1>1, <1>2, <2>1
<1>5. CASE UNCHANGED vars \/ LockExpires
  BY <1>2, <1>5 DEF vars, LockExpires, runVars
<1>6. ASSUME NEW r \in Runs, RunStep(r) PROVE Uploads'
  <2>1. \A s \in Runs : s # r => work'[s] = work[s]
    BY <1>6, RunAlone
  <2>2. CASE Becomes(r, "uploading") /\ UploadState(r)
    <3>1. /\ reqs' = reqs \cup {Put(r, work[r].state)}
          /\ work[r].pc = "upload" /\ work[r].phase = "apply"
          /\ work'[r].pc = "uploading" /\ work'[r].state = work[r].state
          /\ work'[r].phase = "apply"
      BY <2>2, RunBecomes DEF UploadState, Uploads
    <3>2. Put(r, work[r].state).by = r /\ Put(r, work[r].state).pc = "reserve"
          /\ Put(r, work[r].state).state = work[r].state
      BY DEF Put
    <3>3. \A q \in reqs : q.by # r
      BY <3>1 DEF Uploads
    <3> QED
      BY <1>1, <2>1, <3>1, <3>2, <3>3 DEF Uploads
  <2>3. CASE /\ reqs' = reqs
             /\ work[r].pc # "uploading"
             /\ work'[r].pc \in {"upload", "uploading"} => work'[r].phase = "apply"
    BY <2>1, <2>3 DEF Uploads
  <2>4. CASE reqs' = reqs /\ work' = work
    BY <2>4 DEF Uploads
  <2>5. CASE LockForRun(r) \/ FetchState(r) \/ PlanEnds(r) \/ ExecutorDies(r)
             \/ ApplyEnds(r)
    <3>1. reqs' = reqs /\ work[r].pc # "uploading"
      BY <2>5 DEF LockForRun, FetchState, PlanEnds, ExecutorDies, ApplyEnds
    <3>2. work'[r].pc \in {"upload", "uploading"} => work'[r].phase = "apply"
      BY <2>5, RunBecomes DEF LockForRun, FetchState, PlanEnds, ExecutorDies, ApplyEnds
    <3> QED
      BY <2>3, <3>1, <3>2
  <2>6. CASE Becomes(r, "report") /\ UploadState(r)
    <3>1. reqs' = reqs
      BY <2>6, RunBecomes DEF UploadState
    <3>2. work[r].pc # "uploading" /\ work'[r].pc = "report"
      BY <2>6, RunBecomes DEF UploadState
    <3> QED
      BY <2>3, <3>1, <3>2
  <2>7. CASE JobComplete(r)
    <3>1. /\ reqs' = reqs /\ work[r].pc # "uploading"
          /\ work'[r].pc \in {"idle", "done"}
      BY <1>1, <2>7 DEF JobComplete
    <3> QED
      BY <2>3, <3>1
  <2>8. CASE SettleLostWork(r)
    <3>1. CASE work[r].phase = "plan"
      <4>1. reqs' = reqs /\ work'[r].pc = "idle"
        BY <2>8, <3>1, RunBecomes DEF SettleLostWork
      <4>2. work[r].pc # "uploading"
        BY <3>1 DEF Uploads
      <4> QED
        BY <2>3, <4>1, <4>2
    <3>2. CASE work[r].phase # "plan"
      BY <2>4, <2>8, <3>2 DEF SettleLostWork
    <3> QED
      BY <3>1, <3>2
  <2>9. CASE Cancel(r) \/ ReleaseStateLock(r)
    BY <2>4, <2>9 DEF Cancel, ReleaseStateLock, runVars
  <2> QED
    BY <1>6, <2>2, <2>5, <2>6, <2>7, <2>8, <2>9 DEF RunStep, UploadState
<1>7. ASSUME NEW q \in reqs, HandlerStep(q) PROVE Uploads'
  <2>1. CASE Answer(q)
    BY <1>1, <2>1, AnswerTells DEF Uploads
  <2>2. CASE /\ UNCHANGED work
             /\ \E n : /\ reqs' = (reqs \ {q}) \cup {n}
                       /\ n.by = q.by /\ n.state = q.state
                       /\ n.pc # "unlock"
    BY <2>2 DEF Uploads
  <2>3. CASE ReserveVersion(q) /\ ~ Answer(q)
    <3>1. PICK n : n = [by |-> q.by, pc |-> "put", id |-> reserved',
                        version |-> LastVersion + 1, state |-> q.state]
      OBVIOUS
    <3>2. n.by = q.by /\ n.state = q.state /\ n.pc # "unlock"
      BY <3>1
    <3>3. reqs' = (reqs \ {q}) \cup {n} /\ UNCHANGED work
      BY <2>3, <3>1 DEF ReserveVersion
    <3> QED
      BY <2>2, <3>2, <3>3
  <2>4. CASE PutFails(q)
    <3>1. PICK n : n = [q EXCEPT !.pc = "rollback"]
      OBVIOUS
    <3>2. n.by = q.by /\ n.state = q.state /\ n.pc # "unlock"
      BY <1>1, <3>1 DEF Req
    <3>3. reqs' = (reqs \ {q}) \cup {n} /\ UNCHANGED work
      BY <2>4, <3>1 DEF PutFails, runVars
    <3> QED
      BY <2>2, <3>2, <3>3
  <2>5. CASE ForceUnlockWrite(q)
    BY <1>2, <2>5 DEF ForceUnlockWrite, runVars
  <2> QED
    BY <1>7, <2>1, <2>3, <2>4, <2>5 DEF HandlerStep, PutStateObject, Rollback
<1> QED
  BY <1>3, <1>4, <1>5, <1>6, <1>7 DEF Next

-----------------------------------------------------------------------------
(* While it is calm the state lock lets one phase at a time work.          *)
LEMMA OnePhase ==
    ASSUME TypeOK, PhaseHoldsLock, Calm, NEW r \in Runs, NEW s \in Runs,
           UnderWay(r), UnderWay(s)
    PROVE  r = s
  BY DEF PhaseHoldsLock, Calm

(* A version in flight is the upload of the one run whose phase is on.      *)
LEMMA WriterIsRun ==
    ASSUME VersionsInv, Uploads, Calm, NEW q \in reqs, q.pc \in {"put", "rollback"}
    PROVE  q.by \in Runs /\ work[q.by].pc = "uploading"
<1>1. RowOf(q) \in rows /\ RowOf(q).by = q.by
  BY DEF VersionsInv, WritersHaveRows, RowOf
<1>2. q.by \in Runs
  BY <1>1 DEF Calm
<1> QED
  BY <1>2 DEF Uploads

(* A step that writes no version keeps what holds of the states, if those   *)
(* that engines now work on are the latest.                                *)
LEMMA CoveredKept ==
    ASSUME Covered, rows' = rows, objects' = objects,
           \A q \in reqs' : q.pc = "put" => q \in reqs,
           \A q \in reqs : q.pc = "put" => q \in reqs',
           Recorded' \subseteq Recorded,
           \A s \in Runs : work'[s] = work[s] \/ UpToDate(s)'
    PROVE  Covered'
<1>1. LastVersion' = LastVersion
  BY DEF LastVersion
<1>2. Latest' = Latest
  BY <1>1 DEF Latest
<1>3. Storing' = Storing
  BY DEF Storing
<1>4. \A s \in Runs : UpToDate(s)'
  BY <1>2, <1>3 DEF Covered, UpToDate
<1>5. ~Storing' => Recorded' \subseteq Latest'.has
  BY <1>2, <1>3 DEF Covered
<1>6. \A q \in reqs' : q.pc = "put" =>
        q.version = LastVersion' /\ Recorded' \subseteq q.state.has
  BY <1>1 DEF Covered
<1> QED
  BY <1>4, <1>5, <1>6 DEF Covered

LEMMA CoveredByUsers ==
    ASSUME Covered, ForceUnlock \/ LockExpires \/ \E u \in Users : UserStep(u)
    PROVE  Covered'
<1>1. UNCHANGED <<rows, objects, work, made, unsaved>>
  BY DEF ForceUnlock, LockExpires, UserStep, LockRead, LockWrite, Pull, Create, UnlockRead,
     UnlockWrite, storeVars, runVars
<1>2. Recorded' = Recorded
  BY <1>1 DEF Recorded
<1>3. reqs \subseteq reqs' /\ \A q \in reqs' : q \in reqs \/ q.pc # "put"
  <2>1. CASE ForceUnlock
    BY <2>1 DEF ForceUnlock, Put
  <2>2. ASSUME NEW u \in Users, Create(u)
        PROVE  reqs \subseteq reqs' /\ \A q \in reqs' : q \in reqs \/ q.pc # "put"
    BY <2>2 DEF Create, Put
  <2>3. CASE reqs' = reqs
    BY <2>3
  <2> QED
    BY <2>1, <2>2, <2>3 DEF LockExpires, UserStep, LockRead, LockWrite, Pull,
       UnlockRead, UnlockWrite
<1> QED
  BY <1>1, <1>2, <1>3, CoveredKept

(* An engine gets the latest state, since the run that fetches it is the    *)
(* one whose phase is on; the state it leaves follows that one.            *)
LEMMA CoveredByRuns ==
    ASSUME VersionsInv, PhaseHoldsLock, MadeByApply, Uploads, Calm, Covered,
           NEW r \in Runs, RunStep(r)
    PROVE  Covered'
<1>1. TypeOK /\ work \in [Runs -> Work] /\ made \subseteq Runs
  BY DEF VersionsInv, TypeOK, HistoryTypes
<1>2. \A s \in Runs : s # r => work'[s] = work[s]
  BY <1>1, RunAlone
<1>3. UNCHANGED <<rows, objects>>
  BY DEF RunStep, LockForRun, FetchState, PlanEnds, ApplyEnds, UploadState,
     ExecutorDies, JobComplete, Cancel, SettleLostWork, ReleaseStateLock, storeVars
<1>4. reqs \subseteq reqs' /\ \A q \in reqs' : q \in reqs \/ q.pc # "put"
  BY DEF RunStep, LockForRun, FetchState, PlanEnds, ApplyEnds, UploadState,
     ExecutorDies, JobComplete, Cancel, SettleLostWork, ReleaseStateLock, Put
<1>5. Latest' = Latest /\ Storing' = Storing
  <2>1. LastVersion' = LastVersion
    BY <1>3 DEF LastVersion
  <2> QED
    BY <1>3, <1>4, <2>1 DEF Latest, Storing
<1>6. UpToDate(r)
  BY DEF Covered
<1>7. SUFFICES Recorded' \subseteq Recorded /\ UpToDate(r)'
  BY <1>2, <1>3, <1>4, CoveredKept
<1>8. unsaved \subseteq unsaved'
  BY DEF RunStep, LockForRun, FetchState, PlanEnds, ApplyEnds, UploadState,
     ExecutorDies, JobComplete, Cancel, SettleLostWork, ReleaseStateLock, runVars,
     history
<1>9. ASSUME made' \subseteq made \cup {r}, r \notin Recorded' \/ r \in Recorded
      PROVE  Recorded' \subseteq Recorded
  BY <1>1, <1>2, <1>8, <1>9 DEF Recorded
<1>10. CASE LockForRun(r)
  <2>1. work'[r].pc = "fetch" /\ made' = made
    BY <1>1, <1>10, RunBecomes DEF LockForRun, history
  <2> QED
    BY <1>9, <2>1 DEF Recorded, UpToDate
<1>11. CASE FetchState(r)
  <2>1. /\ made' = made /\ work[r].pc = "fetch"
        /\ Becomes(r, "report") \/ WorksOn(r, "engine", Latest, work[r].base)
    BY <1>11 DEF FetchState, history
  <2>2. r \notin made
    BY <2>1 DEF MadeByApply
  <2>3. work'[r].pc = "report" \/ (work'[r].pc = "engine" /\ work'[r].state = Latest)
    <3>1. CASE Becomes(r, "report")
      BY <1>1, <3>1, RunBecomes
    <3>2. CASE WorksOn(r, "engine", Latest, work[r].base)
      BY <1>1, <3>2, RunBecomes
    <3> QED
      BY <2>1, <3>1, <3>2
  <2> QED
    BY <1>5, <1>9, <2>1, <2>2, <2>3 DEF Recorded, UpToDate
<1>12. CASE PlanEnds(r)
  <2>1. made' = made /\ work'[r].pc = "report" /\ work[r].phase = "plan"
    BY <1>1, <1>12, RunBecomes DEF PlanEnds, history
  <2>2. r \notin made
    BY <2>1 DEF MadeByApply
  <2> QED
    BY <1>9, <2>1, <2>2 DEF Recorded, UpToDate
<1>13. CASE ApplyEnds(r)
  <2>1. made' \subseteq made \cup {r} /\ work[r].pc = "engine"
    BY <1>13 DEF ApplyEnds
  <2>2. work[r].state = Latest /\ r \notin made
    BY <1>6, <2>1 DEF UpToDate, MadeByApply
  <2>3. CASE work'[r].pc = "upload"
    <3>1. work'[r].state = [serial |-> work[r].state.serial + 1,
                            has    |-> work[r].state.has \cup {r}]
      BY <1>1, <1>13, <2>3, RunBecomes DEF ApplyEnds
    <3>2. UpToDate(r)'
      BY <1>5, <2>2, <2>3, <3>1 DEF UpToDate
    <3> QED
      BY <1>9, <2>1, <2>3, <3>2 DEF Recorded
  <2>4. CASE work'[r].pc # "upload"
    <3>1. work'[r].pc = "report" /\ (r \in unsaved' \/ made' = made)
      BY <1>1, <1>13, <2>4, RunBecomes DEF ApplyEnds
    <3> QED
      BY <1>9, <2>1, <2>2, <3>1 DEF Recorded, UpToDate
  <2> QED
    BY <2>3, <2>4
<1>14. CASE UploadState(r)
  <2>1. /\ made' = made /\ work[r].pc = "upload"
        /\ \/ work'[r].pc = "uploading" /\ work'[r].state = work[r].state
           \/ work'[r].pc = "report" /\ r \in unsaved'
    BY <1>1, <1>14, RunBecomes DEF UploadState
  <2> QED
    BY <1>5, <1>6, <1>9, <2>1 DEF Recorded, UpToDate
<1>15. CASE ExecutorDies(r)
  <2>1. made' \subseteq made \cup {r} /\ work'[r].pc = "dead"
    BY <1>1, <1>15, RunBecomes DEF ExecutorDies
  <2> QED
    BY <1>9, <2>1 DEF Recorded, UpToDate
<1>16. CASE JobComplete(r)
  <2>1. made' = made /\ unsaved' = unsaved /\ work[r].pc = "report"
        /\ work'[r].pc \in {"idle", "done"}
    BY <1>1, <1>16 DEF JobComplete, history
  <2> QED
    BY <1>9, <2>1 DEF Recorded, UpToDate
<1>17. CASE SettleLostWork(r)
  <2>1. made' = made /\ unsaved' = unsaved
        /\ (work'[r] = work[r] \/ work'[r].pc = "idle")
    BY <1>1, <1>17, RunBecomes DEF SettleLostWork
  <2> QED
    BY <1>5, <1>6, <1>9, <2>1 DEF Recorded, UpToDate
<1>18. CASE Cancel(r) \/ ReleaseStateLock(r)
  <2>1. UNCHANGED <<work, made, unsaved>>
    BY <1>18 DEF Cancel, ReleaseStateLock, runVars
  <2> QED
    BY <1>5, <1>6, <2>1 DEF Recorded, UpToDate
<1> QED
  BY <1>10, <1>11, <1>12, <1>13, <1>14, <1>15, <1>16, <1>17, <1>18 DEF RunStep

(* While it is calm no upload is refused: the state that a run uploads is   *)
(* the latest one's successor.                                             *)
LEMMA UploadFollows ==
    ASSUME VersionsInv, NoRollbacks, Uploads, Calm, Covered, PhaseHoldsLock,
           NEW q \in reqs, q.pc = "reserve", q.by \in Runs
    PROVE  /\ ~Storing
           /\ work[q.by].pc = "uploading"
           /\ q.state = [serial |-> Latest.serial + 1, has |-> Latest.has \cup {q.by}]
           /\ ~ \E s \in Serials : q.state.serial < s
<1>1. work[q.by].pc = "uploading" /\ q.state = work[q.by].state
  BY DEF Uploads
<1>2. ~Storing
  <2>1. SUFFICES ASSUME NEW p \in reqs, p.pc = "put" PROVE FALSE
    BY DEF Storing
  <2>2. p.by \in Runs /\ work[p.by].pc = "uploading"
    BY <2>1, WriterIsRun
  <2>3. p.by = q.by
    BY <1>1, <2>2, OnePhase DEF UnderWay, Working, VersionsInv
  <2> QED
    BY <2>1, <2>2, <2>3 DEF Uploads
<1>3. q.state = [serial |-> Latest.serial + 1, has |-> Latest.has \cup {q.by}]
  BY <1>1, <1>2 DEF Covered, UpToDate
<1>4. Latest.serial \in Nat
  BY StateTypes DEF VersionsInv, State
<1>5. ASSUME NEW row \in rows, row.version = LastVersion
      PROVE  row.serial = Latest.serial
  <2>1. ~ InFlight(row)
    BY <1>2 DEF InFlight, Storing, NoRollbacks, Calm
  <2>2. row.version \in DOMAIN objects /\ objects[row.version].serial = row.serial
    BY <2>1 DEF VersionsInv, NoDanglingVersion, ServedAsPushed
  <2> QED
    BY <1>5, <2>2 DEF Latest
<1>6. \A s \in Serials : s = Latest.serial
  BY <1>5 DEF Serials
<1>7. q.state.serial = Latest.serial + 1
  BY <1>3
<1> QED
  BY <1>1, <1>2, <1>3, <1>4, <1>6, <1>7

LEMMA CoveredByReservation ==
    ASSUME VersionsInv, NoRollbacks, Uploads, Calm, Covered, PhaseHoldsLock, Calm',
           NEW q \in reqs, ReserveVersion(q)
    PROVE  Covered'
<1>1. TypeOK /\ q.pc = "reserve" /\ UNCHANGED <<objects, made, unsaved>>
      /\ reserved \in Nat
  BY DEF VersionsInv, TypeOK, ReserveVersion, history
<1>2. CASE q.by \notin Runs
  <2>1. CASE \E s \in Serials : q.state.serial < s
    <3>1. Answer(q) /\ rows' = rows
      BY <2>1 DEF ReserveVersion
    <3>2. reqs' = reqs \ {q} /\ work' = work
      BY <1>1, <1>2, <3>1, AnswerTells
    <3>3. Recorded' = Recorded
      BY <1>1, <3>2 DEF Recorded
    <3> QED
      BY <1>1, <3>1, <3>2, <3>3, CoveredKept
  <2>2. CASE ~ \E s \in Serials : q.state.serial < s
    <3>1. PICK n : n = [id |-> reserved', version |-> LastVersion + 1,
                        serial |-> q.state.serial, by |-> q.by]
      OBVIOUS
    <3>2. n \in rows' /\ n.by = q.by
      BY <2>2, <3>1 DEF ReserveVersion
    <3> QED
      BY <1>2, <3>2 DEF Calm
  <2> QED
    BY <2>1, <2>2
<1>3. CASE q.by \in Runs
  <2>1. /\ ~Storing
        /\ work[q.by].pc = "uploading"
        /\ q.state = [serial |-> Latest.serial + 1, has |-> Latest.has \cup {q.by}]
        /\ ~ \E s \in Serials : q.state.serial < s
    BY <1>1, <1>3, UploadFollows
  <2>2. PICK n : n = [id |-> reserved', version |-> LastVersion + 1,
                      serial |-> q.state.serial, by |-> q.by]
    OBVIOUS
  <2>3. PICK a : a = [by |-> q.by, pc |-> "put", id |-> reserved',
                      version |-> LastVersion + 1, state |-> q.state]
    OBVIOUS
  <2>4. /\ rows' = rows \cup {n} /\ reqs' = (reqs \ {q}) \cup {a}
        /\ work' = work
    BY <2>1, <2>2, <2>3 DEF ReserveVersion
  <2>5. n.version = LastVersion + 1 /\ a.version = LastVersion + 1
        /\ a.pc = "put" /\ a.state = q.state
    BY <2>2, <2>3
  <2>6. LastVersion' = LastVersion + 1
    <3>1. LastVersion \in Nat /\ \A row \in rows : row.version <= LastVersion
      BY <1>1, LastIsGreatest
    <3>2. \A row \in rows : row.version \in Nat
      BY <1>1 DEF TypeOK, Row
    <3>3. \A row \in rows' : row.version <= n.version
      BY <2>4, <2>5, <3>1, <3>2
    <3>4. \A v \in {row.version : row \in rows'} :
            (\A row \in rows' : row.version <= v) => v = n.version
      BY <2>4, <2>5, <3>1, <3>2, <3>3
    <3>5. LastVersion' = CHOOSE v \in {row.version : row \in rows'} :
                           \A row \in rows' : row.version <= v
      BY <2>4 DEF LastVersion
    <3>6. n.version \in {row.version : row \in rows'}
      BY <2>4
    <3>7. LastVersion' = n.version
      BY <3>3, <3>4, <3>5, <3>6
    <3> QED
      BY <2>5, <3>7
  <2>7. Recorded' = Recorded
    BY <1>1, <2>4 DEF Recorded
  <2>8. Recorded \subseteq q.state.has
    BY <2>1 DEF Covered
  <2>9. Storing'
    BY <2>4, <2>5 DEF Storing
  <2>10. \A s \in Runs : work[s].pc # "engine"
    BY <1>1, <1>3, <2>1, OnePhase DEF UnderWay, Working
  <2>11. \A s \in Runs : UpToDate(s)'
    BY <2>4, <2>9, <2>10 DEF UpToDate
  <2>12. ASSUME NEW p \in reqs', p.pc = "put"
         PROVE  p.version = LastVersion' /\ Recorded' \subseteq p.state.has
    <3>1. p = a
      BY <2>1, <2>4, <2>12 DEF Storing
    <3> QED
      BY <2>5, <2>6, <2>7, <2>8, <3>1
  <2> QED
    BY <2>9, <2>11, <2>12 DEF Covered
<1> QED
  BY <1>2, <1>3

(* The version that a run stores is the latest, and records what engines    *)
(* changed before and the run's own change.                                *)
LEMMA CoveredByPut ==
    ASSUME VersionsInv, Uploads, Calm, Covered, PhaseHoldsLock,
           NEW q \in reqs, PutStateObject(q)
    PROVE  Covered'
<1>1. /\ TypeOK /\ q.pc = "put" /\ Answer(q) /\ rows' = rows /\ made' = made /\ unsaved' = unsaved
      /\ objects' = [v \in DOMAIN objects \cup {q.version} |->
                       IF v = q.version THEN q.state ELSE objects[v]]
      /\ made \subseteq Runs
  BY DEF VersionsInv, TypeOK, HistoryTypes, PutStateObject, StoredAt, history
<1>2. q.by \in Runs /\ work[q.by].pc = "uploading"
  BY <1>1, WriterIsRun
<1>3. /\ reqs' = reqs \ {q}
      /\ work'[q.by].pc = "report"
      /\ \A s \in Runs : s # q.by => work'[s] = work[s]
  BY <1>1, <1>2, AnswerTells
<1>4. q.version = LastVersion /\ Recorded \subseteq q.state.has
  BY <1>1 DEF Covered
<1>5. LastVersion' = LastVersion
  BY <1>1 DEF LastVersion
<1>6. Latest' = q.state
  BY <1>1, <1>4, <1>5 DEF Latest
<1>7. ~ Storing'
  <2>1. SUFFICES ASSUME NEW p \in reqs', p.pc = "put" PROVE FALSE
    BY DEF Storing
  <2>2. p \in reqs /\ p # q
    BY <1>3, <2>1
  <2>3. p.by \in Runs /\ work[p.by].pc = "uploading"
    BY <2>1, <2>2, WriterIsRun
  <2>4. p.by = q.by
    BY <1>1, <1>2, <2>3, OnePhase DEF UnderWay, Working
  <2> QED
    BY <1>2, <2>2, <2>4 DEF Uploads
<1>8. q.by \in q.state.has
  BY <1>1 DEF VersionsInv, PushersRecorded
<1>9. Recorded' \subseteq Recorded \cup {q.by}
  BY <1>1, <1>3 DEF Recorded
<1>10. Recorded' \subseteq Latest'.has
  BY <1>4, <1>6, <1>8, <1>9
<1>11. ASSUME NEW s \in Runs PROVE UpToDate(s)'
  <2>1. CASE s = q.by
    BY <1>3, <2>1 DEF UpToDate
  <2>2. CASE s # q.by
    <3>1. ~ Working(s)
      BY <1>1, <1>2, <2>2, OnePhase DEF UnderWay, Working
    <3> QED
      BY <1>3, <2>2, <3>1 DEF UpToDate, Working
  <2> QED
    BY <2>1, <2>2
<1> QED
  BY <1>7, <1>10, <1>11 DEF Covered, Storing

LEMMA CoverNext == VersionsInv /\ PhaseHoldsLock /\ CoverInv /\ [Next]_vars => CoverInv'
<1> SUFFICES ASSUME VersionsInv, PhaseHoldsLock, CoverInv, [Next]_vars
             PROVE  CoverInv'
  OBVIOUS
<1>1. TypeOK /\ NoRollbacks /\ MadeByApply /\ Uploads
  BY DEF VersionsInv, CoverInv
<1>2. NoRollbacks' /\ MadeByApply' /\ Uploads'
  BY <1>1, NoRollbacksNext, MadeByApplyNext, UploadsNext
<1>3. ASSUME Calm' PROVE Covered'
  <2>1. Calm /\ Covered
    BY <1>1, <1>3, CalmBefore DEF CoverInv
  <2>2. CASE UNCHANGED vars
    BY <2>1, <2>2, CoveredKept DEF vars, storeVars, runVars, Recorded
  <2>3. ASSUME NEW r \in Runs, RunStep(r) PROVE Covered'
    BY <1>1, <2>1, <2>3, CoveredByRuns
  <2>4. ASSUME NEW q \in reqs, HandlerStep(q) PROVE Covered'
    <3>1. CASE ReserveVersion(q)
      BY <1>1, <1>3, <2>1, <3>1, CoveredByReservation
    <3>2. CASE PutStateObject(q)
      BY <1>1, <2>1, <3>2, CoveredByPut
    <3>3. CASE PutFails(q)
      <4>1. failures = 0 /\ failures' = failures + 1 /\ failures' = 0
        BY <1>3, <2>1, <3>3 DEF PutFails, Calm
      <4> QED
        BY <4>1
    <3>4. CASE Rollback(q)
      BY <1>1, <2>1, <3>4 DEF Rollback, NoRollbacks, Calm
    <3>5. CASE ForceUnlockWrite(q)
      <4>1. UNCHANGED <<rows, objects, work, made, unsaved>> /\ reqs' = reqs \ {q}
            /\ q.pc = "unlock"
        BY <3>5 DEF ForceUnlockWrite, storeVars, runVars
      <4>2. Recorded' = Recorded
        BY <4>1 DEF Recorded
      <4> QED
        BY <2>1, <4>1, <4>2, CoveredKept
    <3> QED
      BY <2>4, <3>1, <3>2, <3>3, <3>4, <3>5 DEF HandlerStep
  <2> QED
    BY <2>1, <2>2, <2>3, <2>4, CoveredByUsers DEF Next
<1> QED
  BY <1>2, <1>3 DEF CoverInv

LEMMA CoverInit == Init => CoverInv
<1> SUFFICES ASSUME Init PROVE CoverInv
  OBVIOUS
<1>1. reqs = {} /\ made = {} /\ \A r \in Runs : work[r].pc = "idle"
  BY DEF Init
<1> QED
  BY <1>1 DEF CoverInv, NoRollbacks, MadeByApply, Uploads, Covered, Recorded,
     UpToDate, Storing

(* As long as no phase lost its lock, nobody pushed and every object was    *)
(* stored, the latest state records every resource that engines changed and *)
(* left a state for, for any number of runs, lost executors, cancellations, *)
(* settlements and late releases: a phase that keeps the state lock has it  *)
(* from before it reads the state until its upload was answered.            *)
THEOREM Versions_CoverResources == Spec => []StateCoversResources
<1>1. Init => PhaseHoldsLock /\ CoverInv
  BY LocksInit, CoverInit
<1>2. VersionsInv /\ PhaseHoldsLock /\ CoverInv /\ [Next]_vars
        => PhaseHoldsLock' /\ CoverInv'
  BY LocksNext, CoverNext DEF VersionsInv
<1>3. CoverInv => StateCoversResources
  <2> SUFFICES ASSUME CoverInv, Undisturbed
               PROVE  {r \in made \ unsaved : work[r].pc \in {"report", "done"}}
                         \subseteq Latest.has
    BY DEF StateCoversResources
  <2>1. Calm /\ ~Storing
    BY DEF Undisturbed, Calm, Storing
  <2> QED
    BY <2>1 DEF CoverInv, Covered, Recorded
<1> QED
  BY <1>1, <1>2, <1>3, Versions_Inv, PTL DEF Spec

=============================================================================
