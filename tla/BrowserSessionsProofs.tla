------------------------- MODULE BrowserSessionsProofs -------------------------
(***************************************************************************)
(* Proofs about BrowserSessions, for any sign-ins, any Zitadel sessions and *)
(* any limits that satisfy the module's assumption.                        *)
(***************************************************************************)
EXTENDS BrowserSessions, TLAPS

-----------------------------------------------------------------------------
(* What the safety properties rest on.                                     *)

(* A row names a Zitadel session that someone signed in through; it is not   *)
(* expired before its sign-in is answered; `dead' counts only for the dead. *)
SessionOK(s) ==
    /\ session[s].pc \in {"coded", "stored", "held"} =>
         session[s].sid \in Sids /\ zitadel[session[s].sid] # "unused"
    /\ Row(s) => zitadel[session[s].sid] # "open"
    /\ session[s].pc = "stored" => ~Expired(s)
    /\ session[s].pc = "ended" => session[s].sid = None
    /\ (Row(s) /\ ~Dead(session[s].sid)) => session[s].dead = 0

(* A handler is at a step of its operation, for a session whose sign-in was   *)
(* answered; what it ends for its limits is expired, or came back.          *)
TaskOK(w) ==
    /\ w.op # "revoke" =>
         /\ w.session \in Sessions
         /\ session[w.session].pc \in {"held", "ended"}
         /\ session[w.session].pc = "held" => session[w.session].sid = w.sid
    /\ w.op = "revoke" => w.pc \in {"zitadel", "rows"}
    /\ w.op \in {"check", "touch"} => w.pc \in {"claim", "read", "touch"}
    /\ w.pc \in {"claim", "read", "touch"} => w.op \in {"check", "touch"}
    /\ w.pc = "rows" => zitadel[w.sid] = "gone"
    /\ w.op = "supersede" /\ w.pc = "row" =>
         /\ w.keep \in Sessions
         /\ session[w.keep].pc \in {"stored", "ended"}
    /\ Expires(w) /\ session[w.session].pc = "held" =>
         Expired(w.session) \/ w.sid \in excused \/ Dead(w.sid)

Base ==
    /\ TypeOK
    /\ \A s \in Sessions : SessionOK(s)
    /\ \A w \in work : TaskOK(w)
    /\ \A w \in sweeping : TaskOK(w) /\ w.op = "sweep" /\ w.pc = "shared"
    /\ \A z \in logouts : zitadel[z] = "gone"

-----------------------------------------------------------------------------
(* What every step leaves of the tasks it does not take.                   *)

(* An answered sign-in stays one until its row is gone; an expired row comes  *)
(* back only with an excuse.                                               *)
RowsKept ==
    \A s \in Sessions :
      /\ session[s].pc \in {"held", "ended"} =>
           /\ session'[s].pc \in {"held", "ended"}
           /\ session'[s].pc = "held" =>
                /\ session[s].pc = "held" /\ session'[s].sid = session[s].sid
                /\ Expired(s) => \/ Expired(s)' \/ session[s].sid \in excused'
                                 \/ Dead(session[s].sid)'
      /\ session[s].pc = "stored" =>
           session'[s].pc \in {"stored", "ended"} \/ \A w \in work : w.keep # s

EndsAreFinal ==
    \A z \in Sids :
      /\ Dead(z) => Dead(z)'
      /\ zitadel[z] = "gone" => zitadel'[z] = "gone"
      /\ z \in excused => z \in excused' \/ Dead(z)'

LEMMA TaskKept ==
    ASSUME Base, RowsKept, EndsAreFinal, NEW w \in work \cup sweeping,
           w \in sweeping \/ w \in work
    PROVE  TaskOK(w)'
<1>1. TaskOK(w) /\ w \in Work /\ w.sid \in Sids
  BY DEF Base, TypeOK, Work
<1>2. w.op # "revoke" =>
         /\ w.session \in Sessions
         /\ session'[w.session].pc \in {"held", "ended"}
         /\ session'[w.session].pc = "held" =>
              /\ session[w.session].pc = "held"
              /\ session'[w.session].sid = w.sid
  BY <1>1 DEF TaskOK, RowsKept
<1>3. w.pc = "rows" => zitadel'[w.sid] = "gone"
  BY <1>1 DEF TaskOK, EndsAreFinal
<1>4. w.op = "supersede" /\ w.pc = "row" =>
         w.keep \in Sessions /\ session'[w.keep].pc \in {"stored", "ended"}
  <2> SUFFICES ASSUME w.op = "supersede", w.pc = "row"
               PROVE  w.keep \in Sessions /\ session'[w.keep].pc \in {"stored", "ended"}
    OBVIOUS
  <2>1. w \in work
    BY DEF Base
  <2>2. w.keep \in Sessions /\ session[w.keep].pc \in {"stored", "ended"}
    BY <1>1 DEF TaskOK
  <2>3. CASE session[w.keep].pc = "stored"
    BY <2>1, <2>2, <2>3 DEF RowsKept
  <2>4. CASE session[w.keep].pc = "ended"
    BY <2>2, <2>4 DEF RowsKept
  <2> QED BY <2>2, <2>3, <2>4
<1>5. Expires(w) /\ session'[w.session].pc = "held" =>
         Expired(w.session)' \/ w.sid \in excused' \/ Dead(w.sid)'
  <2> SUFFICES ASSUME Expires(w), session'[w.session].pc = "held"
               PROVE  Expired(w.session)' \/ w.sid \in excused' \/ Dead(w.sid)'
    OBVIOUS
  <2>1. w.op # "revoke" BY DEF Expires
  <2>2. w.session \in Sessions /\ session[w.session].pc = "held"
        /\ session[w.session].sid = w.sid
    BY <1>1, <1>2, <2>1 DEF TaskOK
  <2>3. Expired(w.session) \/ w.sid \in excused \/ Dead(w.sid)
    BY <1>1, <2>2 DEF TaskOK
  <2>4. CASE Expired(w.session)
    BY <2>2, <2>4 DEF RowsKept
  <2>5. CASE w.sid \in excused \/ Dead(w.sid)
    BY <1>1, <2>5 DEF EndsAreFinal
  <2> QED BY <2>3, <2>4, <2>5
<1> QED BY <1>1, <1>2, <1>3, <1>4, <1>5 DEF TaskOK, Expires

-----------------------------------------------------------------------------
(* Three kinds of step: the rows, Zitadel or neither change.               *)

LEMMA SameSessions ==
    ASSUME Base, UNCHANGED <<zitadel, session>>, excused \subseteq excused'
    PROVE  RowsKept /\ EndsAreFinal /\ \A s \in Sessions : SessionOK(s)'
<1>1. RowsKept
  <2> SUFFICES ASSUME NEW s \in Sessions
               PROVE  Expired(s) => Expired(s)'
    BY DEF RowsKept
  <2> QED BY DEF Expired
<1>2. EndsAreFinal
  BY DEF EndsAreFinal, Dead
<1>3. \A s \in Sessions : SessionOK(s)'
  BY DEF Base, SessionOK, Row, Expired, Dead
<1> QED BY <1>1, <1>2, <1>3

LEMMA RowsDeleted ==
    ASSUME Base, NEW S, session' = Without(S), UNCHANGED <<zitadel, excused>>
    PROVE  /\ session' \in [Sessions -> Session]
           /\ RowsKept /\ EndsAreFinal /\ \A s \in Sessions : SessionOK(s)'
<1>1. NoRow("ended") \in Session
  BY ConstantsAssumption DEF NoRow, Session
<1>2. \A s \in Sessions : \/ session'[s] = session[s]
                          \/ session'[s] = NoRow("ended")
  <2> TAKE s \in Sessions
  <2>1. session'[s] = IF s \in S /\ Row(s) THEN NoRow("ended") ELSE session[s]
    BY DEF Without
  <2> QED BY <2>1
<1>3. session' \in [Sessions -> Session]
  BY <1>1 DEF Without, Base, TypeOK
<1>4. NoRow("ended").pc = "ended" /\ NoRow("ended").sid = None
  BY DEF NoRow
<1>5. RowsKept
  <2> SUFFICES ASSUME NEW s \in Sessions
      PROVE /\ session[s].pc \in {"held", "ended"} =>
                 /\ session'[s].pc \in {"held", "ended"}
                 /\ session'[s].pc = "held" =>
                      /\ session[s].pc = "held" /\ session'[s].sid = session[s].sid
                      /\ Expired(s) => Expired(s)'
            /\ session[s].pc = "stored" => session'[s].pc \in {"stored", "ended"}
    BY DEF RowsKept
  <2>1. CASE session'[s] = session[s]
    BY <2>1 DEF Expired
  <2>2. CASE session'[s] = NoRow("ended")
    BY <2>2, <1>4
  <2> QED BY <1>2, <2>1, <2>2
<1>6. EndsAreFinal
  BY DEF EndsAreFinal, Dead
<1>7. ASSUME NEW s \in Sessions PROVE SessionOK(s)'
  <2>1. CASE session'[s] = session[s]
    BY <2>1 DEF Base, SessionOK, Row, Expired, Dead
  <2>2. CASE session'[s] = NoRow("ended")
    BY <2>2, <1>4 DEF SessionOK, Row
  <2> QED BY <1>2, <2>1, <2>2
<1> QED BY <1>3, <1>5, <1>6, <1>7

LEMMA ZitadelChanged ==
    ASSUME Base, UNCHANGED session, NEW z \in Sids, NEW end \in {"barred", "gone"},
           zitadel' = [zitadel EXCEPT ![z] = end], excused' = excused \ {z},
           end = "barred" => zitadel[z] # "gone"
    PROVE  /\ zitadel' \in [Sids -> ZitadelStates]
           /\ RowsKept /\ EndsAreFinal /\ \A s \in Sessions : SessionOK(s)'
<1>1. /\ zitadel' \in [Sids -> ZitadelStates]
      /\ zitadel'[z] = end /\ \A y \in Sids \ {z} : zitadel'[y] = zitadel[y]
  BY DEF Base, TypeOK, ZitadelStates
<1>2. RowsKept
  <2> SUFFICES ASSUME NEW s \in Sessions
               PROVE  Expired(s) => Expired(s)'
    BY DEF RowsKept
  <2> QED BY DEF Expired
<1>3. EndsAreFinal
  BY <1>1 DEF EndsAreFinal, Dead
<1>4. ASSUME NEW s \in Sessions PROVE SessionOK(s)'
  <2>1. SessionOK(s)
    BY DEF Base
  <2>2. CASE session[s].sid \in Sids
    BY <2>1, <2>2, <1>1 DEF SessionOK, Row, Expired, Dead
  <2>3. CASE session[s].sid \notin Sids
    BY <2>1, <2>3 DEF SessionOK, Row, Expired, Dead
  <2> QED BY <2>2, <2>3
<1> QED BY <1>1, <1>2, <1>3, <1>4

(* A step that keeps the rows keeps Base, if its new tasks are as they should. *)
LEMMA BaseFrom ==
    ASSUME Base, TypeOK', RowsKept, EndsAreFinal,
           \A s \in Sessions : SessionOK(s)',
           \A w \in work' : w \in work \/ w \in sweeping \/ TaskOK(w)',
           \A w \in sweeping' : \/ w \in sweeping
                                \/ TaskOK(w)' /\ w.op = "sweep" /\ w.pc = "shared",
           \A z \in logouts' : z \in logouts \/ zitadel'[z] = "gone"
    PROVE  Base'
<1>1. \A w \in work' : TaskOK(w)'
  BY TaskKept
<1>2. \A w \in sweeping' : TaskOK(w)' /\ w.op = "sweep" /\ w.pc = "shared"
  <2> TAKE w \in sweeping'
  <2>1. CASE w \in sweeping
    BY <2>1, TaskKept DEF Base
  <2>2. CASE w \notin sweeping
    BY <2>2
  <2> QED BY <2>1, <2>2
<1>3. \A z \in logouts' : zitadel'[z] = "gone"
  <2> TAKE z \in logouts'
  <2>1. z \in Sids BY DEF TypeOK
  <2> QED BY <2>1 DEF Base, EndsAreFinal
<1> QED BY <1>1, <1>2, <1>3 DEF Base

-----------------------------------------------------------------------------
(* Time and signing in.                                                    *)

LEMMA InitBase == Init => Base
<1> SUFFICES ASSUME Init PROVE Base
  OBVIOUS
<1>1. NoRow("none") \in Session /\ NoRow("none").pc = "none"
  BY ConstantsAssumption DEF NoRow, Session
<1>2. TypeOK
  BY <1>1 DEF Init, TypeOK, ZitadelStates
<1>3. \A s \in Sessions : session[s].pc = "none"
  BY <1>1 DEF Init
<1>4. \A s \in Sessions : SessionOK(s)
  BY <1>3 DEF SessionOK, Row
<1> QED BY <1>2, <1>4 DEF Base, Init

LEMMA TickBase == ASSUME Base, Tick PROVE Base'
<1> DEFINE next(s) == [session[s] EXCEPT !.idle = Less(@), !.absolute = Less(@),
                         !.check = Less(@),
                         !.dead = IF session[s].pc = "held" /\ Dead(session[s].sid)
                                     /\ @ < Liveness THEN @ + 1 ELSE @]
<1>1. /\ session' = [s \in Sessions |-> next(s)]
      /\ UNCHANGED <<zitadel, work, sweeping, logouts, excused, rare>>
      /\ \A s \in Sessions : session[s].pc # "stored"
  BY DEF Tick
<1>2. ASSUME NEW s \in Sessions
      PROVE  /\ next(s) \in Session /\ next(s).pc = session[s].pc
             /\ next(s).sid = session[s].sid
             /\ session[s].idle = 0 => next(s).idle = 0
             /\ session[s].absolute = 0 => next(s).absolute = 0
             /\ ~Dead(session[s].sid) => next(s).dead = session[s].dead
  <2>1. session[s] \in Session
    BY DEF Base, TypeOK
  <2>2. Less(session[s].idle) \in 0..Idle /\ Less(session[s].absolute) \in 0..Absolute
        /\ Less(session[s].check) \in 0..Liveness
    BY <2>1, ConstantsAssumption DEF Less, Session
  <2>3. (IF session[s].pc = "held" /\ Dead(session[s].sid) /\ session[s].dead < Liveness
           THEN session[s].dead + 1 ELSE session[s].dead) \in Nat
    BY <2>1 DEF Session
  <2> QED BY <2>1, <2>2, <2>3 DEF Session, Less
<1> HIDE DEF next
<1>3. session' \in [Sessions -> Session] /\ \A s \in Sessions : session'[s] = next(s)
  BY <1>1, <1>2
<1>4. TypeOK'
  BY <1>1, <1>3 DEF Base, TypeOK
<1>5. \A s \in Sessions : Expired(s) => Expired(s)'
  BY <1>2, <1>3 DEF Expired
<1>6. RowsKept
  BY <1>1, <1>2, <1>3, <1>5 DEF RowsKept
<1>7. EndsAreFinal
  BY <1>1 DEF EndsAreFinal, Dead
<1>8. ASSUME NEW s \in Sessions PROVE SessionOK(s)'
  <2>1. SessionOK(s) /\ session'[s].pc = session[s].pc /\ session'[s].sid = session[s].sid
        /\ session[s].pc # "stored"
    BY <1>1, <1>2, <1>3 DEF Base
  <2>2. ~Dead(session[s].sid) => session'[s].dead = session[s].dead
    BY <1>2, <1>3
  <2> QED BY <1>1, <2>1, <2>2 DEF SessionOK, Row, Dead
<1> QED BY <1>1, <1>4, <1>6, <1>7, <1>8, BaseFrom

(* A step of a sign-in that is not answered yet.                           *)
LEMMA SignInStep ==
    ASSUME Base, NEW s \in Sessions, session[s].pc \notin {"held", "ended"},
           NEW row \in Session, session' = [session EXCEPT ![s] = row],
           row.pc # "ended" \/ row.sid = None,
           session[s].pc = "stored" => row.pc = "stored" \/ \A w \in work : w.keep # s,
           EndsAreFinal, SessionOK(s)',
           \A z \in Sids : zitadel'[z] # zitadel[z] =>
             zitadel[z] \in {"unused", "open"} /\ zitadel'[z] \in {"open", "named"}
    PROVE  /\ session' \in [Sessions -> Session]
           /\ RowsKept /\ \A t \in Sessions : SessionOK(t)'
<1>1. /\ session' \in [Sessions -> Session]
      /\ session'[s] = row /\ \A t \in Sessions \ {s} : session'[t] = session[t]
  BY DEF Base, TypeOK
<1>2. RowsKept
  <2> SUFFICES ASSUME NEW t \in Sessions
      PROVE /\ session[t].pc \in {"held", "ended"} =>
                 /\ session'[t].pc \in {"held", "ended"}
                 /\ session'[t].pc = "held" =>
                      /\ session[t].pc = "held" /\ session'[t].sid = session[t].sid
                      /\ Expired(t) => Expired(t)'
            /\ session[t].pc = "stored" =>
                 session'[t].pc \in {"stored", "ended"} \/ \A w \in work : w.keep # t
    BY DEF RowsKept
  <2>1. CASE t = s
    BY <1>1, <2>1
  <2>2. CASE t # s
    BY <1>1, <2>2 DEF Expired
  <2> QED BY <2>1, <2>2
<1>3. ASSUME NEW t \in Sessions \ {s} PROVE SessionOK(t)'
  <2>1. SessionOK(t) /\ session'[t] = session[t]
    BY <1>1 DEF Base
  <2>2. ASSUME session[t].pc \in {"coded", "stored", "held"}
        PROVE  /\ session[t].sid \in Sids /\ zitadel'[session[t].sid] # "unused"
               /\ Row(t) => zitadel'[session[t].sid] = zitadel[session[t].sid]
    BY <2>1, <2>2 DEF SessionOK, Row
  <2> QED BY <2>1, <2>2 DEF SessionOK, Row, Expired, Dead
<1> QED BY <1>1, <1>2, <1>3
LEMMA AuthorizeBase == ASSUME Base, NEW s \in Sessions, Authorize(s) PROVE Base'
<1>1. /\ session[s].pc = "none" /\ session' = [session EXCEPT ![s] = NoRow("begun")]
      /\ UNCHANGED <<zitadel, work, sweeping, logouts, excused, rare>>
  BY DEF Authorize
<1>2. NoRow("begun") \in Session /\ NoRow("begun").pc = "begun"
  BY ConstantsAssumption DEF NoRow, Session
<1>3. session'[s] = NoRow("begun")
  BY <1>1 DEF Base, TypeOK
<1>4. EndsAreFinal
  BY <1>1 DEF EndsAreFinal, Dead
<1>5. SessionOK(s)'
  BY <1>2, <1>3 DEF SessionOK, Row
<1>6. session' \in [Sessions -> Session] /\ RowsKept /\ \A t \in Sessions : SessionOK(t)'
  BY <1>1, <1>2, <1>4, <1>5, SignInStep
<1>7. TypeOK'
  BY <1>1, <1>6 DEF Base, TypeOK
<1> QED BY <1>1, <1>4, <1>6, <1>7, BaseFrom

LEMMA FinalizeBase ==
    ASSUME Base, NEW s \in Sessions, NEW z \in Sids, Finalize(s, z) PROVE Base'
<1> DEFINE row == [session[s] EXCEPT !.pc = "coded", !.sid = z]
<1>1. /\ session[s].pc = "begun" /\ zitadel[z] \in {"unused", "open", "named"}
      /\ zitadel' = [zitadel EXCEPT ![z] = IF @ = "unused" THEN "open" ELSE @]
      /\ session' = [session EXCEPT ![s] = row]
      /\ UNCHANGED <<work, sweeping, logouts, excused, rare>>
  BY DEF Finalize
<1>2. row \in Session /\ row.pc = "coded" /\ row.sid = z
  <2>1. session[s] \in Session
    BY DEF Base, TypeOK
  <2> QED BY <2>1 DEF Session
<1> HIDE DEF row
<1>3. /\ zitadel' \in [Sids -> ZitadelStates]
      /\ zitadel'[z] = (IF zitadel[z] = "unused" THEN "open" ELSE zitadel[z])
      /\ \A y \in Sids \ {z} : zitadel'[y] = zitadel[y]
  BY <1>1 DEF Base, TypeOK, ZitadelStates
<1>4. /\ EndsAreFinal
      /\ \A y \in Sids : zitadel'[y] # zitadel[y] =>
           zitadel[y] \in {"unused", "open"} /\ zitadel'[y] \in {"open", "named"}
  BY <1>1, <1>3 DEF EndsAreFinal, Dead
<1>5. session'[s] = row
  BY <1>1 DEF Base, TypeOK
<1>6. SessionOK(s)'
  BY <1>1, <1>2, <1>3, <1>5 DEF SessionOK, Row
<1>7. session' \in [Sessions -> Session] /\ RowsKept /\ \A t \in Sessions : SessionOK(t)'
  BY <1>1, <1>2, <1>4, <1>6, SignInStep
<1>8. TypeOK'
  BY <1>1, <1>3, <1>7 DEF Base, TypeOK
<1> QED BY <1>1, <1>4, <1>7, <1>8, BaseFrom

LEMMA RefuseBase == ASSUME Base, NEW s \in Sessions, Refuse(s) PROVE Base'
<1>1. /\ session[s].pc \in {"begun", "coded"}
      /\ session' = [session EXCEPT ![s] = NoRow("ended")]
      /\ UNCHANGED <<zitadel, work, sweeping, logouts, excused, rare>>
  BY DEF Refuse
<1>2. NoRow("ended") \in Session /\ NoRow("ended").pc = "ended" /\ NoRow("ended").sid = None
  BY ConstantsAssumption DEF NoRow, Session
<1>3. session'[s] = NoRow("ended")
  BY <1>1 DEF Base, TypeOK
<1>4. EndsAreFinal
  BY <1>1 DEF EndsAreFinal, Dead
<1>5. SessionOK(s)'
  BY <1>2, <1>3 DEF SessionOK, Row
<1>6. session' \in [Sessions -> Session] /\ RowsKept /\ \A t \in Sessions : SessionOK(t)'
  BY <1>1, <1>2, <1>4, <1>5, SignInStep
<1>7. TypeOK'
  BY <1>1, <1>6 DEF Base, TypeOK
<1> QED BY <1>1, <1>4, <1>6, <1>7, BaseFrom

LEMMA StoreBase == ASSUME Base, NEW s \in Sessions, Store(s) PROVE Base'
<1> DEFINE row == [pc |-> "stored", sid |-> session[s].sid, idle |-> Idle,
                   absolute |-> Absolute, check |-> Liveness, dead |-> 0]
           z   == session[s].sid
<1>1. /\ session[s].pc = "coded"
      /\ session' = [session EXCEPT ![s] = row]
      /\ zitadel' = [zitadel EXCEPT ![z] = IF @ = "open" THEN "named" ELSE @]
      /\ UNCHANGED <<sweeping, logouts, excused, rare>>
  BY DEF Store
<1>2. \/ UNCHANGED work
      \/ \E previous \in Sessions : /\ session[previous].pc = "held"
                                    /\ work' = work \cup {Superseding(s, previous)}
  BY DEF Store
<1>3. z \in Sids /\ zitadel[z] # "unused"
  BY <1>1 DEF Base, SessionOK
<1>4. /\ row \in Session /\ row.pc = "stored" /\ row.sid = z /\ row.dead = 0
      /\ row.idle # 0 /\ row.absolute # 0
  BY <1>3, ConstantsAssumption DEF Session
<1> HIDE DEF row
<1>5. /\ zitadel' \in [Sids -> ZitadelStates]
      /\ zitadel'[z] = (IF zitadel[z] = "open" THEN "named" ELSE zitadel[z])
      /\ \A y \in Sids \ {z} : zitadel'[y] = zitadel[y]
  BY <1>1, <1>3 DEF Base, TypeOK, ZitadelStates
<1>6. /\ EndsAreFinal
      /\ \A y \in Sids : zitadel'[y] # zitadel[y] =>
           zitadel[y] \in {"unused", "open"} /\ zitadel'[y] \in {"open", "named"}
  BY <1>1, <1>3, <1>5 DEF EndsAreFinal, Dead
<1>7. session'[s] = row
  BY <1>1 DEF Base, TypeOK
<1>8. SessionOK(s)'
  BY <1>3, <1>4, <1>5, <1>7 DEF SessionOK, Row, Expired
<1>9. session' \in [Sessions -> Session] /\ RowsKept /\ \A t \in Sessions : SessionOK(t)'
  BY <1>1, <1>4, <1>6, <1>8, SignInStep
<1>10. \A w \in work' : w \in work \/ (w \in Work /\ TaskOK(w)')
  <2>1. CASE UNCHANGED work
    BY <2>1
  <2>2. ASSUME NEW p \in Sessions, session[p].pc = "held",
               NEW w, w = Superseding(s, p)
        PROVE  w \in Work /\ TaskOK(w)'
    <3>1. session'[p] = session[p] /\ session[p].sid \in Sids
      BY <1>1, <2>2 DEF Base, TypeOK, SessionOK
    <3>2. session'[s].pc = "stored"
      BY <1>4, <1>7
    <3>3. /\ w.op = "supersede" /\ w.pc = "row" /\ w.session = p
          /\ w.sid = session[p].sid /\ w.keep = s
      BY <2>2 DEF Superseding
    <3>4. w \in Work
      BY <2>2, <3>1 DEF Superseding, Work
    <3>5. TaskOK(w)'
      BY <2>2, <3>1, <3>2, <3>3 DEF TaskOK, Expires
    <3> QED BY <3>4, <3>5
  <2> QED BY <1>2, <2>1, <2>2
<1>11. TypeOK'
  BY <1>1, <1>5, <1>9, <1>10 DEF Base, TypeOK
<1> QED BY <1>1, <1>6, <1>9, <1>10, <1>11, BaseFrom

LEMMA AnswerBase == ASSUME Base, NEW s \in Sessions, Answer(s) PROVE Base'
<1> DEFINE row == [session[s] EXCEPT !.pc = "held"]
<1>1. /\ session[s].pc = "stored" /\ \A w \in work : w.keep # s
      /\ session' = [session EXCEPT ![s] = row]
      /\ UNCHANGED <<zitadel, work, sweeping, logouts, excused, rare>>
  BY DEF Answer
<1>2. /\ row \in Session /\ row.pc = "held" /\ row.sid = session[s].sid
      /\ row.dead = session[s].dead
  BY DEF Base, TypeOK, Session
<1> HIDE DEF row
<1>3. session'[s] = row
  BY <1>1 DEF Base, TypeOK
<1>4. EndsAreFinal
  BY <1>1 DEF EndsAreFinal, Dead
<1>5. SessionOK(s)'
  BY <1>1, <1>2, <1>3 DEF Base, SessionOK, Row, Dead
<1>6. session' \in [Sessions -> Session] /\ RowsKept /\ \A t \in Sessions : SessionOK(t)'
  BY <1>1, <1>2, <1>4, <1>5, SignInStep
<1>7. TypeOK'
  BY <1>1, <1>6 DEF Base, TypeOK
<1> QED BY <1>1, <1>4, <1>6, <1>7, BaseFrom

-----------------------------------------------------------------------------
(* Tasks: new ones, and those that go on to another step.                  *)

LEMMA TaskNew ==
    ASSUME Base, UNCHANGED <<zitadel, session>>, excused \subseteq excused',
           NEW s \in Sessions, session[s].pc = "held",
           NEW op \in {"expire", "sweep", "signout", "check", "touch"},
           NEW pc \in {"row", "shared", "claim", "touch"},
           op \in {"check", "touch"} <=> pc \in {"claim", "touch"},
           op \in {"expire", "sweep"} => Expired(s),
           NEW w, w = Task(op, pc, s)
    PROVE  w \in Work /\ w.op = op /\ w.pc = pc /\ TaskOK(w)'
<1>1. /\ w.op = op /\ w.pc = pc /\ w.session = s /\ w.sid = session[s].sid
      /\ w.keep = None
  BY DEF Task
<1>2. session[s].sid \in Sids
  BY DEF Base, SessionOK
<1>3. w \in Work
  BY <1>2 DEF Task, Work
<1>4. Expired(s) => Expired(s)'
  BY DEF Expired
<1>5. TaskOK(w)'
  BY <1>1, <1>2, <1>4 DEF TaskOK, Expires
<1> QED BY <1>1, <1>3, <1>5

LEMMA TaskMoved ==
    ASSUME Base, RowsKept, EndsAreFinal, NEW w \in work,
           NEW pc \in {"row", "rows", "shared", "zitadel", "claim", "read", "touch"},
           w.op = "revoke" => pc = "rows",
           w.op \in {"check", "touch"} <=> pc \in {"claim", "read", "touch"},
           pc = "row" => w.op # "supersede",
           pc = "rows" => zitadel'[w.sid] = "gone",
           NEW v, v = [w EXCEPT !.pc = pc]
    PROVE  /\ v \in Work /\ v.pc = pc /\ v.op = w.op /\ v.session = w.session
           /\ v.sid = w.sid /\ v.keep = w.keep /\ TaskOK(v)'
<1>1. w \in Work /\ TaskOK(w)'
  BY TaskKept DEF Base, TypeOK
<1>2. /\ v \in Work /\ v.pc = pc /\ v.op = w.op /\ v.session = w.session
      /\ v.sid = w.sid /\ v.keep = w.keep
  BY <1>1 DEF Work
<1>3. TaskOK(v)'
  BY <1>1, <1>2 DEF TaskOK, Expires
<1> QED BY <1>2, <1>3

LEMMA RequestBase == ASSUME Base, NEW s \in Sessions, Request(s) PROVE Base'
<1>1. session[s].pc = "held" /\ UNCHANGED <<zitadel, session, sweeping, logouts, excused, rare>>
  BY DEF Request
<1>2. RowsKept /\ EndsAreFinal /\ \A t \in Sessions : SessionOK(t)'
  BY <1>1, SameSessions
<1>3. \A w \in work' : \/ w \in work
                       \/ Expired(s) /\ w = Task("expire", "shared", s)
                       \/ w = Task("check", "claim", s)
                       \/ w = Task("touch", "touch", s)
  BY DEF Request
<1>4. ASSUME NEW w \in work', w \notin work PROVE w \in Work /\ TaskOK(w)'
  <2>1. CASE Expired(s) /\ w = Task("expire", "shared", s)
    BY <1>1, <2>1, TaskNew
  <2>2. CASE w = Task("check", "claim", s)
    BY <1>1, <2>2, TaskNew
  <2>3. CASE w = Task("touch", "touch", s)
    BY <1>1, <2>3, TaskNew
  <2> QED BY <1>3, <1>4, <2>1, <2>2, <2>3
<1>5. TypeOK'
  BY <1>1, <1>4 DEF Base, TypeOK
<1> QED BY <1>1, <1>2, <1>4, <1>5, BaseFrom

LEMMA SignOutBase == ASSUME Base, NEW s \in Sessions, SignOut(s) PROVE Base'
<1>1. /\ session[s].pc = "held" /\ work' = work \cup {Task("signout", "row", s)}
      /\ UNCHANGED <<zitadel, session, sweeping, logouts, excused, rare>>
  BY DEF SignOut
<1>2. RowsKept /\ EndsAreFinal /\ \A t \in Sessions : SessionOK(t)'
  BY <1>1, SameSessions
<1>3. ASSUME NEW w \in work', w \notin work PROVE w \in Work /\ TaskOK(w)'
  <2>1. w = Task("signout", "row", s)
    BY <1>1, <1>3
  <2> QED BY <1>1, <2>1, TaskNew
<1>4. TypeOK'
  BY <1>1, <1>3 DEF Base, TypeOK
<1> QED BY <1>1, <1>2, <1>3, <1>4, BaseFrom

LEMMA RevokeBase == ASSUME Base, NEW z \in Sids, Revoke(z) PROVE Base'
<1>1. /\ work' = work \cup {[op |-> "revoke", pc |-> "zitadel", session |-> None,
                             sid |-> z, keep |-> None]}
      /\ UNCHANGED <<zitadel, session, sweeping, logouts, excused, rare>>
  BY DEF Revoke
<1>2. RowsKept /\ EndsAreFinal /\ \A t \in Sessions : SessionOK(t)'
  BY <1>1, SameSessions
<1>3. ASSUME NEW w \in work', w \notin work PROVE w \in Work /\ TaskOK(w)'
  <2>1. w = [op |-> "revoke", pc |-> "zitadel", session |-> None, sid |-> z, keep |-> None]
    BY <1>1, <1>3
  <2>2. w \in Work /\ w.op = "revoke" /\ w.pc = "zitadel"
    BY <2>1 DEF Work
  <2> QED BY <2>2 DEF TaskOK, Expires
<1>4. TypeOK'
  BY <1>1, <1>3 DEF Base, TypeOK
<1> QED BY <1>1, <1>2, <1>3, <1>4, BaseFrom

LEMMA SweepListBase == ASSUME Base, SweepList PROVE Base'
<1>1. /\ sweeping' = {Task("sweep", "shared", s) : s \in {x \in Sessions : Row(x) /\ Expired(x)}}
      /\ UNCHANGED <<zitadel, session, work, logouts, excused, rare>>
  BY DEF SweepList
<1>2. RowsKept /\ EndsAreFinal /\ \A t \in Sessions : SessionOK(t)'
  BY <1>1, SameSessions
<1>3. ASSUME NEW w \in sweeping'
      PROVE  w \in Work /\ w.op = "sweep" /\ w.pc = "shared" /\ TaskOK(w)'
  <2>1. PICK s \in Sessions : Row(s) /\ Expired(s) /\ w = Task("sweep", "shared", s)
    BY <1>1, <1>3
  <2>2. session[s].pc = "held"
    BY <2>1 DEF Row, Base, SessionOK
  <2> QED BY <1>1, <2>1, <2>2, TaskNew
<1>4. TypeOK'
  BY <1>1, <1>3 DEF Base, TypeOK
<1> QED BY <1>1, <1>2, <1>3, <1>4, BaseFrom

LEMMA SweepNextBase == ASSUME Base, NEW w \in sweeping, SweepNext(w) PROVE Base'
<1>1. /\ sweeping' = sweeping \ {w} /\ work' = work \cup {w}
      /\ UNCHANGED <<zitadel, session, logouts, excused, rare>>
  BY DEF SweepNext
<1>2. RowsKept /\ EndsAreFinal /\ \A t \in Sessions : SessionOK(t)'
  BY <1>1, SameSessions
<1>3. TypeOK'
  BY <1>1 DEF Base, TypeOK
<1> QED BY <1>1, <1>2, <1>3, BaseFrom

-----------------------------------------------------------------------------
(* The steps of the handlers.                                              *)

LEMMA WorkWithin ==
    ASSUME Base, NEW w \in work, NEW pc, work' \subseteq Goes(w, pc)
    PROVE  \A v \in work' : v \in work \/ v = [w EXCEPT !.pc = pc]
  BY DEF Goes, Done

LEMMA DeleteRowBase == ASSUME Base, NEW w \in work, DeleteRow(w) PROVE Base'
<1>1. /\ w.pc = "row" /\ session' = Without({w.session})
      /\ UNCHANGED <<zitadel, sweeping, logouts, excused, rare>>
  BY DEF DeleteRow
<1>2. /\ session' \in [Sessions -> Session]
      /\ RowsKept /\ EndsAreFinal /\ \A s \in Sessions : SessionOK(s)'
  BY <1>1, RowsDeleted
<1>3. TaskOK(w) /\ w \in Work
  BY DEF Base, TypeOK
<1>4. \/ work' = Done(w)
      \/ w.op = "signout" /\ work' = Goes(w, "zitadel")
      \/ w.op = "supersede" /\ work' = Goes(w, "shared")
  <2>1. w.op \in {"expire", "sweep", "supersede", "signout"}
    BY <1>1, <1>3 DEF TaskOK, Work
  <2>2. CASE Expires(w)
    BY <2>2 DEF DeleteRow
  <2>3. CASE w.op = "signout"
    BY <2>3 DEF DeleteRow, Expires
  <2>4. CASE w.op = "supersede"
    BY <2>4 DEF DeleteRow, Expires
  <2> QED BY <2>1, <2>2, <2>3, <2>4 DEF Expires
<1>5. ASSUME NEW v \in work', v \notin work PROVE v \in Work /\ TaskOK(v)'
  <2>1. CASE work' = Done(w)
    BY <1>5, <2>1 DEF Done
  <2>2. CASE w.op = "signout" /\ work' = Goes(w, "zitadel")
    <3>1. v = [w EXCEPT !.pc = "zitadel"]
      BY <1>5, <2>2 DEF Goes, Done
    <3> QED BY <1>2, <2>2, <3>1, TaskMoved
  <2>3. CASE w.op = "supersede" /\ work' = Goes(w, "shared")
    <3>1. v = [w EXCEPT !.pc = "shared"]
      BY <1>5, <2>3 DEF Goes, Done
    <3> QED BY <1>2, <2>3, <3>1, TaskMoved
  <2> QED BY <1>4, <2>1, <2>2, <2>3
<1>6. TypeOK'
  BY <1>1, <1>2, <1>5 DEF Base, TypeOK
<1> QED BY <1>1, <1>2, <1>5, <1>6, BaseFrom

LEMMA CheckSharedBase == ASSUME Base, NEW w \in work, CheckShared(w) PROVE Base'
<1>1. w.pc = "shared" /\ UNCHANGED <<zitadel, session, sweeping, logouts, excused, rare>>
  BY DEF CheckShared
<1>2. RowsKept /\ EndsAreFinal /\ \A s \in Sessions : SessionOK(s)'
  BY <1>1, SameSessions
<1>3. TaskOK(w) /\ w \in Work /\ w.op \in {"expire", "sweep", "supersede", "signout"}
  BY <1>1 DEF Base, TypeOK, TaskOK, Work
<1>4. \/ work' = Goes(w, "zitadel")
      \/ Expires(w) /\ work' = Goes(w, "row")
      \/ work' = Done(w)
  BY DEF CheckShared
<1>5. ASSUME NEW v \in work', v \notin work PROVE v \in Work /\ TaskOK(v)'
  <2>1. CASE work' = Goes(w, "zitadel")
    <3>1. v = [w EXCEPT !.pc = "zitadel"]
      BY <1>5, <2>1 DEF Goes, Done
    <3> QED BY <1>2, <1>3, <3>1, TaskMoved
  <2>2. CASE Expires(w) /\ work' = Goes(w, "row")
    <3>1. v = [w EXCEPT !.pc = "row"]
      BY <1>5, <2>2 DEF Goes, Done
    <3> QED BY <1>2, <1>3, <2>2, <3>1, TaskMoved DEF Expires
  <2>3. CASE work' = Done(w)
    BY <1>5, <2>3 DEF Done
  <2> QED BY <1>4, <2>1, <2>2, <2>3
<1>6. TypeOK'
  BY <1>1, <1>5 DEF Base, TypeOK
<1> QED BY <1>1, <1>2, <1>5, <1>6, BaseFrom

LEMMA EndZitadelBase == ASSUME Base, NEW w \in work, EndZitadel(w) PROVE Base'
<1>1. /\ w.pc = "zitadel"
      /\ zitadel' = [zitadel EXCEPT ![w.sid] = "gone"]
      /\ excused' = excused \ {w.sid}
      /\ logouts' \subseteq logouts \cup {w.sid}
      /\ UNCHANGED <<session, sweeping, rare>>
  BY DEF EndZitadel
<1>2. TaskOK(w) /\ w \in Work /\ w.sid \in Sids
      /\ w.op \in {"expire", "sweep", "supersede", "signout", "revoke"}
  BY <1>1 DEF Base, TypeOK, TaskOK, Work
<1>3. /\ zitadel' \in [Sids -> ZitadelStates]
      /\ RowsKept /\ EndsAreFinal /\ \A s \in Sessions : SessionOK(s)'
  BY <1>1, <1>2, ZitadelChanged
<1>4. zitadel'[w.sid] = "gone"
  BY <1>1, <1>2 DEF Base, TypeOK
<1>5. \/ Expires(w) /\ work' = Goes(w, "row")
      \/ w.op = "revoke" /\ work' = Goes(w, "rows")
      \/ work' = Done(w)
  BY DEF EndZitadel
<1>6. ASSUME NEW v \in work', v \notin work PROVE v \in Work /\ TaskOK(v)'
  <2>1. CASE Expires(w) /\ work' = Goes(w, "row")
    <3>1. v = [w EXCEPT !.pc = "row"]
      BY <1>6, <2>1 DEF Goes, Done
    <3> QED BY <1>2, <1>3, <2>1, <3>1, TaskMoved DEF Expires
  <2>2. CASE w.op = "revoke" /\ work' = Goes(w, "rows")
    <3>1. v = [w EXCEPT !.pc = "rows"]
      BY <1>6, <2>2 DEF Goes, Done
    <3> QED BY <1>3, <1>4, <2>2, <3>1, TaskMoved
  <2>3. CASE work' = Done(w)
    BY <1>6, <2>3 DEF Done
  <2> QED BY <1>5, <2>1, <2>2, <2>3
<1>7. TypeOK'
  BY <1>1, <1>2, <1>3, <1>6 DEF Base, TypeOK
<1> QED BY <1>1, <1>3, <1>4, <1>6, <1>7, BaseFrom

LEMMA DeleteRowsBase == ASSUME Base, NEW w \in work, DeleteRows(w) PROVE Base'
<1>1. /\ session' = Without(Named(w.sid)) /\ work' = work \ {w}
      /\ UNCHANGED <<zitadel, sweeping, logouts, excused, rare>>
  BY DEF DeleteRows, Done
<1>2. /\ session' \in [Sessions -> Session]
      /\ RowsKept /\ EndsAreFinal /\ \A s \in Sessions : SessionOK(s)'
  BY <1>1, RowsDeleted
<1>3. TypeOK'
  BY <1>1, <1>2 DEF Base, TypeOK
<1> QED BY <1>1, <1>2, <1>3, BaseFrom

LEMMA RecordChanged ==
    ASSUME Base, UNCHANGED zitadel, excused \subseteq excused',
           session' \in [Sessions -> Session],
           \A s \in Sessions :
             /\ session'[s].pc = session[s].pc /\ session'[s].sid = session[s].sid
             /\ session'[s].dead \in {session[s].dead, 0}
             /\ Expired(s)' => Expired(s)
             /\ Expired(s) => \/ Expired(s)' \/ session[s].sid \in excused'
                              \/ Dead(session[s].sid)'
    PROVE  RowsKept /\ EndsAreFinal /\ \A s \in Sessions : SessionOK(s)'
<1>1. RowsKept
  BY DEF RowsKept
<1>2. EndsAreFinal
  BY DEF EndsAreFinal, Dead
<1>3. \A s \in Sessions : SessionOK(s)'
  BY DEF Base, SessionOK, Row, Dead
<1> QED BY <1>1, <1>2, <1>3

LEMMA CheckSet ==
    ASSUME Base, UNCHANGED <<zitadel, excused>>, NEW x \in Sessions,
           NEW n \in 0..Liveness, session' = [session EXCEPT ![x].check = n]
    PROVE  /\ session' \in [Sessions -> Session]
           /\ \A s \in Sessions : session'[s] = [session[s] EXCEPT
                                    !.check = IF s = x THEN n ELSE session[s].check]
           /\ RowsKept /\ EndsAreFinal /\ \A s \in Sessions : SessionOK(s)'
<1> DEFINE row(s) == [session[s] EXCEPT !.check = IF s = x THEN n ELSE session[s].check]
<1>1. \A s \in Sessions : session'[s] = row(s)
  <2> TAKE s \in Sessions
  <2>1. session[s] \in Session
    BY DEF Base, TypeOK
  <2>2. CASE s = x
    BY <2>2 DEF Base, TypeOK
  <2>3. CASE s # x
    <3>1. session'[s] = session[s]
      BY <2>3 DEF Base, TypeOK
    <3>2. row(s) = session[s]
      BY <2>1, <2>3 DEF Session
    <3> QED BY <3>1, <3>2
  <2> QED BY <2>2, <2>3
<1>2. ASSUME NEW s \in Sessions
      PROVE  /\ row(s) \in Session /\ row(s).pc = session[s].pc
             /\ row(s).sid = session[s].sid /\ row(s).dead = session[s].dead
             /\ row(s).idle = session[s].idle /\ row(s).absolute = session[s].absolute
  BY DEF Base, TypeOK, Session
<1> HIDE DEF row
<1>3. session' \in [Sessions -> Session]
  <2>1. session' = [s \in Sessions |-> session'[s]]
    BY DEF Base, TypeOK
  <2>2. \A s \in Sessions : session'[s] \in Session
    BY <1>1, <1>2
  <2> QED BY <2>1, <2>2
<1>4. \A s \in Sessions : Expired(s)' <=> Expired(s)
  BY <1>1, <1>2 DEF Expired
<1>5. RowsKept /\ EndsAreFinal /\ \A s \in Sessions : SessionOK(s)'
  BY <1>1, <1>2, <1>3, <1>4, RecordChanged
<1> QED BY <1>1, <1>3, <1>5 DEF row

LEMMA ClaimBase == ASSUME Base, NEW w \in work, Claim(w) PROVE Base'
<1>1. w.pc = "claim" /\ UNCHANGED <<zitadel, sweeping, logouts, excused>>
  BY DEF Claim
<1>2. TaskOK(w) /\ w \in Work /\ w.op \in {"check", "touch"} /\ w.session \in Sessions
  BY <1>1 DEF Base, TypeOK, TaskOK
<1>3. /\ session' \in [Sessions -> Session]
      /\ RowsKept /\ EndsAreFinal /\ \A s \in Sessions : SessionOK(s)'
  <2>1. CASE session' = [session EXCEPT ![w.session].check = Liveness]
    <3>1. Liveness \in 0..Liveness
      BY ConstantsAssumption
    <3> QED BY <1>1, <1>2, <2>1, <3>1, CheckSet
  <2>2. CASE UNCHANGED session
    BY <1>1, <2>2, SameSessions DEF Base, TypeOK
  <2> QED BY <2>1, <2>2 DEF Claim
<1>4. \/ work' = Goes(w, "read") \/ work' = Goes(w, "touch") \/ work' = Done(w)
  BY DEF Claim
<1>5. ASSUME NEW v \in work', v \notin work PROVE v \in Work /\ TaskOK(v)'
  <2>1. v = [w EXCEPT !.pc = "read"] \/ v = [w EXCEPT !.pc = "touch"]
    BY <1>4, <1>5 DEF Goes, Done
  <2> QED BY <1>2, <1>3, <2>1, TaskMoved
<1>6. rare' \in Nat
  BY DEF Claim, Base, TypeOK
<1>7. TypeOK'
  BY <1>1, <1>3, <1>5, <1>6 DEF Base, TypeOK
<1> QED BY <1>1, <1>3, <1>5, <1>7, BaseFrom

LEMMA ReadBase == ASSUME Base, NEW w \in work, Read(w) PROVE Base'
<1>1. w.pc = "read" /\ UNCHANGED <<zitadel, sweeping, logouts, excused>>
  BY DEF Read
<1>2. TaskOK(w) /\ w \in Work /\ w.op \in {"check", "touch"} /\ w.session \in Sessions
  BY <1>1 DEF Base, TypeOK, TaskOK
<1>3. /\ session' \in [Sessions -> Session]
      /\ RowsKept /\ EndsAreFinal /\ \A s \in Sessions : SessionOK(s)'
  <2>1. CASE session' = Without({w.session})
    BY <1>1, <2>1, RowsDeleted
  <2>2. CASE UNCHANGED session
    BY <1>1, <2>2, SameSessions DEF Base, TypeOK
  <2>3. CASE session' = [session EXCEPT ![w.session].check = RetryAt]
    <3>1. RetryAt \in 0..Liveness
      BY ConstantsAssumption DEF RetryAt
    <3> QED BY <1>1, <1>2, <2>3, <3>1, CheckSet
  <2> QED BY <2>1, <2>2, <2>3 DEF Read
<1>4. \/ work' = Goes(w, "touch") \/ work' = Done(w)
  BY DEF Read
<1>5. ASSUME NEW v \in work', v \notin work PROVE v \in Work /\ TaskOK(v)'
  <2>1. v = [w EXCEPT !.pc = "touch"]
    BY <1>4, <1>5 DEF Goes, Done
  <2> QED BY <1>2, <1>3, <2>1, TaskMoved
<1>6. rare' \in Nat
  BY DEF Read, Base, TypeOK
<1>7. TypeOK'
  BY <1>1, <1>3, <1>5, <1>6 DEF Base, TypeOK
<1> QED BY <1>1, <1>3, <1>5, <1>7, BaseFrom

LEMMA TouchBase == ASSUME Base, NEW w \in work, Touch(w) PROVE Base'
<1> PICK x : x = w.session
  OBVIOUS
<1>1. /\ w.pc = "touch" /\ work' = work \ {w}
      /\ session' = (IF Row(x) THEN [session EXCEPT ![x].idle = Idle] ELSE session)
      /\ excused' = (IF Row(x) /\ Expired(x) /\ zitadel[w.sid] = "named"
                       THEN excused \cup {w.sid} ELSE excused)
      /\ UNCHANGED <<zitadel, sweeping, logouts, rare>>
  BY DEF Touch, Done
<1>2. /\ TaskOK(w) /\ w \in Work /\ w.sid \in Sids /\ x \in Sessions
      /\ session[x].pc \in {"held", "ended"}
      /\ session[x].pc = "held" => session[x].sid = w.sid
  BY <1>1 DEF Base, TypeOK, TaskOK, Work
<1>3. excused \subseteq excused' /\ excused' \subseteq Sids
  <2>1. excused \subseteq Sids
    BY DEF Base, TypeOK
  <2>2. excused' = excused \cup {w.sid} \/ excused' = excused
    BY <1>1
  <2> QED BY <1>2, <2>1, <2>2
<1>4. CASE ~Row(x)
  <2>1. UNCHANGED session
    BY <1>1, <1>4
  <2>2. RowsKept /\ EndsAreFinal /\ \A s \in Sessions : SessionOK(s)'
    BY <1>1, <1>3, <2>1, SameSessions
  <2>3. TypeOK'
    BY <1>1, <1>3, <2>1 DEF Base, TypeOK
  <2> QED BY <1>1, <2>2, <2>3, BaseFrom
<1>5. CASE Row(x)
  <2> DEFINE row == [session[x] EXCEPT !.idle = Idle]
  <2>1. session[x] \in Session /\ SessionOK(x) /\ session[x].pc = "held"
        /\ session[x].sid = w.sid
    BY <1>2, <1>5 DEF Base, TypeOK, Row
  <2>2. /\ row \in Session /\ row.pc = session[x].pc /\ row.sid = session[x].sid
        /\ row.dead = session[x].dead /\ row.idle # 0
        /\ row.absolute = session[x].absolute
    BY <2>1, ConstantsAssumption DEF Session
  <2>3. session' = [session EXCEPT ![x] = row]
    BY <1>1, <1>5
  <2> HIDE DEF row
  <2>4. /\ session' \in [Sessions -> Session] /\ session'[x] = row
        /\ \A s \in Sessions \ {x} : session'[s] = session[s]
    BY <1>2, <2>2, <2>3 DEF Base, TypeOK
  <2>5. Expired(x) => w.sid \in excused' \/ Dead(w.sid)'
    <3>1. zitadel[w.sid] \in {"named", "barred", "gone"}
      BY <1>2, <1>5, <2>1 DEF Base, TypeOK, ZitadelStates, SessionOK, Row
    <3> QED BY <1>1, <1>5, <3>1 DEF Dead
  <2>6. \A s \in Sessions : Expired(s)' => Expired(s)
    BY <2>2, <2>4 DEF Expired
  <2>7. \A s \in Sessions : Expired(s) => \/ Expired(s)' \/ session[s].sid \in excused'
                                          \/ Dead(session[s].sid)'
    <3> TAKE s \in Sessions
    <3>1. CASE s = x
      BY <2>1, <2>2, <2>4, <2>5, <3>1 DEF Dead
    <3>2. CASE s # x
      BY <2>4, <3>2 DEF Expired
    <3> QED BY <3>1, <3>2
  <2>8. RowsKept /\ EndsAreFinal /\ \A s \in Sessions : SessionOK(s)'
    <3>1. \A s \in Sessions :
            /\ session'[s].pc = session[s].pc /\ session'[s].sid = session[s].sid
            /\ session'[s].dead \in {session[s].dead, 0}
      BY <2>2, <2>4
    <3> QED BY <1>1, <1>3, <2>4, <2>6, <2>7, <3>1, RecordChanged
  <2>9. TypeOK'
    BY <1>1, <1>3, <2>4 DEF Base, TypeOK
  <2> QED BY <1>1, <2>8, <2>9, BaseFrom
<1> QED BY <1>4, <1>5

LEMMA FailBase == ASSUME Base, NEW failed \in SUBSET work, Fail(failed) PROVE Base'
<1> DEFINE row(s) == IF \E w \in failed : w.pc = "read" /\ w.session = s
                       THEN [session[s] EXCEPT !.dead = 0] ELSE session[s]
<1>1. /\ work' = work \ failed /\ rare' = rare + 1
      /\ excused' = excused \cup {z \in Sids : /\ zitadel[z] = "named"
                                              /\ \E w \in failed : Ending(w) /\ w.sid = z}
      /\ session' = [s \in Sessions |-> row(s)]
      /\ sweeping' \in {sweeping, {}}
      /\ UNCHANGED <<zitadel, logouts>>
  BY DEF Fail
<1>2. ASSUME NEW s \in Sessions
      PROVE  /\ row(s) \in Session /\ row(s).pc = session[s].pc
             /\ row(s).sid = session[s].sid /\ row(s).dead \in {session[s].dead, 0}
             /\ row(s).idle = session[s].idle /\ row(s).absolute = session[s].absolute
  <2>1. session[s] \in Session
    BY DEF Base, TypeOK
  <2>2. CASE row(s) = session[s]
    BY <2>1, <2>2
  <2>3. CASE row(s) = [session[s] EXCEPT !.dead = 0]
    BY <2>1, <2>3 DEF Session
  <2> QED BY <2>2, <2>3
<1> HIDE DEF row
<1>3. session' \in [Sessions -> Session] /\ \A s \in Sessions : session'[s] = row(s)
  BY <1>1, <1>2
<1>4. \A s \in Sessions : Expired(s)' <=> Expired(s)
  BY <1>2, <1>3 DEF Expired
<1>5. excused \subseteq excused' /\ excused' \subseteq Sids
  BY <1>1 DEF Base, TypeOK
<1>6. RowsKept /\ EndsAreFinal /\ \A s \in Sessions : SessionOK(s)'
  BY <1>1, <1>2, <1>3, <1>4, <1>5, RecordChanged
<1>7. TypeOK'
  BY <1>1, <1>3, <1>5 DEF Base, TypeOK
<1> QED BY <1>1, <1>6, <1>7, BaseFrom

-----------------------------------------------------------------------------
(* Zitadel's own steps.                                                    *)

LEMMA ZitadelEndsBase == ASSUME Base, NEW z \in Sids, ZitadelEnds(z) PROVE Base'
<1>1. /\ zitadel' = [zitadel EXCEPT ![z] = "gone"] /\ excused' = excused \ {z}
      /\ logouts' = logouts \cup {z} /\ rare' = rare + 1
      /\ UNCHANGED <<session, work, sweeping>>
  BY DEF ZitadelEnds
<1>2. /\ zitadel' \in [Sids -> ZitadelStates]
      /\ RowsKept /\ EndsAreFinal /\ \A s \in Sessions : SessionOK(s)'
  BY <1>1, ZitadelChanged
<1>3. TypeOK'
  BY <1>1, <1>2 DEF Base, TypeOK
<1>4. zitadel'[z] = "gone"
  BY <1>1 DEF Base, TypeOK
<1> QED BY <1>1, <1>2, <1>3, <1>4, BaseFrom

LEMMA BarBase == ASSUME Base, NEW z \in Sids, Bar(z) PROVE Base'
<1>1. /\ zitadel' = [zitadel EXCEPT ![z] = "barred"] /\ excused' = excused \ {z}
      /\ zitadel[z] # "gone" /\ rare' = rare + 1
      /\ UNCHANGED <<session, work, sweeping, logouts>>
  BY DEF Bar
<1>2. /\ zitadel' \in [Sids -> ZitadelStates]
      /\ RowsKept /\ EndsAreFinal /\ \A s \in Sessions : SessionOK(s)'
  BY <1>1, ZitadelChanged
<1>3. TypeOK'
  BY <1>1, <1>2 DEF Base, TypeOK
<1> QED BY <1>1, <1>2, <1>3, BaseFrom

LEMMA BackchannelBase == ASSUME Base, NEW z \in Sids, BackchannelLogout(z) PROVE Base'
<1>1. /\ session' = Without(Named(z)) /\ logouts' = logouts \ {z}
      /\ UNCHANGED <<zitadel, work, sweeping, excused, rare>>
  BY DEF BackchannelLogout
<1>2. /\ session' \in [Sessions -> Session]
      /\ RowsKept /\ EndsAreFinal /\ \A s \in Sessions : SessionOK(s)'
  BY <1>1, RowsDeleted
<1>3. TypeOK'
  BY <1>1, <1>2 DEF Base, TypeOK
<1> QED BY <1>1, <1>2, <1>3, BaseFrom

LEMMA NextBase == ASSUME Base, [Next]_vars PROVE Base'
<1>1. CASE UNCHANGED vars
  BY <1>1 DEF vars, Base, TypeOK, SessionOK, TaskOK, Row, Expired, Dead
<1>2. CASE Tick
  BY <1>2, TickBase
<1>3. ASSUME NEW s \in Sessions, SigningIn(s) \/ Request(s) \/ SignOut(s) PROVE Base'
  BY <1>3, AuthorizeBase, FinalizeBase, RefuseBase, StoreBase, AnswerBase, RequestBase,
     SignOutBase DEF SigningIn
<1>4. ASSUME NEW z \in Sids, Revoke(z) \/ ZitadelEnds(z) \/ Bar(z) \/ BackchannelLogout(z)
      PROVE  Base'
  BY <1>4, RevokeBase, ZitadelEndsBase, BarBase, BackchannelBase
<1>5. CASE SweepList \/ \E w \in sweeping : SweepNext(w)
  BY <1>5, SweepListBase, SweepNextBase
<1>6. ASSUME NEW w \in work,
             \/ DeleteRow(w) \/ CheckShared(w) \/ EndZitadel(w) \/ DeleteRows(w)
             \/ Claim(w) \/ Read(w) \/ Touch(w)
      PROVE  Base'
  BY <1>6, DeleteRowBase, CheckSharedBase, EndZitadelBase, DeleteRowsBase, ClaimBase,
     ReadBase, TouchBase
<1>7. ASSUME NEW failed \in SUBSET work, Fail(failed) PROVE Base'
  BY <1>7, FailBase
<1> QED BY <1>1, <1>2, <1>3, <1>4, <1>5, <1>6, <1>7 DEF Next

(* Handlers, rows and Zitadel's sessions agree as Base says.                *)
LEMMA AlwaysBase == Spec => []Base
<1>1. Base /\ [Next]_vars => Base'
  BY NextBase
<1> QED BY <1>1, InitBase, PTL DEF Spec

(* Every reachable state is well typed: what session_store.go, the sweeper    *)
(* and the liveness check store stays within the limits they were given.    *)
THEOREM BrowserSessions_TypeCorrect == Spec => []TypeOK
<1>1. Base => TypeOK
  BY DEF Base
<1> QED BY <1>1, AlwaysBase, PTL

-----------------------------------------------------------------------------
(* A dead session is checked.                                              *)

Checked(s) ==
    \/ session[s].check <= Retry
    \/ session[s].check + session[s].dead <= Liveness
    \/ \E w \in work : w.session = s /\ w.pc = "read"

LEMMA CheckedDef ==
    DeadIsChecked <=> \A s \in Sessions : (Row(s) /\ Dead(session[s].sid)) => Checked(s)
  BY DEF DeadIsChecked, Checked, Of

(* A row checked no later than before is checked, as long as who is at it is. *)
LEMMA CheckedStays ==
    ASSUME Base, DeadIsChecked, NEW s \in Sessions, Row(s),
           session'[s].check = session[s].check,
           \/ session'[s].dead = 0
           \/ /\ session'[s].dead = session[s].dead
              /\ \A w \in work : (w.session = s /\ w.pc = "read") => w \in work'
    PROVE  Checked(s)'
<1>1. session[s] \in Session /\ session[s].check \in 0..Liveness
      /\ session[s].dead \in Nat /\ SessionOK(s)
  BY DEF Base, TypeOK, Session
<1>2. CASE session'[s].dead = 0
  <2>1. session'[s].check + session'[s].dead <= Liveness
    BY <1>1, <1>2, ConstantsAssumption
  <2> QED BY <2>1 DEF Checked
<1>3. CASE session'[s].dead = session[s].dead /\ session[s].dead # 0
           /\ \A w \in work : (w.session = s /\ w.pc = "read") => w \in work'
  <2>1. Dead(session[s].sid)
    BY <1>1, <1>3 DEF SessionOK
  <2>2. Checked(s)
    BY <2>1, CheckedDef
  <2> QED BY <1>3, <2>2 DEF Checked
<1> QED BY <1>2, <1>3

LEMMA TickChecked == ASSUME Base, DeadIsChecked, Tick PROVE DeadIsChecked'
<1> SUFFICES ASSUME NEW s \in Sessions, Row(s)', Dead(session[s].sid)'
             PROVE  Checked(s)'
  BY DEF DeadIsChecked, Checked, Of, Row, Dead
<1> DEFINE row == [session[s] EXCEPT !.idle = Less(@), !.absolute = Less(@),
                     !.check = Less(@),
                     !.dead = IF session[s].pc = "held" /\ Dead(session[s].sid)
                                 /\ @ < Liveness THEN @ + 1 ELSE @]
<1>1. /\ session'[s] = row /\ session[s].pc # "stored"
      /\ UNCHANGED <<zitadel, work>>
  BY DEF Tick
<1>2. session[s] \in Session
  BY DEF Base, TypeOK
<1>3. /\ row.pc = session[s].pc /\ row.sid = session[s].sid
      /\ row.check = Less(session[s].check)
      /\ row.dead \in {session[s].dead, session[s].dead + 1}
  BY <1>2 DEF Session
<1> HIDE DEF row
<1>4. session[s].check \in 0..Liveness /\ session[s].dead \in Nat
      /\ Retry \in Nat /\ Liveness \in Nat
  BY <1>2, ConstantsAssumption DEF Session
<1>5. Checked(s)
  BY <1>1, <1>3, CheckedDef DEF Row, Dead
<1>6. CASE session[s].check = 0
  <2>1. session'[s].check = 0
    BY <1>1, <1>3, <1>6 DEF Less
  <2> QED BY <1>4, <2>1 DEF Checked
<1>7. CASE session[s].check # 0
  <2>1. session'[s].check = session[s].check - 1
    BY <1>1, <1>3, <1>7 DEF Less
  <2>2. session'[s].dead <= session[s].dead + 1 /\ session'[s].dead \in Nat
    BY <1>1, <1>3, <1>4
  <2>3. CASE session[s].check <= Retry
    <3>1. session'[s].check <= Retry
      BY <1>4, <1>7, <2>1, <2>3
    <3> QED BY <3>1 DEF Checked
  <2>4. CASE session[s].check + session[s].dead <= Liveness
    <3>1. session'[s].check + session'[s].dead <= Liveness
      BY <1>4, <1>7, <2>1, <2>2, <2>4
    <3> QED BY <3>1 DEF Checked
  <2>5. CASE \E w \in work : w.session = s /\ w.pc = "read"
    BY <1>1, <2>5 DEF Checked
  <2> QED BY <1>5, <2>3, <2>4, <2>5 DEF Checked
<1> QED BY <1>6, <1>7

LEMMA SignInChecked ==
    ASSUME Base, DeadIsChecked, NEW t \in Sessions, SigningIn(t) PROVE DeadIsChecked'
<1> SUFFICES ASSUME NEW s \in Sessions, Row(s)', Dead(session[s].sid)'
             PROVE  Checked(s)'
  BY DEF DeadIsChecked, Checked, Of, Row, Dead
<1>0. session \in [Sessions -> Session]
  BY DEF Base, TypeOK
<1>1. work \subseteq work'
  BY DEF SigningIn, Authorize, Finalize, Refuse, Store, Answer
<1>2. CASE s # t
  <2>1. session'[s] = session[s]
    BY <1>0, <1>2 DEF SigningIn, Authorize, Finalize, Refuse, Store, Answer
  <2> QED BY <1>1, <2>1, CheckedStays DEF Row
<1>3. CASE s = t /\ Store(t)
  <2>1. session'[s].check = Liveness /\ session'[s].dead = 0
    BY <1>0, <1>3 DEF Store
  <2> QED BY <2>1, ConstantsAssumption DEF Checked
<1>4. CASE s = t /\ Answer(t)
  <2>1. /\ session'[s].check = session[s].check /\ session'[s].dead = session[s].dead
        /\ Row(s)
    BY <1>0, <1>4 DEF Answer, Row, Session
  <2> QED BY <1>1, <2>1, CheckedStays
<1>5. CASE s = t /\ Authorize(t)
  <2>1. session'[s].pc = "begun"
    BY <1>0, <1>5 DEF Authorize, NoRow
  <2> QED BY <2>1 DEF Row
<1>6. CASE s = t /\ Refuse(t)
  <2>1. session'[s].pc = "ended"
    BY <1>0, <1>6 DEF Refuse, NoRow
  <2> QED BY <2>1 DEF Row
<1>7. CASE s = t /\ \E z \in Sids : Finalize(t, z)
  <2>1. session'[s].pc = "coded"
    BY <1>0, <1>7 DEF Finalize, Session
  <2> QED BY <2>1 DEF Row
<1> QED BY <1>2, <1>3, <1>4, <1>5, <1>6, <1>7 DEF SigningIn

(* A step that only deletes rows and takes no check on.                    *)
LEMMA OthersChecked ==
    ASSUME Base, DeadIsChecked,
           \A s \in Sessions : session'[s] = session[s] \/ ~Row(s)',
           \A w \in work : w.pc = "read" => w \in work'
    PROVE  DeadIsChecked'
<1> SUFFICES ASSUME NEW s \in Sessions, Row(s)', Dead(session[s].sid)'
             PROVE  Checked(s)'
  BY DEF DeadIsChecked, Checked, Of, Row, Dead
<1>1. session'[s] = session[s] /\ Row(s)
  BY DEF Row
<1> QED BY <1>1, CheckedStays

LEMMA WithoutRows ==
    ASSUME NEW S, session' = Without(S)
    PROVE  /\ \A s \in Sessions : session'[s] = session[s] \/ ~Row(s)'
           /\ \A s \in Sessions \cap S : ~Row(s)'
<1> SUFFICES ASSUME NEW s \in Sessions
             PROVE  /\ session'[s] = session[s] \/ ~Row(s)'
                    /\ s \in S => ~Row(s)'
  OBVIOUS
<1>1. session'[s] = IF s \in S /\ Row(s) THEN NoRow("ended") ELSE session[s]
  BY DEF Without
<1>2. CASE s \in S /\ Row(s)
  <2>1. session'[s].pc = "ended"
    BY <1>1, <1>2 DEF NoRow
  <2> QED BY <1>2, <2>1 DEF Row
<1>3. CASE ~(s \in S /\ Row(s))
  BY <1>1, <1>3 DEF Row
<1> QED BY <1>2, <1>3

LEMMA HandlerChecked ==
    ASSUME Base, DeadIsChecked, NEW w \in work,
           DeleteRow(w) \/ CheckShared(w) \/ EndZitadel(w) \/ DeleteRows(w)
    PROVE  DeadIsChecked'
<1>1. w.pc # "read" /\ \A v \in work \ {w} : v \in work'
  BY DEF DeleteRow, CheckShared, EndZitadel, DeleteRows, Goes, Done
<1>2. \A s \in Sessions : session'[s] = session[s] \/ ~Row(s)'
  <2>1. CASE UNCHANGED session
    BY <2>1
  <2>2. ASSUME NEW S, session' = Without(S)
        PROVE  \A s \in Sessions : session'[s] = session[s] \/ ~Row(s)'
    BY <2>2, WithoutRows
  <2> QED BY <2>1, <2>2 DEF DeleteRow, CheckShared, EndZitadel, DeleteRows
<1> QED BY <1>1, <1>2, OthersChecked

LEMMA ClaimChecked == ASSUME Base, DeadIsChecked, NEW w \in work, Claim(w) PROVE DeadIsChecked'
<1>1. w.pc = "claim" /\ w.session \in Sessions
  BY DEF Claim, Base, TaskOK
<1>2. \A v \in work \ {w} : v \in work'
  BY DEF Claim, Goes, Done
<1>3. CASE UNCHANGED session
  BY <1>1, <1>2, <1>3, OthersChecked
<1>4. CASE session' = [session EXCEPT ![w.session].check = Liveness] /\ work' = Goes(w, "read")
  <2> SUFFICES ASSUME NEW s \in Sessions, Row(s)', Dead(session[s].sid)'
               PROVE  Checked(s)'
    BY DEF DeadIsChecked, Checked, Of, Row, Dead
  <2>1. CASE s = w.session
    <3>1. [w EXCEPT !.pc = "read"] \in work'
      BY <1>4 DEF Goes
    <3>2. w \in Work
      BY DEF Base, TypeOK
    <3>3. [w EXCEPT !.pc = "read"].session = s /\ [w EXCEPT !.pc = "read"].pc = "read"
      BY <2>1, <3>2 DEF Work
    <3> QED BY <3>1, <3>3 DEF Checked
  <2>2. CASE s # w.session
    <3>1. session'[s] = session[s]
      BY <1>4, <2>2 DEF Base, TypeOK
    <3> QED BY <1>1, <1>2, <3>1, CheckedStays DEF Row
  <2> QED BY <2>1, <2>2
<1> QED BY <1>3, <1>4 DEF Claim

LEMMA ReadChecked == ASSUME Base, DeadIsChecked, NEW w \in work, Read(w) PROVE DeadIsChecked'
<1>1. /\ w.pc = "read" /\ w.session \in Sessions /\ UNCHANGED zitadel
      /\ session[w.session].pc \in {"held", "ended"}
      /\ session[w.session].pc = "held" => session[w.session].sid = w.sid
  BY DEF Read, Base, TaskOK
<1>2. \A v \in work \ {w} : v \in work'
  BY DEF Read, Goes, Done
<1> SUFFICES ASSUME NEW s \in Sessions, Row(s)', Dead(session[s].sid)'
             PROVE  Checked(s)'
  BY DEF DeadIsChecked, Checked, Of, Row, Dead
<1>3. session \in [Sessions -> Session]
  BY DEF Base, TypeOK
<1>4. CASE s # w.session
  <2>1. session'[s] = session[s] \/ ~Row(s)'
    <3>1. CASE session' = Without({w.session})
      BY <3>1, WithoutRows
    <3>2. CASE session' = [session EXCEPT ![w.session].check = RetryAt]
      BY <1>3, <1>4, <3>2
    <3>3. CASE UNCHANGED session
      BY <3>3
    <3> QED BY <3>1, <3>2, <3>3 DEF Read
  <2> QED BY <1>2, <1>4, <2>1, CheckedStays DEF Row
<1>5. CASE s = w.session
  <2>1. CASE Dead(w.sid) /\ session' = Without({w.session})
    BY <1>5, <2>1, WithoutRows
  <2>2. CASE ~Dead(w.sid) /\ UNCHANGED session
    <3>1. session[s].pc = "held" /\ session[s].sid = w.sid
      BY <1>1, <1>5, <2>2 DEF Row
    <3> QED BY <1>1, <2>2, <3>1 DEF Dead
  <2>3. CASE session' = IF Row(w.session) THEN [session EXCEPT ![w.session].check = RetryAt]
                        ELSE session
    <3>1. Row(w.session)
      BY <1>5, <2>3 DEF Row
    <3>2. session'[s].check = Retry
      BY <1>3, <1>5, <2>3, <3>1 DEF RetryAt, Session
    <3> QED BY <3>2, ConstantsAssumption DEF Checked
  <2> QED BY <2>1, <2>2, <2>3 DEF Read
<1> QED BY <1>4, <1>5

LEMMA TouchChecked == ASSUME Base, DeadIsChecked, NEW w \in work, Touch(w) PROVE DeadIsChecked'
<1>1. w.pc = "touch" /\ w.session \in Sessions /\ work' = work \ {w}
  BY DEF Touch, Done, Base, TaskOK
<1> SUFFICES ASSUME NEW s \in Sessions, Row(s)', Dead(session[s].sid)'
             PROVE  Checked(s)'
  BY DEF DeadIsChecked, Checked, Of, Row, Dead
<1>2. /\ session'[s].pc = session[s].pc /\ session'[s].check = session[s].check
      /\ session'[s].dead = session[s].dead
  <2>1. session \in [Sessions -> Session] /\ session[s] \in Session
    BY DEF Base, TypeOK
  <2>2. CASE UNCHANGED session
    BY <2>2
  <2>3. CASE session' = [session EXCEPT ![w.session].idle = Idle]
    <3>1. CASE s = w.session
      BY <2>1, <2>3, <3>1 DEF Session
    <3>2. CASE s # w.session
      BY <2>1, <2>3, <3>2
    <3> QED BY <3>1, <3>2
  <2> QED BY <2>2, <2>3 DEF Touch
<1> QED BY <1>1, <1>2, CheckedStays DEF Row

LEMMA FailChecked ==
    ASSUME Base, DeadIsChecked, NEW failed \in SUBSET work, Fail(failed)
    PROVE  DeadIsChecked'
<1> SUFFICES ASSUME NEW s \in Sessions, Row(s)', Dead(session[s].sid)'
             PROVE  Checked(s)'
  BY DEF DeadIsChecked, Checked, Of, Row, Dead
<1>1. session[s] \in Session /\ work' = work \ failed
  BY DEF Base, TypeOK, Fail
<1>2. session'[s] = IF \E w \in failed : w.pc = "read" /\ w.session = s
                      THEN [session[s] EXCEPT !.dead = 0] ELSE session[s]
  BY DEF Fail
<1>3. CASE \E w \in failed : w.pc = "read" /\ w.session = s
  <2>1. /\ session'[s].pc = session[s].pc /\ session'[s].check = session[s].check
        /\ session'[s].dead = 0
    BY <1>1, <1>2, <1>3 DEF Session
  <2> QED BY <2>1, CheckedStays DEF Row
<1>4. CASE ~\E w \in failed : w.pc = "read" /\ w.session = s
  <2>1. session'[s] = session[s]
    BY <1>2, <1>4
  <2>2. \A w \in work : (w.session = s /\ w.pc = "read") => w \in work'
    BY <1>1, <1>4
  <2> QED BY <2>1, <2>2, CheckedStays DEF Row
<1> QED BY <1>3, <1>4

LEMMA NextChecked == ASSUME Base, DeadIsChecked, [Next]_vars PROVE DeadIsChecked'
<1>1. CASE UNCHANGED vars
  BY <1>1 DEF vars, DeadIsChecked, Of, Row, Dead
<1>2. CASE Tick
  BY <1>2, TickChecked
<1>3. ASSUME NEW s \in Sessions, SigningIn(s) PROVE DeadIsChecked'
  BY <1>3, SignInChecked
<1>4. ASSUME UNCHANGED session, work \subseteq work' PROVE DeadIsChecked'
  BY <1>4, OthersChecked
<1>5. ASSUME NEW s \in Sessions, Request(s) \/ SignOut(s) PROVE DeadIsChecked'
  BY <1>4, <1>5 DEF Request, SignOut
<1>6. ASSUME NEW z \in Sids, Revoke(z) \/ ZitadelEnds(z) \/ Bar(z) PROVE DeadIsChecked'
  BY <1>4, <1>6 DEF Revoke, ZitadelEnds, Bar
<1>7. ASSUME NEW z \in Sids, BackchannelLogout(z) PROVE DeadIsChecked'
  <2>1. session' = Without(Named(z)) /\ work' = work
    BY <1>7 DEF BackchannelLogout
  <2> QED BY <2>1, WithoutRows, OthersChecked
<1>8. CASE SweepList \/ \E w \in sweeping : SweepNext(w)
  BY <1>4, <1>8 DEF SweepList, SweepNext
<1>9. ASSUME NEW w \in work,
             \/ DeleteRow(w) \/ CheckShared(w) \/ EndZitadel(w) \/ DeleteRows(w)
             \/ Claim(w) \/ Read(w) \/ Touch(w)
      PROVE  DeadIsChecked'
  BY <1>9, HandlerChecked, ClaimChecked, ReadChecked, TouchChecked
<1>10. ASSUME NEW failed \in SUBSET work, Fail(failed) PROVE DeadIsChecked'
  BY <1>10, FailChecked
<1> QED BY <1>1, <1>2, <1>3, <1>5, <1>6, <1>7, <1>8, <1>9, <1>10 DEF Next

(* A row whose Zitadel session, user or organisation is gone is checked       *)
(* within Liveness (ZitadelLiveness.Check), whichever requests lost the     *)
(* claim and whatever else ends sessions meanwhile.                         *)
THEOREM BrowserSessions_DeadIsChecked == Spec => []DeadIsChecked
<1>1. Init => DeadIsChecked
  <2>1. ASSUME Init, NEW s \in Sessions PROVE ~Row(s)
    BY <2>1 DEF Init, Row, NoRow
  <2> QED BY <2>1 DEF DeadIsChecked
<1>2. Base /\ DeadIsChecked /\ [Next]_vars => DeadIsChecked'
  BY NextChecked
<1> QED BY <1>1, <1>2, AlwaysBase, PTL DEF Spec
-----------------------------------------------------------------------------
(* No Zitadel session is left behind.                                      *)

Leaves(s)   == \E w \in work : w.session = s /\ Expires(w) /\ w.pc = "row"
Holds(s, z) == Row(s) /\ session[s].sid = z /\ ~Leaves(s)
Held(z) ==
    \/ \E s \in Sessions : Holds(s, z)
    \/ \E w \in work : Ending(w) /\ w.sid = z
    \/ z \in excused

LEMMA HeldDef ==
    NoneLeftBehind <=> \A z \in Sids : zitadel[z] = "named" => Held(z)
  BY DEF NoneLeftBehind, Held, Holds, Leaves, LeavesIt, Of, Named

(* A row keeps its Zitadel session as long as it is a row, and no handler     *)
(* comes to be deleting it for its limits.                                 *)
LEMMA HoldsStays ==
    ASSUME NEW z \in Sids, NEW s \in Sessions, Holds(s, z), Row(s)',
           session'[s].sid = session[s].sid,
           \A v \in work' : v \in work \/ v.session # s \/ ~Expires(v) \/ v.pc # "row"
    PROVE  Held(z)'
<1>1. ~Leaves(s)'
  BY DEF Holds, Leaves
<1> QED BY <1>1 DEF Holds, Held

(* A step that keeps the rows and the tasks, and whose new tasks delete no row *)
(* for its limits.                                                         *)
LEMMA QuietAt ==
    ASSUME NEW z \in Sids, Held(z), z \in excused => z \in excused',
           \A s \in Sessions : Row(s) => Row(s)' /\ session'[s].sid = session[s].sid,
           work \subseteq work',
           \A v \in work' : v \in work \/ ~Expires(v) \/ v.pc # "row"
    PROVE  Held(z)'
<1>1. ASSUME NEW s \in Sessions, Holds(s, z) PROVE Held(z)'
  BY <1>1, HoldsStays DEF Holds
<1>2. CASE \E w \in work : Ending(w) /\ w.sid = z
  BY <1>2 DEF Held
<1>3. CASE z \in excused
  BY <1>3 DEF Held
<1> QED BY <1>1, <1>2, <1>3 DEF Held

LEMMA QuietStep ==
    ASSUME NoneLeftBehind,
           \A z \in Sids : zitadel'[z] = "named" =>
             zitadel[z] = "named" /\ (z \in excused => z \in excused'),
           \A s \in Sessions : Row(s) => Row(s)' /\ session'[s].sid = session[s].sid,
           work \subseteq work',
           \A v \in work' : v \in work \/ ~Expires(v) \/ v.pc # "row"
    PROVE  NoneLeftBehind'
<1> SUFFICES ASSUME NEW z \in Sids, zitadel'[z] = "named"
             PROVE  Held(z)'
  BY DEF NoneLeftBehind, Held, Holds, Leaves, LeavesIt, Of, Named
<1>1. Held(z)
  BY HeldDef
<1> QED BY <1>1, QuietAt

(* What is being deleted for its limits although it is live has an excuse.   *)
LEMMA LiveStays ==
    ASSUME Base, NEW s \in Sessions, Row(s), ~Expired(s),
           zitadel[session[s].sid] = "named", session[s].sid \notin excused
    PROVE  ~Leaves(s)
<1> SUFFICES ASSUME NEW v \in work, v.session = s, Expires(v), v.pc = "row"
             PROVE  FALSE
  BY DEF Leaves
<1>1. TaskOK(v) /\ v.op # "revoke"
  BY DEF Base, Expires
<1>2. session[s].pc = "held" /\ session[s].sid = v.sid
  BY <1>1 DEF TaskOK, Row
<1> QED BY <1>1, <1>2 DEF TaskOK, Dead

(* A handler's session was answered, and is that of its Zitadel session.     *)
LEMMA WorksFor ==
    ASSUME Base, NEW w \in work, w.op # "revoke", Row(w.session)
    PROVE  /\ w.session \in Sessions /\ session[w.session].pc = "held"
           /\ session[w.session].sid = w.sid
  BY DEF Base, TaskOK, Row

LEMMA StoreHeld ==
    ASSUME Base, NoneLeftBehind, NEW s \in Sessions, Store(s) PROVE NoneLeftBehind'
<1> SUFFICES ASSUME NEW z \in Sids, zitadel'[z] = "named"
             PROVE  Held(z)'
  BY DEF NoneLeftBehind, Held, Holds, Leaves, LeavesIt, Of, Named
<1>1. /\ session[s].pc = "coded" /\ session[s].sid \in Sids
      /\ session \in [Sessions -> Session] /\ zitadel \in [Sids -> ZitadelStates]
  BY DEF Store, Base, TypeOK, SessionOK
<1>2. /\ session'[s].pc = "stored" /\ session'[s].sid = session[s].sid
      /\ \A t \in Sessions \ {s} : session'[t] = session[t]
  BY <1>1 DEF Store
<1>3. \A v \in work' : v \in work \/ v.op = "supersede"
  BY DEF Store, Superseding
<1>4. \A y \in Sids \ {session[s].sid} : zitadel'[y] = zitadel[y]
  BY <1>1 DEF Store
<1>5. CASE session[s].sid = z
  <2>1. ASSUME NEW v \in work', v.session = s, Expires(v) PROVE FALSE
    <3>1. v \in work /\ v.op # "revoke"
      BY <1>3, <2>1 DEF Expires
    <3> QED BY <1>1, <2>1, <3>1 DEF Base, TaskOK
  <2>2. Holds(s, z)'
    BY <1>2, <1>5, <2>1 DEF Holds, Leaves, Row
  <2> QED BY <2>2 DEF Held
<1>6. CASE session[s].sid # z
  <2>1. Held(z)
    BY <1>4, <1>6, HeldDef
  <2>2. \A t \in Sessions : Row(t) => Row(t)' /\ session'[t].sid = session[t].sid
    BY <1>1, <1>2 DEF Row
  <2>3. work \subseteq work' /\ excused' = excused
    BY DEF Store
  <2> QED BY <1>3, <2>1, <2>2, <2>3, QuietAt DEF Expires
<1> QED BY <1>5, <1>6

LEMMA SignInHeld ==
    ASSUME Base, NoneLeftBehind, NEW s \in Sessions, SigningIn(s) PROVE NoneLeftBehind'
<1>1. CASE Store(s)
  BY <1>1, StoreHeld
<1>2. CASE Authorize(s) \/ Refuse(s) \/ Answer(s) \/ \E z \in Sids : Finalize(s, z)
  <2>1. \A t \in Sessions : Row(t) => Row(t)' /\ session'[t].sid = session[t].sid
    <3> TAKE t \in Sessions
    <3>1. session \in [Sessions -> Session] /\ session[s] \in Session
      BY DEF Base, TypeOK
    <3>2. CASE t # s
      BY <1>2, <3>1, <3>2 DEF Authorize, Refuse, Answer, Finalize, Row
    <3>3. CASE t = s /\ Answer(s)
      BY <3>1, <3>3 DEF Answer, Row, Session
    <3>4. CASE t = s /\ ~Row(s)
      BY <3>4
    <3> QED BY <1>2, <3>2, <3>3, <3>4 DEF Authorize, Refuse, Finalize, Row
  <2>2. UNCHANGED <<work, excused>>
    BY <1>2 DEF Authorize, Refuse, Answer, Finalize
  <2>3. \A z \in Sids : zitadel'[z] = "named" => zitadel[z] = "named"
    BY <1>2 DEF Authorize, Refuse, Answer, Finalize, Base, TypeOK
  <2> QED BY <2>1, <2>2, <2>3, QuietStep
<1> QED BY <1>1, <1>2 DEF SigningIn

LEMMA TickHeld == ASSUME Base, NoneLeftBehind, Tick PROVE NoneLeftBehind'
<1>1. \A s \in Sessions : session'[s].pc = session[s].pc /\ session'[s].sid = session[s].sid
  <2> TAKE s \in Sessions
  <2>1. session[s] \in Session
    BY DEF Base, TypeOK
  <2>2. PICK d : session'[s] = [session[s] EXCEPT !.idle = Less(@), !.absolute = Less(@),
                                  !.check = Less(@), !.dead = d]
    BY DEF Tick
  <2> QED BY <2>1, <2>2 DEF Session
<1>2. \A s \in Sessions : Row(s) => Row(s)'
  BY <1>1 DEF Row
<1> QED BY <1>1, <1>2, QuietStep DEF Tick

(* Requests, what the sweeper lists, and what Zitadel does of its own accord. *)
LEMMA ArrivalHeld ==
    ASSUME Base, NoneLeftBehind,
           \/ \E s \in Sessions : Request(s) \/ SignOut(s)
           \/ \E z \in Sids : Revoke(z) \/ ZitadelEnds(z) \/ Bar(z)
           \/ SweepList
           \/ \E w \in sweeping : SweepNext(w)
    PROVE  NoneLeftBehind'
<1>1. UNCHANGED session /\ work \subseteq work'
  BY DEF Request, SignOut, Revoke, ZitadelEnds, Bar, SweepList, SweepNext
<1>2. \A v \in work' : v \in work \/ ~Expires(v) \/ v.pc # "row"
  BY DEF Request, SignOut, Revoke, ZitadelEnds, Bar, SweepList, SweepNext, Task, Expires,
     Base
<1>3. \A z \in Sids : zitadel'[z] = "named" =>
        zitadel[z] = "named" /\ (z \in excused => z \in excused')
  BY DEF Request, SignOut, Revoke, ZitadelEnds, Bar, SweepList, SweepNext, Base, TypeOK
<1>4. \A s \in Sessions : Row(s) => Row(s)' /\ session'[s].sid = session[s].sid
  BY <1>1 DEF Row
<1> QED BY <1>1, <1>2, <1>3, <1>4, QuietStep

(* Deleting rows that hold nothing, the tasks staying but for one not at its  *)
(* row's end.                                                              *)
LEMMA DeletedHeld ==
    ASSUME NoneLeftBehind, NEW S, session' = Without(S), UNCHANGED <<zitadel, excused>>,
           \A s \in Sessions \cap S : Row(s) => zitadel[session[s].sid] # "named",
           \A v \in work : Ending(v) => v \in work',
           \A v \in work' : v \in work \/ ~Expires(v) \/ v.pc # "row"
    PROVE  NoneLeftBehind'
<1> SUFFICES ASSUME NEW z \in Sids, zitadel'[z] = "named"
             PROVE  Held(z)'
  BY DEF NoneLeftBehind, Held, Holds, Leaves, LeavesIt, Of, Named
<1>1. Held(z)
  BY HeldDef
<1>2. ASSUME NEW s \in Sessions, Holds(s, z) PROVE Held(z)'
  <2>1. session'[s] = session[s] /\ Row(s)
    BY <1>2 DEF Without, Holds
  <2> QED BY <1>2, <2>1, HoldsStays DEF Row
<1> QED BY <1>1, <1>2 DEF Held

LEMMA DeleteRowHeld ==
    ASSUME Base, NoneLeftBehind, NEW w \in work, DeleteRow(w) PROVE NoneLeftBehind'
<1> SUFFICES ASSUME NEW z \in Sids, zitadel'[z] = "named"
             PROVE  Held(z)'
  BY DEF NoneLeftBehind, Held, Holds, Leaves, LeavesIt, Of, Named
<1>1. /\ w.pc = "row" /\ session' = Without({w.session}) /\ w \in Work
      /\ UNCHANGED <<zitadel, excused>>
      /\ \A v \in work \ {w} : v \in work'
      /\ \A v \in work' : v \in work \/ v.pc # "row"
  BY DEF DeleteRow, Base, TypeOK, Goes, Done, Work
<1>2. Held(z)
  BY <1>1, HeldDef
<1>3. CASE z \in excused \/ \E v \in work : Ending(v) /\ v.sid = z
  BY <1>1, <1>3 DEF Held, Ending
<1>4. \A s \in Sessions \ {w.session} : session'[s] = session[s]
  BY <1>1 DEF Without
<1>5. ASSUME NEW s \in Sessions, Holds(s, z), s # w.session PROVE Held(z)'
  BY <1>1, <1>4, <1>5, HoldsStays DEF Holds, Row
<1>6. ASSUME Holds(w.session, z), w.session \in Sessions PROVE Held(z)'
  <2>1. w.op \in {"signout", "supersede"}
    BY <1>1, <1>6 DEF Holds, Leaves, Expires, Work, Base, TaskOK
  <2>2. session[w.session].pc = "held" /\ session[w.session].sid = w.sid /\ w.sid = z
    BY <1>6, <2>1, WorksFor DEF Holds
  <2>3. ASSUME NEW pc \in {"shared", "zitadel"}, work' = Goes(w, pc) PROVE Held(z)'
    <3>1. [w EXCEPT !.pc = pc] \in work'
      BY <2>3 DEF Goes
    <3>2. /\ [w EXCEPT !.pc = pc].pc = pc /\ [w EXCEPT !.pc = pc].op = w.op
          /\ [w EXCEPT !.pc = pc].sid = w.sid
      BY <1>1 DEF Work
    <3> QED BY <2>1, <2>2, <3>1, <3>2 DEF Held, Ending
  <2>4. CASE w.op = "signout"
    <3>1. work' = Goes(w, "zitadel")
      BY <2>4 DEF DeleteRow, Expires
    <3> QED BY <2>3, <3>1
  <2>5. CASE w.op = "supersede" /\ session[w.keep].sid # w.sid
    <3>1. work' = Goes(w, "shared")
      BY <1>6, <2>5 DEF DeleteRow, Expires, Holds
    <3> QED BY <2>3, <3>1
  <2>6. CASE w.op = "supersede" /\ session[w.keep].sid = w.sid
    <3>1. w.keep \in Sessions /\ session[w.keep].pc \in {"stored", "ended"}
      BY <1>1, <2>6 DEF Base, TaskOK
    <3>2. session[w.keep].pc = "stored"
      BY <2>2, <2>6, <3>1, ConstantsAssumption DEF Base, SessionOK
    <3>3. w.keep # w.session /\ session'[w.keep] = session[w.keep]
      BY <1>4, <2>2, <3>1, <3>2
    <3>4. ASSUME NEW v \in work, v.session = w.keep, Expires(v) PROVE FALSE
      BY <3>2, <3>4 DEF Base, TaskOK, Expires
    <3>5. Holds(w.keep, z)'
      BY <1>1, <2>2, <2>6, <3>2, <3>3, <3>4 DEF Holds, Leaves, Row
    <3> QED BY <3>1, <3>5 DEF Held
  <2> QED BY <2>1, <2>4, <2>5, <2>6
<1> QED BY <1>2, <1>3, <1>5, <1>6 DEF Held

LEMMA CheckSharedHeld ==
    ASSUME Base, NoneLeftBehind, NEW w \in work, CheckShared(w) PROVE NoneLeftBehind'
<1> SUFFICES ASSUME NEW z \in Sids, zitadel'[z] = "named", z \notin excused
             PROVE  Held(z)'
  BY DEF CheckShared, NoneLeftBehind, Held, Holds, Leaves, LeavesIt, Of, Named
<1>1. /\ w.pc = "shared" /\ w \in Work
      /\ UNCHANGED <<zitadel, excused, session>>
      /\ \A v \in work \ {w} : v \in work'
      /\ \A v \in work' : v \in work \/ (v.session = w.session /\ v.op = w.op)
  BY DEF CheckShared, Base, TypeOK, Goes, Done, Work
<1>2. Held(z)
  BY <1>1, HeldDef
<1>3. ASSUME NEW s \in Sessions, Row(s), session[s].sid = z, s # w.session, ~Expired(s)
      PROVE  Held(z)'
  <2>1. Holds(s, z)
    BY <1>1, <1>3, LiveStays DEF Holds
  <2> QED BY <1>1, <1>3, <2>1, HoldsStays DEF Row
<1>4. ASSUME NEW v \in work, Ending(v), v.sid = z PROVE Held(z)'
  <2>1. CASE v # w
    BY <1>1, <1>4, <2>1 DEF Held
  <2>2. CASE v = w /\ ~LiveForSID(w.sid, w.session)
    <3>1. [w EXCEPT !.pc = "zitadel"] \in work'
      BY <2>2 DEF CheckShared, Goes
    <3>2. /\ [w EXCEPT !.pc = "zitadel"].pc = "zitadel"
          /\ [w EXCEPT !.pc = "zitadel"].op = w.op
          /\ [w EXCEPT !.pc = "zitadel"].sid = w.sid
      BY <1>1 DEF Work
    <3> QED BY <1>4, <2>2, <3>1, <3>2 DEF Held, Ending
  <2>3. CASE v = w /\ LiveForSID(w.sid, w.session)
    BY <1>3, <1>4, <2>3 DEF LiveForSID, Named
  <2> QED BY <2>1, <2>2, <2>3
<1>5. ASSUME NEW s \in Sessions, Holds(s, z) PROVE Held(z)'
  <2>1. CASE s # w.session
    BY <1>1, <1>5, <2>1, HoldsStays DEF Row, Holds
  <2>2. CASE s = w.session /\ \A v \in work' : v \in work \/ v.pc # "row"
    BY <1>1, <1>5, <2>2, HoldsStays DEF Row, Holds
  <2>3. CASE s = w.session /\ Expires(w) /\ LiveForSID(w.sid, w.session)
    <3>1. w.sid = z
      BY <1>5, <2>3, WorksFor DEF Holds, Expires
    <3> QED BY <1>3, <2>3, <3>1 DEF LiveForSID, Named
  <2>4. \/ \A v \in work' : v \in work \/ v.pc # "row"
        \/ Expires(w) /\ LiveForSID(w.sid, w.session)
    BY <1>1 DEF CheckShared, Goes, Done, Work
  <2> QED BY <2>1, <2>2, <2>3, <2>4
<1> QED BY <1>2, <1>4, <1>5 DEF Held

LEMMA EndZitadelHeld ==
    ASSUME Base, NoneLeftBehind, NEW w \in work, EndZitadel(w) PROVE NoneLeftBehind'
<1> SUFFICES ASSUME NEW z \in Sids, zitadel'[z] = "named"
             PROVE  Held(z)'
  BY DEF NoneLeftBehind, Held, Holds, Leaves, LeavesIt, Of, Named
<1>1. /\ w \in Work /\ UNCHANGED session
      /\ \A v \in work \ {w} : v \in work'
      /\ \A v \in work' : v \in work \/ v.session = w.session
      /\ \A v \in work' : v \in work \/ ~Expires(v) \/ w.op # "revoke"
  BY DEF EndZitadel, Base, TypeOK, Goes, Done, Work, Expires
<1>2. zitadel'[w.sid] = "gone" /\ zitadel'[z] = zitadel[z] /\ z # w.sid
      /\ (z \in excused => z \in excused')
  BY <1>1 DEF EndZitadel, Base, TypeOK, Work
<1>3. Held(z)
  BY <1>2, HeldDef
<1>4. ASSUME NEW s \in Sessions, Holds(s, z) PROVE Held(z)'
  <2>1. s # w.session \/ w.op = "revoke"
    BY <1>2, <1>4, WorksFor DEF Holds
  <2> QED BY <1>1, <1>4, <2>1, HoldsStays DEF Holds, Row
<1> QED BY <1>1, <1>2, <1>3, <1>4 DEF Held

(* The steps that check and touch a session.                               *)
LEMMA CheckingHeld ==
    ASSUME Base, NoneLeftBehind, NEW w \in work, Claim(w) \/ Read(w) \/ Touch(w)
    PROVE  NoneLeftBehind'
<1>1. /\ w.pc \in {"claim", "read", "touch"} /\ w.op \in {"check", "touch"}
      /\ w \in Work /\ w.session \in Sessions
  BY DEF Claim, Read, Touch, Base, TypeOK, TaskOK
<1>2. /\ \A v \in work \ {w} : v \in work'
      /\ \A v \in work' : v \in work \/ v.op = w.op
      /\ UNCHANGED zitadel /\ excused \subseteq excused'
  BY <1>1 DEF Claim, Read, Touch, Goes, Done, Work
<1>3. CASE session' = Without({w.session}) /\ Dead(w.sid) /\ Read(w)
  <2>1. Row(w.session) => zitadel[session[w.session].sid] # "named"
    BY <1>1, <1>3, WorksFor DEF Dead
  <2> QED BY <1>1, <1>2, <1>3, <2>1, DeletedHeld DEF Read, Ending, Expires
<1>4. CASE \A s \in Sessions : /\ session'[s].pc = session[s].pc
                               /\ session'[s].sid = session[s].sid
  <2> SUFFICES ASSUME NEW z \in Sids, zitadel'[z] = "named"
               PROVE  Held(z)'
    BY DEF NoneLeftBehind, Held, Holds, Leaves, LeavesIt, Of, Named
  <2>1. Held(z)
    BY <1>2, HeldDef
  <2>2. ASSUME NEW s \in Sessions, Holds(s, z) PROVE Held(z)'
    BY <1>1, <1>2, <1>4, <2>2, HoldsStays DEF Holds, Row, Expires
  <2> QED BY <1>1, <1>2, <2>1, <2>2 DEF Held, Ending
<1>5. \/ session' = Without({w.session}) /\ Dead(w.sid) /\ Read(w)
      \/ \A s \in Sessions : /\ session'[s].pc = session[s].pc
                             /\ session'[s].sid = session[s].sid
  <2>1. session \in [Sessions -> Session]
    BY DEF Base, TypeOK
  <2>2. ASSUME NEW n, session' = [session EXCEPT ![w.session].check = n]
        PROVE  \A s \in Sessions : /\ session'[s].pc = session[s].pc
                                   /\ session'[s].sid = session[s].sid
    BY <2>1, <2>2 DEF Session
  <2>3. ASSUME NEW n, session' = [session EXCEPT ![w.session].idle = n]
        PROVE  \A s \in Sessions : /\ session'[s].pc = session[s].pc
                                   /\ session'[s].sid = session[s].sid
    BY <2>1, <2>3 DEF Session
  <2> QED BY <2>2, <2>3 DEF Claim, Read, Touch
<1> QED BY <1>3, <1>4, <1>5

LEMMA FailHeld ==
    ASSUME Base, NoneLeftBehind, NEW failed \in SUBSET work, Fail(failed)
    PROVE  NoneLeftBehind'
<1> SUFFICES ASSUME NEW z \in Sids, zitadel'[z] = "named"
             PROVE  Held(z)'
  BY DEF NoneLeftBehind, Held, Holds, Leaves, LeavesIt, Of, Named
<1>1. /\ work' = work \ failed /\ zitadel[z] = "named" /\ excused \subseteq excused'
      /\ \A w \in failed : Ending(w) /\ w.sid = z => z \in excused'
  BY DEF Fail
<1>2. \A s \in Sessions : session'[s].pc = session[s].pc /\ session'[s].sid = session[s].sid
  BY DEF Fail, Base, TypeOK, Session
<1>3. ASSUME NEW s \in Sessions, Holds(s, z) PROVE Held(z)'
  BY <1>1, <1>2, <1>3, HoldsStays DEF Holds, Row
<1>4. Held(z)
  BY <1>1, HeldDef
<1> QED BY <1>1, <1>3, <1>4 DEF Held

LEMMA NextHeld == ASSUME Base, NoneLeftBehind, [Next]_vars PROVE NoneLeftBehind'
<1>1. CASE UNCHANGED vars
  BY <1>1 DEF vars, NoneLeftBehind, LeavesIt, Of, Named, Row
<1>2. CASE Tick
  BY <1>2, TickHeld
<1>3. ASSUME NEW s \in Sessions, SigningIn(s) PROVE NoneLeftBehind'
  BY <1>3, SignInHeld
<1>4. CASE \/ \E s \in Sessions : Request(s) \/ SignOut(s)
           \/ \E z \in Sids : Revoke(z) \/ ZitadelEnds(z) \/ Bar(z)
           \/ SweepList
           \/ \E w \in sweeping : SweepNext(w)
  BY <1>4, ArrivalHeld
<1>5. ASSUME NEW z \in Sids, BackchannelLogout(z) PROVE NoneLeftBehind'
  <2>1. zitadel[z] = "gone"
    BY <1>5 DEF BackchannelLogout, Base
  <2>2. \A s \in Sessions \cap Named(z) : Row(s) => zitadel[session[s].sid] # "named"
    BY <2>1 DEF Named
  <2> QED BY <1>5, <2>2, DeletedHeld DEF BackchannelLogout
<1>6. ASSUME NEW w \in work, DeleteRows(w) PROVE NoneLeftBehind'
  <2>1. w.pc = "rows" /\ zitadel[w.sid] = "gone"
    BY <1>6 DEF DeleteRows, Base, TaskOK
  <2>2. \A s \in Sessions \cap Named(w.sid) : Row(s) => zitadel[session[s].sid] # "named"
    BY <2>1 DEF Named
  <2> QED BY <1>6, <2>1, <2>2, DeletedHeld DEF DeleteRows, Done, Ending
<1>7. ASSUME NEW w \in work,
             \/ DeleteRow(w) \/ CheckShared(w) \/ EndZitadel(w)
             \/ Claim(w) \/ Read(w) \/ Touch(w)
      PROVE  NoneLeftBehind'
  BY <1>7, DeleteRowHeld, CheckSharedHeld, EndZitadelHeld, CheckingHeld
<1>8. ASSUME NEW failed \in SUBSET work, Fail(failed) PROVE NoneLeftBehind'
  BY <1>8, FailHeld
<1> QED BY <1>1, <1>2, <1>3, <1>4, <1>5, <1>6, <1>7, <1>8 DEF Next

(* A Zitadel session that a browser signed in through has a row, or a handler *)
(* about to end it, or an excuse: endExpired, Supersede, SignOut and        *)
(* RevokeSession, in any interleaving, leave none behind.                   *)
THEOREM BrowserSessions_NoneLeftBehind == Spec => []NoneLeftBehind
<1>1. Init => NoneLeftBehind
  BY DEF Init, NoneLeftBehind
<1>2. Base /\ NoneLeftBehind /\ [Next]_vars => NoneLeftBehind'
  BY NextHeld
<1> QED BY <1>1, <1>2, AlwaysBase, PTL DEF Spec
=============================================================================
