---------------------------- MODULE BrowserSessions ----------------------------
(***************************************************************************)
(* Browser sessions (services/auth): a sign-in through the identity         *)
(* provider, Zitadel, ends in a row whose cookie the browser holds; the row *)
(* has an idle and an absolute limit, is checked against Zitadel now and    *)
(* then, and ends by sign-out, by another sign-in that supersedes it, by a  *)
(* limit (at a request or by the sweeper), by a back-channel logout or by a *)
(* revocation.  Ending it ends the Zitadel session it was signed in         *)
(* through, which several rows may share.                                  *)
(*                                                                         *)
(* A handler is taken apart at its calls to the database and to Zitadel;    *)
(* handlers may take any time, but time passes only once a sign-in whose row *)
(* is stored is answered.                                                  *)
(***************************************************************************)
EXTENDS Integers, FiniteSets

CONSTANTS
    Sessions,     \* sign-ins and the rows they end in: each is used once
    Sids,         \* Zitadel sessions
    None,
    Idle,         \* SessionLimits.Idle
    Absolute,     \* SessionLimits.Absolute
    Liveness,     \* SessionLimits.Liveness: a row is checked this often
    Retry,        \* livenessRetry: and this soon after a check without a verdict
    MaxServed,    \* bound: handlers at work when a request arrives
    MaxRare       \* bound: failures, and what Zitadel does of its own accord

ASSUME ConstantsAssumption ==
    /\ None \notin Sessions /\ None \notin Sids
    /\ Idle \in Nat \ {0} /\ Absolute \in Nat \ {0}
    /\ Liveness \in Nat /\ Retry \in Nat /\ Retry <= Liveness
    /\ MaxServed \in Nat /\ MaxRare \in Nat

VARIABLES
    zitadel,   \* its sessions
    session,   \* sign-ins and the browser_sessions table
    work,      \* what handlers and the sweeper are at
    sweeping,  \* the expired rows the sweeper listed and did not get to yet, as its tasks
    logouts,   \* the Zitadel sessions whose logout token is on its way
    excused,   \* those no row may be left to end, a failure being to blame (history)
    rare       \* rare events so far (bounds the state space)

vars == <<zitadel, session, work, sweeping, logouts, excused, rare>>

-----------------------------------------------------------------------------
(* "open": authenticated; "named": a row was started through it (history); *)
(* "barred": its user or organisation is not let in any more.              *)
ZitadelStates == {"unused", "open", "named", "barred", "gone"}

(* "stored": there is a row, its sign-in is not answered yet; "held": there *)
(* is a row, the browser may have its cookie.                              *)
Session == [pc: {"none", "begun", "coded", "stored", "held", "ended"},
            sid: Sids \cup {None},
            idle: 0..Idle, absolute: 0..Absolute, check: 0..Liveness,
            dead: Nat]             \* how long it has had no say in Zitadel (history)

(* "supersede" and "signout" delete the row first, "expire" (at a request)   *)
(* and "sweep" last.                                                       *)
Work == [op: {"expire", "sweep", "supersede", "signout", "revoke", "check", "touch"},
         pc: {"row", "rows", "shared", "zitadel", "claim", "read", "touch"},
         session: Sessions \cup {None}, sid: Sids,
         keep: Sessions \cup {None}]    \* the sign-in that supersedes

TypeOK ==
    /\ zitadel \in [Sids -> ZitadelStates]
    /\ session \in [Sessions -> Session]
    /\ work \subseteq Work
    /\ sweeping \subseteq Work
    /\ logouts \subseteq Sids
    /\ excused \subseteq Sids
    /\ rare \in Nat

NoRow(pc) == [pc |-> pc, sid |-> None, idle |-> 0, absolute |-> 0,
              check |-> 0, dead |-> 0]

Init ==
    /\ zitadel = [z \in Sids |-> "unused"]
    /\ session = [s \in Sessions |-> NoRow("none")]
    /\ work = {} /\ sweeping = {} /\ logouts = {} /\ excused = {}
    /\ rare = 0

Row(s)     == session[s].pc \in {"stored", "held"}
Expired(s) == session[s].idle = 0 \/ session[s].absolute = 0
Named(z)   == {s \in Sessions : Row(s) /\ session[s].sid = z}
Dead(z)    == zitadel[z] \in {"barred", "gone"}

(* HasLiveSessionForSID.                                                   *)
AnyForSID(z, except)  == Named(z) \ {except} # {}               \* a mutant
LiveForSID(z, except) == \E s \in Named(z) \ {except} : ~Expired(s)

(* The rows left when those of `gone' are deleted.                         *)
Without(gone) ==
    [s \in Sessions |-> IF s \in gone /\ Row(s) THEN NoRow("ended") ELSE session[s]]

-----------------------------------------------------------------------------
(* Time.                                                                   *)

Less(n) == IF n = 0 THEN 0 ELSE n - 1

Tick ==
    /\ \A s \in Sessions : session[s].pc # "stored"
    /\ session' = [s \in Sessions |->
         [session[s] EXCEPT !.idle = Less(@), !.absolute = Less(@),
            !.check = Less(@),
            !.dead = IF session[s].pc = "held" /\ Dead(session[s].sid) /\ @ < Liveness
                       THEN @ + 1 ELSE @]]
    /\ UNCHANGED <<zitadel, work, sweeping, logouts, excused, rare>>

-----------------------------------------------------------------------------
(* Signing in.                                                             *)

(* Authorize: the login transaction, whose single use is its sign-in's.      *)
Authorize(s) ==
    /\ session[s].pc = "none"
    /\ session' = [session EXCEPT ![s] = NoRow("begun")]
    /\ UNCHANGED <<zitadel, work, sweeping, logouts, excused, rare>>

(* CreateSession, UpdateSession, FinalizeAuthRequest: the user is            *)
(* authenticated in a Zitadel session, a new or an earlier one, and the     *)
(* browser has the code.                                                   *)
Finalize(s, z) ==
    /\ session[s].pc = "begun" /\ zitadel[z] \in {"unused", "open", "named"}
    /\ zitadel' = [zitadel EXCEPT ![z] = IF @ = "unused" THEN "open" ELSE @]
    /\ session' = [session EXCEPT ![s] = [@ EXCEPT !.pc = "coded", !.sid = z]]
    /\ UNCHANGED <<work, sweeping, logouts, excused, rare>>

(* The sign-in is given up or refused: its transaction has run out, the code *)
(* or the user is not accepted, the row cannot be stored.                   *)
Refuse(s) ==
    /\ session[s].pc \in {"begun", "coded"}
    /\ session' = [session EXCEPT ![s] = NoRow("ended")]
    /\ UNCHANGED <<zitadel, work, sweeping, logouts, excused, rare>>

(* Start, and what Supersede has to do if the browser presented the cookie   *)
(* `previous'.                                                             *)
Superseding(s, previous) ==
    [op |-> "supersede", pc |-> "row", session |-> previous,
     sid |-> session[previous].sid, keep |-> s]

Store(s) ==
    /\ session[s].pc = "coded"
    /\ session' = [session EXCEPT ![s] =
         [pc |-> "stored", sid |-> session[s].sid, idle |-> Idle,
          absolute |-> Absolute, check |-> Liveness, dead |-> 0]]
    /\ zitadel' = [zitadel EXCEPT ![session[s].sid] = IF @ = "open" THEN "named" ELSE @]
    /\ \/ UNCHANGED work
       \/ \E previous \in Sessions : /\ session[previous].pc = "held"
                                     /\ work' = work \cup {Superseding(s, previous)}
    /\ UNCHANGED <<sweeping, logouts, excused, rare>>

(* The answer, with the cookie.                                            *)
Answer(s) ==
    /\ session[s].pc = "stored" /\ \A w \in work : w.keep # s
    /\ session' = [session EXCEPT ![s].pc = "held"]
    /\ UNCHANGED <<zitadel, work, sweeping, logouts, excused, rare>>

-----------------------------------------------------------------------------
(* Requests with a cookie, or a log token that names the session.           *)

Admitted == Cardinality(work) < MaxServed
Task(op, pc, s) == [op |-> op, pc |-> pc, session |-> s, sid |-> session[s].sid,
                    keep |-> None]

(* Resolve (ResolveID): an expired session is refused and ended, one whose   *)
(* check is due is checked, any other is accepted; a request that changes   *)
(* something touches it.                                                   *)
Request(s) ==
    /\ session[s].pc = "held" /\ Admitted
    /\ work' = work \cup
         {IF Expired(s) THEN Task("expire", "shared", s)
          ELSE IF session[s].check = 0 THEN Task("check", "claim", s)
          ELSE Task("touch", "touch", s)}
    /\ UNCHANGED <<zitadel, session, sweeping, logouts, excused, rare>>

(* EndBrowserSession: an expired session is signed out too.                *)
SignOut(s) ==
    /\ session[s].pc = "held" /\ Admitted
    /\ work' = work \cup {Task("signout", "row", s)}
    /\ UNCHANGED <<zitadel, session, sweeping, logouts, excused, rare>>

(* Settings > Sessions: RevokeSession of a Zitadel session of the user.     *)
Revoke(z) ==
    /\ zitadel[z] \in {"open", "named"} /\ Admitted
    /\ work' = work \cup {[op |-> "revoke", pc |-> "zitadel", session |-> None,
                           sid |-> z, keep |-> None]}
    /\ UNCHANGED <<zitadel, session, sweeping, logouts, excused, rare>>

(* Sweep: the expired rows are listed, then ended one by one, by then gone   *)
(* or not.                                                                 *)
Sweeping == \E w \in work : w.op = "sweep"

SweepList ==
    /\ sweeping = {} /\ ~Sweeping
    /\ sweeping' = {Task("sweep", "shared", s) : s \in {x \in Sessions : Row(x) /\ Expired(x)}}
    /\ UNCHANGED <<zitadel, session, work, logouts, excused, rare>>

SweepNext(w) ==
    /\ w \in sweeping /\ ~Sweeping
    /\ sweeping' = sweeping \ {w}
    /\ work' = work \cup {w}
    /\ UNCHANGED <<zitadel, session, logouts, excused, rare>>

-----------------------------------------------------------------------------
(* The steps of a handler `w'.                                             *)

Expires(w)  == w.op \in {"expire", "sweep"}         \* endExpired
Done(w)     == work \ {w}
Goes(w, pc) == Done(w) \cup {[w EXCEPT !.pc = pc]}

(* Deleting the row: Supersede and SignOut first, endExpired last.  A sign-  *)
(* in that reused the Zitadel session of the one it supersedes keeps it.    *)
DeleteRow(w) ==
    /\ w.pc = "row"
    /\ session' = Without({w.session})
    /\ work' = CASE Expires(w) -> Done(w)
                 [] w.op = "signout" -> Goes(w, "zitadel")
                 [] OTHER -> IF session[w.keep].sid = w.sid \/ ~Row(w.session)
                               THEN Done(w) ELSE Goes(w, "shared")
    /\ UNCHANGED <<zitadel, sweeping, logouts, excused, rare>>

(* Does another live row name the Zitadel session?                         *)
CheckShared(w) ==
    /\ w.pc = "shared"
    /\ work' = IF ~LiveForSID(w.sid, w.session) THEN Goes(w, "zitadel")
               ELSE IF Expires(w) THEN Goes(w, "row") ELSE Done(w)
    /\ UNCHANGED <<zitadel, session, sweeping, logouts, excused, rare>>

(* Zitadel ends its session, and tells so; it answers 404 if it was gone,    *)
(* which counts as done.                                                   *)
EndsOnce(w) ==                                                  \* a mutant
    /\ zitadel[w.sid] # "gone"
EndsIn(w) == TRUE

EndZitadel(w) ==
    /\ w.pc = "zitadel" /\ EndsIn(w)
    /\ zitadel' = [zitadel EXCEPT ![w.sid] = "gone"]
    /\ excused' = excused \ {w.sid}
    /\ logouts' = IF zitadel[w.sid] = "gone" THEN logouts ELSE logouts \cup {w.sid}
    /\ work' = CASE Expires(w) -> Goes(w, "row")
                 [] w.op = "revoke" -> Goes(w, "rows")
                 [] OTHER -> Done(w)
    /\ UNCHANGED <<session, sweeping, rare>>

DeleteRows(w) ==
    /\ w.pc = "rows"
    /\ session' = Without(Named(w.sid))
    /\ work' = Done(w)
    /\ UNCHANGED <<zitadel, sweeping, logouts, excused, rare>>

(* ClaimDueCheck: one of those that found the check due claims it, the       *)
(* others are accepted, and so is one whose claim fails.                   *)
Claim(w) ==
    /\ w.pc = "claim"
    /\ LET due == Row(w.session) /\ session[w.session].check = 0 IN
       \/ /\ due
          /\ session' = [session EXCEPT ![w.session].check = Liveness]
          /\ work' = Goes(w, "read")
          /\ UNCHANGED rare
       \/ /\ IF due THEN rare < MaxRare /\ rare' = rare + 1 ELSE UNCHANGED rare
          /\ work' \in {Done(w), Goes(w, "touch")}
          /\ UNCHANGED session
    /\ UNCHANGED <<zitadel, sweeping, logouts, excused>>

(* The three reads and the verdict: gone, alive, or unsure.                 *)
RetryLate == Liveness                                           \* a mutant
RetryAt == Retry

Read(w) ==
    /\ w.pc = "read"
    /\ \/ /\ Dead(w.sid)
          /\ session' = Without({w.session})
          /\ work' = Done(w)
          /\ UNCHANGED rare
       \/ /\ ~Dead(w.sid)
          /\ work' \in {Done(w), Goes(w, "touch")}
          /\ UNCHANGED <<session, rare>>
       \/ /\ rare < MaxRare /\ rare' = rare + 1
          /\ session' = IF Row(w.session)
                          THEN [session EXCEPT ![w.session].check = RetryAt] ELSE session
          /\ work' \in {Done(w), Goes(w, "touch")}
    /\ UNCHANGED <<zitadel, sweeping, logouts, excused>>

(* Touch: the idle limit moves whatever became of the session meanwhile.     *)
TouchFromLimit(w) ==                                            \* a mutant
    /\ w.pc = "touch" /\ Row(w.session)
    /\ session' = [session EXCEPT ![w.session].idle = @ + Idle]
    /\ work' = Done(w)
    /\ UNCHANGED <<zitadel, sweeping, logouts, excused, rare>>
Touch(w) ==
    /\ w.pc = "touch"
    /\ session' = IF Row(w.session) THEN [session EXCEPT ![w.session].idle = Idle]
                  ELSE session
    /\ excused' = IF Row(w.session) /\ Expired(w.session) /\ zitadel[w.sid] = "named"
                    THEN excused \cup {w.sid} ELSE excused
    /\ work' = Done(w)
    /\ UNCHANGED <<zitadel, sweeping, logouts, rare>>

(* The handlers that have deleted a row and are to end its Zitadel session. *)
Ending(w) == w.op \in {"supersede", "signout"} /\ w.pc \in {"shared", "zitadel"}

(* Steps fail, or the API stops, and the handlers `failed' go no further.    *)
Fail(failed) ==
    /\ failed # {} /\ rare < MaxRare /\ rare' = rare + 1
    /\ work' = work \ failed
    /\ excused' = excused \cup {z \in Sids : /\ zitadel[z] = "named"
                                            /\ \E w \in failed : Ending(w) /\ w.sid = z}
    /\ session' = [s \in Sessions |->
                     IF \E w \in failed : w.pc = "read" /\ w.session = s
                       THEN [session[s] EXCEPT !.dead = 0] ELSE session[s]]
    /\ sweeping' \in {sweeping, {}}
    /\ UNCHANGED <<zitadel, logouts>>

-----------------------------------------------------------------------------
(* Zitadel: a session ends by its lifetime, or by an administrator or another *)
(* application, which is told to us if the token is not lost; a user or an   *)
(* organisation is deactivated.                                            *)

ZitadelEnds(z) ==
    /\ zitadel[z] \in {"open", "named", "barred"}
    /\ zitadel' = [zitadel EXCEPT ![z] = "gone"]
    /\ logouts' = logouts \cup {z}
    /\ excused' = excused \ {z} /\ rare < MaxRare /\ rare' = rare + 1
    /\ UNCHANGED <<session, work, sweeping>>

Bar(z) ==
    /\ zitadel[z] \in {"open", "named"}
    /\ zitadel' = [zitadel EXCEPT ![z] = "barred"]
    /\ excused' = excused \ {z} /\ rare < MaxRare /\ rare' = rare + 1
    /\ UNCHANGED <<session, work, sweeping, logouts>>

(* handleBackchannelLogout: EndBySID.                                      *)
BackchannelLogout(z) ==
    /\ z \in logouts
    /\ logouts' = logouts \ {z}
    /\ session' = Without(Named(z))
    /\ UNCHANGED <<zitadel, work, sweeping, excused, rare>>

-----------------------------------------------------------------------------
SigningIn(s) == \/ Authorize(s) \/ (\E z \in Sids : Finalize(s, z))
                \/ Refuse(s) \/ Store(s) \/ Answer(s)

Next ==
    \/ Tick
    \/ \E s \in Sessions : SigningIn(s) \/ Request(s) \/ SignOut(s)
    \/ \E z \in Sids : Revoke(z) \/ ZitadelEnds(z) \/ Bar(z) \/ BackchannelLogout(z)
    \/ SweepList
    \/ \E w \in sweeping : SweepNext(w)
    \/ \E w \in work : \/ DeleteRow(w) \/ CheckShared(w) \/ EndZitadel(w) \/ DeleteRows(w)
                       \/ Claim(w) \/ Read(w) \/ Touch(w)
    \/ \E failed \in SUBSET work : Fail(failed)

Spec == Init /\ [][Next]_vars

(* Time passes, the sweeper goes on and a redeemed sign-in is finished: each *)
(* of these is one process, or, the sign-ins, a bounded number of steps.    *)
Sweeper ==
    \/ SweepList \/ \E w \in sweeping : SweepNext(w)
    \/ \E w \in work : w.op = "sweep" /\ (CheckShared(w) \/ EndZitadel(w) \/ DeleteRow(w))

SigningInEnds ==
    \/ \E s \in Sessions : Answer(s)
    \/ \E w \in work : w.op = "supersede" /\ (DeleteRow(w) \/ CheckShared(w) \/ EndZitadel(w))

Fairness == WF_vars(Tick) /\ WF_vars(Sweeper) /\ WF_vars(SigningInEnds)

FairSpec == Spec /\ Fairness

-----------------------------------------------------------------------------
(* A Zitadel session that a browser signed in through is not left behind: a   *)
(* row names it and is not on its way out for another's sake, or a handler   *)
(* that deleted the row is about to end it - unless a step failed, or a      *)
(* request that outlasted its session's idle limit brought it back.          *)
Of(s) == {w \in work : w.session = s}
LeavesIt(s) == \E w \in Of(s) : Expires(w) /\ w.pc = "row"
NoneLeftBehind ==
    \A z \in Sids : zitadel[z] = "named" =>
      \/ \E s \in Named(z) : ~LeavesIt(s)
      \/ \E w \in work : Ending(w) /\ w.sid = z
      \/ z \in excused

(* Once Zitadel's session is gone, or its user or organisation is not let in  *)
(* any more, the row is checked within Liveness: its check is due, is being  *)
(* made, or was last made before.  A check without a verdict is repeated     *)
(* after Retry.                                                            *)
DeadIsChecked ==
    \A s \in Sessions : Row(s) /\ Dead(session[s].sid) =>
      \/ session[s].check <= Retry
      \/ session[s].check + session[s].dead <= Liveness
      \/ \E w \in Of(s) : w.pc = "read"

(* Every session ends, though ending its Zitadel session may fail and        *)
(* requests keep touching it.                                              *)
SessionsEnd == \A s \in Sessions : []<>~Row(s)
=============================================================================
