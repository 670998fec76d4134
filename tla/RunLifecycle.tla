---------------------------- MODULE RunLifecycle ----------------------------
(***************************************************************************)
(* What a run promises to the people who read its status, without runners,  *)
(* attempts, tokens, locks or requests: it waits, is planned, is reviewed,  *)
(* is approved, and reads applied only after an engine applied it; it ends  *)
(* once, and only an apply lost with its launcher is approved again.        *)
(* RunDispatch implements it while requests do not overlap.                *)
(***************************************************************************)
CONSTANT Runs

VARIABLES
    phase,  \* where a run stands
    applied \* the runs an engine applied

vars == <<phase, applied>>

Phase == {"absent", "waiting", "planning", "reviewing", "approved", "closing",
          "applied", "failed", "cancelled"}
Open  == {"waiting", "planning", "reviewing", "approved", "closing"}

Init == phase = [r \in Runs |-> "absent"] /\ applied = {}

Move(r, from, to) ==
    /\ phase[r] \in from
    /\ phase' = [phase EXCEPT ![r] = to]
    /\ UNCHANGED applied

(* A new run supersedes runs that nothing works on.                        *)
Create(r) ==
    /\ phase[r] = "absent"
    /\ \E superseded \in SUBSET {x \in Runs : phase[x] \in {"waiting", "reviewing"}} :
         phase' = [x \in Runs |-> IF x = r THEN "waiting"
                                  ELSE IF x \in superseded THEN "cancelled"
                                  ELSE phase[x]]
    /\ UNCHANGED applied

Plan(r)    == Move(r, {"waiting"}, "planning")
Planned(r) == Move(r, {"planning"}, "reviewing")
Approve(r) == Move(r, {"planning", "reviewing"}, "approved")

(* An engine works on after its run was canceled or given up for lost.     *)
Enact(r) ==
    /\ phase[r] \in {"approved", "failed", "cancelled"}
    /\ applied' = applied \cup {r}
    /\ UNCHANGED phase

Close(r) == r \in applied /\ Move(r, {"approved"}, "closing")
End(r)   == r \in applied /\ Move(r, {"approved", "closing"}, "applied")
Fail(r)  == Move(r, Open, "failed")
Cancel(r) == Move(r, Open, "cancelled")
Requeue(r) == Move(r, {"failed"}, "approved")

(* The work of lost launchers: plans begin again, applies fail.            *)
Settle ==
    \E lost \in SUBSET {r \in Runs : phase[r] \in {"planning", "approved"}} :
       /\ phase' = [r \in Runs |-> IF r \notin lost THEN phase[r]
                                   ELSE IF phase[r] = "planning" THEN "waiting"
                                   ELSE "failed"]
       /\ UNCHANGED applied

Next == \/ \E r \in Runs : \/ Create(r) \/ Plan(r) \/ Planned(r) \/ Approve(r)
                           \/ Enact(r) \/ Close(r) \/ End(r) \/ Fail(r)
                           \/ Cancel(r) \/ Requeue(r)
        \/ Settle

Spec == Init /\ [][Next]_vars
=============================================================================
