---------------------------- MODULE MCRunDispatch ----------------------------
(* Small instances of RunDispatch for TLC. *)
EXTENDS RunDispatch, TLC

CONSTANTS r1, r2, n1, n2, w1

OneWorkspace == [r \in Runs |-> w1]
PlainRuns    == {PlainKind}
AutoRuns     == {PlainKind, [PlainKind EXCEPT !.auto = TRUE]}
OwnRuns      == AutoRuns \cup {[PlainKind EXCEPT !.op = "plan_only"]}
DestroyRuns  == AutoRuns \cup {[PlainKind EXCEPT !.op = "destroy"]}
AllRuns      == OwnRuns \cup
    {[PlainKind EXCEPT !.auto = TRUE, !.stages = {"post_plan", "post_apply"}],
     [PlainKind EXCEPT !.stages = {"pre_plan", "post_plan", "pre_apply",
                                   "post_apply"}]}
=============================================================================
