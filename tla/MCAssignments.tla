--------------------------- MODULE MCAssignments ---------------------------
(***************************************************************************)
(* Instances of Assignments for TLC.  "staff" is a group whose mapping     *)
(* grants the application role "payroll"; "payroll" and "audit" are the    *)
(* two sides of an SoD policy.                                             *)
(***************************************************************************)
EXTENDS Assignments, TLC

AllTargets == {"staff", "payroll", "audit"}
StaffGroup == {"staff"}
StaffGrantsPayroll == [g \in StaffGroup |-> {"payroll"}]
PayrollAgainstAudit == {<<"payroll", "audit">>, <<"audit", "payroll">>}

\* An AssignmentCreate body: an eligibility nobody needs to approve, unless changed.
Body(t) == [target |-> t, kind |-> "PERMANENT", approval |-> FALSE, start |-> NoTime,
            exp |-> NoTime, bypass |-> FALSE, override |-> FALSE]

Eligible(t)      == Body(t)
Approvable(t)    == [Body(t) EXCEPT !.approval = TRUE]
Bypass(t)        == [Body(t) EXCEPT !.bypass = TRUE]
Override(t)      == [Body(t) EXCEPT !.bypass = TRUE, !.override = TRUE]
Until(t, e)      == [Body(t) EXCEPT !.kind = "TEMPORARY", !.exp = e]
ApprovedUntil(t, e) == [Until(t, e) EXCEPT !.approval = TRUE]
BypassUntil(t, e) == [Until(t, e) EXCEPT !.bypass = TRUE]
Scheduled(t, s)  == [Bypass(t) EXCEPT !.start = s]

\* Two handlers at once on one target.
PayrollBodies == {Approvable("payroll"), BypassUntil("payroll", 1)}

\* One at a time: every kind of body, those that cascade, and those of the sweeps.
MixedBodies == {Eligible("staff"), Approvable("payroll"), Override("audit"),
                Scheduled("audit", 1), BypassUntil("staff", 1)}
GroupBodies == {Eligible("staff"), Override("audit")}
TimedBodies == {ApprovedUntil("staff", 1), Scheduled("audit", 1), BypassUntil("payroll", 1)}
=============================================================================
