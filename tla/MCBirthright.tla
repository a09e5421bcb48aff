---------------------------- MODULE MCBirthright ----------------------------
(***************************************************************************)
(* Instances of Birthright for TLC: two departments, each with a policy;   *)
(* both give the same target, one also the package, the other the role.  A *)
(* behaviour has a width: the number of handlers it has under way at once. *)
(***************************************************************************)
EXTENDS Birthright, TLC

CONSTANTS p1, p2, t1, t2, g, d1, d2

VARIABLE width

Is(d)    == [negated |-> FALSE, value |-> d]
IsNot(d) == [negated |-> TRUE, value |-> d]
SomeRules == {Is(d1), IsNot(d1)}
First    == [p \in {p1, p2} |-> IF p = p1 THEN Is(d1) ELSE IsNot(d1)]
Plain    == [p \in {p1, p2} |-> {t1}]
Items    == {{t2}, {t1, t2}}
Limits   == [refused |-> 1, crash |-> 1]

WideInit == Init /\ width \in 1..MaxInFlight
\* Edits, moves and faults: three at most, and two when two handlers overlap.
Few == edits + Len(moves) + faults["refused"] + faults["crash"] <= 4 - width
\* Of the two policies p1 is edited, p2 is deleted at most.
OneEdited == policy[p2] \in {Absent, [status |-> "ACTIVE", rule |-> First[p2], sticky |-> FALSE]}
WideNext == /\ Next /\ UNCHANGED width /\ Cardinality(Busy') <= width /\ Few' /\ OneEdited'
            /\ (width = 1 /\ Busy # {} /\ Busy' # {} => edits' = edits /\ moves' = moves)
WideSpec == /\ WideInit /\ [][WideNext]_<<vars, width>>
            /\ WF_vars((\E q \in Procs : Continue(q)) /\ UNCHANGED width)
            /\ SF_vars(ApplyMove /\ UNCHANGED width /\ Cardinality(Busy') <= width)
Alone == width = 1

\* One handler at a time: access follows the rules (Birthright!Reconciled).
AloneReconciled == Alone => Reconciled

\* Rows keep their shape; one handler at a time: no access without its row, and one row for
\* a target (Birthright!TypeOK, AccessBacked, OneGrant).
AloneAccessBacked == TypeOK /\ (Alone => AccessBacked /\ OneGrant)

\* One handler at a time: what is APPLIED is reconciled (Birthright!AppliedIsReconciled).
AloneAppliedIsReconciled == [][Alone => MovesReconciled]_vars
=============================================================================
