----------------------------- MODULE MCBundles -----------------------------
(***************************************************************************)
(* Instances of Bundles for TLC.  A behaviour has a width: the number of   *)
(* handlers it has under way at once.                                      *)
(***************************************************************************)
EXTENDS Bundles

VARIABLE width

Limits == [refused |-> 1, crash |-> 1]

WideInit == Init /\ width \in 1..MaxInFlight
\* At width 1 nothing else happens while a handler runs.
PacedNext == /\ Next /\ UNCHANGED width /\ Cardinality(Busy') <= width
             /\ (width = 1 /\ Busy # {} => UNCHANGED edits /\ (rows' = rows \/ op' # op))
PacedSpec == WideInit /\ [][PacedNext]_<<vars, width>>

\* Of edits and faults four at most, three when two handlers overlap.
WideNext == PacedNext /\ (edits + faults["refused"] + faults["crash"] <= 5 - width)'
WideSpec == WideInit /\ [][WideNext]_<<vars, width>>
Alone == width = 1

\* One role for an entitlement: always for application roles, one handler at a time for
\* groups and directory roles, whose NULL the constraint does not compare.
MappedOnce == OneRole(OfApps) /\ (Alone => OneRole(Items))

\* Rows keep their shape; one handler at a time and no crash between a row and its link:
\* packages have items, and nobody keeps access from a deleted one (Bundles!TypeOK,
\* PackagesHaveItems, NothingFromNowhere).
AlonePackagesSound ==
    TypeOK /\ (Alone /\ faults["crash"] = 0 => PackagesHaveItems /\ NothingFromNowhere(Packages))

Symmetric == Permutations(Roles) \cup Permutations(Admins)
=============================================================================
