------------------------------ MODULE MCLeaver ------------------------------
(***************************************************************************)
(* Instances of Leaver for TLC: a person with accounts in two directories. *)
(***************************************************************************)
EXTENDS Leaver, TLC

Full    == [revoke |-> TRUE, groups |-> TRUE, linked |-> TRUE, disable |-> TRUE, delete |-> TRUE]
Default == [Full EXCEPT !.groups = FALSE, !.delete = FALSE]

OnePolicy   == {Full}
TwoPolicies == {Full, Default}

(***************************************************************************)
(* A behaviour has a width, the number of handlers under way at once.      *)
(***************************************************************************)
VARIABLE width

Races == INSTANCE Leaver WITH MaxInFlight <- 2, Faults <- {"refused", "lost", "crash"},
                              Ops <- {"scheduled", "sync", "start", "approve", "deletion"}

WideInit == Init /\ width \in {1, 2}
WideNext == /\ UNCHANGED width
            /\ \/ width = 1 /\ Next
               \/ width = 2 /\ Races!Next
WideSpec == WideInit /\ [][WideNext]_<<vars, width>> /\ Fairness

\* One handler at a time: who loses accounts, who is deleted, and that it comes to that
\* (Leaver!OnlyLeaversLose, OnlyLeftAreDeleted, LeaverRuns, DeletionCompletes).
AloneOnlyLeaversLose   == [][width = 1 => OnlyLeaversLose /\ OnlyLeftAreDeleted]_vars
AloneLeaverRuns        == width = 1 => LeaverRuns
AloneDeletionCompletes == width = 1 => DeletionCompletes
=============================================================================
