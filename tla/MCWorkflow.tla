----------------------------- MODULE MCWorkflow -----------------------------
(***************************************************************************)
(* Instances of Workflow for TLC: two line approvers and an administrator. *)
(***************************************************************************)
EXTENDS Workflow

CONSTANTS ann, bob, adm

People  == {ann, bob, adm}
OneAdmin == {adm}

Stage(mode, approvers) == [mode |-> mode, approvers |-> approvers, fallback |-> {}, applies |-> TRUE]
Skipped(stage) == [stage EXCEPT !.applies = FALSE]
WithFallback(stage, fallback) == [stage EXCEPT !.fallback = fallback]

Both     == Stage("ALL_OF", {ann, bob})
Either   == Stage("ANY_OF", {ann, bob})
AnnFirst == WithFallback(Stage("ALL_OF", {ann}), {bob})

\* A committee then one approver; the same with the committee's stage conditioned away;
\* a single stage with a fallback approver.
SerialDefinitions == {<<Both, Skipped(AnnFirst), Either>>, <<Skipped(Both), AnnFirst>>, <<Skipped(Either)>>}
RaceDefinitions   == {<<AnnFirst, Either>>, <<Both, Skipped(Either)>>}

(***************************************************************************)
(* A behaviour has a width, the number of requests under way at once.      *)
(***************************************************************************)
VARIABLE width

Races == INSTANCE Workflow WITH Definitions <- RaceDefinitions, MaxEdits <- 1, MaxInFlight <- 2

WideInit == \/ width = 1 /\ Init
            \/ width = 2 /\ Races!Init
WideNext == /\ UNCHANGED width
            /\ \/ width = 1 /\ Next
               \/ width = 2 /\ Races!Next
WideSpec == WideInit /\ [][WideNext]_<<vars, width>>

\* One request at a time: rows keep their shape, the instance and its stages agree, and no
\* stage waits with its quorum already met (Workflow!TypeOK, StagesAgree, NoStuckStage).
AloneStagesAgree == width = 1 => TypeOK /\ StagesAgree /\ NoStuckStage

\* One request at a time: what was decided is what happens to the subject
\* (Workflow!SubjectFollows).
AloneSubjectFollows == width = 1 => SubjectFollows
=============================================================================
