------------------------------ MODULE MCIntake ------------------------------
(***************************************************************************)
(* Instances of Intake for TLC.  A behaviour has a breadth, the number of  *)
(* imports it commits at once.  Its names differ from those of MCJoiner,   *)
(* the other way in, so that one module can be about both.                 *)
(***************************************************************************)
EXTENDS Naturals, FiniteSets

CONSTANTS People, Departments, Admins, Importer, MaxUploads, MostEdits, MostInFlight, LimitOn

VARIABLES feed, held, rejects, second, person, stray, access, uploads, import, touched, broken, breadth

Intake == INSTANCE Intake WITH
    Worker <- Importer, MaxEdits <- MostEdits, MaxInFlight <- MostInFlight, FaultLimit <- LimitOn,
    account <- held, op <- import, edits <- touched, faults <- broken

ASSUME ImportAssumption ==
    Importer \notin Admins /\ {MaxUploads, MostEdits, MostInFlight} \subseteq Nat /\ LimitOn \in [Intake!Faults -> Nat]

OneOfEach == [lookup |-> 1, refused |-> 1, lost |-> 1, crash |-> 1]

ImportsInit == Intake!Init /\ breadth \in 1..MostInFlight
\* At breadth 1 nothing else happens while an import is committed; faults share the bound on
\* edits.
ImportsNext == /\ Intake!Next /\ UNCHANGED breadth /\ Cardinality(Intake!Busy') <= breadth
               /\ (breadth = 1 /\ Intake!Busy # {} => import' # import)
               /\ (touched + broken["lookup"] + broken["refused"] + broken["lost"] + broken["crash"] <= MostEdits + 1 - breadth)'
ImportsSpec == ImportsInit /\ [][ImportsNext]_<<Intake!vars, breadth>> /\ Intake!Fairness

\* Rows keep their shape; one import at a time and no crash: access follows the department
\* (Intake!TypeOK, AccessFollows).
AloneAccessFollows == Intake!TypeOK /\ (breadth = 1 /\ broken["crash"] = 0 => Intake!AccessFollows)

\* What HR says is applied, and whoever HR has terminated loses their access, as long as no row
\* is blocked (Intake!HrIsApplied, LeaversLose).
HrIsApplied == Intake!HrIsApplied
LeaversLose == Intake!LeaversLose

\* A row that says TERMINATED makes nobody active (Intake!TerminatedDisables).
TerminatedDisables == Intake!TerminatedDisables
=============================================================================
