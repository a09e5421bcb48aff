------------------------------- MODULE MCNhi -------------------------------
(***************************************************************************)
(* Instances of Nhi for TLC.  A behaviour has a breadth, the number of     *)
(* handlers it has under way at once, and a subject: what is edited in it. *)
(* Its names differ from those of MCSodGovernance, so that one module can  *)
(* be about both.                                                          *)
(***************************************************************************)
EXTENDS Naturals, FiniteSets

CONSTANTS Apps, People, Governors, Syncer, Tastes, MaxCampaigns, MostEdits, MostInFlight, LimitOn

VARIABLES there, row, owners, accepted, telling, told, campaigns, work, touched, broken, breadth, subject

Nhi == INSTANCE Nhi WITH
    Admins <- Governors, Worker <- Syncer, Settings <- Tastes,
    MaxEdits <- MostEdits, MaxInFlight <- MostInFlight, FaultLimit <- LimitOn,
    settings <- telling, notes <- told, op <- work, edits <- touched, faults <- broken

ASSUME NhiAssumption ==
    /\ Syncer \notin Governors /\ Tastes \subseteq SUBSET Nhi!Risks
    /\ {MaxCampaigns, MostEdits, MostInFlight} \subseteq Nat /\ LimitOn \in [Nhi!Faults -> Nat]

OneOfEach == [lost |-> 1, crash |-> 1]
AllOrOwned == {{"NO_OWNER", "EXPIRING", "EXPIRED"}, {"EXPIRING", "EXPIRED"}}

\* Identities that exist, and those of them that are known.
Starts(known, exist) ==
    /\ there = [a \in Apps |-> IF a \in exist THEN [status |-> "ACTIVE", credential |-> "far"] ELSE Nhi!None]
    /\ row = [a \in Apps |-> IF a \in known THEN Nhi!Upserted(Nhi!None, there[a]) ELSE Nhi!None]
    /\ owners = Nhi!Known \X People /\ accepted = {} /\ told = [k \in Nhi!Keys |-> 0] /\ campaigns = <<>>
    /\ work = [q \in Nhi!Procs |-> Nhi!Idle] /\ touched = 0 /\ broken = [f \in Nhi!Faults |-> 0]

\* At breadth 1 nothing else happens while a handler runs.
PacedNhi == /\ Nhi!Next /\ UNCHANGED breadth /\ Cardinality(Nhi!Busy') <= breadth
            /\ (breadth = 1 /\ Nhi!Busy # {} => work' # work)
PacedNhiSpec == /\ \E exist \in SUBSET Apps : \E known \in SUBSET exist : Starts(known, exist)
                /\ telling \in SUBSET Nhi!Risks /\ breadth \in 1..MostInFlight
                /\ [][PacedNhi]_<<Nhi!vars, breadth>>

\* One identity is known, the other at most at the provider; for reviews, which are only
\* right one handler at a time, both are known.
NhiInit == /\ subject \in {"risks", "reviews"} /\ telling = Nhi!Risks
           /\ breadth \in 1..(IF subject = "risks" THEN MostInFlight ELSE 1)
           /\ \E known \in IF subject = "risks" THEN {{CHOOSE a \in Apps : TRUE}} ELSE {Apps} :
                 \E exist \in {known, Apps} : Starts(known, exist)
\* At breadth 2 nobody accepts risks or looks at notifications.
NhiNext == /\ PacedNhi /\ UNCHANGED subject
           /\ (breadth = 2 => UNCHANGED Nhi!risks /\ \A q \in Governors : work'[q].kind # "look")
           /\ IF subject = "risks" THEN UNCHANGED campaigns ELSE UNCHANGED <<Nhi!identities, Nhi!risks>> /\ work'[Syncer] = Nhi!Idle
           /\ (touched + broken["lost"] + broken["crash"] <= 5 - breadth)'
NhiSpec == NhiInit /\ [][NhiNext]_<<Nhi!vars, breadth, subject>> /\ Nhi!Fairness

\* Rows keep their shape; one handler at a time and no crash: campaigns close and recur
\* (Nhi!TypeOK, CampaignsClose, OneSuccessor).
AloneReviewsGoOn == Nhi!TypeOK /\ (breadth = 1 /\ broken["crash"] = 0 => Nhi!CampaignsClose /\ Nhi!OneSuccessor)

\* One handler at a time: those who look are told (Nhi!Noted).
AloneRisksNoted == breadth = 1 => Nhi!Noted

\* One handler at a time: a leaver is asked about nothing (Nhi!LeaverNotAsked).
AloneLeaversLeaveNothing == [][breadth = 1 => Nhi!LeaverNotAsked]_(Nhi!vars)

\* What handlers left undone the sync puts right (Nhi!RowsCatchUp).
RowsCatchUp == Nhi!RowsCatchUp
=============================================================================
