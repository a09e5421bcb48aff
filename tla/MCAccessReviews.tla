-------------------------- MODULE MCAccessReviews --------------------------
(***************************************************************************)
(* Instances of AccessReviews for TLC: one review of two grants, followed  *)
(* by its recurrences.                                                     *)
(***************************************************************************)
EXTENDS AccessReviews, TLC

Plain     == [routed |-> FALSE, keep |-> FALSE, freq |-> FALSE, scheduled |-> FALSE]
Keep      == [Plain EXCEPT !.keep = TRUE]
Monthly   == [Plain EXCEPT !.scheduled = TRUE]
Recurring == [Plain EXCEPT !.freq = TRUE]
Routed    == [Recurring EXCEPT !.routed = TRUE]

\* One session at a time: recurring reviews that a workflow or a reviewer decides, and a
\* scheduled one (that may be edited to recur instead).
MixedBodies == {Routed, Recurring, Monthly}
\* Two at once: a review that a workflow decides, one that keeps what nobody objected to, and
\* a recurring one.
RaceBodies  == {[Routed EXCEPT !.freq = FALSE], Keep, Recurring}

(***************************************************************************)
(* A behaviour has a width, the number of sessions under way at once.  Of  *)
(* a recurring review only one request and the worker race.                *)
(***************************************************************************)
CONSTANTS c1, c2, c3, q1, q2

VARIABLE width

ThreeCampaigns == {c1, c2, c3}
TwoRequests    == {q1, q2}

Races == INSTANCE AccessReviews WITH MaxInFlight <- 2, Bodies <- RaceBodies, Engine <- {"ELIGIBLE", "REVOKED"},
                                     Edits <- {}, Faults <- {"crash"}, MaxCampaigns <- 2

WideInit == Init /\ width \in {1, 2}
WideNext == /\ UNCHANGED width
            /\ \/ width = 1 /\ Next /\ op'[q2] = Idle
               \/ width = 2 /\ Races!Next /\ ((\E c \in Campaigns : Present(c) /\ campaigns[c].freq) => op'[q2] = Idle)
WideSpec == WideInit /\ [][WideNext]_<<vars, width>> /\ Fairness

\* As long as the provider refuses nothing, what is recorded as revoked is
\* (AccessReviews!RevocationsReal).
UnrefusedRevocationsReal == width = 2 \/ faults = 0 => RevocationsReal

\* Rows keep their shape; one session at a time: a recurring review goes on, one campaign after
\* the other, unless a workflow decides it (AccessReviews!TypeOK, NeverTwoOpen,
\* RecurrenceContinues).
AloneRecurs == TypeOK /\ (width = 1 => NeverTwoOpen /\ RecurrenceContinues)

\* One session at a time: a review past its deadline is closed (AccessReviews!OverdueCloses).
AloneOverdueCloses == width = 1 => OverdueCloses
=============================================================================
