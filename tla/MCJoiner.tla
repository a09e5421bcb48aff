------------------------------ MODULE MCJoiner ------------------------------
(***************************************************************************)
(* Instances of Joiner, with Entra and Active Directory, and of            *)
(* PrivilegedAccounts, with one of them.  A behaviour has a subject, which *)
(* of the two it is about, and a width, the number of handlers it has      *)
(* under way at once: what is stated of width 1 holds when no two handlers *)
(* overlap.                                                                *)
(***************************************************************************)
EXTENDS Joiner, TLC

CONSTANTS Types, Asked, Callers

VARIABLES subject, width, kind, policy, request, shadow, row, left, task, changes, failures, agreed, since

EntraAndAD == <<"ENTRA", "ACTIVE_DIRECTORY">>
Limits  == [refused |-> 2, lost |-> 1, crash |-> 1]

Privileged == INSTANCE PrivilegedAccounts WITH
    Requests <- Asked,
    account <- shadow, op <- task, edits <- changes, faults <- failures

others == <<kind, policy, request, shadow, row, left, task, changes, failures, agreed, since>>

\* The other subject is in one initial state.
WideInit == /\ Init /\ Privileged!Init /\ width \in 1..MaxInFlight /\ kind \in {"ENTRA", "ACTIVE_DIRECTORY"}
            /\ \/ subject = "joiner" /\ kind = "ENTRA" /\ policy = {}
               \/ /\ subject = "privileged" /\ settings = [delay |-> 0, retry |-> FALSE]
                  /\ width = 2 => policy \subseteq {"PU"}

\* Two faults or edits at most, whichever they are, and one when two handlers overlap.
Few(count, edited) == count["refused"] + count["lost"] + count["crash"] + edited <= 3 - width
JoinerNext == Next /\ Cardinality(Busy') <= width /\ Few(faults, edits)'
\* Requests are made in order, the first for a PU account, all of them when two handlers
\* overlap; one caller is enough when they do not.
InOrder == \A r \in Asked : request[r] # Privileged!Absent =>
               /\ request[1] # Privileged!Absent
               /\ r = 1 \/ width = 2 => request[r].type = "PU"
PrivilegedNext ==
    /\ Privileged!Next /\ Cardinality(Privileged!Busy') <= width /\ Few(failures, changes)' /\ InOrder'
    /\ IF width = 1 THEN task'["q2"] = Privileged!Idle
       ELSE policy' \subseteq {"PU"}

WideNext ==
    /\ UNCHANGED <<subject, width>>
    /\ \/ subject = "joiner" /\ JoinerNext /\ UNCHANGED others
       \/ subject = "privileged" /\ PrivilegedNext /\ UNCHANGED vars
WideSpec == /\ WideInit /\ [][WideNext]_<<vars, others, subject, width>>
            /\ WF_vars((\E p \in Procs : Continue(p)) /\ subject = "joiner" /\ UNCHANGED <<others, subject, width>>)
            /\ SF_vars(Sweeps /\ subject = "joiner" /\ UNCHANGED <<others, subject, width>> /\ Cardinality(Busy') <= width)

Alone == width = 1

\* Rows keep their shape; one handler at a time: the targets say how the accounts are, a
\* cancelled joiner's stay off, and there is one User row (Joiner!TypeOK, AccountsMatch,
\* CancelledStaysOff, OnePerson).
AloneAccountsMatch == TypeOK /\ (Alone => AccountsMatch /\ CancelledStaysOff /\ OnePerson)

\* A due joiner does not stay waiting, and, one handler at a time, what failed is retried
\* until it works (Joiner!JoinerStarts, RetriesConverge).
JoinersGoOn == JoinerStarts /\ (Alone => RetriesConverge)

\* Privileged accounts are made as agreed and linked, whatever interleaves; one handler at a
\* time, each has the one request that made it and none survives its person's departure
\* (PrivilegedAccounts!MadeAsAgreed, OneRequestEach, NoneSurvive).
PrivilegedSound == /\ Privileged!TypeOK /\ Privileged!MadeAsAgreed
                   /\ Alone => Privileged!OneRequestEach /\ Privileged!NoneSurvive
=============================================================================
