------------------------------- MODULE Intake -------------------------------
(***************************************************************************)
(* Employees brought in from files: the sync with the HR application       *)
(* (services/hr_integration.py) and uploads by hand go through the same    *)
(* import (services/onboarding.py), which is validated against the         *)
(* identities, later committed row by row, and finds or creates accounts   *)
(* (services/provisioning.py).  Beside it runs the sync with the directory.*)
(*                                                                         *)
(* A row is committed in steps, between which the process may stop:        *)
(*   row     disable the person, or ask the provider for an account        *)
(*   save    the identity                                                  *)
(*   access  a second account, then birthright access                      *)
(*   leave   after a disable: the leaver process                           *)
(* Attributes are one department; birthright access is a set of them, that *)
(* of the policies that granted it (see Birthright, Leaver).  Rows with a  *)
(* future effective date (see Birthright) and leaver dates (see Leaver)    *)
(* are left out, and so is the settings row: the HR sync is on.            *)
(***************************************************************************)
EXTENDS Naturals, FiniteSets, Sequences, SequencesExt

CONSTANTS
    People, Departments,
    Admins, Worker,
    MaxUploads, MaxEdits, MaxInFlight,   \* bounds
    FaultLimit                           \* FaultLimit[f]: bound on how often fault f happens

Procs  == Admins \cup {Worker}
Faults == {"lookup", "refused", "lost", "crash"}

VARIABLES
    feed,       \* feed[p]: the row of p in the HR application, or None
    account,    \* account[p]: in the primary directory, or None
    rejects,    \* people whose new account it rejects, say for an unverified domain
    second,     \* second[p]: the account in a second directory: "none", "there", or "linked"
    person,     \* person[p]: the row with the employee id of p, or None
    stray,      \* stray[p]: a row of the same account without one: "none", "bare", or "referenced" by others
    access,     \* access[p]: departments whose birthright access p has
    uploads,    \* onboarding_imports uploaded by hand
    op,         \* op[q]: the import q commits
    edits, faults

outside == <<feed, account, rejects>>
vars    == <<outside, second, person, stray, access, uploads, op, edits, faults>>

None    == [status |-> "NONE"]
Row     == [status : {"ACTIVE", "TERMINATED"}, dept : Departments]
Account == [status : {"ACTIVE", "DISABLED"}, dept : Departments]
\* real: not under the bookkeeping provider of imports.
Person  == [status : {"ACTIVE", "DISABLED"}, dept : Departments, real : BOOLEAN]
Idle    == [kind |-> "idle"]

Init == /\ feed = [p \in People |-> None] /\ account = [p \in People |-> None] /\ rejects \in SUBSET People
        /\ second = [p \in People |-> "none"] /\ person = [p \in People |-> None] /\ stray = [p \in People |-> "none"]
        /\ access = [p \in People |-> {}] /\ uploads = <<>>
        /\ op = [q \in Procs |-> Idle] /\ edits = 0 /\ faults = [f \in Faults |-> 0]

Busy        == {q \in Procs : op[q] # Idle}
MayStart(q) == op[q] = Idle /\ Cardinality(Busy) < MaxInFlight
Edited      == edits < MaxEdits /\ edits' = edits + 1
Count(f)    == faults[f] < FaultLimit[f] /\ faults' = [faults EXCEPT ![f] = @ + 1]
Ends(q)     == op' = [op EXCEPT ![q] = Idle]

(***************************************************************************)
(* The world outside.                                                      *)
(***************************************************************************)
HrEdits == \E p \in People, r \in Row : /\ Edited /\ r # feed[p] /\ feed' = [feed EXCEPT ![p] = r]
    /\ UNCHANGED <<account, rejects, second, person, stray, access, uploads, op, faults>>
AccountByHand == \E p \in People, d \in Departments :
    /\ Edited /\ account[p] = None /\ account' = [account EXCEPT ![p] = [status |-> "ACTIVE", dept |-> d]]
    /\ UNCHANGED <<feed, rejects, second, person, stray, access, uploads, op, faults>>
DomainVerified == \E p \in rejects : /\ Edited /\ rejects' = rejects \ {p}
    /\ UNCHANGED <<feed, account, second, person, stray, access, uploads, op, faults>>

(***************************************************************************)
(* The sync with the directory: rows take over what it says; accounts      *)
(* nobody is known for get rows of their own, which other rows may come to *)
(* refer to.                                                               *)
(***************************************************************************)
Synced(p) == IF person[p] # None /\ person[p].real
             THEN [person[p] EXCEPT !.status = account[p].status, !.dept = account[p].dept] ELSE person[p]
Reconciled(q) == IF q.status = "ACTIVE" THEN {q.dept} ELSE {}
SyncDirectory == \E used \in SUBSET {p \in People : account[p] # None} :
    /\ person' = [p \in People |-> Synced(p)]
    /\ access' = [p \in People |-> IF Synced(p) # person[p] THEN Reconciled(Synced(p)) ELSE access[p]]
    /\ stray' = [p \in People |-> IF account[p] = None \/ (person[p] # None /\ person[p].real) THEN stray[p]
                                  ELSE IF p \in used \/ stray[p] = "referenced" THEN "referenced" ELSE "bare"]
    /\ UNCHANGED <<outside, second, uploads, op, edits, faults>>

(***************************************************************************)
(* Imports: validated against the identities there are, committed later.   *)
(***************************************************************************)
\* CREATE, UPDATE and NO_CHANGE are committed alike: APPLY.
Planned(p) ==
    CASE feed[p] = None -> "ABSENT"
      [] feed[p].status = "TERMINATED" -> IF person[p] = None THEN "ERROR" ELSE IF person[p].status = "DISABLED" THEN "APPLY" ELSE "DISABLE"
      [] OTHER -> "APPLY"
Validated == [status |-> "VALIDATED", action |-> [p \in People |-> Planned(p)], row |-> feed]

Commits(q, file, i) == op' = [op EXCEPT ![q] = [kind |-> "row", file |-> file, from |-> i, todo |-> SetToSeq(People)]]

Upload == /\ Edited /\ Len(uploads) < MaxUploads /\ uploads' = Append(uploads, Validated)
          /\ UNCHANGED <<outside, second, person, stray, access, op, faults>>
CommitUpload(q) == \E i \in DOMAIN uploads :
    /\ MayStart(q) /\ uploads[i].status = "VALIDATED" /\ Commits(q, uploads[i], i)
    /\ UNCHANGED <<outside, second, person, stray, access, uploads, edits, faults>>
\* run_hr_sync commits what it has validated at once.
Poll == /\ MayStart(Worker) /\ Commits(Worker, Validated, 0)
        /\ UNCHANGED <<outside, second, person, stray, access, uploads, edits, faults>>

(***************************************************************************)
(* One row of an import.                                                   *)
(***************************************************************************)
Current(q) == Head(op[q].todo)
Action(q)  == op[q].file.action[Current(q)]
Goes(q, k) == op' = [op EXCEPT ![q].kind = k]
NextRow(q) == op' = [op EXCEPT ![q].kind = "row", ![q].todo = Tail(@)]
AtRow(q)   == op[q].kind = "row" /\ op[q].todo # <<>>
\* found: the provider has an account for p.
Asked(q, found) == op' = [op EXCEPT ![q] = [kind |-> "save", file |-> @.file, from |-> @.from, todo |-> @.todo, found |-> found]]

Skip(q) == /\ AtRow(q)
           /\ Action(q) \in {"ABSENT", "ERROR"} \/ (Action(q) = "DISABLE" /\ person[Current(q)] = None)
           /\ NextRow(q) /\ UNCHANGED <<outside, second, person, stray, access, uploads, edits, faults>>

Disable(q) == /\ AtRow(q) /\ Action(q) = "DISABLE" /\ person[Current(q)] # None
              /\ person' = [person EXCEPT ![Current(q)].status = "DISABLED"] /\ Goes(q, "leave")
              /\ UNCHANGED <<outside, second, stray, access, uploads, edits, faults>>

\* Mutant: the account alone is disabled.
AccountOnly(p) == access[p]
LeftWith(p)    == {}
Leave(q) == /\ op[q].kind = "leave" /\ NextRow(q)
            /\ LET p == Current(q) IN
               /\ access' = [access EXCEPT ![p] = LeftWith(p)]
               /\ account' = IF account[p] # None /\ person[p].real THEN [account EXCEPT ![p].status = "DISABLED"] ELSE account
            /\ UNCHANGED <<feed, rejects, second, person, stray, uploads, edits, faults>>

IsReal(p) == person[p] # None /\ person[p].real
\* provision_real_account: create, or on a conflict look up.  A creation that fails, or a lookup
\* that finds nothing, leaves the person without an account as far as the import can tell, also
\* when only the answer was lost; a lookup that fails is not caught and ends the commit.
Provision(q) ==
    /\ AtRow(q) /\ Action(q) = "APPLY"
    /\ LET p == Current(q)
           made == [account EXCEPT ![p] = [status |-> "ACTIVE", dept |-> op[q].file.row[p].dept]] IN
       \/ IsReal(p) /\ Asked(q, FALSE) /\ UNCHANGED <<account, faults>>
       \/ ~IsReal(p) /\ Count("refused") /\ Asked(q, FALSE) /\ UNCHANGED account
       \/ /\ ~IsReal(p) /\ account[p] # None /\ UNCHANGED account
          /\ (Asked(q, TRUE) /\ UNCHANGED faults) \/ (Count("lookup") /\ Ends(q))
       \/ /\ ~IsReal(p) /\ account[p] = None /\ p \in rejects
          /\ Asked(q, FALSE) /\ UNCHANGED <<account, faults>>
       \/ /\ ~IsReal(p) /\ account[p] = None /\ p \notin rejects /\ account' = made
          /\ (Asked(q, TRUE) /\ UNCHANGED faults) \/ (Count("lost") /\ Asked(q, FALSE))
    /\ UNCHANGED <<feed, rejects, second, person, stray, access, uploads, edits>>

\* A row found by the account of somebody with a row of their own, and referred to by
\* others, can neither get the employee id nor be deleted: the commit fails.
Blocked(p) == person[p] # None /\ ~person[p].real /\ stray[p] = "referenced"

\* Mutant: a person who is there already stays where they were.
SavedOnce(p, found, d) == IF person[p] = None THEN [status |-> "ACTIVE", dept |-> d, real |-> found] ELSE person[p]
\* _find_or_create_identity: an account found for a newcomer brings its own attributes.
Saved(p, found, d) == IF person[p] = None /\ found THEN [status |-> account[p].status, dept |-> account[p].dept, real |-> TRUE]
                      ELSE [status |-> "ACTIVE", dept |-> d, real |-> found \/ IsReal(p)]
Save(q) ==
    /\ op[q].kind = "save"
    /\ LET p == Current(q)
           now == Saved(p, op[q].found, op[q].file.row[p].dept)
       IN
       IF op[q].found /\ Blocked(p) THEN Ends(q) /\ UNCHANGED <<person, stray>>
       ELSE /\ person' = [person EXCEPT ![p] = now]
            /\ stray' = IF op[q].found THEN [stray EXCEPT ![p] = "none"] ELSE stray
            /\ op' = [op EXCEPT ![q] = [kind |-> "access", file |-> @.file, from |-> @.from, todo |-> @.todo,
                        moved |-> person[p] # None /\ (person[p].status # now.status \/ person[p].dept # now.dept)]]
    /\ UNCHANGED <<outside, second, access, uploads, edits, faults>>

\* The account in the second directory: made, refused, or made with its answer lost; one
\* that is there unlinked is a conflict for good.
Second(p) == IF ~IsReal(p) \/ second[p] # "none" THEN UNCHANGED <<second, faults>>
             ELSE \/ second' = [second EXCEPT ![p] = "linked"] /\ UNCHANGED faults
                  \/ Count("refused") /\ UNCHANGED second
                  \/ Count("lost") /\ second' = [second EXCEPT ![p] = "there"]

\* Mutant: granting what is due, revoking nothing.
Granted(p, moved) == access[p] \cup Reconciled(person[p])
\* A mover is reconciled, anybody else granted.
Due(p, moved) == IF moved THEN Reconciled(person[p]) ELSE access[p] \cup Reconciled(person[p])
GiveAccess(q) == /\ op[q].kind = "access" /\ Second(Current(q))
                 /\ access' = [access EXCEPT ![Current(q)] = Due(Current(q), op[q].moved)]
                 /\ op' = [op EXCEPT ![q] = [kind |-> "row", file |-> @.file, from |-> @.from, todo |-> Tail(@.todo)]]
                 /\ UNCHANGED <<outside, person, stray, uploads, edits>>

Finish(q) == /\ op[q].kind = "row" /\ op[q].todo = <<>> /\ Ends(q)
             /\ uploads' = IF op[q].from = 0 THEN uploads ELSE [uploads EXCEPT ![op[q].from].status = "COMMITTED"]
             /\ UNCHANGED <<outside, second, person, stray, access, edits, faults>>

Missing == {p \in People : IsReal(p) /\ person[p].status = "ACTIVE" /\ second[p] = "none"}
SweepSecond == /\ MayStart(Worker)
               /\ \E left \in SUBSET Missing : /\ IF left # {} THEN Count("refused") ELSE UNCHANGED faults
                                               /\ second' = [p \in People |-> IF p \in Missing \ left THEN "linked" ELSE second[p]]
               /\ UNCHANGED <<outside, person, stray, access, uploads, op, edits>>

Crash == /\ Busy # {} /\ Count("crash") /\ op' = [q \in Procs |-> Idle]
         /\ UNCHANGED <<outside, second, person, stray, access, uploads, edits>>

Continue(q) == Skip(q) \/ Disable(q) \/ Leave(q) \/ Provision(q) \/ Save(q) \/ GiveAccess(q) \/ Finish(q)

Next == \/ HrEdits \/ AccountByHand \/ DomainVerified
        \/ Upload \/ \E q \in Admins : CommitUpload(q)
        \/ Poll \/ SyncDirectory \/ SweepSecond
        \/ \E q \in Procs : Continue(q)
        \/ Crash

\* The worker polls, sweeps and syncs again and again, and every commit goes on.
Fairness == /\ SF_vars(Poll) /\ SF_vars(SyncDirectory) /\ SF_vars(SweepSecond)
            /\ \A q \in Procs : WF_vars(Continue(q))
Spec     == Init /\ [][Next]_vars
FairSpec == Spec /\ Fairness

(***************************************************************************)
(* Properties.                                                             *)
(***************************************************************************)
\* Rows, accounts and identities are of the shapes of models.py and of the providers.
TypeOK == /\ feed \in [People -> Row \cup {None}] /\ account \in [People -> Account \cup {None}]
          /\ person \in [People -> Person \cup {None}] /\ access \in [People -> SUBSET Departments]
          /\ \A p \in People : IsReal(p) => account[p] # None

\* Between imports people who are active have the birthright access of their department.
AccessFollows == Busy = {} => \A p \in People : person[p] # None /\ person[p].status = "ACTIVE" => access[p] = Reconciled(person[p])

\* As long as no row is blocked, what HR says of a person who works there is applied, and
\* whoever HR has terminated loses their access.
Unblocked    == \A p \in People : ~Blocked(p)
Applied(p)   == person[p] # None /\ person[p].status = "ACTIVE" /\ person[p].dept = feed[p].dept
HrIsApplied  == []Unblocked => \A p \in People, d \in Departments : LET r == [status |-> "ACTIVE", dept |-> d] IN
                  feed[p] = r ~> Applied(p) \/ feed[p] # r
Terminated(p) == feed[p] # None /\ feed[p].status = "TERMINATED" /\ person[p] # None
LeaversLose  == []Unblocked => \A p \in People : Terminated(p) ~> access[p] = {} \/ ~Terminated(p)

\* A row that says TERMINATED makes nobody active (src/App.tsx:6208).
SavesFrom(q, p)    == op[q].kind = "save" /\ op'[q] # op[q] /\ Current(q) = p
TerminatedDisables == [][\A p \in People, q \in Procs :
                            SavesFrom(q, p) /\ op[q].file.row[p].status = "TERMINATED" /\ person'[p] # person[p]
                            => person'[p].status = "DISABLED"]_vars
=============================================================================
