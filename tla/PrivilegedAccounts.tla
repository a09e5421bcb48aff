--------------------------- MODULE PrivilegedAccounts ---------------------------
(***************************************************************************)
(* The privileged (PU) and test (TU) accounts of one person                *)
(* (services/privileged_accounts.py).  The person asks for one; it is made *)
(* at once, or, if the policy of its type names an approver, when somebody *)
(* decides.  It is an account like any other in the primary directory,     *)
(* named after the person, and a User row linked to theirs.  When the      *)
(* person leaves, the linked accounts are disabled.                        *)
(*                                                                         *)
(* A handler reads the request (or the account's row), calls the           *)
(* directory, and commits: phases create and save, reject, switch and      *)
(* record, leave and note.  The sync of the directory may list and store   *)
(* the account on its own account in between.                              *)
(***************************************************************************)
EXTENDS Directories, FiniteSets

CONSTANTS
    Types,       \* account types
    Requests,    \* bound: requests made
    Callers,     \* API requests in flight; neither Sync nor Leaver
    MaxEdits,    \* bound: edits of policies and accounts switched by hand
    MaxInFlight, \* bound: handlers under way at once (1 = serialised)
    FaultLimit   \* FaultLimit[f]: bound on how often fault f happens

Sync   == "directory-sync"
Leaver == "leaver-process"
Procs  == Callers \cup {Sync, Leaver}
Faults == {"refused", "lost", "crash"}

VARIABLES
    kind,     \* the type of the primary directory; fixed
    policy,   \* types whose policy names an approver
    request,  \* request[r]: the PrivilegedAccountRequest row
    account,  \* account[t]: the account of type t in the directory
    row,      \* row[t]: its User row
    left,     \* whether the person's leaver process has run: "no", "running" or "done"
    op, edits, faults,
    agreed,   \* history: types somebody agreed to, or whose policy asked for nobody
    since     \* history: accounts made, or switched on by hand, once the person was leaving

vars == <<kind, policy, request, account, row, left, op, edits, faults, agreed, since>>

Statuses == {"PENDING_APPROVAL", "PROVISIONED", "FAILED", "REJECTED"}
Request  == [status : Statuses, type : Types]
Absent   == [status |-> "NONE"]
UserRow  == [linked : BOOLEAN, status : {"ACTIVE", "DISABLED"}]
Idle     == [phase |-> "idle"]
Handler  == [phase : {"create", "save"}, request : Requests, type : Types, made : BOOLEAN]
            \cup [phase : {"reject"}, request : Requests]
            \cup [phase : {"switch", "record"}, type : Types, enabled : BOOLEAN, read : {"ACTIVE", "DISABLED"}]
            \cup [phase : {"leave"}, todo : SUBSET Types]
            \cup [phase : {"note"}, todo : SUBSET Types, type : Types]
            \cup [phase : {"sync"}, listed : [Types -> Accounts]]

Init ==
    /\ kind \in Kinds /\ policy \in SUBSET Types
    /\ request = [r \in Requests |-> Absent]
    /\ account = [t \in Types |-> "none"] /\ row = [t \in Types |-> Absent] /\ left = "no"
    /\ op = [p \in Procs |-> Idle] /\ edits = 0 /\ faults = [f \in Faults |-> 0]
    /\ agreed = {} /\ since = {}

Busy        == {p \in Procs : op[p] # Idle}
MayStart(p) == op[p] = Idle /\ Cardinality(Busy) < MaxInFlight
Start(p, o) == MayStart(p) /\ op' = [op EXCEPT ![p] = o]
Ends(p)     == op' = [op EXCEPT ![p] = Idle]
Edited      == edits < MaxEdits /\ edits' = edits + 1
Count(f)    == faults[f] < FaultLimit[f] /\ faults' = [faults EXCEPT ![f] = @ + 1]
Goes(f)     == IF f = "none" THEN UNCHANGED faults ELSE Count(f)
Later(t)    == IF left = "no" THEN since ELSE since \cup {t}

Pending(r)  == request[r].status = "PENDING_APPROVAL"
Linked(t)   == row[t] # Absent /\ row[t].linked
StatusOf(a) == IF a = "on" THEN "ACTIVE" ELSE "DISABLED"
Provision(r, t) == [phase |-> "create", request |-> r, type |-> t, made |-> FALSE]

(***************************************************************************)
(* update_policy, create_request, approve_request, reject_request.         *)
(***************************************************************************)
UpdatePolicy(t) ==
    /\ Edited /\ policy' = IF t \in policy THEN policy \ {t} ELSE policy \cup {t}
    /\ UNCHANGED <<kind, request, account, row, left, op, faults, agreed, since>>

AtOnce(t) == t \notin policy

\* Committed as PENDING_APPROVAL; with no approver, the account is made in the same call.
\* Whoever has left cannot sign in to ask.
CreateRequest(q, r) == \E t \in Types :
    /\ request[r] = Absent /\ left = "no" /\ MayStart(q)
    /\ request' = [request EXCEPT ![r] = [status |-> "PENDING_APPROVAL", type |-> t]]
    /\ op' = IF AtOnce(t) THEN [op EXCEPT ![q] = Provision(r, t)] ELSE op
    /\ agreed' = IF t \in policy THEN agreed ELSE agreed \cup {t}
    /\ UNCHANGED <<kind, policy, account, row, left, edits, faults, since>>

ApproveRequest(q, r) ==
    /\ Pending(r) /\ Start(q, Provision(r, request[r].type)) /\ agreed' = agreed \cup {request[r].type}
    /\ UNCHANGED <<kind, policy, request, account, row, left, edits, faults, since>>

StartReject(q, r) ==
    /\ Pending(r) /\ Start(q, [phase |-> "reject", request |-> r])
    /\ UNCHANGED <<kind, policy, request, account, row, left, edits, faults, agreed, since>>

RejectRequest(q) ==
    /\ op[q].phase = "reject"
    /\ request' = [request EXCEPT ![op[q].request].status = "REJECTED"] /\ Ends(q)
    /\ UNCHANGED <<kind, policy, account, row, left, edits, faults, agreed, since>>

(***************************************************************************)
(* _provision_pu_tu_account and _provision_and_finalize.  The account is   *)
(* made switched on.  An exception the connector does not expect ends the  *)
(* handler, and the request stays PENDING_APPROVAL.                        *)
(***************************************************************************)
CallCreate(q) == \E f \in FaultsOfACall :
    /\ op[q].phase = "create" /\ Goes(f)
    /\ LET t == op[q].type IN \E r \in CreateUser(kind, account[t], TRUE, f) :
         /\ account' = [account EXCEPT ![t] = r.account]
         /\ since' = IF r.account = account[t] THEN since ELSE Later(t)
         /\ op' = [op EXCEPT ![q] = IF r.answer = "raised" THEN Idle
                                    ELSE [@ EXCEPT !.phase = "save", !.made = r.answer = "ok"]]
    /\ UNCHANGED <<kind, policy, request, row, left, edits, agreed>>

\* upsert_user: the row the sync may have stored already is taken over.
TakesOver == [linked |-> TRUE, status |-> "ACTIVE"]
\* Mutant: an existing row is left as it is.
AsStored(t) == IF row[t] = Absent THEN TakesOver ELSE row[t]
Stored(t) == TakesOver

Save(q) ==
    /\ op[q].phase = "save"
    /\ LET o == op[q] IN
         /\ request' = [request EXCEPT ![o.request].status = IF o.made THEN "PROVISIONED" ELSE "FAILED"]
         /\ row' = IF o.made THEN [row EXCEPT ![o.type] = Stored(o.type)] ELSE row
    /\ Ends(q)
    /\ UNCHANGED <<kind, policy, account, left, edits, faults, agreed, since>>

(***************************************************************************)
(* set_account_enabled, of one account by hand, and of all when the person *)
(* leaves.  A commit writes the status only where it differs from what the *)
(* session read.                                                           *)
(***************************************************************************)
SetAccountEnabled(q, t) == \E enabled \in BOOLEAN :
    /\ Linked(t) /\ Edited
    /\ Start(q, [phase |-> "switch", type |-> t, enabled |-> enabled, read |-> row[t].status])
    /\ UNCHANGED <<kind, policy, request, account, row, left, faults, agreed, since>>

CallSwitch(q) == \E f \in FaultsOfACall :
    /\ op[q].phase = "switch" /\ Goes(f)
    /\ LET t == op[q].type on == op[q].enabled IN \E r \in SetUserEnabled(kind, account[t], on, f) :
         /\ account' = [account EXCEPT ![t] = r.account]
         /\ since' = IF on THEN Later(t) ELSE since
         /\ op' = [op EXCEPT ![q] = IF r.answer = "ok" THEN [@ EXCEPT !.phase = "record"] ELSE Idle]
    /\ UNCHANGED <<kind, policy, request, row, left, edits, agreed>>

Written(t, read, status) == IF status = read THEN row ELSE [row EXCEPT ![t].status = status]

Record(q) ==
    /\ op[q].phase = "record"
    /\ row' = Written(op[q].type, op[q].read, StatusOf(Switch(op[q].enabled))) /\ Ends(q)
    /\ UNCHANGED <<kind, policy, request, account, left, edits, faults, agreed, since>>

\* disable_linked_accounts_for_leaver: the accounts that were linked and not DISABLED when
\* they were listed; the failure of one does not keep the others from being disabled.
ToDisable == {t \in Types : Linked(t) /\ row[t].status # "DISABLED"}

StartLeaving ==
    /\ left # "done" /\ Start(Leaver, [phase |-> "leave", todo |-> ToDisable])
    /\ left' = "running"
    /\ UNCHANGED <<kind, policy, request, account, row, edits, faults, agreed, since>>

CallDisable == op[Leaver].phase = "leave" /\ \E t \in op[Leaver].todo, f \in FaultsOfACall :
    /\ Goes(f)
    /\ \E r \in SetUserEnabled(kind, account[t], FALSE, f) :
         /\ account' = [account EXCEPT ![t] = r.account]
         /\ op' = [op EXCEPT ![Leaver] = CASE r.answer = "ok"     -> [phase |-> "note", type |-> t, todo |-> @.todo \ {t}]
                                           [] r.answer = "raised" -> Idle
                                           [] OTHER               -> [phase |-> "leave", todo |-> @.todo \ {t}]]
    /\ UNCHANGED <<kind, policy, request, row, left, edits, agreed, since>>

NoteDisabled ==
    /\ op[Leaver].phase = "note"
    /\ row' = [row EXCEPT ![op[Leaver].type].status = "DISABLED"]
    /\ op' = [op EXCEPT ![Leaver] = [phase |-> "leave", todo |-> @.todo]]
    /\ UNCHANGED <<kind, policy, request, account, left, edits, faults, agreed, since>>

FinishLeaving ==
    /\ op[Leaver].phase = "leave" /\ op[Leaver].todo = {} /\ left' = "done" /\ Ends(Leaver)
    /\ UNCHANGED <<kind, policy, request, account, row, edits, faults, agreed, since>>

(***************************************************************************)
(* The sync of the primary directory: an account it does not know becomes  *)
(* a regular person's row, linked to nobody.                               *)
(***************************************************************************)
SyncRead ==
    /\ Start(Sync, [phase |-> "sync", listed |-> account])
    /\ UNCHANGED <<kind, policy, request, account, row, left, edits, faults, agreed, since>>

Upserted(t, a) == IF a = "none" THEN row[t]
                  ELSE IF row[t] = Absent THEN [linked |-> FALSE, status |-> StatusOf(a)]
                  ELSE [row[t] EXCEPT !.status = StatusOf(a)]

SyncSave ==
    /\ op[Sync].phase = "sync"
    /\ row' = [t \in Types |-> Upserted(t, op[Sync].listed[t])] /\ Ends(Sync)
    /\ UNCHANGED <<kind, policy, request, account, left, edits, faults, agreed, since>>

\* The process stops: a leaver process that was under way is not run to its end.
Crash == /\ Busy # {} /\ Count("crash") /\ op' = [p \in Procs |-> Idle]
         /\ UNCHANGED <<kind, policy, request, account, row, left, edits, agreed, since>>

Next == \/ \E t \in Types : UpdatePolicy(t)
        \/ \E q \in Callers, r \in Requests : CreateRequest(q, r) \/ ApproveRequest(q, r) \/ StartReject(q, r)
        \/ \E q \in Callers : RejectRequest(q) \/ CallCreate(q) \/ Save(q) \/ CallSwitch(q) \/ Record(q)
        \/ \E q \in Callers, t \in Types : SetAccountEnabled(q, t)
        \/ StartLeaving \/ CallDisable \/ NoteDisabled \/ FinishLeaving
        \/ SyncRead \/ SyncSave \/ Crash

Spec == Init /\ [][Next]_vars

(***************************************************************************)
(* Properties.                                                             *)
(***************************************************************************)
\* The rows, accounts and handlers are of the shapes the code gives them (models.py).
TypeOK ==
    /\ kind \in Kinds /\ policy \subseteq Types /\ request \in [Requests -> Request \cup {Absent}]
    /\ account \in [Types -> Accounts] /\ row \in [Types -> UserRow \cup {Absent}]
    /\ left \in {"no", "running", "done"} /\ op \in [Procs -> Handler \cup {Idle}]
    /\ agreed \subseteq Types /\ since \subseteq Types

\* There is no privileged account, nor a row linked as one, of a type nobody agreed to -- or
\* whose policy asked for nobody when it was requested --, and what a request says was
\* provisioned is linked to the person, so that it is disabled when they leave: however
\* decisions, retries, the sync and its rows interleave, answers are lost or the process stops.
MadeAsAgreed ==
    /\ \A t \in Types : (account[t] # "none" \/ Linked(t)) => t \in agreed
    /\ \A r \in Requests : request[r].status = "PROVISIONED" => Linked(request[r].type)

Quiet == Busy = {}
Told  == faults["lost"] = 0 /\ faults["crash"] = 0

\* One decision after the other: each account has exactly the one request that made it, and
\* its row says how it is; a request that was rejected or failed made nothing.
OneRequestEach == Told /\ Quiet => \A t \in Types :
    /\ Cardinality({r \in Requests : request[r] = [status |-> "PROVISIONED", type |-> t]})
         = IF account[t] = "none" THEN 0 ELSE 1
    /\ account[t] # "none" => Linked(t) /\ row[t].status = StatusOf(account[t])

\* A person's privileged accounts do not survive their departure, unless the directory
\* refused to disable them or somebody made or enabled them afterwards.
NoneSurvive == Told /\ faults["refused"] = 0 /\ left = "done" =>
    \A t \in Types : account[t] = "on" => t \in since
=============================================================================
