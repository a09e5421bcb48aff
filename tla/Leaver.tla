------------------------------- MODULE Leaver -------------------------------
(***************************************************************************)
(* One person who leaves: the leaver process (services/lifecycle.py), what *)
(* may follow it (services/leaver_followup.py: a manual start that waits   *)
(* for an approval, a return, the deletion of the accounts) and the        *)
(* switching of accounts in the directories (services/accounts.py).  The   *)
(* process is started by four callers: the worker when the leaver date has *)
(* come, an approved request, the sync that sees the person disabled, and  *)
(* a CSV import.                                                           *)
(*                                                                         *)
(* A handler keeps its session's copies of the rows it has read; a column  *)
(* is written when it differs from the copy.  Phases of a handler:         *)
(*                                                                         *)
(*   take     revoke access, leave groups, drop ownerships, one at a time  *)
(*   linked   disable the linked privileged and test accounts              *)
(*   accounts enable or disable the person's accounts                      *)
(*   record   settle the request that started the process                  *)
(*   apply    the sync, between its listing and its writes                 *)
(*   delete   delete the accounts          mark    label the person        *)
(***************************************************************************)
EXTENDS Integers, FiniteSets

CONSTANTS
    Accounts,    \* the person's IdentityAccount rows, one per directory
    Primary,     \* the one the User row mirrors
    Linked,      \* the person's privileged and test accounts
    Grants,      \* live assignments
    Groups,      \* memberships, also those AccessPilot did not grant
    Owned,       \* non-human identities owned
    Requests,    \* API requests in flight
    LeaverRows,  \* identities of LeaverRequest rows (a bound on their number)
    ReturnRows,  \* identities of ReenableRequest rows (likewise)
    Policies,    \* the leaver policies that may be in force
    Ops,         \* the handlers offered
    MaxEdits,    \* bound: changes made in a directory, dates set, CSV terminations
    MaxInFlight, \* bound: handlers under way at once (1 = serialised)
    Faults,      \* which faults happen: "refused", "lost", "crash"
    MaxFaults,   \* bound on how many of them happen
    NoRow, NoAccount

Worker == "access-review-worker"
Syncer == "sync"
Procs  == Requests \cup {Worker, Syncer}

Policy == [revoke : BOOLEAN, groups : BOOLEAN, linked : BOOLEAN, disable : BOOLEAN, delete : BOOLEAN]
Switchable == Accounts \cup Linked
Holdings   == Grants \cup Groups \cup Owned

ASSUME ConstantsAssumption ==
    /\ Primary \in Accounts /\ Accounts \cap Linked = {} /\ NoAccount \notin Switchable
    /\ NoRow \notin LeaverRows \cup ReturnRows /\ LeaverRows \cap ReturnRows = {}
    /\ Policies \subseteq Policy
    /\ {MaxEdits, MaxInFlight, MaxFaults} \subseteq Nat /\ IsFiniteSet(Requests)

(***************************************************************************)
(* State.  `left' is leaver_processed_at, `gone' accounts_deleted_at: only *)
(* whether they are set matters.  A date is none, ahead or due.  `by' is   *)
(* history: whether the account's last change was made in the directory    *)
(* itself, or was AccessPilot enabling it since the person last left.      *)
(***************************************************************************)
VARIABLES
    user,     \* the User row
    account,  \* status of each IdentityAccount (and of each linked User)
    dir,      \* what the directories say
    held,     \* what the person holds
    requests, \* LeaverRequest rows
    returns,  \* ReenableRequest rows
    op,       \* op[p]: the handler of p in flight
    by, edits, faults

vars == <<user, account, dir, held, requests, returns, op, by, edits, faults>>

Person  == [status : {"ACTIVE", "DISABLED", "DELETED"}, left : BOOLEAN, gone : BOOLEAN,
            date : {"none", "ahead", "due"}, deleteAt : {"none", "ahead", "due"}]
Status  == {"ACTIVE", "DISABLED", "DELETED"}
Unread  == "UNREAD"
Absent  == [status |-> "ABSENT"]
Idle    == [phase |-> "idle"]

Leaving == {"scheduled", "approve", "sync", "csv"}
Handler == [phase : {"take", "linked", "accounts", "record", "apply", "delete", "mark"},
            kind : Leaving \cup {"account", "person", "start", "deny", "return", "deletion"},
            row : LeaverRows \cup ReturnRows \cup {NoRow}, on : BOOLEAN,
            user : Person, accts : [Switchable -> Status \cup {Unread}],
            todo : SUBSET (Switchable \cup Holdings), cur : Switchable \cup {NoAccount},
            done : SUBSET Switchable, already : SUBSET Accounts, failed : SUBSET (Switchable \cup Holdings),
            skip : SUBSET Accounts, policy : Policy]

NoPolicy == [revoke |-> FALSE, groups |-> FALSE, linked |-> FALSE, disable |-> FALSE, delete |-> FALSE]

Init ==
    /\ user = [status |-> "ACTIVE", left |-> FALSE, gone |-> FALSE, date |-> "none", deleteAt |-> "none"]
    /\ account = [a \in Switchable |-> "ACTIVE"]
    /\ dir = account /\ held = Holdings
    /\ requests = [r \in LeaverRows |-> Absent] /\ returns = [r \in ReturnRows |-> Absent]
    /\ op = [p \in Procs |-> Idle]
    /\ by = [a \in Accounts |-> "nobody"] /\ edits = 0 /\ faults = 0

MayStart(p, name) == /\ name \in Ops /\ op[p] = Idle
                     /\ Cardinality({q \in Procs : op[q] # Idle}) < MaxInFlight
Fault(f) == f \in Faults /\ faults < MaxFaults /\ faults' = faults + 1
Edit     == edits < MaxEdits /\ edits' = edits + 1

NewOp(kind, on) == [phase |-> "accounts", kind |-> kind, row |-> NoRow, on |-> on, user |-> user,
                    accts |-> [a \in Switchable |-> Unread], todo |-> {}, cur |-> NoAccount,
                    done |-> {}, already |-> {}, failed |-> {}, skip |-> {}, policy |-> NoPolicy]

Waiting(rows, r) == rows[r].status = "PENDING"
LeaverPending == \E r \in LeaverRows : Waiting(requests, r)
ReturnPending == \E r \in ReturnRows : Waiting(returns, r)
PostLeaver    == user.left /\ user.status \in {"DISABLED", "DELETED"}
MayEnable     == ~LeaverPending /\ ~PostLeaver

\* The columns in which `new' differs from the session's copy are written over `row'.
Flush(copy, new, row) == [c \in DOMAIN row |-> IF new[c] = copy[c] THEN row[c] ELSE new[c]]

(***************************************************************************)
(* Listing the accounts: the primary row is first brought in step with the *)
(* User row, then each account whose status is not the wanted one is due   *)
(* for a call -- each of them, when the caller forces it.                  *)
(***************************************************************************)
Load(o, S) == [o EXCEPT !.accts = [a \in Switchable |->
                  IF a \in S /\ o.accts[a] = Unread THEN account[a] ELSE o.accts[a]]]

Mirrored(o) == IF Load(o, Accounts).accts[Primary] = "DELETED" THEN "DELETED"
               ELSE IF o.user.status = "DISABLED" THEN "DISABLED" ELSE "ACTIVE"

EnsurePrimary(o) == account' = IF Load(o, Accounts).accts[Primary] = Mirrored(o) THEN account
                               ELSE [account EXCEPT ![Primary] = Mirrored(o)]

Target(o) == IF o.on THEN "ACTIVE" ELSE "DISABLED"
\* Mutant: the leaver process trusts AccessPilot's own statuses.
ForcedReturn(o) == o.kind = "return"

Forced(o) == o.kind \in Leaving \cup {"return"}

\* set_person_enabled up to its first call.
Listed(o) ==
    LET l == [Load(o, Accounts) EXCEPT !.accts[Primary] = Mirrored(o), !.phase = "accounts"]
        S == {a \in Accounts \ o.skip : Forced(o) \/ l.accts[a] # Target(o)}
    IN  [l EXCEPT !.todo = S, !.already = (Accounts \ o.skip) \ S]

(***************************************************************************)
(* Switching one account: the call, then the rows.  The primary account's  *)
(* status is also the person's.  A deleted account cannot be switched.     *)
(***************************************************************************)
Turned(a, on) == [b \in Accounts |-> IF b # a THEN by[b] ELSE IF on THEN "accesspilot" ELSE "nobody"]

CallDirectory(p) == \E a \in op[p].todo :
    /\ op[p].phase \in {"linked", "accounts"} /\ op[p].cur = NoAccount
    /\ dir[a] # "DELETED"
    /\ dir' = [dir EXCEPT ![a] = Target(op[p])] /\ by' = Turned(a, op[p].on)
    /\ op' = [op EXCEPT ![p] = [Load(op[p], {a}) EXCEPT !.cur = a, !.todo = @ \ {a}]]
    /\ UNCHANGED <<user, account, held, requests, returns, edits, faults>>

\* The directory answers with an error, or with nothing in time (what it did then stays done).
CallFails(p) == \E a \in op[p].todo :
    /\ op[p].phase \in {"linked", "accounts"} /\ op[p].cur = NoAccount
    /\ \/ /\ dir[a] = "DELETED" /\ UNCHANGED <<dir, by, faults>>
       \/ /\ dir[a] # "DELETED" /\ Fault("refused") /\ UNCHANGED <<dir, by>>
       \/ /\ dir[a] # "DELETED" /\ Fault("lost")
          /\ dir' = [dir EXCEPT ![a] = Target(op[p])] /\ by' = Turned(a, op[p].on)
    /\ op' = [op EXCEPT ![p] = [Load(op[p], {a}) EXCEPT !.failed = @ \cup {a}, !.todo = @ \ {a}]]
    /\ UNCHANGED <<user, account, held, requests, returns, edits>>

FollowsPrimary(a) == a = Primary

SwitchCommit(p) ==
    LET o == op[p]  v == Target(o)  a == o.cur IN
    /\ a # NoAccount
    /\ account' = IF o.accts[a] = v THEN account ELSE [account EXCEPT ![a] = v]
    /\ user' = IF FollowsPrimary(a) THEN Flush(o.user, [o.user EXCEPT !.status = v], user) ELSE user
    /\ op' = [op EXCEPT ![p] = [o EXCEPT !.cur = NoAccount, !.done = @ \cup {a}, !.accts[a] = account'[a],
                                         !.user.status = IF FollowsPrimary(a) THEN v ELSE @]]
    /\ UNCHANGED <<dir, held, requests, returns, by, edits, faults>>

Switched(p) == op[p] # Idle /\ op[p].phase = "accounts" /\ op[p].todo = {} /\ op[p].cur = NoAccount

(***************************************************************************)
(* An administrator switches one account, or all of them; enabling is      *)
(* refused while a leaver request waits and after the leaver process.      *)
(***************************************************************************)
SetOne(p) == \E a \in Accounts, on \in BOOLEAN :
    /\ MayStart(p, "account") /\ (on => MayEnable)
    /\ op' = [op EXCEPT ![p] = [NewOp("account", on) EXCEPT !.todo = {a}]]
    /\ UNCHANGED <<user, account, dir, held, requests, returns, by, edits, faults>>

SetAll(p) == \E on \in BOOLEAN :
    /\ MayStart(p, "person") /\ (on => MayEnable)
    /\ EnsurePrimary(NewOp("person", on))
    /\ op' = [op EXCEPT ![p] = Listed(NewOp("person", on))]
    /\ UNCHANGED <<user, dir, held, requests, returns, by, edits, faults>>

FinishSetting(p) ==
    /\ Switched(p) /\ op[p].kind \in {"account", "person"}
    /\ op' = [op EXCEPT ![p] = Idle]
    /\ UNCHANGED <<user, account, dir, held, requests, returns, by, edits, faults>>

(***************************************************************************)
(* The leaver process.                                                     *)
(***************************************************************************)
Covered(kind, policy) ==
    (IF kind = "csv" \/ policy.revoke THEN Grants ELSE {})
        \cup (IF policy.groups THEN Groups ELSE {}) \cup Owned

\* run_leaver from its caller's operation `o'.
Leave(p, o) == \E pol \in Policies :
    op' = [op EXCEPT ![p] = [o EXCEPT !.phase = "take", !.policy = pol,
                                      !.todo = held \cap Covered(o.kind, pol)]]

\* revoke_assignment, the removal from a group, the removal of an owner; one failing is passed over.
TakeAway(p) == \E h \in op[p].todo :
    /\ op[p].phase = "take"
    /\ \/ /\ held' = held \ {h} /\ UNCHANGED faults
          /\ op' = [op EXCEPT ![p].todo = @ \ {h}]
       \/ /\ Fault("refused") /\ UNCHANGED held
          /\ op' = [op EXCEPT ![p].todo = @ \ {h}, ![p].failed = @ \cup {h}]
    /\ UNCHANGED <<user, account, dir, requests, returns, by, edits>>

DisableLinked(p) ==
    /\ op[p] # Idle /\ op[p].phase = "take" /\ op[p].todo = {}
    /\ op' = [op EXCEPT ![p] = [Load(op[p], IF op[p].policy.linked THEN Linked ELSE {}) EXCEPT
                 !.phase = "linked",
                 !.todo = IF op[p].policy.linked THEN {l \in Linked : account[l] # "DISABLED"} ELSE {}]]
    /\ UNCHANGED <<user, account, dir, held, requests, returns, by, edits, faults>>

DisableAccounts(p) ==
    /\ op[p] # Idle /\ op[p].phase = "linked" /\ op[p].todo = {} /\ op[p].cur = NoAccount
    /\ IF op[p].policy.disable
       THEN EnsurePrimary(op[p]) /\ op' = [op EXCEPT ![p] = Listed(op[p])]
       ELSE UNCHANGED account /\ op' = [op EXCEPT ![p].phase = "accounts"]
    /\ UNCHANGED <<user, dir, held, requests, returns, by, edits, faults>>

Processed(o) == [o.user EXCEPT !.left = TRUE, !.deleteAt = IF o.policy.delete THEN "ahead" ELSE "none"]

\* leaver_processed_at and accounts_delete_at are new moments: they are always written.
FinishLeaving(p) ==
    /\ Switched(p) /\ op[p].kind \in Leaving
    /\ user' = [Flush(op[p].user, Processed(op[p]), user) EXCEPT
                   !.left = TRUE, !.deleteAt = IF op[p].policy.delete THEN "ahead" ELSE @]
    /\ op' = [op EXCEPT ![p] = IF op[p].kind = "approve" THEN [op[p] EXCEPT !.phase = "record"] ELSE Idle]
    /\ by' = [a \in Accounts |-> IF by[a] = "accesspilot" THEN "nobody" ELSE by[a]]
    /\ UNCHANGED <<account, dir, held, requests, returns, edits, faults>>

\* The worker: the leaver date has come and the process has not run.
LeaverDue == user.date = "due" /\ ~user.left

\* Mutant: a person whose request still waits is left to its approver.
UnlessPending == LeaverDue /\ ~LeaverPending

Swept == LeaverDue

SweepLeavers ==
    /\ MayStart(Worker, "scheduled") /\ Swept
    /\ Leave(Worker, NewOp("scheduled", FALSE))
    /\ UNCHANGED <<user, account, dir, held, requests, returns, by, edits, faults>>

\* A CSV import: the person is marked disabled here before any directory has been asked.
TerminateByCsv(p) ==
    /\ MayStart(p, "csv") /\ Edit
    /\ user' = [user EXCEPT !.status = "DISABLED"]
    /\ Leave(p, [NewOp("csv", FALSE) EXCEPT !.user = user'])
    /\ UNCHANGED <<account, dir, held, requests, returns, by, faults>>

\* The sync lists the primary's directory (a deleted account is not listed) ...
FetchUsers ==
    /\ MayStart(Syncer, "sync") /\ dir[Primary] # "DELETED"
    /\ op' = [op EXCEPT ![Syncer] = [NewOp("sync", dir[Primary] = "ACTIVE") EXCEPT !.phase = "apply"]]
    /\ UNCHANGED <<user, account, dir, held, requests, returns, by, edits, faults>>

SeenDisabled(before, o) == before = "ACTIVE" /\ ~o.on

\* ... and writes what it saw.  A person it finds disabled has left, unless the setting
\* revoke_on_directory_disable is off; the directory that says so is not called again.
ApplyUsers ==
    LET o == op[Syncer]  seen == Target(o) IN
    /\ o # Idle /\ o.phase = "apply"
    /\ user' = [user EXCEPT !.status = seen]
    /\ \/ /\ SeenDisabled(user.status, o)
          /\ Leave(Syncer, [o EXCEPT !.user = user', !.skip = {Primary}])
       \/ op' = [op EXCEPT ![Syncer] = Idle]
    /\ UNCHANGED <<account, dir, held, requests, returns, by, edits, faults>>

(***************************************************************************)
(* A manual start: the accounts are disabled first, then the request is    *)
(* written; its approval runs the process, its denial enables the accounts *)
(* that it had disabled.                                                   *)
(***************************************************************************)
Starting == {q \in Procs : op[q] # Idle /\ op[q].kind = "start"}
RowLeft  == Cardinality({r \in LeaverRows : requests[r] = Absent}) > Cardinality(Starting) \* the bound

StartLeaver(p) ==
    /\ MayStart(p, "start") /\ ~PostLeaver /\ ~LeaverPending /\ RowLeft
    /\ EnsurePrimary(NewOp("start", FALSE))
    /\ op' = [op EXCEPT ![p] = Listed(NewOp("start", FALSE))]
    /\ UNCHANGED <<user, dir, held, requests, returns, by, edits, faults>>

FinishStart(p) ==
    /\ Switched(p) /\ op[p].kind = "start"
    /\ \/ /\ op[p].done \cup op[p].already # {}
          /\ \E r \in LeaverRows : /\ requests[r] = Absent
                                   /\ requests' = [requests EXCEPT ![r] = [status |-> "PENDING", off |-> op[p].done]]
       \/ op[p].done \cup op[p].already = {} /\ UNCHANGED requests
    /\ op' = [op EXCEPT ![p] = Idle]
    /\ UNCHANGED <<user, account, dir, held, returns, by, edits, faults>>

ApproveLeaver(p) == \E r \in LeaverRows :
    /\ MayStart(p, "approve") /\ Waiting(requests, r)
    /\ Leave(p, [NewOp("approve", FALSE) EXCEPT !.row = r])
    /\ UNCHANGED <<user, account, dir, held, requests, returns, by, edits, faults>>

DenyLeaver(p) == \E r \in LeaverRows :
    /\ MayStart(p, "deny") /\ Waiting(requests, r)
    /\ op' = [op EXCEPT ![p] = [NewOp("deny", TRUE) EXCEPT !.row = r, !.todo = requests[r].off]]
    /\ UNCHANGED <<user, account, dir, held, requests, returns, by, edits, faults>>

Verdict(kind) == IF kind = "approve" THEN "APPROVED" ELSE "DENIED"

RecordDecision(p) ==
    LET o == op[p] IN
    /\ o # Idle /\ (o.phase = "record" \/ (Switched(p) /\ o.kind = "deny"))
    /\ requests' = [requests EXCEPT ![o.row].status = Verdict(o.kind)]
    /\ op' = [op EXCEPT ![p] = Idle]
    /\ UNCHANGED <<user, account, dir, held, returns, by, edits, faults>>

(***************************************************************************)
(* A return after the leaver process: asked for, then decided.  An empty   *)
(* scope stands for all accounts.                                          *)
(***************************************************************************)
RequestReturn(p) == \E r \in ReturnRows, scope \in {{}} \cup {{a} : a \in Accounts} :
    /\ MayStart(p, "return") /\ PostLeaver /\ ~user.gone /\ ~ReturnPending
    /\ returns[r] = Absent
    /\ returns' = [returns EXCEPT ![r] = [status |-> "PENDING", scope |-> scope]]
    /\ UNCHANGED <<user, account, dir, held, requests, op, by, edits, faults>>

RejectReturn(p) == \E r \in ReturnRows :
    /\ MayStart(p, "return") /\ Waiting(returns, r)
    /\ returns' = [returns EXCEPT ![r].status = "REJECTED"]
    /\ UNCHANGED <<user, account, dir, held, requests, op, by, edits, faults>>

ApproveReturn(p) == \E r \in ReturnRows :
    LET o == [NewOp("return", TRUE) EXCEPT !.row = r]
        scope == returns[r].scope IN
    /\ MayStart(p, "return") /\ Waiting(returns, r) /\ ~user.gone
    /\ IF scope = {}
       THEN EnsurePrimary(o) /\ op' = [op EXCEPT ![p] = Listed(o)]
       ELSE /\ UNCHANGED account
            /\ op' = [op EXCEPT ![p] = [Load(o, scope) EXCEPT
                          !.todo = {a \in scope : account[a] = "DISABLED"},
                          !.already = {a \in scope : account[a] # "DISABLED"}]]
    /\ UNCHANGED <<user, dir, held, requests, returns, by, edits, faults>>

\* The leaver cycle ends when no account is left disabled.
Back(o) == [o.user EXCEPT !.left = FALSE, !.date = "none", !.deleteAt = "none"]
AllBack == \A a \in Accounts : account[a] # "DISABLED"

FinishReturn(p) ==
    LET o == op[p] IN
    /\ Switched(p) /\ o.kind = "return"
    /\ \/ /\ o.done \cup o.already # {}
          /\ returns' = [returns EXCEPT ![o.row].status = "APPROVED"]
          /\ user' = IF AllBack THEN Flush(o.user, Back(o), user) ELSE user
       \/ o.done \cup o.already = {} /\ UNCHANGED <<user, returns>>
    /\ op' = [op EXCEPT ![p] = Idle]
    /\ UNCHANGED <<account, dir, held, requests, by, edits, faults>>

\* update_person_lifecycle: a new date re-arms the process, clearing it calls the process off.
SetLeaverDate(p) ==
    /\ MayStart(p, "date") /\ Edit
    /\ ~(user.left /\ user.status = "DISABLED")
    /\ user' \in {[user EXCEPT !.date = d, !.left = FALSE] :
                     d \in {"ahead"} \cup (IF user.date = "none" THEN {} ELSE {"none"})}
    /\ UNCHANGED <<account, dir, held, requests, returns, op, by, faults>>

(***************************************************************************)
(* The deletion of the accounts, when the policy's days have passed.       *)
(***************************************************************************)
DeletionDue == user.deleteAt = "due" /\ user.left /\ ~user.gone /\ ~ReturnPending

\* Mutant: whoever was due when the policy was applied is deleted.
NotAskedAgain == FALSE

CameBack == user.status # "DISABLED"

\* Mutant: a retry begins again with the first account.
EveryAccount(o) == Accounts

ToDelete(o) == {a \in Accounts : o.accts[a] # "DELETED"}

SweepDeletions ==
    LET o == NewOp("deletion", FALSE)
        l == [Load(o, Accounts) EXCEPT !.accts[Primary] = Mirrored(o)] IN
    /\ MayStart(Worker, "deletion") /\ DeletionDue
    /\ IF CameBack
       THEN user' = [user EXCEPT !.deleteAt = "none"] /\ UNCHANGED <<account, op>>
       ELSE /\ EnsurePrimary(o) /\ UNCHANGED user
            /\ op' = [op EXCEPT ![Worker] = [l EXCEPT !.phase = "delete", !.todo = ToDelete(l)]]
    /\ UNCHANGED <<dir, held, requests, returns, by, edits, faults>>

\* A directory that no longer has the account says so with an error (Entra, Okta) or
\* agrees (Active Directory).
DeleteAccount == \E a \in op[Worker].todo :
    /\ op[Worker].phase = "delete"
    /\ \/ /\ dir' = [dir EXCEPT ![a] = "DELETED"]
          /\ op' = [op EXCEPT ![Worker].todo = @ \ {a}, ![Worker].done = @ \cup {a}]
          /\ UNCHANGED faults
       \/ /\ \/ dir[a] = "DELETED" /\ UNCHANGED <<dir, faults>>
             \/ dir[a] # "DELETED" /\ Fault("refused") /\ UNCHANGED dir
             \/ dir[a] # "DELETED" /\ Fault("lost") /\ dir' = [dir EXCEPT ![a] = "DELETED"]
          /\ op' = [op EXCEPT ![Worker].todo = @ \ {a}, ![Worker].failed = @ \cup {a}]
    /\ UNCHANGED <<user, account, held, requests, returns, by, edits>>

\* What was deleted is committed; the person is labelled only when nothing failed.
\* Mutant: one deleted account is enough.
AnyDeleted(o) == o.done # {}

MayLabel(o) == o.failed = {}

CommitDeletions ==
    LET o == op[Worker] IN
    /\ o # Idle /\ o.phase = "delete" /\ o.todo = {}
    /\ account' = [a \in Switchable |-> IF a \in o.done THEN "DELETED" ELSE account[a]]
    /\ op' = [op EXCEPT ![Worker] = IF MayLabel(o) THEN [o EXCEPT !.phase = "mark"] ELSE Idle]
    /\ UNCHANGED <<user, dir, held, requests, returns, by, edits, faults>>

MarkDeleted ==
    /\ op[Worker] # Idle /\ op[Worker].phase = "mark"
    /\ user' = [user EXCEPT !.gone = TRUE, !.status = "DELETED"]
    /\ op' = [op EXCEPT ![Worker] = Idle]
    /\ UNCHANGED <<account, dir, held, requests, returns, by, edits, faults>>

(***************************************************************************)
(* The surroundings: somebody edits a directory, the person is given       *)
(* access again, time passes, the process dies and with it what its        *)
(* sessions had not committed.                                             *)
(***************************************************************************)
GivenAgain == \E h \in Holdings \ held :
    /\ Edit /\ user.status = "ACTIVE" /\ \A p \in Procs : op[p] = Idle
    /\ held' = held \cup {h}
    /\ UNCHANGED <<user, account, dir, requests, returns, op, by, faults>>

DirectoryChanges == \E a \in Accounts, v \in {"ACTIVE", "DISABLED"} :
    /\ Edit /\ dir[a] # "DELETED" /\ dir[a] # v
    /\ dir' = [dir EXCEPT ![a] = v] /\ by' = [by EXCEPT ![a] = "directory"]
    /\ UNCHANGED <<user, account, held, requests, returns, op, faults>>

Tick ==
    /\ \/ user.date = "ahead" /\ user' = [user EXCEPT !.date = "due"]
       \/ user.deleteAt = "ahead" /\ user' = [user EXCEPT !.deleteAt = "due"]
    /\ UNCHANGED <<account, dir, held, requests, returns, op, by, edits, faults>>

Crash ==
    /\ \E p \in Procs : op[p] # Idle
    /\ Fault("crash")
    /\ op' = [p \in Procs |-> Idle]
    /\ UNCHANGED <<user, account, dir, held, requests, returns, by, edits>>

(***************************************************************************)
(* Specification.                                                          *)
(***************************************************************************)
Ask(p) == \/ SetOne(p) \/ SetAll(p) \/ StartLeaver(p) \/ ApproveLeaver(p) \/ DenyLeaver(p)
          \/ RequestReturn(p) \/ RejectReturn(p) \/ ApproveReturn(p)
          \/ SetLeaverDate(p) \/ TerminateByCsv(p)

Step(p) == /\ op[p] # Idle
           /\ \/ CallDirectory(p) \/ CallFails(p) \/ SwitchCommit(p)
              \/ TakeAway(p) \/ DisableLinked(p) \/ DisableAccounts(p)
              \/ FinishLeaving(p) \/ RecordDecision(p)
              \/ FinishSetting(p) \/ FinishStart(p) \/ FinishReturn(p)

Sweep == SweepLeavers \/ SweepDeletions
Deleting == op[Worker] # Idle /\ (DeleteAccount \/ CommitDeletions \/ MarkDeleted)

Next == \/ \E p \in Requests : Ask(p)
        \/ \E p \in Procs : Step(p)
        \/ Sweep \/ Deleting
        \/ FetchUsers \/ ApplyUsers
        \/ GivenAgain \/ DirectoryChanges \/ Tick \/ Crash

Spec == Init /\ [][Next]_vars

\* A handler under way is carried on; the worker's polls recur (every 60 s).
Fairness == /\ \A p \in Procs : WF_vars(Step(p))
            /\ WF_vars(Deleting) /\ WF_vars(ApplyUsers)
            /\ SF_vars(SweepLeavers) /\ SF_vars(SweepDeletions)

FairSpec == Spec /\ Fairness

(***************************************************************************)
(* Properties.                                                             *)
(***************************************************************************)
\* The rows, the directories and every handler in flight have the shape the code gives them.
TypeOK ==
    /\ user \in Person
    /\ account \in [Switchable -> Status] /\ dir \in [Switchable -> Status]
    /\ held \subseteq Holdings /\ by \in [Accounts -> {"nobody", "directory", "accesspilot"}]
    /\ requests \in [LeaverRows -> {Absent} \cup [status : {"PENDING", "APPROVED", "DENIED"}, off : SUBSET Accounts]]
    /\ returns \in [ReturnRows -> {Absent} \cup [status : {"PENDING", "APPROVED", "REJECTED"}, scope : SUBSET Accounts]]
    /\ op \in [Procs -> Handler \cup {Idle}]
    /\ edits \in 0..MaxEdits /\ faults \in 0..MaxFaults

\* run_leaver, about to record that the person has left: every account its policy disables is
\* off in its directory and every holding it covers is gone, but for those whose call failed
\* and those somebody switched on in the directory itself -- whoever started it, and whatever
\* AccessPilot's own rows said before (lifecycle.py:474).
LockedOut ==
    \A p \in Procs : Switched(p) /\ op[p].kind \in Leaving =>
        LET o == op[p] IN
        /\ o.policy.disable => \A a \in Accounts : dir[a] = "ACTIVE" => a \in o.failed \/ by[a] = "directory"
        /\ o.policy.linked => \A l \in Linked : dir[l] = "ACTIVE" => l \in o.failed
        /\ held \cap Covered(o.kind, o.policy) \subseteq o.failed

\* A person labelled DELETED has no account left in any directory, however many attempts it
\* took and whichever of them failed (leaver_followup.py:232).
DeletedIsGone == user.gone => \A a \in Accounts : dir[a] = "DELETED"

(***************************************************************************)
(* The inductive invariant behind TypeOK and DeletedIsGone: a row, or a    *)
(* handler's copy of one, says DELETED only of what is; a deletion in      *)
(* flight knows how far it has come; a handler's step fits its request.    *)
(***************************************************************************)
DeletedThere(a) == dir[a] = "DELETED"

CopiesTrue(o) == \A a \in Accounts : o.accts[a] = "DELETED" => DeletedThere(a)

HowFar(o) ==
    /\ o.phase = "delete" => /\ \A a \in Accounts : a \in o.todo \cup o.failed \/ DeletedThere(a)
                             /\ \A a \in Accounts \cap o.done : DeletedThere(a)
    /\ o.phase = "mark" => \A a \in Accounts : DeletedThere(a)

Orderly(o) ==
    /\ o.phase \in {"linked", "accounts", "delete"} => o.todo \subseteq Switchable
    /\ o.cur # NoAccount => o.phase \in {"linked", "accounts"}
    /\ o.phase = "apply" => o.kind = "sync"
    /\ o.phase = "record" => o.kind = "approve"
    /\ o.kind = "start" => o.phase = "accounts" /\ o.todo \cup o.done \cup {o.cur} \subseteq Accounts \cup {NoAccount}
    /\ o.kind \in {"approve", "deny"} => o.row \in LeaverRows /\ requests[o.row] # Absent
    /\ o.kind = "return" => o.row \in ReturnRows /\ returns[o.row] # Absent

RowsTrue == \A a \in Accounts : account[a] = "DELETED" => DeletedThere(a)
OpsSound == \A p \in Procs : op[p] # Idle => CopiesTrue(op[p]) /\ HowFar(op[p]) /\ Orderly(op[p])

\* What rows and handlers say about deleted accounts and about their own requests stays true
\* in every interleaving, so that the label DELETED may be trusted (leaver_followup.py:231-252).
DeletionInv == TypeOK /\ RowsTrue /\ OpsSound /\ DeletedIsGone

\* The sync starts the leaver process only for a person whom somebody disabled in the
\* directory itself: what AccessPilot disabled -- by an administrator, or while a request
\* waits for its approval -- never costs anybody their access (lifecycle.py:352).
OnlyLeaversLose == op[Syncer].phase = "apply" /\ op'[Syncer].phase = "take" => by[Primary] = "directory"

\* The sweep deletes no account of a person who came back: the person is still recorded as
\* left and disabled, and the primary account is not one that AccessPilot enabled again
\* (leaver_followup.py:217).
OnlyLeftAreDeleted ==
    \A a \in Accounts : dir[a] # "DELETED" /\ dir'[a] = "DELETED" =>
        user.left /\ user.status = "DISABLED" /\ (dir[Primary] = "ACTIVE" => by[Primary] # "accesspilot")

\* Whoever's leaver date has come is put through the leaver process, refused calls and other
\* requests notwithstanding, unless the date is moved (lifecycle.py:531).
LeaverRuns == LeaverDue ~> ~LeaverDue

\* A due deletion is completed, called off by a return, or waits for the decision on one; a
\* directory that refuses at first does not stop it for good (leaver_followup.py:194).
DeletionCompletes == DeletionDue ~> ~DeletionDue
=============================================================================
