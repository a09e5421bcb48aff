------------------------------- MODULE Joiner -------------------------------
(***************************************************************************)
(* One person who joins (services/joiner.py): the form is submitted, an    *)
(* account is created switched off in every directory wanted -- at once,   *)
(* or after the configured delay -- and at the start date the accounts are *)
(* switched on and the birthright access is granted.  What failed may be   *)
(* retried, by an administrator or by the worker; what has not started may *)
(* be cancelled.  Time is counted in days, so that IMMEDIATE_SLACK (one    *)
(* minute) is nothing.                                                     *)
(*                                                                         *)
(* A handler works on its session's copy of the row; a commit writes the   *)
(* columns in which the copy differs from what was read.  Phases: create,  *)
(* enable and delete (one call to a directory at a time), and grant.       *)
(***************************************************************************)
EXTENDS Directories, Integers, FiniteSets, Sequences

CONSTANTS
    Kind,        \* Kind[d]: the type of directory d; they are taken in this order, Entra first
    Requests,    \* API requests in flight
    Delays,      \* the values joiner_provisioning_delay_days may have (0: not set)
    MaxClock,    \* bound: days
    MaxEdits,    \* bound: how often a directory is switched off or on for joiners
    MaxInFlight, \* bound: handlers under way at once (1 = serialised)
    FaultLimit,  \* FaultLimit[f]: bound on how often fault f happens
    NoUser

Worker == "access-review-worker"
Procs  == Requests \cup {Worker}
Dirs   == DOMAIN Kind
Faults == {"refused", "lost", "crash"}

ASSUME ConstantsAssumption ==
    /\ Kind \in Seq(Kinds) /\ NoUser \notin Dirs
    /\ Delays \subseteq Nat /\ FaultLimit \in [Faults -> Nat]
    /\ {MaxClock, MaxEdits, MaxInFlight} \subseteq Nat

(***************************************************************************)
(* State.  A User row is named by the directory whose account created it.  *)
(* `requested' is requested_targets, kept also where the code needs none.  *)
(***************************************************************************)
VARIABLES
    joiner,    \* the JoinerRequest row
    account,   \* account[d]: the person's account in directory d
    rows,      \* rows[d]: status of the IdentityAccount row of that account
    people,    \* the User rows made for this person
    active,    \* those that are ACTIVE
    granted,   \* those whose birthright access was evaluated
    on,        \* directories with provision_joiners
    settings,  \* LifecycleSettings: the delay, and whether failures are retried by the worker
    clock, op, edits, faults

vars == <<joiner, account, rows, people, active, granted, on, settings, clock, op, edits, faults>>

TargetStatus == {"none", "FAILED", "CREATED", "ENABLED", "DELETED"}
RowStatus    == {"none", "DISABLED", "ACTIVE", "DELETED"}
Request == [status : {"NONE", "PENDING_PROVISIONING", "SCHEDULED", "ACTIVE", "PARTIAL", "CANCELLED"},
            user : Dirs \cup {NoUser}, targets : [Dirs -> TargetStatus],
            requested : SUBSET Dirs, start : 0..MaxClock, provisionAt : Nat]
Idle    == [phase |-> "idle"]
Handler == [phase : {"create", "enable", "delete", "grant"}, kind : {"create", "provision", "retry", "activate", "cancel"},
            read : Request, row : Request, rows : [Dirs -> RowStatus], todo : SUBSET Dirs, started : BOOLEAN]

NoRequest == [status |-> "NONE", user |-> NoUser, targets |-> [d \in Dirs |-> "none"],
              requested |-> {}, start |-> 0, provisionAt |-> 0]

Init ==
    /\ joiner = NoRequest
    /\ account = [d \in Dirs |-> "none"] /\ rows = [d \in Dirs |-> "none"]
    /\ people = {} /\ active = {} /\ granted = {}
    /\ on = Dirs /\ settings \in [delay : Delays, retry : BOOLEAN]
    /\ clock = 0 /\ op = [p \in Procs |-> Idle] /\ edits = 0 /\ faults = [f \in Faults |-> 0]

Busy        == {p \in Procs : op[p] # Idle}
MayStart(p) == op[p] = Idle /\ Cardinality(Busy) < MaxInFlight
First(S)    == CHOOSE d \in S : \A e \in S : d <= e
Count(f)    == faults[f] < FaultLimit[f] /\ faults' = [faults EXCEPT ![f] = @ + 1]
Goes(f)     == IF f = "none" THEN UNCHANGED faults ELSE Count(f)

StartDue(row) == row.start <= clock

Having(row, S) == {d \in Dirs : row.targets[d] \in S}
NewOp(kind, phase, row, todo) ==
    [phase |-> phase, kind |-> kind, read |-> joiner, row |-> row, rows |-> [d \in Dirs |-> "none"],
     todo |-> todo, started |-> StartDue(row)]
Ends(p) == op' = [op EXCEPT ![p] = Idle]

\* A commit: the columns in which the copy differs from what was read, and the account rows.
Flushed(o) == [c \in DOMAIN joiner |-> IF o.row[c] = o.read[c] THEN joiner[c] ELSE o.row[c]]
Commit(o)  == /\ joiner' = Flushed(o)
              /\ rows' = [d \in Dirs |-> IF o.rows[d] = "none" THEN rows[d] ELSE o.rows[d]]
              /\ people' = people \cup ({o.row.user} \ {NoUser})
Committed(o, row) == [o EXCEPT !.read = o.row, !.row = row]

(***************************************************************************)
(* set_target_enabled.                                                     *)
(***************************************************************************)
SetTargetEnabled(d) ==
    /\ edits < MaxEdits /\ edits' = edits + 1
    /\ on' = IF d \in on THEN on \ {d} ELSE on \cup {d}
    /\ UNCHANGED <<joiner, account, rows, people, active, granted, settings, clock, op, faults>>

(***************************************************************************)
(* create_joiner.  A directory picked in the form must be switched on; one *)
(* that only the birthright access needs is left out when it is not.  The  *)
(* creation is deferred if the delay ends before the start.                *)
(***************************************************************************)
Wanted(picks, needs) == picks \cup (needs \cap on)
Deferred(start) == settings.delay > 0 /\ clock + settings.delay < start

Submitted(wanted, start) ==
    [NoRequest EXCEPT !.status = IF Deferred(start) THEN "PENDING_PROVISIONING" ELSE "SCHEDULED",
        !.requested = wanted, !.start = start,
        !.provisionAt = IF Deferred(start) THEN clock + settings.delay ELSE clock]

CreateJoiner(q) == \E picks \in (SUBSET on) \ {{}}, needs \in SUBSET Dirs, start \in clock..MaxClock :
    /\ joiner.status = "NONE" /\ MayStart(q) /\ ~\E p \in Busy : op[p].kind = "create"
    /\ LET row == Submitted(Wanted(picks, needs), start) IN
       IF Deferred(start) THEN joiner' = row /\ UNCHANGED op
       ELSE op' = [op EXCEPT ![q] = NewOp("create", "create", row, row.requested)] /\ UNCHANGED joiner
    /\ UNCHANGED <<account, rows, people, active, granted, on, settings, clock, edits, faults>>

\* sweep_pending_provisioning: what was requested, wherever it is switched off since.
ProvisionDue ==
    /\ MayStart(Worker) /\ joiner.status = "PENDING_PROVISIONING" /\ joiner.provisionAt <= clock
    /\ op' = [op EXCEPT ![Worker] = NewOp("provision", "create", joiner, joiner.requested)]
    /\ UNCHANGED <<joiner, account, rows, people, active, granted, on, settings, clock, edits, faults>>

\* retry_joiner: whether the start has come is judged before the calls, and a PARTIAL
\* joiner counts as started.
RetryJoiner(p) ==
    /\ MayStart(p) /\ joiner.status \notin {"NONE", "CANCELLED"} /\ Having(joiner, {"FAILED"}) # {}
    /\ op' = [op EXCEPT ![p] = [NewOp("retry", "create", joiner, Having(joiner, {"FAILED"}))
                  EXCEPT !.started = @ \/ joiner.status \in {"ACTIVE", "PARTIAL"}]]
    /\ UNCHANGED <<joiner, account, rows, people, active, granted, on, settings, clock, edits, faults>>

\* sweep_failed_joiner_targets, when its interval has passed.
\* Mutant: only joiners that have started.
RetryStarted == settings.retry /\ joiner.status = "PARTIAL" /\ RetryJoiner(Worker)
RetryDue == settings.retry /\ joiner.status \in {"SCHEDULED", "PARTIAL"} /\ RetryJoiner(Worker)

(***************************************************************************)
(* _create_accounts.  The first success of a joiner without a User row     *)
(* makes one.  An exception nobody expects ends the handler: nothing it    *)
(* did in the database stays.                                              *)
(***************************************************************************)
AccountCreated(o, d) ==
    [o EXCEPT !.row.targets[d] = "CREATED", !.row.user = IF @ = NoUser THEN d ELSE @,
              !.rows[d] = "DISABLED", !.todo = @ \ {d}]
AccountFailed(o, d) == [o EXCEPT !.row.targets[d] = "FAILED", !.todo = @ \ {d}]

CallCreate(p) == \E f \in FaultsOfACall :
    /\ op[p].phase = "create" /\ op[p].todo # {} /\ Goes(f)
    /\ LET o == op[p] d == First(o.todo) IN \E r \in CreateUser(Kind[d], account[d], FALSE, f) :
         /\ account' = [account EXCEPT ![d] = r.account]
         /\ op' = [op EXCEPT ![p] = CASE r.answer = "ok"     -> AccountCreated(o, d)
                                      [] r.answer = "raised" -> Idle
                                      [] OTHER               -> AccountFailed(o, d)]
    /\ UNCHANGED <<joiner, rows, people, active, granted, on, settings, clock, edits>>

\* What follows in the same session: the joiner is activated if the start has come --
\* judged, by a retry, before its calls -- and activate_joiner finds it fit.
Activates(o, row) == /\ IF o.kind = "retry" THEN o.started ELSE StartDue(row)
                     /\ row.status \in {"SCHEDULED", "PARTIAL"} /\ row.user # NoUser
Enabling(o, row)  == [Committed(o, row) EXCEPT !.phase = "enable", !.todo = Having(row, {"CREATED"})]

AfterCreation(o) == CASE o.kind = "provision" -> IF o.row.user = NoUser THEN "PARTIAL" ELSE "SCHEDULED"
                      [] OTHER -> o.row.status
BeforeEnabling(o) == IF o.kind = "retry" /\ o.row.status = "SCHEDULED" THEN [o.row EXCEPT !.status = "PARTIAL"]
                     ELSE o.row

\* No account at all in any directory: the submission is refused and leaves no row.
RefuseJoiner(p) ==
    /\ op[p].phase = "create" /\ op[p].todo = {} /\ op[p].kind = "create" /\ op[p].row.user = NoUser
    /\ Ends(p)
    /\ UNCHANGED <<joiner, account, rows, people, active, granted, on, settings, clock, edits, faults>>

FinishCreate(p) ==
    /\ op[p].phase = "create" /\ op[p].todo = {} /\ ~(op[p].kind = "create" /\ op[p].row.user = NoUser)
    /\ LET o == [op[p] EXCEPT !.row.status = AfterCreation(op[p])] row == BeforeEnabling(o) IN
         /\ Commit(o)
         /\ op' = [op EXCEPT ![p] = IF Activates(o, row) THEN Enabling(o, row) ELSE Idle]
    /\ UNCHANGED <<account, active, granted, on, settings, clock, edits, faults>>

(***************************************************************************)
(* sweep_joiners and activate_joiner.                                      *)
(***************************************************************************)
ActivateDue ==
    /\ MayStart(Worker) /\ joiner.status = "SCHEDULED" /\ StartDue(joiner) /\ joiner.user # NoUser
    /\ op' = [op EXCEPT ![Worker] = NewOp("activate", "enable", joiner, Having(joiner, {"CREATED"}))]
    /\ UNCHANGED <<joiner, account, rows, people, active, granted, on, settings, clock, edits, faults>>

CallEnable(p) == \E f \in FaultsOfACall :
    /\ op[p].phase = "enable" /\ op[p].todo # {} /\ Goes(f)
    /\ LET o == op[p] d == First(o.todo) IN \E r \in SetUserEnabled(Kind[d], account[d], TRUE, f) :
         /\ account' = [account EXCEPT ![d] = r.account]
         /\ op' = [op EXCEPT ![p] =
              CASE r.answer = "ok"     -> [o EXCEPT !.row.targets[d] = "ENABLED", !.rows[d] = "ACTIVE", !.todo = @ \ {d}]
                [] r.answer = "raised" -> Idle
                [] OTHER               -> [o EXCEPT !.todo = @ \ {d}]]
    /\ UNCHANGED <<joiner, rows, people, active, granted, on, settings, clock, edits>>

Started(row) == Having(row, {"ENABLED"}) # {}
\* Mutant: nothing left to switch on is enough.
NoneWaiting(row) == Having(row, {"CREATED"}) = {}
AllEnabled(row) == Having(row, {"none", "ENABLED"}) = Dirs

FinishEnable(p) ==
    /\ op[p].phase = "enable" /\ op[p].todo = {}
    /\ LET o == [op[p] EXCEPT !.row.status = IF AllEnabled(op[p].row) THEN "ACTIVE" ELSE "PARTIAL"] IN
         /\ Commit(o)
         /\ active' = IF Started(o.row) THEN active \cup {o.row.user} ELSE active
         /\ op' = [op EXCEPT ![p] = IF Started(o.row) THEN [Committed(o, o.row) EXCEPT !.phase = "grant"] ELSE Idle]
    /\ UNCHANGED <<account, granted, on, settings, clock, edits, faults>>

GrantBirthright(p) ==
    /\ op[p].phase = "grant"
    /\ granted' = granted \cup {op[p].row.user} /\ Ends(p)
    /\ UNCHANGED <<joiner, account, rows, people, active, on, settings, clock, edits, faults>>

(***************************************************************************)
(* cancel_joiner, with or without deleting the accounts.                   *)
(***************************************************************************)
Cancellable == {"SCHEDULED", "PENDING_PROVISIONING"}

CancelJoiner(q) == \E delete \in BOOLEAN :
    /\ MayStart(q) /\ joiner.status \in Cancellable
    /\ op' = [op EXCEPT ![q] = NewOp("cancel", "delete", [joiner EXCEPT !.status = "CANCELLED"],
                                     IF delete THEN Having(joiner, {"CREATED", "ENABLED"}) ELSE {})]
    /\ UNCHANGED <<joiner, account, rows, people, active, granted, on, settings, clock, edits, faults>>

CallDelete(p) == \E f \in FaultsOfACall :
    /\ op[p].phase = "delete" /\ op[p].todo # {} /\ Goes(f)
    /\ LET o == op[p] d == First(o.todo) IN \E r \in DeleteUser(Kind[d], account[d], f) :
         /\ account' = [account EXCEPT ![d] = r.account]
         /\ op' = [op EXCEPT ![p] =
              CASE r.answer = "ok"     -> [o EXCEPT !.row.targets[d] = "DELETED", !.rows[d] = "DELETED", !.todo = @ \ {d}]
                [] r.answer = "raised" -> Idle
                [] OTHER               -> [o EXCEPT !.todo = @ \ {d}]]
    /\ UNCHANGED <<joiner, rows, people, active, granted, on, settings, clock, edits>>

FinishCancel(p) ==
    /\ op[p].phase = "delete" /\ op[p].todo = {}
    /\ Commit(op[p]) /\ Ends(p)
    /\ UNCHANGED <<account, active, granted, on, settings, clock, edits, faults>>

(***************************************************************************)
(* The environment: days pass, the process stops and is started again.     *)
(***************************************************************************)
Tick == /\ clock < MaxClock /\ clock' = clock + 1
        /\ UNCHANGED <<joiner, account, rows, people, active, granted, on, settings, op, edits, faults>>

Crash == /\ Busy # {} /\ Count("crash") /\ op' = [p \in Procs |-> Idle]
         /\ UNCHANGED <<joiner, account, rows, people, active, granted, on, settings, clock, edits>>

Continue(p) == \/ CallCreate(p) \/ RefuseJoiner(p) \/ FinishCreate(p)
               \/ CallEnable(p) \/ FinishEnable(p) \/ GrantBirthright(p)
               \/ CallDelete(p) \/ FinishCancel(p)

Next == \/ \E d \in Dirs : SetTargetEnabled(d)
        \/ \E q \in Requests : CreateJoiner(q) \/ RetryJoiner(q) \/ CancelJoiner(q)
        \/ ProvisionDue \/ ActivateDue \/ RetryDue
        \/ \E p \in Procs : Continue(p)
        \/ Tick \/ Crash

Spec == Init /\ [][Next]_vars

\* Handlers run on, and the worker's sweeps come again and again; only the bound on
\* handlers in flight -- no lock of the code -- makes one wait, hence the strong fairness.
Sweeps   == ProvisionDue \/ ActivateDue \/ RetryDue
FairSpec == Spec /\ WF_vars(\E p \in Procs : Continue(p)) /\ SF_vars(Sweeps)

(***************************************************************************)
(* Properties.                                                             *)
(***************************************************************************)
\* The rows, accounts and handlers are of the shapes the code gives them (models.py).
TypeOK ==
    /\ joiner \in Request /\ account \in [Dirs -> Accounts] /\ rows \in [Dirs -> RowStatus]
    /\ people \subseteq Dirs /\ active \subseteq people /\ granted \subseteq people
    /\ on \subseteq Dirs /\ settings \in [delay : Delays, retry : BOOLEAN]
    /\ clock \in 0..MaxClock /\ op \in [Procs -> Handler \cup {Idle}]

Quiet  == Busy = {}
\* Nothing happened that the code is not told of.
Told   == faults["lost"] = 0 /\ faults["crash"] = 0

\* What a target's status says of the account.
Says(status) == CASE status = "CREATED" -> "off" [] status = "ENABLED" -> "on" [] OTHER -> "none"
RowOf(status) == CASE status = "CREATED" -> "DISABLED" [] status = "ENABLED" -> "ACTIVE"
                   [] status = "DELETED" -> "DELETED" [] OTHER -> "none"

\* Whatever a directory refused on the way, the joiner's targets say how its accounts are,
\* each account has its IdentityAccount row and a person, no refused submission leaves an
\* account behind, and a joiner that is ACTIVE has all of them switched on.
AccountsMatch == Told /\ Quiet =>
    /\ \A d \in Dirs : account[d] = Says(joiner.targets[d]) /\ rows[d] = RowOf(joiner.targets[d])
    /\ Having(joiner, {"CREATED", "ENABLED"}) # {} => joiner.user # NoUser
    /\ joiner.status = "ACTIVE" => \A d \in joiner.requested : account[d] = "on"

\* A cancelled joiner has no account that is switched on and is nobody's ACTIVE person
\* (cancel_joiner's message: accounts remain, disabled, in the directories).
CancelledStaysOff == Told /\ joiner.status = "CANCELLED" => active = {} /\ \A d \in Dirs : account[d] # "on"

\* However often creation fails and is retried, in whatever order the directories come
\* back, the person has one User row.
OnePerson == Cardinality(people) <= 1

\* A joiner whose start date has come does not stay waiting.
JoinerStarts == (joiner.status \in {"PENDING_PROVISIONING", "SCHEDULED"} /\ joiner.start <= clock)
                ~> joiner.status \notin {"PENDING_PROVISIONING", "SCHEDULED"}

\* With the automatic retry configured, what failed is not failed forever once the
\* directories answer again.
RetriesConverge == (settings.retry /\ Having(joiner, {"FAILED"}) # {})
                   ~> (Having(joiner, {"FAILED"}) = {} \/ joiner.status = "CANCELLED" \/ ~Told)
=============================================================================
