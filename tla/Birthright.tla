----------------------------- MODULE Birthright -----------------------------
(***************************************************************************)
(* Access that follows from what a person is: birthright policies          *)
(* (services/birthright.py) and one dynamic group (dynamic_groups.py), and *)
(* the changes of the person's department and status that set them off --  *)
(* an edit (identity_attributes.py), a directory sync, a scheduled move    *)
(* (lifecycle.py).  One person, in one directory.                          *)
(*                                                                         *)
(* A handler goes through the phases                                       *)
(*   reconcile, revoke   what birthright policies gave and no longer match *)
(*   plan, grant, create what matching policies give and is not held       *)
(*   ensure, dynamic     the dynamic group's real group, and membership    *)
(*   settle              the status of the move                            *)
(* with a commit between any two; a session keeps the person and the       *)
(* policies as it first loaded them.                                       *)
(***************************************************************************)
EXTENDS Naturals, FiniteSets, Sequences

CONSTANTS
    Depts,       \* values of the department, a missing one (NoDept) aside
    NoDept,
    Rules,       \* bound: conditions in use
    Policies,
    FirstRule,   \* the policies there are at first, and ...
    FirstDynamic,\* ... the sync mode of the dynamic group there is, or {}
    Direct,      \* Direct[p]: the targets of the plain actions of policy p
    UsesPackage, \* policies with an action for the package
    UsesRole,    \* policies with an action for the business role
    Packages,    \* the sets of items the package may have
    RoleItems,   \* the items of the business role
    Group,       \* the dynamic group's real group
    ByHand,      \* bound: targets also assigned by hand
    Slots,       \* bound: live rows of access_assignments
    Requests, MaxInFlight,
    MaxClock, MaxMoves, MaxEdits, \* bounds: days, moves scheduled, and changes of everything else
    FaultLimit   \* FaultLimit[f]: bound on how often fault f happens

Worker  == "access-review-worker"
Procs   == Requests \cup {Worker}
Faults  == {"refused", "crash"}
Targets == (UNION {Direct[p] : p \in Policies}) \cup (UNION Packages) \cup RoleItems
Sources == Policies \cup {"manual", "dynamic"}

\* A condition: the department equals, or does not equal, a value.  Every other operator
\* divides the departments in two as well.
Rule == [negated : BOOLEAN, value : Depts]

ASSUME ConstantsAssumption ==
    /\ NoDept \notin Depts /\ Rules \subseteq Rule /\ (\E r \in Rules : ~r.negated)
    /\ FirstRule \in [Policies -> Rules] /\ FirstDynamic \subseteq {"OFF", "ELIGIBLE", "ACTIVE"} /\ Group \notin Targets /\ ByHand \subseteq Targets
    /\ UsesPackage \subseteq Policies /\ UsesRole \subseteq Policies /\ Packages # {}
    /\ {"manual", "dynamic"} \cap Policies = {}
    /\ FaultLimit \in [Faults -> Nat] /\ {MaxInFlight, MaxClock, MaxMoves, MaxEdits} \subseteq Nat

VARIABLES
    user,    \* department and status of the person
    policy,  \* policy[p]: the BirthrightPolicy row, or Absent
    tagged,  \* policies some row, live or not, refers to: they cannot be deleted
    package, \* the package's items
    role,    \* whether the business role is ACTIVE
    rows,    \* the live AccessAssignment rows; a final one is Free
    access,  \* what the directory gives
    dyn,     \* the DynamicGroup and its target; real: its group exists in the directory
    moves,   \* PendingMove rows
    clock, op, edits, faults,
    stale    \* what is known not to be up to date (see Reconciled)

vars == <<user, policy, tagged, package, role, rows, access, dyn, moves, clock, op, edits, faults, stale>>

Policy == [status : {"ACTIVE", "DISABLED"}, rule : Rules, sticky : BOOLEAN]
Absent == [status |-> "ABSENT"]
Row    == [target : Targets \cup {Group}, source : Sources, status : {"ELIGIBLE", "ACTIVE"}]
Free   == [status |-> "FINAL"]
Dynamic == [status : {"NONE", "ACTIVE", "DISABLED"}, rule : Rules, mode : {"OFF", "ELIGIBLE", "ACTIVE"},
            linked : BOOLEAN, real : BOOLEAN]
Move   == [dept : Depts, at : Nat, status : {"SCHEDULED", "CANCELLED", "APPLIED", "FAILED"}]
Idle   == [phase |-> "idle"]

AnyRule == CHOOSE r \in Rules : ~r.negated

Init ==
    /\ user = [dept |-> NoDept, status |-> "ACTIVE"]
    /\ policy = [p \in Policies |-> [status |-> "ACTIVE", rule |-> FirstRule[p], sticky |-> FALSE]]
    /\ tagged = {} /\ package = (CHOOSE items \in Packages : TRUE) /\ role = TRUE
    /\ rows = [s \in Slots |-> Free] /\ access = {}
    /\ \/ dyn = [status |-> "NONE", rule |-> AnyRule, mode |-> "OFF", linked |-> FALSE, real |-> FALSE]
       \/ \E m \in FirstDynamic : dyn = [status |-> "ACTIVE", rule |-> AnyRule, mode |-> m, linked |-> m # "OFF", real |-> m # "OFF"]
    /\ moves = <<>> /\ clock = 0 /\ op = [q \in Procs |-> Idle] /\ edits = 0
    /\ faults = [f \in Faults |-> 0] /\ stale = {}

Busy        == {q \in Procs : op[q] # Idle}
MayStart(q) == op[q] = Idle /\ Cardinality(Busy) < MaxInFlight
Edited      == edits < MaxEdits /\ edits' = edits + 1
Count(f)    == faults[f] < FaultLimit[f] /\ faults' = [faults EXCEPT ![f] = @ + 1]
Works(ok)   == IF ok THEN UNCHANGED faults ELSE Count("refused")

Held       == {s \in Slots : rows[s] # Free}
HeldOf(t)  == {s \in Held : rows[s].target = t}
Tagged(S)  == {s \in Held : rows[s].source \in S}
DynamicRow == Tagged({"dynamic"})
Exists(p)  == policy[p] # Absent

\* The slot of a new row: none that a handler still refers to.
Pending(q) == IF op[q] # Idle THEN {r.slot : r \in op[q].revoke} ELSE {}
Unused     == Slots \ (Held \cup UNION {Pending(q) : q \in Procs})
Fresh      == CHOOSE s \in Unused : TRUE

(***************************************************************************)
(* matches_conditions, _policy_matches_user: a missing attribute matches   *)
(* no condition, a negated one neither.                                    *)
(***************************************************************************)
Matches(dept, rule) == dept # NoDept /\ (rule.negated # (dept = rule.value))
Applies(table, p, dept) == table[p].status = "ACTIVE" /\ Matches(dept, table[p].rule)

\* _policy_action_specs, with the package and the role taken apart.
Given(p) == Direct[p] \cup (IF p \in UsesPackage THEN package ELSE {})
                      \cup (IF p \in UsesRole /\ role THEN RoleItems ELSE {})

(***************************************************************************)
(* Handlers start with the change that sets them off, committed.           *)
(***************************************************************************)
Handler == [phase : {"reconcile", "revoke", "plan", "grant", "create", "ensure", "dynamic", "settle"},
            kind  : {"edit", "sync", "move", "policy", "evaluate", "rule", "mode"},
            user  : [dept : Depts \cup {NoDept}, status : {"ACTIVE", "DISABLED"}],
            table : [Policies -> Policy \cup {Absent}], \* policies as loaded
            revoke : SUBSET [slot : Slots, status : {"ELIGIBLE", "ACTIVE"}],
            grant : SUBSET [target : Targets, policy : Policies],
            chosen : SUBSET [target : Targets, policy : Policies],
            mode : {"OFF", "ELIGIBLE", "ACTIVE"},        \* of the dynamic group's target, not yet committed
            made : BOOLEAN, move : Nat, failed : BOOLEAN]

NewOp(kind, phase) == [phase |-> phase, kind |-> kind, user |-> user, table |-> policy, revoke |-> {}, grant |-> {}, chosen |-> {},
                       mode |-> dyn.mode, made |-> FALSE, move |-> 0, failed |-> FALSE]
Start(q, o) == MayStart(q) /\ op' = [op EXCEPT ![q] = o]
Goto(q, phase) == op' = [op EXCEPT ![q].phase = phase]
Ends(q) == op' = [op EXCEPT ![q] = Idle]

\* apply_user_attribute_change, the directory having taken the new department.
EditDepartment(q) == \E d \in Depts \ {user.dept} :
    /\ Edited /\ user' = [user EXCEPT !.dept = d]
    /\ Start(q, [NewOp("edit", "reconcile") EXCEPT !.user.dept = d])
    /\ UNCHANGED <<policy, tagged, package, role, rows, access, dyn, moves, clock, faults, stale>>

\* run_sync finds the department or the status changed in the directory.
SyncPerson(q) == \E d \in Depts \cup {NoDept}, s \in {"ACTIVE", "DISABLED"} :
    /\ Edited /\ user' = [dept |-> d, status |-> s] /\ user' # user
    /\ Start(q, [NewOp("sync", "reconcile") EXCEPT !.user = user'])
    /\ UNCHANGED <<policy, tagged, package, role, rows, access, dyn, moves, clock, faults, stale>>

\* create_ and update_birthright_policy, plain or from JSON, then recheck_users_for_policy.
\* Mutant: only whom it matches now.
MatchedNow(p, row) == user.status = "ACTIVE" /\ row.status = "ACTIVE" /\ Matches(user.dept, row.rule)
Candidate(p, row) == \/ user.status = "ACTIVE" /\ row.status = "ACTIVE" /\ Matches(user.dept, row.rule)
                     \/ Tagged({p}) # {}

Saved(q, p, row) ==
    /\ Edited /\ policy' = [policy EXCEPT ![p] = row]
    /\ IF Candidate(p, row) THEN Start(q, [NewOp("policy", "reconcile") EXCEPT !.table[p] = row])
                            ELSE MayStart(q) /\ UNCHANGED op
    /\ UNCHANGED <<user, tagged, package, role, rows, access, dyn, moves, clock, faults, stale>>

CreatePolicy(q) == \E p \in Policies, row \in Policy : ~Exists(p) /\ row.status = "ACTIVE" /\ Saved(q, p, row)
UpdatePolicy(q) == \E p \in Policies, row \in Policy : Exists(p) /\ row # policy[p] /\ Saved(q, p, row)

\* delete_birthright_policy: nothing is rechecked; a row that refers to it forbids it.
DeletePolicy(p) ==
    /\ Edited /\ Exists(p) /\ p \notin tagged
    /\ policy' = [policy EXCEPT ![p] = Absent] /\ stale' = stale \cup {"birthright"}
    /\ UNCHANGED <<user, tagged, package, role, rows, access, dyn, moves, clock, op, faults>>

\* The endpoint that evaluates one person.
Evaluate(q) == /\ Edited /\ Start(q, NewOp("evaluate", "plan"))
               /\ UNCHANGED <<user, policy, tagged, package, role, rows, access, dyn, moves, clock, faults, stale>>

(***************************************************************************)
(* reconcile_birthright_policies_for_user.                                 *)
(***************************************************************************)
\* Live rows of a policy that does not match, except where it does not take back.
\* Mutant: only policies that are ACTIVE are gone through.
UnfoundedOfActive(o) == {s \in Tagged(Policies) : LET p == rows[s].source IN
                    o.table[p].status = "ACTIVE" /\ ~Applies(o.table, p, o.user.dept) /\ ~o.table[p].sticky}
Unfounded(o) == {s \in Tagged(Policies) : LET p == rows[s].source IN
                    ~Applies(o.table, p, o.user.dept) /\ (o.table[p] = Absent \/ ~o.table[p].sticky)}

Reconcile(q) ==
    /\ op[q].phase = "reconcile"
    /\ LET o == op[q] IN
         op' = [op EXCEPT ![q].phase = "revoke", ![q].revoke = {[slot |-> s, status |-> rows[s].status] : s \in Unfounded(o)}]
    /\ UNCHANGED <<user, policy, tagged, package, role, rows, access, dyn, moves, clock, edits, faults, stale>>

\* revoke_assignment, for a row as it was when it was read.
RevokeOne(q) == op[q].phase = "revoke" /\ \E r \in op[q].revoke, ok \in BOOLEAN :
    /\ (ok \/ r.status = "ACTIVE") /\ Works(ok)
    /\ IF ok THEN /\ access' = IF r.status = "ACTIVE" /\ rows[r.slot] # Free THEN access \ {rows[r.slot].target} ELSE access
                  /\ rows' = [rows EXCEPT ![r.slot] = Free]
             ELSE UNCHANGED <<rows, access>>
    /\ op' = [op EXCEPT ![q].revoke = @ \ {r}, ![q].failed = @ \/ ~ok]
    /\ UNCHANGED <<user, policy, tagged, package, role, dyn, moves, clock, edits, stale>>

\* What follows the birthright part; and what is up to date once it is over.
Follows(o) == IF o.kind \in {"edit", "sync", "move"} THEN "ensure" ELSE "idle"
Leaves(q)  == op' = [op EXCEPT ![q] = IF Follows(op[q]) = "idle" THEN Idle ELSE [@ EXCEPT !.phase = Follows(op[q])]]
Settled(o) == IF o.kind = "evaluate" THEN stale
              ELSE IF o.failed THEN stale \cup {"birthright"}
              ELSE stale \ {"birthright"}

\* Whoever is disabled is given nothing.
AfterRevoking(q) == IF op[q].user.status = "DISABLED" THEN Leaves(q) /\ stale' = Settled(op[q])
                    ELSE Goto(q, "plan") /\ UNCHANGED stale

RevokedAll(q) ==
    /\ op[q].phase = "revoke" /\ op[q].revoke = {} /\ AfterRevoking(q)
    /\ UNCHANGED <<user, policy, tagged, package, role, rows, access, dyn, moves, clock, edits, faults>>

(***************************************************************************)
(* evaluate_birthright_policies and _grant_birthright_target.  The model   *)
(* reads the items of package and role with the policies.                  *)
(***************************************************************************)
\* The policies that are ACTIVE now, those already loaded as they were.
Loaded(o) == [p \in Policies |-> IF policy[p].status # "ACTIVE" THEN Absent
                                 ELSE IF o.table[p].status = "ACTIVE" THEN o.table[p] ELSE policy[p]]

Plan(q) ==
    /\ op[q].phase = "plan"
    /\ op' = [op EXCEPT ![q].phase = "grant", ![q].grant =
                {[target |-> t, policy |-> p] : t \in Targets, p \in {x \in Policies : Applies(Loaded(op[q]), x, op[q].user.dept)}}
                \cap UNION {{[target |-> t, policy |-> p] : t \in Given(p)} : p \in Policies}]
    /\ UNCHANGED <<user, policy, tagged, package, role, rows, access, dyn, moves, clock, edits, faults, stale>>

\* Whether a live row of any source holds the target is looked up before each grant.
AlreadyHeld(t, p)  == HeldOf(t) # {}

LookUp(q) == op[q].phase = "grant" /\ \E g \in op[q].grant :
    /\ op[q].chosen = {}
    /\ op' = [op EXCEPT ![q].grant = @ \ {g}, ![q].chosen = IF AlreadyHeld(g.target, g.policy) THEN {} ELSE {g}]
    /\ UNCHANGED <<user, policy, tagged, package, role, rows, access, dyn, moves, clock, edits, faults, stale>>

\* A policy deleted meanwhile is an error nobody catches.
GrantOne(q) == op[q].phase = "grant" /\ \E g \in op[q].chosen :
    /\ IF Exists(g.policy)
       THEN /\ Unused # {}
            /\ rows' = [rows EXCEPT ![Fresh] = [target |-> g.target, source |-> g.policy, status |-> "ELIGIBLE"]]
            /\ tagged' = tagged \cup {g.policy} /\ op' = [op EXCEPT ![q].chosen = {}] /\ UNCHANGED stale
       ELSE Ends(q) /\ stale' = stale \cup {"birthright", "dynamic"} /\ UNCHANGED <<rows, tagged>>
    /\ UNCHANGED <<user, policy, package, role, access, dyn, moves, clock, edits, faults>>

GrantedAll(q) ==
    /\ op[q].phase = "grant" /\ op[q].grant = {} /\ op[q].chosen = {}
    /\ Leaves(q) /\ stale' = Settled(op[q])
    /\ UNCHANGED <<user, policy, tagged, package, role, rows, access, dyn, moves, clock, edits, faults>>

(***************************************************************************)
(* evaluate_dynamic_groups_for_user (after a change of the person) and     *)
(* _reconcile_target (after one of the group): the former looks at groups  *)
(* that are ACTIVE only.                                                   *)
(***************************************************************************)
PerUser(o)   == o.kind \in {"edit", "sync", "move"}
Concerned(o) == dyn.status # "NONE" /\ o.mode # "OFF" /\ (PerUser(o) => dyn.status = "ACTIVE")
Belongs(o)   == dyn.status = "ACTIVE" /\ Matches(o.user.dept, dyn.rule)
NeedsGroup(o) == Concerned(o) /\ ~dyn.linked /\ (PerUser(o) => Belongs(o))

\* Mutant: the move keeps its status.
DoneUnsettled(q) == Ends(q)
Done(q) == op' = [op EXCEPT ![q] = IF @.kind = "move" THEN [@ EXCEPT !.phase = "settle"] ELSE Idle]

\* The group could not be made: the handler fails, and what it has not committed is lost;
\* a move is marked FAILED, and a sync goes on.
GivesUp(q) == /\ Ends(q) /\ stale' = stale \cup {"dynamic"}
              /\ moves' = IF op[q].kind = "move" THEN [moves EXCEPT ![op[q].move].status = "FAILED"] ELSE moves

\* _ensure_real_group: a group of the name, also one that an earlier try left, is a conflict.
EnsureGroup(q) == \E ok \in BOOLEAN :
    /\ op[q].phase = "ensure"
    /\ IF ~NeedsGroup(op[q]) THEN ok /\ Goto(q, "dynamic") /\ UNCHANGED <<dyn, moves, stale, faults>>
       ELSE IF dyn.real THEN ok /\ GivesUp(q) /\ UNCHANGED <<dyn, faults>>
       ELSE /\ Works(ok)
            /\ IF ok THEN /\ dyn' = [dyn EXCEPT !.real = TRUE]
                          /\ op' = [op EXCEPT ![q].phase = "dynamic", ![q].made = TRUE] /\ UNCHANGED <<moves, stale>>
                     ELSE GivesUp(q) /\ UNCHANGED dyn
    /\ UNCHANGED <<user, policy, tagged, package, role, rows, access, clock, edits>>

Commits(o) == [dyn EXCEPT !.linked = @ \/ o.made, !.mode = IF o.kind = "mode" THEN o.mode ELSE @]
Member(o)  == [target |-> Group, source |-> "dynamic", status |-> o.mode]

\* create_assignment; refused, it rolls back also the link to the new group, and the mode.
Join(o, ok) == IF ok THEN /\ Unused # {} /\ rows' = [rows EXCEPT ![Fresh] = Member(o)] /\ dyn' = Commits(o)
                          /\ access' = IF o.mode = "ACTIVE" THEN access \cup {Group} ELSE access
                     ELSE o.mode = "ACTIVE" /\ UNCHANGED <<rows, access, dyn>>

\* _promote_to_active.
Promote(o, s, ok) == /\ dyn' = Commits(o)
                     /\ rows' = IF ok THEN [rows EXCEPT ![s].status = "ACTIVE"] ELSE rows
                     /\ access' = IF ok THEN access \cup {Group} ELSE access

\* _demote_to_eligible does not look whether the removal worked.
\* Mutant: the row only.
DemoteRow(o, s, ok) == dyn' = Commits(o) /\ rows' = [rows EXCEPT ![s].status = "ELIGIBLE"] /\ UNCHANGED access
Demote(o, s, ok) == /\ dyn' = Commits(o) /\ rows' = [rows EXCEPT ![s].status = "ELIGIBLE"]
                    /\ access' = IF ok THEN access \ {Group} ELSE access

Expel(o, s, ok) == /\ dyn' = Commits(o)
                   /\ rows' = IF ok THEN [rows EXCEPT ![s] = Free] ELSE rows
                   /\ access' = IF ok /\ rows[s].status = "ACTIVE" THEN access \ {Group} ELSE access

Membership(o, ok) ==
    IF ~Concerned(o) THEN ok /\ dyn' = Commits(o) /\ UNCHANGED <<rows, access>>
    ELSE IF DynamicRow = {} THEN IF Belongs(o) THEN Join(o, ok) ELSE ok /\ dyn' = Commits(o) /\ UNCHANGED <<rows, access>>
    ELSE \E s \in DynamicRow :
           IF ~Belongs(o) THEN (rows[s].status = "ELIGIBLE" => ok) /\ Expel(o, s, ok)
           ELSE IF rows[s].status = o.mode THEN ok /\ dyn' = Commits(o) /\ UNCHANGED <<rows, access>>
           ELSE IF o.mode = "ACTIVE" THEN Promote(o, s, ok) ELSE Demote(o, s, ok)

UpdateMembership(q) == \E ok \in BOOLEAN :
    /\ op[q].phase = "dynamic" /\ Works(ok) /\ Membership(op[q], ok) /\ Done(q)
    /\ stale' = IF ~ok THEN stale \cup {"dynamic"} ELSE IF Concerned(op[q]) THEN stale \ {"dynamic"} ELSE stale
    /\ UNCHANGED <<user, policy, tagged, package, role, moves, clock, edits>>

(***************************************************************************)
(* Administration of the dynamic group.                                    *)
(***************************************************************************)
CreateDynamicGroup == \E r \in Rules :
    /\ Edited /\ dyn.status = "NONE"
    /\ dyn' = [dyn EXCEPT !.status = "ACTIVE", !.rule = r, !.mode = "OFF", !.linked = FALSE]
    /\ stale' = stale \ {"dynamic"}
    /\ UNCHANGED <<user, policy, tagged, package, role, rows, access, moves, clock, op, faults>>

UpdateDynamicGroup(q) == \E r \in Rules, s \in {"ACTIVE", "DISABLED"} :
    /\ Edited /\ dyn.status # "NONE"
    /\ dyn' = [dyn EXCEPT !.rule = r, !.status = s] /\ dyn' # dyn
    /\ IF dyn.mode # "OFF" THEN Start(q, NewOp("rule", "ensure")) ELSE MayStart(q) /\ UNCHANGED op
    /\ UNCHANGED <<user, policy, tagged, package, role, rows, access, moves, clock, faults, stale>>

\* Turned off, the group keeps whom it has.
SetSyncMode(q) == \E m \in {"OFF", "ELIGIBLE", "ACTIVE"} :
    /\ Edited /\ dyn.status # "NONE" /\ m # dyn.mode
    /\ IF m = "OFF" THEN MayStart(q) /\ dyn' = [dyn EXCEPT !.mode = m] /\ UNCHANGED op
                    ELSE Start(q, [NewOp("mode", "ensure") EXCEPT !.mode = m]) /\ UNCHANGED dyn
    /\ UNCHANGED <<user, policy, tagged, package, role, rows, access, moves, clock, faults, stale>>

\* delete_dynamic_group: its members keep what they have, with no rule behind it.
DeleteDynamicGroup ==
    /\ Edited /\ dyn.status # "NONE"
    /\ dyn' = [dyn EXCEPT !.status = "NONE", !.mode = "OFF", !.linked = FALSE]
    /\ rows' = [s \in Slots |-> IF s \in DynamicRow THEN [rows[s] EXCEPT !.source = "manual"] ELSE rows[s]]
    /\ UNCHANGED <<user, policy, tagged, package, role, access, moves, clock, op, faults, stale>>

(***************************************************************************)
(* Scheduled moves.                                                        *)
(***************************************************************************)
\* schedule_move replaces what is still scheduled.
Replaced == [m \in DOMAIN moves |-> IF moves[m].status = "SCHEDULED" THEN [moves[m] EXCEPT !.status = "CANCELLED"] ELSE moves[m]]

ScheduleMove == \E d \in Depts, at \in clock + 1 .. MaxClock :
    /\ Len(moves) < MaxMoves
    /\ moves' = Append(Replaced, [dept |-> d, at |-> at, status |-> "SCHEDULED"])
    /\ UNCHANGED <<user, policy, tagged, package, role, rows, access, dyn, clock, op, edits, faults, stale>>

CancelMove == \E m \in DOMAIN moves :
    /\ moves[m].status = "SCHEDULED"
    /\ moves' = [moves EXCEPT ![m].status = "CANCELLED"]
    /\ UNCHANGED <<user, policy, tagged, package, role, rows, access, dyn, clock, op, edits, faults, stale>>

\* sweep_pending_moves and apply_move, up to the commit of the department.
ApplyMove == \E m \in DOMAIN moves, ok \in BOOLEAN :
    /\ moves[m].status = "SCHEDULED" /\ moves[m].at <= clock /\ Works(ok) /\ MayStart(Worker)
    /\ IF ok THEN /\ user' = [user EXCEPT !.dept = moves[m].dept]
                  /\ op' = [op EXCEPT ![Worker] = [NewOp("move", "reconcile") EXCEPT !.user.dept = moves[m].dept, !.move = m]]
                  /\ UNCHANGED moves
             ELSE moves' = [moves EXCEPT ![m].status = "FAILED"] /\ UNCHANGED <<user, op>>
    /\ UNCHANGED <<policy, tagged, package, role, rows, access, dyn, clock, edits, stale>>

SettleMove(q) ==
    /\ op[q].phase = "settle"
    /\ moves' = [moves EXCEPT ![op[q].move].status = "APPLIED"] /\ Ends(q)
    /\ UNCHANGED <<user, policy, tagged, package, role, rows, access, dyn, clock, edits, faults, stale>>

(***************************************************************************)
(* Everything else that touches the same rows, in one step each: access by *)
(* hand (create_assignment), its activation and end, and the contents of   *)
(* package and business role.                                              *)
(***************************************************************************)
AssignByHand == \E t \in ByHand :
    /\ Edited /\ Unused # {}
    /\ rows' = [rows EXCEPT ![Fresh] = [target |-> t, source |-> "manual", status |-> "ELIGIBLE"]]
    /\ UNCHANGED <<user, policy, tagged, package, role, access, dyn, moves, clock, op, faults, stale>>

\* activate_assignment takes away another live row for the target first.
Activate(s) == \E other \in SUBSET (HeldOf(rows[s].target) \ {s}) :
    /\ Edited /\ rows[s].status = "ELIGIBLE"
    /\ Cardinality(other) = IF HeldOf(rows[s].target) = {s} THEN 0 ELSE 1
    /\ rows' = [x \in Slots |-> IF x \in other THEN Free ELSE IF x = s THEN [rows[s] EXCEPT !.status = "ACTIVE"] ELSE rows[x]]
    /\ access' = access \cup {rows[s].target}
    /\ stale' = IF \E x \in other : rows[x].source = "dynamic" THEN stale \cup {"dynamic"} ELSE stale
    /\ UNCHANGED <<user, policy, tagged, package, role, dyn, moves, clock, op, faults>>

Revoke(s) ==
    /\ Edited /\ rows' = [rows EXCEPT ![s] = Free]
    /\ access' = IF rows[s].status = "ACTIVE" THEN access \ {rows[s].target} ELSE access
    /\ stale' = stale \cup {IF rows[s].source = "dynamic" THEN "dynamic" ELSE "birthright"}
    /\ UNCHANGED <<user, policy, tagged, package, role, dyn, moves, clock, op, faults>>

EditBundles ==
    /\ Edited /\ package' \in Packages /\ role' \in BOOLEAN /\ <<package', role'>> # <<package, role>>
    /\ stale' = stale \cup {"birthright"}
    /\ UNCHANGED <<user, policy, tagged, rows, access, dyn, moves, clock, op, faults>>

Tick == /\ clock < MaxClock /\ clock' = clock + 1
        /\ UNCHANGED <<user, policy, tagged, package, role, rows, access, dyn, moves, op, edits, faults, stale>>

Crash == /\ Busy # {} /\ Count("crash")
         /\ op' = [q \in Procs |-> Idle] /\ stale' = {"birthright", "dynamic"}
         /\ UNCHANGED <<user, policy, tagged, package, role, rows, access, dyn, moves, clock, edits>>

Continue(q) == \/ Reconcile(q) \/ RevokeOne(q) \/ RevokedAll(q)
               \/ Plan(q) \/ LookUp(q) \/ GrantOne(q) \/ GrantedAll(q)
               \/ EnsureGroup(q) \/ UpdateMembership(q) \/ SettleMove(q)

Next == \/ \E q \in Requests : \/ EditDepartment(q) \/ SyncPerson(q) \/ CreatePolicy(q) \/ UpdatePolicy(q) \/ Evaluate(q)
                              \/ UpdateDynamicGroup(q) \/ SetSyncMode(q)
        \/ \E p \in Policies : DeletePolicy(p)
        \/ CreateDynamicGroup \/ DeleteDynamicGroup
        \/ ScheduleMove \/ CancelMove \/ ApplyMove
        \/ AssignByHand \/ (\E s \in Held : Activate(s) \/ Revoke(s)) \/ EditBundles
        \/ \E q \in Procs : Continue(q)
        \/ Tick \/ Crash

Spec == Init /\ [][Next]_vars

\* Handlers run on; the worker looks for due moves again and again.
FairSpec == Spec /\ WF_vars(\E q \in Procs : Continue(q)) /\ SF_vars(ApplyMove)

(***************************************************************************)
(* Properties.                                                             *)
(***************************************************************************)
\* The rows and the handlers are of the shapes the code gives them (models.py).
TypeOK ==
    /\ user \in [dept : Depts \cup {NoDept}, status : {"ACTIVE", "DISABLED"}]
    /\ policy \in [Policies -> Policy \cup {Absent}] /\ tagged \subseteq Policies
    /\ package \in Packages /\ role \in BOOLEAN
    /\ rows \in [Slots -> Row \cup {Free}] /\ access \subseteq Targets \cup {Group}
    /\ dyn \in Dynamic /\ moves \in Seq(Move) /\ clock \in Nat /\ op \in [Procs -> Handler \cup {Idle}]
    /\ stale \subseteq {"birthright", "dynamic"}

Quiet == Busy = {}

\* Birthright access is what the policies say: nobody keeps what a policy gave that no
\* longer matches (unless it does not take back), and an active person holds, from
\* whatever source, all that the matching policies give.
BirthrightFollows ==
    /\ \A s \in Tagged(Policies) : LET p == rows[s].source IN
         policy[p] # Absent => Applies(policy, p, user.dept) \/ policy[p].sticky
    /\ user.status = "ACTIVE" =>
         \A p \in Policies : Applies(policy, p, user.dept) => \A t \in Given(p) : HeldOf(t) # {}

\* While the group is synced, its members are the people the rule matches.
DynamicFollows == dyn.status # "NONE" /\ dyn.mode # "OFF" =>
    (DynamicRow # {} <=> dyn.status = "ACTIVE" /\ Matches(user.dept, dyn.rule))

\* Whatever the order of edits, syncs, moves and saved policies, once nothing runs the
\* access is up to date -- but for what the code does not push (the contents of bundles, a
\* deleted policy, a revocation by hand) or what failed.
Reconciled == Quiet => /\ "birthright" \notin stale => BirthrightFollows
                       /\ "dynamic" \notin stale => DynamicFollows

\* Policies overlap and are evaluated again and again: no target is granted twice.
OneGrant == \A t \in Targets : Cardinality({s \in HeldOf(t) : rows[s].source \in Policies}) <= 1

\* What the directory gives has an ACTIVE row behind it: across revocations, promotions and
\* demotions nothing is left that no list shows.
AccessBacked == Quiet /\ faults["refused"] = 0 => \A t \in access : \E s \in HeldOf(t) : rows[s].status = "ACTIVE"

\* A move is APPLIED only when the access is that of the new department, also when the
\* process stopped halfway and the move was taken up again.
MovesReconciled == \A m \in DOMAIN moves :
    moves[m].status = "SCHEDULED" /\ moves'[m].status = "APPLIED" /\ "birthright" \notin stale =>
        user.dept = moves[m].dept /\ BirthrightFollows

\* No scheduled move stays so past its day, whether the directory answers or not.
MovesSettle == \A m \in 1..MaxMoves :
    (m \in DOMAIN moves /\ moves[m].status = "SCHEDULED" /\ moves[m].at <= clock)
        ~> (m \in DOMAIN moves /\ moves[m].status # "SCHEDULED")
=============================================================================
