---------------------------- MODULE Assignments ----------------------------
(***************************************************************************)
(* The assignment engine: one person's access assignments, the rows that   *)
(* record them, and the directory that really grants the access.           *)
(*                                                                         *)
(* Every handler of services/assignments.py and every worker that touches  *)
(* an assignment is a coroutine of one asyncio process.  It reads the row, *)
(* awaits the provider, and commits columns computed from what it read;    *)
(* rows carry no version, so at each await another handler may commit.     *)
(* A handler is one operation record op[p] that moves through phases:      *)
(*                                                                         *)
(*   oust    remove the superseded row's real access at the provider       *)
(*   replace commit that row as REVOKED                                    *)
(*   grant   add the real access       remove  take the real access away   *)
(*   commit  write the row             link    list the mapped grants      *)
(*   next    take the next mapped grant, a nested call of the same handler *)
(*   apply   (directory sync) write what the provider listed               *)
(*                                                                         *)
(* A nested call keeps the rest of its caller's work in op[p].queue.       *)
(* Persons are independent, so the rows here are one person's.  The reads  *)
(* a handler makes before its first write or provider call are one step.   *)
(***************************************************************************)
EXTENDS Integers, FiniteSets

CONSTANTS
    Rows,        \* identities of AccessAssignment rows
    Targets,     \* groups, roles and application roles
    Groups,      \* the targets that are directory groups
    Linked,      \* Linked[g]: targets that an active mapping grants to g's members
    Conflict,    \* pairs on opposite sides of an active, unexcepted SoD policy
    Outside,     \* targets that are also managed in the directory itself
    Payloads,    \* the AssignmentCreate bodies the administrators send
    Requests,    \* API requests in flight
    MaxInFlight, \* bound: handlers and sweeps under way at once (1 = serialised)
    MaxHours,    \* the provider's max_self_activation_hours
    MaxClock,    \* bound on the clock
    Faults,      \* which faults happen: "refused", "lost", "read", "crash"
    MaxFaults,   \* bound on how many of them happen
    NoRow, NoGroup

NoTime  == -1
Time    == Nat \cup {NoTime}
Workers == {"activation", "expiry", "scheduler"}
Procs   == Requests \cup Workers
Actors  == {"owner", "admin", "override"}

Payload == [target : Targets, kind : {"PERMANENT", "TEMPORARY"}, approval : BOOLEAN,
            start : Time, exp : Time, bypass : BOOLEAN, override : BOOLEAN]

ASSUME ConstantsAssumption ==
    /\ Groups \subseteq Targets
    /\ Linked \in [Groups -> SUBSET (Targets \ Groups)]
    /\ Conflict \subseteq Targets \X Targets
    /\ \A c \in Conflict : <<c[2], c[1]>> \in Conflict
    /\ Outside \subseteq Targets
    /\ Payloads \subseteq Payload
    /\ MaxInFlight \in Nat /\ MaxHours \in Nat /\ MaxClock \in Nat /\ MaxFaults \in Nat
    /\ NoRow \notin Rows /\ NoGroup \notin Groups /\ IsFiniteSet(Requests)

(***************************************************************************)
(* State.  `approved' and `sanctioned' are history: the rows somebody      *)
(* approved, and the targets some administrator, mapping or approver has   *)
(* at some time decided this person may have.                              *)
(***************************************************************************)
VARIABLES rows, real, members, clock, op, faults, approved, sanctioned

vars == <<rows, real, members, clock, op, faults, approved, sanctioned>>
history == <<approved, sanctioned>>

Final    == {"EXPIRED", "REVOKED", "REJECTED"}
Standing == {"ELIGIBLE", "SCHEDULED", "ACTIVE"}
Statuses == Final \cup Standing \cup {"PENDING_APPROVAL"}

Row == [status : Statuses, target : Targets, kind : {"PERMANENT", "TEMPORARY"},
        approval : BOOLEAN, start : Time, exp : Time, bypass : BOOLEAN,
        via : Groups \cup {NoGroup}, waived : BOOLEAN]

Absent == [status |-> "ABSENT"]
Idle   == [phase |-> "idle"]

Queue == [phase : {"link", "next"}, kind : {"activate", "deactivate", "revoke", "sync"},
          group : Groups \cup {NoGroup}, actor : Actors, hours : Nat,
          todo : SUBSET [row : Rows, seen : Row]]

Kinds  == {"create", "activate", "deactivate", "revoke", "approve", "reject",
           "start", "expire", "lapse"}
Phases == {"oust", "replace", "grant", "remove", "commit"}

Call == [phase : Phases, kind : Kinds, row : Rows, seen : Row, after : Row,
         victim : Rows \cup {NoRow}, ousted : BOOLEAN, actor : Actors, hours : Nat,
         queue : Queue \cup {Idle}]

Sync == [phase : {"apply"}, listing : SUBSET Groups]

Working(o) == o.phase \in Phases
Present(r) == rows[r].status # "ABSENT"
Live(r)    == Present(r) /\ rows[r].status \notin Final

Member(t)  == {t} \cap Groups

Init ==
    /\ rows = [r \in Rows |-> Absent]
    /\ real = {}
    /\ members = {}
    /\ clock = 0
    /\ op = [p \in Procs |-> Idle]
    /\ faults = 0
    /\ approved = {}
    /\ sanctioned = {}

(***************************************************************************)
(* The SoD check.  A target is held when a row for it is ACTIVE or         *)
(* ELIGIBLE, when the synchronised memberships list it, or when the live   *)
(* directory read returns it; that read fails open.                        *)
(***************************************************************************)
\* Mutant: only the directory is asked, not the assignment rows.
HoldsThere(t, live) ==
    \/ t \in members
    \/ live /\ t \in real \ Groups

Holds(t, live) ==
    \/ \E r \in Rows : rows[r].status \in {"ACTIVE", "ELIGIBLE"} /\ rows[r].target = t
    \/ t \in members
    \/ live /\ t \in real \ Groups

SodConflicts(t, live) == {u \in Targets : <<t, u>> \in Conflict /\ Holds(u, live)}

\* The live read answers, or it fails and spends a fault.
LiveRead(live) ==
    \/ live /\ UNCHANGED faults
    \/ ~live /\ "read" \in Faults /\ faults < MaxFaults /\ faults' = faults + 1

(***************************************************************************)
(* Starting a handler.                                                     *)
(***************************************************************************)
Free(p) == op[p] = Idle /\ Cardinality({q \in Procs : op[q] # Idle}) < MaxInFlight

\* Uuids are never shared: no handler in flight holds a fresh row.
Fresh(r) == ~Present(r) /\ \A q \in Procs : Working(op[q]) => op[q].row # r

CallOf(kind, r, seen, after, phase) ==
    [phase |-> phase, kind |-> kind, row |-> r, seen |-> seen, after |-> after,
     victim |-> NoRow, ousted |-> FALSE, actor |-> "admin", hours |-> 0, queue |-> Idle]

Enter(p, call) == op' = [op EXCEPT ![p] = call]

\* The rows the supersede query of r may return: it takes whichever comes first.
Superseded(r, t) ==
    {v \in Rows \ {r} : rows[v].status \in {"ACTIVE", "SCHEDULED", "ELIGIBLE"} /\ rows[v].target = t}

\* Supersede, if there is something to supersede, then grant.
EnterGrant(p, call) ==
    IF Superseded(call.row, call.after.target) = {}
    THEN Enter(p, [call EXCEPT !.phase = "grant"])
    ELSE \E v \in Superseded(call.row, call.after.target) :
            Enter(p, [call EXCEPT !.victim = v, !.ousted = (rows[v].status = "ACTIVE"),
                                  !.phase = IF rows[v].status = "ACTIVE" THEN "oust" ELSE "replace"])

(***************************************************************************)
(* create_assignment, as the Admin endpoint calls it (always SoD-checked). *)
(***************************************************************************)
Valid(d) ==
    /\ d.bypass => ~d.approval
    /\ IF d.kind = "TEMPORARY" THEN d.exp # NoTime /\ d.exp > d.start ELSE d.exp = NoTime

InitialStatus(d) ==
    IF d.bypass THEN IF d.start > clock THEN "SCHEDULED" ELSE "ACTIVE"
    ELSE IF d.approval THEN "PENDING_APPROVAL" ELSE "ELIGIBLE"

\* A start that is not in the future is only ever compared as "has come": 0.
NewRow(d, status, g, waived) ==
    [status |-> status, target |-> d.target, kind |-> d.kind, approval |-> d.approval,
     start |-> IF d.start > clock THEN d.start ELSE 0, exp |-> d.exp, bypass |-> d.bypass,
     via |-> g, waived |-> waived]

CreateAssignment(p) ==
    \E d \in Payloads, r \in Rows, live \in BOOLEAN :
        /\ Free(p) /\ Fresh(r) /\ Valid(d)
        /\ LiveRead(live)
        /\ LET conflicts == SodConflicts(d.target, live)
               new == NewRow(d, InitialStatus(d), NoGroup, conflicts # {})
               call == CallOf("create", r, new, new, "commit")
           IN  /\ conflicts # {} => d.override
               /\ IF new.status = "ACTIVE" THEN EnterGrant(p, call) ELSE Enter(p, call)
        /\ sanctioned' = IF d.approval THEN sanctioned ELSE sanctioned \cup {d.target}
        /\ UNCHANGED <<rows, real, members, clock, approved>>

(***************************************************************************)
(* activate_assignment: owner or Admin, ELIGIBLE rows whose window is open *)
(* and whose SoD check is clean or overridden by an Admin.                 *)
(***************************************************************************)
\* Mutant: a row still waiting for its approval can be activated.
CanActivatePending(seen) ==
    /\ seen.status \in {"ELIGIBLE", "PENDING_APPROVAL"}
    /\ seen.start <= clock
    /\ seen.exp # NoTime => seen.exp > clock

CanActivate(seen) ==
    /\ seen.status = "ELIGIBLE"
    /\ seen.start <= clock
    /\ seen.exp # NoTime => seen.exp > clock

Activation(r, seen, hours, waived) ==
    CallOf("activate", r, seen,
           [seen EXCEPT !.status = "ACTIVE", !.exp = clock + hours, !.waived = waived], "grant")

ActivateAssignment(p) ==
    \E r \in Rows, actor \in Actors, hours \in 1..MaxHours, live \in BOOLEAN :
        /\ Free(p) /\ Present(r) /\ CanActivate(rows[r])
        /\ LiveRead(live)
        /\ LET conflicts == SodConflicts(rows[r].target, live) IN
            /\ conflicts # {} => actor = "override"
            /\ EnterGrant(p, [Activation(r, rows[r], hours, conflicts # {})
                                EXCEPT !.actor = actor, !.hours = hours])
        /\ UNCHANGED <<rows, real, members, clock, history>>

(***************************************************************************)
(* deactivate_assignment and revoke_assignment.                            *)
(***************************************************************************)
CanDeactivate(seen, actor) ==
    seen.status = "ACTIVE" /\ (seen.bypass => actor # "owner")

\* Mutant: the provider is never called.
DeactivationOnPaper(r, seen) ==
    CallOf("deactivate", r, seen,
           [seen EXCEPT !.status = "ELIGIBLE", !.exp = NoTime, !.bypass = FALSE], "commit")

Deactivation(r, seen) ==
    CallOf("deactivate", r, seen,
           [seen EXCEPT !.status = "ELIGIBLE", !.exp = NoTime, !.bypass = FALSE], "remove")

DeactivateAssignment(p) ==
    \E r \in Rows, actor \in Actors \ {"override"} :
        /\ Free(p) /\ Present(r) /\ CanDeactivate(rows[r], actor)
        /\ Enter(p, [Deactivation(r, rows[r]) EXCEPT !.actor = actor])
        /\ UNCHANGED <<rows, real, members, clock, faults, history>>

CanRevoke(seen) == seen.status \notin Final

Revocation(r, seen) ==
    CallOf("revoke", r, seen, [seen EXCEPT !.status = "REVOKED"],
           IF seen.status = "ACTIVE" THEN "remove" ELSE "commit")

RevokeAssignment(p) ==
    \E r \in Rows :
        /\ Free(p) /\ Present(r) /\ CanRevoke(rows[r])
        /\ Enter(p, Revocation(r, rows[r]))
        /\ UNCHANGED <<rows, real, members, clock, faults, history>>

(***************************************************************************)
(* approve_assignment, reject_assignment, and the outcome a finished       *)
(* workflow applies: some authorised decider settles a pending row.        *)
(***************************************************************************)
DecideAssignment(p) ==
    \E r \in Rows, verdict \in {"approve", "reject"} :
        /\ Free(p) /\ Present(r) /\ rows[r].status = "PENDING_APPROVAL"
        /\ Enter(p, CallOf(verdict, r, rows[r],
                [rows[r] EXCEPT !.status = IF verdict = "approve" THEN "ELIGIBLE" ELSE "REJECTED"],
                "commit"))
        /\ UNCHANGED <<rows, real, members, clock, faults, history>>

(***************************************************************************)
(* The sweeps.  Each re-reads its candidate in a session of its own.       *)
(***************************************************************************)
Overdue(r) == Present(r) /\ rows[r].exp # NoTime /\ rows[r].exp <= clock

\* Mutant: the row is expired without the provider being called.
ExpireOnPaper(r) ==
    /\ Free("expiry") /\ Overdue(r) /\ rows[r].status = "ACTIVE"
    /\ Enter("expiry", CallOf("expire", r, rows[r], [rows[r] EXCEPT !.status = "EXPIRED"], "commit"))
    /\ UNCHANGED <<rows, real, members, clock, faults, history>>

ExpireDue(r) ==
    /\ Free("expiry") /\ Overdue(r) /\ rows[r].status = "ACTIVE"
    /\ Enter("expiry", CallOf("expire", r, rows[r],
            IF rows[r].kind = "PERMANENT"
            THEN [rows[r] EXCEPT !.status = "ELIGIBLE", !.exp = NoTime]
            ELSE [rows[r] EXCEPT !.status = "EXPIRED"], "remove"))
    /\ UNCHANGED <<rows, real, members, clock, faults, history>>

LapseEligibility(r) ==
    /\ Free("expiry") /\ Overdue(r) /\ rows[r].status = "ELIGIBLE"
    /\ Enter("expiry", CallOf("lapse", r, rows[r], [rows[r] EXCEPT !.status = "EXPIRED"], "commit"))
    /\ UNCHANGED <<rows, real, members, clock, faults, history>>

\* Mutant: the worker waits until no other row stands for the target.
StartScheduledAlone(r) ==
    \E live \in BOOLEAN :
        /\ Free("activation") /\ rows[r].status = "SCHEDULED" /\ rows[r].start <= clock
        /\ LiveRead(live)
        /\ Superseded(r, rows[r].target) = {}
        /\ SodConflicts(rows[r].target, live) = {}
        /\ Enter("activation", CallOf("start", r, rows[r],
                [rows[r] EXCEPT !.status = "ACTIVE", !.waived = FALSE], "grant"))
        /\ UNCHANGED <<rows, real, members, clock, history>>

StartScheduled(r) ==
    \E live \in BOOLEAN :
        /\ Free("activation") /\ rows[r].status = "SCHEDULED" /\ rows[r].start <= clock
        /\ LiveRead(live)
        /\ SodConflicts(rows[r].target, live) = {}
        /\ Enter("activation", CallOf("start", r, rows[r],
                [rows[r] EXCEPT !.status = "ACTIVE", !.waived = FALSE], "grant"))
        /\ UNCHANGED <<rows, real, members, clock, history>>

(***************************************************************************)
(* Supersession: take the old row's access away, commit it as REVOKED.     *)
(* That commit also commits a row this session has only flushed, so the    *)
(* row of a bypass creation is ACTIVE from here on.                        *)
(***************************************************************************)
Oust(p) ==
    /\ op[p].phase = "oust"
    /\ real' = real \ {op[p].after.target}
    /\ op' = [op EXCEPT ![p].phase = "replace"]
    /\ UNCHANGED <<rows, members, clock, faults, history>>

\* The caller's listing is loaded in the same session, so it sees this session's write.
Dropped(queue, v) ==
    IF queue = Idle THEN queue
    ELSE [queue EXCEPT !.todo =
            {IF item.row = v THEN [item EXCEPT !.seen.status = "REVOKED"] ELSE item : item \in @}]

Replace(p) ==
    /\ op[p].phase = "replace"
    /\ rows' = [rows EXCEPT ![op[p].victim].status = "REVOKED",
                            ![op[p].row] = IF op[p].kind = "create" THEN op[p].after ELSE @]
    /\ members' = IF op[p].ousted THEN members \ Member(op[p].after.target) ELSE members
    /\ Enter(p, [op[p] EXCEPT !.phase = "grant", !.queue = Dropped(op[p].queue, op[p].victim)])
    /\ UNCHANGED <<real, clock, faults, history>>

(***************************************************************************)
(* Provider calls.  Both are idempotent; the answer comes a step later.    *)
(***************************************************************************)
GrantAccess(p) ==
    /\ op[p].phase = "grant"
    /\ real' = real \cup {op[p].after.target}
    /\ op' = [op EXCEPT ![p].phase = "commit"]
    /\ UNCHANGED <<rows, members, clock, faults, history>>

RemoveAccess(p) ==
    /\ op[p].phase = "remove"
    /\ real' = real \ {op[p].after.target}
    /\ op' = [op EXCEPT ![p].phase = "commit"]
    /\ UNCHANGED <<rows, members, clock, faults, history>>

\* The provider refuses the call, and the handler gives up without a write.
CallRefused(p) ==
    /\ "refused" \in Faults /\ faults < MaxFaults
    /\ op[p].phase \in {"oust", "grant", "remove"}
    /\ op' = [op EXCEPT ![p] = @.queue]
    /\ faults' = faults + 1
    /\ UNCHANGED <<rows, real, members, clock, history>>

\* The provider does it, the client times out: the handler gives up all the same.
ReplyLost(p) ==
    /\ "lost" \in Faults /\ faults < MaxFaults
    /\ op[p].phase \in {"oust", "grant", "remove"}
    /\ real' = IF op[p].phase = "grant" THEN real \cup {op[p].after.target}
                                        ELSE real \ {op[p].after.target}
    /\ op' = [op EXCEPT ![p] = @.queue]
    /\ faults' = faults + 1
    /\ UNCHANGED <<rows, members, clock, history>>

(***************************************************************************)
(* The commit.  The session writes the columns that differ from what it    *)
(* read, over whatever the row has become.                                 *)
(***************************************************************************)
Written(now, was, new) == IF new # was THEN new ELSE now

Flush(row, seen, after) ==
    [row EXCEPT !.status = Written(@, seen.status, after.status),
                !.exp    = Written(@, seen.exp, after.exp),
                !.bypass = Written(@, seen.bypass, after.bypass),
                !.waived = Written(@, seen.waived, after.waived)]

Commit(p) ==
    /\ op[p].phase = "commit"
    /\ LET o == op[p]
           r == o.row
           granted == o.kind \in {"activate", "start"} \/ (o.kind = "create" /\ o.after.status = "ACTIVE")
           removed == o.kind \in {"deactivate", "expire"} \/ (o.kind = "revoke" /\ o.seen.status = "ACTIVE")
           cascades == o.kind \in {"activate", "deactivate", "revoke"} /\ o.after.target \in Groups
       IN  /\ rows' = [rows EXCEPT ![r] = IF Present(r) THEN Flush(@, o.seen, o.after) ELSE o.after]
           /\ members' = IF granted THEN members \cup Member(o.after.target)
                         ELSE IF removed THEN members \ Member(o.after.target) ELSE members
           /\ op' = [op EXCEPT ![p] =
                        IF cascades
                        THEN [phase |-> "link", kind |-> o.kind, group |-> o.after.target,
                              actor |-> o.actor, hours |-> o.hours, todo |-> {}]
                        ELSE o.queue]
           /\ approved' = IF o.kind = "approve" THEN approved \cup {r} ELSE approved
           /\ sanctioned' = IF o.kind = "approve" THEN sanctioned \cup {o.after.target} ELSE sanctioned
    /\ UNCHANGED <<real, clock, faults>>

(***************************************************************************)
(* Group mappings: activating a group creates the rows its mappings lack   *)
(* and activates them; deactivating or revoking it does the same to them.  *)
(***************************************************************************)
\* Mutant: a grant that ended once is never created again.
MissingEver == {m \in Groups \X Targets :
                    /\ m[1] \in members /\ m[2] \in Linked[m[1]]
                    /\ \A r \in Rows : Present(r) => rows[r].target # m[2]}

Missing == {m \in Groups \X Targets :
                /\ m[1] \in members /\ m[2] \in Linked[m[1]]
                /\ \A r \in Rows : Live(r) => rows[r].target # m[2]}

MappingPayload(t) ==
    [target |-> t, kind |-> "PERMANENT", approval |-> FALSE, start |-> NoTime, exp |-> NoTime,
     bypass |-> FALSE, override |-> FALSE]

EvaluateMapping(p) ==
    /\ op[p].phase = "link" /\ op[p].kind \in {"activate", "sync"}
    /\ \E m \in Missing, r \in Rows :
        /\ Fresh(r)
        /\ rows' = [rows EXCEPT ![r] = NewRow(MappingPayload(m[2]), "ELIGIBLE", m[1], FALSE)]
        /\ sanctioned' = sanctioned \cup {m[2]}
    /\ UNCHANGED <<real, members, clock, op, faults, approved>>

LinkedRows(g, kind) ==
    {r \in Rows :
        /\ Live(r) /\ rows[r].via = g
        /\ kind = "activate" => rows[r].status = "ELIGIBLE" /\ rows[r].target \in Linked[g]
        /\ kind = "deactivate" => rows[r].status = "ACTIVE"}

Snapshot(S) == {[row |-> r, seen |-> rows[r]] : r \in S}

ListLinked(p) ==
    /\ op[p].phase = "link"
    /\ op[p].kind \in {"activate", "sync"} => Missing = {} \/ \A r \in Rows : ~Fresh(r)
    /\ op' = [op EXCEPT ![p] =
                IF @.kind = "sync" THEN Idle
                ELSE [@ EXCEPT !.phase = "next",
                               !.todo = Snapshot(LinkedRows(op[p].group, op[p].kind))]]
    /\ UNCHANGED <<rows, real, members, clock, faults, history>>

\* A nested call sees the row as the listing loaded it; if it cannot proceed, it is skipped.
NextLinked(p) ==
    /\ op[p].phase = "next"
    /\ \E item \in op[p].todo, live \in BOOLEAN :
        LET rest == [op[p] EXCEPT !.todo = @ \ {item}]
            conflicts == SodConflicts(item.seen.target, live)
            call == CASE rest.kind = "activate" ->
                            Activation(item.row, item.seen, rest.hours, conflicts # {})
                      [] rest.kind = "deactivate" -> Deactivation(item.row, item.seen)
                      [] OTHER -> Revocation(item.row, item.seen)
            proceeds == CASE rest.kind = "activate" ->
                                CanActivate(item.seen) /\ (conflicts # {} => rest.actor = "override")
                          [] rest.kind = "deactivate" -> CanDeactivate(item.seen, rest.actor)
                          [] OTHER -> CanRevoke(item.seen)
            nested == [call EXCEPT !.actor = rest.actor, !.hours = rest.hours, !.queue = rest]
        IN  /\ IF rest.kind = "activate" THEN LiveRead(live) ELSE live /\ UNCHANGED faults
            /\ IF ~proceeds THEN Enter(p, rest)
               ELSE IF rest.kind = "activate" THEN EnterGrant(p, nested) ELSE Enter(p, nested)
    /\ UNCHANGED <<rows, real, members, clock, history>>

FinishLinked(p) ==
    /\ op[p].phase = "next" /\ op[p].todo = {}
    /\ op' = [op EXCEPT ![p] = IF @.kind = "sync" THEN [@ EXCEPT !.phase = "link"] ELSE Idle]
    /\ UNCHANGED <<rows, real, members, clock, faults, history>>

(***************************************************************************)
(* The directory sync: list the real memberships, then write them, mark a  *)
(* row of each vanished membership REVOKED, and reconcile mapped grants.   *)
(***************************************************************************)
FetchDirectory ==
    /\ Free("scheduler")
    /\ op' = [op EXCEPT !["scheduler"] = [phase |-> "apply", listing |-> real \cap Groups]]
    /\ UNCHANGED <<rows, real, members, clock, faults, history>>

ActiveRows(g) == {r \in Rows : rows[r].status = "ACTIVE" /\ rows[r].target = g}

ApplySync ==
    /\ op["scheduler"].phase = "apply"
    /\ LET listing == op["scheduler"].listing
           gone    == members \ listing
           changed == \E g \in (members \cup listing) \ (members \cap listing) : Linked[g] # {}
       IN \E stale \in SUBSET Rows :
            /\ \A g \in gone : Cardinality(ActiveRows(g) \cap stale) = IF ActiveRows(g) = {} THEN 0 ELSE 1
            /\ stale \subseteq UNION {ActiveRows(g) : g \in gone}
            /\ rows' = [r \in Rows |-> IF r \in stale THEN [rows[r] EXCEPT !.status = "REVOKED"] ELSE rows[r]]
            /\ members' = listing
            /\ op' = [op EXCEPT !["scheduler"] =
                        IF changed
                        THEN [phase |-> "next", kind |-> "sync", group |-> NoGroup, actor |-> "admin", hours |-> 0,
                              todo |-> Snapshot({r \in Rows : Live(r) /\ rows[r].via \notin listing \cup {NoGroup}})]
                        ELSE Idle]
    /\ UNCHANGED <<real, clock, faults, history>>

(***************************************************************************)
(* The environment.                                                        *)
(***************************************************************************)
\* Somebody changes an outside-managed target in the directory itself.
DirectoryChanges ==
    /\ \E t \in Outside : real' = IF t \in real THEN real \ {t} ELSE real \cup {t}
    /\ UNCHANGED <<rows, members, clock, op, faults, history>>

\* The process dies; every handler in flight is lost, committed rows remain.
Crash ==
    /\ "crash" \in Faults /\ faults < MaxFaults
    /\ \E p \in Procs : op[p] # Idle
    /\ op' = [p \in Procs |-> Idle]
    /\ faults' = faults + 1
    /\ UNCHANGED <<rows, real, members, clock, history>>

Tick ==
    /\ clock < MaxClock
    /\ clock' = clock + 1
    /\ UNCHANGED <<rows, real, members, op, faults, history>>

Starts(p) ==
    \/ CreateAssignment(p)
    \/ ActivateAssignment(p)
    \/ DeactivateAssignment(p)
    \/ RevokeAssignment(p)
    \/ DecideAssignment(p)

Steps(p) ==
    \/ Oust(p)
    \/ Replace(p)
    \/ GrantAccess(p)
    \/ RemoveAccess(p)
    \/ Commit(p)
    \/ EvaluateMapping(p)
    \/ ListLinked(p)
    \/ NextLinked(p)
    \/ FinishLinked(p)

Sweeps(r) ==
    \/ ExpireDue(r)
    \/ LapseEligibility(r)
    \/ StartScheduled(r)

Next ==
    \/ \E p \in Requests : Starts(p)
    \/ \E r \in Rows : Sweeps(r)
    \/ FetchDirectory
    \/ ApplySync
    \/ \E p \in Procs : Steps(p) \/ CallRefused(p) \/ ReplyLost(p)
    \/ DirectoryChanges
    \/ Crash
    \/ Tick

Spec == Init /\ [][Next]_vars

-----------------------------------------------------------------------------
(***************************************************************************)
(* Correctness.                                                            *)
(***************************************************************************)

\* Every variable keeps its shape: rows, memberships and the record of each handler in flight.
TypeOK ==
    /\ rows \in [Rows -> Row \cup {Absent}]
    /\ real \subseteq Targets
    /\ members \subseteq Groups
    /\ clock \in Nat
    /\ op \in [Procs -> Call \cup Queue \cup Sync \cup {Idle}]
    /\ faults \in Nat
    /\ approved \subseteq Rows
    /\ sanctioned \subseteq Targets

\* A row that asked for an approval is usable, or was used up, only if somebody approved
\* it (create_assignment, approve_assignment, reject_assignment, and every handler that
\* writes back a status computed from an older read).
ApprovalRespected ==
    \A r \in Rows :
        rows[r].status \in Standing \cup {"EXPIRED"} /\ rows[r].approval => r \in approved

\* The engine never adds access at the provider that no administrator, mapping or
\* approver ever decided on, whatever is interleaved, lost or retried.
NoUnsanctionedAccess == real \subseteq sanctioned \cup Outside

\* The engine implements AccessPromise: every step of every handler, sweep, sync and fault
\* is a decision, a grant of something decided on, a withdrawal, or no change of access.
Promise == INSTANCE AccessPromise WITH access <- real
PromiseKept == Promise!Spec

(***************************************************************************)
(* The inductive invariant behind them.  A handler holds a copy of its     *)
(* row; what makes its blind write harmless for approvals is that the copy *)
(* names the same grant as the row, and was itself cleared when read.      *)
(***************************************************************************)
Cleared(r, row) ==
    row.status \in Standing \cup {"EXPIRED"} => (row.approval => r \in approved) /\ row.target \in sanctioned

SameGrant(a, b) == a.target = b.target /\ a.approval = b.approval

CallSound(o) ==
    /\ SameGrant(o.seen, o.after)
    /\ Cleared(o.row, o.seen)
    /\ o.kind # "approve" => Cleared(o.row, o.after)
    /\ IF Present(o.row) THEN SameGrant(rows[o.row], o.after) ELSE o.kind = "create"
    /\ o.phase \in {"oust", "replace", "grant"} =>
            o.kind \in {"create", "activate", "start"} /\ o.after.status = "ACTIVE"
    /\ o.phase \in {"oust", "replace"} => o.victim \in Rows \ {o.row} /\ Present(o.victim)

QueueSound(q) ==
    \A item \in q.todo :
        /\ Present(item.row)
        /\ SameGrant(rows[item.row], item.seen)
        /\ Cleared(item.row, item.seen)

RowsCleared == \A r \in Rows : Present(r) => Cleared(r, rows[r])

HandlersSound ==
    \A p \in Procs :
        /\ Working(op[p]) => CallSound(op[p]) /\ (op[p].queue # Idle => QueueSound(op[p].queue))
        /\ op[p].phase \in {"link", "next"} => QueueSound(op[p])

NewRowsApart ==
    \A p, q \in Procs :
        p # q /\ Working(op[p]) /\ Working(op[q]) /\ op[p].row = op[q].row => Present(op[p].row)

\* What every handler in flight knows about its row stays true enough for its commit, however
\* the others interleave (the reads at the top of each handler of services/assignments.py).
IndInv == TypeOK /\ RowsCleared /\ HandlersSound /\ NewRowsApart /\ NoUnsanctionedAccess

-----------------------------------------------------------------------------
(***************************************************************************)
(* What holds when handlers run one at a time (MaxInFlight = 1).           *)
(***************************************************************************)
Settled == \A p \in Procs : ~Working(op[p])

\* Two rows on opposite sides of an SoD policy are ACTIVE together only if an Admin's
\* override is on record for one of them (check_sod_conflicts and each of its callers).
SodExclusion ==
    \A r, s \in Rows :
        /\ r # s /\ rows[r].status = "ACTIVE" /\ rows[s].status = "ACTIVE"
        /\ <<rows[r].target, rows[s].target>> \in Conflict
        => rows[r].waived \/ rows[s].waived

\* No answer was lost and no process died so far, or they cannot.
Reliable == faults = 0 \/ Faults \cap {"lost", "crash"} = {}

\* With no handler half-way and nothing lost or cut off so far, access granted through the
\* engine is backed by an ACTIVE row, so some sweep or handler will still take it away (the
\* order of provider call and commit in activate_assignment, deactivate_assignment,
\* revoke_assignment and the sweeps).
NoOrphanAccess ==
    Reliable /\ Settled => \A t \in real \ Outside : \E r \in Rows : rows[r].status = "ACTIVE" /\ rows[r].target = t

\* When a sync that saw a mapped group's membership change has reconciled, the mapped grants
\* are exactly those of the person's groups: none missing, none left over (run_sync,
\* reconcile_group_role_mappings_for_user).
ReconcilesSync ==
    op["scheduler"].phase = "link" /\ op'["scheduler"] = Idle /\ faults = 0 =>
        /\ \A g \in members : \A t \in Linked[g] :
            (\E r \in Rows : Live(r) /\ rows[r].target = t) \/ \A r \in Rows : ~Fresh(r)
        /\ \A r \in Rows : Live(r) => rows[r].via \in members \cup {NoGroup}

(***************************************************************************)
(* The workers' loops run for ever, a poll reaches every due row, and a    *)
(* call that was started ends.  Requests are not obliged to arrive.        *)
(***************************************************************************)
Fairness ==
    /\ \A p \in Procs : WF_vars(Steps(p))
    /\ WF_vars(ApplySync)
    /\ \A r \in Rows : SF_vars(ExpireDue(r)) /\ SF_vars(StartScheduled(r))

FairSpec == Spec /\ Fairness

\* Access that has run out is taken away at the provider, whatever calls were refused, lost
\* or cut off by a crash on the way (expire_due_assignments: left ACTIVE, retried).
ExpiredAccessRemoved ==
    \A r \in Rows : rows[r].status = "ACTIVE" /\ Overdue(r)
        ~> Present(r) /\ rows[r].target \notin real

\* A scheduled row whose start has come is activated, withdrawn, or held back by an SoD
\* conflict (activate_due_assignments: left SCHEDULED, retried).
ScheduledAccessStarts ==
    \A r \in Rows : rows[r].status = "SCHEDULED" /\ rows[r].start <= clock
        ~> rows[r].status # "SCHEDULED" \/ SodConflicts(rows[r].target, TRUE) # {}
=============================================================================
