--------------------------- MODULE SodGovernance ---------------------------
(***************************************************************************)
(* Governance of separation of duties (services/sod.py): the policies, the *)
(* exceptions of one person from them, the requests for such exceptions    *)
(* and what granting one assigns, the end of exceptions with the access    *)
(* they covered (workers/sod_expiry.py), and the notifications about all   *)
(* of it.                                                                  *)
(*                                                                         *)
(* A target is a resource tuple; packages and business roles on a side are *)
(* expanded to them.  What becomes of an assignment otherwise, and its     *)
(* access in the directory, is the subject of Assignments; here a removal  *)
(* the directory refuses is a fault.                                       *)
(***************************************************************************)
EXTENDS Naturals, FiniteSets, Sequences, SequencesExt, FiniteSetsExt

CONSTANTS
    Policies, Targets,
    ReadLive,      \* targets whose direct holders are read from Graph: roles and applications
    Shapes,        \* pairs of sides a policy may have
    Settings,      \* values of SodNotificationSettings
    Admins, Worker,
    MaxRows, MaxExceptions, MaxRequests, MaxEdits, MaxInFlight, \* bounds
    FaultLimit     \* FaultLimit[f]: bound on how often fault f happens

Procs  == Admins \cup {Worker}
Faults == {"refused", "crash", "graph"}
Options == {"notify_on_new_violation", "notify_on_exception_expiring", "notify_on_exception_requested", "cooldown_enabled"}

ASSUME SodAssumption ==
    /\ \A s \in Shapes : s.a \in (SUBSET Targets) \ {{}} /\ s.b \in (SUBSET Targets) \ {{}} /\ s.a \cap s.b = {}
    /\ Settings \subseteq SUBSET Options /\ Worker \notin Admins /\ ReadLive \subseteq Targets
    /\ {MaxRows, MaxExceptions, MaxRequests, MaxEdits, MaxInFlight} \subseteq Nat /\ FaultLimit \in [Faults -> Nat]

VARIABLES
    policy,     \* policy[p]: its status and sides, or Absent
    rows,       \* access_assignments of the person, in the order of creation
    direct,     \* targets held outside AccessPilot
    recent,     \* targets deactivated or revoked within the cooldown
    exceptions, requests,
    notes,      \* notes[k]: unresolved notifications of key k
    noted,      \* policies that ever had a notification
    settings,   \* the options that are on
    op,         \* op[q]: the handler q runs
    edits, faults

access == <<rows, direct, recent>>
vars   == <<policy, access, exceptions, requests, notes, noted, settings, op, edits, faults>>

Absent    == [status |-> "ABSENT"]
Row       == [target : Targets, status : {"PENDING_APPROVAL", "ELIGIBLE", "ACTIVE", "FINAL"}, by : Nat]
Exception == [policy : Policies, state : {"open", "near", "expired"}, revoked : BOOLEAN]
\* exception, assignment: 0 for none; since: the rows there were when it was made.
Request   == [policy : Policies, target : Targets, routed : BOOLEAN, status : {"PENDING", "GRANTED", "DENIED"},
              exception : Nat, assignment : Nat, since : Nat]
Topics    == <<"NEW_VIOLATION", "EXCEPTION_EXPIRING", "EXCEPTION_EXPIRED">>
Keys      == ({"NEW_VIOLATION"} \X Policies) \cup ({"EXCEPTION_EXPIRING", "EXCEPTION_EXPIRED"} \X (1..MaxExceptions))
               \cup ({"EXCEPTION_REQUESTED"} \X (1..MaxRequests))
Idle      == [kind |-> "idle"]

Init == /\ policy = [p \in Policies |-> Absent] /\ rows = <<>> /\ direct = {} /\ recent = {} /\ exceptions = <<>>
        /\ requests = <<>> /\ notes = [k \in Keys |-> 0] /\ noted = {} /\ settings \in Settings
        /\ op = [q \in Procs |-> Idle] /\ edits = 0 /\ faults = [f \in Faults |-> 0]

Busy        == {q \in Procs : op[q] # Idle}
MayStart(q) == op[q] = Idle /\ Cardinality(Busy) < MaxInFlight
Edited      == edits < MaxEdits /\ edits' = edits + 1
Count(f)    == faults[f] < FaultLimit[f] /\ faults' = [faults EXCEPT ![f] = @ + 1]
Begin(q, o) == MayStart(q) /\ op' = [op EXCEPT ![q] = o]
Ends(q)     == op' = [op EXCEPT ![q] = Idle]
Granting    == Cardinality({q \in Procs : op[q].kind = "grant"})
RoomForRow  == Len(rows) + Granting < MaxRows
RoomForException == Len(exceptions) + Granting < MaxExceptions

(***************************************************************************)
(* Holdings, conflicts and violations.  `sees': the read from Graph works; *)
(* when it fails nothing direct is found there.                            *)
(***************************************************************************)
Exists(p)      == policy[p] # Absent
Enforced(p)    == policy[p].status = "ACTIVE"
IsStanding(r)  == rows[r].status \in {"ELIGIBLE", "ACTIVE"}
StandingOf(t)  == {r \in DOMAIN rows : rows[r].target = t /\ IsStanding(r)}
Holds(t, sees) == StandingOf(t) # {} \/ (t \in direct /\ (sees \/ t \notin ReadLive))
Sees(sees)     == IF sees THEN UNCHANGED faults ELSE Count("graph")

HasLapsed(x) == x.state = "expired" /\ ~x.revoked
IsLive(x) == x.state # "expired" /\ ~x.revoked
Covered(p) == \E e \in DOMAIN exceptions : exceptions[e].policy = p /\ IsLive(exceptions[e])

\* What may not be held together with t.
Opposite(p, t) == CASE t \in policy[p].a -> policy[p].b [] t \in policy[p].b -> policy[p].a [] OTHER -> {}

Conflicts(t, sees) == {p \in Policies : /\ Enforced(p) /\ ~Covered(p)
    /\ \E o \in Opposite(p, t) : Holds(o, sees) \/ ("cooldown_enabled" \in settings /\ o \in recent)}

Violations(sees) == {p \in Policies : /\ Enforced(p) /\ \E t \in policy[p].a : Holds(t, sees)
                                      /\ \E t \in policy[p].b : Holds(t, sees)}

(***************************************************************************)
(* Policies and settings.                                                  *)
(***************************************************************************)
CreatePolicy == \E p \in Policies, s \in Shapes :
    /\ Edited /\ ~Exists(p) /\ policy' = [policy EXCEPT ![p] = [status |-> "ACTIVE", a |-> s.a, b |-> s.b]]
    /\ UNCHANGED <<access, exceptions, requests, notes, noted, settings, op, faults>>

UpdatePolicy == \E p \in Policies, s \in Shapes, status \in {"ACTIVE", "DISABLED"} :
    /\ Edited /\ Exists(p) /\ policy' = [policy EXCEPT ![p] = [status |-> status, a |-> s.a, b |-> s.b]]
    /\ UNCHANGED <<access, exceptions, requests, notes, noted, settings, op, faults>>

HasHistory(p) == \/ p \in noted \/ \E e \in DOMAIN exceptions : exceptions[e].policy = p
                 \/ \E r \in DOMAIN requests : requests[r].policy = p

\* Deleted, or disabled once anything refers to it.
DeletePolicy == \E p \in Policies :
    /\ Edited /\ Exists(p)
    /\ policy' = IF HasHistory(p) THEN [policy EXCEPT ![p].status = "DISABLED"] ELSE [policy EXCEPT ![p] = Absent]
    /\ UNCHANGED <<access, exceptions, requests, notes, noted, settings, op, faults>>

UpdateSettings == \E s \in Settings :
    /\ Edited /\ s # settings /\ settings' = s /\ UNCHANGED <<policy, access, exceptions, requests, notes, noted, op, faults>>

(***************************************************************************)
(* The access of the person, by other hands.                               *)
(***************************************************************************)
Ended(rs, r) == [rs EXCEPT ![r].status = "FINAL"]

\* create_assignment first ends one standing assignment to the same target, if there is one.
Superseding(t) == IF StandingOf(t) = {} THEN {rows} ELSE {Ended(rows, r) : r \in StandingOf(t)}
Superseded(t)  == IF StandingOf(t) = {} THEN recent ELSE recent \cup {t}
NewRow(t, routed, by) == [target |-> t, status |-> IF routed THEN "PENDING_APPROVAL" ELSE "ELIGIBLE", by |-> by]

\* With no check until activation, or overriding it.
AssignByHand == \E t \in Targets, routed \in BOOLEAN : \E rs \in Superseding(t) :
    /\ Edited /\ RoomForRow /\ rows' = Append(rs, NewRow(t, routed, 0)) /\ recent' = Superseded(t)
    /\ UNCHANGED <<policy, direct, exceptions, requests, notes, noted, settings, op, faults>>

RowSteps == {<<"PENDING_APPROVAL", "ELIGIBLE">>, <<"PENDING_APPROVAL", "FINAL">>, <<"ELIGIBLE", "ACTIVE">>,
             <<"ELIGIBLE", "FINAL">>, <<"ACTIVE", "ELIGIBLE">>, <<"ACTIVE", "FINAL">>}

\* Approval, activation past the check, deactivation, revocation.  The cooldown looks for
\* the traces of deactivations and revocations; rejections and expiries leave none.
AdvanceRow == \E r \in DOMAIN rows, to \in {"ELIGIBLE", "ACTIVE", "FINAL"}, traced, sees \in BOOLEAN :
    /\ Edited /\ <<rows[r].status, to>> \in RowSteps /\ rows' = [rows EXCEPT ![r].status = to]
    /\ IF to = "ACTIVE" THEN Conflicts(rows[r].target, sees) = {} /\ Sees(sees) ELSE sees /\ UNCHANGED faults
    /\ IF to = "FINAL" THEN TRUE ELSE traced = (rows[r].status = "ACTIVE")
    /\ recent' = IF traced THEN recent \cup {rows[r].target} ELSE recent
    /\ UNCHANGED <<policy, direct, exceptions, requests, notes, noted, settings, op>>

ChangeDirect == \E t \in Targets :
    /\ Edited /\ direct' = IF t \in direct THEN direct \ {t} ELSE direct \cup {t}
    /\ UNCHANGED <<policy, rows, recent, exceptions, requests, notes, noted, settings, op, faults>>

CooldownPasses == /\ recent # {} /\ recent' = {}
                  /\ UNCHANGED <<policy, rows, direct, exceptions, requests, notes, noted, settings, op, edits, faults>>

(***************************************************************************)
(* Exceptions and requests for them.                                       *)
(***************************************************************************)
NewException(p) == [policy |-> p, state |-> "open", revoked |-> FALSE]

CreateException == \E p \in Policies :
    /\ Edited /\ Exists(p) /\ RoomForException /\ exceptions' = Append(exceptions, NewException(p))
    /\ UNCHANGED <<policy, access, requests, notes, noted, settings, op, faults>>

\* Time passes: the exception comes near its end, then ends.
Elapse == \E e \in DOMAIN exceptions :
    /\ exceptions[e].state # "expired"
    /\ exceptions' = [exceptions EXCEPT ![e].state = IF @ = "open" THEN "near" ELSE "expired"]
    /\ UNCHANGED <<policy, access, requests, notes, noted, settings, op, edits, faults>>

CreateRequest == \E p \in Policies, t \in Targets, routed \in BOOLEAN :
    /\ Edited /\ Exists(p) /\ Len(requests) < MaxRequests
    /\ requests' = Append(requests, [policy |-> p, target |-> t, routed |-> routed, status |-> "PENDING",
                                     exception |-> 0, assignment |-> 0, since |-> Len(rows)])
    /\ IF "notify_on_exception_requested" \in settings
       THEN notes' = [notes EXCEPT ![<<"EXCEPTION_REQUESTED", Len(requests')>>] = 1] /\ noted' = noted \cup {p}
       ELSE UNCHANGED <<notes, noted>>
    /\ UNCHANGED <<policy, access, exceptions, settings, op, faults>>

DenyRequest == \E r \in DOMAIN requests :
    /\ Edited /\ requests[r].status = "PENDING" /\ requests' = [requests EXCEPT ![r].status = "DENIED"]
    /\ notes' = [notes EXCEPT ![<<"EXCEPTION_REQUESTED", r>>] = 0]
    /\ UNCHANGED <<policy, access, exceptions, noted, settings, op, faults>>

\* Mutant: a decided request may be granted.
Undenied(r) == requests[r].status # "DENIED"
Undecided(r) == requests[r].status = "PENDING"

StartGrant(q) == \E r \in DOMAIN requests :
    /\ Edited /\ Undecided(r) /\ RoomForRow /\ RoomForException /\ Begin(q, [kind |-> "grant", request |-> r])
    /\ UNCHANGED <<policy, access, exceptions, requests, notes, noted, settings, faults>>

\* The exception, then the blocked assignment once more, checked against the exceptions
\* there now are.  The exception stands even if the assignment is blocked or fails.
Grant(q) == op[q].kind = "grant" /\ \E sees, fails \in BOOLEAN :
    LET r == op[q].request
        t == requests[r].target
        x == Len(exceptions) + 1
        others == Conflicts(t, sees) \ {requests[r].policy}
    IN
    /\ exceptions' = Append(exceptions, NewException(requests[r].policy))
    /\ requests' = [requests EXCEPT ![r].status = "GRANTED", ![r].exception = x]
    /\ notes' = [notes EXCEPT ![<<"EXCEPTION_REQUESTED", r>>] = 0]
    /\ fails => \E o \in StandingOf(t) : rows[o].status = "ACTIVE"
    /\ IF fails THEN sees /\ Count("refused") ELSE Sees(sees)
    /\ IF others # {} \/ fails THEN Ends(q) /\ UNCHANGED <<rows, recent>>
       ELSE /\ \E rs \in Superseding(t) : rows' = Append(rs, NewRow(t, requests[r].routed, r))
            /\ recent' = Superseded(t)
            /\ op' = [op EXCEPT ![q] = [kind |-> "link", request |-> r, row |-> Len(rows) + 1]]
    /\ UNCHANGED <<policy, direct, noted, settings, edits>>

Link(q) == /\ op[q].kind = "link"
           /\ requests' = [requests EXCEPT ![op[q].request].assignment = op[q].row]
           /\ Ends(q) /\ UNCHANGED <<policy, access, exceptions, notes, noted, settings, edits, faults>>

(***************************************************************************)
(* The end of an exception.                                                *)
(***************************************************************************)
FirstOf(S) == IF S = {} THEN {} ELSE {Min(S)}

\* Mutant: any later assignment to the target.
AnyStanding(q, r, sees) == StandingOf(requests[r].target)
\* _current_violating_holding_assignment.
StillViolating(q, r, sees) ==
    LET p == requests[r].policy t == requests[r].target IN
    IF Covered(p) \/ p \notin Violations(sees) \/ t \notin policy[p].a \cup policy[p].b THEN {} ELSE StandingOf(t)

\* _find_exception_granted_assignment: the rows it may return.
GrantedBy(e, sees) ==
    UNION {LET r == requests[i] IN
           IF r.assignment = 0 THEN FirstOf({j \in StandingOf(r.target) : j > r.since})
           ELSE IF IsStanding(r.assignment) THEN {r.assignment}
           ELSE StillViolating(e, i, sees) : i \in {i \in DOMAIN requests : requests[i].exception = e}}

\* _revoke_assignment_for_lapsed_exception: an ACTIVE one only if the directory agrees.
EndLapsed(e) == \E sees, fails \in BOOLEAN :
    LET found == GrantedBy(e, sees) IN
    /\ fails => sees /\ \E r \in found : rows[r].status = "ACTIVE"
    /\ IF fails THEN Count("refused") ELSE Sees(sees)
    /\ IF found = {} \/ fails THEN rows' = rows ELSE \E r \in found : rows' = Ended(rows, r)
    /\ recent' = IF found = {} THEN recent ELSE recent \cup {rows[CHOOSE r \in found : TRUE].target}

RevokeException(q) == \E e \in DOMAIN exceptions :
    /\ Edited /\ ~exceptions[e].revoked /\ exceptions' = [exceptions EXCEPT ![e].revoked = TRUE]
    /\ Begin(q, [kind |-> "revoke", exception |-> e])
    /\ UNCHANGED <<policy, access, requests, notes, noted, settings, faults>>

EndRevoked(q) == /\ op[q].kind = "revoke" /\ EndLapsed(op[q].exception)
                 /\ Ends(q) /\ UNCHANGED <<policy, direct, exceptions, requests, notes, noted, settings, edits>>

\* Mutant: not while another exception covers the policy.
LapsedUncovered == {e \in DOMAIN exceptions : HasLapsed(exceptions[e]) /\ ~Covered(exceptions[e].policy)}
Lapsed == {e \in DOMAIN exceptions : HasLapsed(exceptions[e])}

\* revoke_lapsed_sod_exceptions.
Poll == /\ Begin(Worker, [kind |-> "sweep", todo |-> Lapsed]) /\ Lapsed # {}
        /\ UNCHANGED <<policy, access, exceptions, requests, notes, noted, settings, edits, faults>>

SweepOne == /\ op[Worker].kind = "sweep" /\ \E e \in op[Worker].todo :
               EndLapsed(e) /\ op' = [op EXCEPT ![Worker].todo = @ \ {e}]
            /\ UNCHANGED <<policy, direct, exceptions, requests, notes, noted, settings, edits>>

SweptAll == /\ op[Worker].kind = "sweep" /\ op[Worker].todo = {} /\ Ends(Worker)
            /\ UNCHANGED <<policy, access, exceptions, requests, notes, noted, settings, edits, faults>>

(***************************************************************************)
(* Notifications: reconciled when somebody looks at them, topic by topic.  *)
(***************************************************************************)
Wanted(topic, violated) ==
    CASE topic = "NEW_VIOLATION"      -> {topic} \X violated
      [] topic = "EXCEPTION_EXPIRING" -> {topic} \X {e \in DOMAIN exceptions : exceptions[e].state = "near" /\ ~exceptions[e].revoked}
      [] topic = "EXCEPTION_EXPIRED"  ->
           {topic} \X {e \in Lapsed : exceptions[e].policy \in violated /\ ~Covered(exceptions[e].policy)}

OpenOf(topic) == {k \in Keys : k[1] = topic /\ notes[k] > 0}
Option(topic) == IF topic = "NEW_VIOLATION" THEN "notify_on_new_violation" ELSE "notify_on_exception_expiring"
PolicyOf(k)   == IF k[1] = "NEW_VIOLATION" THEN k[2] ELSE exceptions[k[2]].policy

\* scan: the violations found, once it was made.
LookAt(q) ==
    /\ Edited /\ Begin(q, [kind |-> "look", scan |-> <<>>, topics |-> Topics])
    /\ UNCHANGED <<policy, access, exceptions, requests, notes, noted, settings, faults>>

\* Mutant: what has been resolved stays open.
OnlyNew(k, wanted, open) == IF k \in wanted \ open THEN notes[k] + 1 ELSE notes[k]
Updated(k, wanted, open) == IF k \in wanted \ open THEN notes[k] + 1 ELSE IF k \in open \ wanted THEN 0 ELSE notes[k]

\* One topic: read, then written.
Read(q) == op[q].kind = "look" /\ op[q].topics # <<>> /\ \E sees \in BOOLEAN :
    LET topic == Head(op[q].topics)
        scans == topic # "EXCEPTION_EXPIRING" /\ op[q].scan = <<>>
        scan  == IF scans THEN <<Violations(sees)>> ELSE op[q].scan
    IN
    /\ IF Option(topic) \in settings
       THEN /\ IF scans THEN Sees(sees) ELSE sees /\ UNCHANGED faults
            /\ op' = [op EXCEPT ![q] = [kind |-> "tell", scan |-> scan, topics |-> @.topics,
                 wanted |-> Wanted(topic, IF scan = <<>> THEN {} ELSE scan[1]), open |-> OpenOf(topic)]]
       ELSE sees /\ UNCHANGED faults /\ op' = [op EXCEPT ![q].topics = Tail(@)]
    /\ UNCHANGED <<policy, access, exceptions, requests, notes, noted, settings, edits>>

\* A policy deleted meanwhile refuses the write.
Tell(q) == /\ op[q].kind = "tell"
           /\ IF \A k \in op[q].wanted : Exists(PolicyOf(k))
              THEN /\ notes' = [k \in Keys |-> Updated(k, op[q].wanted, op[q].open)]
                   /\ noted' = noted \cup {PolicyOf(k) : k \in op[q].wanted}
                   /\ op' = [op EXCEPT ![q] = [kind |-> "look", scan |-> @.scan, topics |-> Tail(@.topics)]]
              ELSE Ends(q) /\ UNCHANGED <<notes, noted>>
           /\ UNCHANGED <<policy, access, exceptions, requests, settings, edits, faults>>

Told(q) == /\ op[q].kind = "look" /\ op[q].topics = <<>> /\ Ends(q)
           /\ UNCHANGED <<policy, access, exceptions, requests, notes, noted, settings, edits, faults>>

Crash == /\ Busy # {} /\ Count("crash") /\ op' = [q \in Procs |-> Idle]
         /\ UNCHANGED <<policy, access, exceptions, requests, notes, noted, settings, edits>>

Sweep       == Poll \/ SweepOne \/ SweptAll
Continue(q) == Grant(q) \/ Link(q) \/ EndRevoked(q) \/ Read(q) \/ Tell(q) \/ Told(q)

Next == \/ CreatePolicy \/ UpdatePolicy \/ DeletePolicy \/ UpdateSettings
        \/ AssignByHand \/ AdvanceRow \/ ChangeDirect \/ CooldownPasses
        \/ CreateException \/ Elapse \/ CreateRequest \/ DenyRequest
        \/ \E q \in Admins : StartGrant(q) \/ RevokeException(q) \/ LookAt(q) \/ Continue(q)
        \/ Sweep \/ Crash

\* The worker polls and every handler goes on; nothing else need happen.
Fairness == WF_vars(Sweep) /\ \A q \in Admins : WF_vars(Continue(q))
Spec     == Init /\ [][Next]_vars
FairSpec == Spec /\ Fairness

(***************************************************************************)
(* Properties.                                                             *)
(***************************************************************************)
\* Policies, rows, exceptions, requests and notifications are of the shapes of models.py, and
\* what refers to another row refers to one that is there.
TypeOK ==
    /\ \A p \in Policies : Exists(p) => policy[p].status \in {"ACTIVE", "DISABLED"} /\ policy[p].a \cap policy[p].b = {}
    /\ rows \in Seq(Row) /\ exceptions \in Seq(Exception) /\ requests \in Seq(Request)
    /\ \A r \in DOMAIN rows : rows[r].by \in 0..Len(requests)
    /\ \A i \in DOMAIN requests : requests[i].exception \in 0..Len(exceptions) /\ requests[i].assignment \in 0..Len(rows)
    /\ notes \in [Keys -> Nat] /\ \A k \in Keys : notes[k] > 0 => Exists(IF k[1] = "EXCEPTION_REQUESTED" THEN requests[k[2]].policy ELSE PolicyOf(k))

\* A request is granted once, and the assignment made for it can be found from it, so that
\* it ends with the exception.
GrantsTraceable == \A r \in DOMAIN rows : rows[r].by # 0 =>
    \/ requests[rows[r].by].assignment = r
    \/ \E q \in Admins : op[q].kind = "link" /\ op[q].row = r

\* What the sweep takes up in a step.
Taken == IF op[Worker].kind = "sweep" /\ op'[Worker].kind = "sweep" THEN op[Worker].todo \ op'[Worker].todo ELSE {}
OwnOf(e, r)     == rows[r].by # 0 /\ requests[rows[r].by].exception = e
StillBad(e)     == exceptions[e].policy \in Violations(TRUE) /\ ~Covered(exceptions[e].policy)
LinkedGrant(e)  == \E i \in DOMAIN requests : requests[i].exception = e /\ requests[i].assignment # 0
EndsItsOwn(e)   == \A r \in DOMAIN rows : rows'[r] # rows[r] => OwnOf(e, r) \/ StillBad(e)

\* The sweep ends, for a lapsed exception whose grant made an assignment, that one, or
\* another that still violates the policy with no other exception for it.
LapseEndsItsOwn == [][\A e \in Taken : LinkedGrant(e) => EndsItsOwn(e)]_vars

\* Once somebody has looked, exactly the violated policies have one notification each, and
\* a violation whose exceptions have lapsed is pointed out.
Noted == \A q \in Admins : op[q].kind = "look" /\ op[q].topics = <<>> =>
    /\ "notify_on_new_violation" \in settings =>
         \A p \in Policies : notes[<<"NEW_VIOLATION", p>>] = IF p \in Violations(TRUE) THEN 1 ELSE 0
    /\ "notify_on_exception_expiring" \in settings =>
         \A p \in Violations(TRUE) : ~Covered(p) /\ (\E e \in Lapsed : exceptions[e].policy = p) =>
           \E e \in Lapsed : exceptions[e].policy = p /\ notes[<<"EXCEPTION_EXPIRED", e>>] = 1

\* The assignment an exception was granted for ends some time after the exception expires.
LapsedWaits(i) == i \in DOMAIN requests /\ LET r == requests[i] IN
    r.exception # 0 /\ HasLapsed(exceptions[r.exception]) /\ r.assignment # 0 /\ IsStanding(r.assignment)
LapsedEnds == \A i \in 1..MaxRequests : LapsedWaits(i) ~> ~LapsedWaits(i)
=============================================================================
