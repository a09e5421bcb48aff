------------------------------ MODULE Workflow ------------------------------
(***************************************************************************)
(* The approval workflow engine (services/workflows.py): one instance that *)
(* governs one pending assignment, walking the stages of a definition an   *)
(* administrator may edit meanwhile.                                       *)
(*                                                                         *)
(* Deciding a stage is a request of three steps: it reads the stage and    *)
(* the instance; it flushes its vote, counts the votes other requests have *)
(* committed and computes the outcome; it commits.  A request sees no      *)
(* uncommitted vote, and nothing is read again before the commit.  A crash *)
(* before the commit leaves no trace, so it needs no action of its own.    *)
(***************************************************************************)
EXTENDS Integers, Sequences, FiniteSets

CONSTANTS
    Users,       \* the people who may decide; each has one request in flight at most
    Admins,      \* those of them with the Admin role
    Definitions, \* the stage lists the administrators may give the definition
    MaxEdits,    \* bound on edits of the definition
    MaxInFlight  \* bound on requests under way at once (1 = serialised)

Decisions == {"APPROVED", "REJECTED"}
Modes     == {"ANY_OF", "ALL_OF"}

\* A stage definition; `applies' is whether its condition matches the instance's payload.
\* A stage has a deadline exactly when it has fallback approvers.
StageDefinition ==
    [mode : Modes, approvers : SUBSET Users, fallback : SUBSET Users, applies : BOOLEAN]

ASSUME ConstantsAssumption ==
    /\ Admins \subseteq Users
    /\ \A defn \in Definitions :
        /\ defn \in Seq(StageDefinition)
        /\ defn # <<>> /\ \A n \in DOMAIN defn : defn[n].approvers # {}
    /\ MaxEdits \in Nat /\ MaxInFlight \in Nat

VARIABLES
    definition, \* the current stage list
    instance,   \* the WorkflowInstance: status, stage number it stands at
    stages,     \* the WorkflowStageInstance rows, in order of creation
    votes,      \* the WorkflowStageDecision rows
    subject,    \* the assignment: its status and who settled it
    op,         \* op[u]: the request of u in flight
    edits

vars == <<definition, instance, stages, votes, subject, op, edits>>

InstanceStatuses == {"NONE", "PENDING", "APPROVED", "REJECTED", "CANCELLED"}
StageStatuses    == {"PENDING", "APPROVED", "REJECTED", "SKIPPED", "CANCELLED"}
SubjectStatuses  == {"PENDING_APPROVAL", "ELIGIBLE", "REJECTED", "REVOKED"}

Instance == [status : InstanceStatuses, current : Nat]

StageInstance ==
    [number : Nat, mode : Modes, required : SUBSET Users, fallback : SUBSET Users,
     status : StageStatuses, escalated : BOOLEAN]

Subject == [status : SubjectStatuses, by : {"nobody", "workflow", "admin"}]

Vote == [stage : Nat, by : Users, decision : Decisions, override : BOOLEAN]

Idle    == [phase |-> "idle"]
NoStage == 0

Init ==
    /\ definition \in Definitions
    /\ instance = [status |-> "NONE", current |-> 0]
    /\ stages = <<>>
    /\ votes = {}
    /\ subject = [status |-> "PENDING_APPROVAL", by |-> "nobody"]
    /\ op = [u \in Users |-> Idle]
    /\ edits = 0

(***************************************************************************)
(* _advance: enter the stages from a number on, the ones whose condition   *)
(* does not match as SKIPPED, up to the first that needs a decision; with  *)
(* none left the instance is APPROVED.                                     *)
(***************************************************************************)
Entered(d, n, status) ==
    [number |-> n, mode |-> d.mode, required |-> d.approvers, fallback |-> d.fallback,
     status |-> status, escalated |-> FALSE]

Needing(defn, from) == {n \in from..Len(defn) : defn[n].applies}
FirstNeeding(defn, from) ==
    CHOOSE n \in Needing(defn, from) : \A m \in Needing(defn, from) : n <= m

NewStages(defn, from) ==
    IF Needing(defn, from) = {}
    THEN [k \in 1..(Len(defn) - from + 1) |-> Entered(defn[from + k - 1], from + k - 1, "SKIPPED")]
    ELSE LET stop == FirstNeeding(defn, from) IN
         [k \in 1..(stop - from + 1) |->
            Entered(defn[from + k - 1], from + k - 1,
                    IF from + k - 1 = stop THEN "PENDING" ELSE "SKIPPED")]

Advanced(inst, defn, from) ==
    IF Needing(defn, from) = {} THEN [status |-> "APPROVED", current |-> Len(defn) + 1]
    ELSE [inst EXCEPT !.current = FirstNeeding(defn, from)]

(***************************************************************************)
(* _apply_assignment_outcome: a finished instance settles the assignment,  *)
(* unless the request read it as already settled.                          *)
(***************************************************************************)

\* Mutant: a cancelled request is not handed on to the assignment.
OutcomeUnlessCancelled(status, seen) ==
    IF seen.status # "PENDING_APPROVAL" \/ status \notin {"APPROVED", "REJECTED"} THEN seen
    ELSE [status |-> IF status = "APPROVED" THEN "ELIGIBLE" ELSE "REJECTED", by |-> "workflow"]

Outcome(status, seen) ==
    IF seen.status # "PENDING_APPROVAL" \/ status \notin {"APPROVED", "REJECTED", "CANCELLED"} THEN seen
    ELSE [status |-> IF status = "APPROVED" THEN "ELIGIBLE" ELSE "REJECTED", by |-> "workflow"]

\* A session writes only what differs from what it read.
Flush(now, seen, after) == IF after # seen THEN after ELSE now
FlushInstance(now, seen, after) ==
    [status  |-> Flush(now.status, seen.status, after.status),
     current |-> Flush(now.current, seen.current, after.current)]

\* create_assignment routes the request: start_workflow_instance.
StartInstance ==
    /\ instance.status = "NONE"
    /\ LET started == Advanced([status |-> "PENDING", current |-> 0], definition, 1) IN
        /\ instance' = started
        /\ subject' = Outcome(started.status, subject)
    /\ stages' = NewStages(definition, 1)
    /\ UNCHANGED <<definition, votes, op, edits>>

(***************************************************************************)
(* decide_stage.                                                           *)
(***************************************************************************)
Free(u) == op[u] = Idle /\ Cardinality({w \in Users : op[w] # Idle}) < MaxInFlight

\* Mutant: a fallback approver need not wait for the escalation.
MayDecideEarly(u, s) == u \in Admins \cup s.required \cup s.fallback

\* _authorize_stage_decision: an Admin, or a fallback approver once the stage has
\* escalated, overrides; a required approver votes.
MayDecide(u, s) ==
    u \in Admins \/ u \in s.required \/ (u \in s.fallback /\ s.escalated)
Overrides(u, s) == u \in Admins \/ u \notin s.required

ReadStage(u) ==
    \E i \in DOMAIN stages, d \in Decisions :
        /\ Free(u)
        /\ stages[i].status = "PENDING" /\ MayDecide(u, stages[i])
        /\ \A v \in votes : ~(v.stage = i /\ v.by = u)
        /\ op' = [op EXCEPT ![u] =
                    [phase |-> "vote", inst |-> instance, stage |-> stages[i],
                     vote |-> [stage |-> i, by |-> u, decision |-> d,
                               override |-> Overrides(u, stages[i])]]]
        /\ UNCHANGED <<definition, instance, stages, votes, subject, edits>>

Approvers(i, counted) == {v.by : v \in {w \in counted : w.stage = i /\ w.decision = "APPROVED"}}

\* Mutant: the vote being cast is not counted.
FinalisesWithoutOwn(vote, s, counted) ==
    IF vote.override \/ s.mode = "ANY_OF" \/ vote.decision = "REJECTED" THEN vote.decision
    ELSE IF s.required \subseteq Approvers(vote.stage, counted \ {vote}) THEN "APPROVED" ELSE "PENDING"

\* What the vote finalises the stage as, if anything.
Finalises(vote, s, counted) ==
    IF vote.override \/ s.mode = "ANY_OF" \/ vote.decision = "REJECTED" THEN vote.decision
    ELSE IF s.required \subseteq Approvers(vote.stage, counted) THEN "APPROVED" ELSE "PENDING"

CountVotes(u) ==
    /\ op[u].phase = "vote"
    /\ LET o == op[u]
           final == Finalises(o.vote, o.stage, votes \cup {o.vote})
           from == o.stage.number + 1
           after == CASE final = "PENDING"  -> o.inst
                      [] final = "REJECTED" -> [o.inst EXCEPT !.status = "REJECTED"]
                      [] final = "APPROVED" -> Advanced(o.inst, definition, from)
       IN  op' = [op EXCEPT ![u] =
                    [phase |-> "decide", inst |-> o.inst, vote |-> o.vote, final |-> final,
                     after |-> after, seen |-> subject,
                     new |-> IF final = "APPROVED" THEN NewStages(definition, from) ELSE <<>>,
                     settles |-> IF final = "PENDING" \/ after.status \notin {"APPROVED", "REJECTED"}
                                 THEN subject ELSE Outcome(after.status, subject)]]
    /\ UNCHANGED <<definition, instance, stages, votes, subject, edits>>

CommitDecision(u) ==
    /\ op[u].phase = "decide"
    /\ LET o == op[u] IN
        /\ votes' = votes \cup {o.vote}
        /\ stages' = [i \in DOMAIN stages |->
                        IF i = o.vote.stage /\ o.final # "PENDING"
                        THEN [stages[i] EXCEPT !.status = o.final] ELSE stages[i]] \o o.new
        /\ instance' = FlushInstance(instance, o.inst, o.after)
        /\ subject' = Flush(subject, o.seen, o.settles)
    /\ op' = [op EXCEPT ![u] = Idle]
    /\ UNCHANGED <<definition, edits>>

(***************************************************************************)
(* cancel_workflow_instance, by the requester or an Admin.                 *)
(***************************************************************************)
PendingStages == {i \in DOMAIN stages : stages[i].status = "PENDING"}

ReadCancel(u) ==
    \E i \in DOMAIN stages \cup {NoStage} :
        /\ Free(u)
        /\ instance.status = "PENDING"
        /\ IF PendingStages = {} THEN i = NoStage ELSE i \in PendingStages
        /\ op' = [op EXCEPT ![u] = [phase |-> "cancel", inst |-> instance, closes |-> i, seen |-> subject]]
        /\ UNCHANGED <<definition, instance, stages, votes, subject, edits>>

CommitCancel(u) ==
    /\ op[u].phase = "cancel"
    /\ stages' = [i \in DOMAIN stages |->
                    IF i = op[u].closes THEN [stages[i] EXCEPT !.status = "CANCELLED"] ELSE stages[i]]
    /\ instance' = [instance EXCEPT !.status = "CANCELLED"]
    /\ subject' = Flush(subject, op[u].seen, Outcome("CANCELLED", op[u].seen))
    /\ op' = [op EXCEPT ![u] = Idle]
    /\ UNCHANGED <<definition, votes, edits>>

(***************************************************************************)
(* sweep_workflow_escalations: a stage's deadline may pass at any moment.  *)
(***************************************************************************)
Escalate(i) ==
    /\ stages[i].status = "PENDING" /\ stages[i].fallback # {} /\ ~stages[i].escalated
    /\ stages' = [stages EXCEPT ![i].escalated = TRUE]
    /\ UNCHANGED <<definition, instance, votes, subject, op, edits>>

\* update_workflow_definition replaces the stage list; stages already entered keep theirs.
EditDefinition ==
    /\ edits < MaxEdits
    /\ definition' \in Definitions \ {definition}
    /\ edits' = edits + 1
    /\ UNCHANGED <<instance, stages, votes, subject, op>>

\* An Admin approves, rejects or revokes the assignment directly, past the workflow.
SettleElsewhere ==
    /\ subject.status = "PENDING_APPROVAL"
    /\ \E s \in {"ELIGIBLE", "REJECTED", "REVOKED"} : subject' = [status |-> s, by |-> "admin"]
    /\ UNCHANGED <<definition, instance, stages, votes, op, edits>>

Next ==
    \/ StartInstance
    \/ \E u \in Users :
        \/ ReadStage(u)
        \/ CountVotes(u)
        \/ CommitDecision(u)
        \/ ReadCancel(u)
        \/ CommitCancel(u)
    \/ \E i \in DOMAIN stages : Escalate(i)
    \/ EditDefinition
    \/ SettleElsewhere

Spec == Init /\ [][Next]_vars

-----------------------------------------------------------------------------
(***************************************************************************)
(* Correctness.                                                            *)
(***************************************************************************)
VoteOp   == [phase : {"vote"}, inst : Instance, stage : StageInstance, vote : Vote]
DecideOp == [phase : {"decide"}, inst : Instance, vote : Vote, final : {"PENDING", "APPROVED", "REJECTED"},
             after : Instance, seen : Subject, new : Seq(StageInstance), settles : Subject]
CancelOp == [phase : {"cancel"}, inst : Instance, closes : Nat, seen : Subject]

\* Every variable keeps its shape.
TypeOK ==
    /\ definition \in Definitions
    /\ instance \in Instance
    /\ stages \in Seq(StageInstance)
    /\ votes \subseteq Vote
    /\ subject \in Subject
    /\ op \in [Users -> VoteOp \cup DecideOp \cup CancelOp \cup {Idle}]
    /\ edits \in Nat

\* The votes cast on stage i for d by somebody who decides it alone.
Decisive(i, d) ==
    {v \in votes : v.stage = i /\ v.decision = d /\ (v.override \/ stages[i].mode = "ANY_OF" \/ d = "REJECTED")}

\* A stage is APPROVED or REJECTED only on committed votes that carry it, each from a named
\* approver, an Admin, or a fallback approver after the escalation: whatever other requests,
\* edits of the definition and sweeps run beside it (decide_stage, _authorize_stage_decision).
QuorumRespected ==
    /\ \A i \in DOMAIN stages :
        /\ stages[i].status = "APPROVED" =>
                Decisive(i, "APPROVED") # {} \/ stages[i].required \subseteq Approvers(i, votes)
        /\ stages[i].status = "REJECTED" => Decisive(i, "REJECTED") # {}
    /\ \A v \in votes :
        /\ v.stage \in DOMAIN stages
        /\ IF v.override THEN v.by \in Admins \/ stages[v.stage].escalated
                         ELSE v.by \in stages[v.stage].required

\* One request at a time: the instance is pending on exactly one stage, approved with no
\* stage refused or open, and rejected or cancelled by exactly one stage (_advance,
\* decide_stage, cancel_workflow_instance).
StagesAgree ==
    LET With(s) == Cardinality({i \in DOMAIN stages : stages[i].status = s}) IN
    CASE instance.status = "NONE"     -> stages = <<>>
      [] instance.status = "PENDING"  -> With("PENDING") = 1 /\ With("REJECTED") = 0 /\ With("CANCELLED") = 0
      [] instance.status = "APPROVED" -> With("PENDING") = 0 /\ With("REJECTED") = 0 /\ With("CANCELLED") = 0
      [] OTHER -> With("PENDING") = 0 /\ With(instance.status) = 1

\* One request at a time: an open ALL_OF stage still waits for somebody; all its named
\* approvers having approved, it would be closed (decide_stage, the ALL_OF branch).
NoStuckStage ==
    (\A u \in Users : op[u] = Idle) =>
        \A i \in PendingStages : ~(stages[i].required \subseteq Approvers(i, votes))

\* One request at a time: the assignment the workflow settled agrees with the instance, and a
\* finished instance leaves it settled (_apply_assignment_outcome).
SubjectFollows ==
    /\ subject.by = "workflow" =>
        IF subject.status = "ELIGIBLE" THEN instance.status = "APPROVED"
                                       ELSE instance.status \in {"REJECTED", "CANCELLED"}
    /\ instance.status \in {"APPROVED", "REJECTED", "CANCELLED"} => subject.status # "PENDING_APPROVAL"

=============================================================================
