--------------------------- MODULE WorkflowProofs ---------------------------
(***************************************************************************)
(* Proofs about Workflow, for any users, definitions and edits: with any   *)
(* number of requests under way, the type invariant and that a stage is    *)
(* decided only on votes that carry it; with one at a time, that the       *)
(* instance, its stages and the assignment agree.                          *)
(*                                                                         *)
(* A commit writes an outcome computed from a stage and votes read before. *)
(* It stays good because stages keep their mode and their approvers, an    *)
(* escalation is not taken back and votes are never deleted (Extends):     *)
(* what carried the outcome when it was computed carries it when it is     *)
(* written.                                                                *)
(***************************************************************************)
EXTENDS MCWorkflow, FiniteSetTheorems, WellFoundedInduction, TLAPS

\* Vote v was cast by somebody whom the stages S entitle to it.
ByRight(v, S) ==
    /\ v.stage \in DOMAIN S
    /\ IF v.override THEN v.by \in Admins \/ S[v.stage].escalated
                     ELSE v.by \in S[v.stage].required

\* The votes V carry outcome d of stage i of S.
Carried(i, d, S, V) ==
    /\ d = "APPROVED" => \/ \E v \in V : /\ v.stage = i /\ v.decision = "APPROVED"
                                         /\ v.override \/ S[i].mode = "ANY_OF"
                         \/ S[i].required \subseteq Approvers(i, V)
    /\ d = "REJECTED" => \E v \in V : v.stage = i /\ v.decision = "REJECTED"

Fresh(new) == \A k \in DOMAIN new : new[k].status \in {"PENDING", "SKIPPED"}

\* What request o has read of a stage is still so, and its outcome is carried.
Sound(o, S, V) ==
    /\ o.phase = "vote" => /\ ByRight(o.vote, S) /\ o.inst.status # "NONE"
                           /\ o.stage.mode = S[o.vote.stage].mode
                           /\ o.stage.required = S[o.vote.stage].required
    /\ o.phase = "decide" => /\ ByRight(o.vote, S) /\ o.inst.status # "NONE" /\ o.after.status # "NONE"
                             /\ Carried(o.vote.stage, o.final, S, V \cup {o.vote})
                             /\ Fresh(o.new)

DecisionInv ==
    /\ TypeOK
    /\ instance.status = "NONE" => stages = <<>>
    /\ \A i \in DOMAIN stages : Carried(i, stages[i].status, stages, votes)
    /\ \A v \in votes : ByRight(v, stages)
    /\ \A u \in Users : Sound(op[u], stages, votes)

LEMMA InvImpliesQuorum == DecisionInv => QuorumRespected
<1>. SUFFICES ASSUME DecisionInv PROVE QuorumRespected
    OBVIOUS
<1>1. ASSUME NEW i \in DOMAIN stages, stages[i].status = "APPROVED"
      PROVE  Decisive(i, "APPROVED") # {} \/ stages[i].required \subseteq Approvers(i, votes)
    BY <1>1 DEF DecisionInv, Carried, Decisive
<1>2. ASSUME NEW i \in DOMAIN stages, stages[i].status = "REJECTED"
      PROVE  Decisive(i, "REJECTED") # {}
    BY <1>2 DEF DecisionInv, Carried, Decisive
<1>. QED
    BY <1>1, <1>2 DEF QuorumRespected, DecisionInv, ByRight

-----------------------------------------------------------------------------
(***************************************************************************)
(* The operators of the engine.                                            *)
(***************************************************************************)
Operations == VoteOp \cup DecideOp \cup CancelOp \cup {Idle}

\* A set of numbers that is not empty has a least one.
LEMMA Least == ASSUME NEW S \in SUBSET Nat, S # {} PROVE \E n \in S : \A m \in S : n <= m
<1>1. \E n \in S : \A m \in S : ~(<<m, n>> \in OpToRel(<, Nat))
    BY NatLessThanWellFounded, WFMin
<1>2. PICK n \in S : \A m \in S : ~(<<m, n>> \in OpToRel(<, Nat))
    BY <1>1
<1>3. ASSUME NEW m \in S PROVE n <= m
    <2>1. ~(m < n)
        BY <1>2 DEF OpToRel
    <2>. QED
        BY <2>1
<1>. QED
    BY <1>3

\* The stage _advance stops at is one that needs a decision.
LEMMA FirstIsNeeding ==
    ASSUME NEW defn, Len(defn) \in Nat, NEW from \in Nat, Needing(defn, from) # {}
    PROVE  FirstNeeding(defn, from) \in Needing(defn, from)
<1>1. Needing(defn, from) \in SUBSET Nat
    BY DEF Needing
<1>2. \E n \in Needing(defn, from) : \A m \in Needing(defn, from) : n <= m
    BY <1>1, Least
<1>. QED
    BY <1>2 DEF FirstNeeding

\* _advance enters stages as PENDING or SKIPPED.
LEMMA NewStagesType ==
    ASSUME NEW defn \in Definitions, NEW from \in Nat, from # 0
    PROVE  NewStages(defn, from) \in Seq(StageInstance) /\ Fresh(NewStages(defn, from))
<1>1. defn \in Seq(StageDefinition) /\ Len(defn) \in Nat
    BY ConstantsAssumption
<1>2. ASSUME NEW n \in 1..Len(defn), NEW s \in {"PENDING", "SKIPPED"}
      PROVE  Entered(defn[n], n, s) \in StageInstance /\ Entered(defn[n], n, s).status = s
    <2>1. defn[n] \in StageDefinition
        BY <1>1
    <2>. QED
        BY <2>1 DEF Entered, StageInstance, StageDefinition, StageStatuses
<1>3. CASE Needing(defn, from) = {}
    <2>. DEFINE len == Len(defn) - from + 1
                new == [k \in 1..len |-> Entered(defn[from + k - 1], from + k - 1, "SKIPPED")]
    <2>1. ASSUME NEW k \in 1..len PROVE from + k - 1 \in 1..Len(defn)
        BY <1>1
    <2>2. \A k \in 1..len : new[k] \in StageInstance /\ new[k].status = "SKIPPED"
        BY <2>1, <1>2
    <2>3. NewStages(defn, from) = new
        BY <1>3 DEF NewStages
    <2>4. new \in Seq(StageInstance)
        <3>1. CASE len \in Nat
            <4>1. new \in [1..len -> StageInstance]
                BY <2>2
            <4>. HIDE DEF new, len
            <4>. QED
                BY <3>1, <4>1
        <3>2. CASE len \notin Nat
            <4>1. 1..len = 1..0
                BY <1>1, <3>2
            <4>2. new \in [1..0 -> StageInstance]
                BY <4>1
            <4>. HIDE DEF new
            <4>. QED
                BY <4>2
        <3>. QED
            BY <3>1, <3>2
    <2>. QED
        BY <2>2, <2>3, <2>4 DEF Fresh
<1>4. CASE Needing(defn, from) # {}
    <2>. DEFINE stop == FirstNeeding(defn, from)
                new == [k \in 1..(stop - from + 1) |->
                          Entered(defn[from + k - 1], from + k - 1,
                                  IF from + k - 1 = stop THEN "PENDING" ELSE "SKIPPED")]
    <2>1. stop \in from..Len(defn)
        BY <1>1, <1>4, FirstIsNeeding DEF Needing
    <2>. HIDE DEF stop
    <2>2. ASSUME NEW k \in 1..(stop - from + 1) PROVE from + k - 1 \in 1..Len(defn)
        BY <1>1, <2>1
    <2>3. \A k \in 1..(stop - from + 1) : new[k] \in StageInstance /\ new[k].status \in {"PENDING", "SKIPPED"}
        BY <2>2, <1>2
    <2>4. NewStages(defn, from) = new
        BY <1>4 DEF NewStages, stop
    <2>5. stop - from + 1 \in Nat
        BY <2>1, <1>1
    <2>6. new \in Seq(StageInstance)
        BY <2>3, <2>5
    <2>. QED
        BY <2>3, <2>4, <2>6 DEF Fresh
<1>. QED
    BY <1>3, <1>4

\* _advance leaves an instance an instance, and started.
LEMMA AdvancedType ==
    ASSUME NEW inst \in Instance, NEW defn \in Definitions, NEW from \in Nat, inst.status # "NONE"
    PROVE  Advanced(inst, defn, from) \in Instance /\ Advanced(inst, defn, from).status # "NONE"
<1>1. Len(defn) \in Nat
    BY ConstantsAssumption
<1>2. Needing(defn, from) # {} => FirstNeeding(defn, from) \in Nat
    BY <1>1, FirstIsNeeding DEF Needing
<1>. QED
    BY <1>1, <1>2 DEF Advanced, Instance, InstanceStatuses

\* _apply_assignment_outcome leaves an assignment an assignment.
LEMMA OutcomeType == ASSUME NEW status, NEW seen \in Subject PROVE Outcome(status, seen) \in Subject
BY DEF Outcome, Subject, SubjectStatuses

\* Stages T and votes W come later than S and V.
Extends(S, V, T, W) ==
    /\ V \subseteq W /\ DOMAIN S \subseteq DOMAIN T
    /\ \A i \in DOMAIN S : /\ T[i].mode = S[i].mode /\ T[i].required = S[i].required
                           /\ S[i].escalated => T[i].escalated

LEMMA ByRightStays ==
    ASSUME NEW S, NEW V, NEW T, NEW W, Extends(S, V, T, W), NEW v, ByRight(v, S)
    PROVE  ByRight(v, T)
BY DEF Extends, ByRight

LEMMA CarriedStays ==
    ASSUME NEW S, NEW V, NEW T, NEW W, Extends(S, V, T, W), NEW i \in DOMAIN S, NEW d,
           NEW C, NEW D, C \subseteq D, Carried(i, d, S, C)
    PROVE  Carried(i, d, T, D)
<1>1. Approvers(i, C) \subseteq Approvers(i, D)
    BY DEF Approvers
<1>. QED
    BY <1>1 DEF Extends, Carried

LEMMA SoundStays ==
    ASSUME NEW S, NEW V, NEW T, NEW W, Extends(S, V, T, W), NEW o, Sound(o, S, V)
    PROVE  Sound(o, T, W)
<1>1. ASSUME o.phase = "decide" PROVE Carried(o.vote.stage, o.final, T, W \cup {o.vote})
    <2>1. o.vote.stage \in DOMAIN S /\ Carried(o.vote.stage, o.final, S, V \cup {o.vote})
        BY <1>1 DEF Sound, ByRight
    <2>2. V \cup {o.vote} \subseteq W \cup {o.vote}
        BY DEF Extends
    <2>. QED
        BY <2>1, <2>2, CarriedStays
<1>2. ByRight(o.vote, S) => ByRight(o.vote, T)
    BY ByRightStays
<1>. QED
    BY <1>1, <1>2 DEF Sound, Extends, ByRight

-----------------------------------------------------------------------------
(***************************************************************************)
(* The steps.                                                              *)
(***************************************************************************)
\* The variables other than op, as TypeOK has them.
Typed ==
    /\ definition \in Definitions /\ instance \in Instance /\ stages \in Seq(StageInstance)
    /\ votes \subseteq Vote /\ subject \in Subject /\ edits \in Nat

\* A step in which the rows grow as they may and no request but u's changes, and that to o.
LEMMA Moves ==
    ASSUME DecisionInv, Extends(stages, votes, stages', votes'), Typed',
           instance'.status = "NONE" => stages' = <<>>,
           \A i \in DOMAIN stages' : Carried(i, stages'[i].status, stages', votes'),
           \A v \in votes' : ByRight(v, stages'),
           NEW u \in Users, NEW o \in Operations, Sound(o, stages', votes'),
           op' = op \/ op' = [op EXCEPT ![u] = o]
    PROVE  DecisionInv'
<1>1. op \in [Users -> Operations]
    BY DEF DecisionInv, TypeOK, Operations
<1>2. op' \in [Users -> Operations]
    BY <1>1
<1>3. TypeOK'
    BY <1>2 DEF TypeOK, Typed, Operations
<1>4. ASSUME NEW w \in Users PROVE Sound(op'[w], stages', votes')
    <2>1. Sound(op[w], stages, votes)
        BY DEF DecisionInv
    <2>2. Sound(op[w], stages', votes')
        BY <2>1, SoundStays
    <2>3. op'[w] = o \/ op'[w] = op[w]
        BY <1>1
    <2>. QED
        BY <2>2, <2>3
<1>. QED
    BY <1>3, <1>4 DEF DecisionInv

LEMMA IdleSound == Idle \in Operations /\ \A S, V : Sound(Idle, S, V)
BY DEF Idle, Operations, Sound

\* A step of which stages and votes know nothing.
LEMMA Aside ==
    ASSUME DecisionInv, Typed', UNCHANGED <<stages, votes>>, instance'.status = "NONE" => instance.status = "NONE",
           NEW u \in Users, NEW o \in Operations, Sound(o, stages, votes),
           op' = op \/ op' = [op EXCEPT ![u] = o]
    PROVE  DecisionInv'
<1>1. Extends(stages, votes, stages', votes')
    BY DEF Extends
<1>2. \A i \in DOMAIN stages' : Carried(i, stages'[i].status, stages', votes')
    BY DEF DecisionInv
<1>3. \A v \in votes' : ByRight(v, stages')
    BY DEF DecisionInv
<1>4. instance'.status = "NONE" => stages' = <<>>
    BY DEF DecisionInv
<1>5. Sound(o, stages', votes')
    OBVIOUS
<1>. QED
    BY <1>1, <1>2, <1>3, <1>4, <1>5, Moves

LEMMA InitSound == Init => DecisionInv
<1>. SUFFICES ASSUME Init PROVE DecisionInv
    OBVIOUS
<1>1. op \in [Users -> Operations]
    BY DEF Init, Operations
<1>2. TypeOK
    BY <1>1 DEF Init, TypeOK, Operations, Instance, InstanceStatuses, Subject, SubjectStatuses
<1>3. \A u \in Users : Sound(op[u], stages, votes)
    BY IdleSound DEF Init
<1>. QED
    BY <1>2, <1>3 DEF Init, DecisionInv

\* Stages newly entered are appended undecided, and nothing else changes in the rows.
LEMMA Appending ==
    ASSUME NEW S \in Seq(StageInstance), NEW new \in Seq(StageInstance), Fresh(new), NEW V, NEW W, V \subseteq W,
           \A i \in DOMAIN S : Carried(i, S[i].status, S, V)
    PROVE  /\ S \o new \in Seq(StageInstance) /\ Extends(S, V, S \o new, W)
           /\ \A i \in DOMAIN (S \o new) : Carried(i, (S \o new)[i].status, S \o new, W)
<1>. DEFINE T == S \o new
<1>1. T \in Seq(StageInstance)
    OBVIOUS
<1>2. DOMAIN S \subseteq DOMAIN T /\ \A i \in DOMAIN S : T[i] = S[i]
    OBVIOUS
<1>3. \A i \in DOMAIN T : i \in DOMAIN S \/ T[i].status \in {"PENDING", "SKIPPED"}
    BY DEF Fresh
<1>. HIDE DEF T
<1>4. Extends(S, V, T, W)
    BY <1>2 DEF Extends
<1>5. ASSUME NEW i \in DOMAIN T PROVE Carried(i, T[i].status, T, W)
    <2>1. CASE i \in DOMAIN S
        <3>1. Carried(i, S[i].status, S, V)
            BY <2>1
        <3>. QED
            BY <1>2, <1>4, <2>1, <3>1, CarriedStays
    <2>2. CASE i \notin DOMAIN S
        BY <1>3, <2>2 DEF Carried
    <2>. QED
        BY <2>1, <2>2
<1>. QED
    BY <1>1, <1>4, <1>5 DEF T

LEMMA StartInstanceKeeps == ASSUME DecisionInv, StartInstance PROVE DecisionInv'
<1>. DEFINE new == NewStages(definition, 1)
            begun == [status |-> "PENDING", current |-> 0]
<1>1. new \in Seq(StageInstance) /\ Fresh(new)
    BY NewStagesType DEF DecisionInv, TypeOK
<1>2. stages = <<>> /\ stages' = new
    BY DEF DecisionInv, StartInstance
<1>. HIDE DEF new
<1>3. stages \in Seq(StageInstance) /\ stages' = stages \o new
    BY <1>1, <1>2 DEF DecisionInv, TypeOK
<1>4. begun \in Instance /\ begun.status # "NONE"
    BY DEF Instance, InstanceStatuses
<1>5. instance' \in Instance /\ instance'.status # "NONE"
    BY <1>4, AdvancedType DEF StartInstance, DecisionInv, TypeOK
<1>6. subject' \in Subject
    BY OutcomeType DEF StartInstance, DecisionInv, TypeOK
<1>7. votes' = votes /\ op' = op
    BY DEF StartInstance
<1>8. /\ stages' \in Seq(StageInstance) /\ Extends(stages, votes, stages', votes')
      /\ \A i \in DOMAIN stages' : Carried(i, stages'[i].status, stages', votes')
    BY <1>1, <1>3, <1>7, Appending DEF DecisionInv
<1>9. Typed'
    BY <1>5, <1>6, <1>7, <1>8 DEF StartInstance, Typed, DecisionInv, TypeOK
<1>10. TypeOK'
    BY <1>7, <1>9 DEF DecisionInv, TypeOK, Typed
<1>11. ASSUME NEW u \in Users PROVE Sound(op'[u], stages', votes')
    <2>1. Sound(op[u], stages, votes)
        BY DEF DecisionInv
    <2>. QED
        BY <1>7, <1>8, <2>1, SoundStays
<1>12. \A v \in votes' : ByRight(v, stages')
    BY <1>7, <1>8, ByRightStays DEF DecisionInv
<1>. QED
    BY <1>5, <1>8, <1>10, <1>11, <1>12 DEF DecisionInv

LEMMA ReadStageKeeps == ASSUME DecisionInv, NEW u \in Users, ReadStage(u) PROVE DecisionInv'
<1>1. PICK i \in DOMAIN stages, d \in Decisions :
        /\ MayDecide(u, stages[i])
        /\ op' = [op EXCEPT ![u] =
                    [phase |-> "vote", inst |-> instance, stage |-> stages[i],
                     vote |-> [stage |-> i, by |-> u, decision |-> d, override |-> Overrides(u, stages[i])]]]
    BY DEF ReadStage
<1>. DEFINE vote == [stage |-> i, by |-> u, decision |-> d, override |-> Overrides(u, stages[i])]
            o == [phase |-> "vote", inst |-> instance, stage |-> stages[i], vote |-> vote]
<1>2. /\ i \in Nat /\ stages[i] \in StageInstance /\ instance \in Instance
      /\ stages # <<>> /\ instance.status # "NONE"
    BY DEF DecisionInv, TypeOK
<1>3. vote \in Vote
    BY <1>2 DEF Vote, Overrides
<1>4. o \in Operations
    BY <1>2, <1>3 DEF Operations, VoteOp
<1>5. ByRight(vote, stages)
    BY <1>1 DEF ByRight, Overrides, MayDecide
<1>6. Sound(o, stages, votes)
    BY <1>2, <1>5 DEF Sound
<1>7. op' = [op EXCEPT ![u] = o]
    BY <1>1
<1>8. Typed' /\ UNCHANGED <<stages, votes, instance>>
    BY DEF ReadStage, Typed, DecisionInv, TypeOK
<1>. QED
    BY <1>4, <1>6, <1>7, <1>8, Aside

\* The outcome of a vote is carried by the votes counted, the vote itself among them.
LEMMA FinalCarried ==
    ASSUME NEW vote, NEW s, NEW S, NEW V, vote \in V, vote.stage \in DOMAIN S,
           s.mode = S[vote.stage].mode, s.required = S[vote.stage].required
    PROVE  Carried(vote.stage, Finalises(vote, s, V), S, V)
BY DEF Finalises, Carried

LEMMA CountVotesKeeps == ASSUME DecisionInv, NEW u \in Users, CountVotes(u) PROVE DecisionInv'
<1>. DEFINE o == op[u]
            final == Finalises(o.vote, o.stage, votes \cup {o.vote})
            from == o.stage.number + 1
            after == CASE final = "PENDING"  -> o.inst
                       [] final = "REJECTED" -> [o.inst EXCEPT !.status = "REJECTED"]
                       [] final = "APPROVED" -> Advanced(o.inst, definition, from)
            new == IF final = "APPROVED" THEN NewStages(definition, from) ELSE <<>>
            settles == IF final = "PENDING" \/ after.status \notin {"APPROVED", "REJECTED"}
                       THEN subject ELSE Outcome(after.status, subject)
            d == [phase |-> "decide", inst |-> o.inst, vote |-> o.vote, final |-> final,
                  after |-> after, seen |-> subject, new |-> new, settles |-> settles]
<1>1. o \in VoteOp
    BY DEF CountVotes, DecisionInv, TypeOK, VoteOp, DecideOp, CancelOp, Idle
<1>2. /\ o.inst \in Instance /\ o.inst.status # "NONE" /\ o.vote \in Vote /\ o.stage \in StageInstance
      /\ ByRight(o.vote, stages) /\ o.stage.mode = stages[o.vote.stage].mode
      /\ o.stage.required = stages[o.vote.stage].required
    BY <1>1 DEF CountVotes, DecisionInv, VoteOp, Sound
<1>3. definition \in Definitions /\ subject \in Subject
    BY DEF DecisionInv, TypeOK
<1>4. final \in {"PENDING", "APPROVED", "REJECTED"}
    BY <1>2 DEF Finalises, Vote, Decisions
<1>5. from \in Nat /\ from # 0
    BY <1>2 DEF StageInstance
<1>6. Carried(o.vote.stage, final, stages, votes \cup {o.vote})
    BY <1>2, FinalCarried DEF ByRight
<1>7. op' = [op EXCEPT ![u] = d]
    BY DEF CountVotes
<1>. HIDE DEF o, final, from
<1>8. after \in Instance /\ after.status # "NONE"
    <2>1. CASE final = "PENDING"
        BY <1>2, <2>1
    <2>2. CASE final = "REJECTED"
        BY <1>2, <2>2 DEF Instance, InstanceStatuses
    <2>3. CASE final = "APPROVED"
        BY <1>2, <1>3, <1>5, <2>3, AdvancedType
    <2>. QED
        BY <1>4, <2>1, <2>2, <2>3
<1>9. new \in Seq(StageInstance) /\ Fresh(new)
    <2>1. CASE final = "APPROVED"
        BY <1>3, <1>5, <2>1, NewStagesType
    <2>2. CASE final # "APPROVED"
        <3>1. new = <<>>
            BY <2>2
        <3>2. <<>> \in Seq(StageInstance) /\ Fresh(<<>>)
            BY DEF Fresh
        <3>. QED
            BY <3>1, <3>2
    <2>. QED
        BY <2>1, <2>2
<1>. HIDE DEF after, new
<1>10. settles \in Subject
    BY <1>3, OutcomeType
<1>. HIDE DEF settles
<1>11. d \in Operations
    BY <1>2, <1>3, <1>4, <1>8, <1>9, <1>10 DEF Operations, DecideOp
<1>12. Sound(d, stages, votes)
    BY <1>2, <1>6, <1>8, <1>9 DEF Sound
<1>13. Typed' /\ UNCHANGED <<stages, votes, instance>>
    BY DEF CountVotes, Typed, DecisionInv, TypeOK
<1>. HIDE DEF d
<1>. QED
    BY <1>7, <1>11, <1>12, <1>13, Aside

\* What closing a stage, and escalating one, leave alone.
LEMMA Closed ==
    ASSUME NEW s \in StageInstance, NEW c \in StageStatuses
    PROVE  LET t == [s EXCEPT !.status = c] IN
           /\ t \in StageInstance /\ t.status = c
           /\ t.mode = s.mode /\ t.required = s.required /\ t.escalated = s.escalated
BY DEF StageInstance

LEMMA Escalated ==
    ASSUME NEW s \in StageInstance
    PROVE  LET t == [s EXCEPT !.escalated = TRUE] IN
           /\ t \in StageInstance /\ t.status = s.status
           /\ t.mode = s.mode /\ t.required = s.required /\ t.escalated
BY DEF StageInstance

\* A decision appends the stages it enters to the rows, with the decided one closed.
LEMMA CommitDecisionKeeps == ASSUME DecisionInv, NEW u \in Users, CommitDecision(u) PROVE DecisionInv'
<1>. DEFINE o == op[u]
            closed == [i \in DOMAIN stages |->
                        IF i = o.vote.stage /\ o.final # "PENDING"
                        THEN [stages[i] EXCEPT !.status = o.final] ELSE stages[i]]
            W == votes \cup {o.vote}
<1>1. o \in DecideOp
    BY DEF CommitDecision, DecisionInv, TypeOK, VoteOp, DecideOp, CancelOp, Idle
<1>2. /\ o.inst \in Instance /\ o.after \in Instance /\ o.vote \in Vote /\ o.new \in Seq(StageInstance)
      /\ o.final \in {"PENDING", "APPROVED", "REJECTED"} /\ o.seen \in Subject /\ o.settles \in Subject
    BY <1>1 DEF DecideOp
<1>3. Sound(o, stages, votes) /\ o.phase = "decide"
    BY DEF DecisionInv, CommitDecision
<1>4. /\ ByRight(o.vote, stages) /\ o.after.status # "NONE" /\ Fresh(o.new)
      /\ Carried(o.vote.stage, o.final, stages, W)
    BY <1>3 DEF Sound
<1>5. /\ votes' = W /\ stages' = closed \o o.new
      /\ instance' = FlushInstance(instance, o.inst, o.after)
      /\ subject' = Flush(subject, o.seen, o.settles)
      /\ op' = [op EXCEPT ![u] = Idle] /\ UNCHANGED <<definition, edits>>
    BY DEF CommitDecision
<1>. HIDE DEF o
<1>6. /\ stages \in Seq(StageInstance) /\ instance \in Instance /\ subject \in Subject /\ votes \subseteq Vote
      /\ instance.status # "NONE"
    BY <1>4 DEF DecisionInv, TypeOK, ByRight
<1>7. closed \in Seq(StageInstance) /\ DOMAIN closed = DOMAIN stages
    <2>1. \A i \in DOMAIN stages : closed[i] \in StageInstance
        <3>1. o.final # "PENDING" => o.final \in StageStatuses
            BY <1>2 DEF StageStatuses
        <3>2. \A i \in DOMAIN stages : stages[i] \in StageInstance
            BY <1>6
        <3>. QED
            BY <3>1, <3>2, Closed
    <2>2. closed \in [1..Len(stages) -> StageInstance] /\ Len(stages) \in Nat
        BY <1>6, <2>1
    <2>. HIDE DEF closed
    <2>. QED
        BY <1>6, <2>2
<1>8. \A i \in DOMAIN stages : /\ closed[i].mode = stages[i].mode /\ closed[i].required = stages[i].required
                               /\ closed[i].escalated = stages[i].escalated
                               /\ closed[i].status = IF i = o.vote.stage /\ o.final # "PENDING"
                                                     THEN o.final ELSE stages[i].status
    BY <1>6 DEF StageInstance
<1>. HIDE DEF closed
<1>9. Extends(stages, votes, closed, W)
    BY <1>7, <1>8 DEF Extends
<1>10. ASSUME NEW i \in DOMAIN closed PROVE Carried(i, closed[i].status, closed, W)
    <2>1. CASE i = o.vote.stage /\ o.final # "PENDING"
        <3>1. Carried(i, o.final, closed, W)
            BY <1>4, <1>7, <1>9, <2>1, CarriedStays
        <3>. QED
            BY <1>7, <1>8, <2>1, <3>1
    <2>2. CASE ~(i = o.vote.stage /\ o.final # "PENDING")
        <3>1. Carried(i, stages[i].status, stages, votes) /\ closed[i].status = stages[i].status
            BY <1>7, <1>8, <2>2 DEF DecisionInv
        <3>. QED
            BY <1>7, <1>9, <3>1, CarriedStays
    <2>. QED
        BY <2>1, <2>2
<1>11. /\ stages' \in Seq(StageInstance) /\ Extends(closed, W, stages', votes')
       /\ \A i \in DOMAIN stages' : Carried(i, stages'[i].status, stages', votes')
    BY <1>2, <1>4, <1>5, <1>7, <1>10, Appending
<1>12. Extends(stages, votes, stages', votes')
    BY <1>9, <1>11, <1>7 DEF Extends
<1>13. instance' \in Instance /\ instance'.status # "NONE"
    BY <1>2, <1>4, <1>5, <1>6 DEF FlushInstance, Flush, Instance
<1>14. subject' \in Subject
    BY <1>2, <1>5, <1>6 DEF Flush
<1>15. Typed'
    BY <1>2, <1>5, <1>6, <1>11, <1>13, <1>14 DEF Typed, DecisionInv, TypeOK
<1>16. ASSUME NEW v \in votes' PROVE ByRight(v, stages')
    <2>1. ByRight(v, stages)
        BY <1>4, <1>5 DEF DecisionInv
    <2>. QED
        BY <1>12, <2>1, ByRightStays
<1>. QED
    BY <1>5, <1>11, <1>12, <1>13, <1>15, <1>16, IdleSound, Moves

LEMMA ReadCancelKeeps == ASSUME DecisionInv, NEW u \in Users, ReadCancel(u) PROVE DecisionInv'
<1>1. PICK i \in DOMAIN stages \cup {NoStage} :
        op' = [op EXCEPT ![u] = [phase |-> "cancel", inst |-> instance, closes |-> i, seen |-> subject]]
    BY DEF ReadCancel
<1>. DEFINE o == [phase |-> "cancel", inst |-> instance, closes |-> i, seen |-> subject]
<1>2. o \in Operations
    BY DEF DecisionInv, TypeOK, Operations, CancelOp, NoStage
<1>3. Sound(o, stages, votes)
    BY DEF Sound
<1>4. Typed' /\ UNCHANGED <<stages, votes, instance>>
    BY DEF ReadCancel, Typed, DecisionInv, TypeOK
<1>. QED
    BY <1>1, <1>2, <1>3, <1>4, Aside

\* Stages change, but not in what their votes rest on, and no outcome is written.
LEMMA Restamped ==
    ASSUME NEW S \in Seq(StageInstance), NEW T \in Seq(StageInstance), NEW V, DOMAIN T = DOMAIN S,
           \A i \in DOMAIN S : /\ T[i].mode = S[i].mode /\ T[i].required = S[i].required
                               /\ S[i].escalated => T[i].escalated
                               /\ T[i].status = S[i].status \/ T[i].status = "CANCELLED",
           \A i \in DOMAIN S : Carried(i, S[i].status, S, V)
    PROVE  Extends(S, V, T, V) /\ \A i \in DOMAIN T : Carried(i, T[i].status, T, V)
<1>1. Extends(S, V, T, V)
    BY DEF Extends
<1>2. ASSUME NEW i \in DOMAIN T PROVE Carried(i, T[i].status, T, V)
    <2>1. CASE T[i].status = "CANCELLED"
        BY <2>1 DEF Carried
    <2>2. CASE T[i].status = S[i].status
        BY <1>1, <2>2, CarriedStays
    <2>. QED
        BY <2>1, <2>2
<1>. QED
    BY <1>1, <1>2

\* Such a step of the system.
LEMMA Restamps ==
    ASSUME DecisionInv, Typed', votes' = votes, DOMAIN stages' = DOMAIN stages,
           instance'.status = "NONE" => instance.status = "NONE",
           \A i \in DOMAIN stages : /\ stages'[i].mode = stages[i].mode /\ stages'[i].required = stages[i].required
                                    /\ stages[i].escalated => stages'[i].escalated
                                    /\ stages'[i].status = stages[i].status \/ stages'[i].status = "CANCELLED",
           NEW u \in Users, op' = op \/ op' = [op EXCEPT ![u] = Idle]
    PROVE  DecisionInv'
<1>1. stages \in Seq(StageInstance) /\ stages' \in Seq(StageInstance)
    BY DEF DecisionInv, TypeOK, Typed
<1>2. /\ Extends(stages, votes, stages', votes')
      /\ \A i \in DOMAIN stages' : Carried(i, stages'[i].status, stages', votes')
    BY <1>1, Restamped DEF DecisionInv
<1>3. \A v \in votes' : ByRight(v, stages')
    BY <1>2, ByRightStays DEF DecisionInv
<1>4. instance'.status = "NONE" => stages' = <<>>
    BY <1>1 DEF DecisionInv
<1>. QED
    BY <1>2, <1>3, <1>4, IdleSound, Moves

LEMMA CommitCancelKeeps == ASSUME DecisionInv, NEW u \in Users, CommitCancel(u) PROVE DecisionInv'
<1>. DEFINE T == [i \in DOMAIN stages |->
                    IF i = op[u].closes THEN [stages[i] EXCEPT !.status = "CANCELLED"] ELSE stages[i]]
<1>1. /\ stages \in Seq(StageInstance) /\ instance \in Instance /\ subject \in Subject
    BY DEF DecisionInv, TypeOK
<1>2. op[u] \in CancelOp
    BY DEF CommitCancel, DecisionInv, TypeOK, VoteOp, DecideOp, CancelOp, Idle
<1>3. stages' = T /\ votes' = votes /\ op' = [op EXCEPT ![u] = Idle] /\ instance' = [instance EXCEPT !.status = "CANCELLED"]
    BY DEF CommitCancel
<1>4. \A i \in DOMAIN stages : /\ T[i] \in StageInstance /\ T[i].mode = stages[i].mode
                               /\ T[i].required = stages[i].required /\ T[i].escalated = stages[i].escalated
                               /\ T[i].status = stages[i].status \/ T[i].status = "CANCELLED"
    <2>1. "CANCELLED" \in StageStatuses /\ \A i \in DOMAIN stages : stages[i] \in StageInstance
        BY <1>1 DEF StageStatuses
    <2>. QED
        BY <2>1, Closed
<1>5. T \in [1..Len(stages) -> StageInstance] /\ Len(stages) \in Nat /\ DOMAIN T = DOMAIN stages
    BY <1>1, <1>4
<1>. HIDE DEF T
<1>6. T \in Seq(StageInstance)
    BY <1>5
<1>7. instance' \in Instance /\ instance'.status # "NONE"
    BY <1>1, <1>3 DEF Instance, InstanceStatuses
<1>8. subject' \in Subject
    <2>1. op[u].seen \in Subject
        BY <1>2 DEF CancelOp
    <2>. QED
        BY <1>1, <2>1, OutcomeType DEF CommitCancel, Flush
<1>9. Typed'
    BY <1>3, <1>6, <1>7, <1>8 DEF CommitCancel, Typed, DecisionInv, TypeOK
<1>. QED
    BY <1>3, <1>4, <1>5, <1>7, <1>9, Restamps

LEMMA EscalateKeeps == ASSUME DecisionInv, NEW u \in Users, NEW i \in DOMAIN stages, Escalate(i) PROVE DecisionInv'
<1>. DEFINE T == [stages EXCEPT ![i].escalated = TRUE]
<1>1. stages \in Seq(StageInstance) /\ stages[i] \in StageInstance
    BY DEF DecisionInv, TypeOK
<1>2. T \in Seq(StageInstance) /\ DOMAIN T = DOMAIN stages
    BY <1>1, Escalated
<1>3. \A j \in DOMAIN stages : /\ T[j].mode = stages[j].mode /\ T[j].required = stages[j].required
                               /\ stages[j].escalated => T[j].escalated
                               /\ T[j].status = stages[j].status
    BY <1>1, Escalated
<1>4. stages' = T /\ UNCHANGED <<definition, instance, votes, subject, op, edits>>
    BY DEF Escalate
<1>. HIDE DEF T
<1>5. Typed'
    BY <1>2, <1>4 DEF Typed, DecisionInv, TypeOK
<1>. QED
    BY <1>2, <1>3, <1>4, <1>5, Restamps

LEMMA AsideKeeps == ASSUME DecisionInv, NEW u \in Users, EditDefinition \/ SettleElsewhere PROVE DecisionInv'
<1>1. UNCHANGED <<stages, votes, instance, op>>
    BY DEF EditDefinition, SettleElsewhere
<1>2. definition' \in Definitions /\ edits' \in Nat
    BY DEF EditDefinition, SettleElsewhere, DecisionInv, TypeOK
<1>3. subject' \in Subject
    BY DEF EditDefinition, SettleElsewhere, DecisionInv, TypeOK, Subject, SubjectStatuses
<1>4. Typed'
    BY <1>1, <1>2, <1>3 DEF Typed, DecisionInv, TypeOK
<1>. QED
    BY <1>1, <1>4, IdleSound, Aside

\* A definition names approvers, so there are users.
LEMMA SomeUser == ASSUME DecisionInv PROVE \E u \in Users : TRUE
<1>1. definition \in Seq(StageDefinition) /\ definition # <<>> /\ \A n \in DOMAIN definition : definition[n].approvers # {}
    BY ConstantsAssumption DEF DecisionInv, TypeOK
<1>2. definition[1] \in StageDefinition /\ definition[1].approvers # {}
    BY <1>1
<1>. QED
    BY <1>2 DEF StageDefinition

LEMMA NextKeeps == ASSUME DecisionInv, [Next]_vars PROVE DecisionInv'
<1>1. CASE StartInstance
    BY <1>1, StartInstanceKeeps
<1>2. ASSUME NEW u \in Users, ReadStage(u) \/ CountVotes(u) \/ CommitDecision(u) PROVE DecisionInv'
    BY <1>2, ReadStageKeeps, CountVotesKeeps, CommitDecisionKeeps
<1>3. ASSUME NEW u \in Users, ReadCancel(u) \/ CommitCancel(u) PROVE DecisionInv'
    BY <1>3, ReadCancelKeeps, CommitCancelKeeps
<1>4. ASSUME NEW i \in DOMAIN stages, Escalate(i) PROVE DecisionInv'
    BY <1>4, SomeUser, EscalateKeeps
<1>5. CASE EditDefinition \/ SettleElsewhere
    BY <1>5, SomeUser, AsideKeeps
<1>6. CASE UNCHANGED vars
    <2>1. UNCHANGED <<stages, votes, instance, op>>
        BY <1>6 DEF vars
    <2>2. Typed'
        BY <1>6 DEF vars, Typed, DecisionInv, TypeOK
    <2>. QED
        BY <2>1, <2>2, SomeUser, IdleSound, Aside
<1>. QED
    BY <1>1, <1>2, <1>3, <1>4, <1>5, <1>6 DEF Next

-----------------------------------------------------------------------------
\* What was read of a stage stays so until the commit, and the outcome is carried by the
\* votes, whichever requests, sweeps and edits interleave (workflows.py, decide_stage).
THEOREM Inductive == Spec => []DecisionInv
<1>1. DecisionInv /\ [Next]_vars => DecisionInv'
    BY NextKeeps
<1>. QED
    BY InitSound, <1>1, PTL DEF Spec

\* The rows and the requests in flight keep the shape the code gives them.
THEOREM TypeCorrect == Spec => []TypeOK
<1>1. DecisionInv => TypeOK
    BY DEF DecisionInv
<1>. QED
    BY Inductive, <1>1, PTL

\* A stage is decided only on committed votes that carry it, each of somebody entitled to it,
\* for any number of users, stages, concurrent deciders and edits of the definition.
THEOREM DecisionsCarried == Spec => []QuorumRespected
BY Inductive, InvImpliesQuorum, PTL
-----------------------------------------------------------------------------
(***************************************************************************)
(* One request at a time, beside the sweep, the edits and the Admins who   *)
(* settle the assignment past the workflow.                                *)
(*                                                                         *)
(* The stage a request decides, or cancels at, is then the one that is     *)
(* open when it commits, so the instance, its stages and the assignment    *)
(* move together.  An Admin may settle the assignment in between: what the *)
(* request read of it is then stale, but stale only as unsettled, and the  *)
(* commit overwrites it whole.                                             *)
(***************************************************************************)
NotBoth == \A u, w \in Users : op[u] # Idle /\ op[w] # Idle => u = w

\* Of the stages S only i has this status; none has.
Only(i, status, S) == i \in DOMAIN S /\ \A j \in DOMAIN S : S[j].status = status <=> j = i
NoneAt(status, S)  == \A j \in DOMAIN S : S[j].status # status

\* Stages S are as an instance of this status leaves them.
Stand(status, S) ==
    /\ status = "NONE" => S = <<>>
    /\ status \in {"PENDING", "APPROVED"} => NoneAt("REJECTED", S) /\ NoneAt("CANCELLED", S)
    /\ status = "PENDING" => \E i \in DOMAIN S : Only(i, "PENDING", S)
    /\ status # "PENDING" => NoneAt("PENDING", S)
    /\ status \in {"REJECTED", "CANCELLED"} => \E i \in DOMAIN S : Only(i, status, S)

\* An open stage i still waits for somebody.
Waiting(i, S, V) == S[i].status = "PENDING" => ~(S[i].required \subseteq Approvers(i, V))

\* The assignment s is settled by somebody, or not at all, and as the instance's status has it.
Settled(s) == s.by = "nobody" <=> s.status = "PENDING_APPROVAL"
Reflects(status, s) ==
    /\ s.by = "workflow" => IF s.status = "ELIGIBLE" THEN status = "APPROVED"
                                                     ELSE status \in {"REJECTED", "CANCELLED"}
    /\ status \in {"APPROVED", "REJECTED", "CANCELLED"} => s.status # "PENDING_APPROVAL"

\* What was read of the assignment is so, unless an Admin settled it since.
Believed(seen, now) == Settled(seen) /\ (seen = now \/ (seen.status = "PENDING_APPROVAL" /\ now.by = "admin"))

\* The instance and the stages entered when a stage is decided as `final'.
Entering(after, new) ==
    \/ after.status = "APPROVED" /\ NoneAt("PENDING", new)
    \/ after.status = "PENDING" /\ \E k \in DOMAIN new : Only(k, "PENDING", new)
Follows(final, inst, after, new) ==
    /\ final = "PENDING"  => after = inst /\ new = <<>>
    /\ final = "REJECTED" => after.status = "REJECTED" /\ new = <<>>
    /\ final = "APPROVED" => Entering(after, new)

\* Request o decides, or cancels at, the stage of S that is open.
Current(o, I, S, V, s) ==
    /\ o.phase \in {"vote", "decide"} => S[o.vote.stage].status = "PENDING" /\ o.inst = I
    /\ o.phase = "decide" =>
        /\ Believed(o.seen, s) /\ Follows(o.final, o.inst, o.after, o.new)
        /\ o.settles = Outcome(o.after.status, o.seen)
        /\ \A k \in DOMAIN o.new : o.new[k].required # {}
        /\ o.final = "PENDING" =>
              ~(S[o.vote.stage].required \subseteq Approvers(o.vote.stage, V \cup {o.vote}))
    /\ o.phase = "cancel" =>
        o.closes \in DOMAIN S /\ S[o.closes].status = "PENDING" /\ Believed(o.seen, s)

AloneInv ==
    /\ NotBoth
    /\ Stand(instance.status, stages)
    /\ \A i \in DOMAIN stages : Waiting(i, stages, votes)
    /\ Reflects(instance.status, subject) /\ Settled(subject)
    /\ \A u \in Users : Current(op[u], instance, stages, votes, subject)

\* AloneInv but for the requests in flight.
RowsAlone ==
    /\ Stand(instance.status, stages)
    /\ \A i \in DOMAIN stages : Waiting(i, stages, votes)
    /\ Reflects(instance.status, subject) /\ Settled(subject)

\* While a stage is open the instance is pending.
LEMMA OpenMeansPending ==
    ASSUME NEW status, NEW S, Stand(status, S), NEW i \in DOMAIN S, S[i].status = "PENDING"
    PROVE  status = "PENDING"
BY DEF Stand, NoneAt

\* Whoever starts or goes on with a request is alone.
LEMMA Acting ==
    ASSUME MaxInFlight <= 1, NotBoth, NEW u \in Users, Free(u) \/ op[u] # Idle
    PROVE  \A w \in Users \ {u} : op[w] = Idle
<1>1. CASE op[u] # Idle
    BY <1>1 DEF NotBoth
<1>2. CASE Free(u)
    <2>. DEFINE S == {w \in Users : op[w] # Idle}
    <2>. SUFFICES ASSUME NEW w \in Users, op[w] # Idle PROVE FALSE
        OBVIOUS
    <2>1. S = {w}
        BY DEF NotBoth
    <2>2. Cardinality(S) = 1
        BY <2>1, FS_Singleton
    <2>. QED
        BY <1>2, <2>2, ConstantsAssumption DEF Free
<1>. QED
    BY <1>1, <1>2

\* A step in which u's request becomes o and nobody else has one.
LEMMA AloneMoves ==
    ASSUME DecisionInv, RowsAlone', NEW u \in Users, \A w \in Users \ {u} : op[w] = Idle,
           NEW o, op' = [op EXCEPT ![u] = o],
           Current(o, instance', stages', votes', subject')
    PROVE  AloneInv'
<1>1. op \in [Users -> Operations]
    BY DEF DecisionInv, TypeOK, Operations
<1>2. ASSUME NEW w \in Users PROVE op'[w] = IF w = u THEN o ELSE Idle
    BY <1>1
<1>3. NotBoth'
    BY <1>2 DEF NotBoth
<1>4. \A I, S, V, s : Current(Idle, I, S, V, s)
    BY DEF Current, Idle
<1>5. ASSUME NEW w \in Users PROVE Current(op'[w], instance', stages', votes', subject')
    BY <1>2, <1>4
<1>. QED
    BY <1>3, <1>5 DEF AloneInv, RowsAlone

\* A step of no request.
LEMMA AloneAside ==
    ASSUME AloneInv, RowsAlone', op' = op,
           \A u \in Users : Current(op[u], instance', stages', votes', subject')
    PROVE  AloneInv'
BY DEF AloneInv, RowsAlone, NotBoth

LEMMA InitAlone == Init => AloneInv
<1>. SUFFICES ASSUME Init PROVE AloneInv
    OBVIOUS
<1>1. NotBoth /\ \A u \in Users : op[u] = Idle
    BY DEF Init, NotBoth
<1>2. \A I, S, V, s : Current(Idle, I, S, V, s)
    BY DEF Current, Idle
<1>3. stages = <<>> /\ DOMAIN stages = {} /\ instance.status = "NONE"
    BY DEF Init
<1>4. Stand(instance.status, stages)
    BY <1>3 DEF Stand, NoneAt
<1>5. Reflects(instance.status, subject) /\ Settled(subject)
    BY <1>3 DEF Init, Reflects, Settled
<1>. QED
    BY <1>1, <1>2, <1>3, <1>4, <1>5 DEF AloneInv

\* _advance: an instance that is not approved stands at the one stage it entered open.
LEMMA AdvancedEnters ==
    ASSUME NEW inst \in Instance, inst.status = "PENDING", NEW defn \in Definitions, NEW from \in Nat, from # 0
    PROVE  /\ Entering(Advanced(inst, defn, from), NewStages(defn, from))
           /\ \A k \in DOMAIN NewStages(defn, from) : NewStages(defn, from)[k].required # {}
<1>1. /\ defn \in Seq(StageDefinition) /\ Len(defn) \in Nat
      /\ \A n \in 1..Len(defn) : defn[n].approvers # {}
    BY ConstantsAssumption
<1>2. \A n, s : Entered(defn[n], n, s).required = defn[n].approvers /\ Entered(defn[n], n, s).status = s
    BY DEF Entered
<1>3. CASE Needing(defn, from) = {}
    <2>. DEFINE len == Len(defn) - from + 1
                new == [k \in 1..len |-> Entered(defn[from + k - 1], from + k - 1, "SKIPPED")]
    <2>1. ASSUME NEW k \in 1..len PROVE from + k - 1 \in 1..Len(defn)
        BY <1>1
    <2>2. NewStages(defn, from) = new
        BY <1>3 DEF NewStages
    <2>3. ASSUME NEW k \in 1..len PROVE new[k].required # {} /\ new[k].status = "SKIPPED"
        <3>1. from + k - 1 \in 1..Len(defn)
            BY <2>1
        <3>2. new[k] = Entered(defn[from + k - 1], from + k - 1, "SKIPPED")
            OBVIOUS
        <3>. QED
            BY <1>1, <1>2, <3>1, <3>2
    <2>4. Advanced(inst, defn, from).status = "APPROVED"
        BY <1>3 DEF Advanced
    <2>5. DOMAIN new = 1..len
        OBVIOUS
    <2>. HIDE DEF new, len
    <2>. QED
        BY <2>2, <2>3, <2>4, <2>5 DEF Entering, NoneAt
<1>4. CASE Needing(defn, from) # {}
    <2>. DEFINE stop == FirstNeeding(defn, from)
                last == stop - from + 1
                new == [k \in 1..(stop - from + 1) |->
                          Entered(defn[from + k - 1], from + k - 1,
                                  IF from + k - 1 = stop THEN "PENDING" ELSE "SKIPPED")]
    <2>1. stop \in from..Len(defn)
        BY <1>1, <1>4, FirstIsNeeding DEF Needing
    <2>2. NewStages(defn, from) = new
        BY <1>4 DEF NewStages
    <2>3. Advanced(inst, defn, from).status = "PENDING"
        BY <1>4 DEF Advanced, Instance
    <2>. HIDE DEF stop
    <2>4. ASSUME NEW k \in 1..(stop - from + 1) PROVE from + k - 1 \in 1..Len(defn)
        BY <1>1, <2>1
    <2>5. \A k \in 1..last : new[k].required # {}
        BY <1>1, <1>2, <2>4
    <2>6. \A k \in 1..last : new[k].status = IF from + k - 1 = stop THEN "PENDING" ELSE "SKIPPED"
        BY <1>2
    <2>7. \A k \in 1..last : from + k - 1 = stop <=> k = last
        BY <2>1
    <2>8. last \in 1..last /\ DOMAIN new = 1..last
        BY <2>1
    <2>. HIDE DEF new, last
    <2>9. Only(last, "PENDING", new)
        BY <2>6, <2>7, <2>8 DEF Only
    <2>. QED
        BY <2>2, <2>3, <2>5, <2>8, <2>9 DEF Entering
<1>. QED
    BY <1>3, <1>4

\* What a commit makes of the assignment agrees with the instance it writes.
LEMMA SettlesRight ==
    ASSUME NEW now \in Subject, NEW seen \in Subject, Settled(now), Believed(seen, now), Reflects("PENDING", now),
           NEW status \in InstanceStatuses, status # "NONE"
    PROVE  LET s == Flush(now, seen, Outcome(status, seen)) IN Settled(s) /\ Reflects(status, s)
<1>1. now.by # "workflow"
    BY DEF Reflects
<1>2. CASE seen.status = "PENDING_APPROVAL" /\ status \in {"APPROVED", "REJECTED", "CANCELLED"}
    <2>. DEFINE s == [status |-> IF status = "APPROVED" THEN "ELIGIBLE" ELSE "REJECTED", by |-> "workflow"]
    <2>1. Outcome(status, seen) = s
        BY <1>2 DEF Outcome
    <2>2. s # seen
        BY <1>2 DEF Subject
    <2>3. Settled(s) /\ Reflects(status, s)
        BY <1>2 DEF Settled, Reflects
    <2>. QED
        BY <2>1, <2>2, <2>3 DEF Flush
<1>3. CASE ~(seen.status = "PENDING_APPROVAL" /\ status \in {"APPROVED", "REJECTED", "CANCELLED"})
    <2>1. Outcome(status, seen) = seen /\ Flush(now, seen, seen) = now
        BY <1>3 DEF Outcome, Flush
    <2>2. Reflects(status, now)
        BY <1>1, <1>3 DEF Reflects, Believed, InstanceStatuses
    <2>. QED
        BY <2>1, <2>2
<1>. QED
    BY <1>2, <1>3

-----------------------------------------------------------------------------
(***************************************************************************)
(* The steps, one request at a time.                                       *)
(***************************************************************************)
\* Stages that keep their status and their approvers stand and wait as they did.
LEMMA StandStays ==
    ASSUME NEW S \in Seq(StageInstance), NEW T \in Seq(StageInstance), DOMAIN T = DOMAIN S, NEW V,
           \A j \in DOMAIN S : T[j].status = S[j].status /\ T[j].required = S[j].required
    PROVE  /\ \A status : Stand(status, S) => Stand(status, T)
           /\ (\A j \in DOMAIN S : Waiting(j, S, V)) => \A j \in DOMAIN T : Waiting(j, T, V)
<1>1. ASSUME NEW status, Stand(status, S) PROVE Stand(status, T)
    <2>1. S = <<>> => T = <<>>
        OBVIOUS
    <2>2. \A x : NoneAt(x, S) => NoneAt(x, T)
        BY DEF NoneAt
    <2>3. \A x, i : Only(i, x, S) => Only(i, x, T)
        BY DEF Only
    <2>. QED
        BY <1>1, <2>1, <2>2, <2>3 DEF Stand
<1>. QED
    BY <1>1 DEF Waiting

LEMMA StartAlone == ASSUME DecisionInv, AloneInv, StartInstance PROVE AloneInv'
<1>. DEFINE new == NewStages(definition, 1)
            begun == [status |-> "PENDING", current |-> 0]
            started == Advanced(begun, definition, 1)
<1>1. instance.status = "NONE" /\ stages = <<>> /\ DOMAIN stages = {}
    BY DEF DecisionInv, StartInstance
<1>2. votes = {}
    BY <1>1 DEF DecisionInv, ByRight
<1>3. begun \in Instance /\ begun.status = "PENDING" /\ definition \in Definitions
    BY DEF Instance, InstanceStatuses, DecisionInv, TypeOK
<1>4. Entering(started, new) /\ \A k \in DOMAIN new : new[k].required # {}
    BY <1>3, AdvancedEnters
<1>5. Fresh(new) /\ new \in Seq(StageInstance)
    BY <1>3, NewStagesType
<1>6. /\ instance' = started /\ stages' = new /\ votes' = {} /\ op' = op
      /\ subject' = Outcome(started.status, subject)
    BY <1>2 DEF StartInstance
<1>7. subject \in Subject /\ Reflects("NONE", subject) /\ Settled(subject)
    BY <1>1 DEF DecisionInv, TypeOK, AloneInv
<1>. HIDE DEF new, started
<1>8. started.status \in {"APPROVED", "PENDING"}
    BY <1>4 DEF Entering
<1>9. Stand(started.status, new)
    <2>1. NoneAt("REJECTED", new) /\ NoneAt("CANCELLED", new)
        BY <1>5 DEF Fresh, NoneAt
    <2>. QED
        BY <1>4, <2>1 DEF Entering, Stand
<1>10. \A i \in DOMAIN new : Waiting(i, new, {})
    BY <1>4 DEF Waiting, Approvers
<1>11. Settled(subject') /\ Reflects(started.status, subject')
    <2>1. Believed(subject, subject) /\ Reflects("PENDING", subject) /\ started.status \in InstanceStatuses
        BY <1>7, <1>8 DEF Believed, Reflects, InstanceStatuses
    <2>2. Flush(subject, subject, Outcome(started.status, subject)) = Outcome(started.status, subject)
        BY DEF Flush
    <2>. QED
        BY <1>6, <1>7, <1>8, <2>1, <2>2, SettlesRight
<1>12. RowsAlone'
    BY <1>6, <1>9, <1>10, <1>11 DEF RowsAlone
<1>13. ASSUME NEW u \in Users PROVE op[u].phase \notin {"vote", "decide", "cancel"}
    <2>1. Sound(op[u], stages, votes) /\ Current(op[u], instance, stages, votes, subject)
        BY DEF DecisionInv, AloneInv
    <2>. QED
        BY <1>1, <2>1 DEF Sound, ByRight, Current
<1>14. \A u \in Users : Current(op[u], instance', stages', votes', subject')
    BY <1>13 DEF Current
<1>. QED
    BY <1>6, <1>12, <1>14, AloneAside

LEMMA ReadStageAlone ==
    ASSUME MaxInFlight <= 1, DecisionInv, AloneInv, NEW u \in Users, ReadStage(u)
    PROVE  AloneInv'
<1>1. PICK i \in DOMAIN stages, d \in Decisions :
        /\ Free(u) /\ stages[i].status = "PENDING"
        /\ op' = [op EXCEPT ![u] =
                    [phase |-> "vote", inst |-> instance, stage |-> stages[i],
                     vote |-> [stage |-> i, by |-> u, decision |-> d, override |-> Overrides(u, stages[i])]]]
        /\ UNCHANGED <<instance, stages, votes, subject>>
    BY DEF ReadStage
<1>2. PICK o : o = [phase |-> "vote", inst |-> instance, stage |-> stages[i],
                    vote |-> [stage |-> i, by |-> u, decision |-> d, override |-> Overrides(u, stages[i])]]
    OBVIOUS
<1>3. o.phase = "vote" /\ o.inst = instance /\ o.vote.stage = i
    BY <1>2
<1>4. Current(o, instance', stages', votes', subject')
    BY <1>1, <1>3 DEF Current
<1>5. RowsAlone'
    BY <1>1 DEF AloneInv, RowsAlone
<1>6. \A w \in Users \ {u} : op[w] = Idle
    BY <1>1, Acting DEF AloneInv
<1>. QED
    BY <1>1, <1>2, <1>4, <1>5, <1>6, AloneMoves

LEMMA ReadCancelAlone ==
    ASSUME MaxInFlight <= 1, DecisionInv, AloneInv, NEW u \in Users, ReadCancel(u)
    PROVE  AloneInv'
<1>1. PICK i \in DOMAIN stages \cup {NoStage} :
        /\ Free(u) /\ instance.status = "PENDING"
        /\ IF PendingStages = {} THEN i = NoStage ELSE i \in PendingStages
        /\ op' = [op EXCEPT ![u] = [phase |-> "cancel", inst |-> instance, closes |-> i, seen |-> subject]]
        /\ UNCHANGED <<instance, stages, votes, subject>>
    BY DEF ReadCancel
<1>2. PICK o : o = [phase |-> "cancel", inst |-> instance, closes |-> i, seen |-> subject]
    OBVIOUS
<1>3. o.phase = "cancel" /\ o.seen = subject /\ o.closes = i
    BY <1>2
<1>4. i \in DOMAIN stages /\ stages[i].status = "PENDING"
    <2>1. Stand("PENDING", stages)
        BY <1>1 DEF AloneInv
    <2>2. PendingStages # {}
        BY <2>1 DEF Stand, Only, PendingStages
    <2>. QED
        BY <1>1, <2>2 DEF PendingStages
<1>5. Current(o, instance', stages', votes', subject')
    BY <1>1, <1>3, <1>4 DEF Current, Believed, AloneInv
<1>6. RowsAlone'
    BY <1>1 DEF AloneInv, RowsAlone
<1>7. \A w \in Users \ {u} : op[w] = Idle
    BY <1>1, Acting DEF AloneInv
<1>. QED
    BY <1>1, <1>2, <1>5, <1>6, <1>7, AloneMoves

LEMMA CountVotesAlone ==
    ASSUME MaxInFlight <= 1, DecisionInv, AloneInv, NEW u \in Users, CountVotes(u)
    PROVE  AloneInv'
<1>1. PICK o : o = op[u]
    OBVIOUS
<1>2. PICK final : final = Finalises(o.vote, o.stage, votes \cup {o.vote})
    OBVIOUS
<1>3. PICK from : from = o.stage.number + 1
    OBVIOUS
<1>4. PICK after : after = CASE final = "PENDING"  -> o.inst
                             [] final = "REJECTED" -> [o.inst EXCEPT !.status = "REJECTED"]
                             [] final = "APPROVED" -> Advanced(o.inst, definition, from)
    OBVIOUS
<1>5. PICK new : new = IF final = "APPROVED" THEN NewStages(definition, from) ELSE <<>>
    OBVIOUS
<1>6. PICK settles : settles = IF final = "PENDING" \/ after.status \notin {"APPROVED", "REJECTED"}
                               THEN subject ELSE Outcome(after.status, subject)
    OBVIOUS
<1>7. PICK d : d = [phase |-> "decide", inst |-> o.inst, vote |-> o.vote, final |-> final,
                    after |-> after, seen |-> subject, new |-> new, settles |-> settles]
    OBVIOUS
<1>8. op' = [op EXCEPT ![u] = d] /\ UNCHANGED <<instance, stages, votes, subject>>
    BY <1>1, <1>2, <1>3, <1>4, <1>5, <1>6, <1>7 DEF CountVotes
<1>9. o.phase = "vote" /\ o \in VoteOp
    BY <1>1 DEF CountVotes, DecisionInv, TypeOK, VoteOp, DecideOp, CancelOp, Idle
<1>10. /\ o.vote.stage \in DOMAIN stages /\ stages[o.vote.stage].status = "PENDING" /\ o.inst = instance
       /\ o.stage.required = stages[o.vote.stage].required
    BY <1>1, <1>9 DEF DecisionInv, AloneInv, Sound, ByRight, Current
<1>11. instance.status = "PENDING"
    BY <1>10, OpenMeansPending DEF AloneInv
<1>12. from \in Nat /\ from # 0 /\ o.vote \in Vote
    BY <1>3, <1>9 DEF VoteOp, StageInstance
<1>13. definition \in Definitions /\ instance \in Instance
    BY DEF DecisionInv, TypeOK
<1>14. final \in {"PENDING", "APPROVED", "REJECTED"}
    BY <1>2, <1>12 DEF Finalises, Vote, Decisions
<1>15. Follows(final, o.inst, after, new) /\ \A k \in DOMAIN new : new[k].required # {}
    <2>1. CASE final = "PENDING"
        BY <1>4, <1>5, <2>1 DEF Follows
    <2>2. CASE final = "REJECTED"
        BY <1>4, <1>5, <1>10, <1>13, <2>2 DEF Follows, Instance
    <2>3. CASE final = "APPROVED"
        <3>1. after = Advanced(instance, definition, from) /\ new = NewStages(definition, from)
            BY <1>4, <1>5, <1>10, <2>3
        <3>. QED
            BY <1>11, <1>12, <1>13, <2>3, <3>1, AdvancedEnters DEF Follows
    <2>. QED
        BY <1>14, <2>1, <2>2, <2>3
<1>16. settles = Outcome(after.status, subject)
    <2>1. after.status \in {"PENDING", "APPROVED", "REJECTED"} /\ (final = "PENDING" => after.status = "PENDING")
        BY <1>10, <1>11, <1>14, <1>15 DEF Follows, Entering
    <2>. QED
        BY <1>6, <2>1 DEF Outcome
<1>17. final = "PENDING" =>
          ~(stages[o.vote.stage].required \subseteq Approvers(o.vote.stage, votes \cup {o.vote}))
    <2>1. final = "PENDING" => ~(o.stage.required \subseteq Approvers(o.vote.stage, votes \cup {o.vote}))
        BY <1>2, <1>12 DEF Finalises, Vote, Decisions
    <2>. QED
        BY <1>10, <2>1
<1>18. /\ d.phase = "decide" /\ d.inst = o.inst /\ d.vote = o.vote /\ d.final = final /\ d.after = after
       /\ d.seen = subject /\ d.new = new /\ d.settles = settles
    BY <1>7
<1>19. Believed(subject, subject)
    BY DEF AloneInv, Believed
<1>20. Current(d, instance, stages, votes, subject)
    BY <1>10, <1>15, <1>16, <1>17, <1>18, <1>19 DEF Current
<1>21. Current(d, instance', stages', votes', subject')
    BY <1>8, <1>20
<1>22. RowsAlone'
    BY <1>8 DEF AloneInv, RowsAlone
<1>23. \A w \in Users \ {u} : op[w] = Idle
    <2>1. op[u] # Idle
        BY <1>1, <1>9 DEF Idle
    <2>. QED
        BY <2>1, Acting DEF AloneInv
<1>. QED
    BY <1>8, <1>21, <1>22, <1>23, AloneMoves

\* Closing the one open stage as c, where the stages entered after it are `new'.
LEMMA Closing ==
    ASSUME NEW S \in Seq(StageInstance), Stand("PENDING", S),
           NEW i \in DOMAIN S, S[i].status = "PENDING", NEW c \in {"APPROVED", "REJECTED", "CANCELLED"},
           NEW C \in Seq(StageInstance), DOMAIN C = DOMAIN S,
           \A j \in DOMAIN S : C[j].status = IF j = i THEN c ELSE S[j].status
    PROVE  /\ NoneAt("PENDING", C)
           /\ c = "APPROVED" => NoneAt("REJECTED", C) /\ NoneAt("CANCELLED", C)
           /\ c # "APPROVED" => Only(i, c, C) /\ Stand(c, C)
<1>1. \A j \in DOMAIN S : S[j].status = "PENDING" => j = i
    BY DEF Stand, Only
<1>2. \A j \in DOMAIN S : S[j].status \notin {"REJECTED", "CANCELLED"}
    BY DEF Stand, NoneAt
<1>3. NoneAt("PENDING", C)
    BY <1>1 DEF NoneAt
<1>4. c = "APPROVED" => NoneAt("REJECTED", C) /\ NoneAt("CANCELLED", C)
    BY <1>2 DEF NoneAt
<1>5. c # "APPROVED" => Only(i, c, C)
    BY <1>2 DEF Only
<1>6. c # "APPROVED" => Stand(c, C)
    BY <1>3, <1>5 DEF Stand
<1>. QED
    BY <1>3, <1>4, <1>5, <1>6

\* The stages after an approval: the ones that were, with none open, and the ones entered.
LEMMA Approving ==
    ASSUME NEW C \in Seq(StageInstance), NEW new \in Seq(StageInstance), Fresh(new),
           NoneAt("PENDING", C), NoneAt("REJECTED", C), NoneAt("CANCELLED", C),
           NEW after, Entering(after, new)
    PROVE  Stand(after.status, C \o new)
<1>. DEFINE T == C \o new
            n == Len(C)
<1>1. n \in Nat /\ DOMAIN C = 1..n /\ DOMAIN new = 1..Len(new) /\ Len(new) \in Nat
    OBVIOUS
<1>2. DOMAIN T = 1..(n + Len(new)) /\ \A j \in 1..n : T[j] = C[j]
    OBVIOUS
<1>3. \A j \in DOMAIN T \ 1..n : j - n \in DOMAIN new /\ T[j] = new[j - n]
    OBVIOUS
<1>4. \A k \in DOMAIN new : n + k \in DOMAIN T /\ T[n + k] = new[k] /\ n + k \notin 1..n
    OBVIOUS
<1>. HIDE DEF T, n
<1>5. NoneAt("REJECTED", T) /\ NoneAt("CANCELLED", T)
    BY <1>1, <1>2, <1>3 DEF NoneAt, Fresh
<1>6. CASE after.status = "APPROVED" /\ NoneAt("PENDING", new)
    <2>1. NoneAt("PENDING", T)
        BY <1>1, <1>2, <1>3, <1>6 DEF NoneAt
    <2>. QED
        BY <1>5, <1>6, <2>1 DEF Stand, T
<1>7. ASSUME after.status = "PENDING", NEW k \in DOMAIN new, Only(k, "PENDING", new)
      PROVE  Stand(after.status, T)
    <2>1. n + k \in DOMAIN T /\ T[n + k].status = "PENDING"
        BY <1>4, <1>7 DEF Only
    <2>2. ASSUME NEW j \in DOMAIN T, T[j].status = "PENDING" PROVE j = n + k
        <3>1. j \notin 1..n
            BY <1>1, <1>2, <2>2 DEF NoneAt
        <3>2. j - n = k
            BY <1>3, <1>7, <2>2, <3>1 DEF Only
        <3>. QED
            BY <1>1, <1>2, <3>2
    <2>3. Only(n + k, "PENDING", T)
        BY <2>1, <2>2 DEF Only
    <2>. QED
        BY <1>5, <1>7, <2>1, <2>3 DEF Stand
<1>. QED
    BY <1>6, <1>7 DEF Entering, T

\* Whoever a decision's stages wait for has not voted: votes are on stages already there.
LEMMA WaitingOn ==
    ASSUME NEW S \in Seq(StageInstance), NEW T \in Seq(StageInstance), NEW W,
           DOMAIN S \subseteq DOMAIN T, \A v \in W : v.stage \in DOMAIN S,
           \A j \in DOMAIN S : Waiting(j, T, W),
           \A j \in DOMAIN T \ DOMAIN S : T[j].required # {}
    PROVE  \A j \in DOMAIN T : Waiting(j, T, W)
<1>1. ASSUME NEW j \in DOMAIN T, j \notin DOMAIN S PROVE Waiting(j, T, W)
    <2>1. Approvers(j, W) = {}
        BY <1>1 DEF Approvers
    <2>. QED
        BY <1>1, <2>1 DEF Waiting
<1>. QED
    BY <1>1

LEMMA CommitDecisionAlone ==
    ASSUME MaxInFlight <= 1, DecisionInv, AloneInv, NEW u \in Users, CommitDecision(u)
    PROVE  AloneInv'
<1>1. PICK o : o = op[u]
    OBVIOUS
<1>2. PICK C : C = [i \in DOMAIN stages |->
                        IF i = o.vote.stage /\ o.final # "PENDING"
                        THEN [stages[i] EXCEPT !.status = o.final] ELSE stages[i]]
    OBVIOUS
<1>3. PICK W : W = votes \cup {o.vote}
    OBVIOUS
<1>4. /\ votes' = W /\ stages' = C \o o.new /\ instance' = FlushInstance(instance, o.inst, o.after)
      /\ subject' = Flush(subject, o.seen, o.settles) /\ op' = [op EXCEPT ![u] = Idle]
      /\ o.phase = "decide"
    BY <1>1, <1>2, <1>3 DEF CommitDecision
<1>5. /\ o.after \in Instance /\ o.new \in Seq(StageInstance) /\ o.seen \in Subject
      /\ o.final \in {"PENDING", "APPROVED", "REJECTED"}
    <2>1. o \in DecideOp
        BY <1>1, <1>4 DEF DecisionInv, TypeOK, VoteOp, DecideOp, CancelOp, Idle
    <2>. QED
        BY <2>1 DEF DecideOp
<1>6. o.vote.stage \in DOMAIN stages /\ Fresh(o.new) /\ o.after.status # "NONE"
    BY <1>1, <1>4 DEF DecisionInv, Sound, ByRight
<1>7. PICK i \in DOMAIN stages : i = o.vote.stage
    BY <1>6
<1>8. Current(o, instance, stages, votes, subject)
    BY <1>1 DEF AloneInv
<1>9. /\ stages[i].status = "PENDING" /\ o.inst = instance /\ Believed(o.seen, subject)
      /\ Follows(o.final, instance, o.after, o.new) /\ o.settles = Outcome(o.after.status, o.seen)
      /\ \A k \in DOMAIN o.new : o.new[k].required # {}
      /\ o.final = "PENDING" => ~(stages[i].required \subseteq Approvers(i, W))
    BY <1>3, <1>4, <1>7, <1>8 DEF Current
<1>10. /\ stages \in Seq(StageInstance) /\ subject \in Subject /\ instance \in Instance
       /\ Stand(instance.status, stages) /\ Settled(subject) /\ Reflects(instance.status, subject)
    BY DEF DecisionInv, TypeOK, AloneInv
<1>11. instance.status = "PENDING" /\ Stand("PENDING", stages)
    BY <1>9, <1>10, OpenMeansPending
<1>12. \A w \in Users \ {u} : op[w] = Idle
    <2>1. op[u] # Idle
        BY <1>1, <1>4 DEF Idle
    <2>. QED
        BY <2>1, Acting DEF AloneInv
<1>13. \A j \in DOMAIN stages : /\ C[j] \in StageInstance /\ C[j].required = stages[j].required
                                /\ C[j].status = IF j = i /\ o.final # "PENDING" THEN o.final ELSE stages[j].status
    <2>1. o.final # "PENDING" => o.final \in StageStatuses
        BY <1>5 DEF StageStatuses
    <2>2. \A j \in DOMAIN stages : stages[j] \in StageInstance
        BY <1>10
    <2>. QED
        BY <1>2, <1>7, <2>1, <2>2, Closed
<1>14. C \in Seq(StageInstance) /\ DOMAIN C = DOMAIN stages
    <2>1. C \in [1..Len(stages) -> StageInstance] /\ Len(stages) \in Nat /\ DOMAIN C = DOMAIN stages
        BY <1>2, <1>10, <1>13
    <2>. QED
        BY <2>1
<1>15. instance'.status = o.after.status
    BY <1>4, <1>9 DEF FlushInstance, Flush
<1>16. Settled(subject') /\ Reflects(instance'.status, subject')
    <2>1. o.after.status \in InstanceStatuses
        BY <1>5 DEF Instance
    <2>. QED
        BY <1>4, <1>5, <1>6, <1>9, <1>10, <1>11, <1>15, <2>1, SettlesRight
<1>17. stages' \in Seq(StageInstance)
    BY <1>4, <1>5, <1>14
<1>18. Stand(o.after.status, C \o o.new)
    <2>1. CASE o.final = "PENDING"
        <3>1. o.after = instance /\ o.new = <<>>
            BY <1>9, <2>1 DEF Follows
        <3>2. C \o <<>> = C
            BY <1>14
        <3>3. \A j \in DOMAIN stages : C[j].status = stages[j].status /\ C[j].required = stages[j].required
            BY <1>13, <2>1
        <3>4. Stand(instance.status, C)
            BY <1>10, <1>14, <3>3, StandStays
        <3>. QED
            BY <3>1, <3>2, <3>4
    <2>2. CASE o.final = "REJECTED"
        <3>1. o.after.status = "REJECTED" /\ o.new = <<>>
            BY <1>9, <2>2 DEF Follows
        <3>2. C \o <<>> = C
            BY <1>14
        <3>3. \A j \in DOMAIN stages : C[j].status = IF j = i THEN "REJECTED" ELSE stages[j].status
            BY <1>13, <2>2
        <3>4. Stand("REJECTED", C)
            BY <1>9, <1>10, <1>11, <1>14, <3>3, Closing
        <3>. QED
            BY <3>1, <3>2, <3>4
    <2>3. CASE o.final = "APPROVED"
        <3>1. Entering(o.after, o.new)
            BY <1>9, <2>3 DEF Follows
        <3>2. \A j \in DOMAIN stages : C[j].status = IF j = i THEN "APPROVED" ELSE stages[j].status
            BY <1>13, <2>3
        <3>3. NoneAt("PENDING", C) /\ NoneAt("REJECTED", C) /\ NoneAt("CANCELLED", C)
            BY <1>9, <1>10, <1>11, <1>14, <3>2, Closing
        <3>. QED
            BY <1>5, <1>6, <1>14, <3>1, <3>3, Approving
    <2>. QED
        BY <1>5, <2>1, <2>2, <2>3
<1>19. \A j \in DOMAIN stages' : Waiting(j, stages', W)
    <2>1. /\ DOMAIN stages \subseteq DOMAIN stages' /\ \A j \in DOMAIN stages : stages'[j] = C[j]
          /\ \A j \in DOMAIN stages' \ DOMAIN stages : j - Len(C) \in DOMAIN o.new /\ stages'[j] = o.new[j - Len(C)]
        BY <1>4, <1>5, <1>14
    <2>2. \A j \in DOMAIN stages' \ DOMAIN stages : stages'[j].required # {}
        BY <1>9, <2>1
    <2>3. \A v \in W : v.stage \in DOMAIN stages
        BY <1>3, <1>6 DEF DecisionInv, ByRight
    <2>4. ASSUME NEW j \in DOMAIN stages PROVE Waiting(j, stages', W)
        <3>. SUFFICES ASSUME C[j].status = "PENDING" PROVE ~(stages[j].required \subseteq Approvers(j, W))
            BY <1>13, <2>1 DEF Waiting
        <3>1. o.final = "PENDING" \/ j # i
            BY <1>13
        <3>2. stages[j].status = "PENDING"
            BY <1>5, <1>13
        <3>3. j = i
            BY <1>9, <1>11, <3>2 DEF Stand, Only
        <3>. QED
            BY <1>9, <3>1, <3>3
    <2>. QED
        BY <1>10, <1>17, <2>1, <2>2, <2>3, <2>4, WaitingOn
<1>20. RowsAlone'
    BY <1>4, <1>15, <1>16, <1>18, <1>19 DEF RowsAlone
<1>21. Current(Idle, instance', stages', votes', subject')
    BY DEF Current, Idle
<1>. QED
    BY <1>4, <1>12, <1>20, <1>21, AloneMoves

LEMMA CommitCancelAlone ==
    ASSUME MaxInFlight <= 1, DecisionInv, AloneInv, NEW u \in Users, CommitCancel(u)
    PROVE  AloneInv'
<1>1. PICK o : o = op[u]
    OBVIOUS
<1>2. PICK C : C = [i \in DOMAIN stages |->
                      IF i = o.closes THEN [stages[i] EXCEPT !.status = "CANCELLED"] ELSE stages[i]]
    OBVIOUS
<1>3. /\ stages' = C /\ instance' = [instance EXCEPT !.status = "CANCELLED"] /\ votes' = votes
      /\ subject' = Flush(subject, o.seen, Outcome("CANCELLED", o.seen)) /\ op' = [op EXCEPT ![u] = Idle]
      /\ o.phase = "cancel"
    BY <1>1, <1>2 DEF CommitCancel
<1>4. o.seen \in Subject
    BY <1>1, <1>3 DEF DecisionInv, TypeOK, VoteOp, DecideOp, CancelOp, Idle
<1>5. o.closes \in DOMAIN stages /\ stages[o.closes].status = "PENDING" /\ Believed(o.seen, subject)
    BY <1>1, <1>3 DEF AloneInv, Current
<1>6. PICK i \in DOMAIN stages : i = o.closes
    BY <1>5
<1>7. /\ stages \in Seq(StageInstance) /\ subject \in Subject /\ instance \in Instance
      /\ Stand(instance.status, stages) /\ Settled(subject) /\ Reflects(instance.status, subject)
    BY DEF DecisionInv, TypeOK, AloneInv
<1>8. Stand("PENDING", stages) /\ Reflects("PENDING", subject)
    BY <1>5, <1>7, OpenMeansPending
<1>9. \A j \in DOMAIN stages : /\ C[j] \in StageInstance /\ C[j].required = stages[j].required
                               /\ C[j].status = IF j = i THEN "CANCELLED" ELSE stages[j].status
    <2>1. "CANCELLED" \in StageStatuses /\ \A j \in DOMAIN stages : stages[j] \in StageInstance
        BY <1>7 DEF StageStatuses
    <2>. QED
        BY <1>2, <1>6, <2>1, Closed
<1>10. C \in Seq(StageInstance) /\ DOMAIN C = DOMAIN stages
    <2>1. C \in [1..Len(stages) -> StageInstance] /\ Len(stages) \in Nat /\ DOMAIN C = DOMAIN stages
        BY <1>2, <1>7, <1>9
    <2>. QED
        BY <2>1
<1>11. Stand("CANCELLED", C) /\ NoneAt("PENDING", C)
    BY <1>5, <1>6, <1>7, <1>8, <1>9, <1>10, Closing
<1>12. \A j \in DOMAIN C : Waiting(j, C, votes)
    BY <1>11 DEF NoneAt, Waiting
<1>13. instance'.status = "CANCELLED"
    BY <1>3, <1>7 DEF Instance
<1>14. Settled(subject') /\ Reflects("CANCELLED", subject')
    BY <1>3, <1>4, <1>5, <1>7, <1>8, SettlesRight DEF InstanceStatuses
<1>15. RowsAlone'
    BY <1>3, <1>11, <1>12, <1>13, <1>14 DEF RowsAlone
<1>16. \A w \in Users \ {u} : op[w] = Idle
    <2>1. op[u] # Idle
        BY <1>1, <1>3 DEF Idle
    <2>. QED
        BY <2>1, Acting DEF AloneInv
<1>17. Current(Idle, instance', stages', votes', subject')
    BY DEF Current, Idle
<1>. QED
    BY <1>3, <1>15, <1>16, <1>17, AloneMoves

\* An escalation changes nothing a request in flight rests on.
LEMMA EscalateAlone == ASSUME DecisionInv, AloneInv, NEW i \in DOMAIN stages, Escalate(i) PROVE AloneInv'
<1>1. stages \in Seq(StageInstance) /\ stages[i] \in StageInstance
    BY DEF DecisionInv, TypeOK
<1>2. PICK T : T = [stages EXCEPT ![i].escalated = TRUE]
    OBVIOUS
<1>3. T \in Seq(StageInstance) /\ DOMAIN T = DOMAIN stages
    BY <1>1, <1>2, Escalated
<1>4. \A j \in DOMAIN stages : T[j].status = stages[j].status /\ T[j].required = stages[j].required
    BY <1>1, <1>2, Escalated
<1>5. stages' = T /\ UNCHANGED <<instance, votes, subject, op>>
    BY <1>2 DEF Escalate
<1>6. RowsAlone'
    BY <1>1, <1>3, <1>4, <1>5, StandStays DEF AloneInv, RowsAlone
<1>7. ASSUME NEW u \in Users PROVE Current(op[u], instance', stages', votes', subject')
    <2>1. Current(op[u], instance, stages, votes, subject) /\ Sound(op[u], stages, votes)
        BY DEF AloneInv, DecisionInv
    <2>2. op[u].phase \in {"vote", "decide"} => op[u].vote.stage \in DOMAIN stages
        BY <2>1 DEF Sound, ByRight
    <2>. QED
        BY <1>3, <1>4, <1>5, <2>1, <2>2 DEF Current
<1>. QED
    BY <1>5, <1>6, <1>7, AloneAside

\* An Admin settles the assignment, or the definition is edited.
LEMMA AsideAlone == ASSUME DecisionInv, AloneInv, EditDefinition \/ SettleElsewhere PROVE AloneInv'
<1>1. UNCHANGED <<stages, votes, instance, op>>
    BY DEF EditDefinition, SettleElsewhere
<1>2. \/ subject' = subject
      \/ /\ subject.status = "PENDING_APPROVAL" /\ subject'.by = "admin"
         /\ subject'.status \in {"ELIGIBLE", "REJECTED", "REVOKED"}
    BY DEF EditDefinition, SettleElsewhere
<1>3. RowsAlone'
    BY <1>1, <1>2 DEF AloneInv, RowsAlone, Reflects, Settled
<1>4. ASSUME NEW seen, Believed(seen, subject) PROVE Believed(seen, subject')
    BY <1>2, <1>4 DEF AloneInv, Believed, Settled
<1>5. ASSUME NEW u \in Users PROVE Current(op[u], instance', stages', votes', subject')
    <2>1. Current(op[u], instance, stages, votes, subject)
        BY DEF AloneInv
    <2>2. Believed(op[u].seen, subject) => Believed(op[u].seen, subject')
        BY <1>4
    <2>. QED
        BY <1>1, <2>1, <2>2 DEF Current
<1>. QED
    BY <1>1, <1>3, <1>5, AloneAside

LEMMA StepAlone == ASSUME MaxInFlight <= 1, DecisionInv, AloneInv, [Next]_vars PROVE AloneInv'
<1>1. CASE StartInstance
    BY <1>1, StartAlone
<1>2. ASSUME NEW u \in Users, ReadStage(u) \/ CountVotes(u) \/ CommitDecision(u) PROVE AloneInv'
    BY <1>2, ReadStageAlone, CountVotesAlone, CommitDecisionAlone
<1>3. ASSUME NEW u \in Users, ReadCancel(u) \/ CommitCancel(u) PROVE AloneInv'
    BY <1>3, ReadCancelAlone, CommitCancelAlone
<1>4. ASSUME NEW i \in DOMAIN stages, Escalate(i) PROVE AloneInv'
    BY <1>4, EscalateAlone
<1>5. CASE EditDefinition \/ SettleElsewhere
    BY <1>5, AsideAlone
<1>6. CASE UNCHANGED vars
    <2>1. UNCHANGED <<stages, votes, instance, subject, op>>
        BY <1>6 DEF vars
    <2>. QED
        BY <2>1, AloneAside DEF AloneInv, RowsAlone
<1>. QED
    BY <1>1, <1>2, <1>3, <1>4, <1>5, <1>6 DEF Next

-----------------------------------------------------------------------------
\* StagesAgree counts; Stand points.
LEMMA StandsAgreed == ASSUME TypeOK, Stand(instance.status, stages) PROVE StagesAgree
<1>. DEFINE At(s)   == {i \in DOMAIN stages : stages[i].status = s}
            With(s) == Cardinality(At(s))
<1>1. ASSUME NEW s, NoneAt(s, stages) PROVE With(s) = 0
    <2>1. At(s) = {}
        BY <1>1 DEF NoneAt
    <2>. QED
        BY <2>1, FS_EmptySet
<1>2. ASSUME NEW s, NEW i \in DOMAIN stages, Only(i, s, stages) PROVE With(s) = 1
    <2>1. At(s) = {i}
        BY <1>2 DEF Only
    <2>. QED
        BY <2>1, FS_Singleton
<1>. HIDE DEF With
<1>3. CASE instance.status = "NONE"
    BY <1>3 DEF StagesAgree, Stand
<1>4. CASE instance.status = "PENDING"
    <2>1. With("PENDING") = 1 /\ With("REJECTED") = 0 /\ With("CANCELLED") = 0
        BY <1>1, <1>2, <1>4 DEF Stand
    <2>. QED
        BY <1>4, <2>1 DEF StagesAgree, With
<1>5. CASE instance.status = "APPROVED"
    <2>1. With("PENDING") = 0 /\ With("REJECTED") = 0 /\ With("CANCELLED") = 0
        BY <1>1, <1>5 DEF Stand
    <2>. QED
        BY <1>5, <2>1 DEF StagesAgree, With
<1>6. CASE instance.status \in {"REJECTED", "CANCELLED"}
    <2>1. With("PENDING") = 0 /\ With(instance.status) = 1
        BY <1>1, <1>2, <1>6 DEF Stand
    <2>. QED
        BY <1>6, <2>1 DEF StagesAgree, With
<1>. QED
    BY <1>3, <1>4, <1>5, <1>6 DEF TypeOK, Instance, InstanceStatuses

\* One request at a time, what a request read of the stages and the instance is so when it
\* commits, and what it read of the assignment is stale only as unsettled (decide_stage,
\* cancel_workflow_instance).
THEOREM AloneInductive == ASSUME MaxInFlight <= 1 PROVE Spec => [](DecisionInv /\ AloneInv)
<1>1. DecisionInv /\ AloneInv /\ [Next]_vars => AloneInv'
    BY StepAlone
<1>. QED
    BY <1>1, InitAlone, Inductive, PTL DEF Spec

\* The same of the behaviours of the checked instance that have one request at a time.
LEMMA WideAlone == ASSUME MaxInFlight <= 1 PROVE WideSpec => [](width = 1 => DecisionInv /\ AloneInv)
<1>. DEFINE I == width = 1 => DecisionInv /\ AloneInv
<1>1. WideInit => I
    BY InitSound, InitAlone DEF WideInit
<1>2. I /\ [WideNext]_<<vars, width>> => I'
    <2>. SUFFICES ASSUME I, [WideNext]_<<vars, width>>, width' = 1 PROVE DecisionInv' /\ AloneInv'
        OBVIOUS
    <2>1. width = 1 /\ [Next]_vars
        BY DEF WideNext
    <2>. QED
        BY <2>1, NextKeeps, StepAlone
<1>. QED
    BY <1>1, <1>2, PTL DEF WideSpec

\* One request at a time, the instance is pending on exactly one stage, approved with none
\* refused or open, refused or cancelled by exactly one; and no stage waits with its quorum
\* met: for any stages, approvers, edits and escalations (_advance, decide_stage).
THEOREM OneStageOpen == ASSUME MaxInFlight <= 1 PROVE WideSpec => []AloneStagesAgree
<1>1. ASSUME DecisionInv, AloneInv PROVE TypeOK /\ StagesAgree /\ NoStuckStage
    <2>1. TypeOK /\ StagesAgree
        BY <1>1, StandsAgreed DEF DecisionInv, AloneInv
    <2>2. NoStuckStage
        BY <1>1 DEF AloneInv, NoStuckStage, PendingStages, Waiting
    <2>. QED
        BY <2>1, <2>2
<1>2. (width = 1 => DecisionInv /\ AloneInv) => AloneStagesAgree
    BY <1>1 DEF AloneStagesAgree
<1>. QED
    BY <1>2, WideAlone, PTL

\* One request at a time, what the workflow decided is what the assignment became, and a
\* finished instance leaves it settled, even when an Admin settles it between a request's
\* read and its commit (_apply_assignment_outcome).
THEOREM SubjectSettled == ASSUME MaxInFlight <= 1 PROVE WideSpec => []AloneSubjectFollows
<1>1. DecisionInv /\ AloneInv => SubjectFollows
    BY DEF AloneInv, Reflects, SubjectFollows
<1>2. (width = 1 => DecisionInv /\ AloneInv) => AloneSubjectFollows
    BY <1>1 DEF AloneSubjectFollows
<1>. QED
    BY <1>2, WideAlone, PTL
=============================================================================
