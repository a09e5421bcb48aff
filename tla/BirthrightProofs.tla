--------------------------- MODULE BirthrightProofs ---------------------------
(***************************************************************************)
(* Proofs about Birthright, for any policies, rules, targets, rows and     *)
(* number of handlers: that rows and handlers keep their shapes whatever   *)
(* interleaves, and, one handler at a time and nothing edited meanwhile,   *)
(* that birthright access and the dynamic group follow what the person is. *)
(***************************************************************************)
EXTENDS MCBirthright, FiniteSetTheorems, SequenceTheorems, TLAPS

Phases == {"reconcile", "revoke", "plan", "grant", "create", "ensure", "dynamic", "settle"}
Kinds  == {"edit", "sync", "move", "policy", "evaluate", "rule", "mode"}
Modes  == {"OFF", "ELIGIBLE", "ACTIVE"}
Person == [dept : Depts \cup {NoDept}, status : {"ACTIVE", "DISABLED"}]
Reading == [slot : Slots, status : {"ELIGIBLE", "ACTIVE"}]
Grants  == [target : Targets, policy : Policies]

LEMMA HandlerShape ==
    ASSUME NEW o \in Handler
    PROVE  /\ o.phase \in Phases /\ o.kind \in Kinds /\ o.user \in Person /\ o.table \in [Policies -> Policy \cup {Absent}]
           /\ o.revoke \in SUBSET Reading /\ o.grant \in SUBSET Grants /\ o.chosen \in SUBSET Grants
           /\ o.mode \in Modes /\ o.made \in BOOLEAN /\ o.move \in Nat /\ o.failed \in BOOLEAN /\ o # Idle
BY DEF Handler, Idle, Phases, Kinds, Modes, Person, Reading, Grants

\* Who is in a phase is under way.
LEMMA UnderWay ==
    ASSUME TypeOK, NEW q \in Procs, op[q] # Idle \/ op[q].phase # "idle"
    PROVE  op[q] \in Handler /\ op[q] # Idle
BY DEF TypeOK, Idle, Handler

\* What stays of a handler from phase to phase.
Same(h, o) == /\ h \in Handler /\ h.kind = o.kind /\ h.user = o.user /\ h.table = o.table
              /\ h.mode = o.mode /\ h.move = o.move

\* A handler as it starts.
Blank(o, kind, phase) ==
    /\ o \in Handler /\ o.phase = phase /\ o.kind = kind /\ o.user = user /\ o.table = policy
    /\ o.revoke = {} /\ o.grant = {} /\ o.chosen = {} /\ o.mode = dyn.mode /\ ~o.failed

LEMMA NewFields ==
    ASSUME TypeOK, NEW kind \in Kinds, NEW phase \in Phases, NEW o, o = NewOp(kind, phase)
    PROVE  Blank(o, kind, phase)
<1>1. user \in Person /\ dyn.mode \in Modes /\ policy \in [Policies -> Policy \cup {Absent}]
    BY DEF TypeOK, Dynamic, Person, Modes
<1>2. o = [phase |-> phase, kind |-> kind, user |-> user, table |-> policy, revoke |-> {}, grant |-> {}, chosen |-> {},
           mode |-> dyn.mode, made |-> FALSE, move |-> 0, failed |-> FALSE]
    BY DEF NewOp
<1>. QED
    BY <1>1, <1>2 DEF Blank, Handler, Phases, Kinds, Person, Modes

\* What a handler turns into.
WithPerson(o, u)     == [o EXCEPT !.user = u]
WithTable(o, p, r)   == [o EXCEPT !.table[p] = r]
WithMode(o, m)       == [o EXCEPT !.mode = m]
WithMove(o, m)       == [o EXCEPT !.move = m]
InPhase(o, phase)    == [o EXCEPT !.phase = phase]
WithRows(o, S)       == [o EXCEPT !.phase = "revoke", !.revoke = S]
WithoutRow(o, S, f)  == [o EXCEPT !.revoke = S, !.failed = f]
WithPlan(o, S)       == [o EXCEPT !.phase = "grant", !.grant = S]
WithChoice(o, S, C)  == [o EXCEPT !.grant = S, !.chosen = C]
WithGrant(o)         == [o EXCEPT !.chosen = {}]
WithGroup(o)         == [o EXCEPT !.phase = "dynamic", !.made = TRUE]

LEMMA PersonFields ==
    ASSUME NEW o \in Handler, NEW u \in Person, NEW h, h = WithPerson(o, u)
    PROVE  /\ h \in Handler /\ h.phase = o.phase /\ h.kind = o.kind /\ h.user = u /\ h.table = o.table
           /\ h.revoke = o.revoke /\ h.grant = o.grant /\ h.chosen = o.chosen /\ h.mode = o.mode
           /\ h.move = o.move /\ h.failed = o.failed /\ h.made = o.made
BY DEF Handler, Person, WithPerson

LEMMA TableFields ==
    ASSUME NEW o \in Handler, NEW p \in Policies, NEW r \in Policy, NEW h, h = WithTable(o, p, r)
    PROVE  /\ h \in Handler /\ h.phase = o.phase /\ h.kind = o.kind /\ h.user = o.user
           /\ h.table = [o.table EXCEPT ![p] = r]
           /\ h.revoke = o.revoke /\ h.grant = o.grant /\ h.chosen = o.chosen /\ h.mode = o.mode
           /\ h.move = o.move /\ h.failed = o.failed /\ h.made = o.made
BY DEF Handler, WithTable

LEMMA ModeFields ==
    ASSUME NEW o \in Handler, NEW m \in Modes, NEW h, h = WithMode(o, m)
    PROVE  /\ h \in Handler /\ h.phase = o.phase /\ h.kind = o.kind /\ h.user = o.user /\ h.table = o.table
           /\ h.revoke = o.revoke /\ h.grant = o.grant /\ h.chosen = o.chosen /\ h.mode = m
           /\ h.move = o.move /\ h.failed = o.failed /\ h.made = o.made
BY DEF Handler, Modes, WithMode

LEMMA MoveFields ==
    ASSUME NEW o \in Handler, NEW m \in Nat, NEW h, h = WithMove(o, m)
    PROVE  /\ h \in Handler /\ h.phase = o.phase /\ h.kind = o.kind /\ h.user = o.user /\ h.table = o.table
           /\ h.revoke = o.revoke /\ h.grant = o.grant /\ h.chosen = o.chosen /\ h.mode = o.mode
           /\ h.move = m /\ h.failed = o.failed /\ h.made = o.made
BY DEF Handler, WithMove

LEMMA PhaseFields ==
    ASSUME NEW o \in Handler, NEW phase \in Phases, NEW h, h = InPhase(o, phase)
    PROVE  /\ Same(h, o) /\ h.phase = phase /\ h.revoke = o.revoke /\ h.grant = o.grant /\ h.chosen = o.chosen
           /\ h.failed = o.failed /\ h.made = o.made
BY DEF Handler, Same, Phases, InPhase

LEMMA ReadFields ==
    ASSUME NEW o \in Handler, NEW S \in SUBSET Reading, NEW h, h = WithRows(o, S)
    PROVE  /\ Same(h, o) /\ h.phase = "revoke" /\ h.revoke = S /\ h.failed = o.failed /\ h.chosen = o.chosen
BY DEF Handler, Same, Reading, WithRows

LEMMA RevokedFields ==
    ASSUME NEW o \in Handler, NEW S \in SUBSET Reading, NEW f \in BOOLEAN, NEW h, h = WithoutRow(o, S, f)
    PROVE  /\ Same(h, o) /\ h.phase = o.phase /\ h.revoke = S /\ h.failed = f /\ h.chosen = o.chosen
BY DEF Handler, Same, Reading, WithoutRow

LEMMA PlanFields ==
    ASSUME NEW o \in Handler, NEW S \in SUBSET Grants, NEW h, h = WithPlan(o, S)
    PROVE  /\ Same(h, o) /\ h.phase = "grant" /\ h.grant = S /\ h.chosen = o.chosen /\ h.failed = o.failed
BY DEF Handler, Same, Grants, WithPlan

LEMMA LookUpFields ==
    ASSUME NEW o \in Handler, NEW S \in SUBSET Grants, NEW C \in SUBSET Grants,
           NEW h, h = WithChoice(o, S, C)
    PROVE  /\ Same(h, o) /\ h.phase = o.phase /\ h.grant = S /\ h.chosen = C /\ h.failed = o.failed
BY DEF Handler, Same, Grants, WithChoice

LEMMA GrantedFields ==
    ASSUME NEW o \in Handler, NEW h, h = WithGrant(o)
    PROVE  /\ Same(h, o) /\ h.phase = o.phase /\ h.grant = o.grant /\ h.chosen = {} /\ h.failed = o.failed
BY DEF Handler, Same, Grants, WithGrant

LEMMA MadeFields ==
    ASSUME NEW o \in Handler, NEW h, h = WithGroup(o)
    PROVE  /\ Same(h, o) /\ h.phase = "dynamic" /\ h.failed = o.failed
BY DEF Handler, Same, WithGroup
-----------------------------------------------------------------------------
(***************************************************************************)
(* The invariant of one handler at a time, nothing being edited while it   *)
(* is under way.                                                           *)
(***************************************************************************)
OneAtATime == \A p, x \in Procs : op[p] # Idle /\ op[x] # Idle => p = x
Counted    == edits \in Nat /\ faults \in [Faults -> Nat]

\* What handler o has read is so.
Reads(o) == /\ o.user = user /\ o.table = policy
            /\ o.kind # "mode" => o.mode = dyn.mode
            /\ o.kind = "mode" => o.mode # "OFF"
            /\ o.kind = "move" => o.move \in DOMAIN moves /\ user.dept = moves[o.move].dept

\* The phases that a handler of each kind goes through.
Course(o) == /\ o.kind = "policy" => o.phase \in {"reconcile", "revoke", "plan", "grant"}
             /\ o.kind = "evaluate" => o.phase \in {"plan", "grant"}
             /\ o.kind \in {"rule", "mode"} => o.phase \in {"ensure", "dynamic"}
             /\ o.phase = "settle" => o.kind = "move"
             /\ o.phase \in {"reconcile", "revoke", "plan"} => o.chosen = {}

\* A row that a policy gave, and may stay.
Rooted(s) == LET p == rows[s].source IN policy[p] # Absent => Applies(policy, p, user.dept) \/ policy[p].sticky
AllRooted == \A s \in Tagged(Policies) : Rooted(s)

\* What the matching policies give is held, or is among the grants still to be made.
Covered(planned) == \A p \in Policies : Applies(policy, p, user.dept) =>
                        \A t \in Given(p) : HeldOf(t) # {} \/ \E x \in planned : x.target = t

BirthrightDone == "birthright" \notin stale => BirthrightFollows
DynamicDone    == "dynamic" \notin stale => DynamicFollows

\* How far handler o is with what the policies gave, with what they give, and with the
\* dynamic group.
Revoking(o) == o.phase = "revoke" =>
    /\ \A r \in o.revoke : /\ rows[r.slot] # Free /\ rows[r.slot].status = r.status
                           /\ rows[r.slot].source \in Policies
    /\ ~o.failed => \A s \in Tagged(Policies) : Rooted(s) \/ \E r \in o.revoke : r.slot = s
Granting(o) ==
    /\ o.phase \in {"plan", "grant"} /\ o.kind # "evaluate" /\ ~o.failed => AllRooted
    /\ o.phase = "grant" =>
         /\ \A x \in o.grant \cup o.chosen : Applies(policy, x.policy, user.dept)
         /\ \A x \in o.chosen : HeldOf(x.target) = {} /\ o.chosen = {x}
         /\ Covered(o.grant \cup o.chosen)
    /\ o.kind = "evaluate" \/ o.phase \in {"ensure", "dynamic", "settle"} => BirthrightDone
Following(o) == o.kind \in {"policy", "evaluate"} \/ o.phase = "settle" \/ (PerUser(o) /\ dyn.status # "ACTIVE")
                   => DynamicDone
Flight(o) == Reads(o) /\ Course(o) /\ Revoking(o) /\ Granting(o) /\ Following(o)

\* The dynamic group has one row at most, and it is for the group; a policy gives a target once.
RowsApart == /\ \A s \in DynamicRow : rows[s].target = Group
             /\ \A a, b \in DynamicRow : a = b
             /\ \A a, b \in Tagged(Policies) : rows[a].target = rows[b].target => a = b
Backed == faults["refused"] = 0 => \A t \in access : \E s \in HeldOf(t) : rows[s].status = "ACTIVE"

AloneInv == /\ OneAtATime /\ Counted /\ RowsApart /\ Backed
            /\ \A q \in Procs : op[q] # Idle => Flight(op[q])
            /\ Quiet => BirthrightDone /\ DynamicDone

-----------------------------------------------------------------------------
(***************************************************************************)
(* What becomes of a handler in each step.                                 *)
(***************************************************************************)
LEMMA ReconcileCall ==
    ASSUME TypeOK, NEW q \in Procs, NEW o, o = op[q], NEW h, h = op'[q], Reconcile(q)
    PROVE  /\ o \in Handler /\ Same(h, o) /\ op' = [op EXCEPT ![q] = h]
           /\ o.phase = "reconcile" /\ h.phase = "revoke" /\ h.failed = o.failed /\ h.chosen = o.chosen
           /\ h.revoke = {[slot |-> s, status |-> rows[s].status] : s \in Unfounded(o)}
<1>1. o.phase = "reconcile"
    BY DEF Reconcile
<1>2. o \in Handler
    BY <1>1, UnderWay
<1>3. PICK S : S = {[slot |-> s, status |-> rows[s].status] : s \in Unfounded(o)}
    OBVIOUS
<1>4. S \in SUBSET Reading
    BY <1>3 DEF TypeOK, Unfounded, Tagged, Held, Row, Free, Reading
<1>5. PICK x : x = WithRows(o, S)
    OBVIOUS
<1>6. op' = [op EXCEPT ![q] = x]
    BY <1>3, <1>5 DEF Reconcile, TypeOK, WithRows
<1>7. h = x
    BY <1>6 DEF TypeOK
<1>8. Same(x, o) /\ x.phase = "revoke" /\ x.revoke = S /\ x.failed = o.failed /\ x.chosen = o.chosen
    BY <1>2, <1>4, <1>5, ReadFields
<1>. QED
    BY <1>1, <1>2, <1>3, <1>6, <1>7, <1>8

LEMMA RevokeCall ==
    ASSUME TypeOK, NEW q \in Procs, NEW o, o = op[q], NEW h, h = op'[q], RevokeOne(q)
    PROVE  /\ o \in Handler /\ Same(h, o) /\ op' = [op EXCEPT ![q] = h] /\ o.phase = "revoke" /\ h.phase = "revoke"
           /\ \E r \in o.revoke, ok \in BOOLEAN :
                /\ r \in Reading /\ (ok \/ r.status = "ACTIVE") /\ Works(ok)
                /\ IF ok THEN /\ access' = IF r.status = "ACTIVE" /\ rows[r.slot] # Free THEN access \ {rows[r.slot].target}
                                                                                        ELSE access
                              /\ rows' = [rows EXCEPT ![r.slot] = Free]
                         ELSE rows' = rows /\ access' = access
                /\ h.revoke = o.revoke \ {r} /\ h.failed = (o.failed \/ ~ok) /\ h.chosen = o.chosen
<1>1. o.phase = "revoke"
    BY DEF RevokeOne
<1>2. o \in Handler
    BY <1>1, UnderWay
<1>3. PICK r \in o.revoke : \E ok \in BOOLEAN :
        /\ (ok \/ r.status = "ACTIVE") /\ Works(ok)
        /\ IF ok THEN /\ access' = IF r.status = "ACTIVE" /\ rows[r.slot] # Free THEN access \ {rows[r.slot].target} ELSE access
                      /\ rows' = [rows EXCEPT ![r.slot] = Free]
                 ELSE rows' = rows /\ access' = access
        /\ op' = [op EXCEPT ![q].revoke = @ \ {r}, ![q].failed = @ \/ ~ok]
    BY DEF RevokeOne
<1>4. PICK ok \in BOOLEAN :
        /\ (ok \/ r.status = "ACTIVE") /\ Works(ok)
        /\ IF ok THEN /\ access' = IF r.status = "ACTIVE" /\ rows[r.slot] # Free THEN access \ {rows[r.slot].target} ELSE access
                      /\ rows' = [rows EXCEPT ![r.slot] = Free]
                 ELSE rows' = rows /\ access' = access
        /\ op' = [op EXCEPT ![q].revoke = @ \ {r}, ![q].failed = @ \/ ~ok]
    BY <1>3
<1>5. PICK S : S = o.revoke \ {r}
    OBVIOUS
<1>6. PICK f \in BOOLEAN : f = (o.failed \/ ~ok)
    OBVIOUS
<1>7. PICK x : x = WithoutRow(o, S, f)
    OBVIOUS
<1>8. op' = [op EXCEPT ![q] = x]
    BY <1>2, <1>4, <1>5, <1>6, <1>7 DEF TypeOK, Handler, WithoutRow
<1>9. h = x
    BY <1>8 DEF TypeOK
<1>10. r \in Reading /\ S \in SUBSET Reading
    BY <1>2, <1>5, HandlerShape
<1>11. Same(x, o) /\ x.phase = o.phase /\ x.revoke = S /\ x.failed = f /\ x.chosen = o.chosen
    BY <1>2, <1>7, <1>10, RevokedFields
<1>12. op' = [op EXCEPT ![q] = h]
    BY <1>8, <1>9
<1>. QED
    BY <1>1, <1>2, <1>4, <1>5, <1>6, <1>9, <1>10, <1>11, <1>12

\* A handler done with the birthright part.
LEMMA LeavesCall ==
    ASSUME TypeOK, NEW q \in Procs, NEW o \in Handler, o = op[q], NEW h, h = op'[q], Leaves(q)
    PROVE  /\ op' = [op EXCEPT ![q] = h]
           /\ IF PerUser(o) THEN Same(h, o) /\ h.phase = "ensure" ELSE h = Idle
<1>1. CASE PerUser(o)
    <2>1. PICK x : x = InPhase(o, "ensure")
        OBVIOUS
    <2>2. op' = [op EXCEPT ![q] = x]
        BY <1>1, <2>1 DEF Leaves, Follows, PerUser, TypeOK, InPhase
    <2>3. h = x
        BY <2>2 DEF TypeOK
    <2>4. Same(x, o) /\ x.phase = "ensure"
        BY <2>1, PhaseFields DEF Phases
    <2>. QED
        BY <1>1, <2>2, <2>3, <2>4
<1>2. CASE ~PerUser(o)
    <2>1. op' = [op EXCEPT ![q] = Idle]
        BY <1>2 DEF Leaves, Follows, PerUser
    <2>. QED
        BY <1>2, <2>1 DEF TypeOK
<1>. QED
    BY <1>1, <1>2

LEMMA GotoCall ==
    ASSUME TypeOK, NEW q \in Procs, NEW o \in Handler, o = op[q], NEW h, h = op'[q], NEW phase \in Phases, Goto(q, phase)
    PROVE  /\ op' = [op EXCEPT ![q] = h] /\ Same(h, o) /\ h.phase = phase /\ h.revoke = o.revoke
           /\ h.grant = o.grant /\ h.chosen = o.chosen /\ h.failed = o.failed
<1>1. PICK x : x = InPhase(o, phase)
    OBVIOUS
<1>2. op' = [op EXCEPT ![q] = x]
    BY <1>1 DEF Goto, TypeOK, InPhase
<1>3. h = x
    BY <1>2 DEF TypeOK
<1>4. /\ Same(x, o) /\ x.phase = phase /\ x.revoke = o.revoke /\ x.grant = o.grant /\ x.chosen = o.chosen
      /\ x.failed = o.failed
    BY <1>1, PhaseFields
<1>. QED
    BY <1>2, <1>3, <1>4

LEMMA RevokedAllCall ==
    ASSUME TypeOK, NEW q \in Procs, NEW o, o = op[q], NEW h, h = op'[q], RevokedAll(q)
    PROVE  /\ o \in Handler /\ op' = [op EXCEPT ![q] = h] /\ o.phase = "revoke" /\ o.revoke = {}
           /\ IF o.user.status = "DISABLED"
              THEN /\ stale' = Settled(o)
                   /\ IF PerUser(o) THEN Same(h, o) /\ h.phase = "ensure" ELSE h = Idle
              ELSE /\ stale' = stale /\ Same(h, o) /\ h.phase = "plan" /\ h.failed = o.failed /\ h.chosen = o.chosen
<1>1. o.phase = "revoke" /\ o.revoke = {}
    BY DEF RevokedAll
<1>2. o \in Handler
    BY <1>1, UnderWay
<1>3. CASE o.user.status = "DISABLED"
    <2>1. Leaves(q) /\ stale' = Settled(o)
        BY <1>3 DEF RevokedAll, AfterRevoking
    <2>. QED
        BY <1>1, <1>2, <1>3, <2>1, LeavesCall
<1>4. CASE o.user.status # "DISABLED"
    <2>1. Goto(q, "plan") /\ stale' = stale
        BY <1>4 DEF RevokedAll, AfterRevoking
    <2>2. "plan" \in Phases
        BY DEF Phases
    <2>. QED
        BY <1>1, <1>2, <1>4, <2>1, <2>2, GotoCall
<1>. QED
    BY <1>3, <1>4

\* What is planned: every target of a policy that applies.
Planned(o) == {[target |-> t, policy |-> p] : t \in Targets, p \in {x \in Policies : Applies(Loaded(o), x, o.user.dept)}}
              \cap UNION {{[target |-> t, policy |-> p] : t \in Given(p)} : p \in Policies}

LEMMA PlanCall ==
    ASSUME TypeOK, NEW q \in Procs, NEW o, o = op[q], NEW h, h = op'[q], Plan(q)
    PROVE  /\ o \in Handler /\ Same(h, o) /\ op' = [op EXCEPT ![q] = h] /\ o.phase = "plan" /\ h.phase = "grant"
           /\ h.grant = Planned(o) /\ h.chosen = o.chosen /\ h.failed = o.failed
<1>1. o.phase = "plan"
    BY DEF Plan
<1>2. o \in Handler
    BY <1>1, UnderWay
<1>3. PICK S : S = Planned(o)
    OBVIOUS
<1>4. S \in SUBSET Grants
    BY <1>3 DEF Planned, Grants
<1>5. PICK x : x = WithPlan(o, S)
    OBVIOUS
<1>6. op' = [op EXCEPT ![q].phase = "grant", ![q].grant = Planned(o)]
    BY DEF Plan, Planned
<1>7. op' = [op EXCEPT ![q] = x]
    BY <1>3, <1>5, <1>6 DEF TypeOK, WithPlan
<1>8. h = x
    BY <1>7 DEF TypeOK
<1>9. Same(x, o) /\ x.phase = "grant" /\ x.grant = S /\ x.chosen = o.chosen /\ x.failed = o.failed
    BY <1>2, <1>4, <1>5, PlanFields
<1>. QED
    BY <1>1, <1>2, <1>3, <1>7, <1>8, <1>9

LooksUp(o, h) == \E x \in o.grant : /\ h.grant = o.grant \ {x}
                                    /\ h.chosen = IF HeldOf(x.target) # {} THEN {} ELSE {x}

LEMMA LookUpCall ==
    ASSUME TypeOK, NEW q \in Procs, NEW o, o = op[q], NEW h, h = op'[q], LookUp(q)
    PROVE  /\ o \in Handler /\ Same(h, o) /\ op' = [op EXCEPT ![q] = h] /\ o.phase = "grant" /\ h.phase = "grant"
           /\ o.chosen = {} /\ h.failed = o.failed /\ LooksUp(o, h)
<1>1. o.phase = "grant"
    BY DEF LookUp
<1>2. o \in Handler
    BY <1>1, UnderWay
<1>3. PICK x \in o.grant :
        /\ o.chosen = {}
        /\ op' = [op EXCEPT ![q].grant = @ \ {x}, ![q].chosen = IF AlreadyHeld(x.target, x.policy) THEN {} ELSE {x}]
    BY DEF LookUp
<1>4. PICK S : S = o.grant \ {x}
    OBVIOUS
<1>5. PICK C : C = IF HeldOf(x.target) # {} THEN {} ELSE {x}
    OBVIOUS
<1>6. S \in SUBSET Grants /\ C \in SUBSET Grants
    BY <1>2, <1>4, <1>5, HandlerShape
<1>7. PICK y : y = WithChoice(o, S, C)
    OBVIOUS
<1>8. op' = [op EXCEPT ![q] = y]
    BY <1>2, <1>3, <1>4, <1>5, <1>7 DEF TypeOK, Handler, WithChoice, AlreadyHeld
<1>9. h = y
    BY <1>8 DEF TypeOK
<1>10. Same(y, o) /\ y.phase = o.phase /\ y.grant = S /\ y.chosen = C /\ y.failed = o.failed
    BY <1>2, <1>6, <1>7, LookUpFields
<1>. QED
    BY <1>1, <1>2, <1>3, <1>4, <1>5, <1>8, <1>9, <1>10 DEF LooksUp

\* The row of a target that a policy gives.
RowOf(x) == [target |-> x.target, source |-> x.policy, status |-> "ELIGIBLE"]

LEMMA GrantCall ==
    ASSUME TypeOK, NEW q \in Procs, NEW o, o = op[q], NEW h, h = op'[q], GrantOne(q)
    PROVE  /\ o \in Handler /\ op' = [op EXCEPT ![q] = h] /\ o.phase = "grant"
           /\ \E x \in o.chosen :
                /\ x \in Grants
                /\ IF Exists(x.policy)
                   THEN /\ Same(h, o) /\ h.phase = "grant" /\ h.grant = o.grant /\ h.chosen = {} /\ h.failed = o.failed
                        /\ Unused # {} /\ rows' = [rows EXCEPT ![Fresh] = RowOf(x)]
                        /\ tagged' = tagged \cup {x.policy} /\ stale' = stale
                   ELSE h = Idle /\ stale' = stale \cup {"birthright", "dynamic"} /\ rows' = rows /\ tagged' = tagged
<1>1. o.phase = "grant"
    BY DEF GrantOne
<1>2. o \in Handler
    BY <1>1, UnderWay
<1>3. PICK x \in o.chosen :
        IF Exists(x.policy)
        THEN /\ Unused # {}
             /\ rows' = [rows EXCEPT ![Fresh] = RowOf(x)]
             /\ tagged' = tagged \cup {x.policy} /\ op' = [op EXCEPT ![q].chosen = {}] /\ stale' = stale
        ELSE Ends(q) /\ stale' = stale \cup {"birthright", "dynamic"} /\ rows' = rows /\ tagged' = tagged
    BY DEF GrantOne, RowOf
<1>4. x \in Grants
    BY <1>2, HandlerShape
<1>5. CASE Exists(x.policy)
    <2>1. PICK y : y = WithGrant(o)
        OBVIOUS
    <2>2. op' = [op EXCEPT ![q] = y]
        BY <1>3, <1>5, <2>1 DEF TypeOK, WithGrant
    <2>3. h = y
        BY <2>2 DEF TypeOK
    <2>4. Same(y, o) /\ y.phase = o.phase /\ y.grant = o.grant /\ y.chosen = {} /\ y.failed = o.failed
        BY <1>2, <2>1, GrantedFields
    <2>. QED
        BY <1>1, <1>2, <1>3, <1>4, <1>5, <2>2, <2>3, <2>4
<1>6. CASE ~Exists(x.policy)
    <2>1. op' = [op EXCEPT ![q] = Idle] /\ h = Idle
        BY <1>3, <1>6 DEF Ends, TypeOK
    <2>. QED
        BY <1>1, <1>2, <1>3, <1>4, <1>6, <2>1
<1>. QED
    BY <1>5, <1>6

LEMMA GrantedAllCall ==
    ASSUME TypeOK, NEW q \in Procs, NEW o, o = op[q], NEW h, h = op'[q], GrantedAll(q)
    PROVE  /\ o \in Handler /\ op' = [op EXCEPT ![q] = h] /\ o.phase = "grant" /\ o.grant = {} /\ o.chosen = {}
           /\ stale' = Settled(o)
           /\ IF PerUser(o) THEN Same(h, o) /\ h.phase = "ensure" ELSE h = Idle
<1>1. o.phase = "grant" /\ o.grant = {} /\ o.chosen = {} /\ Leaves(q) /\ stale' = Settled(o)
    BY DEF GrantedAll
<1>2. o \in Handler
    BY <1>1, UnderWay
<1>. QED
    BY <1>1, <1>2, LeavesCall

MoveStatus == {"SCHEDULED", "CANCELLED", "APPLIED", "FAILED"}

\* The status of a move alone is written.
LEMMA MoveWritten ==
    ASSUME moves \in Seq(Move), NEW m, NEW s \in MoveStatus, moves' = [moves EXCEPT ![m].status = s]
    PROVE  /\ moves' \in Seq(Move) /\ DOMAIN moves' = DOMAIN moves
           /\ \A i \in DOMAIN moves : /\ moves'[i].dept = moves[i].dept
                                      /\ moves'[i].status = IF i = m THEN s ELSE moves[i].status
<1>1. Len(moves) \in Nat /\ moves \in [1..Len(moves) -> Move] /\ DOMAIN moves = 1..Len(moves)
    BY LenProperties
<1>2. moves' \in [1..Len(moves) -> Move]
    BY <1>1 DEF Move, MoveStatus
<1>3. moves' \in Seq(Move)
    BY <1>1, <1>2, SeqDef
<1>. QED
    BY <1>1, <1>2, <1>3 DEF Move

\* A handler that could not make the group, and one done with the group.
LEMMA GivesUpCall ==
    ASSUME TypeOK, NEW q \in Procs, NEW o \in Handler, o = op[q], NEW h, h = op'[q], GivesUp(q)
    PROVE  /\ op' = [op EXCEPT ![q] = h] /\ h = Idle /\ stale' = stale \cup {"dynamic"} /\ moves' \in Seq(Move)
           /\ moves' = IF o.kind = "move" THEN [moves EXCEPT ![o.move].status = "FAILED"] ELSE moves
<1>1. op' = [op EXCEPT ![q] = Idle] /\ h = Idle
    BY DEF GivesUp, Ends, TypeOK
<1>2. moves' = IF o.kind = "move" THEN [moves EXCEPT ![o.move].status = "FAILED"] ELSE moves
    BY DEF GivesUp
<1>3. moves \in Seq(Move)
    BY DEF TypeOK
<1>4. moves' \in Seq(Move)
    BY <1>2, <1>3, MoveWritten DEF MoveStatus
<1>. QED
    BY <1>1, <1>2, <1>4 DEF GivesUp

LEMMA EnsureCall ==
    ASSUME TypeOK, NEW q \in Procs, NEW o, o = op[q], NEW h, h = op'[q], EnsureGroup(q)
    PROVE  /\ o \in Handler /\ op' = [op EXCEPT ![q] = h] /\ o.phase = "ensure" /\ moves' \in Seq(Move)
           /\ dyn' = dyn \/ dyn' = [dyn EXCEPT !.real = TRUE]
           /\ faults' = faults \/ Count("refused")
           /\ \/ Same(h, o) /\ h.phase = "dynamic" /\ moves' = moves /\ stale' = stale
              \/ /\ h = Idle /\ dyn' = dyn /\ stale' = stale \cup {"dynamic"}
                 /\ moves' = IF o.kind = "move" THEN [moves EXCEPT ![o.move].status = "FAILED"] ELSE moves
<1>1. o.phase = "ensure"
    BY DEF EnsureGroup
<1>2. o \in Handler
    BY <1>1, UnderWay
<1>3. moves \in Seq(Move) /\ "dynamic" \in Phases
    BY DEF TypeOK, Phases
<1>4. CASE ~NeedsGroup(o)
    <2>1. Goto(q, "dynamic") /\ dyn' = dyn /\ moves' = moves /\ stale' = stale /\ faults' = faults
        BY <1>4 DEF EnsureGroup
    <2>. QED
        BY <1>1, <1>2, <1>3, <2>1, GotoCall
<1>5. CASE NeedsGroup(o) /\ dyn.real
    <2>1. GivesUp(q) /\ dyn' = dyn /\ faults' = faults
        BY <1>5 DEF EnsureGroup
    <2>. QED
        BY <1>1, <1>2, <2>1, GivesUpCall
<1>6. CASE NeedsGroup(o) /\ ~dyn.real
    <2>1. PICK ok \in BOOLEAN :
            /\ Works(ok)
            /\ IF ok THEN /\ dyn' = [dyn EXCEPT !.real = TRUE]
                          /\ op' = [op EXCEPT ![q].phase = "dynamic", ![q].made = TRUE] /\ moves' = moves /\ stale' = stale
                     ELSE GivesUp(q) /\ dyn' = dyn
        BY <1>6 DEF EnsureGroup
    <2>2. faults' = faults \/ Count("refused")
        BY <2>1 DEF Works
    <2>3. CASE ok
        <3>1. PICK x : x = WithGroup(o)
            OBVIOUS
        <3>2. op' = [op EXCEPT ![q] = x]
            BY <2>1, <2>3, <3>1 DEF TypeOK, WithGroup
        <3>3. h = x
            BY <3>2 DEF TypeOK
        <3>4. Same(x, o) /\ x.phase = "dynamic"
            BY <1>2, <3>1, MadeFields
        <3>. QED
            BY <1>1, <1>2, <1>3, <2>1, <2>2, <2>3, <3>2, <3>3, <3>4
    <2>4. CASE ~ok
        BY <1>1, <1>2, <2>1, <2>2, <2>4, GivesUpCall
    <2>. QED
        BY <2>3, <2>4
<1>. QED
    BY <1>4, <1>5, <1>6

LEMMA MembershipCall ==
    ASSUME TypeOK, NEW q \in Procs, NEW o, o = op[q], NEW h, h = op'[q], UpdateMembership(q)
    PROVE  /\ o \in Handler /\ op' = [op EXCEPT ![q] = h] /\ o.phase = "dynamic"
           /\ IF o.kind = "move" THEN Same(h, o) /\ h.phase = "settle" ELSE h = Idle
           /\ \E ok \in BOOLEAN :
                /\ Works(ok) /\ Membership(o, ok)
                /\ stale' = IF ~ok THEN stale \cup {"dynamic"} ELSE IF Concerned(o) THEN stale \ {"dynamic"} ELSE stale
<1>1. o.phase = "dynamic" /\ Done(q)
    BY DEF UpdateMembership
<1>2. o \in Handler
    BY <1>1, UnderWay
<1>3. \E ok \in BOOLEAN :
        /\ Works(ok) /\ Membership(o, ok)
        /\ stale' = IF ~ok THEN stale \cup {"dynamic"} ELSE IF Concerned(o) THEN stale \ {"dynamic"} ELSE stale
    BY DEF UpdateMembership
<1>4. PICK x : x = IF o.kind = "move" THEN InPhase(o, "settle") ELSE Idle
    OBVIOUS
<1>5. op' = [op EXCEPT ![q] = x]
    BY <1>1, <1>4 DEF Done, InPhase
<1>6. h = x
    BY <1>5 DEF TypeOK
<1>7. o.kind = "move" => Same(x, o) /\ x.phase = "settle"
    BY <1>2, <1>4, PhaseFields DEF Phases
<1>. QED
    BY <1>1, <1>2, <1>3, <1>4, <1>5, <1>6, <1>7

LEMMA SettleCall ==
    ASSUME TypeOK, NEW q \in Procs, NEW o, o = op[q], NEW h, h = op'[q], SettleMove(q)
    PROVE  /\ o \in Handler /\ op' = [op EXCEPT ![q] = h] /\ o.phase = "settle" /\ h = Idle
           /\ moves' = [moves EXCEPT ![o.move].status = "APPLIED"] /\ moves' \in Seq(Move)
<1>1. o.phase = "settle" /\ moves' = [moves EXCEPT ![o.move].status = "APPLIED"] /\ op' = [op EXCEPT ![q] = Idle]
    BY DEF SettleMove, Ends
<1>2. o \in Handler
    BY <1>1, UnderWay
<1>3. moves \in Seq(Move)
    BY DEF TypeOK
<1>4. moves' \in Seq(Move)
    BY <1>1, <1>3, MoveWritten DEF MoveStatus
<1>. QED
    BY <1>1, <1>2, <1>4 DEF TypeOK

-----------------------------------------------------------------------------
(***************************************************************************)
(* Handlers that start.                                                    *)
(***************************************************************************)
Begins(q, h, kind, phase) ==
    /\ op[q] = Idle /\ op' = [op EXCEPT ![q] = h]
    /\ h \in Handler /\ h.kind = kind /\ h.phase = phase /\ h.user = user' /\ h.table = policy'
    /\ h.revoke = {} /\ h.grant = {} /\ h.chosen = {} /\ ~h.failed

LEMMA Named == {"reconcile", "plan", "ensure"} \subseteq Phases
               /\ {"edit", "sync", "move", "policy", "evaluate", "rule", "mode"} \subseteq Kinds
BY DEF Phases, Kinds

LEMMA EditBegins ==
    ASSUME TypeOK, NEW q \in Requests, EditDepartment(q)
    PROVE  /\ \E h : Begins(q, h, "edit", "reconcile") /\ h.mode = dyn.mode
           /\ user' \in Person
<1>1. PICK d \in Depts : user' = [user EXCEPT !.dept = d] /\ Start(q, [NewOp("edit", "reconcile") EXCEPT !.user.dept = d])
    BY DEF EditDepartment
<1>2. user \in Person /\ user' \in Person
    BY <1>1 DEF TypeOK, Person
<1>3. PICK o : o = NewOp("edit", "reconcile")
    OBVIOUS
<1>4. PICK h : h = WithPerson(o, user')
    OBVIOUS
<1>5. /\ o \in Handler /\ o.phase = "reconcile" /\ o.kind = "edit" /\ o.user = user /\ o.table = policy
      /\ o.revoke = {} /\ o.grant = {} /\ o.chosen = {} /\ o.mode = dyn.mode /\ ~o.failed
    BY <1>3, NewFields, Named DEF Blank
<1>6. /\ h \in Handler /\ h.phase = "reconcile" /\ h.kind = "edit" /\ h.user = user' /\ h.table = policy
      /\ h.revoke = {} /\ h.grant = {} /\ h.chosen = {} /\ h.mode = dyn.mode /\ ~h.failed
    BY <1>2, <1>4, <1>5, PersonFields
<1>7. op[q] = Idle /\ op' = [op EXCEPT ![q] = h]
    BY <1>1, <1>3, <1>4, <1>5 DEF Start, MayStart, WithPerson
<1>. QED
    BY <1>2, <1>6, <1>7 DEF Begins, EditDepartment

LEMMA SyncBegins ==
    ASSUME TypeOK, NEW q \in Requests, SyncPerson(q)
    PROVE  /\ \E h : Begins(q, h, "sync", "reconcile") /\ h.mode = dyn.mode
           /\ user' \in Person
<1>1. user' \in Person /\ Start(q, [NewOp("sync", "reconcile") EXCEPT !.user = user'])
    BY DEF SyncPerson, Person
<1>2. PICK o : o = NewOp("sync", "reconcile")
    OBVIOUS
<1>3. PICK h : h = WithPerson(o, user')
    OBVIOUS
<1>4. /\ o \in Handler /\ o.phase = "reconcile" /\ o.kind = "sync" /\ o.user = user /\ o.table = policy
      /\ o.revoke = {} /\ o.grant = {} /\ o.chosen = {} /\ o.mode = dyn.mode /\ ~o.failed
    BY <1>2, NewFields, Named DEF Blank
<1>5. /\ h \in Handler /\ h.phase = "reconcile" /\ h.kind = "sync" /\ h.user = user' /\ h.table = policy
      /\ h.revoke = {} /\ h.grant = {} /\ h.chosen = {} /\ h.mode = dyn.mode /\ ~h.failed
    BY <1>1, <1>3, <1>4, PersonFields
<1>6. op[q] = Idle /\ op' = [op EXCEPT ![q] = h]
    BY <1>1, <1>2, <1>3 DEF Start, MayStart, WithPerson
<1>. QED
    BY <1>1, <1>5, <1>6 DEF Begins, SyncPerson

LEMMA PolicyBegins ==
    ASSUME TypeOK, NEW q \in Requests, NEW p \in Policies, NEW r \in Policy, Saved(q, p, r)
    PROVE  /\ policy' = [policy EXCEPT ![p] = r]
           /\ IF Candidate(p, r) THEN \E h : Begins(q, h, "policy", "reconcile") /\ h.mode = dyn.mode
                                 ELSE op' = op
<1>1. CASE ~Candidate(p, r)
    BY <1>1 DEF Saved
<1>2. CASE Candidate(p, r)
    <2>1. policy' = [policy EXCEPT ![p] = r] /\ Start(q, [NewOp("policy", "reconcile") EXCEPT !.table[p] = r]) /\ user' = user
        BY <1>2 DEF Saved
    <2>2. PICK o : o = NewOp("policy", "reconcile")
        OBVIOUS
    <2>3. PICK h : h = WithTable(o, p, r)
        OBVIOUS
    <2>4. /\ o \in Handler /\ o.phase = "reconcile" /\ o.kind = "policy" /\ o.user = user /\ o.table = policy
          /\ o.revoke = {} /\ o.grant = {} /\ o.chosen = {} /\ o.mode = dyn.mode /\ ~o.failed
        BY <2>2, NewFields, Named DEF Blank
    <2>5. /\ h \in Handler /\ h.phase = "reconcile" /\ h.kind = "policy" /\ h.user = user /\ h.table = [policy EXCEPT ![p] = r]
          /\ h.revoke = {} /\ h.grant = {} /\ h.chosen = {} /\ h.mode = dyn.mode /\ ~h.failed
        BY <2>3, <2>4, TableFields
    <2>6. op[q] = Idle /\ op' = [op EXCEPT ![q] = h]
        BY <2>1, <2>2, <2>3 DEF Start, MayStart, WithTable
    <2>. QED
        BY <1>2, <2>1, <2>5, <2>6 DEF Begins
<1>. QED
    BY <1>1, <1>2

LEMMA EvaluateBegins ==
    ASSUME TypeOK, NEW q \in Requests, Evaluate(q)
    PROVE  \E h : Begins(q, h, "evaluate", "plan") /\ h.mode = dyn.mode
<1>1. PICK h : h = NewOp("evaluate", "plan")
    OBVIOUS
<1>2. /\ h \in Handler /\ h.phase = "plan" /\ h.kind = "evaluate" /\ h.user = user /\ h.table = policy
      /\ h.revoke = {} /\ h.grant = {} /\ h.chosen = {} /\ h.mode = dyn.mode /\ ~h.failed
    BY <1>1, NewFields, Named DEF Blank
<1>3. op[q] = Idle /\ op' = [op EXCEPT ![q] = h] /\ user' = user /\ policy' = policy
    BY <1>1 DEF Evaluate, Start, MayStart
<1>. QED
    BY <1>2, <1>3 DEF Begins

LEMMA RuleBegins ==
    ASSUME TypeOK, NEW q \in Requests, UpdateDynamicGroup(q)
    PROVE  /\ \E r \in Rules, s \in {"ACTIVE", "DISABLED"} : dyn' = [dyn EXCEPT !.rule = r, !.status = s]
           /\ dyn.status # "NONE" /\ dyn' \in Dynamic /\ dyn'.mode = dyn.mode
           /\ IF dyn.mode # "OFF" THEN \E h : Begins(q, h, "rule", "ensure") /\ h.mode = dyn.mode
                                  ELSE op' = op
<1>1. PICK r \in Rules, s \in {"ACTIVE", "DISABLED"} : dyn' = [dyn EXCEPT !.rule = r, !.status = s]
    BY DEF UpdateDynamicGroup
<1>2. dyn' \in Dynamic /\ dyn'.mode = dyn.mode
    BY <1>1 DEF TypeOK, Dynamic
<1>3. CASE dyn.mode = "OFF"
    BY <1>1, <1>2, <1>3 DEF UpdateDynamicGroup
<1>4. CASE dyn.mode # "OFF"
    <2>1. PICK h : h = NewOp("rule", "ensure")
        OBVIOUS
    <2>2. /\ h \in Handler /\ h.phase = "ensure" /\ h.kind = "rule" /\ h.user = user /\ h.table = policy
          /\ h.revoke = {} /\ h.grant = {} /\ h.chosen = {} /\ h.mode = dyn.mode /\ ~h.failed
        BY <2>1, NewFields, Named DEF Blank
    <2>3. op[q] = Idle /\ op' = [op EXCEPT ![q] = h] /\ user' = user /\ policy' = policy /\ dyn.status # "NONE"
        BY <1>4, <2>1 DEF UpdateDynamicGroup, Start, MayStart
    <2>4. Begins(q, h, "rule", "ensure")
        BY <2>2, <2>3 DEF Begins
    <2>. QED
        BY <1>1, <1>2, <1>4, <2>2, <2>3, <2>4
<1>. QED
    BY <1>3, <1>4

LEMMA ModeBegins ==
    ASSUME TypeOK, NEW q \in Requests, SetSyncMode(q)
    PROVE  \/ dyn' = [dyn EXCEPT !.mode = "OFF"] /\ op' = op
           \/ /\ dyn' = dyn
              /\ \E h : Begins(q, h, "mode", "ensure") /\ h.mode # "OFF"
<1>1. PICK m \in Modes :
        IF m = "OFF" THEN dyn' = [dyn EXCEPT !.mode = m] /\ op' = op
                     ELSE Start(q, [NewOp("mode", "ensure") EXCEPT !.mode = m]) /\ dyn' = dyn
    BY DEF SetSyncMode, Modes
<1>2. CASE m = "OFF"
    BY <1>1, <1>2
<1>3. CASE m # "OFF"
    <2>1. PICK o : o = NewOp("mode", "ensure")
        OBVIOUS
    <2>2. PICK h : h = WithMode(o, m)
        OBVIOUS
    <2>3. /\ o \in Handler /\ o.phase = "ensure" /\ o.kind = "mode" /\ o.user = user /\ o.table = policy
          /\ o.revoke = {} /\ o.grant = {} /\ o.chosen = {} /\ ~o.failed
        BY <2>1, NewFields, Named DEF Blank
    <2>4. /\ h \in Handler /\ h.phase = "ensure" /\ h.kind = "mode" /\ h.user = user /\ h.table = policy
          /\ h.revoke = {} /\ h.grant = {} /\ h.chosen = {} /\ h.mode = m /\ ~h.failed
        BY <2>2, <2>3, ModeFields
    <2>5. op[q] = Idle /\ op' = [op EXCEPT ![q] = h] /\ user' = user /\ policy' = policy /\ dyn' = dyn
        BY <1>1, <1>3, <2>1, <2>2 DEF SetSyncMode, Start, MayStart, WithMode
    <2>. QED
        BY <1>3, <2>4, <2>5 DEF Begins
<1>. QED
    BY <1>2, <1>3

\* A move whose day has come is taken up, or marked FAILED.
LEMMA MoveBegins ==
    ASSUME TypeOK, ApplyMove
    PROVE  /\ \E m \in DOMAIN moves :
                /\ moves[m].status = "SCHEDULED"
                /\ \/ /\ user' = [user EXCEPT !.dept = moves[m].dept] /\ user' \in Person /\ moves' = moves /\ faults' = faults
                      /\ \E h : Begins(Worker, h, "move", "reconcile") /\ h.mode = dyn.mode /\ h.move = m
                   \/ /\ moves' = [moves EXCEPT ![m].status = "FAILED"] /\ user' = user /\ op' = op /\ Count("refused")
           /\ moves' \in Seq(Move)
<1>1. PICK m \in DOMAIN moves : \E ok \in BOOLEAN :
        /\ moves[m].status = "SCHEDULED" /\ Works(ok) /\ MayStart(Worker)
        /\ IF ok THEN /\ user' = [user EXCEPT !.dept = moves[m].dept]
                      /\ op' = [op EXCEPT ![Worker] = [NewOp("move", "reconcile") EXCEPT !.user.dept = moves[m].dept, !.move = m]]
                      /\ moves' = moves
                 ELSE moves' = [moves EXCEPT ![m].status = "FAILED"] /\ user' = user /\ op' = op
    BY DEF ApplyMove
<1>2. moves \in Seq(Move) /\ user \in Person
    BY DEF TypeOK, Person
<1>3. m \in Nat /\ moves[m] \in Move
    BY <1>1, <1>2, LenProperties
<1>4. PICK ok \in BOOLEAN :
        /\ moves[m].status = "SCHEDULED" /\ Works(ok) /\ MayStart(Worker)
        /\ IF ok THEN /\ user' = [user EXCEPT !.dept = moves[m].dept]
                      /\ op' = [op EXCEPT ![Worker] = [NewOp("move", "reconcile") EXCEPT !.user.dept = moves[m].dept, !.move = m]]
                      /\ moves' = moves
                 ELSE moves' = [moves EXCEPT ![m].status = "FAILED"] /\ user' = user /\ op' = op
    BY <1>1
<1>5. CASE ok
    <2>1. user' \in Person
        BY <1>2, <1>3, <1>4, <1>5 DEF Person, Move
    <2>2. PICK o : o = NewOp("move", "reconcile")
        OBVIOUS
    <2>3. PICK x : x = WithPerson(o, user')
        OBVIOUS
    <2>4. PICK h : h = WithMove(x, m)
        OBVIOUS
    <2>5. /\ o \in Handler /\ o.phase = "reconcile" /\ o.kind = "move" /\ o.user = user /\ o.table = policy
          /\ o.revoke = {} /\ o.grant = {} /\ o.chosen = {} /\ o.mode = dyn.mode /\ ~o.failed
        BY <2>2, NewFields, Named DEF Blank
    <2>6. /\ x \in Handler /\ x.phase = "reconcile" /\ x.kind = "move" /\ x.user = user' /\ x.table = policy
          /\ x.revoke = {} /\ x.grant = {} /\ x.chosen = {} /\ x.mode = dyn.mode /\ ~x.failed
        BY <2>1, <2>3, <2>5, PersonFields
    <2>7. /\ h \in Handler /\ h.phase = "reconcile" /\ h.kind = "move" /\ h.user = user' /\ h.table = policy
          /\ h.revoke = {} /\ h.grant = {} /\ h.chosen = {} /\ h.mode = dyn.mode /\ h.move = m /\ ~h.failed
        BY <1>3, <2>4, <2>6, MoveFields
    <2>8. op[Worker] = Idle /\ op' = [op EXCEPT ![Worker] = h]
        BY <1>4, <1>5, <2>2, <2>3, <2>4, <2>5 DEF MayStart, WithPerson, WithMove
    <2>9. policy' = policy /\ faults' = faults
        BY <1>4, <1>5 DEF ApplyMove, Works
    <2>. QED
        BY <1>1, <1>2, <1>4, <1>5, <2>1, <2>7, <2>8, <2>9 DEF Begins
<1>6. CASE ~ok
    <2>1. moves' \in Seq(Move)
        BY <1>2, <1>4, <1>6, MoveWritten DEF MoveStatus
    <2>. QED
        BY <1>1, <1>4, <1>6, <2>1 DEF Works
<1>. QED
    BY <1>5, <1>6

-----------------------------------------------------------------------------
(***************************************************************************)
(* How the rows change: a new one, one freed, a status written.            *)
(***************************************************************************)
LEMMA RowShape ==
    ASSUME TypeOK, NEW s \in Held
    PROVE  /\ s \in Slots /\ rows[s] \in Row /\ rows[s] # Free /\ rows[s].target \in Targets \cup {Group}
           /\ rows[s].source \in Sources /\ rows[s].status \in {"ELIGIBLE", "ACTIVE"}
BY DEF TypeOK, Held, Row

LEMMA NewRow ==
    ASSUME TypeOK, Unused # {}, NEW r \in Row, NEW f, f = Fresh, rows' = [rows EXCEPT ![f] = r]
    PROVE  /\ f \in Slots /\ f \notin Held /\ Held' = Held \cup {f} /\ rows'[f] = r
           /\ \A s \in Slots : s # f => rows'[s] = rows[s]
           /\ rows' \in [Slots -> Row \cup {Free}]
<1>1. f \in Unused
    BY DEF Fresh
<1>2. f \in Slots /\ f \notin Held
    BY <1>1 DEF Unused
<1>3. r # Free
    BY DEF Row, Free
<1>4. rows \in [Slots -> Row \cup {Free}]
    BY DEF TypeOK
<1>5. rows'[f] = r /\ (\A s \in Slots : s # f => rows'[s] = rows[s]) /\ rows' \in [Slots -> Row \cup {Free}]
    BY <1>2, <1>4
<1>6. Held' = Held \cup {f}
    BY <1>2, <1>3, <1>5 DEF Held
<1>. QED
    BY <1>2, <1>5, <1>6

LEMMA FreedRow ==
    ASSUME TypeOK, NEW f \in Slots, rows' = [rows EXCEPT ![f] = Free]
    PROVE  /\ Held' = Held \ {f} /\ \A s \in Slots : s # f => rows'[s] = rows[s]
           /\ rows' \in [Slots -> Row \cup {Free}]
BY DEF TypeOK, Held

LEMMA StatusRow ==
    ASSUME TypeOK, NEW f \in Held, NEW x \in {"ELIGIBLE", "ACTIVE"}, rows' = [rows EXCEPT ![f].status = x]
    PROVE  /\ Held' = Held /\ rows'[f].status = x /\ \A s \in Slots : s # f => rows'[s] = rows[s]
           /\ \A s \in Held : rows'[s].target = rows[s].target /\ rows'[s].source = rows[s].source
           /\ rows' \in [Slots -> Row \cup {Free}]
<1>1. rows \in [Slots -> Row \cup {Free}] /\ f \in Slots /\ rows[f] \in Row /\ rows[f] # Free
    BY RowShape DEF TypeOK
<1>2. PICK r : r = [rows[f] EXCEPT !.status = x]
    OBVIOUS
<1>3. r \in Row /\ r.status = x /\ r.target = rows[f].target /\ r.source = rows[f].source
    BY <1>1, <1>2 DEF Row
<1>4. r # Free
    BY <1>3 DEF Row, Free
<1>5. rows' = [rows EXCEPT ![f] = r]
    BY <1>2
<1>6. rows'[f] = r /\ (\A s \in Slots : s # f => rows'[s] = rows[s]) /\ rows' \in [Slots -> Row \cup {Free}]
    BY <1>1, <1>3, <1>5
<1>7. Held' = Held
    BY <1>1, <1>4, <1>6 DEF Held
<1>. QED
    BY <1>1, <1>3, <1>6, <1>7 DEF Held

LEMMA GivenTargets == ASSUME TypeOK, NEW p \in Policies PROVE Given(p) \subseteq Targets
<1>1. package \in Packages
    BY DEF TypeOK
<1>. QED
    BY <1>1 DEF Given, Targets

(***************************************************************************)
(* UpdateMembership: what it does to the rows, the directory and the group.*)
(***************************************************************************)
LEMMA CommitsFields ==
    ASSUME TypeOK, NEW o \in Handler, NEW c, c = Commits(o)
    PROVE  /\ c \in Dynamic /\ c.status = dyn.status /\ c.rule = dyn.rule
           /\ c.mode = IF o.kind = "mode" THEN o.mode ELSE dyn.mode
<1>1. o.made \in BOOLEAN /\ o.mode \in Modes /\ dyn \in Dynamic
    BY HandlerShape DEF TypeOK
<1>. QED
    BY <1>1 DEF Commits, Dynamic, Modes

\* The ways a membership is updated.
Unmoved(o, ok)  == /\ dyn' = Commits(o) /\ rows' = rows /\ access' = access /\ ok
                   /\ Concerned(o) => (DynamicRow # {} <=> Belongs(o))
Joined(o)       == /\ Concerned(o) /\ Belongs(o) /\ DynamicRow = {} /\ o.mode \in {"ELIGIBLE", "ACTIVE"}
                   /\ Unused # {} /\ rows' = [rows EXCEPT ![Fresh] = Member(o)] /\ dyn' = Commits(o)
                   /\ access' = IF o.mode = "ACTIVE" THEN access \cup {Group} ELSE access
Refused(o, ok)  == ~ok /\ rows' = rows /\ access' = access /\ dyn' \in {dyn, Commits(o)}
Promoted(o, s)  == /\ Concerned(o) /\ Belongs(o) /\ dyn' = Commits(o)
                   /\ rows' = [rows EXCEPT ![s].status = "ACTIVE"] /\ access' = access \cup {Group}
Demoted(o, s, ok) == /\ Concerned(o) /\ Belongs(o) /\ dyn' = Commits(o)
                     /\ rows' = [rows EXCEPT ![s].status = "ELIGIBLE"]
                     /\ access' = IF ok THEN access \ {Group} ELSE access
Expelled(o, s)  == /\ Concerned(o) /\ ~Belongs(o) /\ dyn' = Commits(o) /\ rows' = [rows EXCEPT ![s] = Free]
                   /\ access' = IF rows[s].status = "ACTIVE" THEN access \ {Group} ELSE access

LEMMA MembershipWays ==
    ASSUME TypeOK, NEW o \in Handler, NEW ok \in BOOLEAN, Membership(o, ok)
    PROVE  \/ Unmoved(o, ok) \/ Joined(o) \/ Refused(o, ok)
           \/ \E s \in DynamicRow : Promoted(o, s) \/ Demoted(o, s, ok) \/ Expelled(o, s)
<1>1. o.mode \in Modes
    BY HandlerShape
<1>2. CASE ~Concerned(o)
    BY <1>2 DEF Membership, Unmoved
<1>3. CASE Concerned(o) /\ DynamicRow = {}
    <2>1. CASE ~Belongs(o)
        BY <1>3, <2>1 DEF Membership, Unmoved
    <2>2. CASE Belongs(o) /\ ok
        BY <1>1, <1>3, <2>2 DEF Membership, Join, Joined, Concerned, Modes
    <2>3. CASE Belongs(o) /\ ~ok
        BY <1>3, <2>3 DEF Membership, Join, Refused
    <2>. QED
        BY <2>1, <2>2, <2>3
<1>4. CASE Concerned(o) /\ DynamicRow # {}
    <2>1. PICK s \in DynamicRow :
            IF ~Belongs(o) THEN (rows[s].status = "ELIGIBLE" => ok) /\ Expel(o, s, ok)
            ELSE IF rows[s].status = o.mode THEN ok /\ dyn' = Commits(o) /\ rows' = rows /\ access' = access
            ELSE IF o.mode = "ACTIVE" THEN Promote(o, s, ok) ELSE Demote(o, s, ok)
        BY <1>4 DEF Membership
    <2>2. CASE ~Belongs(o)
        <3>1. CASE ok
            BY <1>4, <2>1, <2>2, <3>1 DEF Expel, Expelled
        <3>2. CASE ~ok
            BY <2>1, <2>2, <3>2 DEF Expel, Refused
        <3>. QED
            BY <3>1, <3>2
    <2>3. CASE Belongs(o) /\ rows[s].status = o.mode
        BY <1>4, <2>1, <2>3 DEF Unmoved
    <2>4. CASE Belongs(o) /\ rows[s].status # o.mode /\ o.mode = "ACTIVE"
        <3>1. CASE ok
            BY <1>4, <2>1, <2>4, <3>1 DEF Promote, Promoted
        <3>2. CASE ~ok
            BY <2>1, <2>4, <3>2 DEF Promote, Refused
        <3>. QED
            BY <3>1, <3>2
    <2>5. CASE Belongs(o) /\ rows[s].status # o.mode /\ o.mode # "ACTIVE"
        BY <1>4, <2>1, <2>5 DEF Demote, Demoted
    <2>. QED
        BY <2>2, <2>3, <2>4, <2>5
<1>. QED
    BY <1>2, <1>3, <1>4

-----------------------------------------------------------------------------
(***************************************************************************)
(* Rows and handlers keep their shapes, whatever interleaves.              *)
(***************************************************************************)
OpTyped == op \in [Procs -> Handler \cup {Idle}]

LEMMA OpTypes ==
    ASSUME TypeOK, NEW q \in Procs, NEW h \in Handler \cup {Idle}, op' = [op EXCEPT ![q] = h]
    PROVE  OpTyped'
BY DEF TypeOK, OpTyped

LEMMA BeginTypes ==
    ASSUME TypeOK, NEW q \in Procs, NEW h, NEW kind, NEW phase, Begins(q, h, kind, phase)
    PROVE  OpTyped'
BY OpTypes DEF Begins

LEMMA SettledTypes ==
    ASSUME TypeOK, NEW o
    PROVE  Settled(o) \subseteq {"birthright", "dynamic"}
BY DEF TypeOK, Settled

LEMMA InitTypes == Init => TypeOK
<1>1. SUFFICES ASSUME Init PROVE TypeOK
    OBVIOUS
<1>2. /\ NoDept \notin Depts /\ Rules \subseteq Rule /\ FirstRule \in [Policies -> Rules]
      /\ FirstDynamic \subseteq {"OFF", "ELIGIBLE", "ACTIVE"} /\ Packages # {} /\ \E r \in Rules : ~r.negated
    BY ConstantsAssumption
<1>3. policy \in [Policies -> Policy \cup {Absent}]
  <2>1. \A p \in Policies : [status |-> "ACTIVE", rule |-> FirstRule[p], sticky |-> FALSE] \in Policy
      BY <1>2 DEF Policy
  <2>. QED
      BY <1>1, <2>1 DEF Init
<1>4. package \in Packages
    BY <1>1, <1>2 DEF Init
<1>5. AnyRule \in Rules
    BY <1>2 DEF AnyRule
<1>6. dyn \in Dynamic
  <2>1. \/ dyn = [status |-> "NONE", rule |-> AnyRule, mode |-> "OFF", linked |-> FALSE, real |-> FALSE]
        \/ \E m \in FirstDynamic : dyn = [status |-> "ACTIVE", rule |-> AnyRule, mode |-> m, linked |-> m # "OFF", real |-> m # "OFF"]
      BY <1>1 DEF Init
  <2>2. CASE dyn = [status |-> "NONE", rule |-> AnyRule, mode |-> "OFF", linked |-> FALSE, real |-> FALSE]
      BY <1>5, <2>2 DEF Dynamic
  <2>3. CASE \E m \in FirstDynamic : dyn = [status |-> "ACTIVE", rule |-> AnyRule, mode |-> m, linked |-> m # "OFF", real |-> m # "OFF"]
    <3>1. PICK m \in FirstDynamic : dyn = [status |-> "ACTIVE", rule |-> AnyRule, mode |-> m, linked |-> m # "OFF", real |-> m # "OFF"]
        BY <2>3
    <3>2. m \in {"OFF", "ELIGIBLE", "ACTIVE"} /\ (m # "OFF") \in BOOLEAN
        BY <1>2
    <3>. QED
        BY <1>5, <3>1, <3>2 DEF Dynamic
  <2>. QED
      BY <2>1, <2>2, <2>3
<1>. QED
    BY <1>1, <1>3, <1>4, <1>6, EmptySeq DEF Init, TypeOK

LEMMA BirthrightTypes ==
    ASSUME TypeOK, NEW q \in Procs, Reconcile(q) \/ RevokedAll(q) \/ Plan(q) \/ LookUp(q) \/ GrantedAll(q)
    PROVE  TypeOK'
<1>1. CASE Reconcile(q)
    BY <1>1, ReconcileCall, OpTypes DEF Same, Reconcile, TypeOK, OpTyped
<1>2. CASE RevokedAll(q)
  <2>0. PICK h : h = op'[q]
      OBVIOUS
  <2>1. OpTyped'
    <3>1. op' = [op EXCEPT ![q] = h] /\ h \in Handler \cup {Idle}
        BY <1>2, <2>0, RevokedAllCall DEF Same
    <3>. QED
        BY <3>1, OpTypes
  <2>2. stale' = stale \/ stale' = Settled(op[q])
      BY <1>2, RevokedAllCall
  <2>3. stale' \subseteq {"birthright", "dynamic"}
    <3>1. stale \subseteq {"birthright", "dynamic"} /\ Settled(op[q]) \subseteq {"birthright", "dynamic"}
        BY SettledTypes DEF TypeOK
    <3>. QED
        BY <2>2, <3>1
  <2>. QED
      BY <1>2, <2>1, <2>3 DEF RevokedAll, TypeOK, OpTyped
<1>3. CASE Plan(q)
  <2>1. OpTyped'
      BY <1>3, PlanCall, OpTypes DEF Same
  <2>. QED
      BY <1>3, <2>1 DEF Plan, TypeOK, OpTyped
<1>4. CASE LookUp(q)
    BY <1>4, LookUpCall, OpTypes DEF Same, LookUp, TypeOK, OpTyped
<1>5. CASE GrantedAll(q)
    BY <1>5, GrantedAllCall, SettledTypes, OpTypes DEF Same, GrantedAll, TypeOK, OpTyped
<1>. QED
    BY <1>1, <1>2, <1>3, <1>4, <1>5

RowsTyped == rows \in [Slots -> Row \cup {Free}] /\ access \subseteq Targets \cup {Group}

LEMMA RevokeTypes == ASSUME TypeOK, NEW q \in Procs, RevokeOne(q) PROVE TypeOK'
<1>1. OpTyped'
    BY RevokeCall, OpTypes DEF Same
<1>2. RowsTyped'
  <2>1. PICK r \in Reading, ok \in BOOLEAN :
          IF ok THEN /\ access' = IF r.status = "ACTIVE" /\ rows[r.slot] # Free THEN access \ {rows[r.slot].target} ELSE access
                     /\ rows' = [rows EXCEPT ![r.slot] = Free]
                ELSE rows' = rows /\ access' = access
      BY RevokeCall
  <2>2. access' \subseteq access
      BY <2>1
  <2>3. r.slot \in Slots
      BY <2>1 DEF Reading
  <2>4. rows' \in [Slots -> Row \cup {Free}]
      BY <2>1, <2>3, FreedRow DEF TypeOK
  <2>. QED
      BY <2>2, <2>4 DEF TypeOK, RowsTyped
<1>. QED
    BY <1>1, <1>2 DEF TypeOK, OpTyped, RowsTyped, RevokeOne

LEMMA RowOfTyped == ASSUME NEW x \in Grants PROVE RowOf(x) \in Row
BY DEF Grants, RowOf, Row, Sources

LEMMA GrantTypes == ASSUME TypeOK, NEW q \in Procs, GrantOne(q) PROVE TypeOK'
<1>1. OpTyped'
    BY GrantCall, OpTypes DEF Same
<1>2. PICK x \in Grants :
        IF Exists(x.policy)
        THEN Unused # {} /\ rows' = [rows EXCEPT ![Fresh] = RowOf(x)] /\ tagged' = tagged \cup {x.policy} /\ stale' = stale
        ELSE stale' = stale \cup {"birthright", "dynamic"} /\ rows' = rows /\ tagged' = tagged
    BY GrantCall
<1>3. RowOf(x) \in Row /\ x.policy \in Policies
    BY RowOfTyped DEF Grants
<1>4. rows' \in [Slots -> Row \cup {Free}]
    BY <1>2, <1>3, NewRow DEF TypeOK
<1>. QED
    BY <1>1, <1>2, <1>3, <1>4 DEF TypeOK, OpTyped, GrantOne

LEMMA EnsureTypes == ASSUME TypeOK, NEW q \in Procs, EnsureGroup(q) PROVE TypeOK'
<1>1. /\ dyn' = dyn \/ dyn' = [dyn EXCEPT !.real = TRUE]
      /\ stale' = stale \/ stale' = stale \cup {"dynamic"}
      /\ moves' \in Seq(Move)
    BY EnsureCall
<1>2. OpTyped'
    BY EnsureCall, OpTypes DEF Same
<1>3. dyn' \in Dynamic
    BY <1>1 DEF TypeOK, Dynamic
<1>. QED
    BY <1>1, <1>2, <1>3 DEF TypeOK, OpTyped, EnsureGroup

LEMMA MembershipTypes == ASSUME TypeOK, NEW q \in Procs, UpdateMembership(q) PROVE TypeOK'
<1>1. PICK o : o = op[q]
    OBVIOUS
<1>2. o \in Handler /\ OpTyped'
    BY <1>1, MembershipCall, OpTypes DEF Same
<1>3. PICK ok \in BOOLEAN :
        /\ Membership(o, ok)
        /\ stale' = IF ~ok THEN stale \cup {"dynamic"} ELSE IF Concerned(o) THEN stale \ {"dynamic"} ELSE stale
    BY <1>1, MembershipCall
<1>4. stale' \subseteq {"birthright", "dynamic"}
    BY <1>3 DEF TypeOK
<1>5. Commits(o) \in Dynamic /\ dyn \in Dynamic
    BY <1>2, CommitsFields DEF TypeOK
<1>6. \/ Unmoved(o, ok) \/ Joined(o) \/ Refused(o, ok)
      \/ \E s \in DynamicRow : Promoted(o, s) \/ Demoted(o, s, ok) \/ Expelled(o, s)
    BY <1>2, <1>3, MembershipWays
<1>7. dyn' \in Dynamic
    BY <1>5, <1>6 DEF Unmoved, Joined, Refused, Promoted, Demoted, Expelled
<1>8. RowsTyped'
  <2>1. rows \in [Slots -> Row \cup {Free}] /\ access \subseteq Targets \cup {Group}
      BY DEF TypeOK
  <2>2. CASE Unmoved(o, ok) \/ Refused(o, ok)
      BY <2>1, <2>2 DEF Unmoved, Refused, RowsTyped
  <2>3. CASE Joined(o)
    <3>1. Member(o) \in Row
        BY <2>3 DEF Joined, Member, Row, Sources
    <3>2. rows' \in [Slots -> Row \cup {Free}]
        BY <2>3, <3>1, NewRow DEF Joined
    <3>. QED
        BY <2>1, <2>3, <3>2 DEF Joined, RowsTyped
  <2>4. CASE \E s \in DynamicRow : Promoted(o, s) \/ Demoted(o, s, ok) \/ Expelled(o, s)
    <3>1. PICK s \in DynamicRow : Promoted(o, s) \/ Demoted(o, s, ok) \/ Expelled(o, s)
        BY <2>4
    <3>2. s \in Held /\ s \in Slots
        BY DEF DynamicRow, Tagged, Held
    <3>3. rows' \in [Slots -> Row \cup {Free}]
        BY <3>1, <3>2, StatusRow, FreedRow DEF Promoted, Demoted, Expelled
    <3>4. access' \subseteq access \cup {Group}
        BY <3>1 DEF Promoted, Demoted, Expelled
    <3>. QED
        BY <2>1, <3>3, <3>4 DEF RowsTyped
  <2>. QED
      BY <1>6, <2>2, <2>3, <2>4
<1>. QED
    BY <1>2, <1>4, <1>7, <1>8 DEF TypeOK, OpTyped, RowsTyped, UpdateMembership

LEMMA SettleTypes == ASSUME TypeOK, NEW q \in Procs, SettleMove(q) PROVE TypeOK'
<1>1. OpTyped' /\ moves' \in Seq(Move)
    BY SettleCall, OpTypes
<1>. QED
    BY <1>1 DEF TypeOK, OpTyped, SettleMove

LEMMA ContinueTypes == ASSUME TypeOK, NEW q \in Procs, Continue(q) PROVE TypeOK'
BY BirthrightTypes, RevokeTypes, GrantTypes, EnsureTypes, MembershipTypes, SettleTypes DEF Continue

LEMMA StartTypes ==
    ASSUME TypeOK, NEW q \in Requests,
           EditDepartment(q) \/ SyncPerson(q) \/ CreatePolicy(q) \/ UpdatePolicy(q) \/ Evaluate(q) \/ UpdateDynamicGroup(q) \/ SetSyncMode(q)
    PROVE  TypeOK'
<1>. q \in Procs
    BY DEF Procs
<1>1. CASE EditDepartment(q)
    BY <1>1, EditBegins, BeginTypes DEF TypeOK, OpTyped, EditDepartment, Person
<1>2. CASE SyncPerson(q)
    BY <1>2, SyncBegins, BeginTypes DEF TypeOK, OpTyped, SyncPerson, Person
<1>3. CASE CreatePolicy(q) \/ UpdatePolicy(q)
  <2>1. PICK p \in Policies, r \in Policy : Saved(q, p, r)
      BY <1>3 DEF CreatePolicy, UpdatePolicy
  <2>2. OpTyped'
      BY <2>1, PolicyBegins, BeginTypes DEF TypeOK, OpTyped
  <2>3. policy' \in [Policies -> Policy \cup {Absent}]
      BY <2>1 DEF Saved, TypeOK
  <2>. QED
      BY <2>1, <2>2, <2>3 DEF TypeOK, OpTyped, Saved
<1>4. CASE Evaluate(q)
    BY <1>4, EvaluateBegins, BeginTypes DEF TypeOK, OpTyped, Evaluate
<1>5. CASE UpdateDynamicGroup(q)
  <2>1. OpTyped' /\ dyn' \in Dynamic
      BY <1>5, RuleBegins, BeginTypes DEF TypeOK, OpTyped
  <2>. QED
      BY <1>5, <2>1 DEF TypeOK, OpTyped, UpdateDynamicGroup
<1>6. CASE SetSyncMode(q)
  <2>1. OpTyped'
      BY <1>6, ModeBegins, BeginTypes DEF TypeOK, OpTyped
  <2>2. dyn' = dyn \/ dyn' = [dyn EXCEPT !.mode = "OFF"]
      BY <1>6, ModeBegins
  <2>3. dyn' \in Dynamic
      BY <2>2 DEF TypeOK, Dynamic
  <2>. QED
      BY <1>6, <2>1, <2>3 DEF TypeOK, OpTyped, SetSyncMode
<1>. QED
    BY <1>1, <1>2, <1>3, <1>4, <1>5, <1>6

\* Moves are only added, and their status written.
MovesStay == \A m \in DOMAIN moves : m \in DOMAIN moves' /\ moves'[m].dept = moves[m].dept

LEMMA ReplacedShape ==
    ASSUME TypeOK, NEW S, S = Replaced
    PROVE  /\ S \in Seq(Move) /\ Len(S) = Len(moves)
           /\ \A m \in DOMAIN moves : /\ m \in 1..Len(S) /\ S[m].dept = moves[m].dept
                                      /\ moves[m].status = "SCHEDULED" => S[m].status = "CANCELLED"
<1>1. moves \in Seq(Move) /\ Len(moves) \in Nat /\ moves \in [1..Len(moves) -> Move] /\ DOMAIN moves = 1..Len(moves)
    BY LenProperties DEF TypeOK
<1>2. \A m \in DOMAIN moves : /\ S[m] \in Move /\ S[m].dept = moves[m].dept
                              /\ moves[m].status = "SCHEDULED" => S[m].status = "CANCELLED"
  <2>1. SUFFICES ASSUME NEW m \in DOMAIN moves
                 PROVE  /\ S[m] \in Move /\ S[m].dept = moves[m].dept
                        /\ moves[m].status = "SCHEDULED" => S[m].status = "CANCELLED"
      OBVIOUS
  <2>2. moves[m] \in Move
      BY <1>1
  <2>3. S[m] = IF moves[m].status = "SCHEDULED" THEN [moves[m] EXCEPT !.status = "CANCELLED"] ELSE moves[m]
      BY DEF Replaced
  <2>. QED
      BY <2>2, <2>3 DEF Move
<1>3. S \in [1..Len(moves) -> Move]
    BY <1>1, <1>2 DEF Replaced
<1>4. S \in Seq(Move)
    BY <1>1, <1>3, SeqDef
<1>5. Len(S) = Len(moves)
    BY <1>1, <1>3, <1>4, LenProperties
<1>. QED
    BY <1>1, <1>2, <1>4, <1>5

\* A move is scheduled behind the moves there are, which keep their place.
LEMMA ScheduledShape ==
    ASSUME TypeOK, ScheduleMove
    PROVE  /\ moves' \in Seq(Move)
           /\ \A m \in DOMAIN moves : /\ m \in DOMAIN moves' /\ moves'[m].dept = moves[m].dept
                                      /\ moves[m].status = "SCHEDULED" => moves'[m].status = "CANCELLED"
<1>1. PICK d \in Depts, at \in clock + 1 .. MaxClock :
        moves' = Append(Replaced, [dept |-> d, at |-> at, status |-> "SCHEDULED"])
    BY DEF ScheduleMove
<1>2. at \in Nat
    BY ConstantsAssumption DEF TypeOK
<1>3. [dept |-> d, at |-> at, status |-> "SCHEDULED"] \in Move
    BY <1>2 DEF Move
<1>4. PICK S : S = Replaced
    OBVIOUS
<1>5. /\ S \in Seq(Move)
      /\ \A m \in DOMAIN moves : /\ m \in 1..Len(S) /\ S[m].dept = moves[m].dept
                                 /\ moves[m].status = "SCHEDULED" => S[m].status = "CANCELLED"
    BY <1>4, ReplacedShape
<1>6. PICK e \in Move : moves' = Append(S, e)
    BY <1>1, <1>3, <1>4
<1>7. moves' \in Seq(Move) /\ Len(moves') = Len(S) + 1 /\ \A i \in 1..Len(S) : moves'[i] = S[i]
    BY <1>5, <1>6, AppendProperties
<1>8. DOMAIN moves' = 1..Len(moves') /\ Len(S) \in Nat
    BY <1>5, <1>7, LenProperties
<1>9. \A m \in DOMAIN moves : m \in DOMAIN moves' /\ moves'[m] = S[m]
    BY <1>5, <1>7, <1>8
<1>. QED
    BY <1>5, <1>7, <1>9

LEMMA ScheduleTypes == ASSUME TypeOK, ScheduleMove \/ CancelMove PROVE moves' \in Seq(Move) /\ MovesStay
<1>1. moves \in Seq(Move) /\ Len(moves) \in Nat /\ moves \in [1..Len(moves) -> Move] /\ DOMAIN moves = 1..Len(moves)
    BY LenProperties DEF TypeOK
<1>2. CASE ScheduleMove
    BY <1>2, ScheduledShape DEF MovesStay
<1>3. CASE CancelMove
  <2>1. PICK m \in DOMAIN moves : moves' = [moves EXCEPT ![m].status = "CANCELLED"]
      BY <1>3 DEF CancelMove
  <2>. QED
      BY <1>1, <2>1, MoveWritten DEF MoveStatus, MovesStay
<1>. QED
    BY <1>2, <1>3

LEMMA AdminTypes ==
    ASSUME TypeOK, \/ \E p \in Policies : DeletePolicy(p)
                   \/ CreateDynamicGroup \/ DeleteDynamicGroup \/ EditBundles \/ AssignByHand
    PROVE  TypeOK'
<1>1. CASE \E p \in Policies : DeletePolicy(p)
  <2>1. PICK p \in Policies : DeletePolicy(p)
      BY <1>1
  <2>2. policy' \in [Policies -> Policy \cup {Absent}]
      BY <2>1 DEF DeletePolicy, TypeOK
  <2>. QED
      BY <2>1, <2>2 DEF DeletePolicy, TypeOK
<1>2. CASE CreateDynamicGroup
  <2>1. PICK r \in Rules : dyn' = [dyn EXCEPT !.status = "ACTIVE", !.rule = r, !.mode = "OFF", !.linked = FALSE]
      BY <1>2 DEF CreateDynamicGroup
  <2>2. dyn' \in Dynamic
      BY <2>1 DEF TypeOK, Dynamic
  <2>. QED
      BY <1>2, <2>2 DEF CreateDynamicGroup, TypeOK
<1>3. CASE DeleteDynamicGroup
  <2>1. dyn' \in Dynamic
      BY <1>3 DEF DeleteDynamicGroup, TypeOK, Dynamic
  <2>2. \A s \in DynamicRow : s \in Slots /\ [rows[s] EXCEPT !.source = "manual"] \in Row
    <3>1. SUFFICES ASSUME NEW s \in DynamicRow PROVE s \in Slots /\ [rows[s] EXCEPT !.source = "manual"] \in Row
        OBVIOUS
    <3>2. s \in Held
        BY DEF DynamicRow, Tagged
    <3>. QED
        BY <3>2, RowShape DEF Row, Sources
  <2>3. rows' = [s \in Slots |-> IF s \in DynamicRow THEN [rows[s] EXCEPT !.source = "manual"] ELSE rows[s]]
      BY <1>3 DEF DeleteDynamicGroup
  <2>4. rows' \in [Slots -> Row \cup {Free}]
      BY <2>2, <2>3 DEF TypeOK
  <2>. QED
      BY <1>3, <2>1, <2>4 DEF DeleteDynamicGroup, TypeOK
<1>4. CASE EditBundles
    BY <1>4 DEF EditBundles, TypeOK
<1>5. CASE AssignByHand
  <2>1. PICK t \in ByHand : Unused # {} /\ rows' = [rows EXCEPT ![Fresh] = [target |-> t, source |-> "manual", status |-> "ELIGIBLE"]]
      BY <1>5 DEF AssignByHand
  <2>2. [target |-> t, source |-> "manual", status |-> "ELIGIBLE"] \in Row
      BY ConstantsAssumption DEF Row, Sources
  <2>3. rows' \in [Slots -> Row \cup {Free}]
      BY <2>1, <2>2, NewRow
  <2>. QED
      BY <1>5, <2>3 DEF AssignByHand, TypeOK
<1>. QED
    BY <1>1, <1>2, <1>3, <1>4, <1>5

\* An activation: the row is ACTIVE, and another for the target is gone.
LEMMA ActivateRows ==
    ASSUME TypeOK, NEW s \in Held, NEW other \in SUBSET (HeldOf(rows[s].target) \ {s}),
           rows' = [x \in Slots |-> IF x \in other THEN Free ELSE IF x = s THEN [rows[s] EXCEPT !.status = "ACTIVE"] ELSE rows[x]]
    PROVE  /\ rows' \in [Slots -> Row \cup {Free}] /\ Held' = Held \ other /\ s \in Held' /\ rows'[s].status = "ACTIVE"
           /\ \A x \in Held' : /\ rows'[x].target = rows[x].target /\ rows'[x].source = rows[x].source
                               /\ x # s => rows'[x].status = rows[x].status
           /\ \A x \in other : x \in Held /\ rows[x].target = rows[s].target
<1>1. rows \in [Slots -> Row \cup {Free}] /\ s \in Slots /\ rows[s] \in Row /\ rows[s] # Free
    BY RowShape DEF TypeOK
<1>2. PICK r : r = [rows[s] EXCEPT !.status = "ACTIVE"]
    OBVIOUS
<1>3. r \in Row /\ r.status = "ACTIVE" /\ r.target = rows[s].target /\ r.source = rows[s].source
    BY <1>1, <1>2 DEF Row
<1>4. r # Free
    BY <1>3 DEF Row, Free
<1>5. rows' = [x \in Slots |-> IF x \in other THEN Free ELSE IF x = s THEN r ELSE rows[x]]
    BY <1>2
<1>6. s \notin other /\ \A x \in other : x \in Held /\ rows[x].target = rows[s].target
    BY DEF HeldOf
<1>7. /\ rows' \in [Slots -> Row \cup {Free}] /\ rows'[s] = r
      /\ \A x \in Slots : x \notin other /\ x # s => rows'[x] = rows[x]
      /\ \A x \in Slots : x \in other => rows'[x] = Free
    BY <1>1, <1>3, <1>5, <1>6
<1>8. Held' = Held \ other
    BY <1>1, <1>4, <1>6, <1>7 DEF Held
<1>. QED
    BY <1>1, <1>3, <1>6, <1>7, <1>8 DEF Held

LEMMA HandTypes == ASSUME TypeOK, NEW s \in Held, Activate(s) \/ Revoke(s) PROVE TypeOK'
<1>1. s \in Slots /\ rows[s].target \in Targets \cup {Group}
    BY RowShape
<1>2. CASE Activate(s)
  <2>1. PICK other \in SUBSET (HeldOf(rows[s].target) \ {s}) :
          /\ rows' = [x \in Slots |-> IF x \in other THEN Free ELSE IF x = s THEN [rows[s] EXCEPT !.status = "ACTIVE"] ELSE rows[x]]
          /\ stale' = IF \E x \in other : rows[x].source = "dynamic" THEN stale \cup {"dynamic"} ELSE stale
      BY <1>2 DEF Activate
  <2>2. rows' \in [Slots -> Row \cup {Free}]
      BY <2>1, ActivateRows
  <2>3. access' = access \cup {rows[s].target}
      BY <1>2 DEF Activate
  <2>4. stale' \subseteq {"birthright", "dynamic"}
      BY <2>1 DEF TypeOK
  <2>. QED
      BY <1>1, <1>2, <2>2, <2>3, <2>4 DEF Activate, TypeOK
<1>3. CASE Revoke(s)
  <2>1. rows' \in [Slots -> Row \cup {Free}]
      BY <1>1, <1>3, FreedRow DEF Revoke
  <2>2. access' \subseteq access
      BY <1>3 DEF Revoke
  <2>3. stale' \subseteq {"birthright", "dynamic"}
      BY <1>3 DEF Revoke, TypeOK
  <2>. QED
      BY <1>3, <2>1, <2>2, <2>3 DEF Revoke, TypeOK
<1>. QED
    BY <1>2, <1>3

LEMMA ApplyTypes == ASSUME TypeOK, ApplyMove PROVE TypeOK'
<1>1. OpTyped' /\ moves' \in Seq(Move) /\ user' \in Person
    BY MoveBegins, BeginTypes DEF TypeOK, OpTyped, Person, Procs
<1>. QED
    BY <1>1 DEF TypeOK, OpTyped, Person, ApplyMove

LEMMA OtherTypes == ASSUME TypeOK, ScheduleMove \/ CancelMove \/ Tick \/ Crash PROVE TypeOK'
<1>1. CASE ScheduleMove
    BY <1>1, ScheduleTypes DEF ScheduleMove, TypeOK
<1>2. CASE CancelMove
    BY <1>2, ScheduleTypes DEF CancelMove, TypeOK
<1>3. CASE Tick
    BY <1>3 DEF Tick, TypeOK
<1>4. CASE Crash
  <2>1. op' \in [Procs -> Handler \cup {Idle}]
      BY <1>4 DEF Crash
  <2>. QED
      BY <1>4, <2>1 DEF Crash, TypeOK
<1>. QED
    BY <1>1, <1>2, <1>3, <1>4

LEMMA StepTypes == TypeOK /\ Next => TypeOK'
BY StartTypes, AdminTypes, ApplyTypes, HandTypes, ContinueTypes, OtherTypes DEF Next

LEMMA SameTypes == TypeOK /\ UNCHANGED vars => TypeOK'
BY DEF TypeOK, vars

\* The shapes of the rows and the handlers: a handler carries what models.py and the session
\* give it, however many are under way and whatever they do to each other's rows.
THEOREM BirthrightTyped == Spec => []TypeOK
<1>1. Init => TypeOK
    BY InitTypes
<1>2. TypeOK /\ [Next]_vars => TypeOK'
    BY StepTypes, SameTypes
<1>. QED
    BY <1>1, <1>2, PTL DEF Spec

-----------------------------------------------------------------------------
(***************************************************************************)
(* One handler at a time.                                                  *)
(***************************************************************************)
Paced == /\ Cardinality(Busy') <= 1
         /\ Busy # {} /\ Busy' # {} => edits' = edits /\ moves' = moves

\* With no two under way before, and one handler changed, none is after.
LEMMA Alternate ==
    ASSUME TypeOK, OneAtATime, Paced, NEW q \in Procs, NEW h, op' = [op EXCEPT ![q] = h]
    PROVE  OneAtATime'
<1>1. op'[q] = h /\ \A x \in Procs \ {q} : op'[x] = op[x]
    BY DEF TypeOK
<1>2. SUFFICES ASSUME NEW a \in Procs, NEW b \in Procs, op'[a] # Idle, op'[b] # Idle, a # b PROVE FALSE
    BY DEF OneAtATime
<1>3. Busy' \subseteq {a, b}
    BY <1>1, <1>2 DEF OneAtATime, Busy
<1>4. Busy' = {a, b}
    BY <1>2, <1>3 DEF Busy
<1>5. Cardinality({a, b}) = 2
  <2>1. {a, b} = {a} \cup {b} /\ b \notin {a}
      BY <1>2
  <2>2. IsFiniteSet({a}) /\ Cardinality({a}) = 1
      BY FS_Singleton
  <2>3. Cardinality({a} \cup {b}) = Cardinality({a}) + 1
      BY <2>1, <2>2, FS_AddElement
  <2>. QED
      BY <2>1, <2>2, <2>3
<1>. QED
    BY <1>4, <1>5 DEF Paced

\* A handler starts when none is under way.
LEMMA StartsQuiet ==
    ASSUME TypeOK, OneAtATime, Paced, NEW q \in Procs, NEW h, NEW kind, NEW phase, Begins(q, h, kind, phase)
    PROVE  /\ Quiet /\ OneAtATime' /\ h \in Handler /\ ~Quiet'
           /\ op'[q] = h /\ \A x \in Procs \ {q} : op'[x] = Idle
<1>1. op[q] = Idle /\ op' = [op EXCEPT ![q] = h] /\ h \in Handler /\ h # Idle
    BY HandlerShape DEF Begins
<1>2. op'[q] = h /\ \A x \in Procs \ {q} : op'[x] = op[x]
    BY <1>1 DEF TypeOK
<1>3. OneAtATime'
    BY <1>1, Alternate
<1>4. \A x \in Procs : op[x] = Idle
    BY <1>1, <1>2, <1>3 DEF OneAtATime
<1>5. Quiet /\ ~Quiet'
    BY <1>1, <1>2, <1>4 DEF Quiet, Busy
<1>. QED
    BY <1>1, <1>2, <1>3, <1>4, <1>5

\* What is edited with no handler is edited when none is under way.
LEMMA EditsQuiet ==
    ASSUME Counted, Paced, op' = op, Edited
    PROVE  Quiet /\ Quiet'
<1>1. edits' # edits
    BY DEF Counted, Edited
<1>2. Busy' = Busy
    BY DEF Busy
<1>. QED
    BY <1>1, <1>2 DEF Paced, Quiet

InFlight == \A q \in Procs : op[q] # Idle => Flight(op[q])

LEMMA InvParts == AloneInv <=> /\ OneAtATime /\ Counted /\ RowsApart /\ Backed /\ InFlight
                               /\ Quiet => BirthrightDone /\ DynamicDone
BY DEF AloneInv, InFlight

\* The one handler under way after a step is as it should be.
LEMMA Settles ==
    ASSUME NEW q \in Procs, NEW h, op'[q] = h, \A x \in Procs \ {q} : op'[x] = Idle, Flight(h)'
    PROVE  InFlight'
<1>1. SUFFICES ASSUME NEW x \in Procs, op'[x] # Idle PROVE Flight(op[x])'
    BY DEF InFlight
<1>2. op'[x] = h
    BY <1>1
<1>. QED
    BY <1>2 DEF Flight, Reads, Course, Revoking, Granting, Following, Covered

\* A handler that goes on, and one that ends.
LEMMA GoesOn ==
    ASSUME TypeOK, AloneInv, Paced, Counted', RowsApart', Backed',
           NEW q \in Procs, op[q] # Idle, NEW h \in Handler, op' = [op EXCEPT ![q] = h], Flight(h)'
    PROVE  AloneInv'
<1>1. OneAtATime'
    BY Alternate DEF AloneInv
<1>2. h # Idle
    BY HandlerShape
<1>3. op'[q] = h /\ \A x \in Procs \ {q} : op'[x] = Idle
    BY DEF TypeOK, AloneInv, OneAtATime
<1>4. InFlight'
    BY <1>3, Settles
<1>5. ~Quiet'
    BY <1>2, <1>3 DEF Quiet, Busy
<1>. QED
    BY <1>1, <1>4, <1>5 DEF AloneInv, InFlight

LEMMA Over ==
    ASSUME TypeOK, AloneInv, Counted', RowsApart', Backed', BirthrightDone', DynamicDone',
           NEW q \in Procs, op[q] # Idle, op' = [op EXCEPT ![q] = Idle]
    PROVE  AloneInv'
<1>1. \A x \in Procs : op'[x] = Idle
    BY DEF TypeOK, AloneInv, OneAtATime
<1>. QED
    BY <1>1 DEF AloneInv, OneAtATime

\* A handler that starts, and a change that starts none.
LEMMA Starts ==
    ASSUME TypeOK, AloneInv, Paced, Counted', RowsApart', Backed',
           NEW q \in Procs, NEW h, NEW kind, NEW phase, Begins(q, h, kind, phase), Flight(h)'
    PROVE  AloneInv'
<1>1. OneAtATime' /\ ~Quiet' /\ op'[q] = h /\ \A x \in Procs \ {q} : op'[x] = Idle
    BY StartsQuiet DEF AloneInv
<1>2. InFlight'
    BY <1>1, Settles
<1>. QED
    BY <1>1, <1>2 DEF AloneInv, InFlight

LEMMA Edits ==
    ASSUME AloneInv, Quiet, op' = op, Counted', RowsApart', Backed', BirthrightDone', DynamicDone'
    PROVE  AloneInv'
<1>1. \A x \in Procs : op'[x] = Idle
    BY DEF Quiet, Busy
<1>. QED
    BY <1>1 DEF AloneInv, OneAtATime

-----------------------------------------------------------------------------
(***************************************************************************)
(* What a step leaves as it was: the person and what the policies give,    *)
(* the rows, the dynamic group.                                            *)
(***************************************************************************)
SameSubject == user' = user /\ policy' = policy /\ package' = package /\ role' = role
SameDynamic == user' = user /\ dyn'.status = dyn.status /\ dyn'.mode = dyn.mode /\ dyn'.rule = dyn.rule

\* No row of a policy is new, and what is held stays held.
FewerTagged == \A s \in Tagged(Policies)' : s \in Tagged(Policies) /\ rows'[s].source = rows[s].source
HoldsOn     == \A t \in Targets : HeldOf(t) # {} => HeldOf(t)' # {}

LEMMA FollowsParts == BirthrightFollows <=> AllRooted /\ (user.status = "ACTIVE" => Covered({}))
BY DEF BirthrightFollows, AllRooted, Rooted, Covered

LEMMA SameRows ==
    ASSUME rows' = rows
    PROVE  /\ Held' = Held /\ FewerTagged /\ HoldsOn /\ DynamicRow' = DynamicRow /\ (RowsApart => RowsApart')
           /\ Tagged(Policies)' = Tagged(Policies)
<1>1. Held' = Held
    BY DEF Held
<1>2. Tagged(Policies)' = Tagged(Policies) /\ DynamicRow' = DynamicRow
    BY <1>1 DEF Tagged, DynamicRow
<1>3. HoldsOn
    BY <1>1 DEF HoldsOn, HeldOf
<1>. QED
    BY <1>1, <1>2, <1>3 DEF FewerTagged, RowsApart

LEMMA RootedStays ==
    ASSUME SameSubject, NEW s, rows'[s].source = rows[s].source, Rooted(s)
    PROVE  Rooted(s)'
BY DEF SameSubject, Rooted

LEMMA AllRootedStays == ASSUME SameSubject, FewerTagged, AllRooted PROVE AllRooted'
BY RootedStays DEF AllRooted, FewerTagged

LEMMA CoveredStays ==
    ASSUME TypeOK, SameSubject, HoldsOn, NEW S, Covered(S)
    PROVE  Covered(S)'
<1>1. \A p : Given(p)' = Given(p)
    BY DEF SameSubject, Given
<1>2. SUFFICES ASSUME NEW p \in Policies, Applies(policy, p, user.dept)', NEW t \in Given(p)
               PROVE  HeldOf(t)' # {} \/ \E x \in S : x.target = t
    BY <1>1 DEF Covered
<1>3. Applies(policy, p, user.dept)
    BY <1>2 DEF SameSubject
<1>4. t \in Targets
    BY <1>2, GivenTargets
<1>. QED
    BY <1>2, <1>3, <1>4 DEF Covered, HoldsOn

LEMMA BirthrightStays ==
    ASSUME TypeOK, SameSubject, FewerTagged, HoldsOn, BirthrightFollows
    PROVE  BirthrightFollows'
<1>1. AllRooted'
    BY AllRootedStays, FollowsParts
<1>2. user'.status = "ACTIVE" => Covered({})'
    BY CoveredStays, FollowsParts DEF SameSubject
<1>. QED
    BY <1>1, <1>2 DEF BirthrightFollows, AllRooted, Rooted, Covered

LEMMA BirthrightOnwards ==
    ASSUME TypeOK, SameSubject, FewerTagged, HoldsOn, BirthrightDone, "birthright" \notin stale' => "birthright" \notin stale
    PROVE  BirthrightDone'
BY BirthrightStays DEF BirthrightDone

LEMMA DynamicStays ==
    ASSUME SameDynamic, DynamicRow' = DynamicRow, DynamicFollows
    PROVE  DynamicFollows'
BY DEF SameDynamic, DynamicFollows

LEMMA DynamicOnwards ==
    ASSUME SameDynamic, DynamicRow' = DynamicRow, DynamicDone, "dynamic" \notin stale' => "dynamic" \notin stale
    PROVE  DynamicDone'
BY DynamicStays DEF DynamicDone

LEMMA BackedStays ==
    ASSUME Backed, rows' = rows, access' \subseteq access, faults'["refused"] = 0 => faults["refused"] = 0
    PROVE  Backed'
BY SameRows DEF Backed, HeldOf

\* A row for a target of its own, or with no policy behind it.
Adds(r, f)  == /\ r \in Row /\ Unused # {} /\ f = Fresh /\ rows' = [rows EXCEPT ![f] = r]
               /\ r.source \in Policies => HeldOf(r.target) = {}
               /\ r.source = "dynamic" => r.target = Group /\ DynamicRow = {}
Added(r, f) == /\ RowsApart' /\ HoldsOn /\ f \in HeldOf(r.target)' /\ rows'[f] = r
               /\ Held' = Held \cup {f} /\ f \notin Held
               /\ \A s \in Held : rows'[s] = rows[s]
               /\ DynamicRow' = IF r.source = "dynamic" THEN {f} ELSE DynamicRow
               /\ \A s \in Tagged(Policies)' : s = f \/ s \in Tagged(Policies)
               /\ r.source \notin Policies => FewerTagged

LEMMA RowAdded == ASSUME TypeOK, RowsApart, NEW r, NEW f, Adds(r, f) PROVE Added(r, f)
<1>0. /\ r \in Row /\ Unused # {} /\ f = Fresh /\ rows' = [rows EXCEPT ![f] = r]
      /\ r.source \in Policies => HeldOf(r.target) = {}
      /\ r.source = "dynamic" => r.target = Group /\ DynamicRow = {}
    BY DEF Adds
<1>1. /\ f \in Slots /\ f \notin Held /\ Held' = Held \cup {f} /\ rows'[f] = r
      /\ \A s \in Slots : s # f => rows'[s] = rows[s]
    BY <1>0, NewRow
<1>2. \A s \in Held : s \in Slots /\ s # f /\ rows'[s] = rows[s]
    BY <1>1 DEF Held
<1>3. HoldsOn /\ f \in HeldOf(r.target)'
    BY <1>1, <1>2 DEF HoldsOn, HeldOf
<1>4. DynamicRow' = IF r.source = "dynamic" THEN {f} ELSE DynamicRow
    BY <1>0, <1>1, <1>2 DEF DynamicRow, Tagged
<1>5. \A s \in Tagged(Policies)' : (s = f /\ r.source \in Policies) \/ (s \in Tagged(Policies) /\ s # f /\ rows'[s] = rows[s])
    BY <1>1, <1>2 DEF Tagged
<1>6. \A s \in DynamicRow : s \in Held /\ rows'[s] = rows[s]
    BY <1>2 DEF DynamicRow, Tagged
<1>7. \A s \in DynamicRow' : rows'[s].target = Group
    BY <1>0, <1>1, <1>4, <1>6 DEF RowsApart
<1>8. \A a, b \in DynamicRow' : a = b
    BY <1>0, <1>4 DEF RowsApart
<1>9. \A a, b \in Tagged(Policies)' : rows'[a].target = rows'[b].target => a = b
  <2>1. r.source \in Policies => \A s \in Tagged(Policies) : rows[s].target # r.target
      BY <1>0 DEF HeldOf, Tagged
  <2>. QED
      BY <1>1, <1>5, <2>1 DEF RowsApart
<1>10. RowsApart'
    BY <1>7, <1>8, <1>9 DEF RowsApart
<1>. QED
    BY <1>1, <1>2, <1>3, <1>4, <1>5, <1>10 DEF Added, FewerTagged

\* Access goes with new rows only.
LEMMA BackedAdded ==
    ASSUME TypeOK, Backed, NEW f, f \notin Held, Held' = Held \cup {f}, \A s \in Held : rows'[s] = rows[s],
           faults'["refused"] = 0 => faults["refused"] = 0,
           access' \subseteq access \cup IF rows'[f].status = "ACTIVE" THEN {rows'[f].target} ELSE {}
    PROVE  Backed'
<1>1. SUFFICES ASSUME faults'["refused"] = 0, NEW t \in access' PROVE \E s \in HeldOf(t)' : rows'[s].status = "ACTIVE"
    BY DEF Backed
<1>2. CASE t \in access
  <2>1. PICK s \in HeldOf(t) : rows[s].status = "ACTIVE"
      BY <1>1, <1>2 DEF Backed
  <2>. QED
      BY <2>1 DEF HeldOf
<1>3. CASE t \notin access
    BY <1>1, <1>3 DEF HeldOf
<1>. QED
    BY <1>2, <1>3

\* A row taken away, with the access it stood for.
LEMMA RowFreed ==
    ASSUME TypeOK, RowsApart, Backed, NEW f \in Slots, rows[f] # Free, rows' = [rows EXCEPT ![f] = Free],
           faults'["refused"] = 0 => faults["refused"] = 0, access' = IF rows[f].status = "ACTIVE" THEN access \ {rows[f].target} ELSE access
    PROVE  /\ RowsApart' /\ Backed' /\ FewerTagged /\ f \in Held /\ Held' = Held \ {f}
           /\ \A s \in Slots : s # f => rows'[s] = rows[s]
           /\ DynamicRow' = DynamicRow \ {f} /\ Tagged(Policies)' = Tagged(Policies) \ {f}
<1>1. /\ Held' = Held \ {f} /\ \A s \in Slots : s # f => rows'[s] = rows[s]
    BY FreedRow
<1>2. f \in Held /\ \A s \in Held \ {f} : rows'[s] = rows[s]
    BY <1>1 DEF Held
<1>3. DynamicRow' = DynamicRow \ {f} /\ Tagged(Policies)' = Tagged(Policies) \ {f}
    BY <1>1, <1>2 DEF DynamicRow, Tagged
<1>4. FewerTagged
    BY <1>2, <1>3 DEF FewerTagged, Tagged
<1>5. RowsApart'
    BY <1>2, <1>3 DEF RowsApart, DynamicRow, Tagged
<1>6. ASSUME faults'["refused"] = 0, NEW t \in access' PROVE \E s \in HeldOf(t)' : rows'[s].status = "ACTIVE"
  <2>1. PICK s \in HeldOf(t) : rows[s].status = "ACTIVE"
      BY <1>6 DEF Backed
  <2>2. s # f
      BY <1>6, <2>1 DEF HeldOf
  <2>. QED
      BY <1>1, <1>2, <2>1, <2>2 DEF HeldOf
<1>7. Backed'
    BY <1>6 DEF Backed
<1>. QED
    BY <1>1, <1>2, <1>3, <1>4, <1>5, <1>7

-----------------------------------------------------------------------------
(***************************************************************************)
(* The steps of the birthright part.                                       *)
(***************************************************************************)
LEMMA CountedStays ==
    ASSUME Counted, edits' = edits \/ Edited, faults' = faults \/ Count("refused") \/ Count("crash")
    PROVE  /\ Counted' /\ (faults'["refused"] = 0 => faults["refused"] = 0)
           /\ (Count("refused") => faults'["refused"] # 0)
<1>1. faults \in [Faults -> Nat] /\ {"refused", "crash"} = Faults /\ edits \in Nat
    BY DEF Counted, Faults
<1>2. edits' \in Nat
    BY <1>1 DEF Edited
<1>. QED
    BY <1>1, <1>2 DEF Count, Counted

LEMMA FlightOf ==
    ASSUME TypeOK, AloneInv, NEW q \in Procs, NEW o \in Handler, o = op[q]
    PROVE  /\ Flight(o) /\ op[q] # Idle /\ RowsApart /\ Backed /\ Counted
           /\ o.kind \in Kinds
BY HandlerShape DEF AloneInv

LEMMA ReadsOn ==
    ASSUME NEW o, NEW h, Same(h, o), Reads(o), user' = user, policy' = policy, dyn'.mode = dyn.mode, MovesStay
    PROVE  Reads(h)'
BY DEF Reads, Same, MovesStay

LEMMA FollowingOn ==
    ASSUME NEW o, NEW h, Same(h, o), Following(o), SameDynamic, DynamicRow' = DynamicRow,
           "dynamic" \notin stale' => "dynamic" \notin stale, h.phase # "settle"
    PROVE  Following(h)'
<1>1. DynamicDone => DynamicDone'
    BY DynamicOnwards
<1>. QED
    BY <1>1 DEF Following, Same, PerUser, SameDynamic

LEMMA ReconcileAlone == ASSUME TypeOK, AloneInv, Paced, NEW q \in Procs, Reconcile(q) PROVE AloneInv'
<1>1. PICK o, h : o = op[q] /\ h = op'[q]
    OBVIOUS
<1>2. /\ o \in Handler /\ Same(h, o) /\ op' = [op EXCEPT ![q] = h]
      /\ o.phase = "reconcile" /\ h.phase = "revoke" /\ h.failed = o.failed /\ h.chosen = o.chosen
      /\ h.revoke = {[slot |-> s, status |-> rows[s].status] : s \in Unfounded(o)}
    BY <1>1, ReconcileCall
<1>3. Flight(o) /\ op[q] # Idle /\ RowsApart /\ Backed /\ Counted /\ o.kind \in Kinds /\ h \in Handler
    BY <1>1, <1>2, FlightOf DEF Same
<1>4. UNCHANGED <<user, policy, tagged, package, role, rows, access, dyn, moves, clock, edits, faults, stale>>
    BY DEF Reconcile
<1>5. DynamicRow' = DynamicRow /\ RowsApart' /\ Backed' /\ Counted' /\ Tagged(Policies)' = Tagged(Policies)
    BY <1>3, <1>4, SameRows, BackedStays DEF Counted
<1>6. Reads(h)'
    BY <1>2, <1>3, <1>4, ReadsOn DEF Flight, MovesStay
<1>7. o.kind \notin {"evaluate", "rule", "mode"} /\ o.chosen = {}
    BY <1>2, <1>3 DEF Flight, Course
<1>8. Course(h)'
    BY <1>2, <1>3, <1>7 DEF Course, Same, Kinds
<1>9. Revoking(h)'
  <2>1. ASSUME NEW r \in h.revoke PROVE rows[r.slot] # Free /\ rows[r.slot].status = r.status /\ rows[r.slot].source \in Policies
    <3>1. PICK s \in Unfounded(o) : r = [slot |-> s, status |-> rows[s].status]
        BY <1>2, <2>1
    <3>2. s \in Held /\ rows[s].source \in Policies
        BY DEF Unfounded, Tagged
    <3>. QED
        BY <3>1, <3>2 DEF Held
  <2>2. ASSUME NEW s \in Tagged(Policies) PROVE Rooted(s) \/ \E r \in h.revoke : r.slot = s
    <3>1. CASE s \in Unfounded(o)
      <4>1. PICK r : r = [slot |-> s, status |-> rows[s].status]
          OBVIOUS
      <4>2. r \in h.revoke /\ r.slot = s
          BY <1>2, <3>1, <4>1
      <4>. QED
          BY <4>2
    <3>2. CASE s \notin Unfounded(o)
      <4>1. PICK p : p = rows[s].source
          OBVIOUS
      <4>2. o.table = policy /\ o.user = user
          BY <1>3 DEF Flight, Reads
      <4>3. ~(~Applies(policy, p, user.dept) /\ (policy[p] = Absent \/ ~policy[p].sticky))
          BY <2>2, <3>2, <4>1, <4>2 DEF Unfounded
      <4>. QED
          BY <4>1, <4>3 DEF Rooted
    <3>. QED
        BY <3>1, <3>2
  <2>3. \A s : Rooted(s) => Rooted(s)'
      BY <1>4, RootedStays DEF SameSubject
  <2>. QED
      BY <1>4, <1>5, <2>1, <2>2, <2>3 DEF Revoking
<1>10. Granting(h)'
    BY <1>2, <1>7 DEF Granting, Same
<1>11. Following(h)'
    BY <1>2, <1>3, <1>4, <1>5, FollowingOn DEF Flight, SameDynamic
<1>. QED
    BY <1>2, <1>3, <1>5, <1>6, <1>8, <1>9, <1>10, <1>11, GoesOn DEF Flight

LEMMA RevokeAlone == ASSUME TypeOK, AloneInv, Paced, NEW q \in Procs, RevokeOne(q) PROVE AloneInv'
<1>1. PICK o, h : o = op[q] /\ h = op'[q]
    OBVIOUS
<1>2. /\ o \in Handler /\ Same(h, o) /\ op' = [op EXCEPT ![q] = h] /\ o.phase = "revoke" /\ h.phase = "revoke"
      /\ \E r \in o.revoke, ok \in BOOLEAN :
           /\ r \in Reading /\ (ok \/ r.status = "ACTIVE") /\ Works(ok)
           /\ IF ok THEN /\ access' = IF r.status = "ACTIVE" /\ rows[r.slot] # Free THEN access \ {rows[r.slot].target}
                                                                                   ELSE access
                         /\ rows' = [rows EXCEPT ![r.slot] = Free]
                    ELSE rows' = rows /\ access' = access
           /\ h.revoke = o.revoke \ {r} /\ h.failed = (o.failed \/ ~ok) /\ h.chosen = o.chosen
    BY <1>1, RevokeCall
<1>3. Flight(o) /\ op[q] # Idle /\ RowsApart /\ Backed /\ Counted /\ o.kind \in Kinds /\ h \in Handler
    BY <1>1, <1>2, FlightOf DEF Same
<1>4. PICK r \in o.revoke, ok \in BOOLEAN :
        /\ r \in Reading /\ Works(ok)
        /\ IF ok THEN /\ access' = IF r.status = "ACTIVE" /\ rows[r.slot] # Free THEN access \ {rows[r.slot].target}
                                                                                ELSE access
                      /\ rows' = [rows EXCEPT ![r.slot] = Free]
                 ELSE rows' = rows /\ access' = access
        /\ h.revoke = o.revoke \ {r} /\ h.failed = (o.failed \/ ~ok) /\ h.chosen = o.chosen
    BY <1>2
<1>5. UNCHANGED <<user, policy, tagged, package, role, dyn, moves, clock, edits, stale>>
    BY DEF RevokeOne
<1>6. Counted' /\ (faults'["refused"] = 0 => faults["refused"] = 0) /\ (~ok => faults'["refused"] # 0)
  <2>1. (faults' = faults \/ Count("refused")) /\ (~ok => Count("refused"))
      BY <1>4 DEF Works
  <2>. QED
      BY <1>3, <1>5, <2>1, CountedStays
<1>7. r.slot \in Slots /\ rows[r.slot] # Free /\ rows[r.slot].status = r.status /\ rows[r.slot].source \in Policies
  <2>1. \A x \in o.revoke : rows[x.slot] # Free /\ rows[x.slot].status = x.status /\ rows[x.slot].source \in Policies
      BY <1>2, <1>3 DEF Flight, Revoking
  <2>. QED
      BY <1>4, <2>1 DEF Reading
<1>8. "dynamic" \notin Policies
    BY ConstantsAssumption
<1>9. /\ RowsApart' /\ Backed' /\ DynamicRow' = DynamicRow
      /\ \A s \in Slots : ~ok \/ s # r.slot => rows'[s] = rows[s]
      /\ Tagged(Policies)' = IF ok THEN Tagged(Policies) \ {r.slot} ELSE Tagged(Policies)
  <2>1. CASE ok
    <3>1. access' = IF rows[r.slot].status = "ACTIVE" THEN access \ {rows[r.slot].target} ELSE access
        BY <1>4, <1>7, <2>1
    <3>2. r.slot \notin DynamicRow
        BY <1>7, <1>8 DEF DynamicRow, Tagged
    <3>3. PICK f \in Slots : f = r.slot
        BY <1>7
    <3>4. /\ rows[f] # Free /\ rows' = [rows EXCEPT ![f] = Free]
          /\ access' = IF rows[f].status = "ACTIVE" THEN access \ {rows[f].target} ELSE access
        BY <1>4, <1>7, <2>1, <3>1, <3>3
    <3>5. /\ RowsApart' /\ Backed' /\ \A s \in Slots : s # f => rows'[s] = rows[s]
          /\ DynamicRow' = DynamicRow \ {f} /\ Tagged(Policies)' = Tagged(Policies) \ {f}
        BY <1>3, <1>6, <3>4, RowFreed
    <3>. QED
        BY <2>1, <3>2, <3>3, <3>5
  <2>2. CASE ~ok
      BY <1>3, <1>4, <1>6, <2>2, SameRows DEF Backed
  <2>. QED
      BY <2>1, <2>2
<1>10. Reads(h)'
    BY <1>2, <1>3, <1>5, ReadsOn DEF Flight, MovesStay
<1>11. o.kind \notin {"evaluate", "rule", "mode"} /\ o.chosen = {}
    BY <1>2, <1>3 DEF Flight, Course
<1>12. Course(h)'
    BY <1>2, <1>3, <1>4, <1>11 DEF Course, Same, Kinds
<1>13. Revoking(h)'
  <2>1. ASSUME NEW x \in h.revoke PROVE rows'[x.slot] # Free /\ rows'[x.slot].status = x.status /\ rows'[x.slot].source \in Policies
    <3>1. x \in o.revoke /\ x # r /\ x \in Reading
        BY <1>2, <1>4, HandlerShape
    <3>2. rows[x.slot] # Free /\ rows[x.slot].status = x.status /\ rows[x.slot].source \in Policies
        BY <1>2, <1>3, <3>1 DEF Flight, Revoking
    <3>3. x.slot # r.slot
        BY <1>4, <1>7, <3>1, <3>2 DEF Reading
    <3>4. x.slot \in Slots
        BY <3>1 DEF Reading
    <3>. QED
        BY <1>9, <3>2, <3>3, <3>4
  <2>2. ASSUME ~h.failed, NEW s \in Tagged(Policies)' PROVE Rooted(s)' \/ \E x \in h.revoke : x.slot = s
    <3>1. ~o.failed /\ ok
        BY <1>4, <2>2
    <3>2. s \in Tagged(Policies) /\ s # r.slot /\ s \in Slots
        BY <1>9, <2>2, <3>1 DEF Tagged, Held
    <3>3. Rooted(s) \/ \E x \in o.revoke : x.slot = s
        BY <1>2, <1>3, <3>1, <3>2 DEF Flight, Revoking
    <3>4. Rooted(s) => Rooted(s)'
        BY <1>5, <1>9, <3>2, RootedStays DEF SameSubject
    <3>. QED
        BY <1>4, <3>2, <3>3, <3>4
  <2>. QED
      BY <2>1, <2>2 DEF Revoking
<1>14. Granting(h)'
    BY <1>2, <1>11 DEF Granting, Same
<1>15. Following(h)'
    BY <1>2, <1>3, <1>5, <1>9, FollowingOn DEF Flight, SameDynamic
<1>. QED
    BY <1>2, <1>3, <1>6, <1>9, <1>10, <1>12, <1>13, <1>14, <1>15, GoesOn DEF Flight

\* Nothing changes but the handler, and what is known to be up to date.
OnlyHandler == UNCHANGED <<user, policy, tagged, package, role, rows, access, dyn, moves, edits, faults>>

LEMMA OnlyHandlerStays ==
    ASSUME TypeOK, AloneInv, OnlyHandler
    PROVE  /\ SameSubject /\ SameDynamic /\ MovesStay /\ FewerTagged /\ HoldsOn /\ DynamicRow' = DynamicRow
           /\ RowsApart' /\ Backed' /\ Counted' /\ (BirthrightFollows => BirthrightFollows') /\ (AllRooted => AllRooted')
           /\ \A t : HeldOf(t)' = HeldOf(t)
<1>1. UNCHANGED <<user, policy, tagged, package, role, rows, access, dyn, moves, edits, faults>>
    BY DEF OnlyHandler
<1>2. SameSubject /\ SameDynamic /\ MovesStay
    BY <1>1 DEF SameSubject, SameDynamic, MovesStay
<1>3. FewerTagged /\ HoldsOn /\ DynamicRow' = DynamicRow /\ RowsApart' /\ Held' = Held
    BY <1>1, SameRows DEF AloneInv
<1>4. Backed'
    BY <1>1, BackedStays DEF AloneInv
<1>5. Counted'
    BY <1>1 DEF AloneInv, Counted
<1>6. BirthrightFollows => BirthrightFollows'
    BY <1>2, <1>3, BirthrightStays
<1>7. AllRooted => AllRooted'
    BY <1>2, <1>3, AllRootedStays
<1>8. \A t : HeldOf(t)' = HeldOf(t)
    BY <1>1, <1>3 DEF HeldOf
<1>. QED
    BY <1>2, <1>3, <1>4, <1>5, <1>6, <1>7, <1>8

\* The birthright part is over: what policies gave and give is right, or known not to be.
LEMMA LeavesAlone ==
    ASSUME TypeOK, AloneInv, Paced, NEW q \in Procs, NEW o \in Handler, o = op[q], NEW h, op' = [op EXCEPT ![q] = h],
           IF PerUser(o) THEN Same(h, o) /\ h.phase = "ensure" ELSE h = Idle,
           stale' = Settled(o), OnlyHandler, o.phase \in {"revoke", "grant"},
           o.kind # "evaluate" /\ ~o.failed => BirthrightFollows
    PROVE  AloneInv'
<1>1. Flight(o) /\ op[q] # Idle /\ RowsApart /\ Backed /\ Counted /\ o.kind \in Kinds
    BY FlightOf
<1>2. UNCHANGED <<user, policy, rows, dyn, moves>>
    BY DEF OnlyHandler
<1>3. /\ SameSubject /\ SameDynamic /\ MovesStay /\ DynamicRow' = DynamicRow
      /\ RowsApart' /\ Backed' /\ Counted' /\ (BirthrightFollows => BirthrightFollows')
    BY OnlyHandlerStays
<1>4. BirthrightDone'
    BY <1>1, <1>3 DEF BirthrightDone, Settled, Flight, Granting
<1>5. "dynamic" \notin stale' => "dynamic" \notin stale
    BY DEF Settled
<1>6. o.kind \notin {"rule", "mode"}
    BY <1>1 DEF Flight, Course
<1>7. CASE PerUser(o)
  <2>1. Reads(h)'
      BY <1>1, <1>2, <1>3, <1>7, ReadsOn DEF Flight
  <2>2. Course(h)'
      BY <1>7 DEF Course, Same, PerUser
  <2>3. Revoking(h)' /\ Granting(h)'
      BY <1>4, <1>7 DEF Revoking, Granting
  <2>4. Following(h)'
      BY <1>1, <1>3, <1>5, <1>7, FollowingOn DEF Flight
  <2>. QED
      BY <1>1, <1>3, <1>7, <2>1, <2>2, <2>3, <2>4, GoesOn DEF Flight, Same
<1>8. CASE ~PerUser(o)
  <2>1. o.kind \in {"policy", "evaluate"}
      BY <1>1, <1>6, <1>8 DEF Kinds, PerUser
  <2>2. DynamicDone'
      BY <1>1, <1>3, <1>5, <2>1, DynamicOnwards DEF Flight, Following
  <2>. QED
      BY <1>1, <1>3, <1>4, <1>8, <2>2, Over
<1>. QED
    BY <1>7, <1>8

LEMMA RevokedAllAlone == ASSUME TypeOK, AloneInv, Paced, NEW q \in Procs, RevokedAll(q) PROVE AloneInv'
<1>1. PICK o, h : o = op[q] /\ h = op'[q]
    OBVIOUS
<1>2. /\ o \in Handler /\ op' = [op EXCEPT ![q] = h] /\ o.phase = "revoke" /\ o.revoke = {}
      /\ IF o.user.status = "DISABLED"
         THEN /\ stale' = Settled(o)
              /\ IF PerUser(o) THEN Same(h, o) /\ h.phase = "ensure" ELSE h = Idle
         ELSE /\ stale' = stale /\ Same(h, o) /\ h.phase = "plan" /\ h.failed = o.failed /\ h.chosen = o.chosen
    BY <1>1, RevokedAllCall
<1>3. Flight(o) /\ op[q] # Idle /\ RowsApart /\ Backed /\ Counted /\ o.kind \in Kinds
    BY <1>1, <1>2, FlightOf
<1>4. OnlyHandler
    BY DEF RevokedAll, OnlyHandler
<1>5. ~o.failed => AllRooted
    BY <1>2, <1>3 DEF Flight, Revoking, AllRooted
<1>6. CASE o.user.status = "DISABLED"
  <2>1. user.status # "ACTIVE"
      BY <1>3, <1>6 DEF Flight, Reads
  <2>2. ~o.failed => BirthrightFollows
      BY <1>5, <2>1, FollowsParts
  <2>. QED
      BY <1>1, <1>2, <1>4, <1>6, <2>2, LeavesAlone
<1>7. CASE o.user.status # "DISABLED"
  <2>1. /\ SameSubject /\ SameDynamic /\ MovesStay /\ DynamicRow' = DynamicRow
        /\ RowsApart' /\ Backed' /\ Counted' /\ (AllRooted => AllRooted')
      BY <1>4, OnlyHandlerStays
  <2>2. stale' = stale /\ Same(h, o) /\ h.phase = "plan" /\ h.failed = o.failed /\ h.chosen = o.chosen
      BY <1>2, <1>7
  <2>3. Reads(h)'
      BY <1>3, <2>1, <2>2, ReadsOn DEF Flight, SameSubject, SameDynamic
  <2>4. o.kind \notin {"evaluate", "rule", "mode"} /\ o.chosen = {}
      BY <1>2, <1>3 DEF Flight, Course
  <2>5. Course(h)'
      BY <2>2, <2>4 DEF Course, Same
  <2>6. Revoking(h)' /\ Granting(h)'
      BY <1>5, <2>1, <2>2, <2>4 DEF Revoking, Granting, Same
  <2>7. Following(h)'
      BY <1>3, <2>1, <2>2, FollowingOn DEF Flight
  <2>. QED
      BY <1>1, <1>2, <1>3, <2>1, <2>2, <2>3, <2>5, <2>6, <2>7, GoesOn DEF Flight, Same
<1>. QED
    BY <1>6, <1>7

\* What is planned: each target of a policy that applies, and nothing else.
LEMMA PlannedRight ==
    ASSUME TypeOK, NEW o \in Handler, o.table = policy, o.user = user
    PROVE  /\ \A x \in Planned(o) : Applies(policy, x.policy, user.dept)
           /\ Covered(Planned(o))
<1>1. \A p \in Policies : Applies(Loaded(o), p, user.dept) <=> Applies(policy, p, user.dept)
  <2>1. SUFFICES ASSUME NEW p \in Policies PROVE Applies(Loaded(o), p, user.dept) <=> Applies(policy, p, user.dept)
      OBVIOUS
  <2>2. Loaded(o)[p] = IF policy[p].status # "ACTIVE" THEN Absent ELSE policy[p]
      BY DEF Loaded
  <2>3. Absent.status # "ACTIVE"
      BY DEF Absent
  <2>. QED
      BY <2>2, <2>3 DEF Applies
<1>2. ASSUME NEW x \in Planned(o) PROVE Applies(policy, x.policy, user.dept)
  <2>1. PICK t \in Targets, p \in {y \in Policies : Applies(Loaded(o), y, o.user.dept)} : x = [target |-> t, policy |-> p]
      BY <1>2 DEF Planned
  <2>. QED
      BY <1>1, <2>1
<1>3. ASSUME NEW p \in Policies, Applies(policy, p, user.dept), NEW t \in Given(p) PROVE \E x \in Planned(o) : x.target = t
  <2>1. t \in Targets
      BY <1>3, GivenTargets
  <2>2. PICK x : x = [target |-> t, policy |-> p]
      OBVIOUS
  <2>3. x \in {[target |-> y, policy |-> z] : y \in Targets, z \in {w \in Policies : Applies(Loaded(o), w, o.user.dept)}}
      BY <1>1, <1>3, <2>1, <2>2
  <2>4. x \in UNION {{[target |-> y, policy |-> z] : y \in Given(z)} : z \in Policies}
      BY <1>3, <2>2
  <2>5. x \in Planned(o)
      BY <2>3, <2>4 DEF Planned
  <2>. QED
      BY <2>2, <2>5
<1>. QED
    BY <1>2, <1>3 DEF Covered

LEMMA PlanAlone == ASSUME TypeOK, AloneInv, Paced, NEW q \in Procs, Plan(q) PROVE AloneInv'
<1>1. PICK o, h : o = op[q] /\ h = op'[q]
    OBVIOUS
<1>2. /\ o \in Handler /\ Same(h, o) /\ op' = [op EXCEPT ![q] = h] /\ o.phase = "plan" /\ h.phase = "grant"
      /\ h.grant = Planned(o) /\ h.chosen = o.chosen /\ h.failed = o.failed
    BY <1>1, PlanCall
<1>3. Flight(o) /\ op[q] # Idle /\ RowsApart /\ Backed /\ Counted /\ o.kind \in Kinds
    BY <1>1, <1>2, FlightOf
<1>4. OnlyHandler /\ stale' = stale
    BY DEF Plan, OnlyHandler
<1>5. /\ SameSubject /\ SameDynamic /\ MovesStay /\ DynamicRow' = DynamicRow /\ HoldsOn
      /\ RowsApart' /\ Backed' /\ Counted' /\ (AllRooted => AllRooted') /\ (BirthrightFollows => BirthrightFollows')
    BY <1>4, OnlyHandlerStays
<1>6. Reads(h)'
    BY <1>2, <1>3, <1>5, ReadsOn DEF Flight, SameSubject, SameDynamic
<1>7. o.chosen = {} /\ o.kind \notin {"rule", "mode"}
    BY <1>2, <1>3 DEF Flight, Course
<1>8. Course(h)'
    BY <1>2, <1>7 DEF Course, Same
<1>9. (\A x \in h.grant : Applies(policy, x.policy, user.dept)) /\ Covered(h.grant)
    BY <1>2, <1>3, PlannedRight DEF Flight, Reads
<1>10. Covered(h.grant)'
    BY <1>5, <1>9, CoveredStays
<1>11. Granting(h)'
  <2>1. o.kind # "evaluate" /\ ~h.failed => AllRooted'
      BY <1>2, <1>3, <1>5 DEF Flight, Granting
  <2>2. o.kind = "evaluate" => BirthrightDone'
      BY <1>3, <1>4, <1>5 DEF Flight, Granting, BirthrightDone
  <2>3. h.grant \cup h.chosen = h.grant
      BY <1>2, <1>7
  <2>4. Covered(h.grant \cup h.chosen)'
      BY <1>10, <2>3
  <2>5. \A x \in h.grant \cup h.chosen : Applies(policy, x.policy, user.dept)'
      BY <1>5, <1>9, <2>3 DEF SameSubject
  <2>. QED
      BY <1>2, <1>7, <2>1, <2>2, <2>4, <2>5 DEF Granting, Same
<1>12. Revoking(h)'
    BY <1>2 DEF Revoking
<1>13. Following(h)'
    BY <1>2, <1>3, <1>4, <1>5, FollowingOn DEF Flight
<1>. QED
    BY <1>1, <1>2, <1>3, <1>5, <1>6, <1>8, <1>11, <1>12, <1>13, GoesOn DEF Flight, Same

LEMMA LookUpAlone == ASSUME TypeOK, AloneInv, Paced, NEW q \in Procs, LookUp(q) PROVE AloneInv'
<1>1. PICK o, h : o = op[q] /\ h = op'[q]
    OBVIOUS
<1>2. /\ o \in Handler /\ Same(h, o) /\ op' = [op EXCEPT ![q] = h] /\ o.phase = "grant" /\ h.phase = "grant"
      /\ o.chosen = {} /\ h.failed = o.failed /\ LooksUp(o, h)
    BY <1>1, LookUpCall
<1>3. Flight(o) /\ op[q] # Idle /\ RowsApart /\ Backed /\ Counted /\ o.kind \in Kinds
    BY <1>1, <1>2, FlightOf
<1>4. PICK x \in o.grant : h.grant = o.grant \ {x} /\ h.chosen = IF HeldOf(x.target) # {} THEN {} ELSE {x}
    BY <1>2 DEF LooksUp
<1>5. OnlyHandler /\ stale' = stale
    BY DEF LookUp, OnlyHandler
<1>6. /\ SameSubject /\ SameDynamic /\ MovesStay /\ DynamicRow' = DynamicRow /\ HoldsOn
      /\ RowsApart' /\ Backed' /\ Counted' /\ (AllRooted => AllRooted') /\ (BirthrightFollows => BirthrightFollows')
      /\ \A t : HeldOf(t)' = HeldOf(t)
    BY <1>5, OnlyHandlerStays
<1>7. Reads(h)'
    BY <1>2, <1>3, <1>6, ReadsOn DEF Flight, SameSubject, SameDynamic
<1>8. Course(h)'
    BY <1>2, <1>3 DEF Course, Same, Flight
<1>9. PICK S : S = h.grant \cup h.chosen
    OBVIOUS
<1>10. S \subseteq o.grant /\ \A y \in o.grant : y \in S \/ HeldOf(y.target) # {}
    BY <1>4, <1>9
<1>11. (\A y \in o.grant : Applies(policy, y.policy, user.dept)) /\ Covered(o.grant)
  <2>1. o.grant \cup o.chosen = o.grant
      BY <1>2
  <2>. QED
      BY <1>2, <1>3, <2>1 DEF Flight, Granting
<1>12. Covered(S)
    BY <1>10, <1>11 DEF Covered
<1>13. Covered(S)'
    BY <1>6, <1>12, CoveredStays
<1>14. Granting(h)'
  <2>1. o.kind # "evaluate" /\ ~h.failed => AllRooted'
      BY <1>2, <1>3, <1>6 DEF Flight, Granting
  <2>2. o.kind = "evaluate" => BirthrightDone'
      BY <1>3, <1>5, <1>6 DEF Flight, Granting, BirthrightDone
  <2>3. Covered(h.grant \cup h.chosen)'
      BY <1>9, <1>13
  <2>4. \A y \in h.grant \cup h.chosen : Applies(policy, y.policy, user.dept)'
      BY <1>6, <1>9, <1>10, <1>11 DEF SameSubject
  <2>5. \A y \in h.chosen : HeldOf(y.target)' = {} /\ h.chosen = {y}
      BY <1>4, <1>6
  <2>. QED
      BY <1>2, <2>1, <2>2, <2>3, <2>4, <2>5 DEF Granting, Same
<1>15. Revoking(h)'
    BY <1>2 DEF Revoking
<1>16. Following(h)'
    BY <1>2, <1>3, <1>5, <1>6, FollowingOn DEF Flight
<1>. QED
    BY <1>1, <1>2, <1>3, <1>6, <1>7, <1>8, <1>14, <1>15, <1>16, GoesOn DEF Flight, Same

LEMMA GrantAlone == ASSUME TypeOK, AloneInv, Paced, NEW q \in Procs, GrantOne(q) PROVE AloneInv'
<1>1. PICK o, h : o = op[q] /\ h = op'[q]
    OBVIOUS
<1>2. /\ o \in Handler /\ op' = [op EXCEPT ![q] = h] /\ o.phase = "grant"
      /\ \E x \in o.chosen :
           /\ x \in Grants
           /\ IF Exists(x.policy)
              THEN /\ Same(h, o) /\ h.phase = "grant" /\ h.grant = o.grant /\ h.chosen = {} /\ h.failed = o.failed
                   /\ Unused # {} /\ rows' = [rows EXCEPT ![Fresh] = RowOf(x)]
                   /\ tagged' = tagged \cup {x.policy} /\ stale' = stale
              ELSE h = Idle /\ stale' = stale \cup {"birthright", "dynamic"} /\ rows' = rows /\ tagged' = tagged
    BY <1>1, GrantCall
<1>3. Flight(o) /\ op[q] # Idle /\ RowsApart /\ Backed /\ Counted /\ o.kind \in Kinds
    BY <1>1, <1>2, FlightOf
<1>4. PICK x \in o.chosen :
        /\ x \in Grants
        /\ IF Exists(x.policy)
           THEN /\ Same(h, o) /\ h.phase = "grant" /\ h.grant = o.grant /\ h.chosen = {} /\ h.failed = o.failed
                /\ Unused # {} /\ rows' = [rows EXCEPT ![Fresh] = RowOf(x)] /\ stale' = stale
           ELSE h = Idle /\ stale' = stale \cup {"birthright", "dynamic"} /\ rows' = rows
    BY <1>2
<1>5. /\ Applies(policy, x.policy, user.dept) /\ HeldOf(x.target) = {} /\ o.chosen = {x}
      /\ \A y \in o.grant : Applies(policy, y.policy, user.dept)
      /\ Covered(o.grant \cup {x})
  <2>1. Granting(o)
      BY <1>3 DEF Flight
  <2>2. HeldOf(x.target) = {} /\ o.chosen = {x}
      BY <1>2, <1>4, <2>1 DEF Granting
  <2>. QED
      BY <1>2, <1>4, <2>1, <2>2 DEF Granting
<1>6. Exists(x.policy)
    BY <1>5 DEF Applies, Exists, Absent
<1>7. UNCHANGED <<user, policy, package, role, access, dyn, moves, clock, edits, faults>>
    BY DEF GrantOne
<1>8. PICK r, f : r = RowOf(x) /\ f = Fresh
    OBVIOUS
<1>9. r \in Row /\ r.source = x.policy /\ r.target = x.target /\ x.policy \in Policies /\ x.target \in Targets
    BY <1>4, <1>8, RowOfTyped DEF RowOf, Grants
<1>10. "dynamic" \notin Policies
    BY ConstantsAssumption
<1>11. Unused # {} /\ rows' = [rows EXCEPT ![f] = r] /\ Same(h, o) /\ stale' = stale
    BY <1>4, <1>6, <1>8
<1>12. r.source # "dynamic"
    BY <1>9, <1>10
<1>13. /\ RowsApart' /\ HoldsOn /\ f \in HeldOf(r.target)' /\ rows'[f] = r
       /\ Held' = Held \cup {f} /\ f \notin Held
       /\ \A s \in Held : rows'[s] = rows[s]
       /\ DynamicRow' = DynamicRow
       /\ \A s \in Tagged(Policies)' : s = f \/ s \in Tagged(Policies)
  <2>1. HeldOf(r.target) = {} /\ (r.source = "dynamic" => r.target = Group /\ DynamicRow = {})
      BY <1>5, <1>9, <1>12
  <2>2. Adds(r, f)
      BY <1>8, <1>9, <1>11, <2>1 DEF Adds
  <2>3. Added(r, f)
      BY <1>3, <2>2, RowAdded
  <2>. QED
      BY <1>12, <2>3 DEF Added
<1>14. SameSubject /\ SameDynamic /\ MovesStay /\ Counted'
    BY <1>3, <1>7 DEF SameSubject, SameDynamic, MovesStay, Counted
<1>15. Backed'
    BY <1>3, <1>7, <1>13, BackedAdded
<1>16. AllRooted => AllRooted'
  <2>1. SUFFICES ASSUME AllRooted, NEW s \in Tagged(Policies)' PROVE Rooted(s)'
      BY DEF AllRooted
  <2>2. CASE s = f
      BY <1>5, <1>7, <1>9, <1>13, <2>2 DEF Rooted
  <2>3. CASE s \in Tagged(Policies)
    <3>1. Rooted(s) /\ rows'[s] = rows[s]
        BY <1>13, <2>1, <2>3 DEF AllRooted, Tagged
    <3>. QED
        BY <1>14, <3>1, RootedStays
  <2>. QED
      BY <1>13, <2>2, <2>3
<1>17. ASSUME NEW S, Covered(S) PROVE Covered(S)'
    BY <1>13, <1>14, <1>17, CoveredStays
<1>18. BirthrightFollows => BirthrightFollows'
  <2>1. SUFFICES ASSUME BirthrightFollows PROVE BirthrightFollows'
      OBVIOUS
  <2>2. AllRooted /\ (user.status = "ACTIVE" => Covered({}))
      BY <2>1, FollowsParts
  <2>3. AllRooted' /\ (user'.status = "ACTIVE" => Covered({})')
      BY <1>7, <1>16, <1>17, <2>2
  <2>. QED
      BY <2>3 DEF BirthrightFollows, AllRooted, Rooted, Covered
<1>19. Reads(h)'
    BY <1>3, <1>7, <1>11, <1>14, ReadsOn DEF Flight
<1>20. h.phase = "grant" /\ h.grant = o.grant /\ h.chosen = {} /\ h.failed = o.failed
    BY <1>4, <1>6
<1>21. Course(h)'
    BY <1>2, <1>3, <1>11, <1>20 DEF Course, Same, Flight
<1>22. Covered(h.grant)'
  <2>1. Covered(o.grant \cup {x})'
      BY <1>5, <1>17
  <2>2. HeldOf(x.target)' # {}
      BY <1>9, <1>13
  <2>. QED
      BY <1>20, <2>1, <2>2 DEF Covered
<1>23. Granting(h)'
  <2>1. h.kind # "evaluate" /\ ~h.failed => AllRooted'
      BY <1>2, <1>3, <1>11, <1>16, <1>20 DEF Flight, Granting, Same
  <2>2. h.kind = "evaluate" => BirthrightDone'
      BY <1>3, <1>11, <1>18 DEF Flight, Granting, BirthrightDone, Same
  <2>3. h.grant \cup h.chosen = h.grant
      BY <1>20
  <2>4. Covered(h.grant \cup h.chosen)'
      BY <1>22, <2>3
  <2>5. \A y \in h.grant \cup h.chosen : Applies(policy, y.policy, user.dept)'
      BY <1>5, <1>7, <1>20, <2>3
  <2>. QED
      BY <1>20, <2>1, <2>2, <2>4, <2>5 DEF Granting
<1>24. Revoking(h)'
    BY <1>20 DEF Revoking
<1>25. Following(h)'
    BY <1>3, <1>11, <1>13, <1>14, <1>20, FollowingOn DEF Flight
<1>. QED
    BY <1>1, <1>2, <1>3, <1>11, <1>13, <1>14, <1>15, <1>19, <1>21, <1>23, <1>24, <1>25, GoesOn DEF Flight, Same

LEMMA GrantedAllAlone == ASSUME TypeOK, AloneInv, Paced, NEW q \in Procs, GrantedAll(q) PROVE AloneInv'
<1>1. PICK o, h : o = op[q] /\ h = op'[q]
    OBVIOUS
<1>2. /\ o \in Handler /\ op' = [op EXCEPT ![q] = h] /\ o.phase = "grant" /\ o.grant = {} /\ o.chosen = {}
      /\ stale' = Settled(o)
      /\ IF PerUser(o) THEN Same(h, o) /\ h.phase = "ensure" ELSE h = Idle
    BY <1>1, GrantedAllCall
<1>3. Flight(o)
    BY <1>1, <1>2, FlightOf
<1>4. OnlyHandler
    BY DEF GrantedAll, OnlyHandler
<1>5. o.grant \cup o.chosen = {}
    BY <1>2
<1>6. Covered({})
    BY <1>2, <1>3, <1>5 DEF Flight, Granting
<1>7. o.kind # "evaluate" /\ ~o.failed => BirthrightFollows
    BY <1>2, <1>3, <1>6, FollowsParts DEF Flight, Granting
<1>. QED
    BY <1>1, <1>2, <1>4, <1>7, LeavesAlone

-----------------------------------------------------------------------------
(***************************************************************************)
(* The steps of the dynamic group, and the settling of a move.             *)
(***************************************************************************)
LEMMA EnsureAlone == ASSUME TypeOK, AloneInv, Paced, NEW q \in Procs, EnsureGroup(q) PROVE AloneInv'
<1>1. PICK o, h : o = op[q] /\ h = op'[q]
    OBVIOUS
<1>2. /\ o \in Handler /\ op' = [op EXCEPT ![q] = h] /\ o.phase = "ensure"
      /\ dyn' = dyn \/ dyn' = [dyn EXCEPT !.real = TRUE]
      /\ faults' = faults \/ Count("refused")
      /\ \/ Same(h, o) /\ h.phase = "dynamic" /\ moves' = moves /\ stale' = stale
         \/ /\ h = Idle /\ dyn' = dyn /\ stale' = stale \cup {"dynamic"}
    BY <1>1, EnsureCall
<1>3. Flight(o) /\ op[q] # Idle /\ RowsApart /\ Backed /\ Counted /\ o.kind \in Kinds /\ BirthrightDone
    BY <1>1, <1>2, FlightOf DEF Flight, Granting
<1>4. UNCHANGED <<user, policy, tagged, package, role, rows, access, clock, edits>>
    BY DEF EnsureGroup
<1>5. Counted' /\ (faults'["refused"] = 0 => faults["refused"] = 0)
    BY <1>2, <1>3, <1>4, CountedStays
<1>6. dyn'.status = dyn.status /\ dyn'.mode = dyn.mode /\ dyn'.rule = dyn.rule
    BY <1>2 DEF TypeOK, Dynamic
<1>7. SameSubject /\ SameDynamic
    BY <1>4, <1>6 DEF SameSubject, SameDynamic
<1>8. FewerTagged /\ HoldsOn /\ DynamicRow' = DynamicRow /\ RowsApart'
    BY <1>3, <1>4, SameRows
<1>9. Backed'
    BY <1>3, <1>4, <1>5, BackedStays
<1>10. BirthrightDone'
    BY <1>2, <1>3, <1>7, <1>8, BirthrightOnwards
<1>11. CASE Same(h, o) /\ h.phase = "dynamic" /\ moves' = moves /\ stale' = stale
  <2>1. Reads(h)'
      BY <1>3, <1>4, <1>6, <1>11, ReadsOn DEF Flight, MovesStay
  <2>2. Course(h)'
      BY <1>2, <1>3, <1>11 DEF Course, Same, Flight
  <2>3. Revoking(h)' /\ Granting(h)'
      BY <1>10, <1>11 DEF Revoking, Granting
  <2>4. Following(h)'
      BY <1>3, <1>7, <1>8, <1>11, FollowingOn DEF Flight
  <2>. QED
      BY <1>1, <1>2, <1>3, <1>5, <1>8, <1>9, <1>11, <2>1, <2>2, <2>3, <2>4, GoesOn DEF Flight, Same
<1>12. CASE h = Idle /\ dyn' = dyn /\ stale' = stale \cup {"dynamic"}
  <2>1. DynamicDone'
      BY <1>12 DEF DynamicDone
  <2>. QED
      BY <1>1, <1>2, <1>3, <1>5, <1>8, <1>9, <1>10, <1>12, <2>1, Over
<1>. QED
    BY <1>2, <1>11, <1>12

LEMMA SettleAlone == ASSUME TypeOK, AloneInv, Paced, NEW q \in Procs, SettleMove(q) PROVE AloneInv'
<1>1. PICK o : o = op[q]
    OBVIOUS
<1>2. o \in Handler /\ op' = [op EXCEPT ![q] = Idle] /\ o.phase = "settle"
    BY <1>1, SettleCall DEF SettleMove, Ends
<1>3. Flight(o) /\ op[q] # Idle /\ RowsApart /\ Backed /\ Counted /\ BirthrightDone /\ DynamicDone
    BY <1>1, <1>2, FlightOf DEF Flight, Granting, Following
<1>4. UNCHANGED <<user, policy, tagged, package, role, rows, access, dyn, clock, edits, faults, stale>>
    BY DEF SettleMove
<1>5. SameSubject /\ SameDynamic /\ Counted'
    BY <1>3, <1>4 DEF SameSubject, SameDynamic, Counted
<1>6. FewerTagged /\ HoldsOn /\ DynamicRow' = DynamicRow /\ RowsApart'
    BY <1>3, <1>4, SameRows
<1>7. Backed'
    BY <1>3, <1>4, BackedStays
<1>8. BirthrightDone' /\ DynamicDone'
    BY <1>3, <1>4, <1>5, <1>6, BirthrightOnwards, DynamicOnwards
<1>. QED
    BY <1>1, <1>2, <1>3, <1>5, <1>6, <1>7, <1>8, Over

\* What a membership update leaves: rows of policies as they were, access with its rows, and
\* the group's row where the rule wants it.
MembershipLeaves(o, ok) ==
    /\ RowsApart' /\ Backed' /\ FewerTagged /\ HoldsOn
    /\ dyn'.status = dyn.status /\ dyn'.rule = dyn.rule
    /\ dyn'.mode \in {dyn.mode, o.mode} /\ (o.kind # "mode" => dyn'.mode = dyn.mode)
    /\ ok => dyn'.mode = o.mode \/ (~Concerned(o) /\ dyn'.mode = dyn.mode)
    /\ ok /\ Concerned(o) => (DynamicRow' # {} <=> Belongs(o))
    /\ ok /\ ~Concerned(o) => DynamicRow' = DynamicRow

LEMMA DynamicTarget ==
    ASSUME TypeOK, RowsApart, NEW s \in DynamicRow
    PROVE  /\ s \in Held /\ s \in Slots /\ rows[s] # Free /\ rows[s].target = Group /\ rows[s].source = "dynamic"
           /\ DynamicRow = {s} /\ s \notin Tagged(Policies) /\ rows[s].status \in {"ELIGIBLE", "ACTIVE"}
<1>1. "dynamic" \notin Policies
    BY ConstantsAssumption
<1>2. s \in Held /\ rows[s].source = "dynamic"
    BY DEF DynamicRow, Tagged
<1>3. s \in Slots /\ rows[s] # Free /\ rows[s].status \in {"ELIGIBLE", "ACTIVE"}
    BY <1>2, RowShape
<1>4. DynamicRow = {s} /\ rows[s].target = Group
    BY DEF RowsApart
<1>. QED
    BY <1>1, <1>2, <1>3, <1>4 DEF Tagged

\* The status of the group's row is written, and its access with it.
LEMMA StatusWritten ==
    ASSUME TypeOK, RowsApart, Backed, NEW s \in DynamicRow, NEW x \in {"ELIGIBLE", "ACTIVE"},
           rows' = [rows EXCEPT ![s].status = x],
           faults'["refused"] = 0 => /\ faults["refused"] = 0
                                     /\ access' \subseteq IF x = "ACTIVE" THEN access \cup {Group} ELSE access \ {Group}
    PROVE  RowsApart' /\ Backed' /\ FewerTagged /\ HoldsOn /\ DynamicRow' = DynamicRow
<1>1. s \in Held /\ rows[s].target = Group /\ DynamicRow = {s}
    BY DynamicTarget
<1>2. /\ Held' = Held /\ rows'[s].status = x
      /\ \A y \in Slots : y # s => rows'[y] = rows[y]
      /\ \A y \in Held : rows'[y].target = rows[y].target /\ rows'[y].source = rows[y].source
    BY <1>1, StatusRow
<1>3. DynamicRow' = DynamicRow /\ Tagged(Policies)' = Tagged(Policies)
    BY <1>2 DEF DynamicRow, Tagged
<1>4. \A t : HeldOf(t)' = HeldOf(t)
    BY <1>2 DEF HeldOf
<1>5. FewerTagged /\ HoldsOn
    BY <1>2, <1>3, <1>4 DEF FewerTagged, HoldsOn, Tagged
<1>6. RowsApart'
    BY <1>2, <1>3 DEF RowsApart, DynamicRow, Tagged
<1>7. ASSUME faults'["refused"] = 0, NEW t \in access' PROVE \E y \in HeldOf(t)' : rows'[y].status = "ACTIVE"
  <2>1. CASE t = Group
    <3>1. x = "ACTIVE" /\ s \in HeldOf(t)
        BY <1>1, <1>7, <2>1 DEF HeldOf
    <3>. QED
        BY <1>2, <1>4, <3>1
  <2>2. CASE t # Group
    <3>1. t \in access /\ faults["refused"] = 0
        BY <1>7, <2>2
    <3>2. PICK y \in HeldOf(t) : rows[y].status = "ACTIVE"
        BY <3>1 DEF Backed
    <3>3. y # s /\ y \in Slots
        BY <1>1, <2>2, <3>2 DEF HeldOf, Held
    <3>. QED
        BY <1>2, <1>4, <3>2, <3>3
  <2>. QED
      BY <2>1, <2>2
<1>8. Backed'
    BY <1>7 DEF Backed
<1>. QED
    BY <1>3, <1>5, <1>6, <1>8

LEMMA MembershipEffect ==
    ASSUME TypeOK, RowsApart, Backed, NEW o \in Handler, NEW ok \in BOOLEAN, Membership(o, ok),
           o.kind # "mode" => o.mode = dyn.mode,
           faults'["refused"] = 0 => ok /\ faults["refused"] = 0
    PROVE  MembershipLeaves(o, ok)
<1>1. PICK c : c = Commits(o)
    OBVIOUS
<1>2. c.status = dyn.status /\ c.rule = dyn.rule /\ c.mode = IF o.kind = "mode" THEN o.mode ELSE dyn.mode
    BY <1>1, CommitsFields
<1>3. c.mode = o.mode
    BY <1>2
<1>4. Group \notin Targets /\ "dynamic" \notin Policies
    BY ConstantsAssumption
<1>5. CASE Unmoved(o, ok)
  <2>1. dyn' = c /\ rows' = rows /\ access' = access /\ ok /\ (Concerned(o) => (DynamicRow # {} <=> Belongs(o)))
      BY <1>1, <1>5 DEF Unmoved
  <2>2. FewerTagged /\ HoldsOn /\ DynamicRow' = DynamicRow /\ RowsApart' /\ Backed'
      BY <2>1, SameRows, BackedStays
  <2>. QED
      BY <1>2, <1>3, <2>1, <2>2 DEF MembershipLeaves
<1>6. CASE Joined(o)
  <2>1. PICK r, f : r = Member(o) /\ f = Fresh
      OBVIOUS
  <2>2. r \in Row /\ r.target = Group /\ r.source = "dynamic" /\ r.status = o.mode
      BY <1>6, <2>1 DEF Joined, Member, Row, Sources
  <2>3. Adds(r, f)
      BY <1>4, <1>6, <2>1, <2>2 DEF Joined, Adds
  <2>4. Added(r, f)
      BY <2>3, RowAdded
  <2>5. access' \subseteq access \cup IF rows'[f].status = "ACTIVE" THEN {rows'[f].target} ELSE {}
      BY <1>6, <2>2, <2>4 DEF Joined, Added
  <2>6. Backed'
      BY <2>4, <2>5, BackedAdded DEF Added
  <2>7. dyn' = c /\ Concerned(o) /\ Belongs(o)
      BY <1>1, <1>6 DEF Joined
  <2>8. DynamicRow' = {f} /\ RowsApart' /\ HoldsOn /\ FewerTagged
      BY <1>4, <2>2, <2>4 DEF Added
  <2>. QED
      BY <1>2, <1>3, <2>6, <2>7, <2>8 DEF MembershipLeaves
<1>7. CASE Refused(o, ok)
  <2>1. ~ok /\ rows' = rows /\ access' = access /\ dyn' \in {dyn, c}
      BY <1>1, <1>7 DEF Refused
  <2>2. FewerTagged /\ HoldsOn /\ RowsApart'
      BY <2>1, SameRows
  <2>3. Backed'
      BY <2>1 DEF Backed
  <2>. QED
      BY <1>2, <1>3, <2>1, <2>2, <2>3 DEF MembershipLeaves
<1>8. ASSUME NEW s \in DynamicRow, Promoted(o, s) \/ Demoted(o, s, ok) PROVE MembershipLeaves(o, ok)
  <2>1. PICK x \in {"ELIGIBLE", "ACTIVE"} :
          /\ rows' = [rows EXCEPT ![s].status = x] /\ dyn' = c /\ Concerned(o) /\ Belongs(o)
          /\ ok => access' \subseteq IF x = "ACTIVE" THEN access \cup {Group} ELSE access \ {Group}
      BY <1>1, <1>8 DEF Promoted, Demoted
  <2>2. RowsApart' /\ Backed' /\ FewerTagged /\ HoldsOn /\ DynamicRow' = DynamicRow
      BY <2>1, StatusWritten
  <2>. QED
      BY <1>2, <1>3, <2>1, <2>2 DEF MembershipLeaves
<1>9. ASSUME NEW s \in DynamicRow, Expelled(o, s) PROVE MembershipLeaves(o, ok)
  <2>1. /\ Concerned(o) /\ ~Belongs(o) /\ dyn' = c /\ rows' = [rows EXCEPT ![s] = Free]
        /\ access' = IF rows[s].status = "ACTIVE" THEN access \ {Group} ELSE access
      BY <1>1, <1>9 DEF Expelled
  <2>2. s \in Slots /\ rows[s] # Free /\ rows[s].target = Group /\ DynamicRow = {s}
      BY DynamicTarget
  <2>3. /\ RowsApart' /\ Backed' /\ FewerTagged /\ Held' = Held \ {s}
        /\ \A y \in Slots : y # s => rows'[y] = rows[y]
        /\ DynamicRow' = DynamicRow \ {s}
      BY <2>1, <2>2, RowFreed
  <2>4. HoldsOn
      BY <1>4, <2>2, <2>3 DEF HoldsOn, HeldOf, Held
  <2>5. DynamicRow' = {}
      BY <2>2, <2>3
  <2>. QED
      BY <1>2, <1>3, <2>1, <2>3, <2>4, <2>5 DEF MembershipLeaves
<1>10. \/ Unmoved(o, ok) \/ Joined(o) \/ Refused(o, ok)
       \/ \E s \in DynamicRow : Promoted(o, s) \/ Demoted(o, s, ok) \/ Expelled(o, s)
    BY MembershipWays
<1>. QED
    BY <1>5, <1>6, <1>7, <1>8, <1>9, <1>10

LEMMA MembershipAlone == ASSUME TypeOK, AloneInv, Paced, NEW q \in Procs, UpdateMembership(q) PROVE AloneInv'
<1>1. PICK o, h : o = op[q] /\ h = op'[q]
    OBVIOUS
<1>2. /\ o \in Handler /\ op' = [op EXCEPT ![q] = h] /\ o.phase = "dynamic"
      /\ IF o.kind = "move" THEN Same(h, o) /\ h.phase = "settle" ELSE h = Idle
      /\ \E ok \in BOOLEAN :
           /\ Works(ok) /\ Membership(o, ok)
           /\ stale' = IF ~ok THEN stale \cup {"dynamic"} ELSE IF Concerned(o) THEN stale \ {"dynamic"} ELSE stale
    BY <1>1, MembershipCall
<1>3. Flight(o) /\ op[q] # Idle /\ RowsApart /\ Backed /\ Counted /\ o.kind \in Kinds /\ BirthrightDone
    BY <1>1, <1>2, FlightOf DEF Flight, Granting
<1>4. PICK ok \in BOOLEAN :
        /\ Works(ok) /\ Membership(o, ok)
        /\ stale' = IF ~ok THEN stale \cup {"dynamic"} ELSE IF Concerned(o) THEN stale \ {"dynamic"} ELSE stale
    BY <1>2
<1>5. UNCHANGED <<user, policy, tagged, package, role, moves, clock, edits>>
    BY DEF UpdateMembership
<1>6. Counted' /\ (faults'["refused"] = 0 => ok /\ faults["refused"] = 0)
  <2>1. (faults' = faults \/ Count("refused")) /\ (~ok => Count("refused"))
      BY <1>4 DEF Works
  <2>. QED
      BY <1>3, <1>5, <2>1, CountedStays
<1>7. o.user = user /\ (o.kind # "mode" => o.mode = dyn.mode) /\ (o.kind = "mode" => o.mode # "OFF")
    BY <1>3 DEF Flight, Reads
<1>8. MembershipLeaves(o, ok)
    BY <1>2, <1>3, <1>4, <1>6, <1>7, MembershipEffect
<1>9. /\ RowsApart' /\ Backed' /\ FewerTagged /\ HoldsOn
      /\ dyn'.status = dyn.status /\ dyn'.rule = dyn.rule /\ (o.kind # "mode" => dyn'.mode = dyn.mode)
    BY <1>8 DEF MembershipLeaves
<1>10. SameSubject
    BY <1>5 DEF SameSubject
<1>11. BirthrightDone'
    BY <1>3, <1>4, <1>9, <1>10, BirthrightOnwards
<1>12. DynamicDone'
  <2>1. CASE ~ok
      BY <1>4, <2>1 DEF DynamicDone
  <2>2. CASE ok /\ Concerned(o)
    <3>1. dyn'.mode = o.mode /\ (DynamicRow' # {} <=> Belongs(o))
        BY <1>8, <2>2 DEF MembershipLeaves
    <3>2. DynamicFollows'
        BY <1>5, <1>7, <1>9, <3>1 DEF DynamicFollows, Belongs
    <3>. QED
        BY <3>2 DEF DynamicDone
  <2>3. CASE ok /\ ~Concerned(o)
    <3>1. DynamicRow' = DynamicRow /\ stale' = stale
        BY <1>4, <1>8, <2>3 DEF MembershipLeaves
    <3>2. CASE dyn.status = "NONE" \/ o.mode = "OFF"
        BY <1>7, <1>9, <3>2 DEF DynamicDone, DynamicFollows
    <3>3. CASE PerUser(o) /\ dyn.status # "ACTIVE"
      <4>1. DynamicDone /\ o.kind # "mode"
          BY <1>3, <3>3 DEF Flight, Following, PerUser
      <4>2. SameDynamic
          BY <1>5, <1>9, <4>1 DEF SameDynamic
      <4>. QED
          BY <3>1, <4>1, <4>2, DynamicOnwards
    <3>. QED
        BY <2>3, <3>2, <3>3 DEF Concerned
  <2>. QED
      BY <2>1, <2>2, <2>3
<1>13. CASE o.kind = "move"
  <2>1. Same(h, o) /\ h.phase = "settle"
      BY <1>2, <1>13
  <2>2. Reads(h)'
      BY <1>3, <1>5, <1>9, <1>13, <2>1, ReadsOn DEF Flight, MovesStay
  <2>3. Course(h)'
      BY <1>13, <2>1 DEF Course, Same
  <2>4. Revoking(h)' /\ Granting(h)' /\ Following(h)'
      BY <1>11, <1>12, <2>1 DEF Revoking, Granting, Following
  <2>. QED
      BY <1>1, <1>2, <1>3, <1>6, <1>9, <2>1, <2>2, <2>3, <2>4, GoesOn DEF Flight, Same
<1>14. CASE o.kind # "move"
    BY <1>1, <1>2, <1>3, <1>6, <1>9, <1>11, <1>12, <1>14, Over
<1>. QED
    BY <1>13, <1>14

LEMMA ContinueAlone == ASSUME TypeOK, AloneInv, Paced, NEW q \in Procs, Continue(q) PROVE AloneInv'
BY ReconcileAlone, RevokeAlone, RevokedAllAlone, PlanAlone, LookUpAlone, GrantAlone, GrantedAllAlone,
   EnsureAlone, MembershipAlone, SettleAlone DEF Continue

-----------------------------------------------------------------------------
(***************************************************************************)
(* Handlers that start, with nothing else under way.                       *)
(***************************************************************************)
\* A start changes no row.
LEMMA StartStays ==
    ASSUME TypeOK, AloneInv, UNCHANGED <<rows, access, faults, stale>>, edits' = edits \/ Edited
    PROVE  /\ RowsApart' /\ Backed' /\ Counted' /\ FewerTagged /\ HoldsOn /\ DynamicRow' = DynamicRow
<1>1. RowsApart /\ Backed /\ Counted
    BY DEF AloneInv
<1>2. RowsApart' /\ FewerTagged /\ HoldsOn /\ DynamicRow' = DynamicRow
    BY <1>1, SameRows
<1>. QED
    BY <1>1, <1>2, BackedStays, CountedStays

\* The person has changed: all is still to be done.
LEMMA ChangeAlone ==
    ASSUME TypeOK, AloneInv, Paced, NEW q \in Procs, NEW h, NEW kind \in {"edit", "sync", "move"}, Begins(q, h, kind, "reconcile"),
           h.mode = dyn.mode, UNCHANGED <<policy, tagged, package, role, rows, access, dyn, moves, faults, stale>>,
           edits' = edits \/ Edited, kind = "move" => h.move \in DOMAIN moves /\ user'.dept = moves[h.move].dept
    PROVE  AloneInv'
<1>1. Quiet
    BY StartsQuiet DEF AloneInv
<1>2. /\ h \in Handler /\ h.kind = kind /\ h.phase = "reconcile" /\ h.user = user' /\ h.table = policy'
      /\ h.revoke = {} /\ h.grant = {} /\ h.chosen = {}
    BY DEF Begins
<1>3. RowsApart' /\ Backed' /\ Counted' /\ DynamicRow' = DynamicRow
    BY StartStays
<1>4. Reads(h)'
    BY <1>2 DEF Reads
<1>5. Course(h)' /\ Revoking(h)' /\ Granting(h)'
    BY <1>2 DEF Course, Revoking, Granting
<1>6. dyn.status # "ACTIVE" => DynamicDone'
    BY <1>1, <1>3 DEF AloneInv, DynamicDone, DynamicFollows
<1>7. Following(h)'
    BY <1>2, <1>6 DEF Following, PerUser
<1>. QED
    BY <1>3, <1>4, <1>5, <1>7, Starts DEF Flight

LEMMA EditAlone == ASSUME TypeOK, AloneInv, Paced, NEW q \in Requests, EditDepartment(q) \/ SyncPerson(q) PROVE AloneInv'
<1>1. q \in Procs
    BY DEF Procs
<1>2. PICK h, kind : kind \in {"edit", "sync"} /\ Begins(q, h, kind, "reconcile") /\ h.mode = dyn.mode
    BY EditBegins, SyncBegins
<1>3. UNCHANGED <<policy, tagged, package, role, rows, access, dyn, moves, faults, stale>> /\ Edited
    BY DEF EditDepartment, SyncPerson
<1>. QED
    BY <1>1, <1>2, <1>3, ChangeAlone

\* A step that changes nothing but moves, the clock and the count of faults.
LEMMA Stands ==
    ASSUME TypeOK, AloneInv, UNCHANGED <<user, policy, package, role, rows, access, dyn, op, stale>>, Counted', MovesStay,
           faults'["refused"] = 0 => faults["refused"] = 0
    PROVE  AloneInv'
<1>1. SameSubject /\ SameDynamic
    BY DEF SameSubject, SameDynamic
<1>2. RowsApart' /\ Backed' /\ FewerTagged /\ HoldsOn /\ DynamicRow' = DynamicRow
    BY SameRows, BackedStays DEF AloneInv
<1>3. (BirthrightDone => BirthrightDone') /\ (DynamicDone => DynamicDone')
    BY <1>1, <1>2, BirthrightOnwards, DynamicOnwards
<1>4. ASSUME NEW q \in Procs, op[q] # Idle PROVE Flight(op[q])'
  <2>1. PICK o : o = op[q]
      OBVIOUS
  <2>2. Flight(o) /\ o \in Handler
      BY <1>4, <2>1 DEF AloneInv, TypeOK
  <2>3. Reads(o)'
      BY <2>2 DEF Flight, Reads, MovesStay
  <2>4. Tagged(Policies)' = Tagged(Policies) /\ \A t : HeldOf(t)' = HeldOf(t)
      BY SameRows DEF HeldOf
  <2>5. \A s : Rooted(s)' <=> Rooted(s)
      BY DEF Rooted
  <2>6. Revoking(o)'
      BY <2>2, <2>4, <2>5 DEF Flight, Revoking
  <2>7. \A p : Given(p)' = Given(p)
      BY DEF Given
  <2>8. Granting(o)'
    <3>1. AllRooted => AllRooted'
        BY <2>4, <2>5 DEF AllRooted
    <3>2. Covered(o.grant \cup o.chosen) => Covered(o.grant \cup o.chosen)'
        BY <2>4, <2>7 DEF Covered
    <3>. QED
        BY <1>3, <2>2, <2>4, <3>1, <3>2 DEF Flight, Granting
  <2>9. Following(o)'
      BY <1>3, <2>2 DEF Flight, Following
  <2>10. Flight(o)'
      BY <2>2, <2>3, <2>6, <2>8, <2>9 DEF Flight, Course
  <2>11. op'[q] = o
      BY <2>1
  <2>. QED
      BY <2>10, <2>11 DEF Flight, Reads, Course, Revoking, Granting, Following, Covered
<1>5. Quiet' <=> Quiet
    BY DEF Quiet, Busy
<1>. QED
    BY <1>2, <1>3, <1>4, <1>5 DEF AloneInv, OneAtATime

LEMMA ApplyAlone == ASSUME TypeOK, AloneInv, Paced, ApplyMove PROVE AloneInv' 
<1>1. UNCHANGED <<policy, tagged, package, role, rows, access, dyn, clock, edits, stale>> /\ Worker \in Procs
    BY DEF ApplyMove, Procs
<1>2. PICK m \in DOMAIN moves :
        \/ /\ user' = [user EXCEPT !.dept = moves[m].dept] /\ moves' = moves /\ faults' = faults
           /\ \E h : Begins(Worker, h, "move", "reconcile") /\ h.mode = dyn.mode /\ h.move = m
        \/ /\ moves' = [moves EXCEPT ![m].status = "FAILED"] /\ user' = user /\ op' = op /\ Count("refused")
    BY MoveBegins
<1>3. CASE /\ user' = [user EXCEPT !.dept = moves[m].dept] /\ moves' = moves /\ faults' = faults
           /\ \E h : Begins(Worker, h, "move", "reconcile") /\ h.mode = dyn.mode /\ h.move = m
  <2>1. PICK h : Begins(Worker, h, "move", "reconcile") /\ h.mode = dyn.mode /\ h.move = m
      BY <1>3
  <2>2. user'.dept = moves[m].dept
      BY <1>3 DEF TypeOK
  <2>. QED
      BY <1>1, <1>3, <2>1, <2>2, ChangeAlone
<1>4. CASE moves' = [moves EXCEPT ![m].status = "FAILED"] /\ user' = user /\ op' = op /\ Count("refused")
  <2>1. Counted' /\ (faults'["refused"] = 0 => faults["refused"] = 0)
      BY <1>1, <1>4, CountedStays DEF AloneInv
  <2>2. MovesStay
      BY <1>4, MoveWritten DEF TypeOK, MoveStatus, MovesStay
  <2>. QED
      BY <1>1, <1>4, <2>1, <2>2, Stands
<1>. QED
    BY <1>2, <1>3, <1>4

\* The policy is saved, and whom it concerns rechecked.
LEMMA SavedAlone ==
    ASSUME TypeOK, AloneInv, Paced, NEW q \in Procs, q \in Requests, NEW p \in Policies, NEW r \in Policy, Saved(q, p, r)
    PROVE  AloneInv'
<1>1. UNCHANGED <<user, tagged, package, role, rows, access, dyn, moves, clock, faults, stale>> /\ Edited
    BY DEF Saved
<1>2. /\ policy' = [policy EXCEPT ![p] = r]
      /\ IF Candidate(p, r) THEN \E h : Begins(q, h, "policy", "reconcile") /\ h.mode = dyn.mode ELSE op' = op
    BY PolicyBegins
<1>3. RowsApart' /\ Backed' /\ Counted' /\ DynamicRow' = DynamicRow /\ FewerTagged
    BY <1>1, StartStays
<1>4. SameDynamic
    BY <1>1 DEF SameDynamic
<1>5. CASE Candidate(p, r)
  <2>1. PICK h : Begins(q, h, "policy", "reconcile") /\ h.mode = dyn.mode
      BY <1>2, <1>5
  <2>2. /\ h \in Handler /\ h.kind = "policy" /\ h.phase = "reconcile" /\ h.user = user' /\ h.table = policy'
        /\ h.revoke = {} /\ h.grant = {} /\ h.chosen = {}
      BY <2>1 DEF Begins
  <2>3. Quiet
      BY <2>1, StartsQuiet DEF AloneInv
  <2>4. DynamicDone'
      BY <1>1, <1>3, <1>4, <2>3, DynamicOnwards DEF AloneInv
  <2>5. Reads(h)'
      BY <1>1, <2>1, <2>2 DEF Reads
  <2>6. Course(h)' /\ Revoking(h)' /\ Granting(h)' /\ Following(h)'
      BY <2>2, <2>4 DEF Course, Revoking, Granting, Following
  <2>. QED
      BY <1>3, <2>1, <2>5, <2>6, Starts DEF Flight
<1>6. CASE ~Candidate(p, r)
  <2>1. op' = op
      BY <1>2, <1>6
  <2>2. Quiet
      BY <1>1, <2>1, EditsQuiet DEF AloneInv
  <2>3. BirthrightDone /\ DynamicDone
      BY <2>2 DEF AloneInv
  <2>4. DynamicDone'
      BY <1>1, <1>3, <1>4, <2>3, DynamicOnwards
  <2>5. BirthrightFollows => BirthrightFollows'
    <3>1. SUFFICES ASSUME BirthrightFollows PROVE BirthrightFollows'
        OBVIOUS
    <3>2. policy'[p] = r /\ \A x \in Policies : x # p => policy'[x] = policy[x]
        BY <1>2 DEF TypeOK
    <3>3. Tagged({p}) = {} /\ ~(user.status = "ACTIVE" /\ r.status = "ACTIVE" /\ Matches(user.dept, r.rule))
        BY <1>6 DEF Candidate
    <3>4. ASSUME NEW s \in Tagged(Policies)' PROVE Rooted(s)'
      <4>1. s \in Tagged(Policies) /\ rows'[s] = rows[s]
          BY <1>1, <1>3 DEF FewerTagged
      <4>2. rows[s].source # p /\ rows[s].source \in Policies
          BY <3>3, <4>1 DEF Tagged
      <4>3. Rooted(s)
          BY <3>1, <4>1, FollowsParts DEF AllRooted
      <4>4. PICK x \in Policies : x = rows[s].source
          BY <4>2
      <4>5. policy'[x] = policy[x]
          BY <3>2, <4>2, <4>4
      <4>6. Applies(policy', x, user.dept) <=> Applies(policy, x, user.dept)
          BY <4>5 DEF Applies
      <4>. QED
          BY <1>1, <4>3, <4>4, <4>5, <4>6 DEF Rooted
    <3>5. ASSUME user'.status = "ACTIVE", NEW x \in Policies, Applies(policy', x, user'.dept), NEW t \in Given(x)'
          PROVE HeldOf(t)' # {}
      <4>1. x # p
          BY <1>1, <3>2, <3>3, <3>5 DEF Applies
      <4>2. Applies(policy, x, user.dept)
          BY <1>1, <3>2, <3>5, <4>1 DEF Applies
      <4>3. t \in Given(x)
          BY <1>1, <3>5 DEF Given
      <4>4. HeldOf(t) # {}
          BY <1>1, <3>1, <3>5, <4>2, <4>3 DEF BirthrightFollows
      <4>. QED
          BY <1>1, <4>4, SameRows DEF HeldOf
    <3>. QED
        BY <3>4, <3>5 DEF BirthrightFollows, Rooted
  <2>6. BirthrightDone'
      BY <1>1, <2>3, <2>5 DEF BirthrightDone
  <2>. QED
      BY <1>3, <2>1, <2>2, <2>4, <2>6, Edits
<1>. QED
    BY <1>5, <1>6

LEMMA EvaluateAlone == ASSUME TypeOK, AloneInv, Paced, NEW q \in Requests, Evaluate(q) PROVE AloneInv'
<1>1. UNCHANGED <<user, policy, tagged, package, role, rows, access, dyn, moves, clock, faults, stale>> /\ Edited /\ q \in Procs
    BY DEF Evaluate, Procs
<1>2. PICK h : Begins(q, h, "evaluate", "plan") /\ h.mode = dyn.mode
    BY EvaluateBegins
<1>3. /\ h \in Handler /\ h.kind = "evaluate" /\ h.phase = "plan" /\ h.user = user' /\ h.table = policy'
      /\ h.revoke = {} /\ h.grant = {} /\ h.chosen = {}
    BY <1>2 DEF Begins
<1>4. Quiet
    BY <1>1, <1>2, StartsQuiet DEF AloneInv
<1>5. RowsApart' /\ Backed' /\ Counted' /\ DynamicRow' = DynamicRow /\ FewerTagged /\ HoldsOn
    BY <1>1, StartStays
<1>6. SameSubject /\ SameDynamic
    BY <1>1 DEF SameSubject, SameDynamic
<1>7. BirthrightDone' /\ DynamicDone'
    BY <1>1, <1>4, <1>5, <1>6, BirthrightOnwards, DynamicOnwards DEF AloneInv
<1>8. Reads(h)'
    BY <1>1, <1>2, <1>3 DEF Reads
<1>9. Course(h)' /\ Revoking(h)' /\ Granting(h)' /\ Following(h)'
    BY <1>3, <1>7 DEF Course, Revoking, Granting, Following
<1>. QED
    BY <1>1, <1>2, <1>5, <1>8, <1>9, Starts DEF Flight

\* The group's rule or status changes, or its mode: pushed to its members.
LEMMA PushAlone ==
    ASSUME TypeOK, AloneInv, Paced, NEW q \in Procs, NEW h, NEW kind \in {"rule", "mode"}, Begins(q, h, kind, "ensure"),
           kind = "rule" => h.mode = dyn'.mode, kind = "mode" => h.mode # "OFF",
           UNCHANGED <<user, policy, tagged, package, role, rows, access, moves, faults, stale>>, Edited
    PROVE  AloneInv'
<1>1. Quiet
    BY StartsQuiet DEF AloneInv
<1>2. /\ h \in Handler /\ h.kind = kind /\ h.phase = "ensure" /\ h.user = user' /\ h.table = policy'
      /\ h.revoke = {} /\ h.grant = {} /\ h.chosen = {}
    BY DEF Begins
<1>3. RowsApart' /\ Backed' /\ Counted' /\ FewerTagged /\ HoldsOn
    BY StartStays
<1>4. SameSubject
    BY DEF SameSubject
<1>5. BirthrightDone'
    BY <1>1, <1>3, <1>4, BirthrightOnwards DEF AloneInv
<1>6. Reads(h)'
    BY <1>2 DEF Reads
<1>7. Course(h)' /\ Revoking(h)' /\ Granting(h)' /\ Following(h)'
    BY <1>2, <1>5 DEF Course, Revoking, Granting, Following, PerUser
<1>. QED
    BY <1>3, <1>6, <1>7, Starts DEF Flight

LEMMA GroupAlone ==
    ASSUME TypeOK, AloneInv, Paced, NEW q \in Requests, UpdateDynamicGroup(q) \/ SetSyncMode(q)
    PROVE  AloneInv'
<1>1. /\ UNCHANGED <<user, policy, tagged, package, role, rows, access, moves, clock, faults, stale>>
      /\ Edited /\ q \in Procs
    BY DEF UpdateDynamicGroup, SetSyncMode, Procs
<1>2. ASSUME op' = op, dyn'.mode = "OFF" PROVE AloneInv'
  <2>1. Quiet
      BY <1>1, <1>2, EditsQuiet DEF AloneInv
  <2>2. RowsApart' /\ Backed' /\ Counted' /\ FewerTagged /\ HoldsOn
      BY <1>1, StartStays
  <2>3. SameSubject
      BY <1>1 DEF SameSubject
  <2>4. BirthrightDone'
      BY <1>1, <2>1, <2>2, <2>3, BirthrightOnwards DEF AloneInv
  <2>5. DynamicDone'
      BY <1>2 DEF DynamicDone, DynamicFollows
  <2>. QED
      BY <1>2, <2>1, <2>2, <2>4, <2>5, Edits
<1>3. CASE UpdateDynamicGroup(q)
  <2>1. /\ dyn'.mode = dyn.mode
        /\ IF dyn.mode # "OFF" THEN \E h : Begins(q, h, "rule", "ensure") /\ h.mode = dyn.mode ELSE op' = op
      BY <1>3, RuleBegins
  <2>2. CASE dyn.mode = "OFF"
      BY <1>2, <2>1, <2>2
  <2>3. CASE dyn.mode # "OFF"
    <3>1. PICK h : Begins(q, h, "rule", "ensure") /\ h.mode = dyn'.mode
        BY <2>1, <2>3
    <3>. QED
        BY <1>1, <3>1, PushAlone
  <2>. QED
      BY <2>2, <2>3
<1>4. CASE SetSyncMode(q)
  <2>1. \/ dyn' = [dyn EXCEPT !.mode = "OFF"] /\ op' = op
        \/ \E h : Begins(q, h, "mode", "ensure") /\ h.mode # "OFF"
      BY <1>4, ModeBegins
  <2>2. CASE dyn' = [dyn EXCEPT !.mode = "OFF"] /\ op' = op
    <3>1. dyn'.mode = "OFF"
        BY <2>2 DEF TypeOK, Dynamic
    <3>. QED
        BY <1>2, <2>2, <3>1
  <2>3. CASE \E h : Begins(q, h, "mode", "ensure") /\ h.mode # "OFF"
    <3>1. PICK h : Begins(q, h, "mode", "ensure") /\ h.mode # "OFF"
        BY <2>3
    <3>. QED
        BY <1>1, <3>1, PushAlone
  <2>. QED
      BY <2>1, <2>2, <2>3
<1>. QED
    BY <1>3, <1>4

-----------------------------------------------------------------------------
(***************************************************************************)
(* Edits that start no handler: made while none is under way.              *)
(***************************************************************************)
LEMMA MarkedAlone ==
    ASSUME TypeOK, AloneInv, Paced, (\E p \in Policies : DeletePolicy(p)) \/ EditBundles
    PROVE  AloneInv'
<1>1. /\ UNCHANGED <<user, rows, access, dyn, moves, clock, op, faults>> /\ Edited /\ stale' = stale \cup {"birthright"}
    BY DEF DeletePolicy, EditBundles
<1>2. Quiet
    BY <1>1, EditsQuiet DEF AloneInv
<1>3. RowsApart /\ Backed /\ Counted /\ DynamicDone
    BY <1>2 DEF AloneInv
<1>4. RowsApart' /\ Backed' /\ Counted' /\ DynamicRow' = DynamicRow
    BY <1>1, <1>3, SameRows, BackedStays, CountedStays
<1>5. BirthrightDone'
    BY <1>1 DEF BirthrightDone
<1>6. SameDynamic
    BY <1>1 DEF SameDynamic
<1>7. DynamicDone'
    BY <1>1, <1>3, <1>4, <1>6, DynamicOnwards
<1>. QED
    BY <1>1, <1>2, <1>4, <1>5, <1>7, Edits

LEMMA CreateGroupAlone == ASSUME TypeOK, AloneInv, Paced, CreateDynamicGroup PROVE AloneInv'
<1>1. /\ UNCHANGED <<user, policy, tagged, package, role, rows, access, moves, clock, op, faults>> /\ Edited
      /\ stale' = stale \ {"dynamic"}
      /\ \E r \in Rules : dyn' = [dyn EXCEPT !.status = "ACTIVE", !.rule = r, !.mode = "OFF", !.linked = FALSE]
    BY DEF CreateDynamicGroup
<1>2. Quiet
    BY <1>1, EditsQuiet DEF AloneInv
<1>3. RowsApart /\ Backed /\ Counted /\ BirthrightDone
    BY <1>2 DEF AloneInv
<1>4. RowsApart' /\ Backed' /\ Counted' /\ FewerTagged /\ HoldsOn
    BY <1>1, <1>3, SameRows, BackedStays, CountedStays
<1>5. SameSubject
    BY <1>1 DEF SameSubject
<1>6. BirthrightDone'
    BY <1>1, <1>3, <1>4, <1>5, BirthrightOnwards
<1>7. dyn'.mode = "OFF"
    BY <1>1 DEF TypeOK, Dynamic
<1>8. DynamicDone'
    BY <1>7 DEF DynamicDone, DynamicFollows
<1>. QED
    BY <1>1, <1>2, <1>4, <1>6, <1>8, Edits

\* The members of the deleted group keep their rows, by hand from now on.
LEMMA DeleteGroupAlone == ASSUME TypeOK, AloneInv, Paced, DeleteDynamicGroup PROVE AloneInv'
<1>1. /\ UNCHANGED <<user, policy, tagged, package, role, access, moves, clock, op, faults, stale>> /\ Edited
      /\ dyn' = [dyn EXCEPT !.status = "NONE", !.mode = "OFF", !.linked = FALSE]
      /\ rows' = [s \in Slots |-> IF s \in DynamicRow THEN [rows[s] EXCEPT !.source = "manual"] ELSE rows[s]]
    BY DEF DeleteDynamicGroup
<1>2. Quiet
    BY <1>1, EditsQuiet DEF AloneInv
<1>3. RowsApart /\ Backed /\ Counted /\ BirthrightDone
    BY <1>2 DEF AloneInv
<1>4. {"manual", "dynamic"} \cap Policies = {}
    BY ConstantsAssumption
<1>5. \A s \in DynamicRow : /\ rows'[s].source = "manual" /\ rows'[s].target = rows[s].target
                            /\ rows'[s].status = rows[s].status /\ rows'[s] # Free /\ s \in Slots
  <2>1. SUFFICES ASSUME NEW s \in DynamicRow
                 PROVE  /\ rows'[s].source = "manual" /\ rows'[s].target = rows[s].target
                        /\ rows'[s].status = rows[s].status /\ rows'[s] # Free /\ s \in Slots
      OBVIOUS
  <2>2. s \in Slots /\ rows[s] \in Row
      BY RowShape DEF DynamicRow, Tagged
  <2>3. PICK r : r = [rows[s] EXCEPT !.source = "manual"]
      OBVIOUS
  <2>4. rows'[s] = r
      BY <1>1, <2>2, <2>3
  <2>5. r.source = "manual" /\ r.target = rows[s].target /\ r.status = rows[s].status
      BY <2>2, <2>3 DEF Row
  <2>6. r.status # "FINAL"
      BY <2>2, <2>5 DEF Row
  <2>7. r # Free
      BY <2>6 DEF Free
  <2>. QED
      BY <2>2, <2>4, <2>5, <2>7
<1>6. \A s \in Slots \ DynamicRow : rows'[s] = rows[s]
    BY <1>1
<1>7. Held' = Held
  <2>1. \A s \in Slots : rows'[s] # Free <=> rows[s] # Free
      BY <1>5, <1>6 DEF DynamicRow, Tagged, Held
  <2>. QED
      BY <2>1 DEF Held
<1>8. \A s \in Held : rows'[s].target = rows[s].target /\ rows'[s].status = rows[s].status
    BY <1>5, <1>6 DEF Held
<1>9. DynamicRow' = {}
    BY <1>5, <1>6, <1>7 DEF DynamicRow, Tagged, Held
<1>10. Tagged(Policies)' = Tagged(Policies) /\ \A s \in Tagged(Policies) : rows'[s] = rows[s]
    BY <1>4, <1>5, <1>6, <1>7 DEF DynamicRow, Tagged, Held
<1>11. \A t : HeldOf(t)' = HeldOf(t)
    BY <1>7, <1>8 DEF HeldOf
<1>12. FewerTagged /\ HoldsOn
    BY <1>10, <1>11 DEF FewerTagged, HoldsOn
<1>13. RowsApart'
    BY <1>3, <1>9, <1>10 DEF RowsApart
<1>14. Backed'
  <2>1. SUFFICES ASSUME faults["refused"] = 0, NEW t \in access PROVE \E s \in HeldOf(t)' : rows'[s].status = "ACTIVE"
      BY <1>1 DEF Backed
  <2>2. PICK s \in HeldOf(t) : rows[s].status = "ACTIVE"
      BY <1>3, <2>1 DEF Backed
  <2>3. s \in HeldOf(t)' /\ s \in Held
      BY <1>11, <2>2 DEF HeldOf
  <2>4. rows'[s].status = rows[s].status
      BY <1>8, <2>3
  <2>. QED
      BY <2>2, <2>3, <2>4
<1>15. Counted'
    BY <1>1, <1>3, CountedStays
<1>16. SameSubject
    BY <1>1 DEF SameSubject
<1>17. BirthrightDone'
    BY <1>1, <1>3, <1>12, <1>16, BirthrightOnwards
<1>18. dyn'.mode = "OFF"
    BY <1>1 DEF TypeOK, Dynamic
<1>19. DynamicDone'
    BY <1>18 DEF DynamicDone, DynamicFollows
<1>. QED
    BY <1>1, <1>2, <1>13, <1>14, <1>15, <1>17, <1>19, Edits

LEMMA AssignAlone == ASSUME TypeOK, AloneInv, Paced, AssignByHand PROVE AloneInv'
<1>1. /\ UNCHANGED <<user, policy, tagged, package, role, access, dyn, moves, clock, op, faults, stale>> /\ Edited
    BY DEF AssignByHand
<1>2. PICK t \in ByHand : Unused # {} /\ rows' = [rows EXCEPT ![Fresh] = [target |-> t, source |-> "manual", status |-> "ELIGIBLE"]]
    BY DEF AssignByHand
<1>3. Quiet
    BY <1>1, EditsQuiet DEF AloneInv
<1>4. RowsApart /\ Backed /\ Counted /\ BirthrightDone /\ DynamicDone
    BY <1>3 DEF AloneInv
<1>5. PICK r, f : r = [target |-> t, source |-> "manual", status |-> "ELIGIBLE"] /\ f = Fresh
    OBVIOUS
<1>6. "manual" \notin Policies /\ ByHand \subseteq Targets
    BY ConstantsAssumption
<1>7. r \in Row /\ r.source = "manual"
    BY <1>5, <1>6 DEF Row, Sources
<1>8. Adds(r, f)
    BY <1>2, <1>5, <1>6, <1>7 DEF Adds
<1>9. Added(r, f)
    BY <1>4, <1>8, RowAdded
<1>10. /\ RowsApart' /\ HoldsOn /\ f \notin Held /\ Held' = Held \cup {f} /\ \A s \in Held : rows'[s] = rows[s]
    BY <1>9 DEF Added
<1>11. DynamicRow' = DynamicRow /\ FewerTagged
    BY <1>6, <1>7, <1>9 DEF Added
<1>12. Backed'
    BY <1>1, <1>4, <1>10, BackedAdded
<1>13. Counted'
    BY <1>1, <1>4, CountedStays
<1>14. SameSubject /\ SameDynamic
    BY <1>1 DEF SameSubject, SameDynamic
<1>15. BirthrightDone' /\ DynamicDone'
    BY <1>1, <1>4, <1>10, <1>11, <1>14, BirthrightOnwards, DynamicOnwards
<1>. QED
    BY <1>1, <1>3, <1>10, <1>12, <1>13, <1>15, Edits

\* An activation takes away another row of the target, which the activated one then stands for.
LEMMA ActivateAlone == ASSUME TypeOK, AloneInv, Paced, NEW s \in Held, Activate(s) PROVE AloneInv'
<1>1. PICK other \in SUBSET (HeldOf(rows[s].target) \ {s}) :
        /\ rows' = [x \in Slots |-> IF x \in other THEN Free ELSE IF x = s THEN [rows[s] EXCEPT !.status = "ACTIVE"] ELSE rows[x]]
        /\ stale' = IF \E x \in other : rows[x].source = "dynamic" THEN stale \cup {"dynamic"} ELSE stale
    BY DEF Activate
<1>2. /\ UNCHANGED <<user, policy, tagged, package, role, dyn, moves, clock, op, faults>> /\ Edited
      /\ access' = access \cup {rows[s].target}
    BY DEF Activate
<1>3. Quiet
    BY <1>2, EditsQuiet DEF AloneInv
<1>4. RowsApart /\ Backed /\ Counted /\ BirthrightDone /\ DynamicDone
    BY <1>3 DEF AloneInv
<1>5. /\ Held' = Held \ other /\ s \in Held' /\ rows'[s].status = "ACTIVE"
      /\ \A x \in Held' : /\ rows'[x].target = rows[x].target /\ rows'[x].source = rows[x].source
                          /\ x # s => rows'[x].status = rows[x].status
      /\ \A x \in other : x \in Held /\ rows[x].target = rows[s].target
    BY <1>1, ActivateRows
<1>6. Tagged(Policies)' = Tagged(Policies) \ other /\ DynamicRow' = DynamicRow \ other
    BY <1>5 DEF Tagged, DynamicRow
<1>7. FewerTagged
    BY <1>5, <1>6 DEF FewerTagged, Tagged
<1>8. HoldsOn
  <2>1. SUFFICES ASSUME NEW t \in Targets, NEW x \in HeldOf(t) PROVE HeldOf(t)' # {}
      BY DEF HoldsOn
  <2>2. CASE x \in other
      BY <1>5, <2>1, <2>2 DEF HeldOf
  <2>3. CASE x \notin other
      BY <1>5, <2>1, <2>3 DEF HeldOf
  <2>. QED
      BY <2>2, <2>3
<1>9. RowsApart'
    BY <1>4, <1>5, <1>6 DEF RowsApart, Tagged, DynamicRow
<1>10. ASSUME faults'["refused"] = 0, NEW t \in access' PROVE \E x \in HeldOf(t)' : rows'[x].status = "ACTIVE"
  <2>1. CASE t = rows[s].target
      BY <1>5, <2>1 DEF HeldOf
  <2>2. CASE t # rows[s].target
    <3>1. t \in access
        BY <1>2, <1>10, <2>2
    <3>2. PICK x \in HeldOf(t) : rows[x].status = "ACTIVE"
        BY <1>2, <1>4, <1>10, <3>1 DEF Backed
    <3>3. x \notin other /\ x # s
        BY <1>5, <2>2, <3>2 DEF HeldOf
    <3>. QED
        BY <1>5, <3>2, <3>3 DEF HeldOf
  <2>. QED
      BY <2>1, <2>2
<1>11. Backed'
    BY <1>10 DEF Backed
<1>12. Counted'
    BY <1>2, <1>4, CountedStays
<1>13. SameSubject /\ SameDynamic
    BY <1>2 DEF SameSubject, SameDynamic
<1>14. BirthrightDone'
    BY <1>1, <1>4, <1>7, <1>8, <1>13, BirthrightOnwards
<1>15. DynamicDone'
  <2>1. CASE \E x \in other : rows[x].source = "dynamic"
      BY <1>1, <2>1 DEF DynamicDone
  <2>2. CASE ~\E x \in other : rows[x].source = "dynamic"
    <3>1. DynamicRow' = DynamicRow /\ stale' = stale
        BY <1>1, <1>6, <2>2 DEF DynamicRow, Tagged
    <3>. QED
        BY <1>4, <1>13, <3>1, DynamicOnwards
  <2>. QED
      BY <2>1, <2>2
<1>. QED
    BY <1>2, <1>3, <1>9, <1>11, <1>12, <1>14, <1>15, Edits

LEMMA RevokedAlone == ASSUME TypeOK, AloneInv, Paced, NEW s \in Held, Revoke(s) PROVE AloneInv'
<1>1. /\ UNCHANGED <<user, policy, tagged, package, role, dyn, moves, clock, op, faults>> /\ Edited
      /\ rows' = [rows EXCEPT ![s] = Free]
      /\ access' = IF rows[s].status = "ACTIVE" THEN access \ {rows[s].target} ELSE access
      /\ stale' = stale \cup {IF rows[s].source = "dynamic" THEN "dynamic" ELSE "birthright"}
    BY DEF Revoke
<1>2. Quiet
    BY <1>1, EditsQuiet DEF AloneInv
<1>3. RowsApart /\ Backed /\ Counted /\ BirthrightDone /\ DynamicDone
    BY <1>2 DEF AloneInv
<1>4. s \in Slots /\ rows[s] # Free
    BY RowShape
<1>5. /\ RowsApart' /\ Backed' /\ FewerTagged /\ Held' = Held \ {s}
      /\ \A x \in Slots : x # s => rows'[x] = rows[x]
      /\ DynamicRow' = DynamicRow \ {s}
    BY <1>1, <1>3, <1>4, RowFreed
<1>6. Counted'
    BY <1>1, <1>3, CountedStays
<1>7. SameSubject /\ SameDynamic
    BY <1>1 DEF SameSubject, SameDynamic
<1>8. CASE rows[s].source = "dynamic"
  <2>1. rows[s].target = Group /\ Group \notin Targets
      BY <1>3, <1>8, ConstantsAssumption DEF RowsApart, DynamicRow, Tagged
  <2>2. HoldsOn
      BY <1>5, <2>1 DEF HoldsOn, HeldOf, Held
  <2>3. BirthrightDone'
      BY <1>1, <1>3, <1>5, <1>7, <2>2, BirthrightOnwards
  <2>4. DynamicDone'
      BY <1>1, <1>8 DEF DynamicDone
  <2>. QED
      BY <1>1, <1>2, <1>5, <1>6, <2>3, <2>4, Edits
<1>9. CASE rows[s].source # "dynamic"
  <2>1. BirthrightDone'
      BY <1>1, <1>9 DEF BirthrightDone
  <2>2. DynamicRow' = DynamicRow
      BY <1>5, <1>9 DEF DynamicRow, Tagged
  <2>3. DynamicDone'
      BY <1>1, <1>3, <1>7, <2>2, DynamicOnwards
  <2>. QED
      BY <1>1, <1>2, <1>5, <1>6, <2>1, <2>3, Edits
<1>. QED
    BY <1>8, <1>9

LEMMA OtherAlone == ASSUME TypeOK, AloneInv, Paced, ScheduleMove \/ CancelMove \/ Tick PROVE AloneInv'
<1>1. UNCHANGED <<user, policy, package, role, rows, access, dyn, op, edits, faults, stale>>
    BY DEF ScheduleMove, CancelMove, Tick
<1>2. Counted'
    BY <1>1 DEF AloneInv, Counted
<1>3. CASE Tick
  <2>1. MovesStay
      BY <1>3 DEF Tick, MovesStay
  <2>. QED
      BY <1>1, <1>2, <2>1, Stands
<1>4. CASE ScheduleMove \/ CancelMove
  <2>1. MovesStay
      BY <1>4, ScheduleTypes
  <2>. QED
      BY <1>1, <1>2, <2>1, Stands
<1>. QED
    BY <1>3, <1>4

LEMMA CrashAlone == ASSUME TypeOK, AloneInv, Crash PROVE AloneInv'
<1>1. /\ op' = [q \in Procs |-> Idle] /\ stale' = {"birthright", "dynamic"} /\ Count("crash")
      /\ UNCHANGED <<user, policy, tagged, package, role, rows, access, dyn, moves, clock, edits>>
    BY DEF Crash
<1>2. RowsApart /\ Backed /\ Counted
    BY DEF AloneInv
<1>3. Counted' /\ (faults'["refused"] = 0 => faults["refused"] = 0)
    BY <1>1, <1>2, CountedStays
<1>4. RowsApart' /\ Backed'
    BY <1>1, <1>2, <1>3, SameRows, BackedStays
<1>5. BirthrightDone' /\ DynamicDone'
    BY <1>1 DEF BirthrightDone, DynamicDone
<1>6. \A q \in Procs : op'[q] = Idle
    BY <1>1
<1>. QED
    BY <1>3, <1>4, <1>5, <1>6 DEF AloneInv, OneAtATime

LEMMA StepAlone == TypeOK /\ AloneInv /\ Next /\ Paced => AloneInv'
<1>1. SUFFICES ASSUME TypeOK, AloneInv, Next, Paced PROVE AloneInv'
    OBVIOUS
<1>2. ASSUME NEW q \in Requests, CreatePolicy(q) \/ UpdatePolicy(q) PROVE AloneInv'
  <2>1. PICK p \in Policies, r \in Policy : Saved(q, p, r)
      BY <1>2 DEF CreatePolicy, UpdatePolicy
  <2>. QED
      BY <1>1, <2>1, SavedAlone DEF Procs
<1>3. ASSUME NEW q \in Requests, \/ EditDepartment(q) \/ SyncPerson(q) \/ CreatePolicy(q) \/ UpdatePolicy(q) \/ Evaluate(q)
                                 \/ UpdateDynamicGroup(q) \/ SetSyncMode(q)
      PROVE AloneInv'
    BY <1>1, <1>2, <1>3, EditAlone, EvaluateAlone, GroupAlone
<1>4. ASSUME NEW s \in Held, Activate(s) \/ Revoke(s) PROVE AloneInv'
    BY <1>1, <1>4, ActivateAlone, RevokedAlone
<1>. QED
    BY <1>1, <1>3, <1>4, MarkedAlone, CreateGroupAlone, DeleteGroupAlone, OtherAlone, ApplyAlone, AssignAlone, ContinueAlone,
       CrashAlone DEF Next

LEMMA SameAlone == TypeOK /\ AloneInv /\ UNCHANGED vars => AloneInv'
<1>1. SUFFICES ASSUME TypeOK, AloneInv, UNCHANGED vars PROVE AloneInv'
    OBVIOUS
<1>2. Counted'
    BY <1>1 DEF vars, AloneInv, Counted
<1>3. MovesStay
    BY <1>1 DEF vars, MovesStay
<1>. QED
    BY <1>1, <1>2, <1>3, Stands DEF vars

LEMMA InitAlone == Init => AloneInv
<1>1. SUFFICES ASSUME Init PROVE AloneInv
    OBVIOUS
<1>2. \A q \in Procs : op[q] = Idle
    BY <1>1 DEF Init
<1>3. Held = {} /\ access = {}
    BY <1>1 DEF Init, Held
<1>4. DynamicRow = {} /\ Tagged(Policies) = {}
    BY <1>3 DEF DynamicRow, Tagged
<1>5. \A p \in Policies : ~Applies(policy, p, user.dept)
    BY <1>1 DEF Init, Applies, Matches
<1>6. BirthrightFollows
    BY <1>4, <1>5 DEF BirthrightFollows
<1>7. DynamicFollows
    BY <1>1, <1>4 DEF DynamicFollows, Init, Matches
<1>8. Counted
    BY <1>1 DEF Counted, Init
<1>9. RowsApart /\ Backed
    BY <1>3, <1>4 DEF RowsApart, Backed
<1>. QED
    BY <1>2, <1>6, <1>7, <1>8, <1>9 DEF AloneInv, OneAtATime, BirthrightDone, DynamicDone

-----------------------------------------------------------------------------
(***************************************************************************)
(* What the invariant gives.                                               *)
(***************************************************************************)
LEMMA AloneGives ==
    ASSUME AloneInv
    PROVE  Reconciled /\ AccessBacked /\ OneGrant
<1>1. Reconciled
    BY DEF AloneInv, BirthrightDone, DynamicDone, Reconciled
<1>2. AccessBacked
    BY DEF AloneInv, Backed, AccessBacked
<1>3. OneGrant
  <2>1. SUFFICES ASSUME NEW t \in Targets PROVE Cardinality({s \in HeldOf(t) : rows[s].source \in Policies}) <= 1
      BY DEF OneGrant
  <2>2. PICK S : S = {s \in HeldOf(t) : rows[s].source \in Policies}
      OBVIOUS
  <2>3. \A s \in S : s \in Tagged(Policies) /\ rows[s].target = t
      BY <2>2 DEF HeldOf, Tagged
  <2>4. \A a, b \in S : a = b
      BY <2>3 DEF AloneInv, RowsApart
  <2>5. S = {} \/ \E a \in S : S = {a}
      BY <2>4
  <2>6. Cardinality(S) = 0 \/ Cardinality(S) = 1
    <3>1. CASE S = {}
        BY <3>1, FS_EmptySet
    <3>2. ASSUME NEW a, S = {a} PROVE Cardinality(S) = 1
        BY <3>2, FS_Singleton
    <3>. QED
        BY <2>5, <3>1, <3>2
  <2>. QED
      BY <2>2, <2>6
<1>. QED
    BY <1>1, <1>2, <1>3

\* Of all the steps only SettleMove marks a move APPLIED, when birthright access follows.
LEMMA OnlySettled ==
    ASSUME TypeOK, Next, NEW m \in DOMAIN moves, moves[m].status = "SCHEDULED", moves'[m].status = "APPLIED"
    PROVE  \E q \in Procs : SettleMove(q) /\ op[q].move = m
<1>1. moves \in Seq(Move)
    BY DEF TypeOK
<1>2. moves' # moves
    OBVIOUS
<1>3. ~ScheduleMove
    BY ScheduledShape
<1>4. ASSUME NEW n \in DOMAIN moves, NEW st, moves' = [moves EXCEPT ![n].status = st], st # "APPLIED" PROVE FALSE
  <2>1. moves[n] \in Move
      BY <1>1
  <2>2. moves'[m] = moves[m] \/ (m = n /\ moves'[m] = [moves[n] EXCEPT !.status = st])
      BY <1>1, <1>4
  <2>. QED
      BY <1>4, <2>1, <2>2 DEF Move
<1>5. ~CancelMove /\ ~ApplyMove
    BY <1>2, <1>4 DEF CancelMove, ApplyMove
<1>6. ASSUME NEW q \in Procs, EnsureGroup(q) PROVE FALSE
  <2>1. moves' = [moves EXCEPT ![op[q].move].status = "FAILED"]
      BY <1>2, <1>6 DEF EnsureGroup, GivesUp
  <2>2. op[q].move \in DOMAIN moves
      BY <1>1, <1>2, <2>1
  <2>. QED
      BY <1>4, <2>1, <2>2
<1>7. ~Tick /\ ~Crash /\ ~EditBundles /\ ~AssignByHand /\ ~CreateDynamicGroup /\ ~DeleteDynamicGroup
    BY <1>2 DEF Tick, Crash, EditBundles, AssignByHand, CreateDynamicGroup, DeleteDynamicGroup
<1>8. ASSUME NEW s \in Held, Activate(s) \/ Revoke(s) PROVE FALSE
    BY <1>2, <1>8 DEF Activate, Revoke
<1>9. ASSUME NEW p \in Policies, DeletePolicy(p) PROVE FALSE
    BY <1>2, <1>9 DEF DeletePolicy
<1>10. ASSUME NEW q \in Requests, \/ EditDepartment(q) \/ SyncPerson(q) \/ CreatePolicy(q) \/ UpdatePolicy(q) \/ Evaluate(q)
                                  \/ UpdateDynamicGroup(q) \/ SetSyncMode(q)
       PROVE FALSE
  <2>1. ~EditDepartment(q) /\ ~SyncPerson(q) /\ ~Evaluate(q)
      BY <1>2 DEF EditDepartment, SyncPerson, Evaluate
  <2>2. ASSUME NEW p, NEW row, Saved(q, p, row) PROVE FALSE
      BY <1>2, <2>2 DEF Saved
  <2>3. ~UpdateDynamicGroup(q) /\ ~SetSyncMode(q)
      BY <1>2 DEF UpdateDynamicGroup, SetSyncMode
  <2>4. ~CreatePolicy(q) /\ ~UpdatePolicy(q)
      BY <2>2 DEF CreatePolicy, UpdatePolicy
  <2>. QED
      BY <1>10, <2>1, <2>3, <2>4
<1>11. ASSUME NEW q \in Procs, \/ Reconcile(q) \/ RevokeOne(q) \/ RevokedAll(q) \/ Plan(q) \/ LookUp(q) \/ GrantOne(q)
                               \/ GrantedAll(q) \/ UpdateMembership(q)
       PROVE FALSE
  <2>1. ~Reconcile(q) /\ ~RevokedAll(q)
      BY <1>2 DEF Reconcile, RevokedAll
  <2>3. ~RevokeOne(q)
      BY <1>2 DEF RevokeOne
  <2>4. ~Plan(q)
    <3>1. ASSUME Plan(q) PROVE OnlyHandler
        BY <3>1 DEF Plan, OnlyHandler
    <3>. QED
        BY <1>2, <3>1 DEF OnlyHandler
  <2>2. ~LookUp(q) /\ ~GrantOne(q) /\ ~GrantedAll(q) /\ ~UpdateMembership(q)
      BY <1>2 DEF LookUp, GrantOne, GrantedAll, UpdateMembership
  <2>. QED
      BY <1>11, <2>1, <2>2, <2>3, <2>4
<1>12. PICK q \in Procs : Continue(q)
    BY <1>3, <1>5, <1>7, <1>8, <1>9, <1>10 DEF Next
<1>13. SettleMove(q)
    BY <1>6, <1>11, <1>12 DEF Continue
<1>14. moves' = [moves EXCEPT ![op[q].move].status = "APPLIED"]
    BY <1>13 DEF SettleMove
<1>15. op[q].move = m
    BY <1>1, <1>14
<1>. QED
    BY <1>13, <1>15

LEMMA AppliedAlone == TypeOK /\ AloneInv /\ Next => MovesReconciled
<1>1. SUFFICES ASSUME TypeOK, AloneInv, Next,
                      NEW m \in DOMAIN moves, moves[m].status = "SCHEDULED", moves'[m].status = "APPLIED", "birthright" \notin stale
               PROVE  user.dept = moves[m].dept /\ BirthrightFollows
    BY DEF MovesReconciled
<1>2. PICK q \in Procs : SettleMove(q) /\ op[q].move = m
    BY <1>1, OnlySettled
<1>3. op[q].phase = "settle" /\ op[q] # Idle
    BY <1>2 DEF SettleMove, Idle
<1>4. PICK o : o = op[q]
    OBVIOUS
<1>5. Flight(o) /\ o.phase = "settle" /\ o.move = m
    BY <1>1, <1>2, <1>3, <1>4 DEF AloneInv
<1>6. o.kind = "move" /\ BirthrightDone
    BY <1>5 DEF Flight, Course, Granting
<1>7. user.dept = moves[m].dept
    BY <1>5, <1>6 DEF Flight, Reads
<1>. QED
    BY <1>1, <1>6, <1>7 DEF BirthrightDone

-----------------------------------------------------------------------------
(***************************************************************************)
(* The behaviours of MCBirthright: of width 1, one handler at a time.      *)
(***************************************************************************)
WideInv == TypeOK /\ (Alone => AloneInv)

LEMMA WideStep ==
    ASSUME WideNext, Alone PROVE Next /\ Paced
BY DEF WideNext, Alone, Paced

LEMMA WideKeeps ==
    ASSUME WideInv, [WideNext]_<<vars, width>> PROVE WideInv'
<1>1. CASE WideNext
  <2>1. Next /\ (Alone' => Alone)
      BY <1>1 DEF WideNext, Alone
  <2>2. TypeOK'
      BY <2>1, StepTypes DEF WideInv
  <2>3. ASSUME Alone PROVE AloneInv'
      BY <1>1, <2>3, WideStep, StepAlone DEF WideInv
  <2>. QED
      BY <2>1, <2>2, <2>3 DEF WideInv
<1>2. CASE UNCHANGED <<vars, width>>
  <2>1. UNCHANGED vars /\ (Alone' => Alone)
      BY <1>2 DEF Alone
  <2>2. TypeOK'
      BY <2>1, SameTypes DEF WideInv
  <2>3. ASSUME Alone PROVE AloneInv'
      BY <2>1, <2>3, SameAlone DEF WideInv
  <2>. QED
      BY <2>1, <2>2, <2>3 DEF WideInv
<1>. QED
    BY <1>1, <1>2

LEMMA WideAlways == WideSpec => []WideInv
<1>1. WideInit => WideInv
    BY InitTypes, InitAlone DEF WideInit, WideInv
<1>2. WideInv /\ [WideNext]_<<vars, width>> => WideInv'
    BY WideKeeps
<1>. QED
    BY <1>1, <1>2, PTL DEF WideSpec

\* With one handler at a time and nothing edited while it runs, access follows the rules:
\* once nothing is under way, the person keeps nothing that a policy gave and no longer
\* does, holds all that matching policies give, and is in the dynamic group as its rule
\* says -- reconcile_birthright_policies_for_user, evaluate_birthright_policies and
\* evaluate_dynamic_groups_for_user -- whatever the rules, the policies and the number of
\* targets, refusals and crashes.
THEOREM ReconciledAlone == WideSpec => []AloneReconciled
<1>1. WideInv => AloneReconciled
    BY AloneGives DEF WideInv, AloneReconciled
<1>. QED
    BY <1>1, WideAlways, PTL

\* With one handler at a time, what the directory gives has an ACTIVE row behind it as long
\* as the directory refused nothing, and no two live rows of policies are for the same
\* target (_grant_birthright_target, revoke_assignment, _promote_to_active and
\* _demote_to_eligible); the rows keep their shape in any case.
THEOREM AccessBackedAlone == WideSpec => []AloneAccessBacked
<1>1. WideInv => AloneAccessBacked
    BY AloneGives DEF WideInv, AloneAccessBacked
<1>. QED
    BY <1>1, WideAlways, PTL

\* With one handler at a time, apply_move marks a move APPLIED only when the person is in
\* the new department and birthright access follows, or a failure is known.
THEOREM AppliedIsReconciledAlone == WideSpec => AloneAppliedIsReconciled
<1>1. WideInv /\ [WideNext]_<<vars, width>> => [Alone => MovesReconciled]_vars
    BY WideStep, AppliedAlone DEF WideInv
<1>. QED
    BY <1>1, WideAlways, PTL DEF WideSpec, AloneAppliedIsReconciled
=============================================================================
