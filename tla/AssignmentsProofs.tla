------------------------- MODULE AssignmentsProofs -------------------------
(***************************************************************************)
(* Proofs about Assignments, for every value of its constants.             *)
(*                                                                         *)
(* A handler commits a status computed from a row it read some awaits ago, *)
(* over whatever the row is by then.  The invariant IndInv says why that   *)
(* blind write cannot make an unapproved row usable nor grant what nobody  *)
(* decided on: target and approval flag of a row never change, decisions   *)
(* are never forgotten, and the handler's copy was cleared when read.      *)
(* Most of the work is the frame: a step of one handler must not falsify   *)
(* what the others hold (lemma Frame); then one lemma per action.          *)
(*                                                                         *)
(* The last part is about one handler at a time: AloneInv, on top of       *)
(* IndInv, says that what a handler read is still so when it commits; from *)
(* it follow separation of duties and access that its rows know of.        *)
(***************************************************************************)
EXTENDS Assignments, FiniteSetTheorems, TLAPS

\* What op[p] may be.
OpTypes == Call \cup Queue \cup Sync \cup {Idle}

\* A row that is there has the shape of a row.
LEMMA RowOf ==
    ASSUME TypeOK, NEW r \in Rows, Present(r)
    PROVE  rows[r] \in Row
BY DEF TypeOK, Present, Absent

\* A handler in one of a call's phases is a call.
LEMMA CallOfHandler ==
    ASSUME TypeOK, NEW p \in Procs, Working(op[p])
    PROVE  op[p] \in Call
<1>1. op[p] \in OpTypes
    BY DEF TypeOK, OpTypes
<1>2. op[p] \notin Queue /\ op[p] \notin Sync /\ op[p] # Idle
    BY DEF Working, Phases, Queue, Sync, Idle
<1>. QED
    BY <1>1, <1>2 DEF OpTypes

\* A handler in one of a cascade's phases is a cascade.
LEMMA QueueOfHandler ==
    ASSUME TypeOK, NEW p \in Procs, op[p].phase \in {"link", "next"}
    PROVE  op[p] \in Queue
<1>1. op[p] \in OpTypes
    BY DEF TypeOK, OpTypes
<1>2. op[p] \notin Call /\ op[p] \notin Sync /\ op[p] # Idle
    BY DEF Call, Phases, Sync, Idle
<1>. QED
    BY <1>1, <1>2 DEF OpTypes

\* Rows stay, name the grant they named, and decisions are not forgotten.
Kept ==
    /\ \A r \in Rows : Present(r) => Present(r)' /\ SameGrant(rows[r], rows'[r])
    /\ approved \subseteq approved'
    /\ sanctioned \subseteq sanctioned'

\* What a handler knows about its row survives any step that keeps the rows' grants and
\* only adds to what was approved and sanctioned, unless the step puts its new row there.
LEMMA CallStaysSound ==
    ASSUME NEW o \in Call, CallSound(o), Kept, Present(o.row)' => Present(o.row)
    PROVE  CallSound(o)'
BY DEF CallSound, Kept, Call, SameGrant, Cleared, Present

\* So does what a cascade knows about the rows it listed.
LEMMA QueueStaysSound ==
    ASSUME NEW q \in Queue, QueueSound(q), Kept
    PROVE  QueueSound(q)'
BY DEF QueueSound, Kept, Queue, SameGrant, Cleared, Present

\* A step of one handler: it is enough to look at that handler and at the shared state.
\* The other handlers keep what they know.
LEMMA Frame ==
    ASSUME IndInv, NEW p \in Procs,
           TypeOK', Kept, RowsCleared', NoUnsanctionedAccess',
           \A q \in Procs \ {p} : op'[q] = op[q],
           \A q \in Procs \ {p} : Working(op[q]) /\ Present(op[q].row)' => Present(op[q].row),
           Working(op[p])' => CallSound(op[p])' /\ (op'[p].queue # Idle => QueueSound(op[p].queue)'),
           op'[p].phase \in {"link", "next"} => QueueSound(op[p])',
           Working(op[p])' => \/ Present(op[p].row)'
                              \/ \A q \in Procs \ {p} : Working(op[q]) => op[q].row # op'[p].row
    PROVE  IndInv'
<1>1. \A q \in Procs \ {p} : Working(op[q]) => CallSound(op[q])'
    <2>. SUFFICES ASSUME NEW q \in Procs \ {p}, Working(op[q])
                  PROVE  CallSound(op[q])'
        OBVIOUS
    <2>1. op[q] \in Call /\ CallSound(op[q])
        BY CallOfHandler DEF IndInv, HandlersSound
    <2>. QED
        BY <2>1, CallStaysSound DEF CallSound, Cleared, SameGrant, Present
<1>2. \A q \in Procs : Working(op[q])' => CallSound(op[q])'
    BY <1>1 DEF CallSound, Working
<1>3. \A q \in Procs : Working(op[q])' /\ op'[q].queue # Idle => QueueSound(op[q].queue)'
    <2>. SUFFICES ASSUME NEW q \in Procs \ {p}, Working(op[q]), op[q].queue # Idle
                  PROVE  QueueSound(op[q].queue)'
        BY DEF Working
    <2>1. op[q].queue \in Queue /\ QueueSound(op[q].queue)
        BY CallOfHandler DEF IndInv, HandlersSound, Call
    <2>. QED
        BY <2>1, QueueStaysSound DEF QueueSound, Cleared, SameGrant, Present
<1>4. \A q \in Procs : op'[q].phase \in {"link", "next"} => QueueSound(op[q])'
    <2>. SUFFICES ASSUME NEW q \in Procs \ {p}, op[q].phase \in {"link", "next"}
                  PROVE  QueueSound(op[q])'
        OBVIOUS
    <2>1. op[q] \in Queue /\ QueueSound(op[q])
        BY QueueOfHandler DEF IndInv, HandlersSound
    <2>. QED
        BY <2>1, QueueStaysSound DEF QueueSound, Cleared, SameGrant, Present
<1>5. HandlersSound'
    BY <1>2, <1>3, <1>4 DEF HandlersSound
<1>6. NewRowsApart'
    <2>. SUFFICES ASSUME NEW q \in Procs, NEW s \in Procs, q # s,
                         Working(op[q])', Working(op[s])', op'[q].row = op'[s].row
                  PROVE  Present(op[q].row)'
        BY DEF NewRowsApart
    <2>1. CASE q # p /\ s # p
        <3>1. Present(op[q].row)
            BY <2>1 DEF IndInv, NewRowsApart, Working
        <3>2. op[q] \in Call
            BY <2>1, CallOfHandler DEF IndInv, Working
        <3>. QED
            BY <2>1, <3>1, <3>2 DEF Kept, Call, Present
    <2>2. CASE q = p \/ s = p
        BY <2>2 DEF Working, Present
    <2>. QED
        BY <2>1, <2>2
<1>. QED
    BY <1>5, <1>6 DEF IndInv

\* A handler that starts, or moves on to a nested call, and changes no row.
LEMMA Entering ==
    ASSUME IndInv, NEW p \in Procs, NEW c \in Call,
           op' = [op EXCEPT ![p] = c],
           UNCHANGED <<rows, real, members, approved>>,
           clock' \in Nat, faults' \in Nat,
           sanctioned \subseteq sanctioned', sanctioned' \subseteq Targets,
           CallSound(c)', c.queue # Idle => QueueSound(c.queue)',
           Present(c.row) \/ Fresh(c.row)
    PROVE  IndInv'
<1>1. TypeOK'
    BY DEF IndInv, TypeOK
<1>2. Kept
    BY DEF Kept, SameGrant, Present
<1>3. RowsCleared' /\ NoUnsanctionedAccess'
    BY DEF IndInv, RowsCleared, NoUnsanctionedAccess, Cleared, Present
<1>4. op'[p] = c /\ \A q \in Procs \ {p} : op'[q] = op[q]
    BY DEF IndInv, TypeOK
<1>5. \A q \in Procs \ {p} : Working(op[q]) /\ Present(op[q].row)' => Present(op[q].row)
    BY <1>4 DEF Present
<1>6. Working(op[p])' /\ op'[p].phase \notin {"link", "next"}
    BY <1>4 DEF Working, Call, Phases
<1>7. CallSound(op[p])' /\ (op'[p].queue # Idle => QueueSound(op[p].queue)')
    BY <1>4 DEF CallSound, QueueSound
<1>8. \/ Present(op[p].row)'
      \/ \A q \in Procs \ {p} : Working(op[q]) => op[q].row # op'[p].row
    BY <1>4 DEF Present, Fresh
<1>. QED
    BY <1>1, <1>2, <1>3, <1>4, <1>5, <1>6, <1>7, <1>8, Frame

\* What a call that supersedes knows of the row it supersedes.
Ousts(c) ==
    /\ c.victim \in Superseded(c.row, c.after.target)
    /\ c.ousted = (rows[c.victim].status = "ACTIVE")
    /\ c.phase = IF rows[c.victim].status = "ACTIVE" THEN "oust" ELSE "replace"

\* Whichever row it supersedes, a handler that enters its grant has the call it was
\* given, at the phase that comes first.
LEMMA EnteringGrant ==
    ASSUME TypeOK, NEW p \in Procs, NEW call \in Call, EnterGrant(p, call)
    PROVE  \E c \in Call :
                /\ op' = [op EXCEPT ![p] = c]
                /\ c.kind = call.kind /\ c.row = call.row /\ c.seen = call.seen
                /\ c.after = call.after /\ c.queue = call.queue
                /\ c.phase \in {"oust", "replace", "grant"}
                /\ c.phase # "grant" => c.victim \in Rows \ {c.row} /\ Present(c.victim) /\ Ousts(c)
<1>1. CASE Superseded(call.row, call.after.target) = {}
    <2>. DEFINE c == [call EXCEPT !.phase = "grant"]
    <2>1. c \in Call
        BY DEF Call, Phases
    <2>2. op' = [op EXCEPT ![p] = c]
        BY <1>1 DEF EnterGrant, Enter
    <2>. QED
        BY <2>1, <2>2 DEF Call
<1>2. CASE Superseded(call.row, call.after.target) # {}
    <2>1. PICK v \in Superseded(call.row, call.after.target) :
            Enter(p, [call EXCEPT !.victim = v, !.ousted = (rows[v].status = "ACTIVE"),
                                  !.phase = IF rows[v].status = "ACTIVE" THEN "oust" ELSE "replace"])
        BY <1>2 DEF EnterGrant
    <2>. DEFINE c == [call EXCEPT !.victim = v, !.ousted = (rows[v].status = "ACTIVE"),
                                  !.phase = IF rows[v].status = "ACTIVE" THEN "oust" ELSE "replace"]
    <2>2. v \in Rows \ {call.row} /\ Present(v)
        BY DEF Superseded, Present
    <2>3. c \in Call
        BY <2>2 DEF Call, Phases
    <2>4. /\ c.kind = call.kind /\ c.row = call.row /\ c.seen = call.seen
          /\ c.after = call.after /\ c.queue = call.queue /\ c.victim = v
          /\ c.ousted = (rows[v].status = "ACTIVE")
          /\ c.phase = IF rows[v].status = "ACTIVE" THEN "oust" ELSE "replace"
        BY DEF Call
    <2>5. op' = [op EXCEPT ![p] = c]
        BY <2>1 DEF Enter
    <2>. HIDE DEF c
    <2>6. Ousts(c)
        BY <2>4 DEF Ousts
    <2>. QED
        BY <2>2, <2>3, <2>4, <2>5, <2>6
<1>. QED
    BY <1>1, <1>2

-----------------------------------------------------------------------------
(* Starting a handler. *)

\* CallOf builds a call.
LEMMA CallOfTyped ==
    ASSUME NEW kind \in Kinds, NEW r \in Rows, NEW seen \in Row, NEW after \in Row, NEW phase \in Phases
    PROVE  CallOf(kind, r, seen, after, phase) \in Call
BY DEF CallOf, Call, Actors

\* The live SoD read counts its fault as a natural number.
LEMMA FaultsTyped ==
    ASSUME TypeOK, NEW live, LiveRead(live)
    PROVE  faults' \in Nat
BY DEF TypeOK, LiveRead

\* create_assignment starts with a row that nobody else holds, usable only if its body
\* needs no approval.
LEMMA CreateKeeps ==
    ASSUME IndInv, NEW p \in Procs, CreateAssignment(p)
    PROVE  IndInv'
<1>1. PICK d \in Payloads, r \in Rows, live \in BOOLEAN :
        /\ Fresh(r)
        /\ LiveRead(live)
        /\ LET new == NewRow(d, InitialStatus(d), NoGroup, SodConflicts(d.target, live) # {})
               call == CallOf("create", r, new, new, "commit")
           IN  IF new.status = "ACTIVE" THEN EnterGrant(p, call) ELSE Enter(p, call)
        /\ Valid(d)
        /\ sanctioned' = IF d.approval THEN sanctioned ELSE sanctioned \cup {d.target}
        /\ UNCHANGED <<rows, real, members, clock, approved>>
    BY DEF CreateAssignment
<1>. DEFINE new  == NewRow(d, InitialStatus(d), NoGroup, SodConflicts(d.target, live) # {})
            call == CallOf("create", r, new, new, "commit")
<1>2. d \in Payload
    BY ConstantsAssumption
<1>3. new \in Row
    BY <1>2 DEF NewRow, InitialStatus, Payload, Row, Statuses, Final, Standing, Time, NoTime, IndInv, TypeOK
<1>4. call \in Call
    BY <1>3, CallOfTyped DEF Kinds, Phases
<1>5. /\ sanctioned \subseteq sanctioned' /\ sanctioned' \subseteq Targets
      /\ clock' \in Nat /\ faults' \in Nat
    BY <1>1, <1>2, FaultsTyped DEF IndInv, TypeOK, Payload
<1>6. new.target = d.target /\ new.approval = d.approval /\ new.status = InitialStatus(d)
    BY DEF NewRow
<1>7. new.status \in Standing \cup {"EXPIRED"} => ~d.approval /\ d.target \in sanctioned'
    BY <1>1, <1>2, <1>6 DEF InitialStatus, Standing, Valid, Payload
<1>8. PICK c \in Call :
        /\ op' = [op EXCEPT ![p] = c]
        /\ c.kind = "create" /\ c.row = r /\ c.seen = new /\ c.after = new /\ c.queue = Idle
        /\ c.phase \in {"oust", "replace", "grant"} =>
                /\ new.status = "ACTIVE"
                /\ c.phase # "grant" => c.victim \in Rows \ {c.row} /\ Present(c.victim)
    <2>1. CASE new.status = "ACTIVE"
        <3>1. EnterGrant(p, call)
            BY <1>1, <2>1
        <3>. QED
            BY <1>4, <2>1, <3>1, EnteringGrant DEF CallOf, IndInv
    <2>2. CASE new.status # "ACTIVE"
        <3>1. op' = [op EXCEPT ![p] = call]
            BY <1>1, <2>2 DEF Enter
        <3>. QED
            BY <1>4, <3>1 DEF CallOf
    <2>. QED
        BY <2>1, <2>2
<1>9. CallSound(c)'
    BY <1>1, <1>6, <1>7, <1>8 DEF CallSound, SameGrant, Cleared, Present, Fresh
<1>. QED
    BY <1>1, <1>5, <1>8, <1>9, Entering DEF Fresh

\* A handler that starts on a row that is there, from a copy that names the same grant.
LEMMA NestedCallKeeps ==
    ASSUME IndInv, NEW p \in Procs, NEW c \in Call, op' = [op EXCEPT ![p] = c],
           UNCHANGED <<rows, real, members, approved, sanctioned, clock>>, faults' \in Nat,
           Present(c.row), SameGrant(rows[c.row], c.seen), SameGrant(c.seen, c.after),
           Cleared(c.row, c.seen),
           c.after.status \in Standing \cup {"EXPIRED"} =>
                c.kind = "approve" \/ c.seen.status \in Standing,
           c.queue # Idle => QueueSound(c.queue),
           c.phase \in {"oust", "replace", "grant"} =>
                c.kind \in {"activate", "start"} /\ c.after.status = "ACTIVE",
           c.phase \in {"oust", "replace"} => c.victim \in Rows \ {c.row} /\ Present(c.victim)
    PROVE  IndInv'
<1>1. CallSound(c)'
    BY DEF CallSound, SameGrant, Cleared, Present, Call
<1>2. c.queue # Idle => QueueSound(c.queue)'
    BY DEF QueueSound, SameGrant, Cleared, Present
<1>. QED
    BY <1>1, <1>2, Entering DEF IndInv, TypeOK

\* A handler that starts on the row as it is now.
LEMMA CallKeeps ==
    ASSUME IndInv, NEW p \in Procs, NEW c \in Call, op' = [op EXCEPT ![p] = c],
           UNCHANGED <<rows, real, members, approved, sanctioned, clock>>, faults' \in Nat,
           Present(c.row), c.seen = rows[c.row], SameGrant(c.seen, c.after),
           c.after.status \in Standing \cup {"EXPIRED"} =>
                c.kind = "approve" \/ c.seen.status \in Standing,
           c.queue # Idle => QueueSound(c.queue),
           c.phase \in {"oust", "replace", "grant"} =>
                c.kind \in {"activate", "start"} /\ c.after.status = "ACTIVE",
           c.phase \in {"oust", "replace"} => c.victim \in Rows \ {c.row} /\ Present(c.victim)
    PROVE  IndInv'
<1>1. Cleared(c.row, c.seen) /\ SameGrant(rows[c.row], c.seen)
    BY DEF IndInv, RowsCleared, Call, SameGrant
<1>. QED
    BY <1>1, NestedCallKeeps

\* A call stays a call with another actor, duration or cascade to return to.
LEMMA CallExtended ==
    ASSUME NEW c \in Call, NEW actor \in Actors, NEW hours \in Nat, NEW q \in Queue \cup {Idle}
    PROVE  /\ [c EXCEPT !.actor = actor] \in Call
           /\ [c EXCEPT !.actor = actor, !.hours = hours] \in Call
           /\ [c EXCEPT !.actor = actor, !.hours = hours, !.queue = q] \in Call
BY DEF Call

\* Activation builds a call.
LEMMA ActivationTyped ==
    ASSUME NEW r \in Rows, NEW seen \in Row, NEW hours \in Nat, NEW waived \in BOOLEAN, clock \in Nat
    PROVE  Activation(r, seen, hours, waived) \in Call
<1>. DEFINE after == [seen EXCEPT !.status = "ACTIVE", !.exp = clock + hours, !.waived = waived]
<1>1. clock + hours \in Time
    BY DEF Time
<1>2. after \in Row
    BY <1>1 DEF Row, Statuses, Standing
<1>. QED
    BY <1>2, CallOfTyped DEF Activation, Kinds, Phases

\* activate_assignment starts on an ELIGIBLE row, whose approval is on record.
LEMMA ActivateKeeps ==
    ASSUME IndInv, NEW p \in Procs, ActivateAssignment(p)
    PROVE  IndInv'
<1>1. PICK r \in Rows, actor \in Actors, hours \in 1..MaxHours, live \in BOOLEAN :
        /\ Present(r) /\ CanActivate(rows[r])
        /\ LiveRead(live)
        /\ EnterGrant(p, [Activation(r, rows[r], hours, SodConflicts(rows[r].target, live) # {})
                            EXCEPT !.actor = actor, !.hours = hours])
        /\ UNCHANGED <<rows, real, members, clock, history>>
    BY DEF ActivateAssignment
<1>. DEFINE call == [Activation(r, rows[r], hours, SodConflicts(rows[r].target, live) # {})
                        EXCEPT !.actor = actor, !.hours = hours]
<1>2. rows[r] \in Row
    BY <1>1, RowOf DEF IndInv
<1>3. call \in Call
    <2>1. hours \in Nat
        BY ConstantsAssumption
    <2>2. Activation(r, rows[r], hours, SodConflicts(rows[r].target, live) # {}) \in Call
        BY <1>2, <2>1, ActivationTyped DEF IndInv, TypeOK
    <2>. QED
        BY <2>1, <2>2, CallExtended
<1>4. /\ call.kind = "activate" /\ call.row = r /\ call.seen = rows[r] /\ call.queue = Idle
      /\ call.after.status = "ACTIVE" /\ SameGrant(rows[r], call.after)
    BY <1>2 DEF Activation, CallOf, SameGrant, Row
<1>5. PICK c \in Call :
        /\ op' = [op EXCEPT ![p] = c]
        /\ c.kind = call.kind /\ c.row = call.row /\ c.seen = call.seen
        /\ c.after = call.after /\ c.queue = call.queue
        /\ c.phase \in {"oust", "replace", "grant"}
        /\ c.phase # "grant" => c.victim \in Rows \ {c.row} /\ Present(c.victim)
    BY <1>1, <1>3, EnteringGrant DEF IndInv
<1>6. faults' \in Nat /\ UNCHANGED <<rows, real, members, approved, sanctioned, clock>>
    BY <1>1, FaultsTyped DEF IndInv, history
<1>. HIDE DEF call
<1>. QED
    BY <1>1, <1>4, <1>5, <1>6, CallKeeps DEF CanActivate, Standing

\* Deactivation builds a call.
LEMMA DeactivationTyped ==
    ASSUME NEW r \in Rows, NEW seen \in Row
    PROVE  Deactivation(r, seen) \in Call
<1>1. [seen EXCEPT !.status = "ELIGIBLE", !.exp = NoTime, !.bypass = FALSE] \in Row
    BY DEF Row, Time, Statuses, Standing
<1>. QED
    BY <1>1, CallOfTyped DEF Deactivation, Kinds, Phases

\* Revocation builds a call.
LEMMA RevocationTyped ==
    ASSUME NEW r \in Rows, NEW seen \in Row
    PROVE  Revocation(r, seen) \in Call
<1>1. [seen EXCEPT !.status = "REVOKED"] \in Row
    BY DEF Row, Statuses, Final
<1>. QED
    BY <1>1, CallOfTyped DEF Revocation, Kinds, Phases

\* deactivate_assignment starts on an ACTIVE row, whose approval is on record.
LEMMA DeactivateKeeps ==
    ASSUME IndInv, NEW p \in Procs, DeactivateAssignment(p)
    PROVE  IndInv'
<1>1. PICK r \in Rows, actor \in Actors :
        /\ Present(r) /\ CanDeactivate(rows[r], actor)
        /\ Enter(p, [Deactivation(r, rows[r]) EXCEPT !.actor = actor])
        /\ UNCHANGED <<rows, real, members, clock, faults, history>>
    BY DEF DeactivateAssignment
<1>2. rows[r] \in Row
    BY <1>1, RowOf DEF IndInv
<1>3. PICK c \in Call : c = [Deactivation(r, rows[r]) EXCEPT !.actor = actor]
    BY <1>2, DeactivationTyped, CallExtended, 0 \in Nat
<1>4. /\ c.kind = "deactivate" /\ c.row = r /\ c.seen = rows[r] /\ c.queue = Idle
      /\ c.phase = "remove" /\ SameGrant(rows[r], c.after)
    BY <1>2, <1>3 DEF Deactivation, CallOf, SameGrant, Row
<1>. QED
    BY <1>1, <1>3, <1>4, CallKeeps DEF CanDeactivate, Standing, Enter, history, IndInv, TypeOK

\* revoke_assignment starts on a row it will make REVOKED, which asks for no approval.
LEMMA RevokeKeeps ==
    ASSUME IndInv, NEW p \in Procs, RevokeAssignment(p)
    PROVE  IndInv'
<1>1. PICK r \in Rows :
        /\ Present(r) /\ Enter(p, Revocation(r, rows[r]))
        /\ UNCHANGED <<rows, real, members, clock, faults, history>>
    BY DEF RevokeAssignment
<1>2. rows[r] \in Row
    BY <1>1, RowOf DEF IndInv
<1>3. PICK c \in Call : c = Revocation(r, rows[r])
    BY <1>2, RevocationTyped
<1>4. /\ c.kind = "revoke" /\ c.row = r /\ c.seen = rows[r] /\ c.queue = Idle
      /\ c.phase \in {"remove", "commit"} /\ SameGrant(rows[r], c.after) /\ c.after.status = "REVOKED"
    BY <1>2, <1>3 DEF Revocation, CallOf, SameGrant, Row
<1>. QED
    BY <1>1, <1>3, <1>4, CallKeeps DEF Standing, Enter, history, IndInv, TypeOK

\* An approval is on record with the commit that makes the row ELIGIBLE; a rejected row
\* asks for none.
LEMMA DecideKeeps ==
    ASSUME IndInv, NEW p \in Procs, DecideAssignment(p)
    PROVE  IndInv'
<1>1. PICK r \in Rows, verdict \in {"approve", "reject"} :
        /\ Present(r)
        /\ Enter(p, CallOf(verdict, r, rows[r],
                [rows[r] EXCEPT !.status = IF verdict = "approve" THEN "ELIGIBLE" ELSE "REJECTED"],
                "commit"))
        /\ UNCHANGED <<rows, real, members, clock, faults, history>>
    BY DEF DecideAssignment
<1>. DEFINE after == [rows[r] EXCEPT !.status = IF verdict = "approve" THEN "ELIGIBLE" ELSE "REJECTED"]
<1>2. rows[r] \in Row /\ after \in Row
    BY <1>1, RowOf DEF IndInv, Row, Statuses, Standing, Final
<1>3. PICK c \in Call : c = CallOf(verdict, r, rows[r], after, "commit")
    BY <1>2, CallOfTyped DEF Kinds, Phases
<1>4. /\ c.kind = verdict /\ c.row = r /\ c.seen = rows[r] /\ c.queue = Idle
      /\ c.phase = "commit" /\ SameGrant(rows[r], c.after)
      /\ c.after.status = IF verdict = "approve" THEN "ELIGIBLE" ELSE "REJECTED"
    BY <1>2, <1>3 DEF CallOf, SameGrant, Row
<1>. QED
    BY <1>1, <1>3, <1>4, CallKeeps DEF Standing, Enter, history, IndInv, TypeOK

\* The workers start on ACTIVE, ELIGIBLE or SCHEDULED rows, whose approval is on record.
LEMMA SweepKeeps ==
    ASSUME IndInv, NEW r \in Rows, Sweeps(r)
    PROVE  IndInv'
<1>1. CASE ExpireDue(r)
    <2>. DEFINE after == IF rows[r].kind = "PERMANENT"
                         THEN [rows[r] EXCEPT !.status = "ELIGIBLE", !.exp = NoTime]
                         ELSE [rows[r] EXCEPT !.status = "EXPIRED"]
    <2>1. Present(r) /\ rows[r].status = "ACTIVE"
        BY <1>1 DEF ExpireDue, Present
    <2>2. rows[r] \in Row /\ after \in Row
        BY <2>1, RowOf DEF IndInv, Row, Statuses, Standing, Final, Time
    <2>3. PICK c \in Call : c = CallOf("expire", r, rows[r], after, "remove")
        BY <2>2, CallOfTyped DEF Kinds, Phases
    <2>4. /\ c.kind = "expire" /\ c.row = r /\ c.seen = rows[r] /\ c.queue = Idle
          /\ c.phase = "remove" /\ SameGrant(rows[r], c.after)
        BY <2>2, <2>3 DEF CallOf, SameGrant, Row
    <2>5. "expiry" \in Procs /\ op' = [op EXCEPT !["expiry"] = c]
        BY <1>1, <2>3 DEF ExpireDue, Enter, Procs, Workers
    <2>. QED
        BY <1>1, <2>1, <2>3, <2>4, <2>5, CallKeeps DEF ExpireDue, Standing, history, IndInv, TypeOK
<1>2. CASE LapseEligibility(r)
    <2>. DEFINE after == [rows[r] EXCEPT !.status = "EXPIRED"]
    <2>1. Present(r) /\ rows[r].status = "ELIGIBLE"
        BY <1>2 DEF LapseEligibility, Present
    <2>2. rows[r] \in Row /\ after \in Row
        BY <2>1, RowOf DEF IndInv, Row, Statuses, Final
    <2>3. PICK c \in Call : c = CallOf("lapse", r, rows[r], after, "commit")
        BY <2>2, CallOfTyped DEF Kinds, Phases
    <2>4. /\ c.kind = "lapse" /\ c.row = r /\ c.seen = rows[r] /\ c.queue = Idle
          /\ c.phase = "commit" /\ SameGrant(rows[r], c.after)
        BY <2>2, <2>3 DEF CallOf, SameGrant, Row
    <2>5. "expiry" \in Procs /\ op' = [op EXCEPT !["expiry"] = c]
        BY <1>2, <2>3 DEF LapseEligibility, Enter, Procs, Workers
    <2>. QED
        BY <1>2, <2>1, <2>3, <2>4, <2>5, CallKeeps DEF LapseEligibility, Standing, history, IndInv, TypeOK
<1>3. CASE StartScheduled(r)
    <2>. DEFINE after == [rows[r] EXCEPT !.status = "ACTIVE", !.waived = FALSE]
    <2>1. Present(r) /\ rows[r].status = "SCHEDULED"
        BY <1>3 DEF StartScheduled, Present
    <2>2. rows[r] \in Row /\ after \in Row
        BY <2>1, RowOf DEF IndInv, Row, Statuses, Standing
    <2>3. PICK c \in Call : c = CallOf("start", r, rows[r], after, "grant")
        BY <2>2, CallOfTyped DEF Kinds, Phases
    <2>4. /\ c.kind = "start" /\ c.row = r /\ c.seen = rows[r] /\ c.queue = Idle
          /\ c.phase = "grant" /\ SameGrant(rows[r], c.after) /\ c.after.status = "ACTIVE"
        BY <2>2, <2>3 DEF CallOf, SameGrant, Row
    <2>5. "activation" \in Procs /\ op' = [op EXCEPT !["activation"] = c] /\ faults' \in Nat
        BY <1>3, <2>3, FaultsTyped DEF StartScheduled, Enter, Procs, Workers, IndInv
    <2>. QED
        BY <1>3, <2>1, <2>3, <2>4, <2>5, CallKeeps DEF StartScheduled, Standing, history
<1>. QED
    BY <1>1, <1>2, <1>3 DEF Sweeps

-----------------------------------------------------------------------------
(* The provider's calls, the supersede and the commit. *)

\* A handler that moves on to its next phase without touching a row.
LEMMA AdvanceKeeps ==
    ASSUME IndInv, NEW p \in Procs, Working(op[p]), NEW phase \in {"replace", "commit"},
           op[p].phase = "oust" \/ phase = "commit",
           op' = [op EXCEPT ![p].phase = phase],
           UNCHANGED <<rows, members, clock, faults, approved, sanctioned>>,
           real' \subseteq Targets, NoUnsanctionedAccess'
    PROVE  IndInv'
<1>1. PICK c \in Call : c = [op[p] EXCEPT !.phase = phase]
    BY CallOfHandler DEF IndInv, Call, Phases
<1>2. op[p] \in Call /\ CallSound(op[p]) /\ (op[p].queue # Idle => QueueSound(op[p].queue))
    BY CallOfHandler DEF IndInv, HandlersSound
<1>3. /\ c.kind = op[p].kind /\ c.row = op[p].row /\ c.seen = op[p].seen /\ c.after = op[p].after
      /\ c.victim = op[p].victim /\ c.queue = op[p].queue /\ c.phase = phase
    BY <1>1, <1>2 DEF Call
<1>4. op' = [op EXCEPT ![p] = c]
    BY <1>1
<1>5. op'[p] = c /\ \A q \in Procs \ {p} : op'[q] = op[q]
    BY <1>4 DEF IndInv, TypeOK
<1>6. TypeOK'
    BY <1>4 DEF IndInv, TypeOK
<1>7. Kept /\ RowsCleared'
    BY DEF Kept, SameGrant, Present, IndInv, RowsCleared, Cleared
<1>8. CallSound(op[p])'
    BY <1>2, <1>3, <1>5 DEF CallSound, SameGrant, Cleared, Present
<1>9. op'[p].queue # Idle => QueueSound(op[p].queue)'
    BY <1>2, <1>3, <1>5 DEF QueueSound, SameGrant, Cleared, Present
<1>10. \A q \in Procs \ {p} : Working(op[q]) /\ Present(op[q].row)' => Present(op[q].row)
    BY <1>5 DEF Present
<1>11. op'[p].phase \notin {"link", "next"}
    BY <1>3, <1>5
<1>12. \/ Present(op[p].row)'
       \/ \A q \in Procs \ {p} : Working(op[q]) => op[q].row # op'[p].row
    BY <1>3, <1>5 DEF IndInv, NewRowsApart, Present
<1>. QED
    BY <1>5, <1>6, <1>7, <1>8, <1>9, <1>10, <1>11, <1>12, Frame

\* The heart of the matter: whoever is about to call the provider to grant access holds
\* a copy of its row that was ELIGIBLE, SCHEDULED or newly created when it was read, so
\* the target was decided on, whatever the row has become since.
LEMMA GrantIsSanctioned ==
    ASSUME IndInv, NEW p \in Procs, op[p].phase = "grant"
    PROVE  op[p].after.target \in Targets \cap sanctioned
<1>1. op[p] \in Call /\ CallSound(op[p])
    BY CallOfHandler DEF IndInv, HandlersSound, Working, Phases
<1>. QED
    BY <1>1 DEF CallSound, Cleared, Call, Row, Standing

\* Taking the superseded row's access away keeps the invariant.
LEMMA OustKeeps ==
    ASSUME IndInv, NEW p \in Procs, Oust(p)
    PROVE  IndInv'
<1>1. Working(op[p])
    BY DEF Oust, Working, Phases
<1>2. real' \subseteq Targets /\ NoUnsanctionedAccess'
    BY DEF Oust, IndInv, TypeOK, NoUnsanctionedAccess, history
<1>. QED
    BY <1>1, <1>2, AdvanceKeeps DEF Oust, history

\* So does taking a row's own access away.
LEMMA RemoveKeeps ==
    ASSUME IndInv, NEW p \in Procs, RemoveAccess(p)
    PROVE  IndInv'
<1>1. Working(op[p])
    BY DEF RemoveAccess, Working, Phases
<1>2. real' \subseteq Targets /\ NoUnsanctionedAccess'
    BY DEF RemoveAccess, IndInv, TypeOK, NoUnsanctionedAccess, history
<1>. QED
    BY <1>1, <1>2, AdvanceKeeps DEF RemoveAccess, history

\* Adding access does, because it was decided on.
LEMMA GrantKeeps ==
    ASSUME IndInv, NEW p \in Procs, GrantAccess(p)
    PROVE  IndInv'
<1>1. Working(op[p])
    BY DEF GrantAccess, Working, Phases
<1>2. real' \subseteq Targets /\ NoUnsanctionedAccess'
    BY GrantIsSanctioned DEF GrantAccess, IndInv, TypeOK, NoUnsanctionedAccess, history
<1>. QED
    BY <1>1, <1>2, AdvanceKeeps DEF GrantAccess, history

\* A handler that gives up leaves only the cascade it was part of.
LEMMA GivingUpKeeps ==
    ASSUME IndInv, NEW p \in Procs, Working(op[p]), op' = [op EXCEPT ![p] = op[p].queue],
           UNCHANGED <<rows, members, clock, approved, sanctioned>>,
           faults' \in Nat, real' \subseteq Targets, NoUnsanctionedAccess'
    PROVE  IndInv'
<1>1. op[p] \in Call /\ (op[p].queue # Idle => QueueSound(op[p].queue))
    BY CallOfHandler DEF IndInv, HandlersSound
<1>2. op[p].queue \in Queue \cup {Idle}
    BY <1>1 DEF Call
<1>3. op'[p] = op[p].queue /\ \A q \in Procs \ {p} : op'[q] = op[q]
    BY DEF IndInv, TypeOK
<1>4. TypeOK'
    BY <1>2 DEF IndInv, TypeOK
<1>5. Kept /\ RowsCleared'
    BY DEF Kept, SameGrant, Present, IndInv, RowsCleared, Cleared
<1>6. ~Working(op[p])'
    BY <1>2, <1>3 DEF Working, Phases, Queue, Idle
<1>7. op'[p].phase \in {"link", "next"} => QueueSound(op[p])'
    BY <1>1, <1>3 DEF QueueSound, SameGrant, Cleared, Present, Idle
<1>8. \A q \in Procs \ {p} : Working(op[q]) /\ Present(op[q].row)' => Present(op[q].row)
    BY <1>3 DEF Present
<1>. QED
    BY <1>3, <1>4, <1>5, <1>6, <1>7, <1>8, Frame

\* A refused or lost call makes the handler give up; a lost grant was decided on.
LEMMA FaultKeeps ==
    ASSUME IndInv, NEW p \in Procs, CallRefused(p) \/ ReplyLost(p)
    PROVE  IndInv'
<1>1. Working(op[p]) /\ op[p] \in Call
    BY CallOfHandler DEF CallRefused, ReplyLost, Working, Phases, IndInv
<1>2. op' = [op EXCEPT ![p] = op[p].queue] /\ faults' \in Nat
    BY DEF CallRefused, ReplyLost, IndInv, TypeOK
<1>3. UNCHANGED <<rows, members, clock, approved, sanctioned>>
    BY DEF CallRefused, ReplyLost, history
<1>4. real' \subseteq Targets /\ NoUnsanctionedAccess'
    BY GrantIsSanctioned DEF CallRefused, ReplyLost, IndInv, TypeOK, NoUnsanctionedAccess, history
<1>. QED
    BY <1>1, <1>2, <1>3, <1>4, GivingUpKeeps

\* The supersede's commit makes one row REVOKED and may put the new row there: that row
\* is its handler's own, and the superseded one keeps the grant it names.
LEMMA ReplaceKeeps ==
    ASSUME IndInv, NEW p \in Procs, Replace(p)
    PROVE  IndInv'
<1>. DEFINE o == op[p]
<1>1. o \in Call /\ CallSound(o) /\ (o.queue # Idle => QueueSound(o.queue)) /\ Working(o)
    BY CallOfHandler DEF IndInv, HandlersSound, Replace, Working, Phases
<1>2. /\ o.victim \in Rows \ {o.row} /\ Present(o.victim) /\ o.row \in Rows
      /\ o.kind \in {"create", "activate", "start"} /\ o.after.status = "ACTIVE"
    BY <1>1 DEF CallSound, Replace, Call
<1>3. rows[o.victim] \in Row /\ o.after \in Row
    BY <1>1, <1>2, RowOf DEF IndInv, Call
<1>4. /\ rows' \in [Rows -> Row \cup {Absent}]
      /\ rows'[o.victim] = [rows[o.victim] EXCEPT !.status = "REVOKED"]
      /\ rows'[o.row] = IF o.kind = "create" THEN o.after ELSE rows[o.row]
      /\ \A r \in Rows \ {o.row, o.victim} : rows'[r] = rows[r]
    <2>1. [rows[o.victim] EXCEPT !.status = "REVOKED"] \in Row
        BY <1>3 DEF Row, Statuses, Final
    <2>2. rows \in [Rows -> Row \cup {Absent}]
        BY DEF IndInv, TypeOK
    <2>. QED
        BY <1>2, <1>3, <2>1, <2>2 DEF Replace
<1>5. PICK q \in Queue \cup {Idle} : q = Dropped(o.queue, o.victim)
    <2>1. CASE o.queue # Idle
        <3>. DEFINE todo == {IF item.row = o.victim THEN [item EXCEPT !.seen.status = "REVOKED"] ELSE item :
                                item \in o.queue.todo}
        <3>1. o.queue \in Queue
            BY <1>1, <2>1 DEF Call
        <3>2. \A item \in o.queue.todo :
                [item EXCEPT !.seen.status = "REVOKED"] \in [row : Rows, seen : Row]
            BY <3>1 DEF Queue, Row, Statuses, Final
        <3>3. todo \subseteq [row : Rows, seen : Row]
            BY <3>1, <3>2 DEF Queue
        <3>4. [o.queue EXCEPT !.todo = todo] \in Queue
            BY <3>1, <3>3 DEF Queue
        <3>. QED
            BY <2>1, <3>4 DEF Dropped
    <2>. QED
        BY <1>1, <2>1 DEF Call, Dropped
<1>6. PICK c \in Call : c = [o EXCEPT !.phase = "grant", !.queue = q]
    BY <1>1, <1>5 DEF Call, Phases
<1>7. /\ c.kind = o.kind /\ c.row = o.row /\ c.seen = o.seen /\ c.after = o.after
      /\ c.phase = "grant" /\ c.queue = q
    BY <1>1, <1>6 DEF Call
<1>8. op' = [op EXCEPT ![p] = c]
    <2>1. op' = [op EXCEPT ![p] = [op[p] EXCEPT !.phase = "grant",
                                               !.queue = Dropped(op[p].queue, op[p].victim)]]
        BY DEF Replace, Enter
    <2>. QED
        BY <1>5, <1>6, <2>1
<1>9. op'[p] = c /\ \A s \in Procs \ {p} : op'[s] = op[s]
    BY <1>8 DEF IndInv, TypeOK
<1>10. UNCHANGED <<real, clock, faults, approved, sanctioned>>
    BY DEF Replace, history
<1>11. TypeOK'
    <2>1. members' \subseteq Groups
        BY DEF Replace, IndInv, TypeOK
    <2>. QED
        BY <1>4, <1>8, <1>10, <2>1 DEF IndInv, TypeOK
<1>12. rows'[o.victim].status = "REVOKED" /\ SameGrant(rows[o.victim], rows'[o.victim])
    BY <1>3, <1>4 DEF Row, SameGrant
<1>13. /\ rows'[o.row].status # "ABSENT"
       /\ Present(o.row) => SameGrant(rows[o.row], rows'[o.row])
       /\ SameGrant(rows'[o.row], o.after)
    <2>1. Present(o.row) => SameGrant(rows[o.row], o.after)
        BY <1>1 DEF CallSound
    <2>2. o.after.status # "ABSENT" /\ (~Present(o.row) => o.kind = "create")
        BY <1>1, <1>2 DEF CallSound
    <2>. QED
        BY <1>4, <2>1, <2>2 DEF SameGrant, Present
<1>14. Kept
    BY <1>4, <1>10, <1>12, <1>13 DEF Kept, SameGrant, Present
<1>15. RowsCleared'
    <2>1. Cleared(o.row, o.after)
        BY <1>1, <1>2 DEF CallSound
    <2>. QED
        BY <1>4, <1>10, <1>12, <2>1 DEF IndInv, RowsCleared, Cleared, Present, Standing
<1>16. NoUnsanctionedAccess'
    BY <1>10 DEF IndInv, NoUnsanctionedAccess
<1>17. \A s \in Procs \ {p} : Working(op[s]) /\ Present(op[s].row)' => Present(op[s].row)
    <2>. SUFFICES ASSUME NEW s \in Procs \ {p}, Working(op[s]), Present(op[s].row)'
                  PROVE  Present(op[s].row)
        OBVIOUS
    <2>1. op[s] \in Call /\ (op[s].row = o.row => Present(op[s].row))
        BY <1>1, CallOfHandler DEF IndInv, NewRowsApart
    <2>2. op[s].row \in Rows
        BY <2>1 DEF Call
    <2>. QED
        BY <1>2, <1>4, <1>9, <2>1, <2>2 DEF Present
<1>18. CallSound(op[p])'
    BY <1>1, <1>2, <1>7, <1>9, <1>10, <1>13 DEF CallSound, Cleared, SameGrant, Present
<1>19. op'[p].queue # Idle => QueueSound(op[p].queue)'
    <2>. SUFFICES ASSUME q # Idle
                  PROVE  QueueSound(q)'
        BY <1>7, <1>9 DEF QueueSound, Cleared, SameGrant, Present
    <2>0. o.queue # Idle
        BY <1>5 DEF Dropped
    <2>1. PICK old \in Queue : old = o.queue
        BY <1>1, <2>0 DEF Call
    <2>2. QueueSound(old)'
        BY <1>1, <1>14, <2>0, <2>1, QueueStaysSound DEF QueueSound, Cleared, SameGrant, Present
    <2>3. q.todo = {IF item.row = o.victim THEN [item EXCEPT !.seen.status = "REVOKED"] ELSE item :
                        item \in old.todo}
        BY <1>5, <2>0, <2>1 DEF Dropped, Queue
    <2>4. \A item \in q.todo : \E was \in old.todo :
            /\ item.row = was.row /\ SameGrant(item.seen, was.seen)
            /\ item.seen.status = was.seen.status \/ item.seen.status = "REVOKED"
        BY <2>3 DEF Queue, Row, SameGrant
    <2>5. \A item \in q.todo :
            Present(item.row)' /\ SameGrant(rows'[item.row], item.seen) /\ Cleared(item.row, item.seen)'
        BY <2>2, <2>4 DEF QueueSound, Cleared, SameGrant, Present, Standing
    <2>. QED
        BY <2>5 DEF QueueSound
<1>20. Present(op[p].row)'
    BY <1>7, <1>9, <1>13 DEF Present
<1>21. op'[p].phase \notin {"link", "next"}
    BY <1>7, <1>9
<1>. HIDE DEF o
<1>. QED
    BY <1>9, <1>11, <1>14, <1>15, <1>16, <1>17, <1>18, <1>19, <1>20, <1>21, Frame

\* A handler that ends its call, or takes up a cascade.
LEMMA Queueing ==
    ASSUME IndInv, NEW p \in Procs, NEW q \in Queue \cup {Idle}, op' = [op EXCEPT ![p] = q],
           TypeOK', Kept, RowsCleared', NoUnsanctionedAccess',
           \A s \in Procs \ {p} : Working(op[s]) /\ Present(op[s].row)' => Present(op[s].row),
           q # Idle => QueueSound(q)'
    PROVE  IndInv'
<1>1. op'[p] = q /\ \A s \in Procs \ {p} : op'[s] = op[s]
    BY DEF IndInv, TypeOK
<1>2. ~Working(op[p])'
    BY <1>1 DEF Working, Phases, Queue, Idle
<1>3. op'[p].phase \in {"link", "next"} => QueueSound(op[p])'
    BY <1>1 DEF QueueSound, SameGrant, Cleared, Present, Idle
<1>. QED
    BY <1>1, <1>2, <1>3, Frame

\* The columns a commit writes over a row leave the grant it names as it was, and its
\* status is the row's own or the one the handler computed.
LEMMA FlushKeepsGrant ==
    ASSUME NEW row \in Row, NEW seen \in Row, NEW after \in Row
    PROVE  /\ Flush(row, seen, after) \in Row
           /\ SameGrant(row, Flush(row, seen, after))
           /\ Flush(row, seen, after).status \in {row.status, after.status}
BY DEF Flush, Written, Row, SameGrant

\* The blind write of a commit: the status it leaves is the row's own, cleared already, or
\* the handler's, cleared when the handler read its row; both name the same grant.
LEMMA CommitKeeps ==
    ASSUME IndInv, NEW p \in Procs, Commit(p)
    PROVE  IndInv'
<1>. DEFINE o == op[p]
            r == op[p].row
            cascades == o.kind \in {"activate", "deactivate", "revoke"} /\ o.after.target \in Groups
            next == IF cascades
                    THEN [phase |-> "link", kind |-> o.kind, group |-> o.after.target,
                          actor |-> o.actor, hours |-> o.hours, todo |-> {}]
                    ELSE o.queue
<1>1. o \in Call /\ CallSound(o) /\ (o.queue # Idle => QueueSound(o.queue)) /\ Working(o)
    BY CallOfHandler DEF IndInv, HandlersSound, Commit, Working, Phases
<1>2. r \in Rows /\ o.seen \in Row /\ o.after \in Row
    BY <1>1 DEF Call
<1>3. /\ rows' = [rows EXCEPT ![r] = IF Present(r) THEN Flush(rows[r], o.seen, o.after) ELSE o.after]
      /\ op' = [op EXCEPT ![p] = next]
      /\ approved' = IF o.kind = "approve" THEN approved \cup {r} ELSE approved
      /\ sanctioned' = IF o.kind = "approve" THEN sanctioned \cup {o.after.target} ELSE sanctioned
      /\ UNCHANGED <<real, clock, faults>>
    BY DEF Commit
<1>4. members' \subseteq Groups
    BY DEF Commit, Member, IndInv, TypeOK
<1>5. /\ rows'[r] \in Row
      /\ \A s \in Rows \ {r} : rows'[s] = rows[s]
      /\ SameGrant(rows'[r], o.after)
      /\ Present(r) => SameGrant(rows[r], rows'[r])
      /\ rows'[r].status = o.after.status \/ (Present(r) /\ rows'[r].status = rows[r].status)
    <2>1. rows \in [Rows -> Row \cup {Absent}]
        BY DEF IndInv, TypeOK
    <2>2. CASE Present(r)
        <3>1. rows'[r] = Flush(rows[r], o.seen, o.after) /\ rows[r] \in Row
            BY <1>2, <1>3, <2>1, <2>2, RowOf DEF IndInv
        <3>2. SameGrant(rows[r], o.after)
            BY <1>1, <2>2 DEF CallSound
        <3>. QED
            BY <1>2, <1>3, <2>1, <2>2, <3>1, <3>2, FlushKeepsGrant DEF SameGrant
    <2>3. CASE ~Present(r)
        BY <1>2, <1>3, <2>1, <2>3 DEF SameGrant
    <2>. QED
        BY <2>2, <2>3
<1>6. rows'[r].status # "ABSENT"
    BY <1>5 DEF Row, Statuses, Final, Standing
<1>7. Kept
    BY <1>3, <1>5, <1>6 DEF Kept, SameGrant, Present
<1>8. RowsCleared'
    <2>1. o.kind # "approve" => Cleared(r, o.after)
        BY <1>1 DEF CallSound
    <2>2. Cleared(r, rows[r]) \/ ~Present(r)
        BY <1>2 DEF IndInv, RowsCleared
    <2>3. rows'[r].status \in Standing \cup {"EXPIRED"} =>
            (rows'[r].approval => r \in approved') /\ rows'[r].target \in sanctioned'
        BY <1>2, <1>3, <1>5, <2>1, <2>2 DEF Cleared, SameGrant
    <2>. QED
        BY <1>3, <1>5, <2>3 DEF IndInv, RowsCleared, Cleared, Present
<1>9. NoUnsanctionedAccess'
    BY <1>3 DEF IndInv, NoUnsanctionedAccess
<1>10. PICK q \in Queue \cup {Idle} : q = next
    <2>1. cascades => next \in Queue
        BY <1>1 DEF Call, Queue
    <2>. QED
        BY <1>1, <2>1 DEF Call
<1>11. op' = [op EXCEPT ![p] = q]
    BY <1>3, <1>10
<1>12. TypeOK'
    <2>1. o.after.target \in Targets
        BY <1>2 DEF Row
    <2>2. rows' \in [Rows -> Row \cup {Absent}]
        BY <1>2, <1>3, <1>5 DEF IndInv, TypeOK
    <2>3. approved' \subseteq Rows /\ sanctioned' \subseteq Targets
        BY <1>2, <1>3, <2>1 DEF IndInv, TypeOK
    <2>. QED
        BY <1>3, <1>4, <1>11, <2>2, <2>3 DEF IndInv, TypeOK
<1>13. \A s \in Procs \ {p} : Working(op[s]) /\ Present(op[s].row)' => Present(op[s].row)
    <2>. SUFFICES ASSUME NEW s \in Procs \ {p}, Working(op[s]), Present(op[s].row)'
                  PROVE  Present(op[s].row)
        OBVIOUS
    <2>1. op[s] \in Call /\ (op[s].row = r => Present(op[s].row))
        BY <1>1, CallOfHandler DEF IndInv, NewRowsApart
    <2>2. op[s].row \in Rows /\ op'[s] = op[s]
        BY <1>11, <2>1 DEF Call, IndInv, TypeOK
    <2>. QED
        BY <1>5, <2>1, <2>2 DEF Present
<1>14. q # Idle => QueueSound(q)'
    <2>1. CASE cascades
        BY <1>10, <2>1 DEF QueueSound
    <2>2. CASE ~cascades
        BY <1>1, <1>7, <1>10, <2>2, QueueStaysSound DEF QueueSound, Cleared, SameGrant, Present
    <2>. QED
        BY <2>1, <2>2
<1>. QED
    BY <1>7, <1>8, <1>9, <1>11, <1>12, <1>13, <1>14, Queueing

-----------------------------------------------------------------------------
(* The cascades, the sync and the environment. *)

\* A row that a mapping creates is nobody else's, and the mapping is the decision.
LEMMA EvaluateKeeps ==
    ASSUME IndInv, NEW p \in Procs, EvaluateMapping(p)
    PROVE  IndInv'
<1>1. PICK m \in Missing, r \in Rows :
        /\ Fresh(r)
        /\ rows' = [rows EXCEPT ![r] = NewRow(MappingPayload(m[2]), "ELIGIBLE", m[1], FALSE)]
        /\ sanctioned' = sanctioned \cup {m[2]}
    BY DEF EvaluateMapping
<1>. DEFINE new == NewRow(MappingPayload(m[2]), "ELIGIBLE", m[1], FALSE)
<1>2. m[1] \in Groups /\ m[2] \in Targets
    BY DEF Missing
<1>3. /\ new \in Row /\ new.status = "ELIGIBLE" /\ new.target = m[2] /\ new.approval = FALSE
    BY <1>2 DEF NewRow, MappingPayload, Row, Statuses, Standing, Time, IndInv, TypeOK
<1>4. UNCHANGED <<real, members, clock, op, faults, approved>>
    BY DEF EvaluateMapping
<1>. HIDE DEF new
<1>5. rows'[r] = new /\ (\A s \in Rows \ {r} : rows'[s] = rows[s]) /\ rows' \in [Rows -> Row \cup {Absent}]
    BY <1>1, <1>3 DEF IndInv, TypeOK, new
<1>6. op[p] \in Queue /\ QueueSound(op[p])
    BY QueueOfHandler DEF EvaluateMapping, IndInv, HandlersSound
<1>7. PICK q \in Queue : q = op[p]
    BY <1>6
<1>8. TypeOK' /\ op' = [op EXCEPT ![p] = q]
    BY <1>1, <1>2, <1>4, <1>5, <1>7 DEF IndInv, TypeOK
<1>9. Kept
    BY <1>1, <1>4, <1>5 DEF Kept, Fresh, SameGrant, Present
<1>10. RowsCleared' /\ NoUnsanctionedAccess'
    BY <1>1, <1>3, <1>4, <1>5 DEF IndInv, RowsCleared, NoUnsanctionedAccess, Cleared, Present
<1>11. \A s \in Procs \ {p} : Working(op[s]) /\ Present(op[s].row)' => Present(op[s].row)
    <2>. SUFFICES ASSUME NEW s \in Procs \ {p}, Working(op[s]), Present(op[s].row)'
                  PROVE  Present(op[s].row)
        OBVIOUS
    <2>1. op[s].row \in Rows \ {r}
        BY <1>1, CallOfHandler DEF IndInv, Fresh, Call
    <2>. QED
        BY <1>4, <1>5, <2>1 DEF Present
<1>12. QueueSound(q)'
    BY <1>6, <1>7, <1>9, QueueStaysSound DEF QueueSound, Cleared, SameGrant, Present
<1>. QED
    BY <1>8, <1>9, <1>10, <1>11, <1>12, Queueing

\* A cascade that moves on without changing a row.
LEMMA TurningToQueue ==
    ASSUME IndInv, NEW p \in Procs, NEW q \in Queue \cup {Idle}, op' = [op EXCEPT ![p] = q],
           UNCHANGED <<rows, real, members, clock, approved, sanctioned>>, faults' \in Nat,
           q # Idle => QueueSound(q)
    PROVE  IndInv'
<1>1. TypeOK' /\ Kept /\ RowsCleared' /\ NoUnsanctionedAccess'
    BY DEF IndInv, TypeOK, Kept, RowsCleared, NoUnsanctionedAccess, SameGrant, Cleared, Present
<1>2. \A s \in Procs \ {p} : Working(op[s]) /\ Present(op[s].row)' => Present(op[s].row)
    BY DEF Present, IndInv, TypeOK
<1>3. q # Idle => QueueSound(q)'
    BY DEF QueueSound, SameGrant, Cleared, Present
<1>. QED
    BY <1>1, <1>2, <1>3, Queueing

\* The rows a cascade lists are rows.
LEMMA SnapshotTyped ==
    ASSUME TypeOK, NEW S \in SUBSET Rows, \A r \in S : Present(r)
    PROVE  Snapshot(S) \subseteq [row : Rows, seen : Row]
BY RowOf DEF Snapshot

\* A cascade lists rows as they are now.
LEMMA ListKeeps ==
    ASSUME IndInv, NEW p \in Procs, ListLinked(p)
    PROVE  IndInv'
<1>. DEFINE listed == LinkedRows(op[p].group, op[p].kind)
<1>1. op[p] \in Queue
    BY QueueOfHandler DEF ListLinked, IndInv
<1>2. listed \subseteq Rows /\ \A r \in listed : Present(r)
    BY DEF LinkedRows, Live
<1>3. Snapshot(listed) \subseteq [row : Rows, seen : Row]
    BY <1>2, SnapshotTyped DEF IndInv
<1>4. PICK q \in Queue \cup {Idle} :
        q = IF op[p].kind = "sync" THEN Idle
            ELSE [op[p] EXCEPT !.phase = "next", !.todo = Snapshot(listed)]
    BY <1>1, <1>3 DEF Queue
<1>5. op' = [op EXCEPT ![p] = q]
    BY <1>4 DEF ListLinked
<1>6. q # Idle => QueueSound(q)
    <2>1. q # Idle => q.todo = Snapshot(listed)
        BY <1>1, <1>4 DEF Queue
    <2>. QED
        BY <1>2, <2>1 DEF QueueSound, Snapshot, SameGrant, IndInv, RowsCleared
<1>. QED
    BY <1>4, <1>5, <1>6, TurningToQueue DEF ListLinked, history, IndInv, TypeOK

\* A cascade with nothing left ends.
LEMMA FinishKeeps ==
    ASSUME IndInv, NEW p \in Procs, FinishLinked(p)
    PROVE  IndInv'
<1>1. op[p] \in Queue /\ QueueSound(op[p])
    BY QueueOfHandler DEF FinishLinked, IndInv, HandlersSound
<1>2. PICK q \in Queue \cup {Idle} :
        q = IF op[p].kind = "sync" THEN [op[p] EXCEPT !.phase = "link"] ELSE Idle
    BY <1>1 DEF Queue
<1>3. op' = [op EXCEPT ![p] = q]
    BY <1>2 DEF FinishLinked
<1>4. q # Idle => QueueSound(q)
    BY <1>1, <1>2 DEF QueueSound, Queue
<1>. QED
    BY <1>3, <1>4, TurningToQueue DEF FinishLinked, history, IndInv, TypeOK

\* A step that touches neither a row nor a handler.
LEMMA QuietKeeps ==
    ASSUME IndInv, TypeOK', UNCHANGED <<rows, op, approved, sanctioned>>, NoUnsanctionedAccess'
    PROVE  IndInv'
BY DEF IndInv, RowsCleared, HandlersSound, NewRowsApart, CallSound, QueueSound, Cleared, SameGrant,
       Present, Working

\* A change made in the directory itself concerns outside-managed targets only.
LEMMA DirectoryKeeps ==
    ASSUME IndInv, DirectoryChanges
    PROVE  IndInv'
<1>1. real' \subseteq real \cup Outside
    BY DEF DirectoryChanges
<1>2. TypeOK' /\ NoUnsanctionedAccess'
    BY <1>1, ConstantsAssumption DEF DirectoryChanges, IndInv, TypeOK, NoUnsanctionedAccess, history
<1>. QED
    BY <1>2, QuietKeeps DEF DirectoryChanges, history

\* Time passes.
LEMMA TickKeeps ==
    ASSUME IndInv, Tick
    PROVE  IndInv'
<1>1. TypeOK' /\ NoUnsanctionedAccess'
    BY DEF Tick, IndInv, TypeOK, NoUnsanctionedAccess, history
<1>. QED
    BY <1>1, QuietKeeps DEF Tick, history

\* After a crash there is no handler whose knowledge could be wrong.
LEMMA CrashKeeps ==
    ASSUME IndInv, Crash
    PROVE  IndInv'
<1>1. TypeOK' /\ NoUnsanctionedAccess' /\ RowsCleared'
    BY DEF Crash, IndInv, TypeOK, NoUnsanctionedAccess, RowsCleared, Cleared, Present, history
<1>2. \A p \in Procs : ~Working(op[p])' /\ op'[p].phase \notin {"link", "next"}
    BY DEF Crash, Working, Phases, Idle
<1>. QED
    BY <1>1, <1>2 DEF IndInv, HandlersSound, NewRowsApart

\* A nested call starts from the copy its cascade loaded, which names the row's grant and
\* was cleared then.
LEMMA NextKeeps ==
    ASSUME IndInv, NEW p \in Procs, NextLinked(p)
    PROVE  IndInv'
<1>. DEFINE rest(item) == [op[p] EXCEPT !.todo = @ \ {item}]
            waived(item, live) == SodConflicts(item.seen.target, live) # {}
            call(item, live) ==
                CASE rest(item).kind = "activate" ->
                        Activation(item.row, item.seen, rest(item).hours, waived(item, live))
                  [] rest(item).kind = "deactivate" -> Deactivation(item.row, item.seen)
                  [] OTHER -> Revocation(item.row, item.seen)
            proceeds(item, live) ==
                CASE rest(item).kind = "activate" ->
                        CanActivate(item.seen) /\ (waived(item, live) => rest(item).actor = "override")
                  [] rest(item).kind = "deactivate" -> CanDeactivate(item.seen, rest(item).actor)
                  [] OTHER -> CanRevoke(item.seen)
            nested(item, live) ==
                [call(item, live) EXCEPT !.actor = rest(item).actor, !.hours = rest(item).hours,
                                         !.queue = rest(item)]
<1>1. PICK item \in op[p].todo, live \in BOOLEAN :
        /\ IF rest(item).kind = "activate" THEN LiveRead(live) ELSE live /\ UNCHANGED faults
        /\ IF ~proceeds(item, live) THEN Enter(p, rest(item))
           ELSE IF rest(item).kind = "activate" THEN EnterGrant(p, nested(item, live))
                                                ELSE Enter(p, nested(item, live))
    BY DEF NextLinked
<1>2. /\ UNCHANGED <<rows, real, members, clock, approved, sanctioned>>
      /\ faults' \in Nat
    BY <1>1, FaultsTyped DEF NextLinked, history, IndInv, TypeOK
<1>3. op[p] \in Queue /\ QueueSound(op[p])
    BY QueueOfHandler DEF NextLinked, IndInv, HandlersSound
<1>4. PICK q \in Queue : q = rest(item)
    BY <1>3 DEF Queue
<1>5. /\ QueueSound(q) /\ q.kind = op[p].kind /\ q.actor \in Actors /\ q.hours \in Nat
    BY <1>3, <1>4 DEF QueueSound, Queue
<1>6. /\ item.row \in Rows /\ item.seen \in Row
      /\ Present(item.row) /\ SameGrant(rows[item.row], item.seen) /\ Cleared(item.row, item.seen)
    BY <1>3 DEF Queue, QueueSound
<1>7. CASE ~proceeds(item, live)
    <2>1. op' = [op EXCEPT ![p] = q]
        BY <1>1, <1>4, <1>7 DEF Enter
    <2>. QED
        BY <1>2, <1>5, <2>1, TurningToQueue
<1>8. CASE proceeds(item, live) /\ q.kind = "activate"
    <2>1. Activation(item.row, item.seen, q.hours, waived(item, live)) \in Call
        BY <1>5, <1>6, ActivationTyped DEF IndInv, TypeOK
    <2>2. PICK n \in Call :
            n = [Activation(item.row, item.seen, q.hours, waived(item, live))
                    EXCEPT !.actor = q.actor, !.hours = q.hours, !.queue = q]
        BY <1>5, <2>1, CallExtended
    <2>3. EnterGrant(p, n)
        BY <1>1, <1>4, <1>8, <2>2
    <2>4. /\ n.kind = "activate" /\ n.row = item.row /\ n.seen = item.seen /\ n.queue = q
          /\ n.after.status = "ACTIVE" /\ SameGrant(item.seen, n.after)
        BY <1>6, <2>2 DEF Activation, CallOf, SameGrant, Row
    <2>5. PICK c \in Call :
            /\ op' = [op EXCEPT ![p] = c]
            /\ c.kind = n.kind /\ c.row = n.row /\ c.seen = n.seen
            /\ c.after = n.after /\ c.queue = n.queue
            /\ c.phase \in {"oust", "replace", "grant"}
            /\ c.phase # "grant" => c.victim \in Rows \ {c.row} /\ Present(c.victim)
        BY <2>3, EnteringGrant DEF IndInv
    <2>6. item.seen.status = "ELIGIBLE"
        BY <1>4, <1>8 DEF CanActivate
    <2>. QED
        BY <1>2, <1>5, <1>6, <2>4, <2>5, <2>6, NestedCallKeeps DEF Standing
<1>9. CASE proceeds(item, live) /\ q.kind = "deactivate"
    <2>1. PICK c \in Call :
            c = [Deactivation(item.row, item.seen)
                    EXCEPT !.actor = q.actor, !.hours = q.hours, !.queue = q]
        BY <1>5, <1>6, DeactivationTyped, CallExtended
    <2>2. op' = [op EXCEPT ![p] = c]
        BY <1>1, <1>4, <1>9, <2>1 DEF Enter
    <2>3. /\ c.kind = "deactivate" /\ c.row = item.row /\ c.seen = item.seen /\ c.queue = q
          /\ c.phase = "remove" /\ SameGrant(item.seen, c.after)
        BY <1>6, <2>1 DEF Deactivation, CallOf, SameGrant, Row
    <2>4. item.seen.status = "ACTIVE"
        BY <1>4, <1>9 DEF CanDeactivate
    <2>. QED
        BY <1>2, <1>5, <1>6, <2>2, <2>3, <2>4, NestedCallKeeps DEF Standing
<1>10. CASE proceeds(item, live) /\ q.kind \notin {"activate", "deactivate"}
    <2>1. PICK c \in Call :
            c = [Revocation(item.row, item.seen)
                    EXCEPT !.actor = q.actor, !.hours = q.hours, !.queue = q]
        BY <1>5, <1>6, RevocationTyped, CallExtended
    <2>2. op' = [op EXCEPT ![p] = c]
        BY <1>1, <1>4, <1>10, <2>1 DEF Enter
    <2>3. /\ c.kind = "revoke" /\ c.row = item.row /\ c.seen = item.seen /\ c.queue = q
          /\ c.phase \in {"remove", "commit"} /\ SameGrant(item.seen, c.after)
          /\ c.after.status = "REVOKED"
        BY <1>6, <2>1 DEF Revocation, CallOf, SameGrant, Row
    <2>. QED
        BY <1>2, <1>5, <1>6, <2>2, <2>3, NestedCallKeeps DEF Standing
<1>. QED
    BY <1>7, <1>8, <1>9, <1>10

\* The sync lists the directory.
LEMMA FetchKeeps ==
    ASSUME IndInv, FetchDirectory
    PROVE  IndInv'
<1>1. PICK f \in Sync : f = [phase |-> "apply", listing |-> real \cap Groups]
    BY DEF Sync
<1>2. "scheduler" \in Procs /\ op' = [op EXCEPT !["scheduler"] = f]
    BY <1>1 DEF FetchDirectory, Procs, Workers
<1>3. /\ op'["scheduler"] = f
      /\ \A q \in Procs \ {"scheduler"} : op'[q] = op[q]
    BY <1>2 DEF IndInv, TypeOK
<1>4. ~Working(op["scheduler"])' /\ op'["scheduler"].phase \notin {"link", "next"}
    BY <1>1, <1>3 DEF Working, Phases
<1>5. TypeOK' /\ Kept /\ RowsCleared' /\ NoUnsanctionedAccess'
    BY <1>2 DEF FetchDirectory, IndInv, TypeOK, Kept, RowsCleared, NoUnsanctionedAccess,
                SameGrant, Cleared, Present, history
<1>6. \A q \in Procs \ {"scheduler"} : Working(op[q]) /\ Present(op[q].row)' => Present(op[q].row)
    BY <1>3 DEF FetchDirectory, Present
<1>. QED
    BY <1>2, <1>3, <1>4, <1>5, <1>6, Frame

\* The sync's commit makes rows REVOKED, which asks for no approval, and lists others.
LEMMA ApplyKeeps ==
    ASSUME IndInv, ApplySync
    PROVE  IndInv'
<1>. DEFINE listing == op["scheduler"].listing
            gone    == members \ listing
            changed == \E g \in (members \cup listing) \ (members \cap listing) : Linked[g] # {}
            left    == {r \in Rows : Live(r) /\ rows[r].via \notin listing \cup {NoGroup}}
            next    == IF changed
                       THEN [phase |-> "next", kind |-> "sync", group |-> NoGroup, actor |-> "admin",
                             hours |-> 0, todo |-> Snapshot(left)]
                       ELSE Idle
<1>1. PICK stale \in SUBSET Rows :
        /\ stale \subseteq UNION {ActiveRows(g) : g \in gone}
        /\ rows' = [r \in Rows |-> IF r \in stale THEN [rows[r] EXCEPT !.status = "REVOKED"] ELSE rows[r]]
        /\ members' = listing
        /\ op' = [op EXCEPT !["scheduler"] = next]
    BY DEF ApplySync
<1>2. UNCHANGED <<real, clock, faults, approved, sanctioned>>
    BY DEF ApplySync, history
<1>3. "scheduler" \in Procs
    BY DEF Procs, Workers
<1>4. listing \subseteq Groups
    <2>1. op["scheduler"] \in Call \cup Queue \cup Sync \cup {Idle}
        BY <1>3 DEF IndInv, TypeOK
    <2>. QED
        BY <2>1 DEF ApplySync, Call, Phases, Queue, Sync, Idle
<1>5. \A r \in stale : rows[r].status = "ACTIVE"
    BY <1>1 DEF ActiveRows
<1>6. \A r \in stale : rows[r] \in Row
    BY <1>5, RowOf DEF IndInv, Present
<1>7. \A r \in Rows :
        /\ r \in stale => /\ rows'[r] \in Row /\ rows'[r].status = "REVOKED"
                          /\ SameGrant(rows[r], rows'[r])
        /\ r \notin stale => rows'[r] = rows[r]
    BY <1>1, <1>6 DEF Row, Statuses, Final, SameGrant
<1>8. \A r \in Rows : Present(r)' <=> Present(r)
    BY <1>5, <1>7 DEF Present
<1>9. Kept
    BY <1>2, <1>7, <1>8 DEF Kept, SameGrant
<1>10. RowsCleared' /\ NoUnsanctionedAccess'
    BY <1>2, <1>7, <1>8 DEF IndInv, RowsCleared, NoUnsanctionedAccess, Cleared, Standing
<1>11. left \subseteq Rows /\ \A r \in left : Present(r)
    BY DEF Live
<1>12. PICK q \in Queue \cup {Idle} : q = next
    <2>1. Snapshot(left) \subseteq [row : Rows, seen : Row]
        BY <1>11, SnapshotTyped DEF IndInv
    <2>. QED
        BY <2>1 DEF Queue, Actors
<1>13. op' = [op EXCEPT !["scheduler"] = q]
    BY <1>1, <1>12
<1>14. TypeOK'
    <2>1. rows' \in [Rows -> Row \cup {Absent}]
        BY <1>1, <1>7 DEF IndInv, TypeOK
    <2>. QED
        BY <1>1, <1>2, <1>4, <1>13, <2>1 DEF IndInv, TypeOK
<1>15. \A s \in Procs \ {"scheduler"} : Working(op[s]) /\ Present(op[s].row)' => Present(op[s].row)
    <2>. SUFFICES ASSUME NEW s \in Procs \ {"scheduler"}, Working(op[s]), Present(op[s].row)'
                  PROVE  Present(op[s].row)
        OBVIOUS
    <2>1. op[s].row \in Rows /\ op'[s] = op[s]
        BY <1>3, <1>13, CallOfHandler DEF IndInv, TypeOK, Call
    <2>. QED
        BY <1>8, <2>1 DEF Present
<1>16. q # Idle => QueueSound(q)'
    <2>. SUFFICES ASSUME q # Idle
                  PROVE  QueueSound(q)'
        BY DEF QueueSound
    <2>1. q.todo = Snapshot(left)
        BY <1>12
    <2>2. QueueSound(q)
        BY <1>11, <2>1 DEF QueueSound, Snapshot, SameGrant, IndInv, RowsCleared
    <2>. QED
        BY <1>9, <2>2, QueueStaysSound
<1>. QED
    BY <1>3, <1>9, <1>10, <1>13, <1>14, <1>15, <1>16, Queueing

-----------------------------------------------------------------------------
(* The invariant. *)

\* The invariant holds at first.
LEMMA InitSound == Init => IndInv
<1>. SUFFICES ASSUME Init
              PROVE  IndInv
    OBVIOUS
<1>1. TypeOK
    BY DEF Init, TypeOK
<1>2. RowsCleared /\ NoUnsanctionedAccess
    BY DEF Init, RowsCleared, NoUnsanctionedAccess, Present, Absent
<1>3. \A p \in Procs : ~Working(op[p]) /\ op[p].phase \notin {"link", "next"}
    BY DEF Init, Working, Phases, Idle
<1>. QED
    BY <1>1, <1>2, <1>3 DEF IndInv, HandlersSound, NewRowsApart

\* Every step keeps the invariant: one case for each disjunct of Next.
LEMMA StepSound == IndInv /\ [Next]_vars => IndInv'
<1>. SUFFICES ASSUME IndInv, [Next]_vars
              PROVE  IndInv'
    OBVIOUS
<1>1. CASE UNCHANGED vars
    BY <1>1, QuietKeeps DEF vars, IndInv, TypeOK, NoUnsanctionedAccess
<1>2. ASSUME NEW p \in Requests, Starts(p)
      PROVE  IndInv'
    <2>1. p \in Procs
        BY DEF Procs
    <2>. QED
        BY <1>2, <2>1, CreateKeeps, ActivateKeeps, DeactivateKeeps, RevokeKeeps, DecideKeeps DEF Starts
<1>3. ASSUME NEW r \in Rows, Sweeps(r)
      PROVE  IndInv'
    BY <1>3, SweepKeeps
<1>4. ASSUME NEW p \in Procs, Steps(p)
      PROVE  IndInv'
    BY <1>4, OustKeeps, ReplaceKeeps, GrantKeeps, RemoveKeeps, CommitKeeps, EvaluateKeeps,
       ListKeeps, NextKeeps, FinishKeeps DEF Steps
<1>5. ASSUME NEW p \in Procs, CallRefused(p) \/ ReplyLost(p)
      PROVE  IndInv'
    BY <1>5, FaultKeeps
<1>6. CASE FetchDirectory \/ ApplySync
    BY <1>6, FetchKeeps, ApplyKeeps
<1>7. CASE DirectoryChanges \/ Crash \/ Tick
    BY <1>7, DirectoryKeeps, CrashKeeps, TickKeeps
<1>. QED
    BY <1>1, <1>2, <1>3, <1>4, <1>5, <1>6, <1>7 DEF Next

\* The inductive invariant holds in every state: what each handler in flight knows about
\* its row stays true enough for its commit, for any rows, targets, mappings, SoD pairs,
\* request bodies, number of handlers, faults and length of run.
THEOREM Inductive == Spec => []IndInv
BY InitSound, StepSound, PTL DEF Spec

\* Every variable keeps its shape.
THEOREM TypeCorrect == Spec => []TypeOK
<1>1. IndInv => TypeOK
    BY DEF IndInv
<1>. QED
    BY <1>1, Inductive, PTL

\* No interleaving of handlers, workers, syncs and faults makes usable a row that asked
\* for an approval nobody gave (create_assignment, approve_assignment, activate_assignment).
THEOREM ApprovalsRespected == Spec => []ApprovalRespected
<1>1. IndInv => ApprovalRespected
    BY DEF IndInv, RowsCleared, ApprovalRespected, Cleared, Present, Standing
<1>. QED
    BY <1>1, Inductive, PTL

\* No interleaving of them grants access at the provider that nobody decided on.
THEOREM AccessSanctioned == Spec => []NoUnsanctionedAccess
<1>1. IndInv => NoUnsanctionedAccess
    BY DEF IndInv
<1>. QED
    BY <1>1, Inductive, PTL

-----------------------------------------------------------------------------
(* The promise. *)

\* A decision is a step of the promise.
LEMMA Deciding ==
    ASSUME NEW t \in Targets, sanctioned' = sanctioned \cup {t}, real' = real
    PROVE  Promise!Next
BY DEF Promise!Next, Promise!Decide

\* So is taking access away.
LEMMA Withdrawing ==
    ASSUME NEW t \in Targets, sanctioned' = sanctioned, real' = real \ {t}
    PROVE  Promise!Next
BY DEF Promise!Next, Promise!Withdraw

\* So is granting what was decided on.
LEMMA Granting ==
    ASSUME NEW t \in Targets, sanctioned' = sanctioned, real' = real \cup {t}, t \in sanctioned \cup Outside
    PROVE  Promise!Next
BY DEF Promise!Next, Promise!Grant

\* A handler's row names a target.
LEMMA CallTarget ==
    ASSUME IndInv, NEW p \in Procs, Working(op[p])
    PROVE  op[p].after.target \in Targets
BY CallOfHandler DEF IndInv, Call, Row

\* Every step of the engine is a step of the promise or leaves access and decisions alone.
LEMMA StepKept == IndInv /\ [Next]_vars => [Promise!Next]_(Promise!promise)
<1>. SUFFICES ASSUME IndInv, Next
              PROVE  Promise!Next \/ UNCHANGED <<sanctioned, real>>
    BY DEF vars, Promise!promise
<1>1. ASSUME NEW p \in Requests, Starts(p)
      PROVE  Promise!Next \/ UNCHANGED <<sanctioned, real>>
    <2>1. CASE CreateAssignment(p)
        <3>1. PICK d \in Payloads :
                /\ sanctioned' = IF d.approval THEN sanctioned ELSE sanctioned \cup {d.target}
                /\ real' = real
            BY <2>1 DEF CreateAssignment
        <3>2. d.target \in Targets
            BY ConstantsAssumption DEF Payload
        <3>. QED
            BY <3>1, <3>2, Deciding
    <2>2. CASE ActivateAssignment(p) \/ DeactivateAssignment(p) \/ RevokeAssignment(p) \/ DecideAssignment(p)
        BY <2>2 DEF ActivateAssignment, DeactivateAssignment, RevokeAssignment, DecideAssignment, history
    <2>. QED
        BY <1>1, <2>1, <2>2 DEF Starts
<1>2. ASSUME NEW r \in Rows, Sweeps(r)
      PROVE  UNCHANGED <<sanctioned, real>>
    BY <1>2 DEF Sweeps, ExpireDue, LapseEligibility, StartScheduled, history
<1>3. ASSUME NEW p \in Procs, Steps(p)
      PROVE  Promise!Next \/ UNCHANGED <<sanctioned, real>>
    <2>1. CASE Oust(p) \/ RemoveAccess(p)
        <3>1. op[p].after.target \in Targets
            BY <2>1, CallTarget DEF Oust, RemoveAccess, Working, Phases
        <3>. QED
            BY <2>1, <3>1, Withdrawing DEF Oust, RemoveAccess, history
    <2>2. CASE GrantAccess(p)
        BY <2>2, GrantIsSanctioned, Granting DEF GrantAccess, history
    <2>3. CASE Commit(p)
        <3>1. op[p].after.target \in Targets
            BY <2>3, CallTarget DEF Commit, Working, Phases
        <3>. QED
            BY <2>3, <3>1, Deciding DEF Commit
    <2>4. CASE EvaluateMapping(p)
        <3>1. PICK m \in Missing : sanctioned' = sanctioned \cup {m[2]} /\ real' = real
            BY <2>4 DEF EvaluateMapping
        <3>2. m[2] \in Targets
            BY DEF Missing
        <3>. QED
            BY <3>1, <3>2, Deciding
    <2>5. CASE Replace(p) \/ ListLinked(p) \/ NextLinked(p) \/ FinishLinked(p)
        BY <2>5 DEF Replace, ListLinked, NextLinked, FinishLinked, history
    <2>. QED
        BY <1>3, <2>1, <2>2, <2>3, <2>4, <2>5 DEF Steps
<1>4. ASSUME NEW p \in Procs, CallRefused(p) \/ ReplyLost(p)
      PROVE  Promise!Next \/ UNCHANGED <<sanctioned, real>>
    <2>1. CASE CallRefused(p)
        BY <2>1 DEF CallRefused, history
    <2>2. CASE ReplyLost(p)
        <3>1. op[p].after.target \in Targets
            BY <2>2, CallTarget DEF ReplyLost, Working, Phases
        <3>2. op[p].phase = "grant" => op[p].after.target \in sanctioned
            BY GrantIsSanctioned
        <3>. QED
            BY <2>2, <3>1, <3>2, Granting, Withdrawing DEF ReplyLost, history
    <2>. QED
        BY <1>4, <2>1, <2>2
<1>5. CASE FetchDirectory \/ ApplySync \/ Crash \/ Tick
    BY <1>5 DEF FetchDirectory, ApplySync, Crash, Tick, history
<1>6. CASE DirectoryChanges
    <2>1. PICK t \in Outside : real' = IF t \in real THEN real \ {t} ELSE real \cup {t}
        BY <1>6 DEF DirectoryChanges
    <2>2. t \in Targets /\ sanctioned' = sanctioned
        BY <1>6, ConstantsAssumption DEF DirectoryChanges, history
    <2>. QED
        BY <2>1, <2>2, Granting, Withdrawing
<1>. QED
    BY <1>1, <1>2, <1>3, <1>4, <1>5, <1>6 DEF Next

\* The assignment engine implements AccessPromise: real access only ever appears for a
\* target that was decided on before.
THEOREM Refinement == Spec => PromiseKept
<1>1. Init => Promise!Init
    BY DEF Init, Promise!Init
<1>. QED
    BY <1>1, Inductive, StepKept, PTL DEF Spec, PromiseKept, Promise!Spec

-----------------------------------------------------------------------------
(***************************************************************************)
(* One handler at a time.  What a handler read is then still so when it    *)
(* commits: its copies are the rows (CallTrue, Copies), the SoD check it   *)
(* passed still passes (Excluded), and every access granted is backed by   *)
(* an ACTIVE row or is the very access the handler is working on           *)
(* (CallBacked).  AloneInv collects this.                                  *)
(***************************************************************************)

Serial == \A p, q \in Procs : op[p] # Idle /\ op[q] # Idle => p = q

Copied(r, seen) == rows[r].status = seen.status /\ rows[r].waived = seen.waived

\* A cascade's listing: each row once, as it is.
Copies(q) ==
    /\ \A i \in q.todo : Copied(i.row, i.seen)
    /\ \A i, j \in q.todo : i.row = j.row => i = j

\* What a handler holds is what the rows are, except for what it is about to commit.
CallTrue(o) ==
    /\ o.kind = "create" =>
            /\ o.seen = o.after /\ o.queue = Idle /\ o.after.via = NoGroup
            /\ IF Present(o.row) THEN rows[o.row] = o.after ELSE rows[o.row] = Absent
    /\ o.kind # "create" => Copied(o.row, o.seen) /\ o.seen.status # o.after.status
    /\ o.queue # Idle => Copies(o.queue) /\ \A i \in o.queue.todo : i.row # o.row
    /\ o.phase \in {"oust", "replace"} => rows[o.victim].target = o.after.target

\* No ACTIVE row stands against the row `new' that r is about to become.
Excluded(r, new) ==
    \A s \in Rows \ {r} : rows[s].status = "ACTIVE" /\ <<new.target, rows[s].target>> \in Conflict
                            => new.waived \/ rows[s].waived

Granted   == real \ Outside
Backed(t) == \E r \in Rows : rows[r].status = "ACTIVE" /\ rows[r].target = t
Covered   == \A t \in Granted : Backed(t)

\* Access without an ACTIVE row is the handler's own, and it knows what to do about it.
CallBacked(o) ==
    /\ \A t \in Granted \ {o.after.target} : Backed(t)
    /\ o.after.target \in Granted =>
        /\ Backed(o.after.target) \/ (o.phase = "commit" /\ o.after.status = "ACTIVE")
        /\ o.phase = "replace" => ~o.ousted
        /\ o.phase = "commit" /\ o.after.status # "ACTIVE" => rows[o.row].status # "ACTIVE"
    /\ o.phase = "replace" /\ ~o.ousted => rows[o.victim].status # "ACTIVE"
    /\ o.phase = "oust" => o.ousted

\* What is true of the one handler in flight.
Fits(o) ==
    /\ Working(o) => /\ CallTrue(o)
                     /\ o.after.status = "ACTIVE" => Excluded(o.row, o.after)
                     /\ Reliable => CallBacked(o)
    /\ ~Working(o) /\ Reliable => Covered
    /\ o.phase \in {"link", "next"} => Copies(o)
    /\ o.phase = "apply" /\ Reliable => Granted \cap Groups \subseteq o.listing

\* The mapped rows are never for groups, so a sync that revokes rows of groups leaves
\* the mapped rows it lists as they are.
MappedAlone == \A r \in Rows : Present(r) /\ rows[r].via # NoGroup => rows[r].target \notin Groups

AloneInv ==
    /\ Serial /\ MappedAlone /\ SodExclusion /\ NoOrphanAccess
    /\ \A p \in Procs : op[p] # Idle => Fits(op[p])

\* With one handler at a time, a handler starts when there is none.
LEMMA StartsAlone ==
    ASSUME MaxInFlight <= 1, TypeOK, NEW p \in Procs, Free(p)
    PROVE  \A q \in Procs : op[q] = Idle
<1>. DEFINE busy == {q \in Procs : op[q] # Idle}
<1>1. IsFiniteSet(Procs)
    <2>1. IsFiniteSet({"activation"}) /\ IsFiniteSet({"expiry"}) /\ IsFiniteSet({"scheduler"})
        BY FS_Singleton
    <2>2. Procs = Requests \cup ({"activation"} \cup ({"expiry"} \cup {"scheduler"}))
        BY DEF Procs, Workers
    <2>. QED
        BY <2>1, <2>2, FS_Union, ConstantsAssumption
<1>2. IsFiniteSet(busy) /\ Cardinality(busy) \in Nat /\ (Cardinality(busy) = 0 => busy = {})
    BY <1>1, FS_Subset, FS_CardinalityType, FS_EmptySet
<1>3. Cardinality(busy) < MaxInFlight
    BY DEF Free
<1>4. busy = {}
    <2>. HIDE DEF busy
    <2>. QED
        BY <1>2, <1>3, ConstantsAssumption
<1>. QED
    BY <1>4

\* The handler that takes a step is the only one.
LEMMA OnlyOne ==
    ASSUME AloneInv, NEW p \in Procs, op[p].phase # "idle"
    PROVE  Fits(op[p]) /\ \A q \in Procs \ {p} : op[q] = Idle
BY DEF AloneInv, Serial, Idle

\* Nobody at work: access is covered.
LEMMA NobodyAtWork ==
    ASSUME AloneInv, \A q \in Procs : ~Working(op[q]), Reliable
    PROVE  Covered
BY DEF AloneInv, NoOrphanAccess, Settled, Covered, Granted, Backed

\* A step in which the only handler becomes h.
LEMMA Goes ==
    ASSUME TypeOK, NEW p \in Procs, NEW h, op' = [op EXCEPT ![p] = h],
           \A q \in Procs \ {p} : op[q] = Idle,
           MappedAlone', SodExclusion', Fits(h)'
    PROVE  AloneInv'
<1>1. op'[p] = h /\ \A q \in Procs \ {p} : op'[q] = Idle
    BY DEF TypeOK
<1>2. Serial'
    BY <1>1 DEF Serial
<1>3. Settled' /\ Reliable' => Covered'
    BY <1>1 DEF Fits, Settled, Working
<1>4. NoOrphanAccess'
    BY <1>3 DEF NoOrphanAccess, Settled, Covered, Granted, Backed
<1>5. \A q \in Procs : op'[q] # Idle => Fits(op[q])'
    <2>. SUFFICES ASSUME NEW q \in Procs, op'[q] # Idle
                  PROVE  Fits(op[q])'
        OBVIOUS
    <2>1. q = p /\ op'[q] = h
        BY <1>1
    <2>. QED
        BY <2>1 DEF Fits, Working, CallTrue, Copied, Copies, Excluded, CallBacked, Covered, Granted, Backed,
                    Present, Reliable
<1>. QED
    BY <1>2, <1>4, <1>5 DEF AloneInv

\* A fault that still counts as reliable was so before.
LEMMA StillReliable ==
    ASSUME TypeOK, faults' = faults \/ faults' = faults + 1, Reliable'
    PROVE  Reliable
BY DEF TypeOK, Reliable

\* The same when rows and access stay as they are.
LEMMA GoesQuietly ==
    ASSUME IndInv, AloneInv, NEW p \in Procs, NEW h, op' = [op EXCEPT ![p] = h],
           \A q \in Procs \ {p} : op[q] = Idle,
           UNCHANGED <<rows, real>>, faults' = faults \/ faults' = faults + 1, Fits(h)
    PROVE  AloneInv'
<1>1. MappedAlone' /\ SodExclusion'
    BY DEF AloneInv, MappedAlone, SodExclusion, Present
<1>2. Reliable' => Reliable
    BY StillReliable DEF IndInv
<1>3. Fits(h)'
    BY <1>2 DEF Fits, Working, CallTrue, Copied, Copies, Excluded, CallBacked, Covered, Granted, Backed,
                    Present
<1>. QED
    BY <1>1, <1>3, Goes DEF IndInv

\* A target that stands against an ACTIVE row is found by the SoD check, whatever the
\* directory answers.
LEMMA Checked ==
    ASSUME NEW t, NEW live, NEW s \in Rows, rows[s].status = "ACTIVE",
           <<t, rows[s].target>> \in Conflict
    PROVE  SodConflicts(t, live) # {}
<1>1. rows[s].target \in Targets
    BY ConstantsAssumption
<1>. QED
    BY <1>1 DEF SodConflicts, Holds

\* A live read spends at most one fault.
LEMMA LiveReadOnce ==
    ASSUME NEW live, LiveRead(live)
    PROVE  faults' = faults \/ faults' = faults + 1
BY DEF LiveRead

-----------------------------------------------------------------------------
\* A call that starts from the rows as they are, while nobody is at work.
LEMMA Begins ==
    ASSUME IndInv, NEW c \in Call, Reliable => Covered,
           c.kind = "create" =>
                /\ c.seen = c.after /\ c.queue = Idle /\ c.after.via = NoGroup /\ rows[c.row] = Absent
                /\ c.phase = "commit" => c.after.status # "ACTIVE",
           c.kind # "create" =>
                /\ Copied(c.row, c.seen) /\ c.seen.status # c.after.status
                /\ c.phase = "commit" => c.seen.status # "ACTIVE" /\ c.after.status # "ACTIVE",
           c.queue # Idle => Copies(c.queue) /\ \A i \in c.queue.todo : i.row # c.row,
           c.phase \in {"oust", "replace"} => Ousts(c),
           c.after.status = "ACTIVE" => Excluded(c.row, c.after)
    PROVE  Fits(c)
<1>1. CallTrue(c)
    BY DEF CallTrue, Ousts, Superseded, Present, Absent
<1>2. c.phase = "commit" => rows[c.row].status # "ACTIVE"
    BY DEF Copied, Absent
<1>3. c.phase \in {"oust", "replace"} =>
        c.ousted = (rows[c.victim].status = "ACTIVE") /\ (c.phase = "oust") = (rows[c.victim].status = "ACTIVE")
    BY DEF Ousts
<1>4. Reliable => CallBacked(c)
    BY <1>2, <1>3 DEF CallBacked, Covered
<1>5. Working(c)
    BY DEF Call, Working
<1>. QED
    BY <1>1, <1>4, <1>5 DEF Fits, Working, Phases

\* A handler starts, or a nested call does, from the rows as they are.
LEMMA BeginsAlone ==
    ASSUME IndInv, AloneInv, NEW p \in Procs, NEW c \in Call, op' = [op EXCEPT ![p] = c],
           \A q \in Procs \ {p} : op[q] = Idle, ~Working(op[p]),
           UNCHANGED <<rows, real>>, faults' = faults \/ faults' = faults + 1,
           c.kind = "create" =>
                /\ c.seen = c.after /\ c.queue = Idle /\ c.after.via = NoGroup /\ rows[c.row] = Absent
                /\ c.phase = "commit" => c.after.status # "ACTIVE",
           c.kind # "create" =>
                /\ Copied(c.row, c.seen) /\ c.seen.status # c.after.status
                /\ c.phase = "commit" => c.seen.status # "ACTIVE" /\ c.after.status # "ACTIVE",
           c.queue # Idle => Copies(c.queue) /\ \A i \in c.queue.todo : i.row # c.row,
           c.phase \in {"oust", "replace"} => Ousts(c),
           c.after.status = "ACTIVE" => Excluded(c.row, c.after)
    PROVE  AloneInv'
<1>1. \A q \in Procs : ~Working(op[q])
    BY DEF Working, Phases, Idle
<1>2. Reliable => Covered
    BY <1>1, NobodyAtWork
<1>3. Fits(c)
    BY <1>2, Begins
<1>. QED
    BY <1>3, GoesQuietly

\* A handler starts on a row that is there.
LEMMA StartsOnRow ==
    ASSUME IndInv, AloneInv, MaxInFlight <= 1, NEW p \in Procs, Free(p), NEW c \in Call,
           Enter(p, c), UNCHANGED <<rows, real>>, faults' = faults \/ faults' = faults + 1,
           c.kind # "create", c.seen = rows[c.row], c.seen.status # c.after.status, c.queue = Idle,
           c.phase = "commit" => c.seen.status # "ACTIVE" /\ c.after.status # "ACTIVE",
           c.phase \in {"oust", "replace"} => Ousts(c),
           c.after.status = "ACTIVE" => Excluded(c.row, c.after)
    PROVE  AloneInv'
<1>1. \A q \in Procs : op[q] = Idle
    BY StartsAlone DEF IndInv
<1>2. ~Working(op[p])
    BY <1>1 DEF Working, Phases, Idle
<1>3. Copied(c.row, c.seen)
    BY DEF Copied
<1>4. op' = [op EXCEPT ![p] = c]
    BY DEF Enter
<1>. QED
    BY <1>1, <1>2, <1>3, <1>4, BeginsAlone

\* An absent row is the absent row.
LEMMA AbsentRow ==
    ASSUME TypeOK, NEW r \in Rows, ~Present(r)
    PROVE  rows[r] = Absent
BY DEF TypeOK, Present, Row, Statuses, Final, Standing

LEMMA CreateAlone ==
    ASSUME IndInv, AloneInv, MaxInFlight <= 1, NEW p \in Procs, CreateAssignment(p)
    PROVE  AloneInv'
<1>1. PICK d \in Payloads, r \in Rows, live \in BOOLEAN :
        /\ Free(p) /\ Fresh(r)
        /\ LiveRead(live)
        /\ LET new == NewRow(d, InitialStatus(d), NoGroup, SodConflicts(d.target, live) # {})
               call == CallOf("create", r, new, new, "commit")
           IN  IF new.status = "ACTIVE" THEN EnterGrant(p, call) ELSE Enter(p, call)
        /\ UNCHANGED <<rows, real>>
    BY DEF CreateAssignment
<1>. DEFINE new  == NewRow(d, InitialStatus(d), NoGroup, SodConflicts(d.target, live) # {})
            call == CallOf("create", r, new, new, "commit")
<1>2. d \in Payload
    BY ConstantsAssumption
<1>3. new \in Row
    BY <1>2 DEF NewRow, InitialStatus, Payload, Row, Statuses, Final, Standing, Time, NoTime, IndInv, TypeOK
<1>4. call \in Call
    BY <1>3, CallOfTyped DEF Kinds, Phases
<1>5. new.target = d.target /\ new.via = NoGroup /\ new.waived = (SodConflicts(d.target, live) # {})
    BY DEF NewRow
<1>6. /\ call.kind = "create" /\ call.row = r /\ call.seen = new /\ call.after = new /\ call.queue = Idle
      /\ call.phase = "commit"
    BY DEF CallOf
<1>7. PICK c \in Call :
        /\ op' = [op EXCEPT ![p] = c]
        /\ c.kind = "create" /\ c.row = r /\ c.seen = new /\ c.after = new /\ c.queue = Idle
        /\ c.phase = "commit" => new.status # "ACTIVE"
        /\ c.phase \in {"oust", "replace"} => Ousts(c)
    <2>1. CASE new.status = "ACTIVE"
        <3>1. EnterGrant(p, call)
            BY <1>1, <2>1
        <3>. HIDE DEF call, new
        <3>. QED
            BY <1>4, <1>6, <3>1, EnteringGrant DEF IndInv
    <2>2. CASE new.status # "ACTIVE"
        <3>1. op' = [op EXCEPT ![p] = call]
            BY <1>1, <2>2 DEF Enter
        <3>. HIDE DEF call, new
        <3>. QED
            BY <1>4, <1>6, <2>2, <3>1
    <2>. QED
        BY <2>1, <2>2
<1>8. \A q \in Procs : op[q] = Idle
    BY <1>1, StartsAlone DEF IndInv
<1>9. rows[r] = Absent
    BY <1>1, AbsentRow DEF Fresh, IndInv
<1>10. Excluded(r, new)
    BY <1>5, Checked DEF Excluded
<1>11. ~Working(op[p])
    BY <1>8 DEF Working, Phases, Idle
<1>12. UNCHANGED <<rows, real>> /\ (faults' = faults \/ faults' = faults + 1)
    BY <1>1, LiveReadOnce
<1>. HIDE DEF new, call
<1>. QED
    BY <1>5, <1>7, <1>8, <1>9, <1>10, <1>11, <1>12, BeginsAlone

\* Activation, whether an owner asked for it or a cascade did, passed the SoD check.
LEMMA ActivationParts ==
    ASSUME NEW r \in Rows, NEW seen \in Row, NEW hours, NEW waived
    PROVE  /\ Activation(r, seen, hours, waived).kind = "activate"
           /\ Activation(r, seen, hours, waived).row = r
           /\ Activation(r, seen, hours, waived).seen = seen
           /\ Activation(r, seen, hours, waived).queue = Idle
           /\ Activation(r, seen, hours, waived).after.status = "ACTIVE"
           /\ Activation(r, seen, hours, waived).after.target = seen.target
           /\ Activation(r, seen, hours, waived).after.waived = waived
BY DEF Activation, CallOf, Row

LEMMA ActivateAlone ==
    ASSUME IndInv, AloneInv, MaxInFlight <= 1, NEW p \in Procs, ActivateAssignment(p)
    PROVE  AloneInv'
<1>1. PICK r \in Rows, actor \in Actors, hours \in 1..MaxHours, live \in BOOLEAN :
        /\ Free(p) /\ Present(r) /\ CanActivate(rows[r])
        /\ LiveRead(live)
        /\ EnterGrant(p, [Activation(r, rows[r], hours, SodConflicts(rows[r].target, live) # {})
                            EXCEPT !.actor = actor, !.hours = hours])
        /\ UNCHANGED <<rows, real>>
    BY DEF ActivateAssignment
<1>2. rows[r] \in Row
    BY <1>1, RowOf DEF IndInv
<1>3. PICK waived \in BOOLEAN : waived = (SodConflicts(rows[r].target, live) # {})
    OBVIOUS
<1>4. hours \in Nat
    BY ConstantsAssumption
<1>5. Activation(r, rows[r], hours, waived) \in Call
    BY <1>2, <1>4, ActivationTyped DEF IndInv, TypeOK
<1>6. PICK call \in Call : call = [Activation(r, rows[r], hours, waived) EXCEPT !.actor = actor, !.hours = hours]
    BY <1>4, <1>5, CallExtended
<1>7. /\ call.kind = "activate" /\ call.row = r /\ call.seen = rows[r] /\ call.queue = Idle
      /\ call.after.status = "ACTIVE" /\ call.after.target = rows[r].target /\ call.after.waived = waived
    <2>1. /\ call.kind = Activation(r, rows[r], hours, waived).kind
          /\ call.row = Activation(r, rows[r], hours, waived).row
          /\ call.seen = Activation(r, rows[r], hours, waived).seen
          /\ call.after = Activation(r, rows[r], hours, waived).after
          /\ call.queue = Activation(r, rows[r], hours, waived).queue
        BY <1>5, <1>6 DEF Call
    <2>. QED
        BY <1>2, <2>1, ActivationParts
<1>8. PICK c \in Call :
        /\ op' = [op EXCEPT ![p] = c]
        /\ c.kind = call.kind /\ c.row = call.row /\ c.seen = call.seen
        /\ c.after = call.after /\ c.queue = call.queue
        /\ c.phase \in {"oust", "replace", "grant"}
        /\ c.phase # "grant" => Ousts(c)
    BY <1>1, <1>3, <1>6, EnteringGrant DEF IndInv
<1>9. Excluded(r, call.after)
    BY <1>3, <1>7, Checked DEF Excluded
<1>10. rows[r].status = "ELIGIBLE"
    BY <1>1 DEF CanActivate
<1>. QED
    BY <1>1, <1>7, <1>8, <1>9, <1>10, LiveReadOnce, StartsOnRow DEF Enter

LEMMA DeactivationParts ==
    ASSUME NEW r \in Rows, NEW seen \in Row
    PROVE  /\ Deactivation(r, seen).kind = "deactivate"
           /\ Deactivation(r, seen).row = r
           /\ Deactivation(r, seen).seen = seen
           /\ Deactivation(r, seen).queue = Idle
           /\ Deactivation(r, seen).phase = "remove"
           /\ Deactivation(r, seen).after.status = "ELIGIBLE"
BY DEF Deactivation, CallOf, Row

LEMMA RevocationParts ==
    ASSUME NEW r \in Rows, NEW seen \in Row
    PROVE  /\ Revocation(r, seen).kind = "revoke"
           /\ Revocation(r, seen).row = r
           /\ Revocation(r, seen).seen = seen
           /\ Revocation(r, seen).queue = Idle
           /\ Revocation(r, seen).phase = IF seen.status = "ACTIVE" THEN "remove" ELSE "commit"
           /\ Revocation(r, seen).after.status = "REVOKED"
BY DEF Revocation, CallOf, Row

LEMMA DeactivateAlone ==
    ASSUME IndInv, AloneInv, MaxInFlight <= 1, NEW p \in Procs, DeactivateAssignment(p)
    PROVE  AloneInv'
<1>1. PICK r \in Rows, actor \in Actors :
        /\ Free(p) /\ Present(r) /\ CanDeactivate(rows[r], actor)
        /\ Enter(p, [Deactivation(r, rows[r]) EXCEPT !.actor = actor])
        /\ UNCHANGED <<rows, real, faults>>
    BY DEF DeactivateAssignment
<1>2. rows[r] \in Row
    BY <1>1, RowOf DEF IndInv
<1>3. PICK c \in Call : c = [Deactivation(r, rows[r]) EXCEPT !.actor = actor]
    BY <1>2, DeactivationTyped, CallExtended, 0 \in Nat
<1>4. /\ c.kind = "deactivate" /\ c.row = r /\ c.seen = rows[r] /\ c.queue = Idle
      /\ c.phase = "remove" /\ c.after.status = "ELIGIBLE"
    <2>1. Deactivation(r, rows[r]) \in Call
        BY <1>2, DeactivationTyped
    <2>2. /\ c.kind = Deactivation(r, rows[r]).kind /\ c.row = Deactivation(r, rows[r]).row
          /\ c.seen = Deactivation(r, rows[r]).seen /\ c.after = Deactivation(r, rows[r]).after
          /\ c.queue = Deactivation(r, rows[r]).queue /\ c.phase = Deactivation(r, rows[r]).phase
        BY <1>3, <2>1 DEF Call
    <2>. QED
        BY <1>2, <2>2, DeactivationParts
<1>. QED
    BY <1>1, <1>3, <1>4, StartsOnRow DEF CanDeactivate

LEMMA RevokeAlone ==
    ASSUME IndInv, AloneInv, MaxInFlight <= 1, NEW p \in Procs, RevokeAssignment(p)
    PROVE  AloneInv'
<1>1. PICK r \in Rows :
        /\ Free(p) /\ Present(r) /\ CanRevoke(rows[r]) /\ Enter(p, Revocation(r, rows[r]))
        /\ UNCHANGED <<rows, real, faults>>
    BY DEF RevokeAssignment
<1>2. rows[r] \in Row
    BY <1>1, RowOf DEF IndInv
<1>3. PICK c \in Call : c = Revocation(r, rows[r])
    BY <1>2, RevocationTyped
<1>4. /\ c.kind = "revoke" /\ c.row = r /\ c.seen = rows[r] /\ c.queue = Idle
      /\ c.phase = (IF rows[r].status = "ACTIVE" THEN "remove" ELSE "commit") /\ c.after.status = "REVOKED"
    BY <1>2, <1>3, RevocationParts
<1>. QED
    BY <1>1, <1>3, <1>4, StartsOnRow DEF CanRevoke, Final

LEMMA DecideAlone ==
    ASSUME IndInv, AloneInv, MaxInFlight <= 1, NEW p \in Procs, DecideAssignment(p)
    PROVE  AloneInv'
<1>1. PICK r \in Rows, verdict \in {"approve", "reject"} :
        /\ Free(p) /\ Present(r) /\ rows[r].status = "PENDING_APPROVAL"
        /\ Enter(p, CallOf(verdict, r, rows[r],
                [rows[r] EXCEPT !.status = IF verdict = "approve" THEN "ELIGIBLE" ELSE "REJECTED"],
                "commit"))
        /\ UNCHANGED <<rows, real, faults>>
    BY DEF DecideAssignment
<1>. DEFINE after == [rows[r] EXCEPT !.status = IF verdict = "approve" THEN "ELIGIBLE" ELSE "REJECTED"]
<1>2. rows[r] \in Row /\ after \in Row
    BY <1>1, RowOf DEF IndInv, Row, Statuses, Standing, Final
<1>3. PICK c \in Call : c = CallOf(verdict, r, rows[r], after, "commit")
    BY <1>2, CallOfTyped DEF Kinds, Phases
<1>4. /\ c.kind = verdict /\ c.row = r /\ c.seen = rows[r] /\ c.queue = Idle
      /\ c.phase = "commit" /\ c.after.status \in {"ELIGIBLE", "REJECTED"}
    BY <1>2, <1>3 DEF CallOf, Row
<1>5. Free(p) /\ Enter(p, c) /\ UNCHANGED <<rows, real, faults>>
    BY <1>1, <1>3
<1>6. c.kind # "create" /\ c.seen.status = "PENDING_APPROVAL"
    BY <1>1, <1>4
<1>. HIDE DEF after
<1>. QED
    BY <1>4, <1>5, <1>6, StartsOnRow

LEMMA SweepAlone ==
    ASSUME IndInv, AloneInv, MaxInFlight <= 1, NEW r \in Rows, Sweeps(r)
    PROVE  AloneInv'
<1>1. CASE ExpireDue(r)
    <2>. DEFINE after == IF rows[r].kind = "PERMANENT"
                         THEN [rows[r] EXCEPT !.status = "ELIGIBLE", !.exp = NoTime]
                         ELSE [rows[r] EXCEPT !.status = "EXPIRED"]
    <2>1. Present(r) /\ rows[r].status = "ACTIVE"
        BY <1>1 DEF ExpireDue, Present
    <2>2. rows[r] \in Row /\ after \in Row
        BY <2>1, RowOf DEF IndInv, Row, Statuses, Standing, Final, Time
    <2>3. PICK c \in Call : c = CallOf("expire", r, rows[r], after, "remove")
        BY <2>2, CallOfTyped DEF Kinds, Phases
    <2>4. /\ c.kind = "expire" /\ c.row = r /\ c.seen = rows[r] /\ c.queue = Idle
          /\ c.phase = "remove" /\ c.after.status \in {"ELIGIBLE", "EXPIRED"}
        BY <2>2, <2>3 DEF CallOf, Row
    <2>5. "expiry" \in Procs
        BY DEF Procs, Workers
    <2>6. Free("expiry") /\ Enter("expiry", c) /\ UNCHANGED <<rows, real, faults>>
        BY <1>1, <2>3 DEF ExpireDue
    <2>. HIDE DEF after
    <2>. QED
        BY <2>1, <2>3, <2>4, <2>5, <2>6, StartsOnRow
<1>2. CASE LapseEligibility(r)
    <2>. DEFINE after == [rows[r] EXCEPT !.status = "EXPIRED"]
    <2>1. Present(r) /\ rows[r].status = "ELIGIBLE"
        BY <1>2 DEF LapseEligibility, Present
    <2>2. rows[r] \in Row /\ after \in Row
        BY <2>1, RowOf DEF IndInv, Row, Statuses, Final
    <2>3. PICK c \in Call : c = CallOf("lapse", r, rows[r], after, "commit")
        BY <2>2, CallOfTyped DEF Kinds, Phases
    <2>4. /\ c.kind = "lapse" /\ c.row = r /\ c.seen = rows[r] /\ c.queue = Idle
          /\ c.phase = "commit" /\ c.after.status = "EXPIRED"
        BY <2>2, <2>3 DEF CallOf, Row
    <2>5. "expiry" \in Procs
        BY DEF Procs, Workers
    <2>6. Free("expiry") /\ Enter("expiry", c) /\ UNCHANGED <<rows, real, faults>>
        BY <1>2, <2>3 DEF LapseEligibility
    <2>. HIDE DEF after
    <2>. QED
        BY <2>1, <2>3, <2>4, <2>5, <2>6, StartsOnRow
<1>3. CASE StartScheduled(r)
    <2>. DEFINE after == [rows[r] EXCEPT !.status = "ACTIVE", !.waived = FALSE]
    <2>0. PICK live \in BOOLEAN :
            /\ Free("activation") /\ rows[r].status = "SCHEDULED"
            /\ LiveRead(live)
            /\ SodConflicts(rows[r].target, live) = {}
            /\ Enter("activation", CallOf("start", r, rows[r], after, "grant"))
            /\ UNCHANGED <<rows, real>>
        BY <1>3 DEF StartScheduled
    <2>1. Present(r) /\ rows[r].status = "SCHEDULED"
        BY <2>0 DEF Present
    <2>2. rows[r] \in Row /\ after \in Row
        BY <2>1, RowOf DEF IndInv, Row, Statuses, Standing
    <2>3. PICK c \in Call : c = CallOf("start", r, rows[r], after, "grant")
        BY <2>2, CallOfTyped DEF Kinds, Phases
    <2>4. /\ c.kind = "start" /\ c.row = r /\ c.seen = rows[r] /\ c.queue = Idle
          /\ c.phase = "grant" /\ c.after.status = "ACTIVE" /\ c.after.target = rows[r].target
        BY <2>2, <2>3 DEF CallOf, Row
    <2>5. "activation" \in Procs
        BY DEF Procs, Workers
    <2>6. Free("activation") /\ Enter("activation", c) /\ UNCHANGED <<rows, real>>
        BY <2>0, <2>3
    <2>7. Excluded(r, c.after)
        BY <2>0, <2>4, Checked DEF Excluded
    <2>8. faults' = faults \/ faults' = faults + 1
        BY <2>0, LiveReadOnce
    <2>. HIDE DEF after
    <2>. QED
        BY <2>1, <2>3, <2>4, <2>5, <2>6, <2>7, <2>8, StartsOnRow
<1>. QED
    BY <1>1, <1>2, <1>3 DEF Sweeps
-----------------------------------------------------------------------------
(* The provider's calls, the supersede and the commit, one handler at a time. *)

\* The handler at work: what it is, and that there is no other.
LEMMA AtWork ==
    ASSUME IndInv, AloneInv, NEW p \in Procs, Working(op[p])
    PROVE  /\ op[p] \in Call /\ CallSound(op[p]) /\ (op[p].queue # Idle => QueueSound(op[p].queue))
           /\ op[p].queue \in Queue \cup {Idle}
           /\ CallTrue(op[p])
           /\ op[p].after.status = "ACTIVE" => Excluded(op[p].row, op[p].after)
           /\ Reliable => CallBacked(op[p])
           /\ \A q \in Procs \ {p} : op[q] = Idle
<1>1. op[p] \in Call /\ CallSound(op[p]) /\ (op[p].queue # Idle => QueueSound(op[p].queue))
    BY CallOfHandler DEF IndInv, HandlersSound
<1>2. op[p].phase # "idle"
    BY DEF Working, Phases
<1>3. Fits(op[p]) /\ \A q \in Procs \ {p} : op[q] = Idle
    BY <1>2, OnlyOne
<1>. QED
    BY <1>1, <1>3 DEF Fits, Call

\* A provider call is made: the handler moves to its next phase.
LEMMA Calls ==
    ASSUME IndInv, AloneInv, NEW p \in Procs, Working(op[p]), NEW phase \in {"replace", "commit"},
           op[p].phase = "oust" \/ phase = "commit",
           op' = [op EXCEPT ![p].phase = phase],
           UNCHANGED <<rows, faults>>,
           \/ real' = real \ {op[p].after.target}
           \/ real' = real \cup {op[p].after.target} /\ phase = "commit" /\ op[p].after.status = "ACTIVE"
    PROVE  AloneInv'
<1>1. PICK o : o = op[p]
    OBVIOUS
<1>2. /\ o \in Call /\ CallSound(o) /\ CallTrue(o)
      /\ o.after.status = "ACTIVE" => Excluded(o.row, o.after)
      /\ Reliable => CallBacked(o)
      /\ \A q \in Procs \ {p} : op[q] = Idle
    BY <1>1, AtWork
<1>3. PICK c \in Call : c = [o EXCEPT !.phase = phase]
    BY <1>2 DEF Call, Phases
<1>4. /\ c.kind = o.kind /\ c.row = o.row /\ c.seen = o.seen /\ c.after = o.after
      /\ c.victim = o.victim /\ c.queue = o.queue /\ c.phase = phase /\ c.ousted = o.ousted
    BY <1>2, <1>3 DEF Call
<1>5. op' = [op EXCEPT ![p] = c]
    BY <1>1, <1>3
<1>6. MappedAlone' /\ SodExclusion'
    BY DEF AloneInv, MappedAlone, SodExclusion, Present
<1>7. CallTrue(c)'
    BY <1>1, <1>2, <1>4 DEF CallTrue, Copied, Copies, Present
<1>8. c.after.status = "ACTIVE" => Excluded(c.row, c.after)'
    BY <1>2, <1>4 DEF Excluded
<1>9. Reliable' => CallBacked(c)'
    BY <1>1, <1>2, <1>4 DEF CallBacked, Granted, Backed, Reliable
<1>10. Working(c)' /\ c.phase \notin {"link", "next", "apply"}
    BY <1>4 DEF Working, Phases
<1>11. Fits(c)'
    BY <1>7, <1>8, <1>9, <1>10 DEF Fits, Working
<1>. QED
    BY <1>2, <1>5, <1>6, <1>11, Goes DEF IndInv

LEMMA OustAlone == ASSUME IndInv, AloneInv, NEW p \in Procs, Oust(p) PROVE AloneInv'
<1>1. Working(op[p])
    BY DEF Oust, Working, Phases
<1>. QED
    BY <1>1, Calls DEF Oust

LEMMA RemoveAlone == ASSUME IndInv, AloneInv, NEW p \in Procs, RemoveAccess(p) PROVE AloneInv'
<1>1. Working(op[p])
    BY DEF RemoveAccess, Working, Phases
<1>. QED
    BY <1>1, Calls DEF RemoveAccess

LEMMA GrantAlone == ASSUME IndInv, AloneInv, NEW p \in Procs, GrantAccess(p) PROVE AloneInv'
<1>1. Working(op[p])
    BY DEF GrantAccess, Working, Phases
<1>2. op[p].after.status = "ACTIVE"
    BY <1>1, AtWork DEF GrantAccess, CallSound
<1>. QED
    BY <1>1, <1>2, Calls DEF GrantAccess

\* A refused call leaves everything as it was; a lost answer is not reliable.
LEMMA FaultAlone ==
    ASSUME IndInv, AloneInv, NEW p \in Procs, CallRefused(p) \/ ReplyLost(p)
    PROVE  AloneInv'
<1>1. Working(op[p])
    BY DEF CallRefused, ReplyLost, Working, Phases
<1>2. PICK o : o = op[p]
    OBVIOUS
<1>3. /\ o \in Call /\ CallTrue(o) /\ o.queue \in Queue \cup {Idle}
      /\ Reliable => CallBacked(o)
      /\ \A q \in Procs \ {p} : op[q] = Idle
    BY <1>1, <1>2, AtWork
<1>4. PICK h : h = o.queue
    OBVIOUS
<1>5. op' = [op EXCEPT ![p] = h] /\ rows' = rows /\ faults' = faults + 1
    BY <1>2, <1>4 DEF CallRefused, ReplyLost
<1>6. MappedAlone' /\ SodExclusion'
    BY <1>5 DEF AloneInv, MappedAlone, SodExclusion, Present
<1>7. h.phase \in {"link", "next"} => Copies(h)'
    BY <1>3, <1>4, <1>5 DEF CallTrue, Copies, Copied, Idle
<1>8. h.phase \in {"link", "next", "idle"}
    BY <1>3, <1>4 DEF Queue, Idle
<1>9. Reliable' => Covered'
    <2>1. CASE CallRefused(p)
        <3>1. Reliable' => Reliable
            BY <1>5, StillReliable DEF IndInv
        <3>2. Reliable => Covered
            BY <1>2, <1>3, <2>1 DEF CallRefused, CallBacked, Covered
        <3>3. Covered => Covered'
            BY <1>5, <2>1 DEF CallRefused, Covered, Granted, Backed
        <3>. QED
            BY <3>1, <3>2, <3>3
    <2>2. CASE ReplyLost(p)
        BY <1>5, <2>2 DEF ReplyLost, Reliable, IndInv, TypeOK
    <2>. QED
        BY <2>1, <2>2
<1>10. Fits(h)'
    BY <1>7, <1>8, <1>9 DEF Fits, Working, Phases
<1>. QED
    BY <1>3, <1>5, <1>6, <1>10, Goes DEF IndInv

\* The rows a supersede's commit leaves: the superseded row REVOKED, a new row as its
\* handler has it, every other row as it was.
LEMMA ReplacedRows ==
    ASSUME IndInv, NEW p \in Procs, NEW o, o = op[p], o \in Call, CallSound(o), Replace(p)
    PROVE  /\ o.victim \in Rows \ {o.row} /\ o.row \in Rows /\ o.after \in Row
           /\ o.after.status = "ACTIVE"
           /\ rows'[o.victim].status = "REVOKED"
           /\ rows'[o.victim].target = rows[o.victim].target
           /\ rows'[o.victim].via = rows[o.victim].via
           /\ rows'[o.victim].waived = rows[o.victim].waived
           /\ Present(o.victim)
           /\ rows'[o.row] = IF o.kind = "create" THEN o.after ELSE rows[o.row]
           /\ \A r \in Rows \ {o.row, o.victim} : rows'[r] = rows[r]
<1>1. /\ o.victim \in Rows \ {o.row} /\ o.row \in Rows /\ o.after \in Row /\ Present(o.victim)
      /\ o.after.status = "ACTIVE"
    BY DEF Replace, CallSound, Call
<1>2. rows \in [Rows -> Row \cup {Absent}] /\ rows[o.victim] \in Row
    BY <1>1, RowOf DEF IndInv, TypeOK
<1>3. /\ rows'[o.victim] = [rows[o.victim] EXCEPT !.status = "REVOKED"]
      /\ rows'[o.row] = IF o.kind = "create" THEN o.after ELSE rows[o.row]
      /\ \A r \in Rows \ {o.row, o.victim} : rows'[r] = rows[r]
    BY <1>1, <1>2 DEF Replace
<1>. QED
    BY <1>1, <1>2, <1>3 DEF Row

\* The caller's listing follows the row this session has superseded.
LEMMA DroppedCopies ==
    ASSUME NEW queue \in Queue, NEW v \in Rows, Copies(queue),
           rows'[v].status = "REVOKED", rows'[v].waived = rows[v].waived,
           \A i \in queue.todo : i.row # v => rows'[i.row] = rows[i.row]
    PROVE  /\ Copies(Dropped(queue, v))'
           /\ \A i \in Dropped(queue, v).todo : \E j \in queue.todo : i.row = j.row
<1>1. queue # Idle
    BY DEF Queue, Idle
<1>2. Dropped(queue, v).todo =
        {IF item.row = v THEN [item EXCEPT !.seen.status = "REVOKED"] ELSE item : item \in queue.todo}
    BY <1>1 DEF Dropped, Queue
<1>3. PICK todo : todo = Dropped(queue, v).todo
    OBVIOUS
<1>4. \A item \in queue.todo : item.row \in Rows /\ item.seen \in Row /\ item \in [row : Rows, seen : Row]
    BY DEF Queue
<1>5. \A i \in todo : \E j \in queue.todo :
        /\ i.row = j.row /\ i.seen.waived = j.seen.waived
        /\ i.seen.status = IF j.row = v THEN "REVOKED" ELSE j.seen.status
        /\ i = IF j.row = v THEN [j EXCEPT !.seen.status = "REVOKED"] ELSE j
    BY <1>2, <1>3, <1>4 DEF Row
<1>6. \A i \in todo : rows'[i.row].status = i.seen.status /\ rows'[i.row].waived = i.seen.waived
    BY <1>5 DEF Copies, Copied
<1>7. \A i, j \in todo : i.row = j.row => i = j
    BY <1>5 DEF Copies
<1>8. Dropped(queue, v)' = Dropped(queue, v)
    BY DEF Dropped
<1>. QED
    BY <1>3, <1>5, <1>6, <1>7, <1>8 DEF Copies, Copied

LEMMA ReplaceAlone == ASSUME IndInv, AloneInv, NEW p \in Procs, Replace(p) PROVE AloneInv'
<1>1. PICK o : o = op[p]
    OBVIOUS
<1>2. Working(o) /\ o.phase = "replace"
    BY <1>1 DEF Replace, Working, Phases
<1>3. /\ o \in Call /\ CallSound(o) /\ CallTrue(o) /\ o.queue \in Queue \cup {Idle}
      /\ o.after.status = "ACTIVE" => Excluded(o.row, o.after)
      /\ Reliable => CallBacked(o)
      /\ o.queue # Idle => QueueSound(o.queue)
      /\ \A q \in Procs \ {p} : op[q] = Idle
    BY <1>1, <1>2, AtWork
<1>4. /\ o.victim \in Rows \ {o.row} /\ o.row \in Rows /\ o.after \in Row
      /\ o.after.status = "ACTIVE"
      /\ rows'[o.victim].status = "REVOKED"
      /\ rows'[o.victim].target = rows[o.victim].target
      /\ rows'[o.victim].via = rows[o.victim].via
      /\ rows'[o.victim].waived = rows[o.victim].waived
      /\ Present(o.victim)
      /\ rows'[o.row] = IF o.kind = "create" THEN o.after ELSE rows[o.row]
      /\ \A r \in Rows \ {o.row, o.victim} : rows'[r] = rows[r]
    BY <1>1, <1>3, ReplacedRows
<1>5. PICK h : h = [o EXCEPT !.phase = "grant", !.queue = Dropped(o.queue, o.victim)]
    OBVIOUS
<1>6. /\ h.kind = o.kind /\ h.row = o.row /\ h.seen = o.seen /\ h.after = o.after
      /\ h.phase = "grant" /\ h.queue = Dropped(o.queue, o.victim)
    BY <1>3, <1>5 DEF Call
<1>7. op' = [op EXCEPT ![p] = h] /\ real' = real /\ faults' = faults
    BY <1>1, <1>5 DEF Replace, Enter
<1>8. rows[o.victim].target = o.after.target
    BY <1>2, <1>3 DEF CallTrue
<1>9. o.kind = "create" => o.after.via = NoGroup /\ (Present(o.row) => rows[o.row] = o.after)
    BY <1>3 DEF CallTrue
<1>10. o.kind # "create" => Copied(o.row, o.seen) /\ o.seen.status # o.after.status
    BY <1>3 DEF CallTrue
<1>11. MappedAlone'
    BY <1>4, <1>9 DEF AloneInv, MappedAlone, Present
<1>12. SodExclusion'
    <2>. SUFFICES ASSUME NEW r \in Rows, NEW s \in Rows, r # s,
                         rows'[r].status = "ACTIVE", rows'[s].status = "ACTIVE",
                         <<rows'[r].target, rows'[s].target>> \in Conflict
                  PROVE  rows'[r].waived \/ rows'[s].waived
        BY DEF SodExclusion
    <2>1. r # o.victim /\ s # o.victim
        BY <1>4
    <2>2. CASE rows'[r] = rows[r] /\ rows'[s] = rows[s]
        BY <2>2 DEF AloneInv, SodExclusion
    <2>3. CASE r = o.row /\ rows'[r] = o.after /\ rows'[s] = rows[s]
        BY <1>3, <1>4, <2>3 DEF Excluded
    <2>4. CASE s = o.row /\ rows'[s] = o.after /\ rows'[r] = rows[r]
        <3>1. <<rows'[s].target, rows'[r].target>> \in Conflict
            BY ConstantsAssumption
        <3>. QED
            BY <1>3, <1>4, <2>4, <3>1 DEF Excluded
    <2>. QED
        BY <1>4, <2>1, <2>2, <2>3, <2>4
<1>13. o.queue # Idle => Copies(Dropped(o.queue, o.victim))' /\
                        \A i \in Dropped(o.queue, o.victim).todo : i.row # o.row
    <2>. SUFFICES ASSUME o.queue # Idle
                  PROVE  Copies(Dropped(o.queue, o.victim))' /\
                         \A i \in Dropped(o.queue, o.victim).todo : i.row # o.row
        BY DEF Copies, Copied, Dropped
    <2>1. o.queue \in Queue /\ Copies(o.queue) /\ \A i \in o.queue.todo : i.row # o.row
        BY <1>3 DEF CallTrue
    <2>2. \A i \in o.queue.todo : i.row \in Rows
        BY <2>1 DEF Queue
    <2>3. \A i \in o.queue.todo : i.row # o.victim => rows'[i.row] = rows[i.row]
        BY <1>4, <2>1, <2>2
    <2>. QED
        BY <1>4, <2>1, <2>3, DroppedCopies
<1>14. CallTrue(h)'
    <2>1. h.kind = "create" => /\ h.seen = h.after /\ h.queue = Idle /\ h.after.via = NoGroup
                               /\ rows'[h.row] = h.after
        BY <1>3, <1>4, <1>6 DEF CallTrue, Dropped
    <2>2. h.kind # "create" => Copied(h.row, h.seen)' /\ h.seen.status # h.after.status
        BY <1>4, <1>6, <1>10 DEF Copied
    <2>3. h.queue # Idle => o.queue # Idle
        BY <1>6 DEF Dropped
    <2>4. h.queue # Idle => Copies(h.queue)' /\ \A i \in h.queue.todo : i.row # h.row
        BY <1>6, <1>13, <2>3 DEF Copies, Copied, Dropped
    <2>5. h.after.status # "ABSENT"
        BY <1>4, <1>6
    <2>. QED
        BY <1>6, <2>1, <2>2, <2>4, <2>5 DEF CallTrue, Present
<1>15. Excluded(h.row, h.after)'
    BY <1>3, <1>4, <1>6 DEF Excluded
<1>16. Reliable' => CallBacked(h)'
    <2>. SUFFICES ASSUME Reliable'
                  PROVE  CallBacked(h)'
        OBVIOUS
    <2>1. CallBacked(o)
        BY <1>3, <1>7 DEF Reliable
    <2>2. Granted' = Granted
        BY <1>7 DEF Granted
    <2>3. ASSUME NEW t, NEW x \in Rows, rows[x].status = "ACTIVE", rows[x].target = t, x # o.victim
          PROVE  Backed(t)'
        <3>1. rows'[x] = rows[x]
            <4>1. CASE x = o.row /\ o.kind = "create"
                <5>1. Present(x)
                    BY <2>3 DEF Present
                <5>. QED
                    BY <1>4, <1>9, <4>1, <5>1
            <4>. QED
                BY <1>4, <2>3, <4>1
        <3>. QED
            BY <2>3, <3>1 DEF Backed
    <2>4. \A t \in Granted \ {o.after.target} : Backed(t)'
        BY <1>8, <2>1, <2>3 DEF CallBacked, Backed
    <2>5. o.after.target \in Granted => Backed(o.after.target)'
        <3>. SUFFICES ASSUME o.after.target \in Granted
                      PROVE  Backed(o.after.target)'
            BY DEF Backed
        <3>1. rows[o.victim].status # "ACTIVE" /\ Backed(o.after.target)
            BY <1>2, <2>1 DEF CallBacked
        <3>. QED
            BY <2>3, <3>1 DEF Backed
    <2>. QED
        BY <1>6, <2>2, <2>4, <2>5 DEF CallBacked, Backed
<1>17. Fits(h)'
    BY <1>6, <1>14, <1>15, <1>16 DEF Fits, Working, Phases
<1>. QED
    BY <1>3, <1>7, <1>11, <1>12, <1>17, Goes DEF IndInv

\* The columns that a commit writes over a copy: status and SoD waiver are the handler's.
LEMMA FlushOverCopy ==
    ASSUME NEW row \in Row, NEW seen \in Row, NEW after \in Row,
           row.status = seen.status, row.waived = seen.waived
    PROVE  /\ Flush(row, seen, after).status = after.status
           /\ Flush(row, seen, after).waived = after.waived
           /\ Flush(row, seen, after).target = row.target
           /\ Flush(row, seen, after).via = row.via
BY DEF Flush, Written, Row

\* What a commit leaves in its row.
LEMMA CommittedRow ==
    ASSUME IndInv, NEW p \in Procs, NEW o, o = op[p], o \in Call, CallSound(o), CallTrue(o), Commit(p)
    PROVE  /\ o.row \in Rows
           /\ \A s \in Rows \ {o.row} : rows'[s] = rows[s]
           /\ rows'[o.row].status = o.after.status
           /\ rows'[o.row].waived = o.after.waived
           /\ rows'[o.row].target = o.after.target
           /\ rows'[o.row].via = IF Present(o.row) THEN rows[o.row].via ELSE NoGroup
           /\ Present(o.row) => rows[o.row].target = o.after.target
<1>1. o.row \in Rows /\ o.seen \in Row /\ o.after \in Row
    BY DEF Call
<1>2. rows \in [Rows -> Row \cup {Absent}]
    BY DEF IndInv, TypeOK
<1>3. rows' = [rows EXCEPT ![o.row] = IF Present(o.row) THEN Flush(rows[o.row], o.seen, o.after) ELSE o.after]
    BY DEF Commit
<1>4. \A s \in Rows \ {o.row} : rows'[s] = rows[s]
    BY <1>1, <1>2, <1>3
<1>5. CASE Present(o.row)
    <2>1. rows'[o.row] = Flush(rows[o.row], o.seen, o.after) /\ rows[o.row] \in Row
        BY <1>1, <1>2, <1>3, <1>5, RowOf DEF IndInv
    <2>2. rows[o.row].target = o.after.target
        BY <1>5 DEF CallSound, SameGrant
    <2>3. rows[o.row].status = o.seen.status /\ rows[o.row].waived = o.seen.waived
        BY <1>5 DEF CallTrue, Copied
    <2>. QED
        BY <1>1, <1>4, <1>5, <2>1, <2>2, <2>3, FlushOverCopy
<1>6. CASE ~Present(o.row)
    <2>1. rows'[o.row] = o.after
        BY <1>1, <1>2, <1>3, <1>6
    <2>2. o.after.via = NoGroup
        BY <1>6 DEF CallTrue, CallSound
    <2>. QED
        BY <1>1, <1>4, <1>6, <2>1, <2>2
<1>. QED
    BY <1>5, <1>6

LEMMA CommitAlone == ASSUME IndInv, AloneInv, NEW p \in Procs, Commit(p) PROVE AloneInv'
<1>1. PICK o : o = op[p]
    OBVIOUS
<1>2. Working(o) /\ o.phase = "commit"
    BY <1>1 DEF Commit, Working, Phases
<1>3. /\ o \in Call /\ CallSound(o) /\ CallTrue(o) /\ o.queue \in Queue \cup {Idle}
      /\ o.after.status = "ACTIVE" => Excluded(o.row, o.after)
      /\ Reliable => CallBacked(o)
      /\ \A q \in Procs \ {p} : op[q] = Idle
    BY <1>1, <1>2, AtWork
<1>4. /\ o.row \in Rows
      /\ \A s \in Rows \ {o.row} : rows'[s] = rows[s]
      /\ rows'[o.row].status = o.after.status
      /\ rows'[o.row].waived = o.after.waived
      /\ rows'[o.row].target = o.after.target
      /\ rows'[o.row].via = IF Present(o.row) THEN rows[o.row].via ELSE NoGroup
      /\ Present(o.row) => rows[o.row].target = o.after.target
    BY <1>1, <1>3, CommittedRow
<1>5. PICK h : h = IF o.kind \in {"activate", "deactivate", "revoke"} /\ o.after.target \in Groups
                   THEN [phase |-> "link", kind |-> o.kind, group |-> o.after.target,
                         actor |-> o.actor, hours |-> o.hours, todo |-> {}]
                   ELSE o.queue
    OBVIOUS
<1>6. op' = [op EXCEPT ![p] = h] /\ real' = real /\ faults' = faults
    BY <1>1, <1>5 DEF Commit
<1>7. MappedAlone'
    BY <1>4 DEF AloneInv, MappedAlone, Present
<1>8. SodExclusion'
    <2>. SUFFICES ASSUME NEW r \in Rows, NEW s \in Rows, r # s,
                         rows'[r].status = "ACTIVE", rows'[s].status = "ACTIVE",
                         <<rows'[r].target, rows'[s].target>> \in Conflict
                  PROVE  rows'[r].waived \/ rows'[s].waived
        BY DEF SodExclusion
    <2>1. CASE r # o.row /\ s # o.row
        BY <1>4, <2>1 DEF AloneInv, SodExclusion
    <2>2. CASE r = o.row
        BY <1>3, <1>4, <2>2 DEF Excluded
    <2>3. CASE s = o.row
        <3>1. <<rows'[s].target, rows'[r].target>> \in Conflict
            BY ConstantsAssumption
        <3>. QED
            BY <1>3, <1>4, <2>3, <3>1 DEF Excluded
    <2>. QED
        BY <2>1, <2>2, <2>3
<1>9. h.phase \in {"link", "next", "idle"}
    BY <1>3, <1>5 DEF Queue, Idle
<1>10. h.phase \in {"link", "next"} => Copies(h)'
    <2>1. CASE h = o.queue /\ o.queue # Idle
        <3>1. Copies(o.queue) /\ \A i \in o.queue.todo : i.row # o.row /\ i.row \in Rows
            BY <1>3, <2>1 DEF CallTrue, Queue
        <3>. QED
            BY <1>4, <2>1, <3>1 DEF Copies, Copied
    <2>2. CASE h = o.queue /\ o.queue = Idle
        BY <2>2 DEF Idle
    <2>3. CASE h # o.queue
        BY <1>5, <2>3 DEF Copies
    <2>. QED
        BY <2>1, <2>2, <2>3
<1>11. Reliable' => Covered'
    <2>. SUFFICES ASSUME Reliable', NEW t \in Granted'
                  PROVE  Backed(t)'
        BY DEF Covered
    <2>1. CallBacked(o) /\ t \in Granted
        BY <1>3, <1>6 DEF Reliable, Granted
    <2>2. ASSUME NEW x \in Rows, rows[x].status = "ACTIVE", rows[x].target = t, x # o.row
          PROVE  Backed(t)'
        BY <1>4, <2>2 DEF Backed
    <2>3. CASE t # o.after.target
        <3>1. PICK x \in Rows : rows[x].status = "ACTIVE" /\ rows[x].target = t
            BY <2>1, <2>3 DEF CallBacked, Backed
        <3>2. x # o.row
            BY <1>4, <2>3, <3>1 DEF Present
        <3>. QED
            BY <2>2, <3>1, <3>2
    <2>4. CASE t = o.after.target /\ o.after.status = "ACTIVE"
        BY <1>4, <2>4 DEF Backed
    <2>5. CASE t = o.after.target /\ o.after.status # "ACTIVE"
        <3>1. PICK x \in Rows : rows[x].status = "ACTIVE" /\ rows[x].target = t
            BY <2>1, <2>5 DEF CallBacked, Backed
        <3>2. rows[o.row].status # "ACTIVE"
            BY <1>2, <2>1, <2>5 DEF CallBacked
        <3>. QED
            BY <2>2, <3>1, <3>2
    <2>. QED
        BY <2>3, <2>4, <2>5
<1>12. Fits(h)'
    BY <1>9, <1>10, <1>11 DEF Fits, Working, Phases
<1>. QED
    BY <1>3, <1>6, <1>7, <1>8, <1>12, Goes DEF IndInv
-----------------------------------------------------------------------------
(* The cascades, the sync and the environment, one handler at a time. *)

\* The only handler, when it is not inside a call.
LEMMA InCascade ==
    ASSUME IndInv, AloneInv, NEW p \in Procs, op[p].phase \in {"link", "next", "apply"}
    PROVE  /\ \A q \in Procs \ {p} : op[q] = Idle
           /\ Fits(op[p]) /\ ~Working(op[p])
           /\ Reliable => Covered
           /\ op[p].phase \in {"link", "next"} => op[p] \in Queue /\ Copies(op[p]) /\ QueueSound(op[p])
<1>1. op[p].phase # "idle" /\ ~Working(op[p])
    BY DEF Working, Phases
<1>2. Fits(op[p]) /\ \A q \in Procs \ {p} : op[q] = Idle
    BY <1>1, OnlyOne
<1>. QED
    BY <1>1, <1>2, QueueOfHandler DEF Fits, IndInv, HandlersSound

\* A mapped row is never for a group, is never ACTIVE when it is made, and is no row of the listing.
LEMMA EvaluateAlone == ASSUME IndInv, AloneInv, NEW p \in Procs, EvaluateMapping(p) PROVE AloneInv'
<1>1. PICK m \in Missing, r \in Rows :
        /\ Fresh(r)
        /\ rows' = [rows EXCEPT ![r] = NewRow(MappingPayload(m[2]), "ELIGIBLE", m[1], FALSE)]
    BY DEF EvaluateMapping
<1>2. UNCHANGED <<real, op, faults>>
    BY DEF EvaluateMapping
<1>3. PICK new : new = NewRow(MappingPayload(m[2]), "ELIGIBLE", m[1], FALSE)
    OBVIOUS
<1>4. new.status = "ELIGIBLE" /\ new.target = m[2]
    BY <1>3 DEF NewRow, MappingPayload
<1>5. m[2] \notin Groups
    BY ConstantsAssumption DEF Missing
<1>6. rows'[r] = new /\ \A s \in Rows \ {r} : rows'[s] = rows[s]
    BY <1>1, <1>3 DEF IndInv, TypeOK
<1>7. ~Present(r)
    BY <1>1 DEF Fresh
<1>8. op[p].phase = "link"
    BY DEF EvaluateMapping
<1>9. /\ \A q \in Procs \ {p} : op[q] = Idle
      /\ Reliable => Covered
      /\ op[p] \in Queue /\ Copies(op[p]) /\ QueueSound(op[p]) /\ ~Working(op[p])
    BY <1>8, InCascade
<1>10. PICK h \in Queue : h = op[p]
    BY <1>9
<1>11. op' = [op EXCEPT ![p] = h]
    BY <1>2, <1>10 DEF IndInv, TypeOK
<1>12. MappedAlone'
    BY <1>4, <1>5, <1>6 DEF AloneInv, MappedAlone, Present
<1>13. SodExclusion'
    BY <1>4, <1>6 DEF AloneInv, SodExclusion
<1>14. Copies(h)'
    <2>1. \A i \in h.todo : i.row \in Rows /\ i.row # r
        BY <1>7, <1>9, <1>10 DEF QueueSound, Queue
    <2>. QED
        BY <1>6, <1>9, <1>10, <2>1 DEF Copies, Copied
<1>15. Reliable' => Covered'
    BY <1>2, <1>6, <1>7, <1>9 DEF Covered, Granted, Backed, Reliable, Present
<1>16. Fits(h)'
    BY <1>8, <1>10, <1>14, <1>15 DEF Fits, Working, Phases
<1>. QED
    BY <1>9, <1>11, <1>12, <1>13, <1>16, Goes DEF IndInv

\* A listing is a copy of the rows, each once.
LEMMA SnapshotCopies ==
    ASSUME NEW S, NEW q, q.todo = Snapshot(S)
    PROVE  Copies(q)
BY DEF Snapshot, Copies, Copied

LEMMA ListAlone == ASSUME IndInv, AloneInv, NEW p \in Procs, ListLinked(p) PROVE AloneInv'
<1>1. op[p].phase = "link"
    BY DEF ListLinked
<1>2. /\ \A q \in Procs \ {p} : op[q] = Idle
      /\ Reliable => Covered
      /\ op[p] \in Queue
    BY <1>1, InCascade
<1>3. PICK h : h = IF op[p].kind = "sync" THEN Idle
                   ELSE [op[p] EXCEPT !.phase = "next",
                                      !.todo = Snapshot(LinkedRows(op[p].group, op[p].kind))]
    OBVIOUS
<1>4. op' = [op EXCEPT ![p] = h] /\ UNCHANGED <<rows, real, faults>>
    BY <1>3 DEF ListLinked
<1>5. CASE h = Idle
    <2>1. Fits(h)
        BY <1>2, <1>5 DEF Fits, Working, Phases, Idle
    <2>. QED
        BY <1>2, <1>4, <2>1, GoesQuietly
<1>6. CASE h # Idle
    <2>1. h.phase = "next" /\ h.todo = Snapshot(LinkedRows(op[p].group, op[p].kind))
        BY <1>2, <1>3, <1>6 DEF Queue
    <2>2. Fits(h)
        BY <1>2, <2>1, SnapshotCopies DEF Fits, Working, Phases
    <2>. QED
        BY <1>2, <1>4, <2>2, GoesQuietly
<1>. QED
    BY <1>5, <1>6

LEMMA FinishAlone == ASSUME IndInv, AloneInv, NEW p \in Procs, FinishLinked(p) PROVE AloneInv'
<1>1. op[p].phase = "next"
    BY DEF FinishLinked
<1>2. /\ \A q \in Procs \ {p} : op[q] = Idle
      /\ Reliable => Covered
      /\ op[p] \in Queue /\ Copies(op[p])
    BY <1>1, InCascade
<1>3. PICK h : h = IF op[p].kind = "sync" THEN [op[p] EXCEPT !.phase = "link"] ELSE Idle
    OBVIOUS
<1>4. op' = [op EXCEPT ![p] = h] /\ UNCHANGED <<rows, real, faults>>
    BY <1>3 DEF FinishLinked
<1>5. h = Idle \/ (h.phase = "link" /\ h.todo = op[p].todo)
    BY <1>2, <1>3 DEF Queue
<1>6. Fits(h)
    BY <1>2, <1>5 DEF Fits, Working, Phases, Idle, Copies
<1>. QED
    BY <1>2, <1>4, <1>6, GoesQuietly

\* A nested call keeps its own row out of what its cascade has left to do.
LEMMA NextAlone == ASSUME IndInv, AloneInv, NEW p \in Procs, NextLinked(p) PROVE AloneInv'
<1>. DEFINE rest(item) == [op[p] EXCEPT !.todo = @ \ {item}]
            waived(item, live) == SodConflicts(item.seen.target, live) # {}
            call(item, live) ==
                CASE rest(item).kind = "activate" ->
                        Activation(item.row, item.seen, rest(item).hours, waived(item, live))
                  [] rest(item).kind = "deactivate" -> Deactivation(item.row, item.seen)
                  [] OTHER -> Revocation(item.row, item.seen)
            proceeds(item, live) ==
                CASE rest(item).kind = "activate" ->
                        CanActivate(item.seen) /\ (waived(item, live) => rest(item).actor = "override")
                  [] rest(item).kind = "deactivate" -> CanDeactivate(item.seen, rest(item).actor)
                  [] OTHER -> CanRevoke(item.seen)
            nested(item, live) ==
                [call(item, live) EXCEPT !.actor = rest(item).actor, !.hours = rest(item).hours,
                                         !.queue = rest(item)]
<1>1. PICK item \in op[p].todo, live \in BOOLEAN :
        /\ IF rest(item).kind = "activate" THEN LiveRead(live) ELSE live /\ UNCHANGED faults
        /\ IF ~proceeds(item, live) THEN Enter(p, rest(item))
           ELSE IF rest(item).kind = "activate" THEN EnterGrant(p, nested(item, live))
                                                ELSE Enter(p, nested(item, live))
    BY DEF NextLinked
<1>2. UNCHANGED <<rows, real>> /\ (faults' = faults \/ faults' = faults + 1)
    BY <1>1, LiveReadOnce DEF NextLinked
<1>3. op[p].phase = "next"
    BY DEF NextLinked
<1>4. /\ \A q \in Procs \ {p} : op[q] = Idle
      /\ Reliable => Covered
      /\ op[p] \in Queue /\ Copies(op[p]) /\ ~Working(op[p])
    BY <1>3, InCascade
<1>5. PICK q \in Queue : q = rest(item)
    BY <1>4 DEF Queue
<1>6. /\ q.kind = op[p].kind /\ q.actor \in Actors /\ q.hours \in Nat /\ q.phase = "next"
      /\ q.todo = op[p].todo \ {item}
    BY <1>3, <1>4, <1>5 DEF Queue
<1>7. Copies(q) /\ \A i \in q.todo : i.row # item.row
    BY <1>4, <1>6 DEF Copies
<1>8. item.row \in Rows /\ item.seen \in Row /\ Copied(item.row, item.seen)
    BY <1>4 DEF Queue, Copies
<1>9. q # Idle
    BY <1>6 DEF Idle
<1>10. CASE ~proceeds(item, live)
    <2>1. op' = [op EXCEPT ![p] = q]
        BY <1>1, <1>5, <1>10 DEF Enter
    <2>2. Fits(q)
        BY <1>4, <1>6, <1>7 DEF Fits, Working, Phases
    <2>. QED
        BY <1>2, <1>4, <2>1, <2>2, GoesQuietly
<1>11. CASE proceeds(item, live) /\ q.kind = "activate"
    <2>0. PICK w \in BOOLEAN : w = waived(item, live)
        OBVIOUS
    <2>1. Activation(item.row, item.seen, q.hours, w) \in Call
        BY <1>6, <1>8, ActivationTyped DEF IndInv, TypeOK
    <2>2. PICK n \in Call :
            n = [Activation(item.row, item.seen, q.hours, w)
                    EXCEPT !.actor = q.actor, !.hours = q.hours, !.queue = q]
        BY <1>6, <2>1, CallExtended
    <2>3. EnterGrant(p, n)
        BY <1>1, <1>5, <1>11, <2>0, <2>2
    <2>4. /\ n.kind = "activate" /\ n.row = item.row /\ n.seen = item.seen /\ n.queue = q
          /\ n.after.status = "ACTIVE" /\ n.after.target = item.seen.target /\ n.after.waived = w
        <3>1. /\ n.kind = Activation(item.row, item.seen, q.hours, w).kind
              /\ n.row = Activation(item.row, item.seen, q.hours, w).row
              /\ n.seen = Activation(item.row, item.seen, q.hours, w).seen
              /\ n.after = Activation(item.row, item.seen, q.hours, w).after
              /\ n.queue = q
            BY <2>1, <2>2 DEF Call
        <3>. QED
            BY <1>8, <3>1, ActivationParts
    <2>5. PICK c \in Call :
            /\ op' = [op EXCEPT ![p] = c]
            /\ c.kind = n.kind /\ c.row = n.row /\ c.seen = n.seen
            /\ c.after = n.after /\ c.queue = n.queue
            /\ c.phase \in {"oust", "replace", "grant"}
            /\ c.phase # "grant" => Ousts(c)
        BY <2>3, EnteringGrant DEF IndInv
    <2>6. item.seen.status = "ELIGIBLE"
        BY <1>5, <1>11 DEF CanActivate
    <2>7. Excluded(item.row, n.after)
        BY <2>0, <2>4, Checked DEF Excluded
    <2>. QED
        <3>1. /\ c.kind = "activate" /\ c.row = item.row /\ c.seen = item.seen /\ c.queue = q
              /\ c.after.status = "ACTIVE" /\ c.phase # "commit"
              /\ c.phase \in {"oust", "replace"} => Ousts(c)
            BY <2>4, <2>5
        <3>2. Excluded(c.row, c.after)
            BY <2>4, <2>5, <2>7
        <3>3. op' = [op EXCEPT ![p] = c]
            BY <2>5
        <3>. QED
            BY <1>2, <1>4, <1>7, <1>8, <2>6, <3>1, <3>2, <3>3, BeginsAlone
<1>12. CASE proceeds(item, live) /\ q.kind = "deactivate"
    <2>1. PICK c \in Call :
            c = [Deactivation(item.row, item.seen)
                    EXCEPT !.actor = q.actor, !.hours = q.hours, !.queue = q]
        BY <1>6, <1>8, DeactivationTyped, CallExtended
    <2>2. op' = [op EXCEPT ![p] = c]
        BY <1>1, <1>5, <1>12, <2>1 DEF Enter
    <2>3. /\ c.kind = "deactivate" /\ c.row = item.row /\ c.seen = item.seen /\ c.queue = q
          /\ c.phase = "remove" /\ c.after.status = "ELIGIBLE"
        <3>1. Deactivation(item.row, item.seen) \in Call
            BY <1>8, DeactivationTyped
        <3>2. /\ c.kind = Deactivation(item.row, item.seen).kind /\ c.row = Deactivation(item.row, item.seen).row
              /\ c.seen = Deactivation(item.row, item.seen).seen /\ c.after = Deactivation(item.row, item.seen).after
              /\ c.queue = q /\ c.phase = Deactivation(item.row, item.seen).phase
            BY <2>1, <3>1 DEF Call
        <3>. QED
            BY <1>8, <3>2, DeactivationParts
    <2>4. item.seen.status = "ACTIVE"
        BY <1>5, <1>12 DEF CanDeactivate
    <2>. QED
        BY <1>2, <1>4, <1>7, <1>8, <2>2, <2>3, <2>4, BeginsAlone
<1>13. CASE proceeds(item, live) /\ q.kind \notin {"activate", "deactivate"}
    <2>1. PICK c \in Call :
            c = [Revocation(item.row, item.seen)
                    EXCEPT !.actor = q.actor, !.hours = q.hours, !.queue = q]
        BY <1>6, <1>8, RevocationTyped, CallExtended
    <2>2. op' = [op EXCEPT ![p] = c]
        BY <1>1, <1>5, <1>13, <2>1 DEF Enter
    <2>3. /\ c.kind = "revoke" /\ c.row = item.row /\ c.seen = item.seen /\ c.queue = q
          /\ c.phase = (IF item.seen.status = "ACTIVE" THEN "remove" ELSE "commit")
          /\ c.after.status = "REVOKED"
        <3>1. Revocation(item.row, item.seen) \in Call
            BY <1>8, RevocationTyped
        <3>2. /\ c.kind = Revocation(item.row, item.seen).kind /\ c.row = Revocation(item.row, item.seen).row
              /\ c.seen = Revocation(item.row, item.seen).seen /\ c.after = Revocation(item.row, item.seen).after
              /\ c.queue = q /\ c.phase = Revocation(item.row, item.seen).phase
            BY <2>1, <3>1 DEF Call
        <3>. QED
            BY <1>8, <3>2, RevocationParts
    <2>4. item.seen.status # "REVOKED"
        BY <1>5, <1>13 DEF CanRevoke, Final
    <2>. QED
        BY <1>2, <1>4, <1>7, <1>8, <2>2, <2>3, <2>4, BeginsAlone
<1>. QED
    BY <1>10, <1>11, <1>12, <1>13

LEMMA FetchAlone == ASSUME IndInv, AloneInv, MaxInFlight <= 1, FetchDirectory PROVE AloneInv'
<1>1. "scheduler" \in Procs
    BY DEF Procs, Workers
<1>2. \A q \in Procs : op[q] = Idle
    BY <1>1, StartsAlone DEF FetchDirectory, IndInv
<1>3. Reliable => Covered
    BY <1>2, NobodyAtWork DEF Working, Phases, Idle
<1>4. PICK h : h = [phase |-> "apply", listing |-> real \cap Groups]
    OBVIOUS
<1>5. op' = [op EXCEPT !["scheduler"] = h] /\ UNCHANGED <<rows, real, faults>>
    BY <1>4 DEF FetchDirectory
<1>6. Fits(h)
    BY <1>3, <1>4 DEF Fits, Working, Phases, Granted
<1>. QED
    BY <1>1, <1>2, <1>5, <1>6, GoesQuietly

\* The sync ends rows of groups whose access is gone: no access loses its row, and no row
\* in its listing is touched.
LEMMA ApplyAlone == ASSUME IndInv, AloneInv, ApplySync PROVE AloneInv'
<1>0. PICK o : o = op["scheduler"]
    OBVIOUS
<1>. DEFINE gone == members \ o.listing
            left == {r \in Rows : Live(r) /\ rows[r].via \notin o.listing \cup {NoGroup}}
<1>1. PICK stale \in SUBSET Rows :
        /\ stale \subseteq UNION {ActiveRows(g) : g \in gone}
        /\ rows' = [r \in Rows |-> IF r \in stale THEN [rows[r] EXCEPT !.status = "REVOKED"] ELSE rows[r]]
    BY <1>0 DEF ApplySync
<1>2. \E h : op' = [op EXCEPT !["scheduler"] = h] /\
              (h = Idle \/ (h.phase = "next" /\ h.todo = Snapshot(left)))
    <2>. DEFINE listing == op["scheduler"].listing
                changed == \E g \in (members \cup listing) \ (members \cap listing) : Linked[g] # {}
                h == IF changed
                     THEN [phase |-> "next", kind |-> "sync", group |-> NoGroup, actor |-> "admin", hours |-> 0,
                           todo |-> Snapshot({r \in Rows : Live(r) /\ rows[r].via \notin listing \cup {NoGroup}})]
                     ELSE Idle
    <2>1. op' = [op EXCEPT !["scheduler"] = h]
        BY DEF ApplySync
    <2>2. h = Idle \/ (h.phase = "next" /\ h.todo = Snapshot(left))
        BY <1>0
    <2>. QED
        BY <2>1, <2>2
<1>3. PICK h : op' = [op EXCEPT !["scheduler"] = h] /\ (h = Idle \/ (h.phase = "next" /\ h.todo = Snapshot(left)))
    BY <1>2
<1>4. UNCHANGED <<real, faults>>
    BY DEF ApplySync
<1>5. "scheduler" \in Procs /\ o.phase = "apply"
    BY <1>0 DEF ApplySync, Procs, Workers
<1>6. /\ \A q \in Procs \ {"scheduler"} : op[q] = Idle
      /\ Fits(o) /\ Reliable => Covered
    BY <1>0, <1>5, InCascade
<1>6a. Fits(o)
    BY <1>0, <1>5, InCascade
<1>7. \A r \in stale : rows[r].status = "ACTIVE" /\ rows[r].target \in members \ o.listing
    BY <1>1 DEF ActiveRows
<1>8. \A r \in stale : rows[r] \in Row
    BY <1>7, RowOf DEF IndInv, Present
<1>9. \A r \in Rows :
        /\ r \in stale => /\ rows'[r].status = "REVOKED" /\ rows'[r].target = rows[r].target
                          /\ rows'[r].via = rows[r].via
        /\ r \notin stale => rows'[r] = rows[r]
    BY <1>1, <1>8 DEF Row
<1>10. MappedAlone'
    <2>1. \A r \in Rows : Present(r)' => Present(r)
        BY <1>7, <1>9 DEF Present
    <2>. QED
        BY <1>9, <2>1 DEF AloneInv, MappedAlone
<1>11. SodExclusion'
    BY <1>9 DEF AloneInv, SodExclusion
<1>12. Reliable' => Covered'
    <2>. SUFFICES ASSUME Reliable', NEW t \in Granted'
                  PROVE  Backed(t)'
        BY DEF Covered
    <2>1. Covered /\ t \in Granted /\ Granted \cap Groups \subseteq o.listing
        BY <1>4, <1>5, <1>6, <1>6a DEF Reliable, Granted, Fits
    <2>2. PICK x \in Rows : rows[x].status = "ACTIVE" /\ rows[x].target = t
        BY <2>1 DEF Covered, Backed
    <2>3. x \notin stale
        BY <1>7, <2>1, <2>2 DEF IndInv, TypeOK
    <2>. QED
        BY <1>9, <2>2, <2>3 DEF Backed
<1>13. h.phase = "next" => Copies(h)'
    <2>. SUFFICES ASSUME h.phase = "next"
                  PROVE  Copies(h)'
        OBVIOUS
    <2>1. h.todo = Snapshot(left)
        BY <1>3 DEF Idle
    <2>2. \A r \in left : r \in Rows /\ r \notin stale
        <3>1. \A r \in left : r \in Rows /\ Present(r) /\ rows[r].via # NoGroup
            BY DEF Live
        <3>2. \A r \in left : rows[r].target \notin Groups
            BY <3>1 DEF AloneInv, MappedAlone
        <3>. QED
            BY <1>7, <3>1, <3>2 DEF IndInv, TypeOK
    <2>3. \A i \in h.todo : \E r \in left : i.row = r /\ i.seen = rows[r] /\ i = [row |-> r, seen |-> rows[r]]
        BY <2>1 DEF Snapshot
    <2>. HIDE DEF left
    <2>4. \A i \in h.todo : rows'[i.row] = i.seen
        BY <1>9, <2>2, <2>3
    <2>5. \A i, j \in h.todo : i.row = j.row => i = j
        BY <2>3
    <2>. QED
        BY <2>4, <2>5 DEF Copies, Copied
<1>14. Fits(h)'
    BY <1>3, <1>12, <1>13 DEF Fits, Working, Phases, Idle
<1>. QED
    BY <1>3, <1>5, <1>6, <1>10, <1>11, <1>14, Goes DEF IndInv

\* A step that touches no row, no handler and no access granted through the engine.
LEMMA QuietAlone ==
    ASSUME IndInv, AloneInv, UNCHANGED <<rows, op, faults>>, Granted' = Granted
    PROVE  AloneInv'
<1>1. Serial' /\ MappedAlone' /\ SodExclusion'
    BY DEF AloneInv, Serial, MappedAlone, SodExclusion, Present
<1>2. NoOrphanAccess'
    BY DEF AloneInv, NoOrphanAccess, Settled, Working, Granted, Reliable
<1>3. \A p \in Procs : op'[p] # Idle => Fits(op[p])'
    BY DEF AloneInv, Fits, Working, CallTrue, Copied, Copies, Excluded, CallBacked, Covered, Backed,
           Present, Reliable
<1>. QED
    BY <1>1, <1>2, <1>3 DEF AloneInv

LEMMA DirectoryAlone == ASSUME IndInv, AloneInv, DirectoryChanges PROVE AloneInv'
<1>1. Granted' = Granted
    BY DEF DirectoryChanges, Granted
<1>. QED
    BY <1>1, QuietAlone DEF DirectoryChanges

LEMMA TickAlone == ASSUME IndInv, AloneInv, Tick PROVE AloneInv'
<1>1. Granted' = Granted
    BY DEF Tick, Granted
<1>. QED
    BY <1>1, QuietAlone DEF Tick

LEMMA CrashAlone == ASSUME IndInv, AloneInv, Crash PROVE AloneInv'
<1>1. \A p \in Procs : op'[p] = Idle
    BY DEF Crash
<1>2. ~Reliable'
    BY DEF Crash, Reliable, IndInv, TypeOK
<1>3. Serial'
    BY <1>1 DEF Serial
<1>4. MappedAlone' /\ SodExclusion'
    BY DEF Crash, AloneInv, MappedAlone, SodExclusion, Present
<1>. QED
    BY <1>1, <1>2, <1>3, <1>4 DEF AloneInv, NoOrphanAccess

-----------------------------------------------------------------------------
\* At first there are no rows, no access and no handlers.
LEMMA InitAlone == Init => AloneInv
<1>. SUFFICES ASSUME Init
              PROVE  AloneInv
    OBVIOUS
<1>1. Serial /\ NoOrphanAccess /\ \A p \in Procs : op[p] # Idle => Fits(op[p])
    BY DEF Init, Serial, NoOrphanAccess
<1>2. MappedAlone /\ SodExclusion
    BY DEF Init, MappedAlone, SodExclusion, Present, Absent
<1>. QED
    BY <1>1, <1>2 DEF AloneInv

\* With one handler at a time, every step keeps the invariant.
LEMMA StepAlone == ASSUME MaxInFlight <= 1, IndInv, AloneInv, [Next]_vars PROVE AloneInv'
<1>1. CASE UNCHANGED vars
    BY <1>1, QuietAlone DEF vars, Granted
<1>2. ASSUME NEW p \in Requests, Starts(p)
      PROVE  AloneInv'
    <2>1. p \in Procs
        BY DEF Procs
    <2>. QED
        BY <1>2, <2>1, CreateAlone, ActivateAlone, DeactivateAlone, RevokeAlone, DecideAlone DEF Starts
<1>3. ASSUME NEW r \in Rows, Sweeps(r)
      PROVE  AloneInv'
    BY <1>3, SweepAlone
<1>4. ASSUME NEW p \in Procs, Steps(p)
      PROVE  AloneInv'
    BY <1>4, OustAlone, ReplaceAlone, GrantAlone, RemoveAlone, CommitAlone, EvaluateAlone,
       ListAlone, NextAlone, FinishAlone DEF Steps
<1>5. ASSUME NEW p \in Procs, CallRefused(p) \/ ReplyLost(p)
      PROVE  AloneInv'
    BY <1>5, FaultAlone
<1>6. CASE FetchDirectory \/ ApplySync
    BY <1>6, FetchAlone, ApplyAlone
<1>7. CASE DirectoryChanges \/ Crash \/ Tick
    BY <1>7, DirectoryAlone, CrashAlone, TickAlone
<1>. QED
    BY <1>1, <1>2, <1>3, <1>4, <1>5, <1>6, <1>7 DEF Next

\* With one handler at a time, AloneInv holds in every state.
LEMMA AlwaysAlone == ASSUME MaxInFlight <= 1 PROVE Spec => []AloneInv
<1>1. IndInv /\ AloneInv /\ [Next]_vars => AloneInv'
    BY StepAlone
<1>. QED
    BY <1>1, InitAlone, Inductive, PTL DEF Spec

\* With one handler at a time, two rows on opposite sides of an SoD policy are ACTIVE
\* together only with an override on record, whatever is refused, lost, misread or cut off
\* (check_sod_conflicts and each of its callers).
THEOREM SodExcluded == ASSUME MaxInFlight <= 1 PROVE Spec => []SodExclusion
<1>1. AloneInv => SodExclusion
    BY DEF AloneInv
<1>. QED
    BY <1>1, AlwaysAlone, PTL

\* With one handler at a time, and until an answer is lost or the process dies, access
\* granted through the engine has an ACTIVE row to take it away again (activate_assignment,
\* deactivate_assignment, revoke_assignment, the supersede, the sweeps and the sync).
THEOREM NoOrphans == ASSUME MaxInFlight <= 1 PROVE Spec => []NoOrphanAccess
<1>1. AloneInv => NoOrphanAccess
    BY DEF AloneInv
<1>. QED
    BY <1>1, AlwaysAlone, PTL
=============================================================================
