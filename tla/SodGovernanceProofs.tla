------------------------ MODULE SodGovernanceProofs ------------------------
(***************************************************************************)
(* Proofs about SodGovernance, for any policies, targets, requests and     *)
(* number of handlers under way: the type invariant, and that a lapsed     *)
(* exception ends the assignment it was granted for; with one handler at a *)
(* time (MCSodGovernance!PacedSpec), that such an assignment can be found, *)
(* and that whoever looks at notifications finds those there should be.    *)
(*                                                                         *)
(* What the end of an exception relies on was written by two commits of    *)
(* another handler, long ago: the request refers to the exception, then to *)
(* the assignment.  It stands because rows are appended and never renumbered, *)
(* an exception and a request keep their policy, and an exception is       *)
(* granted to one request (Grows, References).                             *)
(*                                                                         *)
(* The second half is about the other governance, of non-human identities  *)
(* (Nhi, started by MCNhi!PacedNhiSpec): shapes for any handlers under way *)
(* at once (NhiInv), and what one handler at a time leaves of reviews,     *)
(* leavers and notifications (NhiAlone: all but one are idle, and the one  *)
(* goes by what is still so, Steady).                                      *)
(***************************************************************************)
EXTENDS MCSodGovernance, MCNhi, FiniteSetTheorems, WellFoundedInduction, TLAPS

TopicNames == {"NEW_VIOLATION", "EXCEPTION_EXPIRING", "EXCEPTION_EXPIRED"}

\* What rows refer to.
References ==
    /\ \A r \in DOMAIN rows : rows[r].by \in 0..Len(requests)
    /\ \A i \in DOMAIN requests :
        /\ Exists(requests[i].policy)
        /\ requests[i].exception \in 0..Len(exceptions) /\ requests[i].assignment \in 0..Len(rows)
        /\ requests[i].exception # 0 => exceptions[requests[i].exception].policy = requests[i].policy
        /\ requests[i].assignment # 0 => rows[requests[i].assignment].by = i
    /\ \A i, j \in DOMAIN requests : requests[i].exception # 0 /\ requests[i].exception = requests[j].exception => i = j
    /\ \A e \in DOMAIN exceptions : Exists(exceptions[e].policy)
    /\ noted \subseteq Policies /\ \A p \in noted : Exists(p)

\* What notification k is about is there.
About(k) ==
    /\ k[1] = "NEW_VIOLATION" => k[2] \in noted
    /\ k[1] \in {"EXCEPTION_EXPIRING", "EXCEPTION_EXPIRED"} => k[2] \in DOMAIN exceptions
    /\ k[1] = "EXCEPTION_REQUESTED" => k[2] \in DOMAIN requests

Shape ==
    /\ policy \in [Policies -> [status : {"ACTIVE", "DISABLED"}, a : SUBSET Targets, b : SUBSET Targets] \cup {Absent}]
    /\ \A p \in Policies : Exists(p) => policy[p].a \cap policy[p].b = {}
    /\ rows \in Seq(Row) /\ exceptions \in Seq(Exception) /\ requests \in Seq(Request)
    /\ notes \in [Keys -> Nat] /\ \A k \in Keys : notes[k] > 0 => About(k)
    /\ References

\* Notification k is about a policy or an exception.
IsOfThese(k) == \/ k[1] = "NEW_VIOLATION" /\ k[2] \in Policies
                \/ k[1] \in {"EXCEPTION_EXPIRING", "EXCEPTION_EXPIRED"} /\ k[2] \in DOMAIN exceptions

\* What handler o carries.
Sound(o) ==
    /\ o.kind \in {"idle", "grant", "link", "revoke", "sweep", "look", "tell"}
    /\ o.kind = "grant" => o.request \in DOMAIN requests
    /\ o.kind = "link" => o.request \in DOMAIN requests /\ o.row \in DOMAIN rows /\ rows[o.row].by = o.request
    /\ o.kind = "revoke" => o.exception \in DOMAIN exceptions
    /\ o.kind = "sweep" => o = [kind |-> "sweep", todo |-> o.todo] /\ o.todo \subseteq DOMAIN exceptions
    /\ o.kind \in {"look", "tell"} => o.topics \in Seq(TopicNames) /\ (o.scan # <<>> => o.scan[1] \subseteq Policies)
    /\ o.kind = "tell" => /\ o.topics # <<>>
                          /\ \A k \in o.wanted : IsOfThese(k)

SodInv == Shape /\ op = [q \in Procs |-> op[q]] /\ \A q \in Procs : Sound(op[q])

\* What no step takes back.
Grows ==
    /\ Len(rows) <= Len(rows') /\ \A r \in DOMAIN rows : rows'[r].by = rows[r].by
    /\ Len(requests) <= Len(requests')
    /\ Len(exceptions) <= Len(exceptions')

LEMMA InvImpliesType == SodInv => TypeOK
<1>. SUFFICES ASSUME SodInv PROVE TypeOK
    OBVIOUS
<1>1. \A k \in Keys : notes[k] > 0 => Exists(IF k[1] = "EXCEPTION_REQUESTED" THEN requests[k[2]].policy ELSE PolicyOf(k))
    <2>1. SUFFICES ASSUME NEW k \in Keys, notes[k] > 0
                   PROVE  Exists(IF k[1] = "EXCEPTION_REQUESTED" THEN requests[k[2]].policy ELSE PolicyOf(k))
        OBVIOUS
    <2>2. About(k)
        BY <2>1 DEF SodInv, Shape
    <2>3. k[1] \in {"NEW_VIOLATION", "EXCEPTION_EXPIRING", "EXCEPTION_EXPIRED", "EXCEPTION_REQUESTED"}
        BY <2>1 DEF Keys
    <2>. QED
        BY <2>2, <2>3 DEF About, PolicyOf, SodInv, Shape, References
<1>2. \A p \in Policies : Exists(p) => policy[p].status \in {"ACTIVE", "DISABLED"} /\ policy[p].a \cap policy[p].b = {}
    BY DEF SodInv, Shape, Exists
<1>. QED
    BY <1>1, <1>2 DEF TypeOK, SodInv, Shape, References

LEMMA SoundStays == ASSUME SodInv, Shape', Grows, NEW o, Sound(o) PROVE Sound(o)'
<1>1. /\ \A r \in DOMAIN rows : r \in DOMAIN rows' /\ rows'[r].by = rows[r].by
      /\ \A i \in DOMAIN requests : i \in DOMAIN requests'
      /\ \A e \in DOMAIN exceptions : e \in DOMAIN exceptions'
    BY DEF SodInv, Shape, Grows
<1>. QED
    BY <1>1 DEF Sound, IsOfThese

LEMMA IdleSound == Sound(Idle)
BY DEF Sound, Idle

LEMMA SomeProc == Worker \in Procs
BY DEF Procs

\* A step in which handler q, if any, goes on as o.
LEMMA Moves ==
    ASSUME SodInv, Shape', Grows, NEW q \in Procs, NEW o, Sound(o)', op' = op \/ op' = [op EXCEPT ![q] = o]
    PROVE  SodInv'
<1>1. DOMAIN op' = Procs /\ op' = [w \in Procs |-> op'[w]]
    BY DEF SodInv
<1>2. ASSUME NEW w \in Procs PROVE Sound(op[w])'
    <2>1. Sound(op[w])
        BY DEF SodInv
    <2>2. PICK h : h = op[w]
        OBVIOUS
    <2>3. Sound(h)'
        BY <2>1, <2>2, SoundStays
    <2>4. op'[w] = h \/ op'[w] = o
        BY <2>2 DEF SodInv
    <2>. QED
        BY <2>3, <2>4 DEF Sound
<1>. QED
    BY <1>1, <1>2 DEF SodInv

-----------------------------------------------------------------------------
LEMMA Elements ==
    ASSUME SodInv
    PROVE  /\ \A r \in DOMAIN rows : r \in 1..Len(rows) /\ rows[r] \in Row
           /\ \A i \in DOMAIN requests : i \in 1..Len(requests) /\ requests[i] \in Request
           /\ \A e \in DOMAIN exceptions : e \in 1..Len(exceptions) /\ exceptions[e] \in Exception
           /\ Len(rows) \in Nat /\ Len(requests) \in Nat /\ Len(exceptions) \in Nat
           /\ DOMAIN rows = 1..Len(rows) /\ DOMAIN requests = 1..Len(requests) /\ DOMAIN exceptions = 1..Len(exceptions)
BY DEF SodInv, Shape

\* Steps that leave everything but policies and the handlers alone.
LEMMA PoliciesChange ==
    ASSUME SodInv,
           policy' \in [Policies -> [status : {"ACTIVE", "DISABLED"}, a : SUBSET Targets, b : SUBSET Targets] \cup {Absent}],
           \A p \in Policies : Exists(p)' => policy'[p].a \cap policy'[p].b = {},
           \A p \in Policies : Exists(p) /\ HasHistory(p) => Exists(p)',
           UNCHANGED <<rows, exceptions, requests, notes, noted>>
    PROVE  Shape' /\ Grows
<1>1. References'
    <2>1. \A i \in DOMAIN requests : requests[i].policy \in Policies /\ HasHistory(requests[i].policy)
        BY Elements DEF HasHistory, Request
    <2>2. \A e \in DOMAIN exceptions : exceptions[e].policy \in Policies /\ HasHistory(exceptions[e].policy)
        BY Elements DEF HasHistory, Exception
    <2>3. \A p \in noted : p \in Policies /\ HasHistory(p)
        BY DEF SodInv, Shape, References, HasHistory
    <2>4. /\ \A i \in DOMAIN requests : policy'[requests[i].policy] # Absent
          /\ \A e \in DOMAIN exceptions : policy'[exceptions[e].policy] # Absent
          /\ \A p \in noted : policy'[p] # Absent
        BY <2>1, <2>2, <2>3 DEF SodInv, Shape, References, Exists
    <2>. QED
        BY <2>4 DEF SodInv, Shape, References, Exists
<1>2. (\A k \in Keys : notes[k] > 0 => About(k))'
    BY DEF SodInv, Shape, About
<1>. QED
    BY <1>1, <1>2 DEF SodInv, Shape, Grows

LEMMA Same == ASSUME SodInv, UNCHANGED <<policy, rows, exceptions, requests, notes, noted>> PROVE Shape' /\ Grows
BY DEF SodInv, Shape, Grows, References, About, Exists

\* Rows are ended, or appended by hand; those there are keep the request they were made for.
LEMMA RowsChange ==
    ASSUME SodInv, rows' \in Seq(Row), Len(rows) <= Len(rows'),
           \A r \in DOMAIN rows : rows'[r].by = rows[r].by,
           \A r \in DOMAIN rows' : r \notin DOMAIN rows => rows'[r].by \in 0..Len(requests),
           UNCHANGED <<policy, exceptions, requests, notes, noted>>
    PROVE  Shape' /\ Grows
<1>0. rows \in Seq(Row) /\ requests \in Seq(Request)
    BY DEF SodInv, Shape
<1>1. \A r \in DOMAIN rows' : rows'[r].by \in 0..Len(requests)
    <2>1. \A r \in DOMAIN rows : rows[r].by \in 0..Len(requests)
        BY DEF SodInv, Shape, References
    <2>. QED
        BY <2>1
<1>2. \A i \in DOMAIN requests : /\ requests[i].assignment \in 0..Len(rows')
                                 /\ requests[i].assignment # 0 => rows'[requests[i].assignment].by = i
    <2>1. SUFFICES ASSUME NEW i \in DOMAIN requests
                   PROVE  /\ requests[i].assignment \in 0..Len(rows')
                          /\ requests[i].assignment # 0 => rows'[requests[i].assignment].by = i
        OBVIOUS
    <2>2. /\ requests[i].assignment \in 0..Len(rows)
          /\ requests[i].assignment # 0 => rows[requests[i].assignment].by = i
        BY DEF SodInv, Shape, References
    <2>3. Len(rows) \in Nat /\ Len(rows') \in Nat /\ DOMAIN rows = 1..Len(rows)
        BY Elements
    <2>. QED
        BY <2>2, <2>3
<1>3. References'
    BY <1>1, <1>2 DEF SodInv, Shape, References, Exists
<1>4. (\A k \in Keys : notes[k] > 0 => About(k))'
    BY DEF SodInv, Shape, About
<1>. QED
    BY <1>3, <1>4 DEF SodInv, Shape, Grows, Exists

\* Exceptions come near their end, end, are revoked or added.
LEMMA ExceptionsChange ==
    ASSUME SodInv, exceptions' \in Seq(Exception), Len(exceptions) <= Len(exceptions'),
           \A e \in DOMAIN exceptions : exceptions'[e].policy = exceptions[e].policy,
           \A e \in DOMAIN exceptions' : e \notin DOMAIN exceptions => Exists(exceptions'[e].policy),
           UNCHANGED <<policy, rows, requests, notes, noted>>
    PROVE  Shape' /\ Grows
<1>0. Len(exceptions') \in Nat /\ DOMAIN exceptions' = 1..Len(exceptions')
    OBVIOUS
<1>1. \A i \in DOMAIN requests : /\ requests[i].exception \in 0..Len(exceptions')
                                 /\ requests[i].exception # 0 => exceptions'[requests[i].exception].policy = requests[i].policy
    BY <1>0, Elements DEF SodInv, Shape, References
<1>2. \A e \in DOMAIN exceptions' : policy[exceptions'[e].policy] # Absent
    BY DEF SodInv, Shape, References, Exists
<1>3. References'
    BY <1>1, <1>2 DEF SodInv, Shape, References, Exists
<1>4. ASSUME NEW k \in Keys, About(k) PROVE About(k)'
    BY <1>0, <1>4, Elements DEF About
<1>5. (\A k \in Keys : notes[k] > 0 => About(k))'
    BY <1>4 DEF SodInv, Shape, About
<1>. QED
    BY <1>3, <1>5 DEF SodInv, Shape, Grows, Exists

LEMMA EndedIs ==
    ASSUME NEW rs \in Seq(Row), NEW r \in DOMAIN rs
    PROVE  /\ Ended(rs, r) \in Seq(Row) /\ Len(Ended(rs, r)) = Len(rs)
           /\ \A x \in DOMAIN rs : Ended(rs, r)[x].by = rs[x].by /\ (x # r => Ended(rs, r)[x] = rs[x])
<1>0. rs[r] \in Row
    OBVIOUS
<1>1. PICK v : v = [rs[r] EXCEPT !.status = "FINAL"]
    OBVIOUS
<1>2. v \in Row /\ v.by = rs[r].by
    BY <1>0, <1>1 DEF Row
<1>3. Ended(rs, r) = [rs EXCEPT ![r] = v]
    BY <1>1 DEF Ended
<1>. QED
    BY <1>2, <1>3

LEMMA SupersedingIs ==
    ASSUME rows \in Seq(Row), NEW t, NEW rs \in Superseding(t)
    PROVE  rs \in Seq(Row) /\ Len(rs) = Len(rows) /\ \A x \in DOMAIN rows : rs[x].by = rows[x].by
BY EndedIs DEF Superseding, StandingOf

LEMMA NewRowIs ==
    ASSUME NEW t \in Targets, NEW routed \in BOOLEAN, NEW by \in Nat
    PROVE  NewRow(t, routed, by) \in Row /\ NewRow(t, routed, by).by = by
BY DEF NewRow, Row

-----------------------------------------------------------------------------
LEMMA PoliciesKeep == ASSUME SodInv, CreatePolicy \/ UpdatePolicy \/ DeletePolicy PROVE SodInv'
<1>. DEFINE P == [status : {"ACTIVE", "DISABLED"}, a : SUBSET Targets, b : SUBSET Targets]
<1>0. policy \in [Policies -> P \cup {Absent}] /\ \A p \in Policies : Exists(p) => policy[p].a \cap policy[p].b = {}
    BY DEF SodInv, Shape
<1>1. /\ policy' \in [Policies -> P \cup {Absent}]
      /\ \A p \in Policies : policy'[p] # Absent => policy'[p].a \cap policy'[p].b = {}
      /\ \A p \in Policies : Exists(p) /\ HasHistory(p) => policy'[p] # Absent
    <2>1. CASE CreatePolicy \/ UpdatePolicy
        <3>1. PICK p \in Policies, s \in Shapes, status \in {"ACTIVE", "DISABLED"} :
                policy' = [policy EXCEPT ![p] = [status |-> status, a |-> s.a, b |-> s.b]]
            BY <2>1 DEF CreatePolicy, UpdatePolicy
        <3>2. [status |-> status, a |-> s.a, b |-> s.b] \in P /\ s.a \cap s.b = {}
            BY SodAssumption
        <3>3. [status |-> status, a |-> s.a, b |-> s.b] # Absent
            BY DEF Absent
        <3>. QED
            BY <1>0, <3>1, <3>2, <3>3 DEF Exists
    <2>2. CASE DeletePolicy
        <3>1. PICK p \in Policies : Exists(p) /\ policy' = IF HasHistory(p) THEN [policy EXCEPT ![p].status = "DISABLED"]
                                                                           ELSE [policy EXCEPT ![p] = Absent]
            BY <2>2 DEF DeletePolicy
        <3>2. CASE HasHistory(p)
            <4>1. PICK v : v = [policy[p] EXCEPT !.status = "DISABLED"]
                OBVIOUS
            <4>2. policy[p] \in P
                BY <1>0, <3>1 DEF Exists
            <4>3. v \in P /\ v.a = policy[p].a /\ v.b = policy[p].b /\ v.status = "DISABLED"
                BY <4>1, <4>2
            <4>4. policy' = [policy EXCEPT ![p] = v]
                BY <3>1, <3>2, <4>1
            <4>5. v # Absent
                BY <4>3 DEF Absent
            <4>. HIDE DEF P
            <4>. QED
                BY <1>0, <3>1, <4>3, <4>4, <4>5 DEF Exists
        <3>3. CASE ~HasHistory(p)
            BY <1>0, <3>1, <3>3 DEF Exists
        <3>. QED
            BY <3>2, <3>3
    <2>. QED
        BY <2>1, <2>2
<1>2. UNCHANGED <<rows, exceptions, requests, notes, noted, op>>
    BY DEF CreatePolicy, UpdatePolicy, DeletePolicy, access
<1>3. Shape' /\ Grows
    BY <1>1, <1>2, PoliciesChange DEF Exists
<1>. QED
    BY <1>2, <1>3, IdleSound, SomeProc, Moves DEF Sound, Idle

\* A step of no handler that keeps the shape.
LEMMA AsideKeeps == ASSUME SodInv, Shape', Grows, op' = op PROVE SodInv'
BY IdleSound, SomeProc, Moves DEF Sound, Idle

LEMMA OthersKeep ==
    ASSUME SodInv, UpdateSettings \/ ChangeDirect \/ CooldownPasses
    PROVE  SodInv'
<1>1. UNCHANGED <<policy, rows, exceptions, requests, notes, noted, op>>
    BY DEF UpdateSettings, ChangeDirect, CooldownPasses, access
<1>. QED
    BY <1>1, Same, AsideKeeps

\* A row is appended after what it supersedes is ended.
LEMMA Appended ==
    ASSUME SodInv, NEW t \in Targets, NEW routed \in BOOLEAN, NEW by \in Nat, NEW rs \in Superseding(t),
           rows' = Append(rs, NewRow(t, routed, by))
    PROVE  /\ rows' \in Seq(Row) /\ Len(rows') = Len(rows) + 1
           /\ \A r \in DOMAIN rows : rows'[r].by = rows[r].by
           /\ \A r \in DOMAIN rows' : r \notin DOMAIN rows => r = Len(rows) + 1 /\ rows'[r].by = by
<1>1. rs \in Seq(Row) /\ Len(rs) = Len(rows) /\ \A x \in DOMAIN rows : rs[x].by = rows[x].by
    BY SupersedingIs DEF SodInv, Shape
<1>2. PICK v : v = NewRow(t, routed, by)
    OBVIOUS
<1>3. v \in Row /\ v.by = by /\ rows' = Append(rs, v)
    BY <1>2, NewRowIs
<1>4. Len(rows) \in Nat /\ DOMAIN rows = 1..Len(rows)
    BY Elements
<1>5. /\ rows' \in Seq(Row) /\ Len(rows') = Len(rows) + 1
      /\ \A r \in DOMAIN rows : rows'[r] = rs[r]
      /\ rows'[Len(rows) + 1] = v /\ DOMAIN rows' = 1..(Len(rows) + 1)
    BY <1>1, <1>3, <1>4
<1>. QED
    BY <1>1, <1>3, <1>4, <1>5

LEMMA AssignByHandKeeps == ASSUME SodInv, AssignByHand PROVE SodInv'
<1>0. PICK t \in Targets, routed \in BOOLEAN : \E rs \in Superseding(t) : rows' = Append(rs, NewRow(t, routed, 0))
    BY DEF AssignByHand
<1>1. PICK rs \in Superseding(t) : rows' = Append(rs, NewRow(t, routed, 0))
    BY <1>0
<1>2. /\ rows' \in Seq(Row) /\ Len(rows') = Len(rows) + 1
      /\ \A r \in DOMAIN rows : rows'[r].by = rows[r].by
      /\ \A r \in DOMAIN rows' : r \notin DOMAIN rows => rows'[r].by = 0
    BY <1>1, Appended
<1>3. UNCHANGED <<policy, exceptions, requests, notes, noted, op>>
    BY DEF AssignByHand
<1>4. Shape' /\ Grows
    BY <1>2, <1>3, RowsChange, Elements
<1>. QED
    BY <1>3, <1>4, AsideKeeps

LEMMA AdvanceRowKeeps == ASSUME SodInv, AdvanceRow PROVE SodInv'
<1>1. PICK r \in DOMAIN rows, to \in {"ELIGIBLE", "ACTIVE", "FINAL"} : rows' = [rows EXCEPT ![r].status = to]
    BY DEF AdvanceRow
<1>2. PICK v : v = [rows[r] EXCEPT !.status = to]
    OBVIOUS
<1>3. v \in Row /\ v.by = rows[r].by
    BY <1>2, Elements DEF Row
<1>4. rows' = [rows EXCEPT ![r] = v] /\ rows \in Seq(Row)
    BY <1>1, <1>2 DEF SodInv, Shape
<1>5. /\ rows' \in Seq(Row) /\ Len(rows') = Len(rows) /\ DOMAIN rows' = DOMAIN rows
      /\ \A x \in DOMAIN rows : rows'[x].by = rows[x].by
    BY <1>3, <1>4
<1>6. UNCHANGED <<policy, exceptions, requests, notes, noted, op>>
    BY DEF AdvanceRow
<1>7. Shape' /\ Grows
    BY <1>5, <1>6, RowsChange, Elements
<1>. QED
    BY <1>6, <1>7, AsideKeeps

LEMMA CreateExceptionKeeps == ASSUME SodInv, CreateException PROVE SodInv'
<1>1. PICK p \in Policies : Exists(p) /\ exceptions' = Append(exceptions, NewException(p))
    BY DEF CreateException
<1>2. NewException(p) \in Exception /\ NewException(p).policy = p
    BY DEF NewException, Exception
<1>3. PICK v : v = NewException(p)
    OBVIOUS
<1>4. /\ exceptions' \in Seq(Exception) /\ Len(exceptions) <= Len(exceptions')
      /\ \A e \in DOMAIN exceptions : exceptions'[e].policy = exceptions[e].policy
      /\ \A e \in DOMAIN exceptions' : e \notin DOMAIN exceptions => exceptions'[e] = v
    BY <1>1, <1>2, <1>3 DEF SodInv, Shape
<1>5. UNCHANGED <<policy, rows, requests, notes, noted, op>>
    BY DEF CreateException, access
<1>6. Shape' /\ Grows
    BY <1>1, <1>2, <1>3, <1>4, <1>5, ExceptionsChange
<1>. QED
    BY <1>5, <1>6, AsideKeeps

\* An exception changes its state.
LEMMA ExceptionEdited ==
    ASSUME SodInv, NEW e \in DOMAIN exceptions, NEW v \in Exception, v.policy = exceptions[e].policy,
           exceptions' = [exceptions EXCEPT ![e] = v], UNCHANGED <<policy, rows, requests, notes, noted>>
    PROVE  Shape' /\ Grows
<1>1. /\ exceptions' \in Seq(Exception) /\ Len(exceptions') = Len(exceptions) /\ DOMAIN exceptions' = DOMAIN exceptions
      /\ \A x \in DOMAIN exceptions : exceptions'[x].policy = exceptions[x].policy
    BY DEF SodInv, Shape
<1>. QED
    BY <1>1, ExceptionsChange, Elements

LEMMA ElapseKeeps == ASSUME SodInv, Elapse PROVE SodInv'
<1>1. PICK e \in DOMAIN exceptions : exceptions' = [exceptions EXCEPT ![e].state = IF @ = "open" THEN "near" ELSE "expired"]
    BY DEF Elapse
<1>2. PICK v : v = [exceptions[e] EXCEPT !.state = IF @ = "open" THEN "near" ELSE "expired"]
    OBVIOUS
<1>3. v \in Exception /\ v.policy = exceptions[e].policy
    BY <1>2, Elements DEF Exception
<1>4. exceptions' = [exceptions EXCEPT ![e] = v]
    BY <1>1, <1>2
<1>5. UNCHANGED <<policy, rows, requests, notes, noted, op>>
    BY DEF Elapse, access
<1>6. Shape' /\ Grows
    BY <1>3, <1>4, <1>5, ExceptionEdited
<1>. QED
    BY <1>5, <1>6, AsideKeeps

LEMMA RevokeExceptionKeeps == ASSUME SodInv, NEW q \in Admins, RevokeException(q) PROVE SodInv'
<1>1. PICK e \in DOMAIN exceptions : /\ exceptions' = [exceptions EXCEPT ![e].revoked = TRUE]
                                     /\ op' = [op EXCEPT ![q] = [kind |-> "revoke", exception |-> e]]
    BY DEF RevokeException, Begin
<1>2. PICK v : v = [exceptions[e] EXCEPT !.revoked = TRUE]
    OBVIOUS
<1>3. v \in Exception /\ v.policy = exceptions[e].policy
    BY <1>2, Elements DEF Exception
<1>4. exceptions' = [exceptions EXCEPT ![e] = v]
    BY <1>1, <1>2
<1>5. Shape' /\ Grows
    BY <1>3, <1>4, ExceptionEdited DEF RevokeException, access
<1>6. PICK o : o = [kind |-> "revoke", exception |-> e]
    OBVIOUS
<1>7. Sound(o)' /\ op' = [op EXCEPT ![q] = o] /\ q \in Procs
    BY <1>1, <1>4, <1>6 DEF Sound, Procs
<1>. QED
    BY <1>5, <1>7, Moves

-----------------------------------------------------------------------------
\* Requests are decided or appended; they keep their policy.
LEMMA RequestsChange ==
    ASSUME SodInv, requests' \in Seq(Request), Len(requests) <= Len(requests'),
           \A i \in DOMAIN requests' : Exists(requests'[i].policy),
           \A i \in DOMAIN requests' : \/ requests'[i].exception = 0
                                       \/ /\ i \in DOMAIN requests /\ requests'[i].policy = requests[i].policy
                                          /\ requests'[i].exception = requests[i].exception,
           \A i \in DOMAIN requests' : \/ requests'[i].assignment = 0
                                       \/ i \in DOMAIN requests /\ requests'[i].assignment = requests[i].assignment
                                       \/ requests'[i].assignment \in DOMAIN rows /\ rows[requests'[i].assignment].by = i,
           notes' \in [Keys -> Nat],
           \A k \in Keys : notes'[k] > 0 => notes[k] > 0 \/ (k[1] = "EXCEPTION_REQUESTED" /\ k[2] \in DOMAIN requests'),
           noted \subseteq noted', noted' \subseteq Policies, \A p \in noted' : Exists(p),
           UNCHANGED <<policy, rows, exceptions>>
    PROVE  Shape' /\ Grows
<1>0. /\ Len(requests') \in Nat /\ DOMAIN requests' = 1..Len(requests')
      /\ \A i \in DOMAIN requests : i \in DOMAIN requests'
    BY Elements
<1>1. \A r \in DOMAIN rows : rows[r].by \in 0..Len(requests')
    BY <1>0, Elements DEF SodInv, Shape, References
<1>2. ASSUME NEW i \in DOMAIN requests'
      PROVE  /\ requests'[i].exception \in 0..Len(exceptions)
             /\ requests'[i].exception # 0 => exceptions[requests'[i].exception].policy = requests'[i].policy
    <2>1. CASE requests'[i].exception = 0
        BY <2>1, Elements
    <2>2. CASE /\ i \in DOMAIN requests /\ requests'[i].policy = requests[i].policy
               /\ requests'[i].exception = requests[i].exception
        BY <2>2 DEF SodInv, Shape, References
    <2>. QED
        BY <1>2, <2>1, <2>2
<1>3. ASSUME NEW i \in DOMAIN requests'
      PROVE  /\ requests'[i].assignment \in 0..Len(rows)
             /\ requests'[i].assignment # 0 => rows[requests'[i].assignment].by = i
    <2>1. CASE requests'[i].assignment = 0
        BY <2>1, Elements
    <2>2. CASE i \in DOMAIN requests /\ requests'[i].assignment = requests[i].assignment
        BY <2>2 DEF SodInv, Shape, References
    <2>3. CASE requests'[i].assignment \in DOMAIN rows /\ rows[requests'[i].assignment].by = i
        BY <2>3, Elements
    <2>. QED
        BY <1>3, <2>1, <2>2, <2>3
<1>4. ASSUME NEW i \in DOMAIN requests', NEW j \in DOMAIN requests', requests'[i].exception # 0,
             requests'[i].exception = requests'[j].exception
      PROVE  i = j
    BY <1>4 DEF SodInv, Shape, References
<1>5. References'
    BY <1>1, <1>2, <1>3, <1>4 DEF SodInv, Shape, References, Exists
<1>6. ASSUME NEW k \in Keys, notes'[k] > 0 PROVE About(k)'
    <2>1. CASE notes[k] > 0
        <3>1. About(k)
            BY <2>1 DEF SodInv, Shape
        <3>. QED
            BY <1>0, <3>1 DEF About
    <2>2. CASE k[1] = "EXCEPTION_REQUESTED" /\ k[2] \in DOMAIN requests'
        BY <2>2 DEF About
    <2>. QED
        BY <1>6, <2>1, <2>2
<1>. QED
    BY <1>5, <1>6 DEF SodInv, Shape, Grows, Exists

LEMMA CreateRequestKeeps == ASSUME SodInv, CreateRequest PROVE SodInv'
<1>1. PICK p \in Policies, t \in Targets, routed \in BOOLEAN :
        /\ Exists(p)
        /\ requests' = Append(requests, [policy |-> p, target |-> t, routed |-> routed, status |-> "PENDING",
                                         exception |-> 0, assignment |-> 0, since |-> Len(rows)])
        /\ \/ notes' = [notes EXCEPT ![<<"EXCEPTION_REQUESTED", Len(requests')>>] = 1] /\ noted' = noted \cup {p}
           \/ notes' = notes /\ noted' = noted
    BY DEF CreateRequest
<1>2. PICK v : v = [policy |-> p, target |-> t, routed |-> routed, status |-> "PENDING",
                    exception |-> 0, assignment |-> 0, since |-> Len(rows)]
    OBVIOUS
<1>3. v \in Request /\ v.policy = p /\ v.exception = 0 /\ v.assignment = 0
    BY <1>2, Elements DEF Request
<1>4. /\ requests' \in Seq(Request) /\ Len(requests') = Len(requests) + 1
      /\ DOMAIN requests' = 1..(Len(requests) + 1)
      /\ \A i \in DOMAIN requests' : requests'[i] = v \/ (i \in DOMAIN requests /\ requests'[i] = requests[i])
    BY <1>1, <1>2, <1>3 DEF SodInv, Shape
<1>5. \A i \in DOMAIN requests' : Exists(requests'[i].policy)
    BY <1>1, <1>3, <1>4 DEF SodInv, Shape, References
<1>6. /\ notes' \in [Keys -> Nat]
      /\ \A k \in Keys : notes'[k] > 0 => notes[k] > 0 \/ (k[1] = "EXCEPTION_REQUESTED" /\ k[2] \in DOMAIN requests')
    <2>1. notes \in [Keys -> Nat]
        BY DEF SodInv, Shape
    <2>2. Len(requests') \in DOMAIN requests'
        BY <1>4, Elements
    <2>3. PICK key : key = <<"EXCEPTION_REQUESTED", Len(requests')>>
        OBVIOUS
    <2>4. key[1] = "EXCEPTION_REQUESTED" /\ key[2] = Len(requests')
        BY <2>3
    <2>5. notes' = [notes EXCEPT ![key] = 1] \/ notes' = notes
        BY <1>1, <2>3
    <2>. QED
        BY <2>1, <2>2, <2>4, <2>5
<1>7. noted \subseteq noted' /\ noted' \subseteq Policies /\ \A x \in noted' : Exists(x)
    BY <1>1 DEF SodInv, Shape, References
<1>8. UNCHANGED <<policy, rows, exceptions, op>>
    BY DEF CreateRequest, access
<1>9. \A i \in DOMAIN requests' : \/ requests'[i].exception = 0
                                  \/ /\ i \in DOMAIN requests /\ requests'[i].policy = requests[i].policy
                                     /\ requests'[i].exception = requests[i].exception
    BY <1>3, <1>4
<1>10. \A i \in DOMAIN requests' : requests'[i].assignment = 0
                                    \/ (i \in DOMAIN requests /\ requests'[i].assignment = requests[i].assignment)
    BY <1>3, <1>4
<1>11. Len(requests) <= Len(requests')
    BY <1>4, Elements
<1>12. Shape' /\ Grows
    BY <1>4, <1>5, <1>6, <1>7, <1>8, <1>9, <1>10, <1>11, RequestsChange
<1>. QED
    BY <1>8, <1>12, AsideKeeps

LEMMA NoteCleared ==
    ASSUME SodInv, NEW key, notes' = [notes EXCEPT ![key] = 0]
    PROVE  notes' \in [Keys -> Nat] /\ \A k \in Keys : notes'[k] > 0 => notes[k] > 0
<1>1. notes \in [Keys -> Nat]
    BY DEF SodInv, Shape
<1>2. notes' \in [Keys -> Nat]
    BY <1>1
<1>3. ASSUME NEW k \in Keys, notes'[k] > 0 PROVE notes[k] > 0
    <2>1. k # key
        BY <1>1, <1>3
    <2>. QED
        BY <1>1, <1>3, <2>1
<1>. QED
    BY <1>2, <1>3

LEMMA DenyRequestKeeps == ASSUME SodInv, DenyRequest PROVE SodInv'
<1>1. PICK r \in DOMAIN requests : /\ requests' = [requests EXCEPT ![r].status = "DENIED"]
                                   /\ notes' = [notes EXCEPT ![<<"EXCEPTION_REQUESTED", r>>] = 0]
    BY DEF DenyRequest
<1>2. PICK v : v = [requests[r] EXCEPT !.status = "DENIED"]
    OBVIOUS
<1>3. /\ v \in Request /\ v.policy = requests[r].policy
      /\ v.exception = requests[r].exception /\ v.assignment = requests[r].assignment
    BY <1>2, Elements DEF Request
<1>4. requests' = [requests EXCEPT ![r] = v]
    BY <1>1, <1>2
<1>5. /\ requests' \in Seq(Request) /\ Len(requests') = Len(requests) /\ DOMAIN requests' = DOMAIN requests
      /\ \A i \in DOMAIN requests : /\ requests'[i].policy = requests[i].policy
                                    /\ requests'[i].exception = requests[i].exception
                                    /\ requests'[i].assignment = requests[i].assignment
    BY <1>3, <1>4 DEF SodInv, Shape
<1>6. \A i \in DOMAIN requests' : Exists(requests'[i].policy)
    BY <1>5 DEF SodInv, Shape, References
<1>7. notes' \in [Keys -> Nat] /\ \A k \in Keys : notes'[k] > 0 => notes[k] > 0
    <2>1. PICK key : key = <<"EXCEPTION_REQUESTED", r>>
        OBVIOUS
    <2>. QED
        BY <1>1, <2>1, NoteCleared
<1>8. UNCHANGED <<policy, rows, exceptions, noted, op>>
    BY DEF DenyRequest, access
<1>9. Shape' /\ Grows
    BY <1>5, <1>6, <1>7, <1>8, RequestsChange, Elements DEF SodInv, Shape, References
<1>. QED
    BY <1>8, <1>9, AsideKeeps

LEMMA LinkKeeps == ASSUME SodInv, NEW q \in Admins, Link(q) PROVE SodInv'
<1>1. PICK h : h = op[q]
    OBVIOUS
<1>2. h.request \in DOMAIN requests /\ h.row \in DOMAIN rows /\ rows[h.row].by = h.request /\ q \in Procs
    BY <1>1 DEF Link, SodInv, Sound, Procs
<1>3. requests' = [requests EXCEPT ![h.request].assignment = h.row]
    BY <1>1 DEF Link
<1>4. PICK v : v = [requests[h.request] EXCEPT !.assignment = h.row]
    OBVIOUS
<1>5. /\ v \in Request /\ v.policy = requests[h.request].policy
      /\ v.exception = requests[h.request].exception /\ v.assignment = h.row
    <2>1. requests[h.request] \in Request
        BY <1>2, Elements
    <2>2. h.row \in Nat
        BY <1>2, Elements
    <2>3. PICK r : r = requests[h.request]
        OBVIOUS
    <2>. QED
        BY <1>4, <2>1, <2>2, <2>3 DEF Request
<1>6. requests' = [requests EXCEPT ![h.request] = v]
    BY <1>3, <1>4
<1>7. /\ requests' \in Seq(Request) /\ Len(requests') = Len(requests) /\ DOMAIN requests' = DOMAIN requests
      /\ \A i \in DOMAIN requests : /\ requests'[i].policy = requests[i].policy
                                    /\ requests'[i].exception = requests[i].exception
                                    /\ requests'[i].assignment = IF i = h.request THEN h.row ELSE requests[i].assignment
    BY <1>2, <1>5, <1>6 DEF SodInv, Shape
<1>8. \A i \in DOMAIN requests' : Exists(requests'[i].policy)
    BY <1>7 DEF SodInv, Shape, References
<1>9. UNCHANGED <<policy, rows, exceptions, notes, noted>> /\ op' = [op EXCEPT ![q] = Idle]
    BY DEF Link, access, Ends
<1>10. Shape' /\ Grows
    BY <1>2, <1>7, <1>8, <1>9, RequestsChange, Elements DEF SodInv, Shape, References
<1>. QED
    BY <1>2, <1>9, <1>10, IdleSound, Moves DEF Sound, Idle

\* A request is granted: the exception is its own, the assignment, if there is one, too.
GrantedAs(r) == [requests[r] EXCEPT !.status = "GRANTED", !.exception = Len(exceptions) + 1]

LEMMA GrantIs ==
    ASSUME SodInv, NEW q \in Admins, Grant(q), NEW r, r = op[q].request
    PROVE  /\ r \in DOMAIN requests
           /\ exceptions' = Append(exceptions, NewException(requests[r].policy))
           /\ requests' = [requests EXCEPT ![r] = GrantedAs(r)]
           /\ notes' = [notes EXCEPT ![<<"EXCEPTION_REQUESTED", r>>] = 0]
           /\ \/ op' = [op EXCEPT ![q] = Idle] /\ rows' = rows
              \/ /\ \E rs \in Superseding(requests[r].target) :
                        rows' = Append(rs, NewRow(requests[r].target, requests[r].routed, r))
                 /\ op' = [op EXCEPT ![q] = [kind |-> "link", request |-> r, row |-> Len(rows) + 1]]
<1>1. r \in DOMAIN requests
    BY DEF Grant, SodInv, Sound, Procs
<1>2. /\ exceptions' = Append(exceptions, NewException(requests[r].policy))
      /\ requests' = [requests EXCEPT ![r].status = "GRANTED", ![r].exception = Len(exceptions) + 1]
      /\ notes' = [notes EXCEPT ![<<"EXCEPTION_REQUESTED", r>>] = 0]
    BY DEF Grant
<1>3. \/ op' = [op EXCEPT ![q] = Idle] /\ rows' = rows
      \/ /\ \E rs \in Superseding(requests[r].target) :
                rows' = Append(rs, NewRow(requests[r].target, requests[r].routed, r))
         /\ op' = [op EXCEPT ![q] = [kind |-> "link", request |-> r, row |-> Len(rows) + 1]]
    BY DEF Grant, Ends
<1>4. requests' = [requests EXCEPT ![r] = GrantedAs(r)]
    BY <1>2 DEF GrantedAs
<1>. QED
    BY <1>1, <1>2, <1>3, <1>4

LEMMA GrantRequests ==
    ASSUME SodInv, NEW q \in Admins, Grant(q), NEW r, r = op[q].request
    PROVE  /\ requests' \in Seq(Request) /\ Len(requests') = Len(requests) /\ DOMAIN requests' = DOMAIN requests
           /\ \A i \in DOMAIN requests : /\ requests'[i].policy = requests[i].policy
                                         /\ requests'[i].assignment = requests[i].assignment
                                         /\ requests'[i].exception = IF i = r THEN Len(exceptions) + 1 ELSE requests[i].exception
                                         /\ requests'[i].status = IF i = r THEN "GRANTED" ELSE requests[i].status
<1>1. r \in DOMAIN requests /\ requests' = [requests EXCEPT ![r] = GrantedAs(r)]
    BY GrantIs
<1>2. requests[r] \in Request /\ Len(exceptions) + 1 \in Nat
    BY <1>1, Elements
<1>3. PICK v : v = GrantedAs(r)
    OBVIOUS
<1>4. /\ v \in Request /\ v.policy = requests[r].policy /\ v.assignment = requests[r].assignment
      /\ v.exception = Len(exceptions) + 1 /\ v.status = "GRANTED"
    BY <1>2, <1>3 DEF GrantedAs, Request
<1>5. requests' = [requests EXCEPT ![r] = v] /\ requests \in Seq(Request)
    BY <1>1, <1>3 DEF SodInv, Shape
<1>6. requests' \in Seq(Request) /\ Len(requests') = Len(requests) /\ DOMAIN requests' = DOMAIN requests
    BY <1>1, <1>4, <1>5
<1>7. \A i \in DOMAIN requests : requests'[i] = IF i = r THEN v ELSE requests[i]
    BY <1>5
<1>. QED
    BY <1>4, <1>6, <1>7

LEMMA GrantExceptions ==
    ASSUME SodInv, NEW q \in Admins, Grant(q), NEW r, r = op[q].request
    PROVE  /\ exceptions' \in Seq(Exception) /\ Len(exceptions') = Len(exceptions) + 1
           /\ DOMAIN exceptions' = 1..(Len(exceptions) + 1)
           /\ \A e \in DOMAIN exceptions : exceptions'[e].policy = exceptions[e].policy
           /\ exceptions'[Len(exceptions) + 1].policy = requests[r].policy
<1>1. PICK p : p = requests[r].policy
    OBVIOUS
<1>2. PICK z : z = NewException(p)
    OBVIOUS
<1>3. exceptions' = Append(exceptions, z) /\ r \in DOMAIN requests
    BY <1>1, <1>2, GrantIs
<1>4. z \in Exception /\ z.policy = p
    BY <1>1, <1>2, <1>3, Elements DEF NewException, Exception, Request
<1>5. exceptions \in Seq(Exception)
    BY DEF SodInv, Shape
<1>6. /\ exceptions' \in Seq(Exception) /\ Len(exceptions') = Len(exceptions) + 1
      /\ DOMAIN exceptions' = 1..(Len(exceptions) + 1)
      /\ \A e \in DOMAIN exceptions : exceptions'[e] = exceptions[e]
      /\ exceptions'[Len(exceptions) + 1] = z
    BY <1>3, <1>4, <1>5
<1>. QED
    BY <1>1, <1>4, <1>6

LEMMA GrantNotes ==
    ASSUME SodInv, NEW q \in Admins, Grant(q)
    PROVE  notes' \in [Keys -> Nat] /\ \A k \in Keys : notes'[k] > 0 => notes[k] > 0
<1>1. PICK r : r = op[q].request
    OBVIOUS
<1>2. PICK key : key = <<"EXCEPTION_REQUESTED", r>>
    OBVIOUS
<1>3. notes' = [notes EXCEPT ![key] = 0]
    BY <1>1, <1>2, GrantIs
<1>. QED
    BY <1>3, NoteCleared

LEMMA GrantRows ==
    ASSUME SodInv, NEW q \in Admins, Grant(q), NEW r, r = op[q].request
    PROVE  /\ rows' \in Seq(Row) /\ \A w \in DOMAIN rows : rows'[w].by = rows[w].by
           /\ \/ rows' = rows /\ op' = [op EXCEPT ![q] = Idle]
              \/ /\ Len(rows') = Len(rows) + 1 /\ rows'[Len(rows) + 1].by = r
                 /\ op' = [op EXCEPT ![q] = [kind |-> "link", request |-> r, row |-> Len(rows) + 1]]
<1>1. CASE rows' = rows /\ op' = [op EXCEPT ![q] = Idle]
    BY <1>1 DEF SodInv, Shape
<1>2. CASE /\ \E rs \in Superseding(requests[r].target) :
                  rows' = Append(rs, NewRow(requests[r].target, requests[r].routed, r))
           /\ op' = [op EXCEPT ![q] = [kind |-> "link", request |-> r, row |-> Len(rows) + 1]]
    <2>1. PICK t, routed : t = requests[r].target /\ routed = requests[r].routed
        OBVIOUS
    <2>2. PICK rs \in Superseding(t) : rows' = Append(rs, NewRow(t, routed, r))
        BY <1>2, <2>1
    <2>3. r \in DOMAIN requests
        BY GrantIs
    <2>4. t \in Targets /\ routed \in BOOLEAN /\ r \in Nat
        BY <2>1, <2>3, Elements DEF Request
    <2>5. /\ rows' \in Seq(Row) /\ Len(rows') = Len(rows) + 1
          /\ \A w \in DOMAIN rows : rows'[w].by = rows[w].by
          /\ \A w \in DOMAIN rows' : w \notin DOMAIN rows => w = Len(rows) + 1 /\ rows'[w].by = r
        BY <2>2, <2>4, Appended
    <2>6. Len(rows) + 1 \in DOMAIN rows' /\ Len(rows) + 1 \notin DOMAIN rows
        BY <2>5, Elements
    <2>. QED
        BY <1>2, <2>5, <2>6
<1>. QED
    BY <1>1, <1>2, GrantIs

LEMMA GrantKeeps == ASSUME SodInv, NEW q \in Admins, Grant(q) PROVE SodInv'
<1>1. PICK r : r = op[q].request
    OBVIOUS
<1>2. r \in DOMAIN requests /\ UNCHANGED <<policy, noted>> /\ q \in Procs
    BY <1>1, GrantIs DEF Grant, Procs
<1>3. /\ requests' \in Seq(Request) /\ Len(requests') = Len(requests) /\ DOMAIN requests' = DOMAIN requests
      /\ \A i \in DOMAIN requests : /\ requests'[i].policy = requests[i].policy
                                    /\ requests'[i].assignment = requests[i].assignment
                                    /\ requests'[i].exception = IF i = r THEN Len(exceptions) + 1 ELSE requests[i].exception
    BY <1>1, GrantRequests
<1>4. /\ exceptions' \in Seq(Exception) /\ Len(exceptions') = Len(exceptions) + 1
      /\ DOMAIN exceptions' = 1..(Len(exceptions) + 1)
      /\ \A e \in DOMAIN exceptions : exceptions'[e].policy = exceptions[e].policy
      /\ exceptions'[Len(exceptions) + 1].policy = requests[r].policy
    BY <1>1, GrantExceptions
<1>5. rows' \in Seq(Row) /\ \A w \in DOMAIN rows : rows'[w].by = rows[w].by
    BY <1>1, GrantRows
<1>6. \/ rows' = rows /\ op' = [op EXCEPT ![q] = Idle]
      \/ /\ Len(rows') = Len(rows) + 1 /\ rows'[Len(rows) + 1].by = r
         /\ op' = [op EXCEPT ![q] = [kind |-> "link", request |-> r, row |-> Len(rows) + 1]]
    BY <1>1, GrantRows
<1>7. notes' \in [Keys -> Nat] /\ \A k \in Keys : notes'[k] > 0 => notes[k] > 0
    BY GrantNotes
<1>8. /\ Len(rows) \in Nat /\ Len(requests) \in Nat /\ Len(exceptions) \in Nat
      /\ DOMAIN rows = 1..Len(rows) /\ DOMAIN requests = 1..Len(requests) /\ DOMAIN exceptions = 1..Len(exceptions)
    BY Elements
<1>9. Len(rows') \in Nat /\ DOMAIN rows' = 1..Len(rows') /\ Len(rows) <= Len(rows')
    BY <1>5, <1>6, <1>8
<1>10. References
    BY DEF SodInv, Shape
<1>11. ASSUME NEW w \in DOMAIN rows' PROVE rows'[w].by \in 0..Len(requests')
    <2>1. CASE w \in DOMAIN rows
        BY <1>3, <1>5, <1>10, <2>1 DEF References
    <2>2. CASE w \notin DOMAIN rows
        <3>1. rows' # rows
            BY <2>2
        <3>2. Len(rows') = Len(rows) + 1 /\ rows'[Len(rows) + 1].by = r
            BY <1>6, <3>1
        <3>3. w = Len(rows) + 1
            BY <1>8, <1>9, <2>2, <3>2
        <3>4. r \in 1..Len(requests)
            BY <1>2, <1>8
        <3>. QED
            BY <1>3, <1>8, <3>2, <3>3, <3>4
    <2>. QED
        BY <2>1, <2>2
<1>12. ASSUME NEW i \in DOMAIN requests'
       PROVE  /\ policy'[requests'[i].policy] # Absent
              /\ requests'[i].exception \in 0..Len(exceptions') /\ requests'[i].assignment \in 0..Len(rows')
              /\ requests'[i].exception # 0 => exceptions'[requests'[i].exception].policy = requests'[i].policy
              /\ requests'[i].assignment # 0 => rows'[requests'[i].assignment].by = i
    <2>1. i \in DOMAIN requests
        BY <1>3
    <2>2. /\ policy[requests[i].policy] # Absent
          /\ requests[i].exception \in 0..Len(exceptions) /\ requests[i].assignment \in 0..Len(rows)
          /\ requests[i].exception # 0 => exceptions[requests[i].exception].policy = requests[i].policy
          /\ requests[i].assignment # 0 => rows[requests[i].assignment].by = i
        BY <1>10, <2>1 DEF References, Exists
    <2>3. policy'[requests'[i].policy] # Absent
        BY <1>2, <1>3, <2>1, <2>2
    <2>4. /\ requests'[i].assignment \in 0..Len(rows')
          /\ requests'[i].assignment # 0 => rows'[requests'[i].assignment].by = i
        BY <1>3, <1>5, <1>8, <1>9, <2>1, <2>2
    <2>5. /\ requests'[i].exception \in 0..Len(exceptions')
          /\ requests'[i].exception # 0 => exceptions'[requests'[i].exception].policy = requests'[i].policy
        <3>1. CASE i = r
            BY <1>3, <1>4, <1>8, <2>1, <3>1
        <3>2. CASE i # r
            BY <1>3, <1>4, <1>8, <2>1, <2>2, <3>2
        <3>. QED
            BY <3>1, <3>2
    <2>. QED
        BY <2>3, <2>4, <2>5
<1>13. ASSUME NEW i \in DOMAIN requests', NEW j \in DOMAIN requests', requests'[i].exception # 0,
              requests'[i].exception = requests'[j].exception
       PROVE  i = j
    <2>1. i \in DOMAIN requests /\ j \in DOMAIN requests
        BY <1>3
    <2>2. requests[i].exception \in 0..Len(exceptions) /\ requests[j].exception \in 0..Len(exceptions)
        BY <1>10, <2>1 DEF References
    <2>3. requests[i].exception # 0 /\ requests[i].exception = requests[j].exception => i = j
        BY <1>10, <2>1 DEF References
    <2>. QED
        BY <1>3, <1>8, <1>13, <2>1, <2>2, <2>3
<1>14. \A e \in DOMAIN exceptions' : policy'[exceptions'[e].policy] # Absent
    <2>1. policy[requests[r].policy] # Absent /\ \A e \in DOMAIN exceptions : policy[exceptions[e].policy] # Absent
        BY <1>2, <1>10 DEF References, Exists
    <2>. QED
        BY <1>2, <1>4, <1>8, <2>1
<1>15. noted' \subseteq Policies /\ \A p \in noted' : policy'[p] # Absent
    BY <1>2, <1>10 DEF References, Exists
<1>16. References'
    BY <1>11, <1>12, <1>13, <1>14, <1>15 DEF References, Exists
<1>17. ASSUME NEW k \in Keys, notes'[k] > 0 PROVE About(k)'
    <2>1. About(k)
        BY <1>7, <1>17 DEF SodInv, Shape
    <2>. QED
        BY <1>2, <1>3, <1>4, <1>8, <2>1 DEF About
<1>18. (\A p \in Policies : Exists(p) => policy[p].a \cap policy[p].b = {})'
    BY <1>2 DEF SodInv, Shape, Exists
<1>19. Shape' /\ Grows
    BY <1>2, <1>3, <1>4, <1>5, <1>7, <1>8, <1>9, <1>16, <1>17, <1>18 DEF SodInv, Shape, Grows
<1>20. CASE op' = [op EXCEPT ![q] = Idle]
    BY <1>2, <1>19, <1>20, Moves, IdleSound DEF Sound, Idle
<1>21. CASE /\ Len(rows') = Len(rows) + 1 /\ rows'[Len(rows) + 1].by = r
            /\ op' = [op EXCEPT ![q] = [kind |-> "link", request |-> r, row |-> Len(rows) + 1]]
    <2>1. PICK o : o = [kind |-> "link", request |-> r, row |-> Len(rows) + 1]
        OBVIOUS
    <2>2. Sound(o)'
        BY <1>2, <1>3, <1>8, <1>9, <1>21, <2>1 DEF Sound
    <2>3. op' = [op EXCEPT ![q] = o]
        BY <1>21, <2>1
    <2>. QED
        BY <1>2, <1>19, <2>2, <2>3, Moves
<1>. QED
    BY <1>6, <1>20, <1>21

-----------------------------------------------------------------------------
\* The least of the rows of a set is one of them.
LEMMA MinThere == ASSUME NEW S \in SUBSET Nat, S # {} PROVE Min(S) \in S
<1>1. PICK R : R = OpToRel(<, Nat)
    OBVIOUS
<1>2. IsWellFoundedOn(R, Nat)
    BY <1>1, NatLessThanWellFounded
<1>3. PICK x \in S : \A y \in S : <<y, x>> \notin R
    BY <1>2, WFMin, Zenon
<1>4. \A y \in S : ~(y < x)
    <2>1. SUFFICES ASSUME NEW y \in S PROVE ~(y < x)
        OBVIOUS
    <2>2. <<y, x>> \in Nat \X Nat
        OBVIOUS
    <2>3. y < x => <<y, x>> \in R
        BY <1>1, <2>2 DEF OpToRel
    <2>. QED
        BY <1>3, <2>2, <2>3
<1>5. \A y \in S : x =< y
    BY <1>4
<1>. QED
    BY <1>5 DEF Min

\* The rows that the end of an exception may take are there.
LEMMA GrantedByThere ==
    ASSUME SodInv, NEW e, NEW sees, NEW r \in GrantedBy(e, sees)
    PROVE  \E i \in DOMAIN requests :
             /\ requests[i].exception = e /\ r \in DOMAIN rows
             /\ requests[i].assignment # 0 => \/ r = requests[i].assignment /\ rows[r].by = i
                                             \/ r \in StillViolating(e, i, sees)
<1>1. PICK i \in {i \in DOMAIN requests : requests[i].exception = e} :
        r \in (IF requests[i].assignment = 0 THEN FirstOf({j \in StandingOf(requests[i].target) : j > requests[i].since})
              ELSE IF IsStanding(requests[i].assignment) THEN {requests[i].assignment}
              ELSE StillViolating(e, i, sees))
    BY DEF GrantedBy
<1>2. i \in DOMAIN requests /\ requests[i].exception = e
    BY <1>1
<1>3. requests[i].assignment \in 0..Len(rows) /\ (requests[i].assignment # 0 => rows[requests[i].assignment].by = i)
    BY <1>2 DEF SodInv, Shape, References
<1>4. CASE requests[i].assignment = 0
    <2>1. PICK S : S = {j \in StandingOf(requests[i].target) : j > requests[i].since}
        OBVIOUS
    <2>2. S \subseteq 1..Len(rows) /\ Len(rows) \in Nat
        BY <2>1, Elements DEF StandingOf
    <2>3. r \in FirstOf(S)
        BY <1>1, <1>4, <2>1
    <2>4. S # {} /\ r = Min(S)
        BY <2>3 DEF FirstOf
    <2>5. r \in S
        BY <2>2, <2>4, MinThere
    <2>. QED
        BY <1>2, <1>4, <2>2, <2>5, Elements
<1>5. CASE requests[i].assignment # 0 /\ IsStanding(requests[i].assignment)
    <2>1. r = requests[i].assignment
        BY <1>1, <1>5
    <2>2. r \in DOMAIN rows
        BY <1>3, <1>5, <2>1, Elements
    <2>. QED
        BY <1>2, <1>3, <1>5, <2>1, <2>2
<1>6. CASE requests[i].assignment # 0 /\ ~IsStanding(requests[i].assignment)
    <2>1. r \in StillViolating(e, i, sees)
        BY <1>1, <1>6
    <2>2. r \in DOMAIN rows
        BY <2>1 DEF StillViolating, StandingOf
    <2>. QED
        BY <1>2, <2>1, <2>2
<1>. QED
    BY <1>4, <1>5, <1>6

LEMMA EndLapsedRows ==
    ASSUME SodInv, NEW e, EndLapsed(e)
    PROVE  rows' = rows \/ \E sees \in BOOLEAN : \E r \in GrantedBy(e, sees) : rows' = Ended(rows, r)
BY DEF EndLapsed

LEMMA EndLapsedKeeps ==
    ASSUME SodInv, NEW e, EndLapsed(e), UNCHANGED <<policy, exceptions, requests, notes, noted>>
    PROVE  Shape' /\ Grows
<1>1. CASE rows' = rows
    BY <1>1, Same
<1>2. ASSUME NEW sees, NEW r \in GrantedBy(e, sees), rows' = Ended(rows, r)
      PROVE  Shape' /\ Grows
    <2>1. r \in DOMAIN rows /\ rows \in Seq(Row)
        BY GrantedByThere DEF SodInv, Shape
    <2>2. /\ rows' \in Seq(Row) /\ Len(rows') = Len(rows) /\ DOMAIN rows' = DOMAIN rows
          /\ \A x \in DOMAIN rows : rows'[x].by = rows[x].by
        BY <1>2, <2>1, EndedIs
    <2>. QED
        BY <2>2, RowsChange, Elements
<1>. QED
    BY <1>1, <1>2, EndLapsedRows

LEMMA EndRevokedKeeps == ASSUME SodInv, NEW q \in Admins, EndRevoked(q) PROVE SodInv'
<1>1. EndLapsed(op[q].exception) /\ op' = [op EXCEPT ![q] = Idle] /\ UNCHANGED <<policy, exceptions, requests, notes, noted>>
    BY DEF EndRevoked, Ends
<1>2. Shape' /\ Grows
    BY <1>1, EndLapsedKeeps
<1>. QED
    BY <1>1, <1>2, Moves, IdleSound DEF Sound, Idle, Procs

LEMMA SweepOneKeeps == ASSUME SodInv, SweepOne PROVE SodInv'
<1>1. PICK e \in op[Worker].todo : EndLapsed(e) /\ op' = [op EXCEPT ![Worker].todo = @ \ {e}]
    BY DEF SweepOne
<1>2. op[Worker].kind = "sweep" /\ UNCHANGED <<policy, exceptions, requests, notes, noted>>
    BY DEF SweepOne
<1>3. Shape' /\ Grows
    BY <1>1, <1>2, EndLapsedKeeps
<1>4. PICK o : o = [op[Worker] EXCEPT !.todo = @ \ {e}]
    OBVIOUS
<1>5. o.kind = op[Worker].kind /\ o.todo = op[Worker].todo \ {e}
    BY <1>1, <1>4
<1>6. Sound(o)'
    <2>1. op[Worker] = [kind |-> "sweep", todo |-> op[Worker].todo] /\ op[Worker].todo \subseteq DOMAIN exceptions
        BY <1>2, SomeProc DEF SodInv, Sound
    <2>2. o = [kind |-> "sweep", todo |-> o.todo]
        BY <1>4, <2>1
    <2>3. PICK T : T = o.todo
        OBVIOUS
    <2>4. T \subseteq DOMAIN exceptions' /\ o = [kind |-> "sweep", todo |-> T]
        BY <1>2, <1>5, <2>1, <2>2, <2>3
    <2>. QED
        BY <2>4 DEF Sound
<1>7. op' = [op EXCEPT ![Worker] = o]
    BY <1>1, <1>4
<1>. QED
    BY <1>3, <1>6, <1>7, Moves, SomeProc

\* Steps that change nothing but the handlers and the faults.
LEMMA BeginKeeps ==
    ASSUME SodInv, NEW q \in Procs, NEW o, Sound(o), op' = [op EXCEPT ![q] = o],
           UNCHANGED <<policy, rows, exceptions, requests, notes, noted>>
    PROVE  SodInv'
<1>1. Shape' /\ Grows
    BY Same
<1>2. PICK h : h = o
    OBVIOUS
<1>3. Sound(h)'
    BY <1>1, <1>2, SoundStays
<1>. QED
    BY <1>1, <1>2, <1>3, Moves

LEMMA StartsKeep ==
    ASSUME SodInv, NEW q \in Admins, StartGrant(q) \/ LookAt(q) \/ Told(q)
    PROVE  SodInv'
<1>0. q \in Procs /\ UNCHANGED <<policy, rows, exceptions, requests, notes, noted>>
    BY DEF Procs, StartGrant, LookAt, Told, access
<1>1. CASE StartGrant(q)
    <2>1. PICK r \in DOMAIN requests : op' = [op EXCEPT ![q] = [kind |-> "grant", request |-> r]]
        BY <1>1 DEF StartGrant, Begin
    <2>2. Sound([kind |-> "grant", request |-> r])
        BY DEF Sound
    <2>. QED
        BY <1>0, <2>1, <2>2, BeginKeeps
<1>2. CASE LookAt(q)
    <2>1. op' = [op EXCEPT ![q] = [kind |-> "look", scan |-> <<>>, topics |-> Topics]]
        BY <1>2 DEF LookAt, Begin
    <2>2. Topics \in Seq(TopicNames)
        BY DEF Topics, TopicNames
    <2>3. Sound([kind |-> "look", scan |-> <<>>, topics |-> Topics])
        BY <2>2 DEF Sound
    <2>. QED
        BY <1>0, <2>1, <2>3, BeginKeeps
<1>3. CASE Told(q)
    <2>1. op' = [op EXCEPT ![q] = Idle]
        BY <1>3 DEF Told, Ends
    <2>. QED
        BY <1>0, <2>1, IdleSound, BeginKeeps
<1>. QED
    BY <1>1, <1>2, <1>3

LEMMA SweepsKeep == ASSUME SodInv, Poll \/ SweptAll PROVE SodInv'
<1>0. UNCHANGED <<policy, rows, exceptions, requests, notes, noted>>
    BY DEF Poll, SweptAll, access
<1>1. CASE Poll
    <2>1. op' = [op EXCEPT ![Worker] = [kind |-> "sweep", todo |-> Lapsed]]
        BY <1>1 DEF Poll, Begin
    <2>2. Sound([kind |-> "sweep", todo |-> Lapsed])
        BY DEF Sound, Lapsed
    <2>. QED
        BY <1>0, <2>1, <2>2, BeginKeeps, SomeProc
<1>2. CASE SweptAll
    <2>1. op' = [op EXCEPT ![Worker] = Idle]
        BY <1>2 DEF SweptAll, Ends
    <2>. QED
        BY <1>0, <2>1, IdleSound, BeginKeeps, SomeProc
<1>. QED
    BY <1>1, <1>2

LEMMA CrashKeeps == ASSUME SodInv, Crash PROVE SodInv'
<1>1. UNCHANGED <<policy, rows, exceptions, requests, notes, noted>> /\ op' = [q \in Procs |-> Idle]
    BY DEF Crash, access
<1>2. Shape'
    BY <1>1, Same
<1>3. Sound(Idle)'
    BY DEF Sound, Idle
<1>4. PICK h : h = Idle
    OBVIOUS
<1>5. Sound(h)'
    BY <1>3, <1>4
<1>6. \A q \in Procs : op'[q] = h
    BY <1>1, <1>4
<1>7. (\A q \in Procs : Sound(op[q]))'
    BY <1>5, <1>6 DEF Sound
<1>8. op' = [q \in Procs |-> op'[q]]
    BY <1>1
<1>. QED
    BY <1>2, <1>7, <1>8 DEF SodInv

\* What a topic wants told is about what is there.
LEMMA WantedThere ==
    ASSUME SodInv, NEW topic \in TopicNames, NEW violated \in SUBSET Policies, NEW k \in Wanted(topic, violated)
    PROVE  IsOfThese(k)
<1>1. CASE topic = "NEW_VIOLATION"
    BY <1>1 DEF Wanted, IsOfThese
<1>2. CASE topic = "EXCEPTION_EXPIRING"
    BY <1>2 DEF Wanted, IsOfThese
<1>3. CASE topic = "EXCEPTION_EXPIRED"
    BY <1>3 DEF Wanted, Lapsed, IsOfThese
<1>. QED
    BY <1>1, <1>2, <1>3 DEF TopicNames

LEMMA ReadKeeps == ASSUME SodInv, NEW q \in Admins, Read(q) PROVE SodInv'
<1>0. q \in Procs /\ UNCHANGED <<policy, rows, exceptions, requests, notes, noted>>
    BY DEF Procs, Read, access
<1>1. PICK h : h = op[q]
    OBVIOUS
<1>2. h.kind = "look" /\ h.topics # <<>> /\ h.topics \in Seq(TopicNames) /\ (h.scan # <<>> => h.scan[1] \subseteq Policies)
    BY <1>0, <1>1 DEF Read, SodInv, Sound
<1>3. PICK topic : topic = Head(h.topics)
    OBVIOUS
<1>4. topic \in TopicNames /\ Tail(h.topics) \in Seq(TopicNames)
    BY <1>2, <1>3
<1>5. \A sees : Violations(sees) \subseteq Policies
    BY DEF Violations
<1>6. PICK scan, open :
        /\ scan = h.scan \/ \E sees \in BOOLEAN : scan = <<Violations(sees)>>
        /\ \/ op' = [op EXCEPT ![q] = [kind |-> "tell", scan |-> scan, topics |-> h.topics,
                        wanted |-> Wanted(topic, IF scan = <<>> THEN {} ELSE scan[1]), open |-> open]]
           \/ op' = [op EXCEPT ![q].topics = Tail(h.topics)]
    BY <1>1, <1>3 DEF Read
<1>7. scan # <<>> => scan[1] \subseteq Policies
    BY <1>2, <1>5, <1>6
<1>8. CASE op' = [op EXCEPT ![q].topics = Tail(h.topics)]
    <2>1. PICK o : o = [h EXCEPT !.topics = Tail(h.topics)]
        OBVIOUS
    <2>2. o.kind = "look" /\ o.scan = h.scan /\ o.topics = Tail(h.topics)
        <3>1. h.kind = o.kind /\ h.scan = o.scan
            BY <2>1
        <3>. QED
            BY <1>2, <2>1, <3>1
    <2>3. Sound(o)
        BY <1>2, <1>4, <2>2 DEF Sound
    <2>4. op' = [op EXCEPT ![q] = o]
        BY <1>1, <1>8, <2>1
    <2>. QED
        BY <1>0, <2>3, <2>4, BeginKeeps
<1>9. CASE op' = [op EXCEPT ![q] = [kind |-> "tell", scan |-> scan, topics |-> h.topics,
                        wanted |-> Wanted(topic, IF scan = <<>> THEN {} ELSE scan[1]), open |-> open]]
    <2>1. PICK violated : violated = IF scan = <<>> THEN {} ELSE scan[1]
        OBVIOUS
    <2>2. violated \in SUBSET Policies
        BY <1>7, <2>1
    <2>3. PICK wanted : wanted = Wanted(topic, violated)
        OBVIOUS
    <2>4. \A k \in wanted : IsOfThese(k)
        BY <1>4, <2>2, <2>3, WantedThere
    <2>5. PICK o : o = [kind |-> "tell", scan |-> scan, topics |-> h.topics, wanted |-> wanted, open |-> open]
        OBVIOUS
    <2>6. o.kind = "tell" /\ o.scan = scan /\ o.topics = h.topics /\ o.wanted = wanted
        BY <2>5
    <2>7. Sound(o)
        BY <1>2, <1>7, <2>4, <2>6 DEF Sound
    <2>8. op' = [op EXCEPT ![q] = o]
        BY <1>9, <2>1, <2>3, <2>5
    <2>. QED
        BY <1>0, <2>7, <2>8, BeginKeeps
<1>. QED
    BY <1>6, <1>8, <1>9

LEMMA TellKeeps == ASSUME SodInv, NEW q \in Admins, Tell(q) PROVE SodInv'
<1>0. q \in Procs /\ UNCHANGED <<policy, rows, exceptions, requests>>
    BY DEF Procs, Tell, access
<1>1. PICK h : h = op[q]
    OBVIOUS
<1>2. /\ h.kind = "tell" /\ h.topics # <<>> /\ h.topics \in Seq(TopicNames) /\ (h.scan # <<>> => h.scan[1] \subseteq Policies)
      /\ \A k \in h.wanted : IsOfThese(k)
    <2>1. h.kind = "tell" /\ Sound(h)
        BY <1>0, <1>1 DEF Tell, SodInv
    <2>2. h.topics \in Seq(TopicNames) /\ (h.scan # <<>> => h.scan[1] \subseteq Policies)
        BY <2>1 DEF Sound
    <2>3. h.topics # <<>>
        BY <2>1 DEF Sound
    <2>4. \A k \in h.wanted : IsOfThese(k)
        BY <2>1 DEF Sound
    <2>. QED
        BY <2>1, <2>2, <2>3, <2>4
<1>3. CASE op' = [op EXCEPT ![q] = Idle] /\ UNCHANGED <<notes, noted>>
    BY <1>0, <1>3, IdleSound, BeginKeeps
<1>4. CASE /\ \A k \in h.wanted : Exists(PolicyOf(k))
           /\ notes' = [k \in Keys |-> Updated(k, h.wanted, h.open)]
           /\ noted' = noted \cup {PolicyOf(k) : k \in h.wanted}
           /\ op' = [op EXCEPT ![q] = [kind |-> "look", scan |-> h.scan, topics |-> Tail(h.topics)]]
    <2>1. notes \in [Keys -> Nat] /\ (\A k \in Keys : notes[k] > 0 => About(k)) /\ References
        BY DEF SodInv, Shape
    <2>2. notes' \in [Keys -> Nat]
        BY <1>4, <2>1 DEF Updated
    <2>3. ASSUME NEW k \in h.wanted PROVE PolicyOf(k) \in Policies
        <3>1. CASE k[1] = "NEW_VIOLATION"
            BY <1>2, <3>1 DEF PolicyOf, IsOfThese
        <3>2. CASE k[1] # "NEW_VIOLATION"
            <4>1. k[2] \in DOMAIN exceptions
                BY <1>2, <3>2 DEF IsOfThese
            <4>. QED
                BY <3>2, <4>1, Elements DEF PolicyOf, Exception
        <3>. QED
            BY <3>1, <3>2
    <2>4. noted' \subseteq Policies /\ \A p \in noted' : Exists(p)
        BY <1>4, <2>1, <2>3 DEF References
    <2>5. References'
        BY <1>0, <2>1, <2>4 DEF References, Exists
    <2>6. ASSUME NEW k \in Keys, notes'[k] > 0 PROVE About(k)'
        <3>1. CASE k \in h.wanted
            <4>1. PolicyOf(k) \in noted'
                BY <1>4, <3>1
            <4>2. k[1] = "NEW_VIOLATION" => k[2] \in noted'
                BY <4>1 DEF PolicyOf
            <4>. QED
                BY <1>0, <1>2, <3>1, <4>2 DEF About, IsOfThese
        <3>2. CASE k \notin h.wanted
            <4>1. notes[k] > 0
                BY <1>4, <2>1, <2>6, <3>2 DEF Updated
            <4>. QED
                BY <1>0, <1>4, <2>1, <4>1 DEF About
        <3>. QED
            BY <3>1, <3>2
    <2>7. Shape' /\ Grows
        BY <1>0, <2>2, <2>5, <2>6 DEF SodInv, Shape, Grows, Exists
    <2>8. PICK o : o = [kind |-> "look", scan |-> h.scan, topics |-> Tail(h.topics)]
        OBVIOUS
    <2>9. o.kind = "look" /\ o.scan = h.scan /\ o.topics = Tail(h.topics) /\ Tail(h.topics) \in Seq(TopicNames)
        BY <1>2, <2>8
    <2>10. Sound(o)'
        BY <1>2, <2>9 DEF Sound
    <2>11. op' = [op EXCEPT ![q] = o]
        BY <1>4, <2>8
    <2>. QED
        BY <1>0, <2>7, <2>10, <2>11, Moves
<1>. QED
    BY <1>1, <1>3, <1>4 DEF Tell, Ends

-----------------------------------------------------------------------------
LEMMA InitSound == Init => SodInv
<1>. SUFFICES ASSUME Init PROVE SodInv
    OBVIOUS
<1>1. /\ policy = [p \in Policies |-> Absent] /\ rows = <<>> /\ exceptions = <<>> /\ requests = <<>>
      /\ notes = [k \in Keys |-> 0] /\ noted = {} /\ op = [q \in Procs |-> Idle]
    BY DEF Init
<1>2. References
    BY <1>1 DEF References
<1>3. Shape
    BY <1>1, <1>2 DEF Shape, Exists
<1>. QED
    BY <1>1, <1>3, IdleSound DEF SodInv

LEMMA NextKeeps == ASSUME SodInv, [Next]_vars PROVE SodInv'
<1>1. CASE UNCHANGED vars
    BY <1>1, Same, AsideKeeps DEF vars, access
<1>2. ASSUME NEW q \in Admins, StartGrant(q) \/ RevokeException(q) \/ LookAt(q) \/ Continue(q) PROVE SodInv'
    <2>1. CASE Continue(q)
        BY <2>1, GrantKeeps, LinkKeeps, EndRevokedKeeps, ReadKeeps, TellKeeps, StartsKeep DEF Continue
    <2>. QED
        BY <1>2, <2>1, StartsKeep, RevokeExceptionKeeps
<1>. QED
    BY <1>1, <1>2, PoliciesKeep, OthersKeep, AssignByHandKeeps, AdvanceRowKeeps, CreateExceptionKeeps, ElapseKeeps,
       CreateRequestKeeps, DenyRequestKeeps, SweepsKeep, SweepOneKeeps, CrashKeeps
    DEF Next, Sweep

THEOREM Inductive == Spec => []SodInv
BY InitSound, NextKeeps, PTL DEF Spec

\* Policies, rows, exceptions, requests and notifications keep the shapes of models.py, and
\* what refers to another row refers to one that is there.
THEOREM TypeCorrect == Spec => []TypeOK
BY Inductive, InvImpliesType, PTL

-----------------------------------------------------------------------------
\* What the sweep takes up in a step, it ends in that step.
LEMMA TakenEnds ==
    ASSUME SodInv, [Next]_vars, NEW e \in Taken
    PROVE  EndLapsed(e) /\ e \in DOMAIN exceptions
<1>1. op[Worker].kind = "sweep" /\ op'[Worker].kind = "sweep" /\ e \in op[Worker].todo /\ e \notin op'[Worker].todo
    BY DEF Taken
<1>2. op'[Worker] # op[Worker] /\ DOMAIN op = Procs
    BY <1>1 DEF SodInv
<1>3. ~ \E q \in Admins : StartGrant(q) \/ RevokeException(q) \/ LookAt(q) \/ Continue(q)
    <2>1. SUFFICES ASSUME NEW q \in Admins, StartGrant(q) \/ RevokeException(q) \/ LookAt(q) \/ Continue(q) PROVE FALSE
        OBVIOUS
    <2>2. q # Worker
        BY SodAssumption
    <2>3. \E o : op' = [op EXCEPT ![q] = o]
        BY <2>1 DEF StartGrant, RevokeException, LookAt, Continue, Grant, Link, EndRevoked, Read, Tell, Told, Begin, Ends
    <2>. QED
        BY <1>2, <2>2, <2>3
<1>4. ~(Poll \/ SweptAll \/ Crash)
    <2>1. Idle.kind = "idle"
        BY DEF Idle
    <2>2. ~Poll
        BY <1>1, <2>1 DEF Poll, Begin, MayStart
    <2>3. ~SweptAll
        BY <1>1, <1>2, <2>1, SomeProc DEF SweptAll, Ends
    <2>4. ~Crash
        BY <1>1, <2>1, SomeProc DEF Crash
    <2>. QED
        BY <2>2, <2>3, <2>4
<1>5. ~(\/ CreatePolicy \/ UpdatePolicy \/ DeletePolicy \/ UpdateSettings
        \/ AssignByHand \/ AdvanceRow \/ ChangeDirect \/ CooldownPasses
        \/ CreateException \/ Elapse \/ CreateRequest \/ DenyRequest \/ UNCHANGED vars)
    BY <1>2 DEF CreatePolicy, UpdatePolicy, DeletePolicy, UpdateSettings, AssignByHand, AdvanceRow, ChangeDirect,
                CooldownPasses, CreateException, Elapse, CreateRequest, DenyRequest, vars
<1>6. SweepOne
    BY <1>3, <1>4, <1>5 DEF Next, Sweep
<1>7. PICK x \in op[Worker].todo : EndLapsed(x) /\ op' = [op EXCEPT ![Worker].todo = @ \ {x}]
    BY <1>6 DEF SweepOne
<1>8. op'[Worker].todo = op[Worker].todo \ {x}
    <2>1. PICK o : o = [op[Worker] EXCEPT !.todo = @ \ {x}]
        OBVIOUS
    <2>2. op' = [op EXCEPT ![Worker] = o]
        BY <1>7, <2>1
    <2>3. op[Worker] = [kind |-> "sweep", todo |-> op[Worker].todo]
        BY <1>1, SomeProc DEF SodInv, Sound
    <2>4. o.todo = op[Worker].todo \ {x}
        BY <2>1, <2>3
    <2>. QED
        BY <1>2, <2>2, <2>4, SomeProc
<1>9. e = x
    BY <1>1, <1>8
<1>10. e \in DOMAIN exceptions
    BY <1>1, SomeProc DEF SodInv, Sound
<1>. QED
    BY <1>7, <1>9, <1>10

\* What violates a policy when Graph cannot be read violates it.
LEMMA SeenOrNot == ASSUME NEW sees \in BOOLEAN PROVE Violations(sees) \subseteq Violations(TRUE)
BY DEF Violations, Holds

LEMMA EndedAsItShould ==
    ASSUME SodInv, NEW e \in DOMAIN exceptions, EndLapsed(e), LinkedGrant(e)
    PROVE  EndsItsOwn(e)
<1>1. PICK l \in DOMAIN requests : requests[l].exception = e /\ requests[l].assignment # 0
    BY DEF LinkedGrant
<1>2. CASE rows' = rows
    BY <1>2 DEF EndsItsOwn
<1>3. ASSUME NEW sees \in BOOLEAN, NEW r \in GrantedBy(e, sees), rows' = Ended(rows, r) PROVE EndsItsOwn(e)
    <2>1. PICK i \in DOMAIN requests :
             /\ requests[i].exception = e /\ r \in DOMAIN rows
             /\ requests[i].assignment # 0 => \/ r = requests[i].assignment /\ rows[r].by = i
                                             \/ r \in StillViolating(e, i, sees)
        BY GrantedByThere
    <2>2. e # 0 /\ 0 \notin DOMAIN requests
        BY Elements
    <2>3. i = l
        BY <1>1, <2>1, <2>2 DEF SodInv, Shape, References
    <2>4. OwnOf(e, r) \/ StillBad(e)
        <3>1. CASE rows[r].by = i
            BY <2>1, <2>2, <3>1 DEF OwnOf
        <3>2. CASE r \in StillViolating(e, i, sees)
            <4>1. ~Covered(requests[i].policy) /\ requests[i].policy \in Violations(sees)
                BY <3>2 DEF StillViolating
            <4>2. exceptions[e].policy = requests[i].policy
                BY <2>1, <2>2 DEF SodInv, Shape, References
            <4>. QED
                BY <4>1, <4>2, SeenOrNot DEF StillBad
        <3>. QED
            BY <1>1, <2>1, <2>3, <3>1, <3>2
    <2>5. \A x \in DOMAIN rows : x # r => rows'[x] = rows[x]
        BY <1>3, <2>1, EndedIs DEF SodInv, Shape
    <2>. QED
        BY <2>4, <2>5 DEF EndsItsOwn
<1>. QED
    BY <1>2, <1>3, EndLapsedRows

\* sod_expiry.py: the sweep ends, for a lapsed exception whose grant made an assignment, that
\* assignment, or another one that still violates the policy with no other exception for it,
\* whatever handlers run meanwhile and wherever they crash.
THEOREM LapsedEndTheirOwn == Spec => LapseEndsItsOwn
<1>1. SodInv /\ [Next]_vars => [\A e \in Taken : LinkedGrant(e) => EndsItsOwn(e)]_vars
    BY TakenEnds, EndedAsItShould
<1>. QED
    BY <1>1, Inductive, PTL DEF Spec, LapseEndsItsOwn

(***************************************************************************)
(* One handler at a time.  A request is granted while it is pending and    *)
(* then never again, so a row has a request of its own; only a crash       *)
(* between the two commits leaves the request without it.                  *)
(***************************************************************************)
Exclusive == \A q, w \in Procs : op[q] # Idle /\ op[w] # Idle => q = w
Pending   == \A q \in Procs : op[q].kind = "grant" => requests[op[q].request].status = "PENDING"
Granted   == \A r \in DOMAIN rows : rows[r].by # 0 => requests[rows[r].by].status = "GRANTED"
OneEach   == \A r, s \in DOMAIN rows : rows[r].by # 0 /\ rows[r].by = rows[s].by => r = s

AloneInv ==
    /\ faults \in [Faults -> Nat]
    /\ Alone => Exclusive /\ Pending /\ Granted /\ OneEach /\ (faults["crash"] = 0 => GrantsTraceable)

\* A step is a crash, or at most one handler moves.
LEMMA OneMoves ==
    ASSUME SodInv, Next
    PROVE  \/ Crash \/ op' = op \/ \E q \in Procs : \E o : op' = [op EXCEPT ![q] = o]
<1>1. ASSUME NEW q \in Admins, StartGrant(q) \/ RevokeException(q) \/ LookAt(q) \/ Continue(q)
      PROVE  \E o : op' = [op EXCEPT ![q] = o]
    BY <1>1 DEF StartGrant, RevokeException, LookAt, Continue, Grant, Link, EndRevoked, Read, Tell, Told, Begin, Ends
<1>2. Sweep => \E o : op' = [op EXCEPT ![Worker] = o]
    BY DEF Sweep, Poll, SweepOne, SweptAll, Begin, Ends
<1>3. CASE \/ CreatePolicy \/ UpdatePolicy \/ DeletePolicy \/ UpdateSettings
           \/ AssignByHand \/ AdvanceRow \/ ChangeDirect \/ CooldownPasses
           \/ CreateException \/ Elapse \/ CreateRequest \/ DenyRequest
    BY <1>3 DEF CreatePolicy, UpdatePolicy, DeletePolicy, UpdateSettings, AssignByHand, AdvanceRow, ChangeDirect,
                CooldownPasses, CreateException, Elapse, CreateRequest, DenyRequest
<1>. QED
    BY <1>1, <1>2, <1>3, SomeProc DEF Next, Procs

LEMMA ExclusiveStays ==
    ASSUME SodInv, Exclusive, Next, Cardinality(Busy') <= 1
    PROVE  Exclusive'
<1>1. CASE Crash
    BY <1>1 DEF Crash, Exclusive
<1>2. CASE op' = op
    BY <1>2 DEF Exclusive
<1>3. ASSUME NEW q \in Procs, NEW o, op' = [op EXCEPT ![q] = o] PROVE Exclusive'
    <2>1. SUFFICES ASSUME NEW a \in Procs, NEW b \in Procs, op'[a] # Idle, op'[b] # Idle, a # b PROVE FALSE
        BY DEF Exclusive
    <2>2. \A c \in Procs : c # q => op'[c] = op[c]
        BY <1>3 DEF SodInv
    <2>3. a = q \/ b = q
        BY <2>1, <2>2 DEF Exclusive
    <2>4. Busy' = {a, b}
        BY <2>1, <2>2, <2>3 DEF Busy, Exclusive
    <2>5. Cardinality({a, b}) = 2
        <3>1. IsFiniteSet({a}) /\ Cardinality({a}) = 1
            BY FS_Singleton
        <3>2. Cardinality({a} \cup {b}) = 2
            BY <2>1, <3>1, FS_AddElement
        <3>3. {a, b} = {a} \cup {b}
            OBVIOUS
        <3>. QED
            BY <3>2, <3>3
    <2>. QED
        BY <2>4, <2>5
<1>. QED
    BY <1>1, <1>2, <1>3, OneMoves

\* What holds of the rows holds after a step that adds none for a request and touches no request.
LEMMA RowsAlone ==
    ASSUME SodInv, Granted, OneEach, SodInv',
           \A r \in DOMAIN rows : r \in DOMAIN rows' /\ rows'[r].by = rows[r].by,
           \A r \in DOMAIN rows' : r \notin DOMAIN rows => rows'[r].by = 0,
           \A i \in DOMAIN requests : requests'[i].status = requests[i].status \/ requests[i].status = "PENDING"
    PROVE  Granted' /\ OneEach'
<1>1. ASSUME NEW r \in DOMAIN rows', rows'[r].by # 0 PROVE r \in DOMAIN rows /\ rows[r].by = rows'[r].by
    BY <1>1
<1>2. ASSUME NEW r \in DOMAIN rows', rows'[r].by # 0 PROVE requests'[rows'[r].by].status = "GRANTED"
    <2>1. r \in DOMAIN rows /\ rows[r].by = rows'[r].by
        BY <1>1, <1>2
    <2>2. rows[r].by \in 0..Len(requests)
        BY <2>1 DEF SodInv, Shape, References
    <2>3. rows[r].by \in DOMAIN requests
        BY <1>2, <2>1, <2>2, Elements
    <2>4. requests[rows[r].by].status = "GRANTED"
        BY <1>2, <2>1 DEF Granted
    <2>. QED
        BY <2>1, <2>3, <2>4
<1>3. ASSUME NEW r \in DOMAIN rows', NEW s \in DOMAIN rows', rows'[r].by # 0, rows'[r].by = rows'[s].by PROVE r = s
    BY <1>1, <1>3 DEF OneEach
<1>. QED
    BY <1>2, <1>3 DEF Granted, OneEach

LEMMA TraceableAlone ==
    ASSUME SodInv, GrantsTraceable,
           \A r \in DOMAIN rows' : r \notin DOMAIN rows => rows'[r].by = 0,
           \A r \in DOMAIN rows : rows'[r].by = rows[r].by,
           \A i \in DOMAIN requests : requests'[i].assignment = requests[i].assignment,
           \A q \in Admins : op[q].kind = "link" => op'[q] = op[q]
    PROVE  GrantsTraceable'
<1>1. SUFFICES ASSUME NEW r \in DOMAIN rows', rows'[r].by # 0
               PROVE  \/ requests'[rows'[r].by].assignment = r
                      \/ \E q \in Admins : op'[q].kind = "link" /\ op'[q].row = r
    BY DEF GrantsTraceable
<1>2. r \in DOMAIN rows /\ rows'[r].by = rows[r].by
    BY <1>1
<1>3. rows[r].by \in 0..Len(requests)
    BY <1>2 DEF SodInv, Shape, References
<1>4. rows[r].by \in DOMAIN requests
    BY <1>1, <1>2, <1>3, Elements
<1>5. CASE requests[rows[r].by].assignment = r
    BY <1>2, <1>4, <1>5
<1>6. CASE \E q \in Admins : op[q].kind = "link" /\ op[q].row = r
    BY <1>6
<1>. QED
    BY <1>1, <1>2, <1>5, <1>6 DEF GrantsTraceable

\* Such steps, in all: the handlers that grant or link are where they were.
LEMMA QuietAlone ==
    ASSUME SodInv, SodInv', Exclusive', faults \in [Faults -> Nat], faults' \in [Faults -> Nat],
           Alone, Exclusive, Pending, Granted, OneEach, faults["crash"] = 0 => GrantsTraceable,
           faults'["crash"] = 0 => faults["crash"] = 0,
           \A r \in DOMAIN rows : r \in DOMAIN rows' /\ rows'[r].by = rows[r].by,
           \A r \in DOMAIN rows' : r \notin DOMAIN rows => rows'[r].by = 0,
           requests' = requests,
           \A q \in Procs : op'[q] = op[q] \/ (op[q].kind # "link" /\ op'[q].kind # "grant")
    PROVE  AloneInv'
<1>1. Granted' /\ OneEach'
    BY RowsAlone
<1>2. Pending'
    BY DEF Pending
<1>3. ASSUME faults'["crash"] = 0 PROVE GrantsTraceable'
    <2>1. GrantsTraceable
        BY <1>3
    <2>. QED
        BY <2>1, TraceableAlone DEF Procs
<1>. QED
    BY <1>1, <1>2, <1>3 DEF AloneInv

LEMMA FaultsCount ==
    ASSUME faults \in [Faults -> Nat], Next
    PROVE  /\ faults' \in [Faults -> Nat] /\ \A f \in Faults : faults'[f] = 0 => faults[f] = 0
           /\ (faults'["crash"] = 0 => faults["crash"] = 0)
           /\ Crash => faults'["crash"] # 0
<1>. DEFINE Counts == faults' = faults \/ \E f \in Faults : faults' = [faults EXCEPT ![f] = @ + 1]
<1>1. ASSUME NEW q \in Admins, StartGrant(q) \/ RevokeException(q) \/ LookAt(q) \/ Continue(q) PROVE Counts
    BY <1>1 DEF StartGrant, RevokeException, LookAt, Continue, Grant, Link, EndRevoked, EndLapsed, Read, Tell, Told, Sees, Count, Faults
<1>2. Sweep => Counts
    BY DEF Sweep, Poll, SweepOne, SweptAll, EndLapsed, Sees, Count, Faults
<1>3. AdvanceRow => Counts
    BY DEF AdvanceRow, Sees, Count, Faults
<1>4. (\/ CreatePolicy \/ UpdatePolicy \/ DeletePolicy \/ UpdateSettings
       \/ AssignByHand \/ ChangeDirect \/ CooldownPasses
       \/ CreateException \/ Elapse \/ CreateRequest \/ DenyRequest) => faults' = faults
    BY DEF CreatePolicy, UpdatePolicy, DeletePolicy, UpdateSettings, AssignByHand, ChangeDirect,
           CooldownPasses, CreateException, Elapse, CreateRequest, DenyRequest
<1>5. Crash => faults' = [faults EXCEPT !["crash"] = @ + 1]
    BY DEF Crash, Count
<1>6. "crash" \in Faults /\ faults["crash"] \in Nat
    BY DEF Faults
<1>7. Crash => Counts
    BY <1>5, <1>6
<1>8. (faults' = faults => Counts) /\ (Counts => faults' = faults \/ \E f \in Faults : faults' = [faults EXCEPT ![f] = @ + 1])
    OBVIOUS
<1>. HIDE DEF Counts
<1>9. Counts
    BY <1>1, <1>2, <1>3, <1>4, <1>7, <1>8 DEF Next
<1>. QED
    BY <1>5, <1>6, <1>8, <1>9

\* The other steps that touch no request and no handler that grants or links.
LEMMA AsideAlone ==
    ASSUME SodInv,
           \/ CreatePolicy \/ UpdatePolicy \/ DeletePolicy \/ UpdateSettings
           \/ AssignByHand \/ AdvanceRow \/ ChangeDirect \/ CooldownPasses
           \/ CreateException \/ Elapse
    PROVE  /\ op' = op /\ requests' = requests
           /\ \A r \in DOMAIN rows : r \in DOMAIN rows' /\ rows'[r].by = rows[r].by
           /\ \A r \in DOMAIN rows' : r \notin DOMAIN rows => rows'[r].by = 0
<1>1. op' = op /\ requests' = requests
    BY DEF CreatePolicy, UpdatePolicy, DeletePolicy, UpdateSettings, AssignByHand, AdvanceRow, ChangeDirect,
           CooldownPasses, CreateException, Elapse
<1>2. CASE \/ CreatePolicy \/ UpdatePolicy \/ DeletePolicy \/ UpdateSettings
           \/ ChangeDirect \/ CooldownPasses \/ CreateException \/ Elapse
    BY <1>1, <1>2 DEF CreatePolicy, UpdatePolicy, DeletePolicy, UpdateSettings, ChangeDirect,
           CooldownPasses, CreateException, Elapse, access
<1>3. CASE AssignByHand
    <2>1. PICK t \in Targets, routed \in BOOLEAN : \E rs \in Superseding(t) : rows' = Append(rs, NewRow(t, routed, 0))
        BY <1>3 DEF AssignByHand
    <2>2. PICK rs \in Superseding(t) : rows' = Append(rs, NewRow(t, routed, 0))
        BY <2>1
    <2>3. /\ rows' \in Seq(Row) /\ Len(rows') = Len(rows) + 1
          /\ \A r \in DOMAIN rows : rows'[r].by = rows[r].by
          /\ \A r \in DOMAIN rows' : r \notin DOMAIN rows => rows'[r].by = 0
        BY <2>2, Appended
    <2>4. \A r \in DOMAIN rows : r \in DOMAIN rows'
        BY <2>3, Elements
    <2>. QED
        BY <1>1, <2>3, <2>4
<1>4. CASE AdvanceRow
    <2>1. PICK r \in DOMAIN rows, to \in {"ELIGIBLE", "ACTIVE", "FINAL"} : rows' = [rows EXCEPT ![r].status = to]
        BY <1>4 DEF AdvanceRow
    <2>2. PICK v : v = [rows[r] EXCEPT !.status = to]
        OBVIOUS
    <2>3. v.by = rows[r].by
        BY <2>2, Elements DEF Row
    <2>4. rows' = [rows EXCEPT ![r] = v] /\ rows \in Seq(Row)
        BY <2>1, <2>2 DEF SodInv, Shape
    <2>. QED
        BY <1>1, <2>3, <2>4
<1>. QED
    BY <1>2, <1>3, <1>4

\* An end of an exception renumbers no row.
LEMMA EndLapsedAlone ==
    ASSUME SodInv, NEW e, EndLapsed(e)
    PROVE  /\ \A r \in DOMAIN rows : r \in DOMAIN rows' /\ rows'[r].by = rows[r].by
           /\ \A r \in DOMAIN rows' : r \notin DOMAIN rows => rows'[r].by = 0
<1>1. CASE rows' = rows
    BY <1>1
<1>2. ASSUME NEW sees, NEW r \in GrantedBy(e, sees), rows' = Ended(rows, r)
      PROVE  DOMAIN rows' = DOMAIN rows /\ \A x \in DOMAIN rows : rows'[x].by = rows[x].by
    <2>1. r \in DOMAIN rows /\ rows \in Seq(Row)
        BY GrantedByThere DEF SodInv, Shape
    <2>. QED
        BY <1>2, <2>1, EndedIs
<1>. QED
    BY <1>1, <1>2, EndLapsedRows

LEMMA HandlersAlone ==
    ASSUME SodInv, NEW q \in Procs,
           \/ RevokeException(q) \/ LookAt(q) \/ EndRevoked(q) \/ Read(q) \/ Tell(q) \/ Told(q)
           \/ q = Worker /\ Sweep
    PROVE  /\ requests' = requests
           /\ \A w \in Procs : op'[w] = op[w] \/ (op[w].kind # "link" /\ op'[w].kind # "grant")
           /\ \A r \in DOMAIN rows : r \in DOMAIN rows' /\ rows'[r].by = rows[r].by
           /\ \A r \in DOMAIN rows' : r \notin DOMAIN rows => rows'[r].by = 0
<1>0. Idle.kind = "idle" /\ DOMAIN op = Procs
    BY DEF Idle, SodInv
<1>1. requests' = requests
    BY DEF RevokeException, LookAt, EndRevoked, Read, Tell, Told, Sweep, Poll, SweepOne, SweptAll
<1>2. op[q].kind # "link"
    BY <1>0 DEF RevokeException, LookAt, EndRevoked, Read, Tell, Told, Sweep, Poll, SweepOne, SweptAll, Begin, MayStart
<1>3. \/ rows' = rows
      \/ \E e : EndLapsed(e)
    BY DEF RevokeException, LookAt, EndRevoked, Read, Tell, Told, Sweep, Poll, SweepOne, SweptAll, access
<1>4. \E o : op' = [op EXCEPT ![q] = o]
    BY DEF RevokeException, LookAt, EndRevoked, Read, Tell, Told, Sweep, Poll, SweepOne, SweptAll, Begin, Ends
<1>5. op'[q].kind # "grant"
    <2>1. CASE RevokeException(q) \/ LookAt(q)
        BY <1>0, <2>1 DEF RevokeException, LookAt, Begin
    <2>2. CASE EndRevoked(q) \/ Told(q)
        BY <1>0, <2>2 DEF EndRevoked, Told, Ends
    <2>3. CASE Read(q)
        <3>1. PICK scan, topics, wanted, open :
                 \/ op' = [op EXCEPT ![q] = [kind |-> "tell", scan |-> scan, topics |-> topics, wanted |-> wanted, open |-> open]]
                 \/ op' = [op EXCEPT ![q] = [op[q] EXCEPT !.topics = topics]]
            BY <2>3 DEF Read
        <3>2. PICK a, b : /\ a = [kind |-> "tell", scan |-> scan, topics |-> topics, wanted |-> wanted, open |-> open]
                          /\ b = [op[q] EXCEPT !.topics = topics]
            OBVIOUS
        <3>3. a.kind = "tell" /\ b.kind = "look"
            BY <2>3, <3>2 DEF Read
        <3>4. op' = [op EXCEPT ![q] = a] \/ op' = [op EXCEPT ![q] = b]
            BY <3>1, <3>2
        <3>. QED
            BY <1>0, <3>3, <3>4
    <2>4. CASE Tell(q)
        BY <1>0, <2>4 DEF Tell, Ends
    <2>5. CASE q = Worker /\ Poll
        BY <1>0, <2>5 DEF Poll, Begin
    <2>6. CASE q = Worker /\ SweptAll
        BY <1>0, <2>6 DEF SweptAll, Ends
    <2>7. CASE q = Worker /\ SweepOne
        <3>1. PICK e : op' = [op EXCEPT ![q] = [op[q] EXCEPT !.todo = @ \ {e}]]
            BY <2>7 DEF SweepOne
        <3>2. [op[q] EXCEPT !.todo = @ \ {e}].kind = "sweep"
            BY <2>7 DEF SweepOne
        <3>. QED
            BY <1>0, <3>1, <3>2
    <2>. QED
        BY <2>1, <2>2, <2>3, <2>4, <2>5, <2>6, <2>7 DEF Sweep
<1>6. \A w \in Procs : op'[w] = op[w] \/ (op[w].kind # "link" /\ op'[w].kind # "grant")
    BY <1>0, <1>2, <1>4, <1>5
<1>. QED
    BY <1>1, <1>3, <1>6, EndLapsedAlone

\* What a step at width 1 starts from and leaves without more ado.
AloneStep ==
    /\ SodInv /\ SodInv' /\ Alone /\ Exclusive /\ Exclusive' /\ Pending /\ Granted /\ OneEach
    /\ (faults["crash"] = 0 => GrantsTraceable)
    /\ faults \in [Faults -> Nat] /\ faults' \in [Faults -> Nat] /\ (faults'["crash"] = 0 => faults["crash"] = 0)

LEMMA QuietStepAlone ==
    ASSUME AloneStep,
           requests' = requests,
           \A w \in Procs : op'[w] = op[w] \/ (op[w].kind # "link" /\ op'[w].kind # "grant"),
           \A r \in DOMAIN rows : r \in DOMAIN rows' /\ rows'[r].by = rows[r].by,
           \A r \in DOMAIN rows' : r \notin DOMAIN rows => rows'[r].by = 0
    PROVE  AloneInv'
BY QuietAlone DEF AloneStep

LEMMA CrashAlone == ASSUME AloneStep, Crash, faults'["crash"] # 0 PROVE AloneInv'
<1>1. requests' = requests /\ rows' = rows /\ op' = [q \in Procs |-> Idle]
    BY DEF Crash, access
<1>2. Pending'
    BY <1>1 DEF Pending, Idle
<1>3. Granted' /\ OneEach'
    BY <1>1 DEF AloneStep, Granted, OneEach
<1>. QED
    BY <1>2, <1>3 DEF AloneStep, AloneInv

LEMMA StartGrantAlone == ASSUME AloneStep, NEW q \in Admins, StartGrant(q) PROVE AloneInv'
<1>1. PICK r \in DOMAIN requests : requests[r].status = "PENDING" /\ op' = [op EXCEPT ![q] = [kind |-> "grant", request |-> r]]
    BY DEF StartGrant, Begin, Undecided
<1>2. requests' = requests /\ rows' = rows /\ op[q] = Idle
    BY DEF StartGrant, access, Begin, MayStart
<1>3. DOMAIN op = Procs /\ q \in Procs
    BY DEF AloneStep, SodInv, Procs
<1>4. Pending'
    BY <1>1, <1>2, <1>3 DEF AloneStep, Pending
<1>5. Granted' /\ OneEach'
    BY <1>2 DEF AloneStep, Granted, OneEach
<1>6. \A w \in Admins : op[w].kind = "link" => op'[w] = op[w]
    BY <1>1, <1>2, <1>3 DEF Idle, Procs
<1>7. ASSUME faults'["crash"] = 0 PROVE GrantsTraceable'
    BY <1>2, <1>6, <1>7, TraceableAlone DEF AloneStep
<1>. QED
    BY <1>4, <1>5, <1>7 DEF AloneStep, AloneInv

\* A request is made or denied while no handler runs; no row is of one that is denied.
LEMMA RequestsAlone ==
    ASSUME AloneStep, op' = op, rows' = rows,
           \A i \in DOMAIN requests : /\ requests'[i].assignment = requests[i].assignment
                                      /\ requests'[i].status = requests[i].status \/ requests[i].status = "PENDING",
           Busy = {} \/ \A i \in DOMAIN requests : requests'[i] = requests[i]
    PROVE  AloneInv'
<1>1. Granted' /\ OneEach'
    BY RowsAlone DEF AloneStep
<1>2. ASSUME NEW q \in Procs, op'[q].kind = "grant" PROVE requests'[op'[q].request].status = "PENDING"
    <2>1. op[q].request \in DOMAIN requests /\ requests[op[q].request].status = "PENDING"
        BY <1>2 DEF AloneStep, Pending, SodInv, Sound
    <2>2. q \in Busy
        BY <1>2 DEF Busy, Idle
    <2>. QED
        BY <2>1, <2>2
<1>3. ASSUME faults'["crash"] = 0 PROVE GrantsTraceable'
    <2>1. SodInv /\ GrantsTraceable
        BY <1>3 DEF AloneStep
    <2>2. /\ \A r \in DOMAIN rows' : r \notin DOMAIN rows => rows'[r].by = 0
          /\ \A r \in DOMAIN rows : rows'[r].by = rows[r].by
        OBVIOUS
    <2>3. \A w \in Admins : op[w].kind = "link" => op'[w] = op[w]
        OBVIOUS
    <2>4. \A i \in DOMAIN requests : requests'[i].assignment = requests[i].assignment
        OBVIOUS
    <2>. QED
        BY <2>1, <2>2, <2>3, <2>4, TraceableAlone
<1>. QED
    BY <1>1, <1>2, <1>3 DEF AloneStep, AloneInv, Pending

LEMMA CreateRequestAlone == ASSUME AloneStep, CreateRequest PROVE AloneInv'
<1>1. op' = op /\ rows' = rows
    BY DEF CreateRequest, access
<1>2. \E v : requests' = Append(requests, v)
    BY DEF CreateRequest
<1>3. \A i \in DOMAIN requests : requests'[i] = requests[i]
    BY <1>2 DEF AloneStep, SodInv, Shape
<1>. QED
    BY <1>1, <1>3, RequestsAlone

LEMMA DenyRequestAlone == ASSUME AloneStep, DenyRequest, Busy = {} PROVE AloneInv'
<1>1. op' = op /\ rows' = rows
    BY DEF DenyRequest, access
<1>2. PICK r \in DOMAIN requests : requests[r].status = "PENDING" /\ requests' = [requests EXCEPT ![r].status = "DENIED"]
    BY DEF DenyRequest
<1>3. PICK v : v = [requests[r] EXCEPT !.status = "DENIED"]
    OBVIOUS
<1>4. v.assignment = requests[r].assignment
    BY <1>3, Elements DEF AloneStep, Request
<1>5. requests' = [requests EXCEPT ![r] = v]
    BY <1>2, <1>3
<1>. QED
    BY <1>1, <1>2, <1>4, <1>5, RequestsAlone

LEMMA LinkAlone == ASSUME AloneStep, NEW q \in Admins, Link(q) PROVE AloneInv'
<1>1. PICK h : h = op[q]
    OBVIOUS
<1>2. /\ h.kind = "link" /\ h.request \in DOMAIN requests /\ h.row \in DOMAIN rows /\ rows[h.row].by = h.request
      /\ q \in Procs /\ DOMAIN op = Procs /\ h.request # 0
    <2>1. SodInv /\ q \in Procs /\ h.kind = "link"
        BY <1>1 DEF Link, AloneStep, Procs
    <2>2. DOMAIN op = Procs /\ Sound(h)
        BY <1>1, <2>1 DEF SodInv
    <2>3. h.request \in DOMAIN requests /\ h.row \in DOMAIN rows /\ rows[h.row].by = h.request
        BY <2>1, <2>2 DEF Sound
    <2>. QED
        BY <2>1, <2>2, <2>3, Elements
<1>3. op' = [op EXCEPT ![q] = Idle] /\ rows' = rows
    BY DEF Link, Ends, access
<1>4. requests' = [requests EXCEPT ![h.request].assignment = h.row]
    BY <1>1 DEF Link
<1>5. PICK v : v = [requests[h.request] EXCEPT !.assignment = h.row]
    OBVIOUS
<1>6. requests[h.request] \in Request
    BY <1>2, Elements DEF AloneStep
<1>7. v.assignment = h.row /\ v.status = requests[h.request].status
    BY <1>5, <1>6 DEF Request
<1>8. requests' = [requests EXCEPT ![h.request] = v]
    BY <1>4, <1>5
<1>9. \A i \in DOMAIN requests : /\ requests'[i].status = requests[i].status
                                 /\ requests'[i].assignment = IF i = h.request THEN h.row ELSE requests[i].assignment
    BY <1>7, <1>8
<1>10. Granted' /\ OneEach'
    BY <1>3, <1>9, RowsAlone DEF AloneStep
<1>11. \A w \in Procs : w # q => op[w] = Idle
    BY <1>1, <1>2 DEF AloneStep, Exclusive, Idle
<1>12. \A w \in Procs : op'[w] = Idle
    BY <1>2, <1>3, <1>11
<1>13. Pending'
    BY <1>12 DEF Pending, Idle
<1>14. ASSUME GrantsTraceable PROVE GrantsTraceable'
    <2>1. SUFFICES ASSUME NEW r \in DOMAIN rows, rows[r].by # 0 PROVE requests'[rows[r].by].assignment = r
        BY <1>3 DEF GrantsTraceable
    <2>2. rows[r].by \in DOMAIN requests
        BY <2>1, Elements DEF AloneStep, SodInv, Shape, References
    <2>3. CASE rows[r].by = h.request
        BY <1>2, <1>9, <2>1, <2>2, <2>3 DEF AloneStep, OneEach
    <2>4. CASE rows[r].by # h.request
        <3>1. ~ \E w \in Admins : op[w].kind = "link" /\ op[w].row = r
            BY <1>1, <1>2, <1>11, <2>4 DEF Procs, Idle
        <3>2. requests[rows[r].by].assignment = r
            BY <1>14, <2>1, <3>1 DEF GrantsTraceable
        <3>. QED
            BY <1>9, <2>2, <2>4, <3>2
    <2>. QED
        BY <2>3, <2>4
<1>. QED
    BY <1>10, <1>13, <1>14 DEF AloneStep, AloneInv

LEMMA GrantAlone == ASSUME AloneStep, NEW q \in Admins, Grant(q) PROVE AloneInv'
<1>1. PICK r : r = op[q].request
    OBVIOUS
<1>2. SodInv /\ q \in Procs /\ DOMAIN op = Procs /\ op[q].kind = "grant"
    BY DEF AloneStep, SodInv, Procs, Grant
<1>3. r \in DOMAIN requests /\ requests[r].status = "PENDING"
    BY <1>1, <1>2, GrantIs DEF AloneStep, Pending
<1>4. /\ DOMAIN requests' = DOMAIN requests
      /\ \A i \in DOMAIN requests : /\ requests'[i].assignment = requests[i].assignment
                                    /\ requests'[i].status = IF i = r THEN "GRANTED" ELSE requests[i].status
    BY <1>1, <1>2, GrantRequests
<1>5. /\ rows' \in Seq(Row) /\ \A w \in DOMAIN rows : rows'[w].by = rows[w].by
      /\ \/ rows' = rows /\ op' = [op EXCEPT ![q] = Idle]
         \/ /\ Len(rows') = Len(rows) + 1 /\ rows'[Len(rows) + 1].by = r
            /\ op' = [op EXCEPT ![q] = [kind |-> "link", request |-> r, row |-> Len(rows) + 1]]
    BY <1>1, <1>2, GrantRows
<1>6. \A w \in Procs : w # q => op[w] = Idle
    BY <1>2 DEF AloneStep, Exclusive, Idle
<1>7. \A w \in Procs : w # q => op'[w] = Idle
    BY <1>2, <1>5, <1>6
<1>8. op'[q].kind # "grant"
    BY <1>2, <1>5 DEF Idle
<1>9. Pending'
    BY <1>7, <1>8 DEF Pending, Idle
<1>10. \A w \in DOMAIN rows : rows[w].by # 0 => rows[w].by \in DOMAIN requests /\ rows[w].by # r
    <2>1. SUFFICES ASSUME NEW w \in DOMAIN rows, rows[w].by # 0 PROVE rows[w].by \in DOMAIN requests /\ rows[w].by # r
        OBVIOUS
    <2>2. rows[w].by \in DOMAIN requests
        BY <1>2, <2>1, Elements DEF SodInv, Shape, References
    <2>3. requests[rows[w].by].status = "GRANTED"
        BY <2>1 DEF AloneStep, Granted
    <2>. QED
        BY <1>3, <2>2, <2>3
<1>11. \A w \in DOMAIN rows' : w \in DOMAIN rows \/ (w = Len(rows) + 1 /\ rows'[w].by = r /\ op'[q].kind = "link" /\ op'[q].row = w)
    <2>1. SUFFICES ASSUME NEW w \in DOMAIN rows', w \notin DOMAIN rows
                   PROVE  w = Len(rows) + 1 /\ rows'[w].by = r /\ op'[q].kind = "link" /\ op'[q].row = w
        OBVIOUS
    <2>2. /\ Len(rows') = Len(rows) + 1 /\ rows'[Len(rows) + 1].by = r
          /\ op' = [op EXCEPT ![q] = [kind |-> "link", request |-> r, row |-> Len(rows) + 1]]
        BY <1>5, <2>1
    <2>3. w = Len(rows) + 1
        <3>1. DOMAIN rows' = 1..Len(rows') /\ DOMAIN rows = 1..Len(rows) /\ Len(rows) \in Nat
            BY <1>2, <1>5, Elements
        <3>. QED
            BY <2>1, <2>2, <3>1
    <2>. QED
        BY <1>2, <2>2, <2>3
<1>12. Granted'
    <2>1. SUFFICES ASSUME NEW w \in DOMAIN rows', rows'[w].by # 0 PROVE requests'[rows'[w].by].status = "GRANTED"
        BY DEF Granted
    <2>2. CASE w \in DOMAIN rows
        BY <1>4, <1>5, <1>10, <2>1, <2>2 DEF AloneStep, Granted
    <2>3. CASE w \notin DOMAIN rows
        BY <1>3, <1>4, <1>11, <2>3
    <2>. QED
        BY <2>2, <2>3
<1>13. OneEach'
    <2>1. SUFFICES ASSUME NEW w \in DOMAIN rows', NEW x \in DOMAIN rows', rows'[w].by # 0, rows'[w].by = rows'[x].by PROVE w = x
        BY DEF OneEach
    <2>2. CASE w \in DOMAIN rows /\ x \in DOMAIN rows
        BY <1>5, <2>1, <2>2 DEF AloneStep, OneEach
    <2>3. CASE w \notin DOMAIN rows \/ x \notin DOMAIN rows
        BY <1>5, <1>10, <1>11, <2>1, <2>3
    <2>. QED
        BY <2>2, <2>3
<1>14. ASSUME GrantsTraceable PROVE GrantsTraceable'
    <2>1. SUFFICES ASSUME NEW w \in DOMAIN rows', rows'[w].by # 0
                   PROVE  \/ requests'[rows'[w].by].assignment = w
                          \/ \E a \in Admins : op'[a].kind = "link" /\ op'[a].row = w
        BY DEF GrantsTraceable
    <2>2. CASE w \in DOMAIN rows
        <3>1. rows[w].by # 0 /\ rows'[w].by = rows[w].by /\ rows[w].by \in DOMAIN requests
            BY <1>5, <1>10, <2>1, <2>2
        <3>2. ~ \E a \in Admins : op[a].kind = "link" /\ op[a].row = w
            BY <1>2, <1>6 DEF Procs, Idle
        <3>3. requests[rows[w].by].assignment = w
            BY <1>14, <2>2, <3>1, <3>2 DEF GrantsTraceable
        <3>. QED
            BY <1>4, <3>1, <3>3
    <2>3. CASE w \notin DOMAIN rows
        BY <1>11, <2>3
    <2>. QED
        BY <2>2, <2>3
<1>. QED
    BY <1>9, <1>12, <1>13, <1>14 DEF AloneStep, AloneInv

LEMMA NextAlone == ASSUME AloneStep, Next, Busy # {} => op' # op, Crash => faults'["crash"] # 0 PROVE AloneInv'
<1>0. SodInv
    BY DEF AloneStep
<1>1. ASSUME NEW q \in Admins, StartGrant(q) \/ RevokeException(q) \/ LookAt(q) \/ Continue(q) PROVE AloneInv'
    <2>1. CASE StartGrant(q)
        BY <2>1, StartGrantAlone
    <2>2. CASE Grant(q)
        BY <2>2, GrantAlone
    <2>3. CASE Link(q)
        BY <2>3, LinkAlone
    <2>4. CASE RevokeException(q) \/ LookAt(q) \/ EndRevoked(q) \/ Read(q) \/ Tell(q) \/ Told(q)
        <3>1. q \in Procs
            BY DEF Procs
        <3>. QED
            BY <1>0, <2>4, <3>1, HandlersAlone, QuietStepAlone
    <2>. QED
        BY <1>1, <2>1, <2>2, <2>3, <2>4 DEF Continue
<1>2. CASE Sweep
    BY <1>0, <1>2, HandlersAlone, QuietStepAlone, SomeProc
<1>3. CASE \/ CreatePolicy \/ UpdatePolicy \/ DeletePolicy \/ UpdateSettings
           \/ AssignByHand \/ AdvanceRow \/ ChangeDirect \/ CooldownPasses
           \/ CreateException \/ Elapse
    BY <1>0, <1>3, AsideAlone, QuietStepAlone
<1>4. CASE CreateRequest
    BY <1>4, CreateRequestAlone
<1>5. CASE DenyRequest
    BY <1>5, DenyRequestAlone DEF DenyRequest
<1>6. CASE Crash
    BY <1>6, CrashAlone
<1>. QED
    BY <1>1, <1>2, <1>3, <1>4, <1>5, <1>6 DEF Next

LEMMA PacedKeeps == ASSUME SodInv, AloneInv, [PacedNext]_<<vars, width>> PROVE SodInv' /\ AloneInv'
<1>1. CASE UNCHANGED <<vars, width>>
    <2>1. SodInv'
        BY <1>1, NextKeeps
    <2>2. AloneInv'
        BY <1>1 DEF vars, access, AloneInv, Alone, Exclusive, Pending, Granted, OneEach, GrantsTraceable
    <2>. QED
        BY <2>1, <2>2
<1>2. CASE PacedNext
    <2>1. Next /\ width' = width /\ Cardinality(Busy') <= width /\ (width = 1 /\ Busy # {} => op' # op)
        BY <1>2 DEF PacedNext
    <2>2. SodInv'
        BY <2>1, NextKeeps
    <2>3. /\ faults' \in [Faults -> Nat] /\ (faults'["crash"] = 0 => faults["crash"] = 0)
          /\ Crash => faults'["crash"] # 0
        BY <2>1, FaultsCount DEF AloneInv
    <2>4. CASE width # 1
        <3>1. ~Alone'
            BY <2>1, <2>4 DEF Alone
        <3>. QED
            BY <2>2, <2>3, <3>1 DEF AloneInv
    <2>5. CASE width = 1
        <3>1. Exclusive'
            BY <2>1, <2>5, ExclusiveStays DEF AloneInv, Alone
        <3>2. AloneStep
            BY <2>2, <2>3, <2>5, <3>1 DEF AloneStep, AloneInv, Alone
        <3>. QED
            BY <2>1, <2>2, <2>3, <2>5, <3>2, NextAlone
    <2>. QED
        BY <2>2, <2>4, <2>5
<1>. QED
    BY <1>1, <1>2

\* With one handler at a time a request is granted once and its row is its own.
THEOREM AloneInductive == PacedSpec => [](SodInv /\ AloneInv)
<1>1. Init => SodInv /\ AloneInv
    <2>1. SUFFICES ASSUME Init PROVE AloneInv
        BY InitSound
    <2>2. rows = <<>> /\ op = [q \in Procs |-> Idle]
        BY <2>1 DEF Init
    <2>3. Exclusive /\ Pending
        BY <2>2 DEF Exclusive, Pending, Idle
    <2>5. faults \in [Faults -> Nat]
        BY <2>1 DEF Init
    <2>4. Granted /\ OneEach /\ GrantsTraceable
        BY <2>2 DEF Granted, OneEach, GrantsTraceable
    <2>. QED
        BY <2>3, <2>4, <2>5 DEF AloneInv
<1>. QED
    BY <1>1, PacedKeeps, PTL DEF PacedSpec

\* grant_exception_request: with one handler at a time and no crash between its two commits,
\* the request tells which assignment was made for it, so that the end of the exception
\* ends that one.
THEOREM GrantsFound == PacedSpec => []AloneGrantsTraceable
<1>1. SodInv /\ AloneInv => AloneGrantsTraceable
    BY InvImpliesType DEF AloneInv, AloneGrantsTraceable
<1>. QED
    BY AloneInductive, <1>1, PTL

(***************************************************************************)
(* One handler at a time, Graph being reached.  From the first topic to    *)
(* the last nothing else happens, so what was read is still there when it  *)
(* is written: a notification is opened once, and the violations found are *)
(* those there are.                                                        *)
(***************************************************************************)
OnceEach   == notes \in [Keys -> {0, 1}]
RoomLeft   == /\ Len(exceptions) <= MaxExceptions
              /\ (\E q \in Admins : op[q].kind = "grant") => Len(exceptions) < MaxExceptions
NewTold    == "notify_on_new_violation" \in settings =>
                 \A p \in Policies : notes[<<"NEW_VIOLATION", p>>] = IF p \in Violations(TRUE) THEN 1 ELSE 0
LapsedTold == "notify_on_exception_expiring" \in settings =>
                 \A p \in Violations(TRUE) : ~Covered(p) /\ (\E e \in Lapsed : exceptions[e].policy = p) =>
                   \E e \in Lapsed : exceptions[e].policy = p /\ notes[<<"EXCEPTION_EXPIRED", e>>] = 1

\* The topics still to come.
Left == {Topics, <<"EXCEPTION_EXPIRING", "EXCEPTION_EXPIRED">>, <<"EXCEPTION_EXPIRED">>, <<>>}

\* What is about to be written about the first of them.
Ready(o) == /\ o.topics # <<>> /\ Option(Head(o.topics)) \in settings
            /\ o.wanted = Wanted(Head(o.topics), Violations(TRUE)) /\ o.open = OpenOf(Head(o.topics))

Looking(o) == o.kind \in {"look", "tell"} =>
    /\ o.topics \in Left /\ o.scan \in {<<>>, <<Violations(TRUE)>>}
    /\ o.topics # Topics => NewTold
    /\ o.topics = <<>> => LapsedTold
    /\ o.kind = "look" => o = [kind |-> "look", scan |-> o.scan, topics |-> o.topics]
    /\ o.kind = "tell" => Ready(o)

NoteInv == Alone /\ faults["graph"] = 0 => OnceEach /\ RoomLeft /\ \A q \in Admins : Looking(op[q])

LEMMA KeysThere ==
    /\ \A p \in Policies : <<"NEW_VIOLATION", p>> \in Keys
    /\ \A e \in 1..MaxExceptions : <<"EXCEPTION_EXPIRED", e>> \in Keys
BY DEF Keys

LEMMA LeftIs ==
    ASSUME NEW t \in Left, t # <<>>
    PROVE  /\ Head(t) \in TopicNames /\ Tail(t) \in Left /\ Tail(t) # Topics
           /\ Head(t) = "NEW_VIOLATION" <=> t = Topics
           /\ Tail(t) = <<>> => Head(t) = "EXCEPTION_EXPIRED"
<1>1. CASE t = Topics
    BY <1>1 DEF Topics, Left, TopicNames
<1>2. CASE t = <<"EXCEPTION_EXPIRING", "EXCEPTION_EXPIRED">>
    BY <1>2 DEF Topics, Left, TopicNames
<1>3. CASE t = <<"EXCEPTION_EXPIRED">>
    BY <1>3 DEF Topics, Left, TopicNames
<1>. QED
    BY <1>1, <1>2, <1>3 DEF Left

\* Writing what is wanted of a topic opens it once, resolves the rest and leaves other topics alone.
LEMMA WriteIs ==
    ASSUME OnceEach, NEW topic, NEW wanted, \A k \in wanted : k[1] = topic,
           notes' = [k \in Keys |-> Updated(k, wanted, OpenOf(topic))]
    PROVE  /\ OnceEach'
           /\ \A k \in Keys : notes'[k] = IF k[1] # topic THEN notes[k] ELSE IF k \in wanted THEN 1 ELSE 0
<1>1. ASSUME NEW k \in Keys PROVE notes'[k] = IF k[1] # topic THEN notes[k] ELSE IF k \in wanted THEN 1 ELSE 0
    <2>1. notes'[k] = Updated(k, wanted, OpenOf(topic)) /\ notes[k] \in {0, 1}
        BY DEF OnceEach
    <2>2. k \in OpenOf(topic) <=> k[1] = topic /\ notes[k] = 1
        BY <2>1 DEF OpenOf
    <2>. QED
        BY <2>1, <2>2 DEF Updated
<1>2. notes' = [k \in Keys |-> notes'[k]]
    OBVIOUS
<1>. QED
    BY <1>1, <1>2 DEF OnceEach

LEMMA WantedIsOf ==
    ASSUME NEW topic \in TopicNames, NEW violated
    PROVE  \A k \in Wanted(topic, violated) : k[1] = topic
BY DEF Wanted, TopicNames

\* What there is to see stays while a handler looks at it.
LEMMA SeenStays ==
    ASSUME UNCHANGED <<policy, rows, direct, exceptions>>
    PROVE  /\ Violations(TRUE)' = Violations(TRUE) /\ Lapsed' = Lapsed /\ \A p : Covered(p)' = Covered(p)
<1>1. Violations(TRUE)' = Violations(TRUE)
    BY DEF Violations, Enforced, Holds, StandingOf, IsStanding
<1>2. Lapsed' = Lapsed
    BY DEF Lapsed, HasLapsed
<1>3. \A p : Covered(p)' = Covered(p)
    BY DEF Covered, IsLive
<1>. QED
    BY <1>1, <1>2, <1>3

\* A handler that looks was looking, or begins.
LEMMA OwnStep ==
    ASSUME SodInv, Next, NEW q \in Admins, op'[q] # op[q], op'[q].kind \in {"look", "tell"}
    PROVE  LookAt(q) \/ Read(q) \/ Tell(q)
<1>0. Idle.kind = "idle" /\ DOMAIN op = Procs /\ q \in Procs /\ q # Worker
    BY SodAssumption DEF Idle, SodInv, Procs
<1>1. ASSUME NEW w \in Admins, StartGrant(w) \/ RevokeException(w) \/ LookAt(w) \/ Continue(w) PROVE LookAt(q) \/ Read(q) \/ Tell(q)
    <2>1. \E o : op' = [op EXCEPT ![w] = o]
        BY <1>1 DEF StartGrant, RevokeException, LookAt, Continue, Grant, Link, EndRevoked, Read, Tell, Told, Begin, Ends
    <2>2. w = q
        BY <1>0, <2>1
    <2>3. ~(Link(q) \/ EndRevoked(q) \/ Told(q))
        BY <1>0 DEF Link, EndRevoked, Told, Ends
    <2>4. ~(StartGrant(q) \/ RevokeException(q))
        BY <1>0 DEF StartGrant, RevokeException, Begin
    <2>5. ~Grant(q)
        BY <1>0, GrantRows
    <2>. QED
        BY <1>1, <2>2, <2>3, <2>4, <2>5 DEF Continue
<1>2. ~Sweep
    <2>1. Sweep => \E o : op' = [op EXCEPT ![Worker] = o]
        BY DEF Sweep, Poll, SweepOne, SweptAll, Begin, Ends
    <2>. QED
        BY <1>0, <2>1
<1>3. ~Crash
    BY <1>0 DEF Crash
<1>4. ~(\/ CreatePolicy \/ UpdatePolicy \/ DeletePolicy \/ UpdateSettings
        \/ AssignByHand \/ AdvanceRow \/ ChangeDirect \/ CooldownPasses
        \/ CreateException \/ Elapse \/ CreateRequest \/ DenyRequest)
    BY DEF CreatePolicy, UpdatePolicy, DeletePolicy, UpdateSettings, AssignByHand, AdvanceRow, ChangeDirect,
           CooldownPasses, CreateException, Elapse, CreateRequest, DenyRequest
<1>. QED
    BY <1>1, <1>2, <1>3, <1>4 DEF Next

LEMMA SetOnce == ASSUME OnceEach, NEW key, NEW v \in {0, 1}, notes' = [notes EXCEPT ![key] = v] PROVE OnceEach'
<1>1. \A k \in Keys : notes'[k] \in {0, 1}
    BY DEF OnceEach
<1>2. notes' = [k \in Keys |-> notes'[k]]
    BY DEF OnceEach
<1>. QED
    BY <1>1, <1>2 DEF OnceEach

\* Whatever is looked at meanwhile, nothing opens a notification a second time.
LEMMA OnceStays == ASSUME SodInv, OnceEach, Next, \A q \in Admins : Looking(op[q]) PROVE OnceEach'
<1>1. CASE notes' = notes
    BY <1>1 DEF OnceEach
<1>2. CASE CreateRequest
    <2>1. PICK key : key = <<"EXCEPTION_REQUESTED", Len(requests')>>
        OBVIOUS
    <2>2. notes' = [notes EXCEPT ![key] = 1] \/ notes' = notes
        BY <1>2, <2>1 DEF CreateRequest
    <2>. QED
        BY <1>1, <2>2, SetOnce
<1>3. CASE DenyRequest
    <2>1. PICK r : notes' = [notes EXCEPT ![<<"EXCEPTION_REQUESTED", r>>] = 0]
        BY <1>3 DEF DenyRequest
    <2>. QED
        BY <2>1, SetOnce
<1>4. ASSUME NEW q \in Admins, Grant(q) PROVE OnceEach'
    BY <1>4, GrantIs, SetOnce
<1>5. ASSUME NEW q \in Admins, Tell(q) PROVE OnceEach'
    <2>1. PICK h : h = op[q]
        OBVIOUS
    <2>2. h.kind = "tell" /\ h.topics \in Left /\ Ready(h)
        BY <1>5, <2>1 DEF Tell, Looking
    <2>3. PICK topic : topic = Head(h.topics)
        OBVIOUS
    <2>4. topic \in TopicNames /\ h.wanted = Wanted(topic, Violations(TRUE)) /\ h.open = OpenOf(topic)
        BY <2>2, <2>3, LeftIs DEF Ready
    <2>5. \A k \in h.wanted : k[1] = topic
        BY <2>4, WantedIsOf
    <2>6. notes' = notes \/ notes' = [k \in Keys |-> Updated(k, h.wanted, OpenOf(topic))]
        BY <1>5, <2>1, <2>4 DEF Tell
    <2>. QED
        BY <1>1, <2>5, <2>6, WriteIs
<1>6. ASSUME NEW q \in Admins, StartGrant(q) \/ RevokeException(q) \/ LookAt(q) \/ Continue(q) PROVE OnceEach'
    <2>1. StartGrant(q) \/ RevokeException(q) \/ LookAt(q) \/ Link(q) \/ EndRevoked(q) \/ Read(q) \/ Told(q) => notes' = notes
        BY DEF StartGrant, RevokeException, LookAt, Link, EndRevoked, Read, Told
    <2>. QED
        BY <1>1, <1>4, <1>5, <1>6, <2>1 DEF Continue
<1>7. Sweep \/ Crash => notes' = notes
    BY DEF Sweep, Poll, SweepOne, SweptAll, Crash
<1>8. (\/ CreatePolicy \/ UpdatePolicy \/ DeletePolicy \/ UpdateSettings
       \/ AssignByHand \/ AdvanceRow \/ ChangeDirect \/ CooldownPasses
       \/ CreateException \/ Elapse) => notes' = notes
    BY DEF CreatePolicy, UpdatePolicy, DeletePolicy, UpdateSettings, AssignByHand, AdvanceRow, ChangeDirect,
           CooldownPasses, CreateException, Elapse
<1>. QED
    BY <1>1, <1>2, <1>3, <1>6, <1>7, <1>8 DEF Next

\* With no grant under way the bound on exceptions is that of those there are.
LEMMA NoneGranting ==
    ASSUME RoomForException, \A q \in Procs : op[q].kind # "grant", Len(exceptions) \in Nat
    PROVE  Len(exceptions) < MaxExceptions
<1>1. {q \in Procs : op[q].kind = "grant"} = {}
    OBVIOUS
<1>2. Granting = 0
    BY <1>1, FS_EmptySet DEF Granting
<1>. QED
    BY <1>2 DEF RoomForException

LEMMA RoomStays ==
    ASSUME SodInv, SodInv', RoomLeft, Exclusive, Exclusive', Next, Busy # {} => op' # op
    PROVE  RoomLeft'
<1>0. /\ Idle.kind = "idle" /\ DOMAIN op = Procs /\ Admins \subseteq Procs
      /\ Len(exceptions) \in Nat /\ Len(exceptions') \in Nat /\ MaxExceptions \in Nat
    BY Elements, SodAssumption DEF Idle, SodInv, Shape, Procs
<1>1. ASSUME Len(exceptions') = Len(exceptions),
             \A w \in Admins : op'[w].kind = "grant" => op[w].kind = "grant" PROVE RoomLeft'
    BY <1>1 DEF RoomLeft
<1>2. CASE CreateException
    <2>1. RoomForException /\ op' = op /\ \E x : exceptions' = Append(exceptions, x)
        BY <1>2 DEF CreateException
    <2>2. \A w \in Procs : op[w] = Idle
        BY <2>1 DEF Busy
    <2>3. Len(exceptions) < MaxExceptions
        BY <1>0, <2>1, <2>2, NoneGranting
    <2>4. Len(exceptions') = Len(exceptions) + 1
        BY <2>1 DEF SodInv, Shape
    <2>. QED
        BY <1>0, <2>1, <2>2, <2>3, <2>4 DEF RoomLeft
<1>3. ASSUME NEW q \in Admins, StartGrant(q) PROVE RoomLeft'
    <2>1. PICK r : op' = [op EXCEPT ![q] = [kind |-> "grant", request |-> r]]
        BY <1>3 DEF StartGrant, Begin
    <2>2. RoomForException /\ op[q] = Idle /\ exceptions' = exceptions
        BY <1>3 DEF StartGrant, Begin, MayStart
    <2>3. op'[q] # Idle /\ \A w \in Procs : w # q => op'[w] = op[w]
        BY <1>0, <2>1
    <2>4. \A w \in Procs : op[w] = Idle
        BY <1>0, <2>2, <2>3 DEF Exclusive
    <2>5. Len(exceptions) < MaxExceptions
        BY <1>0, <2>2, <2>4, NoneGranting
    <2>. QED
        BY <1>0, <2>2, <2>5 DEF RoomLeft
<1>4. ASSUME NEW q \in Admins, Grant(q) PROVE RoomLeft'
    <2>1. op[q].kind = "grant"
        BY <1>4 DEF Grant
    <2>2. \A w \in Procs : w # q => op[w] = Idle
        BY <1>0, <2>1 DEF Exclusive
    <2>3. \E o : op' = [op EXCEPT ![q] = o] /\ o.kind # "grant"
        BY <1>0, <1>4, GrantRows
    <2>4. \A w \in Procs : op'[w].kind # "grant"
        BY <1>0, <2>2, <2>3
    <2>5. Len(exceptions') = Len(exceptions) + 1
        BY <1>4, GrantExceptions
    <2>. QED
        BY <1>0, <2>1, <2>4, <2>5 DEF RoomLeft
<1>5. ASSUME NEW q \in Admins, StartGrant(q) \/ RevokeException(q) \/ LookAt(q) \/ Continue(q) PROVE RoomLeft'
    <2>1. CASE Link(q)
        <3>1. exceptions' = exceptions /\ op' = [op EXCEPT ![q] = Idle]
            BY <2>1 DEF Link, Ends
        <3>. QED
            BY <1>0, <1>1, <3>1
    <2>2. CASE RevokeException(q) \/ LookAt(q) \/ EndRevoked(q) \/ Read(q) \/ Tell(q) \/ Told(q)
        <3>1. \A w \in Procs : op'[w] = op[w] \/ op'[w].kind # "grant"
            BY <1>0, <2>2, HandlersAlone
        <3>2. exceptions' = exceptions \/ \E e \in DOMAIN exceptions : exceptions' = [exceptions EXCEPT ![e].revoked = TRUE]
            BY <2>2 DEF RevokeException, LookAt, EndRevoked, Read, Tell, Told
        <3>3. Len(exceptions') = Len(exceptions)
            BY <3>2 DEF SodInv, Shape
        <3>. QED
            BY <1>0, <1>1, <3>1, <3>3
    <2>. QED
        BY <1>3, <1>4, <1>5, <2>1, <2>2 DEF Continue
<1>6. CASE Sweep
    <2>1. \A w \in Procs : op'[w] = op[w] \/ op'[w].kind # "grant"
        BY <1>6, SomeProc, HandlersAlone
    <2>2. exceptions' = exceptions
        BY <1>6 DEF Sweep, Poll, SweepOne, SweptAll
    <2>. QED
        BY <1>0, <1>1, <2>1, <2>2
<1>7. CASE Crash
    BY <1>0, <1>1, <1>7 DEF Crash
<1>8. CASE \/ CreatePolicy \/ UpdatePolicy \/ DeletePolicy \/ UpdateSettings
           \/ AssignByHand \/ AdvanceRow \/ ChangeDirect \/ CooldownPasses \/ CreateRequest \/ DenyRequest
    BY <1>1, <1>8 DEF CreatePolicy, UpdatePolicy, DeletePolicy, UpdateSettings, AssignByHand, AdvanceRow, ChangeDirect,
                      CooldownPasses, CreateRequest, DenyRequest
<1>9. CASE Elapse
    <2>1. op' = op /\ \E e \in DOMAIN exceptions : \E v : exceptions' = [exceptions EXCEPT ![e] = v]
        BY <1>9 DEF Elapse
    <2>2. Len(exceptions') = Len(exceptions)
        BY <2>1 DEF SodInv, Shape
    <2>. QED
        BY <1>1, <2>1, <2>2
<1>. QED
    BY <1>2, <1>5, <1>6, <1>7, <1>8, <1>9 DEF Next

\* A handler begins with every topic and nothing read.
LEMMA LookAtLooks == ASSUME SodInv, NEW q \in Admins, LookAt(q) PROVE Looking(op[q])'
<1>1. PICK o : o = [kind |-> "look", scan |-> <<>>, topics |-> Topics]
    OBVIOUS
<1>2. op' = [op EXCEPT ![q] = o] /\ q \in DOMAIN op
    BY <1>1 DEF LookAt, Begin, SodInv, Procs
<1>3. o.kind = "look" /\ o.scan = <<>> /\ o.topics = Topics /\ Topics \in Left /\ Topics # <<>>
    BY <1>1 DEF Left, Topics
<1>4. op'[q] = o
    BY <1>2
<1>. QED
    BY <1>1, <1>3, <1>4 DEF Looking

\* A topic is read: nothing happened since the violations were found.
LEMMA ReadLooks ==
    ASSUME SodInv, NEW q \in Admins, Read(q), Looking(op[q]), faults \in [Faults -> Nat], faults'["graph"] = 0
    PROVE  Looking(op[q])'
<1>0. q \in DOMAIN op /\ UNCHANGED <<policy, rows, direct, exceptions, notes, settings>>
    BY DEF SodInv, Procs, Read, access
<1>1. PICK h : h = op[q]
    OBVIOUS
<1>2. /\ h.kind = "look" /\ h.topics # <<>> /\ h.topics \in Left /\ h.scan \in {<<>>, <<Violations(TRUE)>>}
      /\ (h.topics # Topics => NewTold) /\ h = [kind |-> "look", scan |-> h.scan, topics |-> h.topics]
    BY <1>1 DEF Read, Looking
<1>3. PICK topic : topic = Head(h.topics)
    OBVIOUS
<1>4. /\ topic \in TopicNames /\ Tail(h.topics) \in Left /\ Tail(h.topics) # Topics
      /\ topic = "NEW_VIOLATION" <=> h.topics = Topics
      /\ Tail(h.topics) = <<>> => topic = "EXCEPTION_EXPIRED"
    BY <1>2, <1>3, LeftIs
<1>5. NewTold' <=> NewTold
    BY <1>0, SeenStays DEF NewTold
<1>6. CASE Option(topic) \notin settings
    <2>1. PICK o : o = [h EXCEPT !.topics = Tail(h.topics)]
        OBVIOUS
    <2>2. op' = [op EXCEPT ![q] = o]
        BY <1>1, <1>3, <1>6, <2>1 DEF Read
    <2>3. o = [kind |-> "look", scan |-> h.scan, topics |-> Tail(h.topics)]
        BY <1>2, <2>1, Zenon
    <2>4. o.kind = "look" /\ o.scan = h.scan /\ o.topics = Tail(h.topics)
        BY <2>3
    <2>5. NewTold
        <3>1. CASE topic = "NEW_VIOLATION"
            BY <1>6, <3>1 DEF Option, NewTold
        <3>. QED
            BY <1>2, <1>4, <3>1
    <2>6. o.topics = <<>> => LapsedTold'
        BY <1>0, <1>4, <1>6, <2>4 DEF Option, LapsedTold
    <2>7. Violations(TRUE)' = Violations(TRUE)
        BY <1>0, SeenStays
    <2>8. op'[q] = o
        BY <1>0, <2>2
    <2>. QED
        BY <1>2, <1>4, <1>5, <2>3, <2>4, <2>5, <2>6, <2>7, <2>8 DEF Looking
<1>7. CASE Option(topic) \in settings
    <2>1. PICK sees \in BOOLEAN :
            LET scans == topic # "EXCEPTION_EXPIRING" /\ h.scan = <<>>
                scan  == IF scans THEN <<Violations(sees)>> ELSE h.scan
            IN  /\ IF scans THEN Sees(sees) ELSE sees /\ UNCHANGED faults
                /\ op' = [op EXCEPT ![q] = [kind |-> "tell", scan |-> scan, topics |-> h.topics,
                            wanted |-> Wanted(topic, IF scan = <<>> THEN {} ELSE scan[1]), open |-> OpenOf(topic)]]
        BY <1>1, <1>3, <1>7 DEF Read
    <2>2. PICK scan : scan = IF topic # "EXCEPTION_EXPIRING" /\ h.scan = <<>> THEN <<Violations(sees)>> ELSE h.scan
        OBVIOUS
    <2>3. sees
        <3>1. ~Count("graph")
            BY DEF Count, Faults
        <3>. QED
            BY <2>1, <3>1 DEF Sees
    <2>4. scan \in {<<>>, <<Violations(TRUE)>>} /\ (topic # "EXCEPTION_EXPIRING" => scan = <<Violations(TRUE)>>)
        BY <1>2, <2>2, <2>3
    <2>5. PICK wanted : wanted = Wanted(topic, IF scan = <<>> THEN {} ELSE scan[1])
        OBVIOUS
    <2>6. wanted = Wanted(topic, Violations(TRUE))
        <3>1. CASE scan = <<Violations(TRUE)>>
            BY <2>5, <3>1
        <3>2. CASE topic = "EXCEPTION_EXPIRING"
            BY <2>5, <3>2 DEF Wanted
        <3>. QED
            BY <2>4, <3>1, <3>2
    <2>7. PICK open : open = OpenOf(topic)
        OBVIOUS
    <2>8. PICK o : o = [kind |-> "tell", scan |-> scan, topics |-> h.topics, wanted |-> wanted, open |-> open]
        OBVIOUS
    <2>9. o.kind = "tell" /\ o.scan = scan /\ o.topics = h.topics /\ o.wanted = wanted /\ o.open = open
        BY <2>8
    <2>10. op'[q] = o
        BY <1>0, <2>1, <2>2, <2>5, <2>7, <2>8
    <2>11. Violations(TRUE)' = Violations(TRUE)
        BY <1>0, SeenStays
    <2>12. Wanted(topic, Violations(TRUE))' = Wanted(topic, Violations(TRUE)) /\ OpenOf(topic)' = OpenOf(topic)
        BY <1>0, <2>11, SeenStays DEF Wanted, OpenOf
    <2>13. Ready(o)'
        BY <1>0, <1>2, <1>3, <1>7, <2>6, <2>7, <2>9, <2>12 DEF Ready
    <2>. QED
        BY <1>2, <1>5, <2>4, <2>9, <2>10, <2>11, <2>13 DEF Looking
<1>. QED
    BY <1>6, <1>7

\* A topic is written: what is open about it is what is wanted.
LEMMA TellLooks ==
    ASSUME SodInv, OnceEach, Len(exceptions) <= MaxExceptions, NEW q \in Admins, Tell(q), Looking(op[q])
    PROVE  Looking(op[q])'
<1>0. q \in DOMAIN op /\ UNCHANGED <<policy, rows, direct, exceptions, settings>>
    BY DEF SodInv, Procs, Tell, access
<1>1. PICK h : h = op[q]
    OBVIOUS
<1>2. /\ h.kind = "tell" /\ h.topics # <<>> /\ h.topics \in Left /\ h.scan \in {<<>>, <<Violations(TRUE)>>}
      /\ (h.topics # Topics => NewTold) /\ Ready(h)
    BY <1>1 DEF Tell, Looking, Ready
<1>3. PICK topic : topic = Head(h.topics)
    OBVIOUS
<1>4. /\ topic \in TopicNames /\ Tail(h.topics) \in Left /\ Tail(h.topics) # Topics
      /\ topic = "NEW_VIOLATION" <=> h.topics = Topics
      /\ Tail(h.topics) = <<>> => topic = "EXCEPTION_EXPIRED"
    BY <1>2, <1>3, LeftIs
<1>5. h.wanted = Wanted(topic, Violations(TRUE)) /\ h.open = OpenOf(topic)
    BY <1>2, <1>3 DEF Ready
<1>6. CASE op' = [op EXCEPT ![q] = Idle]
    BY <1>0, <1>6 DEF Looking, Idle
<1>7. CASE /\ notes' = [k \in Keys |-> Updated(k, h.wanted, h.open)]
           /\ op' = [op EXCEPT ![q] = [kind |-> "look", scan |-> h.scan, topics |-> Tail(h.topics)]]
    <2>1. PICK o : o = [kind |-> "look", scan |-> h.scan, topics |-> Tail(h.topics)]
        OBVIOUS
    <2>2. o.kind = "look" /\ o.scan = h.scan /\ o.topics = Tail(h.topics) /\ op'[q] = o
        BY <1>0, <1>7, <2>1
    <2>3. \A k \in Keys : notes'[k] = IF k[1] # topic THEN notes[k] ELSE IF k \in Wanted(topic, Violations(TRUE)) THEN 1 ELSE 0
        <3>1. PICK wanted : wanted = h.wanted
            OBVIOUS
        <3>2. \A k \in wanted : k[1] = topic
            BY <1>4, <1>5, <3>1, WantedIsOf
        <3>3. notes' = [k \in Keys |-> Updated(k, wanted, OpenOf(topic))]
            BY <1>5, <1>7, <3>1
        <3>4. \A k \in Keys : notes'[k] = IF k[1] # topic THEN notes[k] ELSE IF k \in wanted THEN 1 ELSE 0
            BY <3>2, <3>3, WriteIs
        <3>. QED
            BY <1>5, <3>1, <3>4
    <2>4. Violations(TRUE)' = Violations(TRUE) /\ Lapsed' = Lapsed /\ \A p : Covered(p)' = Covered(p)
        BY <1>0, SeenStays
    <2>5. NewTold'
        <3>1. SUFFICES ASSUME "notify_on_new_violation" \in settings, NEW p \in Policies
                       PROVE  notes'[<<"NEW_VIOLATION", p>>] = IF p \in Violations(TRUE) THEN 1 ELSE 0
            BY <1>0, <2>4 DEF NewTold
        <3>2. PICK k : k = <<"NEW_VIOLATION", p>>
            OBVIOUS
        <3>3. k \in Keys /\ k[1] = "NEW_VIOLATION"
            BY <3>2, KeysThere
        <3>4. CASE topic = "NEW_VIOLATION"
            <4>1. k \in Wanted(topic, Violations(TRUE)) <=> p \in Violations(TRUE)
                BY <3>2, <3>4 DEF Wanted
            <4>. QED
                BY <2>3, <3>2, <3>3, <3>4, <4>1
        <3>5. CASE topic # "NEW_VIOLATION"
            <4>1. notes[k] = IF p \in Violations(TRUE) THEN 1 ELSE 0
                BY <1>2, <1>4, <3>1, <3>2, <3>5 DEF NewTold
            <4>. QED
                BY <2>3, <3>2, <3>3, <3>5, <4>1
        <3>. QED
            BY <3>4, <3>5
    <2>6. ASSUME o.topics = <<>> PROVE LapsedTold'
        <3>1. topic = "EXCEPTION_EXPIRED"
            BY <1>4, <2>2, <2>6
        <3>2. SUFFICES ASSUME NEW p \in Violations(TRUE), ~Covered(p), NEW e \in Lapsed, exceptions[e].policy = p
                       PROVE  notes'[<<"EXCEPTION_EXPIRED", e>>] = 1
            BY <1>0, <2>4 DEF LapsedTold
        <3>3. PICK k : k = <<"EXCEPTION_EXPIRED", e>>
            OBVIOUS
        <3>4. e \in 1..MaxExceptions
            BY <3>2, Elements, SodAssumption DEF Lapsed
        <3>5. k \in Keys /\ k[1] = topic
            BY <3>1, <3>3, <3>4, KeysThere
        <3>6. k \in Wanted(topic, Violations(TRUE))
            BY <3>1, <3>2, <3>3 DEF Wanted
        <3>. QED
            BY <2>3, <3>3, <3>5, <3>6
    <2>. QED
        BY <1>2, <1>4, <2>1, <2>2, <2>4, <2>5, <2>6 DEF Looking
<1>. QED
    BY <1>1, <1>6, <1>7 DEF Tell, Ends

LEMMA LooksStay ==
    ASSUME SodInv, SodInv', Exclusive, Exclusive', Next, Busy # {} => op' # op,
           faults \in [Faults -> Nat], faults'["graph"] = 0, OnceEach, RoomLeft,
           \A q \in Admins : Looking(op[q]), NEW q \in Admins
    PROVE  Looking(op[q])'
<1>0. Idle.kind = "idle" /\ q \in Procs /\ DOMAIN op = Procs /\ op = [w \in Procs |-> op[w]] /\ op' = [w \in Procs |-> op'[w]]
    BY DEF Idle, SodInv, Procs
<1>1. CASE op'[q].kind \notin {"look", "tell"}
    BY <1>1 DEF Looking
<1>2. CASE op'[q].kind \in {"look", "tell"} /\ op'[q] # op[q]
    BY <1>2, OwnStep, LookAtLooks, ReadLooks, TellLooks DEF RoomLeft
<1>3. CASE op'[q].kind \in {"look", "tell"} /\ op'[q] = op[q]
    <2>1. op[q] # Idle /\ op'[q] # Idle
        BY <1>0, <1>3
    <2>2. op' # op
        BY <1>0, <2>1 DEF Busy
    <2>3. PICK w \in Procs : op'[w] # op[w]
        BY <1>0, <2>2
    <2>4. w # q /\ op[w] = Idle
        BY <1>0, <1>3, <2>1, <2>3 DEF Exclusive
    <2>. QED
        BY <1>0, <2>1, <2>3, <2>4 DEF Exclusive
<1>. QED
    BY <1>1, <1>2, <1>3

LEMMA NotesKeep == ASSUME SodInv, AloneInv, NoteInv, [PacedNext]_<<vars, width>> PROVE NoteInv'
<1>1. CASE UNCHANGED <<vars, width>>
    <2>1. UNCHANGED <<policy, rows, direct, exceptions, notes, settings, op, faults, width>>
        BY <1>1 DEF vars, access
    <2>2. Violations(TRUE)' = Violations(TRUE) /\ Lapsed' = Lapsed /\ \A p : Covered(p)' = Covered(p)
        BY <2>1, SeenStays
    <2>3. (NewTold' <=> NewTold) /\ (LapsedTold' <=> LapsedTold)
        BY <2>1, <2>2 DEF NewTold, LapsedTold
    <2>4. \A topic : Wanted(topic, Violations(TRUE))' = Wanted(topic, Violations(TRUE)) /\ OpenOf(topic)' = OpenOf(topic)
        BY <2>1, <2>2 DEF Wanted, OpenOf
    <2>5. ASSUME NEW q \in Admins, Looking(op[q]) PROVE Looking(op[q])'
        <3>1. PICK h : h = op[q]
            OBVIOUS
        <3>2. Ready(h) => Ready(h)'
            BY <2>1, <2>4 DEF Ready
        <3>. QED
            BY <2>1, <2>2, <2>3, <2>5, <3>1, <3>2 DEF Looking
    <2>. QED
        BY <2>1, <2>5 DEF NoteInv, Alone, OnceEach, RoomLeft
<1>2. CASE PacedNext
    <2>1. Next /\ width' = width /\ Cardinality(Busy') <= width /\ (width = 1 /\ Busy # {} => op' # op)
        BY <1>2 DEF PacedNext
    <2>2. SUFFICES ASSUME width = 1, faults'["graph"] = 0
                   PROVE  OnceEach' /\ RoomLeft' /\ \A q \in Admins : Looking(op[q])'
        BY <2>1 DEF NoteInv, Alone
    <2>3. SodInv'
        BY <2>1, NextKeeps
    <2>4. faults \in [Faults -> Nat] /\ Exclusive
        BY <2>2 DEF AloneInv, Alone
    <2>5. faults["graph"] = 0
        BY <2>1, <2>2, <2>4, FaultsCount DEF Faults
    <2>6. OnceEach /\ RoomLeft /\ \A q \in Admins : Looking(op[q])
        BY <2>2, <2>5 DEF NoteInv, Alone
    <2>7. Exclusive'
        BY <2>1, <2>2, <2>4, ExclusiveStays
    <2>8. OnceEach'
        BY <2>1, <2>6, OnceStays
    <2>9. RoomLeft'
        BY <2>1, <2>2, <2>3, <2>4, <2>6, <2>7, RoomStays
    <2>10. ASSUME NEW q \in Admins PROVE Looking(op[q])'
        BY <2>1, <2>2, <2>3, <2>4, <2>6, <2>7, LooksStay
    <2>. QED
        BY <2>8, <2>9, <2>10
<1>. QED
    BY <1>1, <1>2

LEMMA NotesStart == Init => NoteInv
<1>. SUFFICES ASSUME Init PROVE NoteInv
    OBVIOUS
<1>1. notes = [k \in Keys |-> 0] /\ exceptions = <<>> /\ op = [q \in Procs |-> Idle]
    BY DEF Init
<1>2. \A q \in Admins : op[q].kind = "idle"
    BY <1>1 DEF Procs, Idle
<1>3. OnceEach
    BY <1>1 DEF OnceEach
<1>4. RoomLeft
    BY <1>1, <1>2, SodAssumption DEF RoomLeft
<1>. QED
    BY <1>2, <1>3, <1>4 DEF NoteInv, Looking

LEMMA NotesTold == NoteInv => AloneNoted
<1>. SUFFICES ASSUME NoteInv, Alone, faults["graph"] = 0 PROVE Noted
    BY DEF AloneNoted
<1>1. SUFFICES ASSUME NEW q \in Admins, op[q].kind = "look", op[q].topics = <<>> PROVE NewTold /\ LapsedTold
    BY DEF Noted, NewTold, LapsedTold
<1>2. Looking(op[q]) /\ Topics # <<>>
    BY DEF NoteInv, Topics
<1>. QED
    BY <1>1, <1>2 DEF Looking

\* list_notifications: with one handler at a time, Graph being reached, whoever has looked at
\* every topic finds, of what is to be notified of, one notification for each violated policy and
\* none for another, and a violation with a lapsed exception and no live one pointed out.
THEOREM NotedAlways == PacedSpec => []AloneNoted
<1>1. Init => NoteInv
    BY NotesStart
<1>2. SodInv /\ AloneInv /\ NoteInv /\ [PacedNext]_<<vars, width>> => NoteInv'
    BY NotesKeep
<1>. QED
    BY AloneInductive, NotesTold, <1>1, <1>2, PTL DEF PacedSpec

-----------------------------------------------------------------------------
(***************************************************************************)
(* Non-human identities (Nhi): shapes.                                     *)
(***************************************************************************)
Verdicts == {"PENDING", "CONFIRMED", "OWNER_REMOVED", "OWNER_REMOVED_LEAVER"}
Ballots  == UNION {[S -> Verdicts] : S \in SUBSET (Apps \X People)}

\* The handlers, by what they carry.
SyncWork     == [kind : {"sync"}, seen : [Apps -> Nhi!Identity \cup {Nhi!None}]]
RefreshWork  == [kind : {"refresh"}, app : Apps, seen : Nhi!Identity]
EnableWork   == [kind : {"enable"}, app : Apps, status : {"ACTIVE", "DISABLED"}]
RegisterWork == [kind : {"register"}, app : Apps, owner : People]
DecideWork   == [kind : {"remove", "decide", "count"}, campaign : Nat, item : Apps \X People,
                 verdict : {"CONFIRMED", "OWNER_REMOVED"}, active : BOOLEAN]
JudgeWork    == [kind : {"judge", "count"}, campaign : Nat, item : Apps \X People,
                 verdict : {"CONFIRMED", "OWNER_REMOVED"}, active : BOOLEAN, last : BOOLEAN]
SpawnWork    == [kind : {"spawn"}, campaign : Nat]
LinkWork     == [kind : {"link"}, campaign : Nat, child : Nat]
LeaveWork    == [kind : {"leave"}, who : People, at : {<<>>} \cup {<<a>> : a \in Apps}, todo : SUBSET Apps]
LookWork     == [kind : {"look"}, flagged : SUBSET Nhi!Keys, topics : SUBSET Nhi!Risks]
TellWork     == [kind : {"tell"}, flagged : SUBSET Nhi!Keys, topics : SUBSET Nhi!Risks, open : SUBSET Nhi!Keys]

Work(o) == \/ o = Nhi!Idle
           \/ o \in SyncWork \/ o \in RefreshWork \/ o \in EnableWork \/ o \in RegisterWork
           \/ o \in DecideWork \/ o \in JudgeWork \/ o \in SpawnWork \/ o \in LinkWork
           \/ o \in LeaveWork \/ o \in LookWork \/ o \in TellWork

OfItem == {"remove", "decide", "count", "judge"}

\* What handler o goes by is there.
Relies(o) ==
    /\ o.kind = "sync" => \A a \in Apps : o.seen[a] # Nhi!None => there[a] # Nhi!None
    /\ o.kind \in {"refresh", "enable"} => row[o.app] # Nhi!None
    /\ o.kind = "register" => there[o.app] # Nhi!None
    /\ o.kind \in OfItem \cup {"spawn", "link"} => o.campaign \in DOMAIN campaigns
    /\ o.kind \in OfItem => o.item \in DOMAIN campaigns[o.campaign].items
    /\ o.kind = "link" => o.child \in DOMAIN campaigns

\* The identities, their owners, the notifications and the campaigns.
IdentitiesOK == /\ there \in [Apps -> Nhi!Identity \cup {Nhi!None}] /\ row \in [Apps -> Nhi!Rows \cup {Nhi!None}]
                /\ \A a \in Apps : row[a] # Nhi!None => there[a] # Nhi!None
OwnersOK     == owners \subseteq Nhi!Known \X People
NotesOK      == told \in [Nhi!Keys -> Nat]
CampaignsOK  == campaigns \in Seq(Nhi!Campaign) /\ \A c \in DOMAIN campaigns : campaigns[c].parent \in 0..Len(campaigns)
DataOK       == IdentitiesOK /\ OwnersOK /\ NotesOK /\ CampaignsOK
WorkOK       == work = [q \in Nhi!Procs |-> work[q]] /\ \A q \in Nhi!Procs : Work(work[q]) /\ Relies(work[q])

NhiInv == DataOK /\ WorkOK

LEMMA DataTyped == DataOK => Nhi!TypeOK
BY DEF DataOK, IdentitiesOK, OwnersOK, NotesOK, CampaignsOK, Nhi!TypeOK

LEMMA Unlike == Nhi!None \notin Nhi!Identity /\ Nhi!None \notin Nhi!Rows
BY DEF Nhi!None, Nhi!Identity, Nhi!Rows

LEMMA WorkShape ==
    ASSUME NEW o, Work(o)
    PROVE  /\ o.kind = "idle" <=> o = Nhi!Idle
           /\ o.kind = "sync" => o \in SyncWork
           /\ o.kind = "refresh" => o \in RefreshWork
           /\ o.kind = "enable" => o \in EnableWork
           /\ o.kind = "register" => o \in RegisterWork
           /\ o.kind \in {"remove", "decide"} => o \in DecideWork
           /\ o.kind = "judge" => o \in JudgeWork
           /\ o.kind = "count" => o \in DecideWork \/ o \in JudgeWork
           /\ o.kind = "spawn" => o \in SpawnWork
           /\ o.kind = "link" => o \in LinkWork
           /\ o.kind = "leave" => o \in LeaveWork
           /\ o.kind = "look" => o \in LookWork
           /\ o.kind = "tell" => o \in TellWork
<1>1. Nhi!Idle.kind = "idle"
    BY DEF Nhi!Idle
<1>2. /\ o \in SyncWork => o.kind = "sync"
      /\ o \in RefreshWork => o.kind = "refresh"
      /\ o \in EnableWork => o.kind = "enable"
      /\ o \in RegisterWork => o.kind = "register"
    BY DEF SyncWork, RefreshWork, EnableWork, RegisterWork
<1>3. /\ o \in DecideWork => o.kind \in {"remove", "decide", "count"}
      /\ o \in JudgeWork => o.kind \in {"judge", "count"}
      /\ o \in SpawnWork => o.kind = "spawn"
      /\ o \in LinkWork => o.kind = "link"
    BY DEF DecideWork, JudgeWork, SpawnWork, LinkWork
<1>4. /\ o \in LeaveWork => o.kind = "leave"
      /\ o \in LookWork => o.kind = "look"
      /\ o \in TellWork => o.kind = "tell"
    BY DEF LeaveWork, LookWork, TellWork
<1>. QED
    BY <1>1, <1>2, <1>3, <1>4 DEF Work

\* What no step takes back.
Lasts == /\ \A a \in Apps : (there[a] # Nhi!None => there'[a] # Nhi!None) /\ (row[a] # Nhi!None => row'[a] # Nhi!None)
         /\ \A c \in DOMAIN campaigns : c \in DOMAIN campaigns' /\ DOMAIN campaigns'[c].items = DOMAIN campaigns[c].items

LEMMA StillRelies == ASSUME NEW o, Work(o), Relies(o), Lasts PROVE Relies(o)'
<1>1. o.kind = "sync" => \A a \in Apps : o.seen[a] # Nhi!None => there'[a] # Nhi!None
    BY DEF Relies, Lasts
<1>2. o.kind \in {"refresh", "enable"} => row'[o.app] # Nhi!None
  <2>1. o.kind \in {"refresh", "enable"} => o.app \in Apps
      BY WorkShape DEF RefreshWork, EnableWork
  <2>. QED
      BY <2>1 DEF Relies, Lasts
<1>3. o.kind = "register" => there'[o.app] # Nhi!None
  <2>1. o.kind = "register" => o.app \in Apps
      BY WorkShape DEF RegisterWork
  <2>. QED
      BY <2>1 DEF Relies, Lasts
<1>4. /\ o.kind \in OfItem \cup {"spawn", "link"} => o.campaign \in DOMAIN campaigns'
      /\ o.kind \in OfItem => o.item \in DOMAIN campaigns'[o.campaign].items
      /\ o.kind = "link" => o.child \in DOMAIN campaigns'
    BY DEF Relies, Lasts
<1>. QED
    BY <1>1, <1>2, <1>3, <1>4 DEF Relies

\* One handler goes on, or none does.
LEMMA WorkGoesOn ==
    ASSUME WorkOK, Lasts, NEW q \in Nhi!Procs, NEW h, work' = [work EXCEPT ![q] = h], Work(h), Relies(h)'
    PROVE  WorkOK'
<1>1. DOMAIN work = Nhi!Procs
    BY DEF WorkOK
<1>2. work'[q] = h /\ \A x \in Nhi!Procs \ {q} : work'[x] = work[x]
    BY <1>1
<1>3. work' = [x \in Nhi!Procs |-> work'[x]]
    BY <1>1
<1>4. ASSUME NEW x \in Nhi!Procs PROVE Work(work'[x]) /\ Relies(work[x])'
  <2>1. PICK o : o = work'[x]
      OBVIOUS
  <2>2. Work(o) /\ Relies(o)'
    <3>1. CASE x = q
        BY <1>2, <2>1, <3>1
    <3>2. CASE x # q
      <4>1. o = work[x] /\ Work(o) /\ Relies(o)
          BY <1>2, <2>1, <3>2 DEF WorkOK
      <4>. QED
          BY <4>1, StillRelies
    <3>. QED
        BY <3>1, <3>2
  <2>. QED
      BY <2>1, <2>2 DEF Relies
<1>. QED
    BY <1>3, <1>4 DEF WorkOK, Work

LEMMA WorkStands == ASSUME WorkOK, Lasts, work' = work PROVE WorkOK'
<1>1. ASSUME NEW x \in Nhi!Procs PROVE Work(work'[x]) /\ Relies(work[x])'
  <2>1. PICK o : o = work[x]
      OBVIOUS
  <2>2. Work(o) /\ Relies(o)'
      BY <2>1, StillRelies DEF WorkOK
  <2>. QED
      BY <2>1, <2>2 DEF Relies
<1>. QED
    BY <1>1 DEF WorkOK, Work

LEMMA IdleWork == Work(Nhi!Idle) /\ Relies(Nhi!Idle) /\ Relies(Nhi!Idle)'
BY DEF Work, Relies, Nhi!Idle, OfItem

-----------------------------------------------------------------------------
(***************************************************************************)
(* Identities and their owners.                                            *)
(***************************************************************************)
LEMMA LastsOf ==
    ASSUME \A a \in Apps : (there[a] # Nhi!None => there'[a] # Nhi!None) /\ (row[a] # Nhi!None => row'[a] # Nhi!None),
           campaigns' = campaigns
    PROVE  Lasts
BY DEF Lasts

LEMMA OwnersKept ==
    ASSUME OwnersOK, owners' \subseteq owners, \A a \in Apps : row[a] # Nhi!None => row'[a] # Nhi!None
    PROVE  OwnersOK'
BY DEF OwnersOK, Nhi!Known

LEMMA CampaignsKept == ASSUME CampaignsOK, campaigns' = campaigns PROVE CampaignsOK'
BY DEF CampaignsOK

LEMMA NotesKept == ASSUME NotesOK, told' = told PROVE NotesOK'
BY DEF NotesOK, Nhi!Keys

\* One identity or row is written.
LEMMA ThereWritten ==
    ASSUME IdentitiesOK, row' = row, NEW a \in Apps, NEW i \in Nhi!Identity, there' = [there EXCEPT ![a] = i]
    PROVE  IdentitiesOK' /\ \A x \in Apps : (there[x] # Nhi!None => there'[x] # Nhi!None) /\ (row[x] # Nhi!None => row'[x] # Nhi!None)
<1>1. \A x \in Apps : there'[x] = IF x = a THEN i ELSE there[x]
    BY DEF IdentitiesOK
<1>2. i # Nhi!None
    BY Unlike
<1>3. there' \in [Apps -> Nhi!Identity \cup {Nhi!None}]
    BY DEF IdentitiesOK
<1>. QED
    BY <1>1, <1>2, <1>3 DEF IdentitiesOK

LEMMA RowWritten ==
    ASSUME IdentitiesOK, there' = there, NEW a \in Apps, NEW r \in Nhi!Rows, row' = [row EXCEPT ![a] = r], there[a] # Nhi!None
    PROVE  IdentitiesOK' /\ \A x \in Apps : (there[x] # Nhi!None => there'[x] # Nhi!None) /\ (row[x] # Nhi!None => row'[x] # Nhi!None)
<1>1. \A x \in Apps : row'[x] = IF x = a THEN r ELSE row[x]
    BY DEF IdentitiesOK
<1>2. r # Nhi!None
    BY Unlike
<1>3. row' \in [Apps -> Nhi!Rows \cup {Nhi!None}]
    BY DEF IdentitiesOK
<1>. QED
    BY <1>1, <1>2, <1>3 DEF IdentitiesOK

LEMMA AgedShape ==
    /\ \A i \in Nhi!Identity : Nhi!Aged(i) \in Nhi!Identity
    /\ \A r \in Nhi!Rows : Nhi!Aged(r) \in Nhi!Rows
    /\ Nhi!Aged(Nhi!None) = Nhi!None
<1>1. ASSUME NEW i \in Nhi!Identity PROVE Nhi!Aged(i) \in Nhi!Identity
  <2>1. Nhi!Aged(i) = [i EXCEPT !.credential = IF @ = "far" THEN "soon" ELSE "ended"]
      BY Unlike DEF Nhi!Aged
  <2>. QED
      BY <2>1 DEF Nhi!Identity
<1>2. ASSUME NEW r \in Nhi!Rows PROVE Nhi!Aged(r) \in Nhi!Rows
  <2>1. Nhi!Aged(r) = [r EXCEPT !.credential = IF @ = "far" THEN "soon" ELSE "ended"]
      BY Unlike DEF Nhi!Aged
  <2>. QED
      BY <2>1 DEF Nhi!Rows
<1>. QED
    BY <1>1, <1>2 DEF Nhi!Aged

LEMMA UpsertedShape == ASSUME NEW r \in Nhi!Rows \cup {Nhi!None}, NEW i \in Nhi!Identity PROVE Nhi!Upserted(r, i) \in Nhi!Rows
<1>1. PICK b \in BOOLEAN : b = (r # Nhi!None /\ r.chosen)
  <2>1. CASE r = Nhi!None
      BY <2>1
  <2>2. CASE r \in Nhi!Rows
      BY <2>2, Unlike DEF Nhi!Rows
  <2>. QED
      BY <2>1, <2>2
<1>2. Nhi!Upserted(r, i) = [status |-> i.status, credential |-> i.credential, chosen |-> b]
    BY <1>1 DEF Nhi!Upserted
<1>3. i.status \in {"ACTIVE", "DISABLED"} /\ i.credential \in {"far", "soon", "ended"}
    BY DEF Nhi!Identity
<1>. QED
    BY <1>2, <1>3 DEF Nhi!Rows

\* Edits beside the handlers.
LEMMA EditKeeps ==
    ASSUME NhiInv, \/ Nhi!ChangeThere \/ Nhi!TimePasses \/ Nhi!SetNhiType \/ Nhi!AssignOwner \/ Nhi!RemoveOwner
                   \/ Nhi!AcceptRisk \/ Nhi!AcceptanceEnds \/ Nhi!UpdateSettings
    PROVE  NhiInv' /\ UNCHANGED <<told, campaigns, work, broken>>
<1>1. UNCHANGED <<told, campaigns, work, broken>>
    BY DEF Nhi!ChangeThere, Nhi!TimePasses, Nhi!SetNhiType, Nhi!AssignOwner, Nhi!RemoveOwner,
           Nhi!AcceptRisk, Nhi!AcceptanceEnds, Nhi!UpdateSettings, Nhi!risks
<1>2. ASSUME Nhi!ChangeThere
      PROVE  IdentitiesOK' /\ owners' = owners
                /\ \A x \in Apps : (there[x] # Nhi!None => there'[x] # Nhi!None) /\ (row[x] # Nhi!None => row'[x] # Nhi!None)
  <2>1. PICK a \in Apps, s \in {"ACTIVE", "DISABLED"} : there' = [there EXCEPT ![a] = [status |-> s, credential |-> "far"]]
      BY <1>2 DEF Nhi!ChangeThere
  <2>2. PICK i : i = [status |-> s, credential |-> "far"]
      OBVIOUS
  <2>3. i \in Nhi!Identity
      BY <2>2 DEF Nhi!Identity
  <2>4. row' = row /\ owners' = owners
      BY <1>2 DEF Nhi!ChangeThere
  <2>. QED
      BY <2>1, <2>2, <2>3, <2>4, ThereWritten DEF NhiInv, DataOK
<1>3. ASSUME Nhi!TimePasses
      PROVE  IdentitiesOK' /\ owners' = owners
                /\ \A x \in Apps : (there[x] # Nhi!None => there'[x] # Nhi!None) /\ (row[x] # Nhi!None => row'[x] # Nhi!None)
  <2>1. PICK a \in Apps : there' = [there EXCEPT ![a] = Nhi!Aged(there[a])] /\ row' = [row EXCEPT ![a] = Nhi!Aged(row[a])]
      BY <1>3 DEF Nhi!TimePasses
  <2>2. there[a] \in Nhi!Identity \cup {Nhi!None} /\ row[a] \in Nhi!Rows \cup {Nhi!None}
      BY DEF NhiInv, DataOK, IdentitiesOK
  <2>3. PICK i, r : i = Nhi!Aged(there[a]) /\ r = Nhi!Aged(row[a])
      OBVIOUS
  <2>4. /\ i \in Nhi!Identity \cup {Nhi!None} /\ (i = Nhi!None <=> there[a] = Nhi!None)
        /\ r \in Nhi!Rows \cup {Nhi!None} /\ (r = Nhi!None <=> row[a] = Nhi!None)
      BY <2>2, <2>3, AgedShape, Unlike
  <2>5. \A x \in Apps : there'[x] = (IF x = a THEN i ELSE there[x]) /\ row'[x] = IF x = a THEN r ELSE row[x]
      BY <2>1, <2>3 DEF NhiInv, DataOK, IdentitiesOK
  <2>6. there' \in [Apps -> Nhi!Identity \cup {Nhi!None}] /\ row' \in [Apps -> Nhi!Rows \cup {Nhi!None}]
      BY <2>1, <2>3, <2>4 DEF NhiInv, DataOK, IdentitiesOK
  <2>7. owners' = owners
      BY <1>3 DEF Nhi!TimePasses
  <2>. QED
      BY <2>4, <2>5, <2>6, <2>7 DEF NhiInv, DataOK, IdentitiesOK
<1>4. ASSUME Nhi!SetNhiType
      PROVE  IdentitiesOK' /\ owners' = owners
                /\ \A x \in Apps : (there[x] # Nhi!None => there'[x] # Nhi!None) /\ (row[x] # Nhi!None => row'[x] # Nhi!None)
  <2>1. PICK a \in Nhi!Known : row' = [row EXCEPT ![a].chosen = TRUE] /\ there' = there /\ owners' = owners
      BY <1>4 DEF Nhi!SetNhiType
  <2>2. PICK r : r = [row[a] EXCEPT !.chosen = TRUE]
      OBVIOUS
  <2>3. a \in Apps /\ row[a] \in Nhi!Rows /\ there[a] # Nhi!None
      BY DEF NhiInv, DataOK, IdentitiesOK, Nhi!Known
  <2>4. r \in Nhi!Rows /\ row' = [row EXCEPT ![a] = r]
      BY <2>1, <2>2, <2>3 DEF Nhi!Rows
  <2>. QED
      BY <2>1, <2>3, <2>4, RowWritten DEF NhiInv, DataOK
<1>5. ASSUME Nhi!AssignOwner \/ Nhi!RemoveOwner PROVE there' = there /\ row' = row /\ OwnersOK'
  <2>1. there' = there /\ row' = row
      BY <1>5 DEF Nhi!AssignOwner, Nhi!RemoveOwner, Nhi!identities
  <2>2. CASE Nhi!AssignOwner
    <3>1. PICK a \in Nhi!Known, u \in People : owners' = owners \cup {<<a, u>>}
        BY <2>2 DEF Nhi!AssignOwner
    <3>. QED
        BY <2>1, <3>1 DEF NhiInv, DataOK, OwnersOK, Nhi!Known
  <2>3. CASE Nhi!RemoveOwner
    <3>1. owners' \subseteq owners
        BY <2>3 DEF Nhi!RemoveOwner
    <3>. QED
        BY <2>1, <3>1 DEF NhiInv, DataOK, OwnersOK, Nhi!Known
  <2>. QED
      BY <1>5, <2>1, <2>2, <2>3
<1>6. ASSUME Nhi!AcceptRisk \/ Nhi!AcceptanceEnds \/ Nhi!UpdateSettings PROVE UNCHANGED <<there, row, owners>>
    BY <1>6 DEF Nhi!AcceptRisk, Nhi!AcceptanceEnds, Nhi!UpdateSettings, Nhi!identities
<1>7. /\ IdentitiesOK' /\ OwnersOK'
      /\ \A x \in Apps : (there[x] # Nhi!None => there'[x] # Nhi!None) /\ (row[x] # Nhi!None => row'[x] # Nhi!None)
  <2>1. CASE UNCHANGED <<there, row>>
    <3>1. IdentitiesOK'
        BY <2>1 DEF NhiInv, DataOK, IdentitiesOK
    <3>2. owners' = owners => OwnersOK'
        BY <2>1, OwnersKept DEF NhiInv, DataOK
    <3>. QED
        BY <2>1, <3>1, <3>2, <1>2, <1>3, <1>4, <1>5, <1>6
  <2>2. CASE Nhi!ChangeThere \/ Nhi!TimePasses \/ Nhi!SetNhiType
      BY <2>2, <1>2, <1>3, <1>4, OwnersKept DEF NhiInv, DataOK
  <2>. QED
      BY <2>1, <2>2, <1>5, <1>6
<1>8. Lasts
    BY <1>1, <1>7, LastsOf
<1>. QED
    BY <1>1, <1>7, <1>8, WorkStands, CampaignsKept, NotesKept DEF NhiInv, DataOK

-----------------------------------------------------------------------------
(***************************************************************************)
(* The handlers of identities.                                             *)
(***************************************************************************)
Plain(h)   == h.kind \in {"idle", "sync", "refresh", "enable", "register"}
OneFault   == broken' = broken \/ \E f \in Nhi!Faults : Nhi!Count(f)
StillThere == \A x \in Apps : (there[x] # Nhi!None => there'[x] # Nhi!None) /\ (row[x] # Nhi!None => row'[x] # Nhi!None)

IdentityStep(q) == /\ NhiInv' /\ UNCHANGED <<told, campaigns>> /\ OneFault /\ Plain(work[q])
                   /\ work' = work \/ \E h : work' = [work EXCEPT ![q] = h] /\ Plain(h)

LEMMA IdentityGoesOn ==
    ASSUME NhiInv, NEW q \in Nhi!Procs, Plain(work[q]), OneFault, UNCHANGED <<told, campaigns>>,
           IdentitiesOK', OwnersOK', StillThere,
           NEW h, work' = [work EXCEPT ![q] = h], Work(h), Relies(h)', Plain(h)
    PROVE  IdentityStep(q)
<1>1. Lasts
    BY LastsOf DEF StillThere
<1>2. WorkOK'
    BY <1>1, WorkGoesOn DEF NhiInv
<1>. QED
    BY <1>2, CampaignsKept, NotesKept DEF IdentityStep, NhiInv, DataOK

LEMMA IdentityStands ==
    ASSUME NhiInv, NEW q \in Nhi!Procs, Plain(work[q]), OneFault, UNCHANGED <<told, campaigns>>,
           IdentitiesOK', OwnersOK', StillThere, work' = work
    PROVE  IdentityStep(q)
<1>1. Lasts
    BY LastsOf DEF StillThere
<1>2. WorkOK'
    BY <1>1, WorkStands DEF NhiInv
<1>. QED
    BY <1>2, CampaignsKept, NotesKept DEF IdentityStep, NhiInv, DataOK

LEMMA Untouched == ASSUME NhiInv, UNCHANGED <<there, row, owners>> PROVE IdentitiesOK' /\ OwnersOK' /\ StillThere
BY OwnersKept DEF NhiInv, DataOK, IdentitiesOK, StillThere

LEMMA IdlePlain == Plain(Nhi!Idle) /\ Work(Nhi!Idle) /\ Relies(Nhi!Idle)'
BY IdleWork DEF Plain, Nhi!Idle

LEMMA SyncReadStep == ASSUME NhiInv, Nhi!SyncRead PROVE Syncer \in Nhi!Procs /\ IdentityStep(Syncer)
<1>1. PICK h : h = [kind |-> "sync", seen |-> there]
    OBVIOUS
<1>2. /\ work[Syncer] = Nhi!Idle /\ work' = [work EXCEPT ![Syncer] = h]
      /\ UNCHANGED <<there, row, owners, told, campaigns, broken>>
    BY <1>1 DEF Nhi!SyncRead, Nhi!Start, Nhi!MayStart, Nhi!identities, Nhi!risks
<1>3. Syncer \in Nhi!Procs
    BY DEF Nhi!Procs
<1>4. h \in SyncWork /\ h.seen = there /\ h.kind = "sync"
    BY <1>1 DEF SyncWork, NhiInv, DataOK, IdentitiesOK
<1>5. Work(h) /\ Plain(h) /\ Relies(h)'
    BY <1>2, <1>4 DEF Work, Plain, Relies, OfItem
<1>. QED
    BY <1>2, <1>3, <1>5, Untouched, IdlePlain, IdentityGoesOn DEF OneFault

LEMMA SyncSaveStep == ASSUME NhiInv, Nhi!SyncSave PROVE Syncer \in Nhi!Procs /\ IdentityStep(Syncer)
<1>1. PICK o, seen : o = work[Syncer] /\ seen = o.seen
    OBVIOUS
<1>2. /\ o.kind = "sync" /\ work' = [work EXCEPT ![Syncer] = Nhi!Idle] /\ UNCHANGED <<there, owners, told, campaigns, broken>>
      /\ row' = [a \in Apps |-> IF seen[a] = Nhi!None THEN row[a] ELSE Nhi!Upserted(row[a], seen[a])]
    BY <1>1 DEF Nhi!SyncSave, Nhi!Ends, Nhi!risks
<1>3. Syncer \in Nhi!Procs
    BY DEF Nhi!Procs
<1>4. /\ seen \in [Apps -> Nhi!Identity \cup {Nhi!None}]
      /\ \A a \in Apps : seen[a] # Nhi!None => there[a] # Nhi!None
  <2>1. Work(o) /\ Relies(o)
      BY <1>1, <1>3 DEF NhiInv, WorkOK
  <2>. QED
      BY <1>1, <1>2, <2>1, WorkShape DEF Relies, SyncWork
<1>5. ASSUME NEW a \in Apps
      PROVE  row'[a] \in Nhi!Rows \cup {Nhi!None} /\ (row[a] # Nhi!None => row'[a] # Nhi!None) /\ (row'[a] # Nhi!None => there[a] # Nhi!None)
  <2>1. row[a] \in Nhi!Rows \cup {Nhi!None} /\ (row[a] # Nhi!None => there[a] # Nhi!None)
      BY DEF NhiInv, DataOK, IdentitiesOK
  <2>2. CASE seen[a] = Nhi!None
      BY <1>2, <2>1, <2>2
  <2>3. CASE seen[a] # Nhi!None
    <3>1. seen[a] \in Nhi!Identity
        BY <1>4, <2>3
    <3>2. row'[a] = Nhi!Upserted(row[a], seen[a])
        BY <1>2, <2>3
    <3>. QED
        BY <1>4, <2>1, <2>3, <3>1, <3>2, UpsertedShape, Unlike
  <2>. QED
      BY <2>2, <2>3
<1>6. IdentitiesOK' /\ StillThere
    BY <1>2, <1>5 DEF NhiInv, DataOK, IdentitiesOK, StillThere
<1>7. OwnersOK'
    BY <1>2, <1>6, OwnersKept DEF NhiInv, DataOK, StillThere
<1>8. Plain(work[Syncer])
    BY <1>1, <1>2 DEF Plain
<1>. QED
    BY <1>2, <1>3, <1>6, <1>7, <1>8, IdlePlain, IdentityGoesOn DEF OneFault

LEMMA RefreshReadStep == ASSUME NhiInv, NEW q \in Nhi!Procs, Nhi!RefreshRead(q) PROVE IdentityStep(q)
<1>1. PICK a \in Nhi!Known :
        /\ work[q] = Nhi!Idle /\ work' = [work EXCEPT ![q] = [kind |-> "refresh", app |-> a, seen |-> there[a]]]
        /\ UNCHANGED <<there, row, owners, told, campaigns, broken>>
    BY DEF Nhi!RefreshRead, Nhi!Start, Nhi!MayStart, Nhi!identities, Nhi!risks
<1>2. PICK h : h = [kind |-> "refresh", app |-> a, seen |-> there[a]]
    OBVIOUS
<1>3. a \in Apps /\ row[a] # Nhi!None /\ there[a] \in Nhi!Identity
    BY DEF NhiInv, DataOK, IdentitiesOK, Nhi!Known
<1>4. h \in RefreshWork /\ h.app = a /\ h.kind = "refresh"
    BY <1>2, <1>3 DEF RefreshWork
<1>5. Work(h) /\ Plain(h) /\ Relies(h)'
    BY <1>1, <1>3, <1>4 DEF Work, Plain, Relies, OfItem
<1>. QED
    BY <1>1, <1>2, <1>5, Untouched, IdlePlain, IdentityGoesOn DEF OneFault

LEMMA RefreshSaveStep == ASSUME NhiInv, NEW q \in Nhi!Procs, Nhi!RefreshSave(q) PROVE IdentityStep(q)
<1>1. PICK o, a, r : o = work[q] /\ a = o.app /\ r = Nhi!Upserted(row[a], o.seen)
    OBVIOUS
<1>2. /\ o.kind = "refresh" /\ work' = [work EXCEPT ![q] = Nhi!Idle] /\ UNCHANGED <<there, owners, told, campaigns, broken>>
      /\ row' = [row EXCEPT ![a] = r]
    BY <1>1 DEF Nhi!RefreshSave, Nhi!Ends, Nhi!risks
<1>3. a \in Apps /\ o.seen \in Nhi!Identity /\ row[a] # Nhi!None
  <2>1. Work(o) /\ Relies(o)
      BY <1>1 DEF NhiInv, WorkOK
  <2>. QED
      BY <1>1, <1>2, <2>1, WorkShape DEF Relies, RefreshWork
<1>4. row[a] \in Nhi!Rows \cup {Nhi!None} /\ there[a] # Nhi!None
    BY <1>3 DEF NhiInv, DataOK, IdentitiesOK
<1>5. r \in Nhi!Rows
    BY <1>1, <1>3, <1>4, UpsertedShape
<1>6. IdentitiesOK' /\ StillThere
    BY <1>2, <1>3, <1>4, <1>5, RowWritten DEF NhiInv, DataOK, StillThere
<1>7. OwnersOK'
    BY <1>2, <1>6, OwnersKept DEF NhiInv, DataOK, StillThere
<1>8. Plain(work[q])
    BY <1>1, <1>2 DEF Plain
<1>. QED
    BY <1>2, <1>6, <1>7, <1>8, IdlePlain, IdentityGoesOn DEF OneFault

LEMMA SetEnabledStep == ASSUME NhiInv, NEW q \in Nhi!Procs, Nhi!SetEnabled(q) PROVE IdentityStep(q)
<1>1. PICK a \in Nhi!Known, s \in {"ACTIVE", "DISABLED"} :
        /\ work[q] = Nhi!Idle /\ there' = [there EXCEPT ![a].status = s] /\ UNCHANGED <<row, owners, told, campaigns>>
        /\ \/ work' = [work EXCEPT ![q] = [kind |-> "enable", app |-> a, status |-> s]] /\ broken' = broken
           \/ Nhi!Count("lost") /\ work' = work
    BY DEF Nhi!SetEnabled, Nhi!Goes, Nhi!MayStart, Nhi!risks
<1>2. PICK h, i : h = [kind |-> "enable", app |-> a, status |-> s] /\ i = [there[a] EXCEPT !.status = s]
    OBVIOUS
<1>3. a \in Apps /\ row[a] # Nhi!None /\ there[a] \in Nhi!Identity
    BY DEF NhiInv, DataOK, IdentitiesOK, Nhi!Known
<1>4. i \in Nhi!Identity /\ there' = [there EXCEPT ![a] = i]
    BY <1>1, <1>2, <1>3 DEF Nhi!Identity
<1>5. IdentitiesOK' /\ StillThere
    BY <1>1, <1>3, <1>4, ThereWritten DEF NhiInv, DataOK, StillThere
<1>6. OwnersOK'
    BY <1>1, <1>5, OwnersKept DEF NhiInv, DataOK, StillThere
<1>7. h \in EnableWork /\ h.app = a /\ h.kind = "enable"
    BY <1>2, <1>3 DEF EnableWork
<1>8. Work(h) /\ Plain(h) /\ Relies(h)'
    BY <1>1, <1>3, <1>7 DEF Work, Plain, Relies, OfItem
<1>9. Plain(work[q]) /\ OneFault
    BY <1>1, IdlePlain DEF OneFault, Nhi!Faults
<1>10. CASE work' = [work EXCEPT ![q] = h]
    BY <1>1, <1>5, <1>6, <1>8, <1>9, <1>10, IdentityGoesOn
<1>11. CASE work' = work
    BY <1>1, <1>5, <1>6, <1>9, <1>11, IdentityStands
<1>. QED
    BY <1>1, <1>2, <1>10, <1>11

LEMMA SaveEnabledStep == ASSUME NhiInv, NEW q \in Nhi!Procs, Nhi!SaveEnabled(q) PROVE IdentityStep(q)
<1>1. PICK o, a, r : o = work[q] /\ a = o.app /\ r = [row[a] EXCEPT !.status = o.status]
    OBVIOUS
<1>2. /\ o.kind = "enable" /\ work' = [work EXCEPT ![q] = Nhi!Idle] /\ UNCHANGED <<there, owners, told, campaigns, broken>>
      /\ row' = [row EXCEPT ![a] = r]
    BY <1>1 DEF Nhi!SaveEnabled, Nhi!Ends, Nhi!risks
<1>3. a \in Apps /\ o.status \in {"ACTIVE", "DISABLED"} /\ row[a] # Nhi!None
  <2>1. Work(o) /\ Relies(o)
      BY <1>1 DEF NhiInv, WorkOK
  <2>. QED
      BY <1>1, <1>2, <2>1, WorkShape DEF Relies, EnableWork
<1>4. row[a] \in Nhi!Rows /\ there[a] # Nhi!None
    BY <1>3 DEF NhiInv, DataOK, IdentitiesOK
<1>5. r \in Nhi!Rows
    BY <1>1, <1>3, <1>4 DEF Nhi!Rows
<1>6. IdentitiesOK' /\ StillThere
    BY <1>2, <1>3, <1>4, <1>5, RowWritten DEF NhiInv, DataOK, StillThere
<1>7. OwnersOK'
    BY <1>2, <1>6, OwnersKept DEF NhiInv, DataOK, StillThere
<1>8. Plain(work[q])
    BY <1>1, <1>2 DEF Plain
<1>. QED
    BY <1>2, <1>6, <1>7, <1>8, IdlePlain, IdentityGoesOn DEF OneFault

LEMMA RegisterStep == ASSUME NhiInv, NEW q \in Nhi!Procs, Nhi!Register(q) PROVE IdentityStep(q)
<1>1. PICK a \in Apps \ Nhi!Exist, u \in People :
        /\ work[q] = Nhi!Idle /\ there' = [there EXCEPT ![a] = [status |-> "ACTIVE", credential |-> "far"]]
        /\ UNCHANGED <<row, owners, told, campaigns>>
        /\ \/ work' = [work EXCEPT ![q] = [kind |-> "register", app |-> a, owner |-> u]] /\ broken' = broken
           \/ Nhi!Count("lost") /\ work' = work
    BY DEF Nhi!Register, Nhi!Goes, Nhi!MayStart, Nhi!risks
<1>2. PICK h, i : h = [kind |-> "register", app |-> a, owner |-> u] /\ i = [status |-> "ACTIVE", credential |-> "far"]
    OBVIOUS
<1>3. a \in Apps /\ i \in Nhi!Identity /\ there' = [there EXCEPT ![a] = i]
    BY <1>1, <1>2 DEF Nhi!Identity
<1>4. IdentitiesOK' /\ StillThere
    BY <1>1, <1>3, ThereWritten DEF NhiInv, DataOK, StillThere
<1>5. there'[a] # Nhi!None
    BY <1>3, Unlike DEF NhiInv, DataOK, IdentitiesOK
<1>6. OwnersOK'
    BY <1>1, <1>4, OwnersKept DEF NhiInv, DataOK, StillThere
<1>7. h \in RegisterWork /\ h.app = a /\ h.kind = "register"
    BY <1>2, <1>3 DEF RegisterWork
<1>8. Work(h) /\ Plain(h) /\ Relies(h)'
    BY <1>1, <1>5, <1>7 DEF Work, Plain, Relies, OfItem
<1>9. Plain(work[q]) /\ OneFault
    BY <1>1, IdlePlain DEF OneFault, Nhi!Faults
<1>10. CASE work' = [work EXCEPT ![q] = h]
    BY <1>1, <1>4, <1>6, <1>8, <1>9, <1>10, IdentityGoesOn
<1>11. CASE work' = work
    BY <1>1, <1>4, <1>6, <1>9, <1>11, IdentityStands
<1>. QED
    BY <1>1, <1>2, <1>10, <1>11

LEMMA SaveRegisteredStep == ASSUME NhiInv, NEW q \in Nhi!Procs, Nhi!SaveRegistered(q) PROVE IdentityStep(q)
<1>1. PICK o, a, r : o = work[q] /\ a = o.app /\ r = [status |-> "ACTIVE", credential |-> "far", chosen |-> TRUE]
    OBVIOUS
<1>2. /\ o.kind = "register" /\ work' = [work EXCEPT ![q] = Nhi!Idle] /\ UNCHANGED <<there, told, campaigns, broken>>
      /\ \/ row' = row /\ owners' = owners
         \/ row' = [row EXCEPT ![a] = r] /\ owners' = owners \cup {<<a, o.owner>>}
    BY <1>1 DEF Nhi!SaveRegistered, Nhi!Ends, Nhi!risks
<1>3. a \in Apps /\ o.owner \in People /\ there[a] # Nhi!None
  <2>1. Work(o) /\ Relies(o)
      BY <1>1 DEF NhiInv, WorkOK
  <2>. QED
      BY <1>1, <1>2, <2>1, WorkShape DEF Relies, RegisterWork
<1>4. r \in Nhi!Rows
    BY <1>1 DEF Nhi!Rows
<1>5. Plain(work[q])
    BY <1>1, <1>2 DEF Plain
<1>6. IdentitiesOK' /\ OwnersOK' /\ StillThere
  <2>1. CASE row' = row /\ owners' = owners
      BY <1>2, <2>1, Untouched
  <2>2. CASE row' = [row EXCEPT ![a] = r] /\ owners' = owners \cup {<<a, o.owner>>}
    <3>1. IdentitiesOK' /\ StillThere
        BY <1>2, <1>3, <1>4, <2>2, RowWritten DEF NhiInv, DataOK, StillThere
    <3>2. row'[a] # Nhi!None
        BY <1>3, <1>4, <2>2, Unlike DEF NhiInv, DataOK, IdentitiesOK
    <3>3. OwnersOK'
        BY <1>3, <2>2, <3>1, <3>2 DEF NhiInv, DataOK, OwnersOK, Nhi!Known, StillThere
    <3>. QED
        BY <3>1, <3>3
  <2>. QED
      BY <1>2, <2>1, <2>2
<1>. QED
    BY <1>2, <1>5, <1>6, IdlePlain, IdentityGoesOn DEF OneFault

-----------------------------------------------------------------------------
(***************************************************************************)
(* One handler at a time: what holds while o is the one under way.         *)
(***************************************************************************)
\* A notification is open or not; a look has what it saw, and has told of what is no longer to come.
OnceTold == told \in [Nhi!Keys -> {0, 1}]
Heard(o) ==
    /\ o.kind \in {"look", "tell"} => /\ o.flagged = Nhi!Flagged
                                      /\ \A k \in Nhi!Keys : k[1] \in telling \ o.topics => told[k] = IF k \in Nhi!Flagged THEN 1 ELSE 0
    /\ o.kind = "tell" => o.topics # {} /\ o.open = Nhi!OpenOf(Nhi!Topic(o.topics))

\* What a leaver is about to lose is not pending.
Gone(o) == o.kind = "leave" /\ o.at # <<>> => \A c \in DOMAIN campaigns : <<o.at[1], o.who>> \notin Nhi!Pending(c)

\* What the handler of a review goes by.
AtWork(o) ==
    /\ o.kind \in OfItem => o.active = TRUE /\ campaigns[o.campaign].status = "ACTIVE"
    /\ o.kind = "judge" => /\ campaigns[o.campaign].routed /\ o.item \in Nhi!Pending(o.campaign)
                           /\ o.last = (Nhi!Pending(o.campaign) = {o.item})
    /\ o.kind = "spawn" => campaigns[o.campaign].status = "COMPLETED"
    /\ o.kind = "link" => campaigns[o.campaign].status = "COMPLETED" /\ campaigns[o.child].parent = 0

\* A campaign is closed when all is decided, and a closed one has a successor if it recurs.
LeaverItem(c) == \E i \in DOMAIN campaigns[c].items : campaigns[c].items[i] = "OWNER_REMOVED_LEAVER"
Settled(o, c) ==
    /\ campaigns[c].status = "COMPLETED" => Nhi!Pending(c) = {}
    /\ campaigns[c].status = "ACTIVE" /\ Nhi!Pending(c) = {} /\ DOMAIN campaigns[c].items # {} =>
         (o.kind = "count" /\ o.campaign = c) \/ LeaverItem(c)
Followed(o, c) ==
    /\ campaigns[c].status = "ACTIVE" => Nhi!Children(c) = {}
    /\ campaigns[c].status = "COMPLETED" => IF o.kind \in {"spawn", "link"} /\ o.campaign = c THEN Nhi!Children(c) = {}
                                            ELSE \E d \in DOMAIN campaigns : Nhi!Children(c) = {d}
Reviewing(o) == AtWork(o) /\ \A c \in DOMAIN campaigns : Settled(o, c) /\ (Nhi!Recurs(c) => Followed(o, c))

Steady(o) == OnceTold /\ Heard(o) /\ Gone(o) /\ (broken["crash"] = 0 => Reviewing(o))

OneWork  == \A p, q \in Nhi!Procs : work[p] # Nhi!Idle /\ work[q] # Nhi!Idle => p = q
NhiAlone == /\ OneWork /\ broken \in [Nhi!Faults -> Nat]
            /\ \A q \in Nhi!Procs : (\A x \in Nhi!Procs \ {q} : work[x] = Nhi!Idle) => Steady(work[q])

LEMMA CampaignShape ==
    \A z \in Nhi!Campaign :
       /\ z.routed \in BOOLEAN /\ z.recurring \in BOOLEAN /\ z.status \in {"ACTIVE", "COMPLETED"} /\ z.parent \in Nat
       /\ z.items \in Ballots
BY DEF Nhi!Campaign, Ballots, Verdicts

LEMMA BallotShape ==
    ASSUME NEW b \in Ballots
    PROVE  /\ DOMAIN b \subseteq Apps \X People /\ b = [i \in DOMAIN b |-> b[i]] /\ \A i \in DOMAIN b : b[i] \in Verdicts
           /\ \A i : \A d \in Verdicts : [b EXCEPT ![i] = d] \in Ballots
<1>1. PICK S \in SUBSET (Apps \X People) : b \in [S -> Verdicts]
    BY DEF Ballots
<1>2. ASSUME NEW i, NEW d \in Verdicts PROVE [b EXCEPT ![i] = d] \in [S -> Verdicts]
    BY <1>1
<1>. QED
    BY <1>1, <1>2 DEF Ballots

\* A campaign with one of its items, its status or its parent written.
LEMMA CampaignWritten ==
    ASSUME NEW z \in Nhi!Campaign
    PROVE  /\ \A i : \A d \in Verdicts : [z EXCEPT !.items = [z.items EXCEPT ![i] = d]] \in Nhi!Campaign
           /\ [z EXCEPT !.status = "COMPLETED"] \in Nhi!Campaign
           /\ \A c \in Nat : [z EXCEPT !.parent = c] \in Nhi!Campaign
<1>1. ASSUME NEW i, NEW d \in Verdicts PROVE [z EXCEPT !.items = [z.items EXCEPT ![i] = d]] \in Nhi!Campaign
  <2>1. PICK b : b = [z.items EXCEPT ![i] = d]
      OBVIOUS
  <2>2. b \in Ballots
      BY <2>1, CampaignShape, BallotShape
  <2>3. [z EXCEPT !.items = b] \in Nhi!Campaign
      BY <2>2 DEF Nhi!Campaign, Ballots, Verdicts
  <2>. QED
      BY <2>1, <2>3
<1>2. [z EXCEPT !.status = "COMPLETED"] \in Nhi!Campaign
    BY DEF Nhi!Campaign
<1>3. ASSUME NEW c \in Nat PROVE [z EXCEPT !.parent = c] \in Nhi!Campaign
    BY DEF Nhi!Campaign
<1>. QED
    BY <1>1, <1>2, <1>3

\* Campaign c becomes z, the others stay.
Becomes(c, z) == /\ DOMAIN campaigns' = DOMAIN campaigns /\ Len(campaigns') = Len(campaigns)
                 /\ campaigns'[c] = z /\ \A x \in DOMAIN campaigns : x # c => campaigns'[x] = campaigns[x]

LEMMA Rewritten ==
    ASSUME CampaignsOK, StillThere, NEW c \in DOMAIN campaigns, NEW z \in Nhi!Campaign, z.parent \in 0..Len(campaigns),
           DOMAIN z.items = DOMAIN campaigns[c].items, campaigns' = [campaigns EXCEPT ![c] = z]
    PROVE  CampaignsOK' /\ Lasts /\ Becomes(c, z)
<1>1. campaigns' \in Seq(Nhi!Campaign) /\ DOMAIN campaigns' = DOMAIN campaigns /\ Len(campaigns') = Len(campaigns)
    BY DEF CampaignsOK
<1>2. campaigns'[c] = z /\ \A x \in DOMAIN campaigns : x # c => campaigns'[x] = campaigns[x]
    BY DEF CampaignsOK
<1>3. Becomes(c, z)
    BY <1>1, <1>2 DEF Becomes
<1>4. CampaignsOK'
    BY <1>1, <1>2 DEF CampaignsOK
<1>5. Lasts
    BY <1>1, <1>2 DEF Lasts, StillThere
<1>. QED
    BY <1>3, <1>4, <1>5

LEMMA CampaignAppended ==
    ASSUME CampaignsOK, StillThere, NEW z \in Nhi!Campaign, z.parent = 0, campaigns' = Append(campaigns, z)
    PROVE  /\ CampaignsOK' /\ Lasts
           /\ Len(campaigns) + 1 \in DOMAIN campaigns' /\ campaigns'[Len(campaigns) + 1] = z /\ Len(campaigns) \in Nat
           /\ \A x \in DOMAIN campaigns : x \in DOMAIN campaigns' /\ campaigns'[x] = campaigns[x] /\ x # Len(campaigns) + 1
           /\ \A x \in DOMAIN campaigns' : x \in DOMAIN campaigns \/ x = Len(campaigns) + 1
<1>1. /\ campaigns' \in Seq(Nhi!Campaign) /\ Len(campaigns') = Len(campaigns) + 1 /\ Len(campaigns) \in Nat
      /\ DOMAIN campaigns' = 1..Len(campaigns) + 1 /\ DOMAIN campaigns = 1..Len(campaigns)
    BY DEF CampaignsOK
<1>2. campaigns'[Len(campaigns) + 1] = z /\ \A x \in DOMAIN campaigns : campaigns'[x] = campaigns[x]
    BY DEF CampaignsOK
<1>3. \A x \in DOMAIN campaigns : x \in DOMAIN campaigns' /\ x # Len(campaigns) + 1
    BY <1>1
<1>4. \A x \in DOMAIN campaigns' : x \in DOMAIN campaigns \/ x = Len(campaigns) + 1
    BY <1>1
<1>5. Len(campaigns) + 1 \in DOMAIN campaigns'
    BY <1>1
<1>6. CampaignsOK'
  <2>1. ASSUME NEW x \in DOMAIN campaigns' PROVE campaigns'[x].parent \in 0..Len(campaigns')
    <3>1. CASE x \in DOMAIN campaigns
        BY <1>1, <1>2, <3>1 DEF CampaignsOK
    <3>2. CASE x = Len(campaigns) + 1
        BY <1>1, <1>2, <3>2
    <3>. QED
        BY <1>4, <3>1, <3>2
  <2>. QED
      BY <1>1, <2>1 DEF CampaignsOK
<1>7. Lasts
    BY <1>2, <1>3 DEF Lasts, StillThere
<1>. QED
    BY <1>1, <1>2, <1>3, <1>4, <1>5, <1>6, <1>7

LEMMA SnapshotShape ==
    ASSUME OwnersOK, NEW routed \in BOOLEAN, NEW recurring \in BOOLEAN, NEW z, z = Nhi!Snapshot(routed, recurring, 0)
    PROVE  /\ z \in Nhi!Campaign /\ z.parent = 0 /\ z.status = "ACTIVE"
           /\ \A i \in DOMAIN z.items : z.items[i] = "PENDING"
<1>1. PICK b : b = [i \in owners |-> "PENDING"]
    OBVIOUS
<1>2. owners \in SUBSET (Apps \X People)
    BY DEF OwnersOK, Nhi!Known
<1>3. b \in Ballots
  <2>1. b \in [owners -> Verdicts]
      BY <1>1 DEF Verdicts
  <2>. QED
      BY <1>2, <2>1 DEF Ballots
<1>4. z = [routed |-> routed, recurring |-> recurring, status |-> "ACTIVE", parent |-> 0, items |-> b]
    BY <1>1 DEF Nhi!Snapshot
<1>. QED
    BY <1>1, <1>3, <1>4 DEF Nhi!Campaign, Ballots, Verdicts

-----------------------------------------------------------------------------
(***************************************************************************)
(* The state of a review carries over.                                     *)
(***************************************************************************)
LEMMA SamePending ==
    ASSUME NEW c \in DOMAIN campaigns, campaigns'[c].items = campaigns[c].items
    PROVE  Nhi!Pending(c)' = Nhi!Pending(c) /\ LeaverItem(c)' = LeaverItem(c)
BY DEF Nhi!Pending, LeaverItem

LEMMA StaysSettled ==
    ASSUME NEW o, NEW h, NEW c \in DOMAIN campaigns, Settled(o, c),
           campaigns'[c].items = campaigns[c].items, campaigns'[c].status = campaigns[c].status,
           o.kind = "count" /\ o.campaign = c => h.kind = "count" /\ h.campaign = c
    PROVE  Settled(h, c)'
BY SamePending DEF Settled

LEMMA StaysFollowed ==
    ASSUME NEW o, NEW h, NEW c \in DOMAIN campaigns, c \in DOMAIN campaigns', campaigns'[c].status = campaigns[c].status,
           Nhi!Children(c)' = Nhi!Children(c), Followed(o, c),
           (o.kind \in {"spawn", "link"} /\ o.campaign = c) <=> (h.kind \in {"spawn", "link"} /\ h.campaign = c)
    PROVE  Followed(h, c)'
<1>1. ASSUME NEW d \in DOMAIN campaigns, Nhi!Children(c) = {d} PROVE d \in DOMAIN campaigns'
  <2>1. d \in Nhi!Children(c)'
      BY <1>1
  <2>. QED
      BY <2>1 DEF Nhi!Children
<1>. QED
    BY <1>1 DEF Followed

\* Where no parent is written the children stay.
LEMMA SameChildren ==
    ASSUME NEW c, DOMAIN campaigns' = DOMAIN campaigns, \A x \in DOMAIN campaigns : campaigns'[x].parent = campaigns[x].parent
    PROVE  Nhi!Children(c)' = Nhi!Children(c)
BY DEF Nhi!Children

LEMMA NothingWritten ==
    ASSUME NEW o, NEW h, campaigns' = campaigns, Reviewing(o),
           o.kind \notin {"count", "spawn", "link"}, h.kind \notin {"count", "spawn", "link"}
    PROVE  \A x \in DOMAIN campaigns' : Settled(h, x)' /\ (Nhi!Recurs(x)' => Followed(h, x)')
<1>1. ASSUME NEW c \in DOMAIN campaigns PROVE Settled(h, c)' /\ (Nhi!Recurs(c)' => Followed(h, c)')
  <2>1. Settled(h, c)'
      BY StaysSettled DEF Reviewing
  <2>2. Nhi!Recurs(c)' = Nhi!Recurs(c) /\ Nhi!Children(c)' = Nhi!Children(c)
      BY SameChildren DEF Nhi!Recurs
  <2>3. Nhi!Recurs(c) => Followed(h, c)'
      BY <2>2, StaysFollowed DEF Reviewing
  <2>. QED
      BY <2>1, <2>2, <2>3
<1>. QED
    BY <1>1

LEMMA ReviewKept ==
    ASSUME NEW o, NEW h, campaigns' = campaigns, Reviewing(o),
           o.kind \notin OfItem \cup {"spawn", "link"}, h.kind \notin OfItem \cup {"spawn", "link"}
    PROVE  Reviewing(h)'
<1>1. \A x \in DOMAIN campaigns' : Settled(h, x)' /\ (Nhi!Recurs(x)' => Followed(h, x)')
    BY NothingWritten DEF OfItem
<1>2. AtWork(h)'
    BY DEF AtWork, OfItem
<1>. QED
    BY <1>1, <1>2 DEF Reviewing

LEMMA ReviewSteady ==
    ASSUME NEW o, NEW h, UNCHANGED <<told, broken>>, h.kind \notin {"look", "tell", "leave"}, Steady(o),
           Reviewing(o) => Reviewing(h)'
    PROVE  Steady(h)'
BY DEF Steady, OnceTold, Heard, Gone, Nhi!Keys, Nhi!Risks

LEMMA LessCrashed == ASSUME OneFault, broken \in [Nhi!Faults -> Nat], broken'["crash"] = 0 PROVE broken["crash"] = 0
BY DEF OneFault, Nhi!Count, Nhi!Faults

\* Handlers of identities do not touch what a review or a look goes by.
LEMMA PlainSteady ==
    ASSUME NEW o, NEW h, Plain(o), Plain(h), UNCHANGED <<told, campaigns>>, OneFault, broken \in [Nhi!Faults -> Nat], Steady(o)
    PROVE  Steady(h)'
<1>1. o.kind \notin OfItem \cup {"spawn", "link"} /\ h.kind \notin OfItem \cup {"spawn", "link", "look", "tell", "leave"}
    BY DEF Plain, OfItem
<1>2. broken'["crash"] = 0 => Reviewing(h)'
    BY <1>1, LessCrashed, ReviewKept DEF Steady
<1>. QED
    BY <1>1, <1>2 DEF Steady, OnceTold, Heard, Gone, Nhi!Keys, Nhi!Risks

-----------------------------------------------------------------------------
(***************************************************************************)
(* The handlers of reviews.                                                *)
(***************************************************************************)
HandlerStep(q) == /\ NhiInv' /\ broken' = broken
                  /\ \E o, h : o = work[q] /\ work' = [work EXCEPT ![q] = h] /\ (Steady(o) => Steady(h)')

LEMMA ReviewGoesOn ==
    ASSUME NhiInv, NEW q \in Nhi!Procs, UNCHANGED <<there, row, told, broken>>, OwnersOK', CampaignsOK', Lasts,
           NEW o, o = work[q], NEW h, work' = [work EXCEPT ![q] = h], Work(h), Relies(h)', Steady(o) => Steady(h)'
    PROVE  HandlerStep(q)
<1>1. WorkOK'
    BY WorkGoesOn DEF NhiInv
<1>2. IdentitiesOK'
    BY DEF NhiInv, DataOK, IdentitiesOK
<1>3. NotesOK'
    BY NotesKept DEF NhiInv, DataOK
<1>. QED
    BY <1>1, <1>2, <1>3 DEF HandlerStep, NhiInv, DataOK

LEMMA FewerOwners == ASSUME NhiInv, UNCHANGED <<there, row>>, owners' \subseteq owners PROVE OwnersOK' /\ StillThere
BY OwnersKept DEF NhiInv, DataOK, StillThere

LEMMA CampaignIs ==
    ASSUME CampaignsOK, NEW c \in DOMAIN campaigns
    PROVE  /\ c \in Nat /\ c # 0 /\ campaigns[c] \in Nhi!Campaign /\ campaigns[c].status \in {"ACTIVE", "COMPLETED"}
           /\ campaigns[c].routed \in BOOLEAN /\ campaigns[c].recurring \in BOOLEAN
           /\ campaigns[c].parent \in 0..Len(campaigns) /\ campaigns[c].parent \in Nat /\ campaigns[c].items \in Ballots
           /\ Nhi!Pending(c) \subseteq DOMAIN campaigns[c].items /\ DOMAIN campaigns[c].items \subseteq Apps \X People
<1>1. c \in Nat /\ c # 0 /\ campaigns[c] \in Nhi!Campaign /\ campaigns[c].parent \in 0..Len(campaigns)
    BY DEF CampaignsOK
<1>2. campaigns[c].items \in Ballots
    BY <1>1, CampaignShape
<1>3. DOMAIN campaigns[c].items \subseteq Apps \X People
    BY <1>2, BallotShape
<1>4. Nhi!Pending(c) \subseteq DOMAIN campaigns[c].items
    BY DEF Nhi!Pending
<1>. QED
    BY <1>1, <1>2, <1>3, <1>4, CampaignShape

\* An item is decided.
LEMMA ItemDecided ==
    ASSUME CampaignsOK, NEW c \in DOMAIN campaigns, NEW i \in DOMAIN campaigns[c].items, NEW d \in Verdicts, NEW z,
           z = [campaigns[c] EXCEPT !.items = [campaigns[c].items EXCEPT ![i] = d]]
    PROVE  /\ z \in Nhi!Campaign /\ z.status = campaigns[c].status /\ z.parent = campaigns[c].parent
           /\ z.routed = campaigns[c].routed /\ z.recurring = campaigns[c].recurring
           /\ DOMAIN z.items = DOMAIN campaigns[c].items /\ z.items[i] = d
           /\ \A x \in DOMAIN z.items : x # i => z.items[x] = campaigns[c].items[x]
           /\ Nhi!Decided(c, i, d) = [campaigns EXCEPT ![c] = z]
<1>1. campaigns[c] \in Nhi!Campaign /\ campaigns[c].items \in Ballots
    BY CampaignIs
<1>2. PICK b, y : b = campaigns[c].items /\ y = [b EXCEPT ![i] = d]
    OBVIOUS
<1>3. DOMAIN y = DOMAIN b /\ y[i] = d /\ \A x \in DOMAIN b : x # i => y[x] = b[x]
    BY <1>1, <1>2, BallotShape
<1>4. z = [campaigns[c] EXCEPT !.items = y]
    BY <1>2
<1>5. z.items = y /\ z.status = campaigns[c].status /\ z.parent = campaigns[c].parent
         /\ z.routed = campaigns[c].routed /\ z.recurring = campaigns[c].recurring
    BY <1>1, <1>4 DEF Nhi!Campaign
<1>6. z \in Nhi!Campaign
    BY <1>1, CampaignWritten
<1>7. Nhi!Decided(c, i, d) = [campaigns EXCEPT ![c] = z]
    BY DEF Nhi!Decided
<1>. QED
    BY <1>2, <1>3, <1>5, <1>6, <1>7

LEMMA ChildrenOfWritten ==
    ASSUME NEW c \in DOMAIN campaigns, NEW z, Becomes(c, z), z.parent = campaigns[c].parent, NEW x
    PROVE  Nhi!Children(x)' = Nhi!Children(x)
<1>1. \A d \in DOMAIN campaigns : campaigns'[d].parent = campaigns[d].parent
    BY DEF Becomes
<1>. QED
    BY <1>1, SameChildren DEF Becomes

\* A campaign is written; what the others are due stays.
LEMMA OthersStand ==
    ASSUME NEW o, NEW h, NEW c \in DOMAIN campaigns, NEW z, Becomes(c, z), z.parent = campaigns[c].parent,
           Reviewing(o), o.kind \in {"count", "spawn", "link"} => o.campaign = c, h.kind \in {"count", "spawn", "link"} => h.campaign = c,
           Settled(h, c)', Nhi!Recurs(c)' => Followed(h, c)'
    PROVE  \A x \in DOMAIN campaigns' : Settled(h, x)' /\ (Nhi!Recurs(x)' => Followed(h, x)')
<1>1. SUFFICES ASSUME NEW x \in DOMAIN campaigns, x # c PROVE Settled(h, x)' /\ (Nhi!Recurs(x)' => Followed(h, x)')
    BY DEF Becomes
<1>2. x \in DOMAIN campaigns' /\ campaigns'[x] = campaigns[x]
    BY <1>1 DEF Becomes
<1>3. Settled(o, x) /\ (Nhi!Recurs(x) => Followed(o, x))
    BY DEF Reviewing
<1>4. Settled(h, x)'
    BY <1>1, <1>2, <1>3, StaysSettled
<1>5. Nhi!Recurs(x)' = Nhi!Recurs(x)
    BY <1>2 DEF Nhi!Recurs
<1>6. Nhi!Children(x)' = Nhi!Children(x)
    BY ChildrenOfWritten
<1>7. Followed(o, x) => Followed(h, x)'
    BY <1>1, <1>2, <1>6, StaysFollowed
<1>. QED
    BY <1>3, <1>4, <1>5, <1>7

\* A campaign is started.
LEMMA StartedStands ==
    ASSUME CampaignsOK, StillThere, NEW o, NEW h, NEW z \in Nhi!Campaign, z.parent = 0, z.status = "ACTIVE",
           \A i \in DOMAIN z.items : z.items[i] = "PENDING", campaigns' = Append(campaigns, z), Reviewing(o),
           o.kind # "count", h.kind # "count", h.kind \in {"spawn", "link"} => h.campaign \in DOMAIN campaigns,
           \A x \in DOMAIN campaigns : (o.kind \in {"spawn", "link"} /\ o.campaign = x) <=> (h.kind \in {"spawn", "link"} /\ h.campaign = x)
    PROVE  \A x \in DOMAIN campaigns' : Settled(h, x)' /\ (Nhi!Recurs(x)' => Followed(h, x)')
<1>1. PICK new : new = Len(campaigns) + 1
    OBVIOUS
<1>2. /\ new \in DOMAIN campaigns' /\ campaigns'[new] = z /\ \A x \in DOMAIN campaigns' : x \in DOMAIN campaigns \/ x = new
      /\ \A x \in DOMAIN campaigns : x \in DOMAIN campaigns' /\ campaigns'[x] = campaigns[x] /\ x # new
    BY <1>1, CampaignAppended
<1>3. ASSUME NEW x \in DOMAIN campaigns PROVE Settled(h, x)' /\ (Nhi!Recurs(x)' => Followed(h, x)')
  <2>1. campaigns'[x] = campaigns[x] /\ x # 0
      BY <1>2, CampaignIs
  <2>2. Settled(o, x) /\ (Nhi!Recurs(x) => Followed(o, x))
      BY DEF Reviewing
  <2>3. Settled(h, x)'
      BY <2>1, <2>2, StaysSettled
  <2>4. Nhi!Recurs(x)' = Nhi!Recurs(x)
      BY <2>1 DEF Nhi!Recurs
  <2>5. Nhi!Children(x)' = Nhi!Children(x)
    <3>1. ASSUME NEW d PROVE (d \in DOMAIN campaigns' /\ campaigns'[d].parent = x) <=> (d \in DOMAIN campaigns /\ campaigns[d].parent = x)
        BY <1>2, <2>1
    <3>. QED
        BY <3>1 DEF Nhi!Children
  <2>6. Followed(o, x) => Followed(h, x)'
    <3>1. (o.kind \in {"spawn", "link"} /\ o.campaign = x) <=> (h.kind \in {"spawn", "link"} /\ h.campaign = x)
        OBVIOUS
    <3>. QED
        BY <2>1, <2>5, <3>1, StaysFollowed
  <2>. QED
      BY <2>2, <2>3, <2>4, <2>6
<1>4. Settled(h, new)'
    BY <1>2 DEF Settled, Nhi!Pending
<1>5. Followed(h, new)'
  <2>1. ASSUME NEW d \in DOMAIN campaigns' PROVE campaigns'[d].parent # new
    <3>1. CASE d \in DOMAIN campaigns
      <4>1. campaigns[d].parent \in 0..Len(campaigns) /\ Len(campaigns) \in Nat
          BY <3>1, CampaignIs DEF CampaignsOK
      <4>. QED
          BY <1>1, <1>2, <3>1, <4>1
    <3>2. CASE d = new
        BY <1>1, <1>2, <3>2, CampaignAppended
    <3>. QED
        BY <1>2, <3>1, <3>2
  <2>2. Nhi!Children(new)' = {}
      BY <2>1 DEF Nhi!Children
  <2>. QED
      BY <1>2, <2>2 DEF Followed
<1>. QED
    BY <1>2, <1>3, <1>4, <1>5

LEMMA CreateStep ==
    ASSUME NhiInv, Nhi!CreateCampaign
    PROVE  NhiInv' /\ UNCHANGED <<told, broken, work>> /\ (Steady(Nhi!Idle) => Steady(Nhi!Idle)')
<1>1. PICK routed \in BOOLEAN, recurring \in BOOLEAN :
        /\ campaigns' = Append(campaigns, Nhi!Snapshot(routed, recurring, 0)) /\ UNCHANGED <<there, row, owners, told, broken, work>>
    BY DEF Nhi!CreateCampaign, Nhi!identities, Nhi!risks
<1>2. PICK z : z = Nhi!Snapshot(routed, recurring, 0)
    OBVIOUS
<1>3. z \in Nhi!Campaign /\ z.parent = 0 /\ z.status = "ACTIVE" /\ \A i \in DOMAIN z.items : z.items[i] = "PENDING"
    BY <1>2, SnapshotShape DEF NhiInv, DataOK
<1>4. IdentitiesOK' /\ OwnersOK' /\ StillThere /\ NotesOK'
    BY <1>1, Untouched, NotesKept DEF NhiInv, DataOK
<1>5. CampaignsOK' /\ Lasts
    BY <1>1, <1>2, <1>3, <1>4, CampaignAppended DEF NhiInv, DataOK
<1>6. WorkOK'
    BY <1>1, <1>5, WorkStands DEF NhiInv
<1>7. Nhi!Idle.kind = "idle"
    BY DEF Nhi!Idle
<1>8. ASSUME Reviewing(Nhi!Idle) PROVE Reviewing(Nhi!Idle)'
  <2>1. PICK o : o = Nhi!Idle
      OBVIOUS
  <2>2. \A x \in DOMAIN campaigns' : Settled(o, x)' /\ (Nhi!Recurs(x)' => Followed(o, x)')
      BY <1>1, <1>2, <1>3, <1>4, <1>7, <1>8, <2>1, StartedStands DEF NhiInv, DataOK
  <2>3. AtWork(o)'
      BY <1>7, <2>1 DEF AtWork, OfItem
  <2>. QED
      BY <2>1, <2>2, <2>3 DEF Reviewing, Settled, Followed, AtWork
<1>9. Steady(Nhi!Idle) => Steady(Nhi!Idle)'
  <2>1. PICK o : o = Nhi!Idle
      OBVIOUS
  <2>2. Reviewing(o) => Reviewing(o)'
      BY <1>8, <2>1 DEF Reviewing, Settled, Followed, AtWork
  <2>3. Steady(o) => Steady(o)'
      BY <1>1, <1>7, <2>1, <2>2, ReviewSteady
  <2>. QED
      BY <2>1, <2>3 DEF Steady, Heard, Gone, Reviewing, Settled, Followed, AtWork
<1>. QED
    BY <1>1, <1>4, <1>5, <1>6, <1>9 DEF NhiInv, DataOK

\* A decision is begun, by hand or by the outcome of a workflow.
LEMMA DecideStep == ASSUME NhiInv, NEW q \in Nhi!Procs, Nhi!Decide(q) PROVE HandlerStep(q)
<1>0. PICK c \in DOMAIN campaigns : \E i \in Nhi!Pending(c), d \in {"CONFIRMED", "OWNER_REMOVED"} :
        Nhi!Start(q, [kind |-> IF d = "CONFIRMED" THEN "decide" ELSE "remove", campaign |-> c, item |-> i, verdict |-> d,
                      active |-> campaigns[c].status = "ACTIVE"])
    BY DEF Nhi!Decide
<1>1. PICK i \in Nhi!Pending(c), d \in {"CONFIRMED", "OWNER_REMOVED"} :
        Nhi!Start(q, [kind |-> IF d = "CONFIRMED" THEN "decide" ELSE "remove", campaign |-> c, item |-> i, verdict |-> d,
                      active |-> campaigns[c].status = "ACTIVE"])
    BY <1>0
<1>2. UNCHANGED <<there, row, owners, told, campaigns, broken>>
    BY DEF Nhi!Decide, Nhi!identities, Nhi!risks
<1>3. PICK b \in BOOLEAN : b = (campaigns[c].status = "ACTIVE")
    OBVIOUS
<1>4. PICK k \in {"decide", "remove"} : k = IF d = "CONFIRMED" THEN "decide" ELSE "remove"
    OBVIOUS
<1>5. PICK h : h = [kind |-> k, campaign |-> c, item |-> i, verdict |-> d, active |-> b]
    OBVIOUS
<1>6. work[q] = Nhi!Idle /\ work' = [work EXCEPT ![q] = h]
    BY <1>1, <1>3, <1>4, <1>5 DEF Nhi!Start, Nhi!MayStart
<1>7. c \in Nat /\ i \in DOMAIN campaigns[c].items /\ i \in Apps \X People
    BY CampaignIs DEF NhiInv, DataOK
<1>8. h \in DecideWork /\ h.campaign = c /\ h.item = i /\ h.kind = k /\ h.active = b
    BY <1>5, <1>7 DEF DecideWork
<1>9. Work(h) /\ Relies(h)'
    BY <1>2, <1>7, <1>8 DEF Work, Relies, OfItem
<1>10. ASSUME Reviewing(Nhi!Idle) PROVE Reviewing(h)'
  <2>1. PICK o : o = Nhi!Idle
      OBVIOUS
  <2>2. o.kind = "idle" /\ Reviewing(o)
      BY <1>10, <2>1 DEF Reviewing, Settled, Followed, AtWork, Nhi!Idle
  <2>3. campaigns[c].status = "ACTIVE"
    <3>1. Nhi!Pending(c) # {} /\ campaigns[c].status \in {"ACTIVE", "COMPLETED"}
        BY CampaignIs DEF NhiInv, DataOK
    <3>. QED
        BY <2>2, <3>1 DEF Reviewing, Settled
  <2>4. AtWork(h)'
      BY <1>2, <1>3, <1>8, <2>3 DEF AtWork, OfItem
  <2>5. \A x \in DOMAIN campaigns' : Settled(h, x)' /\ (Nhi!Recurs(x)' => Followed(h, x)')
      BY <1>2, <1>4, <1>8, <2>2, NothingWritten
  <2>. QED
      BY <1>2, <2>4, <2>5 DEF Reviewing
<1>11. PICK o : o = work[q]
    OBVIOUS
<1>12. Steady(o) => Steady(h)'
  <2>1. Reviewing(o) => Reviewing(h)'
      BY <1>6, <1>10, <1>11
  <2>. QED
      BY <1>2, <1>8, <2>1, ReviewSteady
<1>13. OwnersOK' /\ CampaignsOK' /\ Lasts
    BY <1>2, FewerOwners, CampaignsKept, LastsOf DEF NhiInv, DataOK
<1>. QED
    BY <1>2, <1>6, <1>9, <1>11, <1>12, <1>13, ReviewGoesOn

LEMMA JudgeStep == ASSUME NhiInv, NEW q \in Nhi!Procs, Nhi!Judge(q) PROVE HandlerStep(q)
<1>0. PICK c \in DOMAIN campaigns : \E i \in Nhi!Pending(c), d \in {"CONFIRMED", "OWNER_REMOVED"} :
        /\ campaigns[c].routed
        /\ Nhi!Start(q, [kind |-> "judge", campaign |-> c, item |-> i, verdict |-> d,
                         active |-> campaigns[c].status = "ACTIVE", last |-> Nhi!Pending(c) = {i}])
    BY DEF Nhi!Judge
<1>1. PICK i \in Nhi!Pending(c), d \in {"CONFIRMED", "OWNER_REMOVED"} :
        /\ campaigns[c].routed
        /\ Nhi!Start(q, [kind |-> "judge", campaign |-> c, item |-> i, verdict |-> d,
                         active |-> campaigns[c].status = "ACTIVE", last |-> Nhi!Pending(c) = {i}])
    BY <1>0
<1>2. UNCHANGED <<there, row, owners, told, campaigns, broken>>
    BY DEF Nhi!Judge, Nhi!identities, Nhi!risks
<1>3. PICK b \in BOOLEAN, l \in BOOLEAN : b = (campaigns[c].status = "ACTIVE") /\ l = (Nhi!Pending(c) = {i})
    OBVIOUS
<1>4. PICK h : h = [kind |-> "judge", campaign |-> c, item |-> i, verdict |-> d, active |-> b, last |-> l]
    OBVIOUS
<1>5. work[q] = Nhi!Idle /\ work' = [work EXCEPT ![q] = h]
    BY <1>1, <1>3, <1>4 DEF Nhi!Start, Nhi!MayStart
<1>6. c \in Nat /\ i \in DOMAIN campaigns[c].items /\ i \in Apps \X People
    BY CampaignIs DEF NhiInv, DataOK
<1>7. h \in JudgeWork /\ h.campaign = c /\ h.item = i /\ h.kind = "judge" /\ h.active = b /\ h.last = l
    BY <1>4, <1>6 DEF JudgeWork
<1>8. Work(h) /\ Relies(h)'
    BY <1>2, <1>6, <1>7 DEF Work, Relies, OfItem
<1>9. ASSUME Reviewing(Nhi!Idle) PROVE Reviewing(h)'
  <2>1. PICK o : o = Nhi!Idle
      OBVIOUS
  <2>2. o.kind = "idle" /\ Reviewing(o)
      BY <1>9, <2>1 DEF Reviewing, Settled, Followed, AtWork, Nhi!Idle
  <2>3. campaigns[c].status = "ACTIVE"
    <3>1. Nhi!Pending(c) # {} /\ campaigns[c].status \in {"ACTIVE", "COMPLETED"}
        BY CampaignIs DEF NhiInv, DataOK
    <3>. QED
        BY <2>2, <3>1 DEF Reviewing, Settled
  <2>4. AtWork(h)'
    <3>1. Nhi!Pending(c)' = Nhi!Pending(c)
        BY <1>2, SamePending
    <3>. QED
        BY <1>1, <1>2, <1>3, <1>7, <2>3, <3>1 DEF AtWork, OfItem
  <2>5. \A x \in DOMAIN campaigns' : Settled(h, x)' /\ (Nhi!Recurs(x)' => Followed(h, x)')
      BY <1>2, <1>7, <2>2, NothingWritten
  <2>. QED
      BY <1>2, <2>4, <2>5 DEF Reviewing
<1>10. PICK o : o = work[q]
    OBVIOUS
<1>11. Steady(o) => Steady(h)'
  <2>1. Reviewing(o) => Reviewing(h)'
      BY <1>5, <1>9, <1>10
  <2>. QED
      BY <1>2, <1>7, <2>1, ReviewSteady
<1>12. OwnersOK' /\ CampaignsOK' /\ Lasts
    BY <1>2, FewerOwners, CampaignsKept, LastsOf DEF NhiInv, DataOK
<1>. QED
    BY <1>2, <1>5, <1>8, <1>10, <1>11, <1>12, ReviewGoesOn

\* What the handler of an item carries.
LEMMA ItemWork ==
    ASSUME NhiInv, NEW q \in Nhi!Procs, NEW o, o = work[q], o.kind \in OfItem
    PROVE  /\ o \in DecideWork \/ o \in JudgeWork
           /\ o.campaign \in DOMAIN campaigns /\ o.item \in DOMAIN campaigns[o.campaign].items /\ o.item \in Apps \X People
           /\ o.campaign \in Nat /\ o.verdict \in Verdicts /\ o.verdict \notin {"PENDING", "OWNER_REMOVED_LEAVER"} /\ o.active \in BOOLEAN
<1>1. Work(o) /\ Relies(o)
    BY DEF NhiInv, WorkOK
<1>2. o \in DecideWork \/ o \in JudgeWork
    BY <1>1, WorkShape DEF OfItem
<1>3. o.campaign \in Nat /\ o.item \in Apps \X People /\ o.verdict \in {"CONFIRMED", "OWNER_REMOVED"} /\ o.active \in BOOLEAN
    BY <1>2 DEF DecideWork, JudgeWork
<1>. QED
    BY <1>1, <1>2, <1>3 DEF Relies, Verdicts

LEMMA NextKind ==
    ASSUME NEW o, o \in DecideWork \/ o \in JudgeWork, NEW h, NEW k \in {"decide", "count"}, h = [o EXCEPT !.kind = k],
           k = "decide" => o \in DecideWork
    PROVE  /\ Work(h) /\ h.kind = k /\ h.campaign = o.campaign /\ h.item = o.item /\ h.active = o.active
           /\ h \in DecideWork \/ h \in JudgeWork
<1>1. CASE o \in DecideWork
  <2>1. h \in DecideWork /\ h.kind = k /\ h.campaign = o.campaign /\ h.item = o.item /\ h.active = o.active
      BY <1>1 DEF DecideWork
  <2>. QED
      BY <2>1 DEF Work
<1>2. CASE o \in JudgeWork /\ k = "count"
  <2>1. h \in JudgeWork /\ h.kind = k /\ h.campaign = o.campaign /\ h.item = o.item /\ h.active = o.active
      BY <1>2 DEF JudgeWork
  <2>. QED
      BY <2>1 DEF Work
<1>. QED
    BY <1>1, <1>2

LEMMA DecideRemoveStep == ASSUME NhiInv, NEW q \in Nhi!Procs, Nhi!DecideRemove(q) PROVE HandlerStep(q)
<1>1. PICK o, h : o = work[q] /\ h = [o EXCEPT !.kind = "decide"]
    OBVIOUS
<1>2. /\ o.kind = "remove" /\ work' = [work EXCEPT ![q] = h] /\ owners' \subseteq owners
      /\ UNCHANGED <<there, row, told, campaigns, broken>>
    BY <1>1 DEF Nhi!DecideRemove, Nhi!Goes, Nhi!identities, Nhi!risks
<1>3. o.kind \in OfItem
    BY <1>2 DEF OfItem
<1>4. o.campaign \in DOMAIN campaigns /\ o.item \in DOMAIN campaigns[o.campaign].items
    BY <1>1, <1>3, ItemWork
<1>5. o \in DecideWork
  <2>1. o \in DecideWork \/ o \in JudgeWork
      BY <1>1, <1>3, ItemWork
  <2>. QED
      BY <1>2, <2>1 DEF JudgeWork
<1>6. Work(h) /\ h.kind = "decide" /\ h.campaign = o.campaign /\ h.item = o.item /\ h.active = o.active
    BY <1>1, <1>5, NextKind
<1>7. Relies(h)'
    BY <1>2, <1>4, <1>6 DEF Relies, OfItem
<1>8. ASSUME Reviewing(o) PROVE Reviewing(h)'
  <2>1. AtWork(h)'
      BY <1>2, <1>6, <1>8 DEF Reviewing, AtWork, OfItem
  <2>2. \A x \in DOMAIN campaigns' : Settled(h, x)' /\ (Nhi!Recurs(x)' => Followed(h, x)')
      BY <1>2, <1>6, <1>8, NothingWritten
  <2>. QED
      BY <1>2, <2>1, <2>2 DEF Reviewing
<1>9. Steady(o) => Steady(h)'
    BY <1>2, <1>6, <1>8, ReviewSteady
<1>10. OwnersOK' /\ CampaignsOK' /\ Lasts
    BY <1>2, FewerOwners, CampaignsKept, LastsOf DEF NhiInv, DataOK
<1>. QED
    BY <1>1, <1>2, <1>6, <1>7, <1>9, <1>10, ReviewGoesOn

LEMMA DecideSaveStep == ASSUME NhiInv, NEW q \in Nhi!Procs, Nhi!DecideSave(q) PROVE HandlerStep(q)
<1>1. PICK o, h : o = work[q] /\ h = [o EXCEPT !.kind = "count"]
    OBVIOUS
<1>2. PICK c, i, d : c = o.campaign /\ i = o.item /\ d = o.verdict
    OBVIOUS
<1>3. /\ o.kind = "decide" /\ work' = [work EXCEPT ![q] = h] /\ campaigns' = Nhi!Decided(c, i, d)
      /\ UNCHANGED <<there, row, owners, told, broken>>
    BY <1>1, <1>2 DEF Nhi!DecideSave, Nhi!Goes, Nhi!identities, Nhi!risks
<1>4. o.kind \in OfItem
    BY <1>3 DEF OfItem
<1>5. /\ c \in DOMAIN campaigns /\ i \in DOMAIN campaigns[c].items /\ d \in Verdicts /\ d # "PENDING"
      /\ o \in DecideWork \/ o \in JudgeWork
    BY <1>1, <1>2, <1>4, ItemWork
<1>6. Work(h) /\ h.kind = "count" /\ h.campaign = c /\ h.item = i /\ h.active = o.active
    BY <1>1, <1>2, <1>5, NextKind
<1>7. PICK z : z = [campaigns[c] EXCEPT !.items = [campaigns[c].items EXCEPT ![i] = d]]
    OBVIOUS
<1>8. /\ z \in Nhi!Campaign /\ z.status = campaigns[c].status /\ z.parent = campaigns[c].parent
      /\ z.routed = campaigns[c].routed /\ z.recurring = campaigns[c].recurring
      /\ DOMAIN z.items = DOMAIN campaigns[c].items /\ campaigns' = [campaigns EXCEPT ![c] = z]
    BY <1>3, <1>5, <1>7, ItemDecided DEF NhiInv, DataOK
<1>9. OwnersOK' /\ StillThere
    BY <1>3, FewerOwners
<1>10. CampaignsOK' /\ Lasts /\ Becomes(c, z)
    BY <1>5, <1>8, <1>9, CampaignIs, Rewritten DEF NhiInv, DataOK
<1>11. Relies(h)'
    BY <1>5, <1>6, <1>8, <1>10 DEF Relies, OfItem, Becomes
<1>12. ASSUME Reviewing(o) PROVE Reviewing(h)'
  <2>1. o.active = TRUE /\ campaigns[c].status = "ACTIVE"
      BY <1>2, <1>4, <1>12 DEF Reviewing, AtWork
  <2>2. campaigns'[c] = z /\ c \in DOMAIN campaigns'
      BY <1>5, <1>10 DEF Becomes
  <2>3. AtWork(h)'
      BY <1>6, <1>8, <2>1, <2>2 DEF AtWork
  <2>4. Settled(h, c)'
      BY <1>6, <1>8, <2>1, <2>2 DEF Settled
  <2>5. Nhi!Recurs(c)' = Nhi!Recurs(c)
      BY <1>8, <2>2 DEF Nhi!Recurs
  <2>6. Nhi!Children(c)' = Nhi!Children(c)
      BY <1>5, <1>8, <1>10, ChildrenOfWritten
  <2>7. Nhi!Recurs(c)' => Followed(h, c)'
    <3>1. Nhi!Recurs(c) => Followed(o, c)
        BY <1>5, <1>12 DEF Reviewing
    <3>2. Followed(o, c) => Followed(h, c)'
        BY <1>3, <1>5, <1>6, <1>8, <2>2, <2>6, StaysFollowed
    <3>. QED
        BY <2>5, <3>1, <3>2
  <2>8. \A x \in DOMAIN campaigns' : Settled(h, x)' /\ (Nhi!Recurs(x)' => Followed(h, x)')
      BY <1>3, <1>5, <1>6, <1>8, <1>10, <1>12, <2>4, <2>7, OthersStand
  <2>. QED
      BY <2>3, <2>8 DEF Reviewing
<1>13. Steady(o) => Steady(h)'
    BY <1>3, <1>6, <1>12, ReviewSteady
<1>. QED
    BY <1>1, <1>3, <1>6, <1>9, <1>10, <1>11, <1>13, ReviewGoesOn

LEMMA CloseStep == ASSUME NhiInv, NEW q \in Nhi!Procs, Nhi!CloseIfDone(q) PROVE HandlerStep(q)
<1>1. PICK o, c : o = work[q] /\ c = o.campaign
    OBVIOUS
<1>2. /\ o.kind = "count" /\ UNCHANGED <<there, row, owners, told, broken>>
      /\ \/ /\ Nhi!AllDecided(c, o.active) /\ campaigns' = [campaigns EXCEPT ![c].status = "COMPLETED"]
            /\ work' = [work EXCEPT ![q] = [kind |-> "spawn", campaign |-> c]]
         \/ ~Nhi!AllDecided(c, o.active) /\ campaigns' = campaigns /\ work' = [work EXCEPT ![q] = Nhi!Idle]
    BY <1>1 DEF Nhi!CloseIfDone, Nhi!Goes, Nhi!Ends, Nhi!identities, Nhi!risks
<1>3. o.kind \in OfItem
    BY <1>2 DEF OfItem
<1>4. c \in DOMAIN campaigns /\ c \in Nat
    BY <1>1, <1>3, ItemWork
<1>5. OwnersOK' /\ StillThere
    BY <1>2, FewerOwners
<1>6. CASE campaigns' = [campaigns EXCEPT ![c].status = "COMPLETED"] /\ Nhi!AllDecided(c, o.active)
                         /\ work' = [work EXCEPT ![q] = [kind |-> "spawn", campaign |-> c]]
  <2>1. PICK z, h : z = [campaigns[c] EXCEPT !.status = "COMPLETED"] /\ h = [kind |-> "spawn", campaign |-> c]
      OBVIOUS
  <2>2. campaigns[c] \in Nhi!Campaign /\ campaigns[c].parent \in 0..Len(campaigns)
      BY <1>4, CampaignIs DEF NhiInv, DataOK
  <2>3. /\ z.status = "COMPLETED" /\ z.parent = campaigns[c].parent /\ z.items = campaigns[c].items
        /\ z.routed = campaigns[c].routed /\ z.recurring = campaigns[c].recurring
      BY <2>1, <2>2 DEF Nhi!Campaign
  <2>4. z \in Nhi!Campaign
      BY <2>1, <2>2, CampaignWritten
  <2>5. campaigns' = [campaigns EXCEPT ![c] = z]
      BY <1>6, <2>1
  <2>6. CampaignsOK' /\ Lasts /\ Becomes(c, z)
      BY <1>4, <1>5, <2>2, <2>3, <2>4, <2>5, Rewritten DEF NhiInv, DataOK
  <2>7. h \in SpawnWork /\ h.kind = "spawn" /\ h.campaign = c
      BY <1>4, <2>1 DEF SpawnWork
  <2>8. Work(h) /\ Relies(h)'
      BY <1>4, <2>6, <2>7 DEF Work, Relies, OfItem, Becomes
  <2>9. ASSUME Reviewing(o) PROVE Reviewing(h)'
    <3>1. campaigns[c].status = "ACTIVE" /\ Nhi!Pending(c) = {}
        BY <1>1, <1>3, <1>6, <2>9 DEF Reviewing, AtWork, Nhi!AllDecided
    <3>2. campaigns'[c] = z /\ c \in DOMAIN campaigns'
        BY <1>4, <2>6 DEF Becomes
    <3>3. AtWork(h)'
        BY <2>3, <2>7, <3>2 DEF AtWork, OfItem
    <3>4. Nhi!Pending(c)' = {}
        BY <1>4, <2>3, <3>1, <3>2, SamePending
    <3>5. Settled(h, c)'
        BY <2>3, <3>2, <3>4 DEF Settled
    <3>6. Nhi!Recurs(c)' = Nhi!Recurs(c)
        BY <2>3, <3>2 DEF Nhi!Recurs
    <3>7. Nhi!Children(c)' = Nhi!Children(c)
        BY <1>4, <2>3, <2>6, ChildrenOfWritten
    <3>8. Nhi!Recurs(c)' => Followed(h, c)'
        BY <1>4, <2>3, <2>7, <2>9, <3>1, <3>2, <3>6, <3>7 DEF Reviewing, Followed
    <3>9. \A x \in DOMAIN campaigns' : Settled(h, x)' /\ (Nhi!Recurs(x)' => Followed(h, x)')
        BY <1>1, <1>4, <2>3, <2>6, <2>7, <2>9, <3>5, <3>8, OthersStand
    <3>. QED
        BY <3>3, <3>9 DEF Reviewing
  <2>10. Steady(o) => Steady(h)'
      BY <1>2, <2>7, <2>9, ReviewSteady
  <2>. QED
      BY <1>1, <1>2, <1>5, <1>6, <2>1, <2>6, <2>8, <2>10, ReviewGoesOn
<1>7. CASE campaigns' = campaigns /\ work' = [work EXCEPT ![q] = Nhi!Idle] /\ ~Nhi!AllDecided(c, o.active)
  <2>1. PICK h : h = Nhi!Idle
      OBVIOUS
  <2>2. h.kind = "idle"
      BY <2>1 DEF Nhi!Idle
  <2>3. Work(h) /\ Relies(h)'
      BY <2>1, <2>2 DEF Work, Relies, OfItem
  <2>4. ASSUME Reviewing(o) PROVE Reviewing(h)'
    <3>1. Nhi!Pending(c) # {}
        BY <1>1, <1>3, <1>7, <2>4 DEF Reviewing, AtWork, Nhi!AllDecided
    <3>2. AtWork(h)'
        BY <2>2 DEF AtWork, OfItem
    <3>3. ASSUME NEW x \in DOMAIN campaigns PROVE Settled(h, x)' /\ (Nhi!Recurs(x)' => Followed(h, x)')
      <4>1. Settled(o, x) /\ (Nhi!Recurs(x) => Followed(o, x))
          BY <2>4 DEF Reviewing
      <4>2. Nhi!Pending(x)' = Nhi!Pending(x) /\ LeaverItem(x)' = LeaverItem(x)
          BY <1>7, SamePending
      <4>3. Settled(h, x)'
        <5>1. CASE x = c
            BY <1>7, <3>1, <4>1, <4>2, <5>1 DEF Settled
        <5>2. CASE x # c
            BY <1>1, <1>7, <4>1, <5>2, StaysSettled
        <5>. QED
            BY <5>1, <5>2
      <4>4. Nhi!Recurs(x)' = Nhi!Recurs(x) /\ Nhi!Children(x)' = Nhi!Children(x)
          BY <1>7, SameChildren DEF Nhi!Recurs
      <4>5. Followed(o, x) => Followed(h, x)'
          BY <1>2, <1>7, <2>2, <4>4, StaysFollowed
      <4>. QED
          BY <4>1, <4>3, <4>4, <4>5
    <3>. QED
        BY <1>7, <3>2, <3>3 DEF Reviewing
  <2>5. Steady(o) => Steady(h)'
      BY <1>2, <2>2, <2>4, ReviewSteady
  <2>6. CampaignsOK' /\ Lasts
      BY <1>5, <1>7, CampaignsKept, LastsOf DEF NhiInv, DataOK, StillThere
  <2>. QED
      BY <1>1, <1>2, <1>5, <1>7, <2>1, <2>3, <2>5, <2>6, ReviewGoesOn
<1>. QED
    BY <1>2, <1>6, <1>7

LEMMA SpawnStep == ASSUME NhiInv, NEW q \in Nhi!Procs, Nhi!Spawn(q) PROVE HandlerStep(q)
<1>1. PICK o, c : o = work[q] /\ c = o.campaign
    OBVIOUS
<1>2. /\ o.kind = "spawn" /\ UNCHANGED <<there, row, owners, told, broken>>
      /\ \/ /\ campaigns' = Append(campaigns, Nhi!Snapshot(FALSE, TRUE, 0))
            /\ work' = [work EXCEPT ![q] = [kind |-> "link", campaign |-> c, child |-> Len(campaigns) + 1]]
         \/ ~Nhi!Recurs(c) /\ campaigns' = campaigns /\ work' = [work EXCEPT ![q] = Nhi!Idle]
    BY <1>1 DEF Nhi!Spawn, Nhi!Goes, Nhi!Ends, Nhi!identities, Nhi!risks
<1>3. c \in DOMAIN campaigns /\ c \in Nat
  <2>1. Work(o) /\ Relies(o)
      BY <1>1 DEF NhiInv, WorkOK
  <2>. QED
      BY <1>1, <1>2, <2>1, WorkShape DEF Relies, SpawnWork
<1>4. OwnersOK' /\ StillThere
    BY <1>2, FewerOwners
<1>5. CASE /\ campaigns' = Append(campaigns, Nhi!Snapshot(FALSE, TRUE, 0))
           /\ work' = [work EXCEPT ![q] = [kind |-> "link", campaign |-> c, child |-> Len(campaigns) + 1]]
  <2>1. PICK z, h : z = Nhi!Snapshot(FALSE, TRUE, 0) /\ h = [kind |-> "link", campaign |-> c, child |-> Len(campaigns) + 1]
      OBVIOUS
  <2>2. z \in Nhi!Campaign /\ z.parent = 0 /\ z.status = "ACTIVE" /\ \A i \in DOMAIN z.items : z.items[i] = "PENDING"
      BY <2>1, SnapshotShape DEF NhiInv, DataOK
  <2>3. campaigns' = Append(campaigns, z)
      BY <1>5, <2>1
  <2>4. /\ CampaignsOK' /\ Lasts /\ Len(campaigns) \in Nat
        /\ Len(campaigns) + 1 \in DOMAIN campaigns' /\ campaigns'[Len(campaigns) + 1] = z
        /\ c \in DOMAIN campaigns' /\ campaigns'[c] = campaigns[c]
      BY <1>3, <1>4, <2>2, <2>3, CampaignAppended DEF NhiInv, DataOK
  <2>5. h \in LinkWork /\ h.kind = "link" /\ h.campaign = c /\ h.child = Len(campaigns) + 1
      BY <1>3, <2>1, <2>4 DEF LinkWork
  <2>6. Work(h) /\ Relies(h)'
      BY <2>4, <2>5 DEF Work, Relies, OfItem
  <2>7. ASSUME Reviewing(o) PROVE Reviewing(h)'
    <3>1. campaigns[c].status = "COMPLETED"
        BY <1>1, <1>2, <2>7 DEF Reviewing, AtWork
    <3>2. AtWork(h)'
        BY <2>2, <2>4, <2>5, <3>1 DEF AtWork, OfItem
    <3>3. \A x \in DOMAIN campaigns : (o.kind \in {"spawn", "link"} /\ o.campaign = x) <=> (h.kind \in {"spawn", "link"} /\ h.campaign = x)
        BY <1>1, <1>2, <2>5
    <3>4. \A x \in DOMAIN campaigns' : Settled(h, x)' /\ (Nhi!Recurs(x)' => Followed(h, x)')
        BY <1>2, <1>3, <1>4, <2>2, <2>3, <2>5, <2>7, <3>3, StartedStands DEF NhiInv, DataOK
    <3>. QED
        BY <3>2, <3>4 DEF Reviewing
  <2>8. Steady(o) => Steady(h)'
      BY <1>2, <2>5, <2>7, ReviewSteady
  <2>. QED
      BY <1>1, <1>2, <1>4, <1>5, <2>1, <2>4, <2>6, <2>8, ReviewGoesOn
<1>6. CASE ~Nhi!Recurs(c) /\ campaigns' = campaigns /\ work' = [work EXCEPT ![q] = Nhi!Idle]
  <2>1. PICK h : h = Nhi!Idle
      OBVIOUS
  <2>2. h.kind = "idle"
      BY <2>1 DEF Nhi!Idle
  <2>3. Work(h) /\ Relies(h)'
      BY <2>1, <2>2 DEF Work, Relies, OfItem
  <2>4. ASSUME Reviewing(o) PROVE Reviewing(h)'
    <3>1. AtWork(h)'
        BY <2>2 DEF AtWork, OfItem
    <3>2. ASSUME NEW x \in DOMAIN campaigns PROVE Settled(h, x)' /\ (Nhi!Recurs(x)' => Followed(h, x)')
      <4>1. Settled(o, x) /\ (Nhi!Recurs(x) => Followed(o, x))
          BY <2>4 DEF Reviewing
      <4>2. Settled(h, x)'
          BY <1>2, <1>6, <4>1, StaysSettled
      <4>3. Nhi!Recurs(x)' = Nhi!Recurs(x) /\ Nhi!Children(x)' = Nhi!Children(x)
          BY <1>6, SameChildren DEF Nhi!Recurs
      <4>4. x # c /\ Followed(o, x) => Followed(h, x)'
          BY <1>1, <1>6, <2>2, <4>3, StaysFollowed
      <4>. QED
          BY <1>6, <4>1, <4>2, <4>3, <4>4
    <3>. QED
        BY <1>6, <3>1, <3>2 DEF Reviewing
  <2>5. Steady(o) => Steady(h)'
      BY <1>2, <2>2, <2>4, ReviewSteady
  <2>6. CampaignsOK' /\ Lasts
      BY <1>4, <1>6, CampaignsKept, LastsOf DEF NhiInv, DataOK, StillThere
  <2>. QED
      BY <1>1, <1>2, <1>4, <1>6, <2>1, <2>3, <2>5, <2>6, ReviewGoesOn
<1>. QED
    BY <1>2, <1>5, <1>6

LEMMA LinkStep == ASSUME NhiInv, NEW q \in Nhi!Procs, Nhi!Link(q) PROVE HandlerStep(q)
<1>1. PICK o, c, e, h : o = work[q] /\ c = o.campaign /\ e = o.child /\ h = Nhi!Idle
    OBVIOUS
<1>2. /\ o.kind = "link" /\ UNCHANGED <<there, row, owners, told, broken>>
      /\ campaigns' = [campaigns EXCEPT ![e].parent = c] /\ work' = [work EXCEPT ![q] = h]
    BY <1>1 DEF Nhi!Link, Nhi!Ends, Nhi!identities, Nhi!risks
<1>3. c \in DOMAIN campaigns /\ e \in DOMAIN campaigns
  <2>1. Work(o) /\ Relies(o)
      BY <1>1 DEF NhiInv, WorkOK
  <2>. QED
      BY <1>1, <1>2, <2>1 DEF Relies
<1>4. OwnersOK' /\ StillThere
    BY <1>2, FewerOwners
<1>5. PICK z : z = [campaigns[e] EXCEPT !.parent = c]
    OBVIOUS
<1>6. campaigns[e] \in Nhi!Campaign /\ c \in Nat /\ c # 0 /\ c \in 0..Len(campaigns)
  <2>1. campaigns[e] \in Nhi!Campaign /\ c \in Nat /\ c # 0
      BY <1>3, CampaignIs DEF NhiInv, DataOK
  <2>2. c \in 1..Len(campaigns)
      BY <1>3 DEF NhiInv, DataOK, CampaignsOK
  <2>. QED
      BY <2>1, <2>2
<1>7. /\ z.status = campaigns[e].status /\ z.parent = c /\ z.items = campaigns[e].items
      /\ z.routed = campaigns[e].routed /\ z.recurring = campaigns[e].recurring
    BY <1>5, <1>6 DEF Nhi!Campaign
<1>8. z \in Nhi!Campaign
    BY <1>5, <1>6, CampaignWritten
<1>9. campaigns' = [campaigns EXCEPT ![e] = z]
    BY <1>2, <1>5
<1>10. CampaignsOK' /\ Lasts /\ Becomes(e, z)
    BY <1>3, <1>4, <1>6, <1>7, <1>8, <1>9, Rewritten DEF NhiInv, DataOK
<1>11. h.kind = "idle"
    BY <1>1 DEF Nhi!Idle
<1>12. Work(h) /\ Relies(h)'
    BY <1>1, <1>11 DEF Work, Relies, OfItem
<1>13. ASSUME Reviewing(o) PROVE Reviewing(h)'
  <2>1. campaigns[c].status = "COMPLETED" /\ campaigns[e].parent = 0
      BY <1>1, <1>2, <1>13 DEF Reviewing, AtWork
  <2>2. AtWork(h)'
      BY <1>11 DEF AtWork, OfItem
  <2>3. /\ DOMAIN campaigns' = DOMAIN campaigns
        /\ \A x \in DOMAIN campaigns : /\ campaigns'[x].status = campaigns[x].status /\ campaigns'[x].items = campaigns[x].items
                                       /\ campaigns'[x].routed = campaigns[x].routed /\ campaigns'[x].recurring = campaigns[x].recurring
                                       /\ campaigns'[x].parent = IF x = e THEN c ELSE campaigns[x].parent
      BY <1>7, <1>10 DEF Becomes
  <2>4. ASSUME NEW x \in DOMAIN campaigns PROVE Settled(h, x)' /\ (Nhi!Recurs(x)' => Followed(h, x)')
    <3>1. Settled(o, x) /\ (Nhi!Recurs(x) => Followed(o, x))
        BY <1>13 DEF Reviewing
    <3>2. Settled(h, x)'
        BY <1>2, <2>3, <3>1, StaysSettled
    <3>3. Nhi!Recurs(x)' = Nhi!Recurs(x)
        BY <2>3 DEF Nhi!Recurs
    <3>4. CASE x = c
      <4>1. Nhi!Recurs(x) => Nhi!Children(c) = {}
          BY <1>1, <1>2, <2>1, <3>1, <3>4 DEF Followed
      <4>2. Nhi!Children(c) = {} => Nhi!Children(c)' = {e}
          BY <1>3, <2>3 DEF Nhi!Children
      <4>3. campaigns'[c].status = "COMPLETED"
          BY <1>3, <2>1, <2>3
      <4>4. Nhi!Children(c)' = {e} => Followed(h, x)'
          BY <1>3, <1>11, <2>3, <3>4, <4>3 DEF Followed
      <4>. QED
          BY <3>2, <3>3, <4>1, <4>2, <4>4
    <3>5. CASE x # c
      <4>1. x # 0
          BY CampaignIs DEF NhiInv, DataOK
      <4>2. Nhi!Children(x)' = Nhi!Children(x)
        <5>1. \A d \in DOMAIN campaigns : campaigns'[d].parent = x <=> campaigns[d].parent = x
            BY <2>1, <2>3, <3>5, <4>1
        <5>. QED
            BY <2>3, <5>1 DEF Nhi!Children
      <4>3. Followed(o, x) => Followed(h, x)'
          BY <1>1, <1>11, <2>3, <3>5, <4>2, StaysFollowed
      <4>. QED
          BY <3>1, <3>2, <3>3, <4>3
    <3>. QED
        BY <3>4, <3>5
  <2>. QED
      BY <2>2, <2>3, <2>4 DEF Reviewing
<1>14. Steady(o) => Steady(h)'
    BY <1>2, <1>11, <1>13, ReviewSteady
<1>. QED
    BY <1>1, <1>2, <1>4, <1>10, <1>12, <1>14, ReviewGoesOn

\* The item of a routed campaign has been decided: its owner is gone, or it closes, or neither.
LEMMA JudgeSaved ==
    ASSUME NhiInv, NEW q \in Nhi!Procs, Nhi!JudgeSave(q), NEW o, o = work[q]
    PROVE  LET saved   == Nhi!Decided(o.campaign, o.item, o.verdict)
               removes == o.verdict = "OWNER_REMOVED" /\ o.item \in owners
               closes  == ~removes /\ o.last /\ o.active
           IN
           /\ o.kind = "judge" /\ UNCHANGED <<there, row, told, broken>> /\ owners' \subseteq owners
           /\ \/ campaigns' = saved /\ work' = [work EXCEPT ![q] = [o EXCEPT !.kind = "count"]]
              \/ closes /\ campaigns' = [saved EXCEPT ![o.campaign].status = "COMPLETED"]
                   /\ work' = [work EXCEPT ![q] = [kind |-> "spawn", campaign |-> o.campaign]]
              \/ ~(o.last /\ o.active) /\ campaigns' = saved /\ work' = [work EXCEPT ![q] = Nhi!Idle]
<1> DEFINE saved   == Nhi!Decided(o.campaign, o.item, o.verdict)
           removes == o.verdict = "OWNER_REMOVED" /\ o.item \in owners
           closes  == ~removes /\ o.last /\ o.active
<1>1. /\ o.kind = "judge" /\ UNCHANGED <<there, row, told, broken>>
      /\ owners' = (IF removes THEN owners \ {o.item} ELSE owners)
      /\ campaigns' = (IF closes THEN [saved EXCEPT ![o.campaign].status = "COMPLETED"] ELSE saved)
      /\ CASE removes -> Nhi!Goes(q, [o EXCEPT !.kind = "count"])
           [] closes  -> Nhi!Goes(q, [kind |-> "spawn", campaign |-> o.campaign])
           [] OTHER   -> Nhi!Ends(q)
    BY DEF Nhi!JudgeSave, Nhi!identities, Nhi!risks
<1>2. PICK r \in BOOLEAN, s \in BOOLEAN : (r <=> removes) /\ (s <=> closes)
    OBVIOUS
<1>3. owners' \subseteq owners
    BY <1>1
<1>4. CASE removes
  <2>1. ~closes
      BY <1>4
  <2>2. campaigns' = saved
      BY <1>1, <2>1
  <2>3. work' = [work EXCEPT ![q] = [o EXCEPT !.kind = "count"]]
      BY <1>1, <1>4, <2>1 DEF Nhi!Goes
  <2>. QED
      BY <1>1, <1>3, <2>2, <2>3
<1>5. CASE closes
  <2>1. campaigns' = [saved EXCEPT ![o.campaign].status = "COMPLETED"]
      BY <1>1, <1>5
  <2>2. ~removes
      BY <1>5
  <2>3. work' = [work EXCEPT ![q] = [kind |-> "spawn", campaign |-> o.campaign]]
      BY <1>1, <1>5, <2>2 DEF Nhi!Goes
  <2>. QED
      BY <1>1, <1>3, <1>5, <2>1, <2>3
<1>6. CASE ~removes /\ ~closes
  <2>1. campaigns' = saved
      BY <1>1, <1>6
  <2>2. work' = [work EXCEPT ![q] = Nhi!Idle]
      BY <1>1, <1>6 DEF Nhi!Ends
  <2>3. ~(o.last /\ o.active)
      BY <1>6
  <2>. QED
      BY <1>1, <1>3, <2>1, <2>2, <2>3
<1>. QED
    BY <1>4, <1>5, <1>6

LEMMA JudgeSaveStep == ASSUME NhiInv, NEW q \in Nhi!Procs, Nhi!JudgeSave(q) PROVE HandlerStep(q)
<1>1. PICK o : o = work[q]
    OBVIOUS
<1>2. PICK c, i, d : c = o.campaign /\ i = o.item /\ d = o.verdict
    OBVIOUS
<1>3. /\ o.kind = "judge" /\ UNCHANGED <<there, row, told, broken>> /\ owners' \subseteq owners
      /\ \/ campaigns' = Nhi!Decided(c, i, d) /\ work' = [work EXCEPT ![q] = [o EXCEPT !.kind = "count"]]
         \/ o.last /\ campaigns' = [Nhi!Decided(c, i, d) EXCEPT ![c].status = "COMPLETED"]
              /\ work' = [work EXCEPT ![q] = [kind |-> "spawn", campaign |-> c]]
         \/ ~(o.last /\ o.active) /\ campaigns' = Nhi!Decided(c, i, d) /\ work' = [work EXCEPT ![q] = Nhi!Idle]
    BY <1>1, <1>2, JudgeSaved
<1>4. o.kind \in OfItem
    BY <1>3 DEF OfItem
<1>5. /\ c \in DOMAIN campaigns /\ c \in Nat /\ i \in DOMAIN campaigns[c].items /\ d \in Verdicts /\ d # "PENDING"
      /\ o \in DecideWork \/ o \in JudgeWork
    BY <1>1, <1>2, <1>4, ItemWork
<1>6. PICK y : y = [campaigns[c] EXCEPT !.items = [campaigns[c].items EXCEPT ![i] = d]]
    OBVIOUS
<1>7. /\ y \in Nhi!Campaign /\ y.status = campaigns[c].status /\ y.parent = campaigns[c].parent
      /\ y.routed = campaigns[c].routed /\ y.recurring = campaigns[c].recurring
      /\ DOMAIN y.items = DOMAIN campaigns[c].items /\ y.items[i] = d
      /\ \A x \in DOMAIN y.items : x # i => y.items[x] = campaigns[c].items[x]
      /\ Nhi!Decided(c, i, d) = [campaigns EXCEPT ![c] = y]
    BY <1>5, <1>6, ItemDecided DEF NhiInv, DataOK
<1>8. PICK z, h :
        /\ work' = [work EXCEPT ![q] = h] /\ campaigns' = [campaigns EXCEPT ![c] = z]
        /\ \/ z = y /\ h = [o EXCEPT !.kind = "count"]
           \/ z = y /\ h = Nhi!Idle /\ ~(o.last /\ o.active)
           \/ z = [y EXCEPT !.status = "COMPLETED"] /\ h = [kind |-> "spawn", campaign |-> c] /\ o.last
  <2>1. CASE campaigns' = Nhi!Decided(c, i, d) /\ work' = [work EXCEPT ![q] = [o EXCEPT !.kind = "count"]]
      BY <1>7, <2>1
  <2>2. CASE ~(o.last /\ o.active) /\ campaigns' = Nhi!Decided(c, i, d) /\ work' = [work EXCEPT ![q] = Nhi!Idle]
      BY <1>7, <2>2
  <2>3. CASE o.last /\ campaigns' = [Nhi!Decided(c, i, d) EXCEPT ![c].status = "COMPLETED"]
              /\ work' = [work EXCEPT ![q] = [kind |-> "spawn", campaign |-> c]]
    <3>1. campaigns' = [campaigns EXCEPT ![c] = [y EXCEPT !.status = "COMPLETED"]]
        BY <1>5, <1>7, <2>3 DEF NhiInv, DataOK, CampaignsOK
    <3>. QED
        BY <2>3, <3>1
  <2>. QED
      BY <1>3, <2>1, <2>2, <2>3
<1>9. /\ z \in Nhi!Campaign /\ z.parent = campaigns[c].parent /\ z.items = y.items
      /\ z.routed = campaigns[c].routed /\ z.recurring = campaigns[c].recurring
      /\ z.status = campaigns[c].status \/ (z.status = "COMPLETED" /\ h.kind = "spawn" /\ o.last)
  <2>1. CASE z = y
      BY <1>7, <2>1
  <2>2. CASE z = [y EXCEPT !.status = "COMPLETED"] /\ h = [kind |-> "spawn", campaign |-> c] /\ o.last
    <3>1. z \in Nhi!Campaign
        BY <1>7, <2>2, CampaignWritten
    <3>2. /\ z.parent = y.parent /\ z.items = y.items /\ z.routed = y.routed /\ z.recurring = y.recurring
          /\ z.status = "COMPLETED"
        BY <1>7, <2>2 DEF Nhi!Campaign
    <3>. QED
        BY <1>7, <2>2, <3>1, <3>2
  <2>. QED
      BY <1>8, <2>1, <2>2
<1>10. /\ Work(h) /\ h.kind \in {"idle", "count", "spawn"} /\ (h.kind # "idle" => h.campaign = c)
       /\ h.kind = "count" => h.item = i /\ h.active = o.active
       /\ h.kind = "spawn" => z.status = "COMPLETED" /\ o.last
       /\ h.kind # "spawn" => z.status = campaigns[c].status
       /\ h.kind = "idle" => ~(o.last /\ o.active)
  <2>1. CASE z = y /\ h = [o EXCEPT !.kind = "count"]
    <3>1. Work(h) /\ h.kind = "count" /\ h.campaign = c /\ h.item = i /\ h.active = o.active
        BY <1>2, <1>5, <2>1, NextKind
    <3>. QED
        BY <1>7, <2>1, <3>1
  <2>2. CASE z = y /\ h = Nhi!Idle /\ ~(o.last /\ o.active)
    <3>1. Work(h) /\ h.kind = "idle"
        BY <2>2 DEF Work, Nhi!Idle
    <3>. QED
        BY <1>7, <2>2, <3>1
  <2>3. CASE z = [y EXCEPT !.status = "COMPLETED"] /\ h = [kind |-> "spawn", campaign |-> c] /\ o.last
    <3>1. h \in SpawnWork /\ h.kind = "spawn" /\ h.campaign = c
        BY <1>5, <2>3 DEF SpawnWork
    <3>2. z.status = "COMPLETED"
        BY <1>7, <2>3 DEF Nhi!Campaign
    <3>. QED
        BY <2>3, <3>1, <3>2 DEF Work
  <2>. QED
      BY <1>8, <2>1, <2>2, <2>3
<1>11. OwnersOK' /\ StillThere
    BY <1>3, FewerOwners
<1>12. CampaignsOK' /\ Lasts /\ Becomes(c, z)
    BY <1>5, <1>7, <1>8, <1>9, <1>11, CampaignIs, Rewritten DEF NhiInv, DataOK
<1>13. Relies(h)'
    BY <1>5, <1>7, <1>9, <1>10, <1>12 DEF Relies, OfItem, Becomes
<1>14. ASSUME Reviewing(o) PROVE Reviewing(h)'
  <2>1. /\ o.active = TRUE /\ campaigns[c].status = "ACTIVE" /\ campaigns[c].routed
        /\ i \in Nhi!Pending(c) /\ o.last = (Nhi!Pending(c) = {i})
      BY <1>2, <1>3, <1>4, <1>14 DEF Reviewing, AtWork
  <2>2. campaigns'[c] = z /\ c \in DOMAIN campaigns'
      BY <1>5, <1>12 DEF Becomes
  <2>3. AtWork(h)'
      BY <1>9, <1>10, <2>1, <2>2 DEF AtWork, OfItem
  <2>4. Nhi!Pending(c)' = Nhi!Pending(c) \ {i}
      BY <1>5, <1>7, <1>9, <2>2 DEF Nhi!Pending
  <2>5. Settled(h, c)'
    <3>1. CASE h.kind = "count"
        BY <1>10, <2>1, <2>2, <3>1 DEF Settled
    <3>2. CASE h.kind = "spawn"
      <4>1. Nhi!Pending(c)' = {}
          BY <1>10, <2>1, <2>4, <3>2
      <4>. QED
          BY <1>10, <2>2, <3>2, <4>1 DEF Settled
    <3>3. CASE h.kind = "idle"
      <4>1. o.last # TRUE
          BY <1>10, <2>1, <3>3
      <4>2. Nhi!Pending(c) # {i}
          BY <2>1, <4>1
      <4>3. Nhi!Pending(c)' # {}
          BY <2>1, <2>4, <4>2
      <4>. QED
          BY <1>10, <2>1, <2>2, <3>3, <4>3 DEF Settled
    <3>. QED
        BY <1>10, <3>1, <3>2, <3>3
  <2>6. ~Nhi!Recurs(c)'
      BY <1>9, <2>1, <2>2 DEF Nhi!Recurs
  <2>7. \A x \in DOMAIN campaigns' : Settled(h, x)' /\ (Nhi!Recurs(x)' => Followed(h, x)')
      BY <1>3, <1>5, <1>9, <1>10, <1>12, <1>14, <2>5, <2>6, OthersStand
  <2>. QED
      BY <2>3, <2>7 DEF Reviewing
<1>15. Steady(o) => Steady(h)'
    BY <1>3, <1>10, <1>14, ReviewSteady
<1>. QED
    BY <1>1, <1>3, <1>8, <1>10, <1>11, <1>12, <1>13, <1>15, ReviewGoesOn

-----------------------------------------------------------------------------
(***************************************************************************)
(* A leaver's ownerships.                                                  *)
(***************************************************************************)
LEMMA LeaveSteady ==
    ASSUME NEW o, NEW h, UNCHANGED <<told, broken>>, h.kind \in {"idle", "leave"}, Steady(o), Gone(h)',
           Reviewing(o) => Reviewing(h)'
    PROVE  Steady(h)'
BY DEF Steady, OnceTold, Heard, Nhi!Keys, Nhi!Risks

LEMMA LeaveStep == ASSUME NhiInv, NEW q \in Nhi!Procs, Nhi!Leave(q) PROVE HandlerStep(q)
<1>1. PICK u \in People, todo \in SUBSET Apps : Nhi!Start(q, [kind |-> "leave", who |-> u, at |-> <<>>, todo |-> todo])
    BY DEF Nhi!Leave
<1>2. UNCHANGED <<there, row, owners, told, campaigns, broken>>
    BY DEF Nhi!Leave, Nhi!identities, Nhi!risks
<1>3. PICK o, h : o = work[q] /\ h = [kind |-> "leave", who |-> u, at |-> <<>>, todo |-> todo]
    OBVIOUS
<1>4. o = Nhi!Idle /\ work' = [work EXCEPT ![q] = h]
    BY <1>1, <1>3 DEF Nhi!Start, Nhi!MayStart
<1>5. h \in LeaveWork /\ h.kind = "leave" /\ h.at = <<>>
    BY <1>3 DEF LeaveWork
<1>6. Work(h) /\ Relies(h)'
    BY <1>5 DEF Work, Relies, OfItem
<1>7. o.kind = "idle"
    BY <1>4 DEF Nhi!Idle
<1>8. Reviewing(o) => Reviewing(h)'
    BY <1>2, <1>5, <1>7, ReviewKept DEF OfItem
<1>9. Gone(h)'
    BY <1>5 DEF Gone
<1>10. Steady(o) => Steady(h)'
    BY <1>2, <1>5, <1>8, <1>9, LeaveSteady
<1>11. OwnersOK' /\ CampaignsOK' /\ Lasts
    BY <1>2, FewerOwners, CampaignsKept, LastsOf DEF NhiInv, DataOK
<1>. QED
    BY <1>2, <1>3, <1>4, <1>6, <1>10, <1>11, ReviewGoesOn

\* The pending items of ownership i are resolved, in every campaign.
LEMMA ItemsResolved ==
    ASSUME CampaignsOK, StillThere, NEW i, campaigns' = Nhi!Resolved(i)
    PROVE  /\ CampaignsOK' /\ Lasts /\ DOMAIN campaigns' = DOMAIN campaigns
           /\ \A c \in DOMAIN campaigns :
                 /\ campaigns'[c].status = campaigns[c].status /\ campaigns'[c].parent = campaigns[c].parent
                 /\ campaigns'[c].routed = campaigns[c].routed /\ campaigns'[c].recurring = campaigns[c].recurring
                 /\ Nhi!Pending(c)' = Nhi!Pending(c) \ {i} /\ DOMAIN campaigns'[c].items = DOMAIN campaigns[c].items
                 /\ i \in Nhi!Pending(c) \/ LeaverItem(c) => LeaverItem(c)'
<1>1. DOMAIN campaigns' = DOMAIN campaigns /\ DOMAIN campaigns = 1..Len(campaigns) /\ Len(campaigns) \in Nat
    BY DEF Nhi!Resolved, CampaignsOK
<1>2. ASSUME NEW c \in DOMAIN campaigns
      PROVE  /\ campaigns'[c] \in Nhi!Campaign
             /\ campaigns'[c].status = campaigns[c].status /\ campaigns'[c].parent = campaigns[c].parent
             /\ campaigns'[c].routed = campaigns[c].routed /\ campaigns'[c].recurring = campaigns[c].recurring
             /\ Nhi!Pending(c)' = Nhi!Pending(c) \ {i} /\ DOMAIN campaigns'[c].items = DOMAIN campaigns[c].items
             /\ i \in Nhi!Pending(c) \/ LeaverItem(c) => LeaverItem(c)'
  <2>1. campaigns[c] \in Nhi!Campaign /\ campaigns[c].items \in Ballots
      BY CampaignIs
  <2>2. CASE i \notin Nhi!Pending(c)
    <3>1. campaigns'[c] = campaigns[c]
        BY <2>2 DEF Nhi!Resolved
    <3>2. Nhi!Pending(c)' = Nhi!Pending(c) /\ LeaverItem(c)' = LeaverItem(c)
        BY <3>1, SamePending
    <3>. QED
        BY <2>1, <2>2, <3>1, <3>2
  <2>3. CASE i \in Nhi!Pending(c)
    <3>1. PICK d \in Verdicts : d = "OWNER_REMOVED_LEAVER"
        BY DEF Verdicts
    <3>2. i \in DOMAIN campaigns[c].items
        BY <2>3 DEF Nhi!Pending
    <3>3. PICK z : z = [campaigns[c] EXCEPT !.items = [campaigns[c].items EXCEPT ![i] = d]]
        OBVIOUS
    <3>4. campaigns'[c] = z
        BY <2>3, <3>1, <3>3 DEF Nhi!Resolved
    <3>5. /\ z \in Nhi!Campaign /\ z.status = campaigns[c].status /\ z.parent = campaigns[c].parent
          /\ z.routed = campaigns[c].routed /\ z.recurring = campaigns[c].recurring
          /\ DOMAIN z.items = DOMAIN campaigns[c].items /\ z.items[i] = d
          /\ \A x \in DOMAIN z.items : x # i => z.items[x] = campaigns[c].items[x]
        BY <3>2, <3>3, ItemDecided
    <3>6. Nhi!Pending(c)' = Nhi!Pending(c) \ {i}
        BY <3>1, <3>2, <3>4, <3>5 DEF Nhi!Pending
    <3>7. LeaverItem(c)'
        BY <3>1, <3>2, <3>4, <3>5 DEF LeaverItem
    <3>. QED
        BY <3>4, <3>5, <3>6, <3>7
  <2>. QED
      BY <2>2, <2>3
<1>3. campaigns' \in [1..Len(campaigns) -> Nhi!Campaign]
    BY <1>1, <1>2 DEF Nhi!Resolved
<1>4. campaigns' \in Seq(Nhi!Campaign) /\ Len(campaigns') = Len(campaigns)
    BY <1>1, <1>3
<1>5. CampaignsOK'
    BY <1>1, <1>2, <1>4 DEF CampaignsOK
<1>6. Lasts
    BY <1>1, <1>2 DEF Lasts, StillThere
<1>. QED
    BY <1>1, <1>2, <1>5, <1>6

LEMMA LeaverWork ==
    ASSUME NhiInv, NEW q \in Nhi!Procs, NEW o, o = work[q], o.kind = "leave"
    PROVE  o \in LeaveWork
<1>1. Work(o)
    BY DEF NhiInv, WorkOK
<1>. QED
    BY <1>1, WorkShape

LEMMA ResolveStep == ASSUME NhiInv, NEW q \in Nhi!Procs, Nhi!ResolveItems(q) PROVE HandlerStep(q)
<1>1. PICK o : o = work[q]
    OBVIOUS
<1>2. o.kind = "leave" /\ UNCHANGED <<there, row, owners, told, broken>>
    BY <1>1 DEF Nhi!ResolveItems, Nhi!identities, Nhi!risks
<1>3. PICK a \in o.todo : campaigns' = Nhi!Resolved(<<a, o.who>>) /\ work' = [work EXCEPT ![q] = [o EXCEPT !.at = <<a>>]]
    BY <1>1 DEF Nhi!ResolveItems, Nhi!Goes
<1>4. PICK h, i : h = [o EXCEPT !.at = <<a>>] /\ i = <<a, o.who>>
    OBVIOUS
<1>5. o \in LeaveWork
    BY <1>1, <1>2, LeaverWork
<1>6. h \in LeaveWork /\ h.kind = "leave" /\ h.at = <<a>> /\ h.who = o.who
    BY <1>3, <1>4, <1>5 DEF LeaveWork
<1>7. Work(h) /\ Relies(h)'
    BY <1>6 DEF Work, Relies, OfItem
<1>8. OwnersOK' /\ StillThere
    BY <1>2, FewerOwners
<1>9. /\ CampaignsOK' /\ Lasts /\ DOMAIN campaigns' = DOMAIN campaigns
      /\ \A c \in DOMAIN campaigns :
            /\ campaigns'[c].status = campaigns[c].status /\ campaigns'[c].parent = campaigns[c].parent
            /\ campaigns'[c].routed = campaigns[c].routed /\ campaigns'[c].recurring = campaigns[c].recurring
            /\ Nhi!Pending(c)' = Nhi!Pending(c) \ {i} /\ DOMAIN campaigns'[c].items = DOMAIN campaigns[c].items
            /\ i \in Nhi!Pending(c) \/ LeaverItem(c) => LeaverItem(c)'
    BY <1>3, <1>4, <1>8, ItemsResolved DEF NhiInv, DataOK
<1>10. Gone(h)'
  <2>1. \A c \in DOMAIN campaigns' : i \notin Nhi!Pending(c)'
      BY <1>9
  <2>2. i = <<h.at[1], h.who>>
      BY <1>4, <1>6
  <2>. QED
      BY <2>1, <2>2 DEF Gone
<1>11. ASSUME Reviewing(o) PROVE Reviewing(h)'
  <2>1. AtWork(h)'
      BY <1>6 DEF AtWork, OfItem
  <2>2. ASSUME NEW c \in DOMAIN campaigns PROVE Settled(h, c)' /\ (Nhi!Recurs(c)' => Followed(h, c)')
    <3>1. Settled(o, c) /\ (Nhi!Recurs(c) => Followed(o, c))
        BY <1>11 DEF Reviewing
    <3>2. Settled(h, c)'
      <4>1. Nhi!Pending(c)' = {} => Nhi!Pending(c) = {} \/ i \in Nhi!Pending(c)
          BY <1>9
      <4>. QED
          BY <1>2, <1>6, <1>9, <3>1, <4>1 DEF Settled
    <3>3. Nhi!Recurs(c)' = Nhi!Recurs(c)
        BY <1>9 DEF Nhi!Recurs
    <3>4. Nhi!Children(c)' = Nhi!Children(c)
        BY <1>9, SameChildren
    <3>5. Followed(o, c) => Followed(h, c)'
        BY <1>2, <1>6, <1>9, <3>4, StaysFollowed
    <3>. QED
        BY <3>1, <3>2, <3>3, <3>5
  <2>. QED
      BY <1>9, <2>1, <2>2 DEF Reviewing
<1>12. Steady(o) => Steady(h)'
    BY <1>2, <1>6, <1>10, <1>11, LeaveSteady
<1>. QED
    BY <1>1, <1>2, <1>3, <1>4, <1>7, <1>8, <1>9, <1>12, ReviewGoesOn

LEMMA DropStep == ASSUME NhiInv, NEW q \in Nhi!Procs, Nhi!DropOwner(q) PROVE HandlerStep(q)
<1>1. PICK o, rest : o = work[q] /\ rest = o.todo \ {o.at[1]}
    OBVIOUS
<1>2. /\ o.kind = "leave" /\ o.at # <<>> /\ owners' \subseteq owners /\ UNCHANGED <<there, row, told, campaigns, broken>>
      /\ \/ work' = [work EXCEPT ![q] = Nhi!Idle]
         \/ work' = [work EXCEPT ![q] = [o EXCEPT !.at = <<>>, !.todo = rest]]
    BY <1>1 DEF Nhi!DropOwner, Nhi!Goes, Nhi!Ends, Nhi!identities, Nhi!risks
<1>3. PICK h : (h = Nhi!Idle \/ h = [o EXCEPT !.at = <<>>, !.todo = rest]) /\ work' = [work EXCEPT ![q] = h]
    BY <1>2
<1>4. o \in LeaveWork
    BY <1>1, <1>2, LeaverWork
<1>5. (h = Nhi!Idle /\ h.kind = "idle") \/ (h \in LeaveWork /\ h.kind = "leave" /\ h.at = <<>>)
  <2>1. CASE h = Nhi!Idle
      BY <2>1 DEF Nhi!Idle
  <2>2. CASE h = [o EXCEPT !.at = <<>>, !.todo = rest]
    <3>1. rest \in SUBSET Apps
        BY <1>1, <1>4 DEF LeaveWork
    <3>. QED
        BY <1>4, <2>2, <3>1 DEF LeaveWork
  <2>. QED
      BY <1>3, <2>1, <2>2
<1>6. Work(h) /\ Relies(h)'
    BY <1>5 DEF Work, Relies, OfItem
<1>7. Reviewing(o) => Reviewing(h)'
    BY <1>2, <1>5, ReviewKept DEF OfItem
<1>8. Gone(h)'
    BY <1>5 DEF Gone
<1>9. Steady(o) => Steady(h)'
    BY <1>2, <1>5, <1>7, <1>8, LeaveSteady
<1>10. OwnersOK' /\ CampaignsOK' /\ Lasts
    BY <1>2, FewerOwners, CampaignsKept, LastsOf DEF NhiInv, DataOK
<1>. QED
    BY <1>1, <1>2, <1>3, <1>6, <1>9, <1>10, ReviewGoesOn

-----------------------------------------------------------------------------
(***************************************************************************)
(* Those who look at risks are told.                                       *)
(***************************************************************************)
LEMMA TopicIsOne == ASSUME NEW topics \in SUBSET Nhi!Risks, topics # {} PROVE Nhi!Topic(topics) \in topics
<1>1. /\ Nhi!Turn["NO_OWNER"] = 1 /\ Nhi!Turn["EXPIRING"] = 2 /\ Nhi!Turn["EXPIRED"] = 3
      /\ \A x \in topics : x = "NO_OWNER" \/ x = "EXPIRING" \/ x = "EXPIRED"
    BY DEF Nhi!Turn, Nhi!Risks
<1>2. \E r \in topics : \A x \in topics : Nhi!Turn[r] <= Nhi!Turn[x]
  <2>1. CASE "NO_OWNER" \in topics
      BY <1>1, <2>1
  <2>2. CASE "NO_OWNER" \notin topics /\ "EXPIRING" \in topics
      BY <1>1, <2>2
  <2>3. CASE "NO_OWNER" \notin topics /\ "EXPIRING" \notin topics
      BY <1>1, <2>3
  <2>. QED
      BY <2>1, <2>2, <2>3
<1>. QED
    BY <1>2 DEF Nhi!Topic

LEMMA FlaggedStays == ASSUME UNCHANGED <<row, owners, accepted>> PROVE Nhi!Flagged' = Nhi!Flagged
BY DEF Nhi!Flagged, Nhi!Known, Nhi!AtRisk, Nhi!OwnersOf

LEMMA KeyIs == \A k \in Nhi!Keys : k[1] \in Nhi!Risks
BY DEF Nhi!Keys

LEMMA LookWorks ==
    ASSUME NhiInv, NEW q \in Nhi!Procs, NEW o, o = work[q]
    PROVE  (o.kind = "look" => o \in LookWork) /\ (o.kind = "tell" => o \in TellWork)
<1>1. Work(o)
    BY DEF NhiInv, WorkOK
<1>. QED
    BY <1>1, WorkShape

LEMMA LookStep == ASSUME NhiInv, NEW q \in Nhi!Procs, Nhi!LookAt(q) PROVE HandlerStep(q)
<1>1. PICK o, h : o = work[q] /\ h = [kind |-> "look", flagged |-> Nhi!Flagged, topics |-> {r \in Nhi!Risks : r \in telling}]
    OBVIOUS
<1>2. o = Nhi!Idle /\ work' = [work EXCEPT ![q] = h]
    BY <1>1 DEF Nhi!LookAt, Nhi!Start, Nhi!MayStart
<1>3. UNCHANGED <<there, row, owners, accepted, telling, told, campaigns, broken>>
    BY DEF Nhi!LookAt, Nhi!identities, Nhi!risks
<1>4. /\ h \in LookWork /\ h.kind = "look" /\ h.flagged = Nhi!Flagged
      /\ h.topics = {r \in Nhi!Risks : r \in telling}
    BY <1>1 DEF LookWork, Nhi!Flagged
<1>5. Work(h) /\ Relies(h)'
    BY <1>4 DEF Work, Relies, OfItem
<1>6. ASSUME Steady(o) PROVE Steady(h)'
  <2>1. o.kind = "idle"
      BY <1>2 DEF Nhi!Idle
  <2>2. Reviewing(o) => Reviewing(h)'
      BY <1>3, <1>4, <2>1, ReviewKept DEF OfItem
  <2>3. OnceTold' /\ Gone(h)'
      BY <1>3, <1>4, <1>6 DEF Steady, OnceTold, Gone, Nhi!Keys, Nhi!Risks
  <2>4. Heard(h)'
      BY <1>3, <1>4, FlaggedStays, KeyIs DEF Heard, Nhi!Keys, Nhi!Risks
  <2>. QED
      BY <1>3, <1>6, <2>2, <2>3, <2>4 DEF Steady
<1>7. OwnersOK' /\ CampaignsOK' /\ Lasts
    BY <1>3, FewerOwners, CampaignsKept, LastsOf DEF NhiInv, DataOK
<1>. QED
    BY <1>1, <1>2, <1>3, <1>5, <1>6, <1>7, ReviewGoesOn

LEMMA ReadStep == ASSUME NhiInv, NEW q \in Nhi!Procs, Nhi!Read(q) PROVE HandlerStep(q)
<1>1. PICK o, h : o = work[q] /\ h = [kind |-> "tell", flagged |-> o.flagged, topics |-> o.topics, open |-> Nhi!OpenOf(Nhi!Topic(o.topics))]
    OBVIOUS
<1>2. o.kind = "look" /\ o.topics # {} /\ work' = [work EXCEPT ![q] = h]
    BY <1>1 DEF Nhi!Read, Nhi!Goes
<1>3. UNCHANGED <<there, row, owners, accepted, telling, told, campaigns, broken>>
    BY DEF Nhi!Read, Nhi!identities, Nhi!risks
<1>4. o \in LookWork
    BY <1>1, <1>2, LookWorks
<1>5. Nhi!OpenOf(Nhi!Topic(o.topics)) \subseteq Nhi!Keys
    BY DEF Nhi!OpenOf
<1>6. /\ h \in TellWork /\ h.kind = "tell" /\ h.flagged = o.flagged /\ h.topics = o.topics
      /\ h.open = Nhi!OpenOf(Nhi!Topic(o.topics))
    BY <1>1, <1>4, <1>5 DEF LookWork, TellWork
<1>7. Work(h) /\ Relies(h)'
    BY <1>6 DEF Work, Relies, OfItem
<1>8. ASSUME Steady(o) PROVE Steady(h)'
  <2>1. Reviewing(o) => Reviewing(h)'
      BY <1>2, <1>3, <1>6, ReviewKept DEF OfItem
  <2>2. OnceTold' /\ Gone(h)'
      BY <1>3, <1>6, <1>8 DEF Steady, OnceTold, Gone, Nhi!Keys, Nhi!Risks
  <2>3. Nhi!OpenOf(Nhi!Topic(o.topics))' = Nhi!OpenOf(Nhi!Topic(o.topics))
      BY <1>3 DEF Nhi!OpenOf, Nhi!Keys, Nhi!Risks
  <2>4. Heard(o)
      BY <1>8 DEF Steady
  <2>5. Heard(h)'
      BY <1>2, <1>3, <1>6, <2>3, <2>4, FlaggedStays DEF Heard, Nhi!Keys, Nhi!Risks
  <2>. QED
      BY <1>3, <1>8, <2>1, <2>2, <2>5 DEF Steady
<1>9. OwnersOK' /\ CampaignsOK' /\ Lasts
    BY <1>3, FewerOwners, CampaignsKept, LastsOf DEF NhiInv, DataOK
<1>. QED
    BY <1>1, <1>2, <1>3, <1>7, <1>8, <1>9, ReviewGoesOn

LEMMA TellStep == ASSUME NhiInv, NEW q \in Nhi!Procs, Nhi!Tell(q) PROVE HandlerStep(q)
<1>1. PICK o, t : o = work[q] /\ t = Nhi!Topic(o.topics)
    OBVIOUS
<1>2. PICK h : h = [kind |-> "look", flagged |-> o.flagged, topics |-> o.topics \ {t}]
    OBVIOUS
<1>3. PICK wanted : wanted = {k \in o.flagged : k[1] = t}
    OBVIOUS
<1>4. /\ o.kind = "tell" /\ work' = [work EXCEPT ![q] = h]
      /\ told' = [k \in Nhi!Keys |-> Nhi!Updated(k, wanted, o.open)]
    BY <1>1, <1>2, <1>3 DEF Nhi!Tell, Nhi!Goes
<1>5. UNCHANGED <<there, row, owners, accepted, telling, campaigns, broken>>
    BY DEF Nhi!Tell, Nhi!identities
<1>6. o \in TellWork
    BY <1>1, <1>4, LookWorks
<1>7. h \in LookWork /\ h.kind = "look" /\ h.flagged = o.flagged /\ h.topics = o.topics \ {t}
    BY <1>2, <1>6 DEF LookWork, TellWork
<1>8. Work(h) /\ Relies(h)'
    BY <1>7 DEF Work, Relies, OfItem
<1>9. ASSUME NEW k \in Nhi!Keys
      PROVE  told'[k] = IF k \in wanted /\ k \notin o.open THEN told[k] + 1 ELSE IF k \in o.open /\ k \notin wanted THEN 0 ELSE told[k]
    BY <1>4 DEF Nhi!Updated
<1>10. NotesOK'
  <2>1. ASSUME NEW k \in Nhi!Keys PROVE told'[k] \in Nat
      BY <1>9 DEF NhiInv, DataOK, NotesOK
  <2>2. (told \in [Nhi!Keys -> Nat])'
      BY <1>4, <2>1 DEF Nhi!Keys, Nhi!Risks
  <2>. QED
      BY <2>2 DEF NotesOK
<1>11. ASSUME Steady(o) PROVE Steady(h)'
  <2>1. Reviewing(o) => Reviewing(h)'
      BY <1>4, <1>5, <1>7, ReviewKept DEF OfItem
  <2>2. /\ o.flagged = Nhi!Flagged /\ o.open = {k \in Nhi!Keys : k[1] = t /\ told[k] > 0}
        /\ \A k \in Nhi!Keys : k[1] \in telling \ o.topics => told[k] = IF k \in Nhi!Flagged THEN 1 ELSE 0
      BY <1>1, <1>4, <1>11 DEF Steady, Heard, Nhi!OpenOf
  <2>3. ASSUME NEW k \in Nhi!Keys
        PROVE told'[k] \in {0, 1} /\ told'[k] = IF k[1] = t THEN IF k \in Nhi!Flagged THEN 1 ELSE 0 ELSE told[k]
    <3>1. told[k] \in {0, 1}
        BY <1>11 DEF Steady, OnceTold
    <3>2. k \in wanted <=> k \in Nhi!Flagged /\ k[1] = t
        BY <1>3, <2>2
    <3>3. k \in o.open <=> k[1] = t /\ told[k] = 1
        BY <2>2, <3>1
    <3>4. CASE k[1] # t
        BY <1>9, <3>1, <3>2, <3>3, <3>4
    <3>5. CASE k[1] = t /\ told[k] = 1
        BY <1>9, <3>2, <3>3, <3>5
    <3>6. CASE k[1] = t /\ told[k] = 0
        BY <1>9, <3>2, <3>3, <3>6
    <3>. QED
        BY <3>1, <3>4, <3>5, <3>6
  <2>4. OnceTold'
    <3>1. told' \in [Nhi!Keys -> {0, 1}]
        BY <1>4, <2>3
    <3>. QED
        BY <3>1 DEF OnceTold, Nhi!Keys, Nhi!Risks
  <2>5. Gone(h)'
      BY <1>7 DEF Gone
  <2>6. ASSUME NEW k \in Nhi!Keys, k[1] \in telling \ h.topics PROVE told'[k] = IF k \in Nhi!Flagged THEN 1 ELSE 0
    <3>1. CASE k[1] = t
        BY <2>3, <3>1
    <3>2. CASE k[1] # t
      <4>1. k[1] \in telling \ o.topics
          BY <1>7, <2>6, <3>2
      <4>. QED
          BY <2>2, <2>3, <3>2, <4>1
    <3>. QED
        BY <3>1, <3>2
  <2>7. Heard(h)'
      BY <1>5, <1>7, <2>2, <2>6, FlaggedStays DEF Heard, Nhi!Keys, Nhi!Risks
  <2>. QED
      BY <1>5, <1>11, <2>1, <2>4, <2>5, <2>7 DEF Steady
<1>12. OwnersOK' /\ CampaignsOK' /\ Lasts
    BY <1>5, FewerOwners, CampaignsKept, LastsOf DEF NhiInv, DataOK
<1>13. WorkOK'
    BY <1>4, <1>8, <1>12, WorkGoesOn DEF NhiInv
<1>14. IdentitiesOK'
    BY <1>5 DEF NhiInv, DataOK, IdentitiesOK
<1>. QED
    BY <1>1, <1>4, <1>5, <1>10, <1>11, <1>12, <1>13, <1>14 DEF HandlerStep, NhiInv, DataOK

LEMMA ToldStep == ASSUME NhiInv, NEW q \in Nhi!Procs, Nhi!Told(q) PROVE HandlerStep(q)
<1>1. PICK o, h : o = work[q] /\ h = Nhi!Idle
    OBVIOUS
<1>2. o.kind = "look" /\ work' = [work EXCEPT ![q] = h] /\ UNCHANGED <<there, row, owners, told, campaigns, broken>>
    BY <1>1 DEF Nhi!Told, Nhi!Ends, Nhi!identities, Nhi!risks
<1>3. h.kind = "idle"
    BY <1>1 DEF Nhi!Idle
<1>4. Work(h) /\ Relies(h)'
    BY <1>1, <1>3 DEF Work, Relies, OfItem
<1>5. Reviewing(o) => Reviewing(h)'
    BY <1>2, <1>3, ReviewKept DEF OfItem
<1>6. Steady(o) => Steady(h)'
    BY <1>2, <1>3, <1>5, ReviewSteady
<1>7. OwnersOK' /\ CampaignsOK' /\ Lasts
    BY <1>2, FewerOwners, CampaignsKept, LastsOf DEF NhiInv, DataOK
<1>. QED
    BY <1>1, <1>2, <1>4, <1>6, <1>7, ReviewGoesOn

-----------------------------------------------------------------------------
(***************************************************************************)
(* Every step.                                                             *)
(***************************************************************************)
Beside == \/ Nhi!ChangeThere \/ Nhi!TimePasses \/ Nhi!SetNhiType \/ Nhi!AssignOwner \/ Nhi!RemoveOwner
          \/ Nhi!AcceptRisk \/ Nhi!AcceptanceEnds \/ Nhi!UpdateSettings \/ Nhi!CreateCampaign

LEMMA BesideStep ==
    ASSUME NhiInv, Beside
    PROVE  /\ NhiInv' /\ UNCHANGED <<work, broken>>
           /\ broken \in [Nhi!Faults -> Nat] => (Steady(Nhi!Idle) => Steady(Nhi!Idle)')
<1>1. CASE Nhi!CreateCampaign
    BY <1>1, CreateStep
<1>2. CASE ~Nhi!CreateCampaign
  <2>1. NhiInv' /\ UNCHANGED <<told, campaigns, work, broken>>
      BY <1>2, EditKeeps DEF Beside
  <2>2. PICK o : o = Nhi!Idle
      OBVIOUS
  <2>3. ASSUME broken \in [Nhi!Faults -> Nat], Steady(o) PROVE Steady(o)'
    <3>1. Plain(o)
        BY <2>2, IdlePlain
    <3>. QED
        BY <2>1, <2>3, <3>1, PlainSteady DEF OneFault
  <2>4. broken \in [Nhi!Faults -> Nat] /\ Steady(Nhi!Idle) => Steady(Nhi!Idle)'
      BY <2>2, <2>3 DEF Steady, Heard, Gone, Reviewing, Settled, Followed, AtWork
  <2>. QED
      BY <2>1, <2>4
<1>. QED
    BY <1>1, <1>2

LEMMA GovernorStep ==
    ASSUME NhiInv, NEW q \in Nhi!Procs, Nhi!Begin(q) \/ Nhi!Continue(q)
    PROVE  IdentityStep(q) \/ HandlerStep(q)
<1>1. Nhi!Begin(q) => IdentityStep(q) \/ HandlerStep(q)
    BY RefreshReadStep, SetEnabledStep, RegisterStep, DecideStep, JudgeStep, LeaveStep, LookStep DEF Nhi!Begin
<1>2. Nhi!Continue(q) => IdentityStep(q) \/ HandlerStep(q)
    BY RefreshSaveStep, SaveEnabledStep, SaveRegisteredStep, DecideRemoveStep, DecideSaveStep, CloseStep, SpawnStep, LinkStep,
       JudgeSaveStep, ResolveStep, DropStep, ReadStep, TellStep, ToldStep DEF Nhi!Continue
<1>. QED
    BY <1>1, <1>2

LEMMA NhiCrashStep ==
    ASSUME NhiInv, Nhi!Crash
    PROVE  NhiInv' /\ UNCHANGED <<told, campaigns>> /\ Nhi!Count("crash") /\ work' = [x \in Nhi!Procs |-> Nhi!Idle]
<1>1. /\ work' = [x \in Nhi!Procs |-> Nhi!Idle] /\ UNCHANGED <<there, row, owners, told, campaigns>>
      /\ Nhi!Count("crash")
    BY DEF Nhi!Crash, Nhi!identities, Nhi!risks
<1>2. IdentitiesOK' /\ OwnersOK' /\ NotesOK' /\ CampaignsOK'
    BY <1>1, Untouched, NotesKept, CampaignsKept DEF NhiInv, DataOK
<1>3. ASSUME NEW x \in Nhi!Procs PROVE Work(work'[x]) /\ Relies(work[x])'
    BY <1>1, IdleWork DEF Relies, Nhi!Idle, OfItem
<1>4. WorkOK'
    BY <1>1, <1>3 DEF WorkOK, Work
<1>. QED
    BY <1>1, <1>2, <1>4 DEF NhiInv, DataOK

\* A step is beside the handlers, of one of them, or a crash.
LEMMA NhiSteps ==
    ASSUME NhiInv, Nhi!Next
    PROVE  Beside \/ (\E q \in Nhi!Procs : IdentityStep(q) \/ HandlerStep(q)) \/ Nhi!Crash
<1>1. CASE \E q \in Governors : Nhi!Begin(q) \/ Nhi!Continue(q)
  <2>1. PICK q \in Governors : Nhi!Begin(q) \/ Nhi!Continue(q)
      BY <1>1
  <2>2. q \in Nhi!Procs
      BY DEF Nhi!Procs
  <2>. QED
      BY <2>1, <2>2, GovernorStep
<1>2. CASE Nhi!Sync
    BY <1>2, SyncReadStep, SyncSaveStep DEF Nhi!Sync
<1>. QED
    BY <1>1, <1>2 DEF Nhi!Next, Beside

LEMMA NhiStep == ASSUME NhiInv, Nhi!Next PROVE NhiInv'
BY NhiSteps, BesideStep, NhiCrashStep DEF IdentityStep, HandlerStep

LEMMA NhiSame == ASSUME NhiInv, UNCHANGED Nhi!vars PROVE NhiInv'
<1>1. UNCHANGED <<there, row, owners, told, campaigns, work>>
    BY DEF Nhi!vars, Nhi!identities, Nhi!risks
<1>2. IdentitiesOK' /\ OwnersOK' /\ StillThere /\ NotesOK' /\ CampaignsOK'
    BY <1>1, Untouched, NotesKept, CampaignsKept DEF NhiInv, DataOK
<1>3. Lasts
    BY <1>1, <1>2, LastsOf DEF StillThere
<1>. QED
    BY <1>1, <1>2, <1>3, WorkStands DEF NhiInv, DataOK

LEMMA NhiStarts ==
    ASSUME NEW exist \in SUBSET Apps, NEW known \in SUBSET exist, Starts(known, exist)
    PROVE  NhiInv /\ NhiAlone
<1>1. /\ there = [a \in Apps |-> IF a \in exist THEN [status |-> "ACTIVE", credential |-> "far"] ELSE Nhi!None]
      /\ row = [a \in Apps |-> IF a \in known THEN Nhi!Upserted(Nhi!None, there[a]) ELSE Nhi!None]
      /\ owners = Nhi!Known \X People /\ told = [k \in Nhi!Keys |-> 0] /\ campaigns = <<>>
      /\ work = [q \in Nhi!Procs |-> Nhi!Idle] /\ broken = [f \in Nhi!Faults |-> 0]
    BY DEF Starts
<1>2. [status |-> "ACTIVE", credential |-> "far"] \in Nhi!Identity
    BY DEF Nhi!Identity
<1>3. there \in [Apps -> Nhi!Identity \cup {Nhi!None}] /\ \A a \in exist : there[a] \in Nhi!Identity
    BY <1>1, <1>2
<1>4. ASSUME NEW a \in Apps
      PROVE  row[a] \in Nhi!Rows \cup {Nhi!None} /\ (row[a] # Nhi!None => there[a] # Nhi!None)
  <2>1. CASE a \in known
    <3>1. there[a] \in Nhi!Identity
        BY <1>3, <2>1
    <3>2. row[a] = Nhi!Upserted(Nhi!None, there[a])
        BY <1>1, <2>1
    <3>3. row[a] \in Nhi!Rows
        BY <3>1, <3>2, UpsertedShape
    <3>. QED
        BY <3>1, <3>3, Unlike
  <2>2. CASE a \notin known
      BY <1>1, <2>2
  <2>. QED
      BY <2>1, <2>2
<1>5. IdentitiesOK
    BY <1>1, <1>3, <1>4 DEF IdentitiesOK
<1>6. OwnersOK /\ NotesOK /\ CampaignsOK
    BY <1>1 DEF OwnersOK, NotesOK, CampaignsOK
<1>7. WorkOK
  <2>1. ASSUME NEW x \in Nhi!Procs PROVE Work(work[x]) /\ Relies(work[x])
      BY <1>1, IdleWork
  <2>. QED
      BY <1>1, <2>1 DEF WorkOK
<1>8. Steady(Nhi!Idle)
  <2>1. OnceTold
      BY <1>1 DEF OnceTold
  <2>2. Heard(Nhi!Idle) /\ Gone(Nhi!Idle) /\ AtWork(Nhi!Idle)
      BY DEF Heard, Gone, AtWork, OfItem, Nhi!Idle
  <2>3. DOMAIN campaigns = {}
      BY <1>1
  <2>. QED
      BY <2>1, <2>2, <2>3 DEF Steady, Reviewing
<1>9. NhiAlone
    BY <1>1, <1>8 DEF NhiAlone, OneWork
<1>. QED
    BY <1>5, <1>6, <1>7, <1>9 DEF NhiInv, DataOK

-----------------------------------------------------------------------------
(***************************************************************************)
(* One handler at a time.                                                  *)
(***************************************************************************)
OneTurn == Cardinality(Nhi!Busy') <= 1 /\ (Nhi!Busy # {} => work' # work)

LEMMA Alternate ==
    ASSUME WorkOK, OneWork, OneTurn, NEW q \in Nhi!Procs, NEW h, work' = [work EXCEPT ![q] = h]
    PROVE  OneWork'
<1>1. work'[q] = h /\ \A x \in Nhi!Procs \ {q} : work'[x] = work[x]
    BY DEF WorkOK
<1>2. SUFFICES ASSUME NEW a \in Nhi!Procs, NEW b \in Nhi!Procs, work'[a] # Nhi!Idle, work'[b] # Nhi!Idle, a # b PROVE FALSE
    BY DEF OneWork
<1>3. Nhi!Busy' = {a, b}
  <2>1. Nhi!Busy' \subseteq {a, b}
      BY <1>1, <1>2 DEF OneWork, Nhi!Busy
  <2>. QED
      BY <1>2, <2>1 DEF Nhi!Busy
<1>4. Cardinality({a, b}) = 2
  <2>1. {a, b} = {a} \cup {b} /\ b \notin {a}
      BY <1>2
  <2>2. IsFiniteSet({a}) /\ Cardinality({a}) = 1
      BY FS_Singleton
  <2>3. Cardinality({a} \cup {b}) = Cardinality({a}) + 1
      BY <2>1, <2>2, FS_AddElement
  <2>. QED
      BY <2>1, <2>2, <2>3
<1>. QED
    BY <1>3, <1>4 DEF OneTurn

\* The handler that goes on is the one under way, if there is one.
LEMMA Sole ==
    ASSUME NhiInv, NhiAlone, OneTurn, NEW q \in Nhi!Procs, NEW h, work' = [work EXCEPT ![q] = h]
    PROVE  OneWork' /\ (\A x \in Nhi!Procs \ {q} : work[x] = Nhi!Idle) /\ Steady(work[q])
<1>1. OneWork'
    BY Alternate DEF NhiInv, NhiAlone
<1>2. work'[q] = h /\ \A x \in Nhi!Procs \ {q} : work'[x] = work[x]
    BY DEF NhiInv, WorkOK
<1>3. \A x \in Nhi!Procs \ {q} : work[x] = Nhi!Idle
  <2>1. SUFFICES ASSUME NEW x \in Nhi!Procs \ {q}, work[x] # Nhi!Idle PROVE FALSE
      OBVIOUS
  <2>2. work[q] = Nhi!Idle /\ h = Nhi!Idle
      BY <1>1, <1>2, <2>1 DEF NhiAlone, OneWork
  <2>3. work' = work
      BY <2>2 DEF NhiInv, WorkOK
  <2>4. Nhi!Busy # {}
      BY <2>1 DEF Nhi!Busy
  <2>. QED
      BY <2>3, <2>4 DEF OneTurn
<1>. QED
    BY <1>1, <1>3 DEF NhiAlone

LEMMA GoesOnAlone ==
    ASSUME NhiInv, NhiAlone, OneTurn, broken' \in [Nhi!Faults -> Nat],
           NEW q \in Nhi!Procs, NEW o, o = work[q], NEW h, work' = [work EXCEPT ![q] = h], Steady(o) => Steady(h)'
    PROVE  NhiAlone'
<1>1. OneWork' /\ (\A x \in Nhi!Procs \ {q} : work[x] = Nhi!Idle) /\ Steady(h)'
  <2>1. OneWork' /\ (\A x \in Nhi!Procs \ {q} : work[x] = Nhi!Idle) /\ Steady(work[q])
      BY Sole
  <2>. QED
      BY <2>1
<1>2. work'[q] = h /\ \A x \in Nhi!Procs \ {q} : work'[x] = Nhi!Idle
    BY <1>1 DEF NhiInv, WorkOK
<1>3. ASSUME NEW p \in Nhi!Procs, \A x \in Nhi!Procs \ {p} : work'[x] = Nhi!Idle PROVE Steady(work[p])'
  <2>1. work'[p] = h
      BY <1>2, <1>3
  <2>. QED
      BY <1>1, <2>1 DEF Steady, Heard, Gone, Reviewing, Settled, Followed, AtWork
<1>. QED
    BY <1>1, <1>3 DEF NhiAlone

\* Between handlers.
LEMMA StandsAlone ==
    ASSUME NhiInv, NhiAlone, OneTurn, broken' \in [Nhi!Faults -> Nat], work' = work, Steady(Nhi!Idle) => Steady(Nhi!Idle)'
    PROVE  NhiAlone'
<1>1. \A x \in Nhi!Procs : work[x] = Nhi!Idle
    BY DEF OneTurn, Nhi!Busy
<1>2. Syncer \in Nhi!Procs
    BY DEF Nhi!Procs
<1>3. PICK o : o = work[Syncer]
    OBVIOUS
<1>4. o = Nhi!Idle /\ work' = [work EXCEPT ![Syncer] = o]
    BY <1>1, <1>2, <1>3 DEF NhiInv, WorkOK
<1>5. Steady(o) => Steady(o)'
    BY <1>4 DEF Steady, Heard, Gone, Reviewing, Settled, Followed, AtWork
<1>. QED
    BY <1>2, <1>3, <1>4, <1>5, GoesOnAlone

LEMMA FaultCounted ==
    ASSUME OneFault, broken \in [Nhi!Faults -> Nat]
    PROVE  broken' \in [Nhi!Faults -> Nat] /\ (Nhi!Count("crash") => broken'["crash"] # 0)
BY DEF OneFault, Nhi!Count, Nhi!Faults

LEMMA NhiCrashAlone == ASSUME NhiInv, NhiAlone, Nhi!Crash PROVE NhiAlone'
<1>1. UNCHANGED <<told, campaigns>> /\ Nhi!Count("crash") /\ work' = [x \in Nhi!Procs |-> Nhi!Idle]
    BY NhiCrashStep
<1>2. OneFault
    BY <1>1 DEF OneFault, Nhi!Faults
<1>3. broken' \in [Nhi!Faults -> Nat] /\ broken'["crash"] # 0
    BY <1>1, <1>2, FaultCounted DEF NhiAlone
<1>4. \E q \in Nhi!Procs : \A x \in Nhi!Procs \ {q} : work[x] = Nhi!Idle
  <2>1. CASE \E q \in Nhi!Procs : work[q] # Nhi!Idle
      BY <2>1 DEF NhiAlone, OneWork
  <2>2. CASE \A q \in Nhi!Procs : work[q] = Nhi!Idle
      BY <2>2 DEF Nhi!Procs
  <2>. QED
      BY <2>1, <2>2
<1>5. OnceTold
    BY <1>4 DEF NhiAlone, Steady
<1>6. Steady(Nhi!Idle)'
  <2>1. OnceTold'
      BY <1>1, <1>5 DEF OnceTold, Nhi!Keys, Nhi!Risks
  <2>2. Heard(Nhi!Idle)' /\ Gone(Nhi!Idle)'
      BY DEF Heard, Gone, Nhi!Idle
  <2>. QED
      BY <1>3, <2>1, <2>2 DEF Steady
<1>7. OneWork'
    BY <1>1 DEF OneWork
<1>8. ASSUME NEW p \in Nhi!Procs PROVE Steady(work[p])'
  <2>1. work'[p] = Nhi!Idle
      BY <1>1
  <2>. QED
      BY <1>6, <2>1 DEF Steady, Heard, Gone, Reviewing, Settled, Followed, AtWork, Nhi!Idle
<1>. QED
    BY <1>3, <1>7, <1>8 DEF NhiAlone

LEMMA IdentityAlone == ASSUME NhiInv, NhiAlone, OneTurn, NEW q \in Nhi!Procs, IdentityStep(q) PROVE NhiAlone'
<1>1. UNCHANGED <<told, campaigns>> /\ OneFault /\ Plain(work[q])
    BY DEF IdentityStep
<1>2. broken \in [Nhi!Faults -> Nat] /\ broken' \in [Nhi!Faults -> Nat]
    BY <1>1, FaultCounted DEF NhiAlone
<1>3. CASE work' = work
  <2>1. PICK o : o = Nhi!Idle
      OBVIOUS
  <2>2. Steady(o) => Steady(o)'
      BY <1>1, <1>2, <2>1, IdlePlain, PlainSteady
  <2>3. Steady(Nhi!Idle) => Steady(Nhi!Idle)'
      BY <2>1, <2>2 DEF Steady, Heard, Gone, Reviewing, Settled, Followed, AtWork
  <2>. QED
      BY <1>2, <1>3, <2>3, StandsAlone
<1>4. CASE \E h : work' = [work EXCEPT ![q] = h] /\ Plain(h)
  <2>1. PICK h : work' = [work EXCEPT ![q] = h] /\ Plain(h)
      BY <1>4
  <2>2. PICK o : o = work[q]
      OBVIOUS
  <2>3. Plain(o)
      BY <1>1, <2>2
  <2>4. Steady(o) => Steady(h)'
      BY <1>1, <1>2, <2>1, <2>3, PlainSteady
  <2>. QED
      BY <1>2, <2>1, <2>2, <2>4, GoesOnAlone
<1>. QED
    BY <1>3, <1>4 DEF IdentityStep

LEMMA NhiAloneStep == ASSUME NhiInv, NhiAlone, OneTurn, Nhi!Next PROVE NhiAlone'
<1>1. CASE Beside
  <2>1. UNCHANGED <<work, broken>> /\ broken \in [Nhi!Faults -> Nat] /\ (Steady(Nhi!Idle) => Steady(Nhi!Idle)')
      BY <1>1, BesideStep DEF NhiAlone
  <2>. QED
      BY <2>1, StandsAlone
<1>2. ASSUME NEW q \in Nhi!Procs, HandlerStep(q) PROVE NhiAlone'
  <2>1. PICK o, h : o = work[q] /\ work' = [work EXCEPT ![q] = h] /\ (Steady(o) => Steady(h)')
      BY <1>2 DEF HandlerStep
  <2>2. broken' \in [Nhi!Faults -> Nat]
      BY <1>2 DEF HandlerStep, NhiAlone
  <2>. QED
      BY <2>1, <2>2, GoesOnAlone
<1>. QED
    BY <1>1, <1>2, NhiSteps, IdentityAlone, NhiCrashAlone

LEMMA NhiAloneSame == ASSUME NhiAlone, UNCHANGED Nhi!vars PROVE NhiAlone'
<1>1. UNCHANGED <<row, owners, accepted, telling, told, campaigns, work, broken>>
    BY DEF Nhi!vars, Nhi!identities, Nhi!risks
<1>2. OneWork' /\ (broken \in [Nhi!Faults -> Nat])'
    BY <1>1 DEF NhiAlone, OneWork
<1>3. ASSUME NEW o, Steady(o) PROVE Steady(o)'
  <2>1. OnceTold' /\ Gone(o)'
      BY <1>1, <1>3 DEF Steady, OnceTold, Gone, Nhi!Keys, Nhi!Risks, Nhi!Pending
  <2>2. Nhi!OpenOf(Nhi!Topic(o.topics))' = Nhi!OpenOf(Nhi!Topic(o.topics))
      BY <1>1 DEF Nhi!OpenOf, Nhi!Keys, Nhi!Risks
  <2>3. Heard(o)'
      BY <1>1, <1>3, <2>2, FlaggedStays DEF Steady, Heard, Nhi!Keys, Nhi!Risks
  <2>4. Reviewing(o) => Reviewing(o)'
      BY <1>1 DEF Reviewing, AtWork, Settled, Followed, Nhi!Pending, Nhi!Recurs, Nhi!Children, LeaverItem
  <2>. QED
      BY <1>1, <1>3, <2>1, <2>3, <2>4 DEF Steady
<1>4. ASSUME NEW q \in Nhi!Procs, \A x \in Nhi!Procs \ {q} : work'[x] = Nhi!Idle PROVE Steady(work[q])'
  <2>1. PICK o : o = work[q]
      OBVIOUS
  <2>2. Steady(o)
      BY <1>1, <1>4, <2>1 DEF NhiAlone
  <2>3. Steady(o)' /\ work'[q] = o
      BY <1>1, <1>3, <2>1, <2>2
  <2>. QED
      BY <2>3 DEF Steady, Heard, Gone, Reviewing, Settled, Followed, AtWork
<1>. QED
    BY <1>2, <1>4 DEF NhiAlone

-----------------------------------------------------------------------------
(***************************************************************************)
(* What follows.                                                           *)
(***************************************************************************)
WideNhi == NhiInv /\ (breadth = 1 => NhiAlone)

LEMMA WideNhiHolds == PacedNhiSpec => []WideNhi
<1>1. (\E exist \in SUBSET Apps : \E known \in SUBSET exist : Starts(known, exist)) => WideNhi
    BY NhiStarts DEF WideNhi
<1>2. WideNhi /\ [PacedNhi]_<<Nhi!vars, breadth>> => WideNhi'
  <2>1. ASSUME WideNhi, PacedNhi PROVE WideNhi'
    <3>1. NhiInv /\ Nhi!Next /\ breadth' = breadth
        BY <2>1 DEF WideNhi, PacedNhi
    <3>2. NhiInv'
        BY <3>1, NhiStep
    <3>3. ASSUME breadth = 1 PROVE NhiAlone'
      <4>1. NhiAlone
          BY <2>1, <3>3 DEF WideNhi
      <4>2. OneTurn
          BY <2>1, <3>3 DEF PacedNhi, OneTurn
      <4>. QED
          BY <3>1, <4>1, <4>2, NhiAloneStep
    <3>. QED
        BY <3>1, <3>2, <3>3 DEF WideNhi
  <2>2. ASSUME WideNhi, UNCHANGED <<Nhi!vars, breadth>> PROVE WideNhi'
      BY <2>2, NhiSame, NhiAloneSame DEF WideNhi
  <2>. QED
      BY <2>1, <2>2
<1>. QED
    BY <1>1, <1>2, PTL DEF PacedNhiSpec

\* Whoever is under way is alone.
LEMMA NoOther ==
    ASSUME NhiAlone, NEW q \in Nhi!Procs, work[q] # Nhi!Idle
    PROVE  Steady(work[q]) /\ \A x \in Nhi!Procs \ {q} : work[x] = Nhi!Idle
<1>1. \A x \in Nhi!Procs \ {q} : work[x] = Nhi!Idle
    BY DEF NhiAlone, OneWork
<1>. QED
    BY <1>1 DEF NhiAlone

LEMMA SomeSteady ==
    ASSUME NhiAlone
    PROVE  \E q \in Nhi!Procs : Steady(work[q]) /\ \A x \in Nhi!Procs \ {q} : work[x] = Nhi!Idle
<1>1. CASE \E q \in Nhi!Procs : work[q] # Nhi!Idle
    BY <1>1, NoOther
<1>2. CASE \A q \in Nhi!Procs : work[q] = Nhi!Idle
  <2>1. Syncer \in Nhi!Procs
      BY DEF Nhi!Procs
  <2>. QED
      BY <1>2, <2>1 DEF NhiAlone
<1>. QED
    BY <1>1, <1>2

LEMMA CountsAsBefore == ASSUME NEW S PROVE Nhi!Cardinality(S) = Cardinality(S)
BY DEF Nhi!Cardinality, Cardinality

LEMMA ReviewsGoOn ==
    ASSUME NhiInv, NhiAlone, broken["crash"] = 0
    PROVE  Nhi!CampaignsClose /\ Nhi!OneSuccessor
<1>1. PICK q \in Nhi!Procs : Steady(work[q]) /\ \A x \in Nhi!Procs \ {q} : work[x] = Nhi!Idle
    BY SomeSteady
<1>2. PICK o : o = work[q]
    OBVIOUS
<1>3. Reviewing(o)
    BY <1>1, <1>2 DEF Steady
<1>4. Nhi!CampaignsClose
  <2>1. SUFFICES ASSUME NEW c \in DOMAIN campaigns
                 PROVE  /\ campaigns[c].status = "COMPLETED" => Nhi!Pending(c) = {}
                        /\ campaigns[c].status = "ACTIVE" /\ Nhi!Pending(c) = {} /\ DOMAIN campaigns[c].items # {} =>
                             Nhi!Closing(c) \/ \E i \in DOMAIN campaigns[c].items : campaigns[c].items[i] = "OWNER_REMOVED_LEAVER"
      BY DEF Nhi!CampaignsClose
  <2>2. o.kind = "count" /\ o.campaign = c => Nhi!Closing(c)
      BY <1>2 DEF Nhi!Closing
  <2>. QED
      BY <1>3, <2>2 DEF Reviewing, Settled, LeaverItem
<1>5. Nhi!OneSuccessor
  <2>1. SUFFICES ASSUME NEW c \in DOMAIN campaigns, Nhi!Recurs(c)
                 PROVE  IF campaigns[c].status = "ACTIVE" THEN Nhi!Children(c) = {}
                        ELSE Nhi!Cardinality(Nhi!Children(c))
                               + Nhi!Cardinality({x \in Nhi!Procs : work[x].kind \in {"spawn", "link"} /\ work[x].campaign = c}) = 1
      BY DEF Nhi!OneSuccessor
  <2>2. Followed(o, c)
      BY <1>3, <2>1 DEF Reviewing
  <2>3. campaigns[c].status \in {"ACTIVE", "COMPLETED"}
      BY CampaignIs DEF NhiInv, DataOK
  <2>4. PICK S : S = {x \in Nhi!Procs : work[x].kind \in {"spawn", "link"} /\ work[x].campaign = c}
      OBVIOUS
  <2>5. Nhi!Idle.kind = "idle"
      BY DEF Nhi!Idle
  <2>6. CASE campaigns[c].status = "ACTIVE"
      BY <2>2, <2>6 DEF Followed
  <2>7. CASE campaigns[c].status = "COMPLETED" /\ o.kind \in {"spawn", "link"} /\ o.campaign = c
    <3>1. S = {q}
        BY <1>1, <1>2, <2>4, <2>5, <2>7
    <3>2. Nhi!Children(c) = {}
        BY <2>2, <2>7 DEF Followed
    <3>3. Nhi!Cardinality(S) = 1 /\ Nhi!Cardinality(Nhi!Children(c)) = 0
        BY <3>1, <3>2, FS_Singleton, FS_EmptySet, CountsAsBefore
    <3>. QED
        BY <2>4, <2>7, <3>3
  <2>8. CASE campaigns[c].status = "COMPLETED" /\ ~(o.kind \in {"spawn", "link"} /\ o.campaign = c)
    <3>1. S = {}
        BY <1>1, <1>2, <2>4, <2>5, <2>8
    <3>2. PICK d : Nhi!Children(c) = {d}
        BY <2>2, <2>8 DEF Followed
    <3>3. Nhi!Cardinality(S) = 0 /\ Nhi!Cardinality(Nhi!Children(c)) = 1
        BY <3>1, <3>2, FS_Singleton, FS_EmptySet, CountsAsBefore
    <3>. QED
        BY <2>4, <2>8, <3>3
  <2>. QED
      BY <2>3, <2>6, <2>7, <2>8
<1>. QED
    BY <1>4, <1>5

\* Identities, rows, owners, notifications and campaigns keep their shape whatever handlers run
\* at once; with one handler at a time, none of which the process dies in, a campaign of which
\* every item is decided is closed and a closed recurring one that no workflow decides has one
\* successor, however owners, leavers and workflows decide items meanwhile
\* (nhi_reviews.decide_item, workflows._apply_nhi_review_item_outcome).
THEOREM NhiReviewsAlone == PacedNhiSpec => []AloneReviewsGoOn
<1>1. WideNhi => AloneReviewsGoOn
  <2>1. ASSUME WideNhi PROVE Nhi!TypeOK
      BY <2>1, DataTyped DEF WideNhi, NhiInv
  <2>2. ASSUME WideNhi, breadth = 1, broken["crash"] = 0 PROVE Nhi!CampaignsClose /\ Nhi!OneSuccessor
      BY <2>2, ReviewsGoOn DEF WideNhi
  <2>. QED
      BY <2>1, <2>2 DEF AloneReviewsGoOn
<1>. QED
    BY <1>1, WideNhiHolds, PTL

\* With one handler at a time, whoever has looked at the risks finds one open notification of each
\* identity at a risk that is told of, and none of any other, whatever a crash left of earlier
\* looks (nhi_notifications.reconcile_nhi_notifications).
THEOREM NhiRisksNotedAlone == PacedNhiSpec => []AloneRisksNoted
<1>1. WideNhi => AloneRisksNoted
  <2>1. SUFFICES ASSUME WideNhi, breadth = 1, NEW q \in Governors, work[q].kind = "look", work[q].topics = {},
                        NEW k \in Nhi!Keys, k[1] \in telling
                 PROVE  told[k] = IF k \in Nhi!Flagged THEN 1 ELSE 0
      BY DEF AloneRisksNoted, Nhi!Noted
  <2>2. q \in Nhi!Procs /\ work[q] # Nhi!Idle
      BY <2>1 DEF Nhi!Procs, Nhi!Idle
  <2>3. Heard(work[q])
      BY <2>1, <2>2, NoOther DEF WideNhi, Steady
  <2>. QED
      BY <2>1, <2>3 DEF Heard
<1>. QED
    BY <1>1, WideNhiHolds, PTL

\* With one handler at a time, nobody is asked to confirm an ownership when a leaver's process
\* takes it away, in whichever campaigns it was pending (lifecycle._remove_nhi_ownerships).
THEOREM NhiLeaversAlone == PacedNhiSpec => AloneLeaversLeaveNothing
<1>1. WideNhi => (breadth = 1 => Nhi!LeaverNotAsked)
  <2>1. SUFFICES ASSUME WideNhi, breadth = 1, NEW q \in Governors, Nhi!LeaverDrops(q), NEW c \in DOMAIN campaigns
                 PROVE  <<work[q].at[1], work[q].who>> \notin Nhi!Pending(c)
      BY DEF Nhi!LeaverNotAsked
  <2>2. q \in Nhi!Procs /\ work[q].kind = "leave" /\ work[q].at # <<>> /\ work[q] # Nhi!Idle
      BY <2>1 DEF Nhi!Procs, Nhi!Idle, Nhi!LeaverDrops
  <2>3. Gone(work[q])
      BY <2>1, <2>2, NoOther DEF WideNhi, Steady
  <2>. QED
      BY <2>2, <2>3 DEF Gone
<1>. QED
    BY <1>1, WideNhiHolds, PTL DEF AloneLeaversLeaveNothing
=============================================================================
