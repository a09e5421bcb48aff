---------------------------- MODULE LeaverProofs ----------------------------
(***************************************************************************)
(* Proofs about Leaver, for every value of its constants: the type         *)
(* invariant, that the label DELETED may be trusted, that whoever is       *)
(* recorded as having left keeps nothing, and that nobody else loses       *)
(* access or accounts.                                                     *)
(*                                                                         *)
(* DeletedIsGone speaks of the person's row and the directories only; what *)
(* joins them are the account rows and what a deletion in flight holds     *)
(* (DeletionInv).  The frame is the same for all actions: no account comes *)
(* back from DELETED in a directory, and requests do not vanish (Kept), so *)
(* a step of one handler leaves true what the others hold (Moves).         *)
(***************************************************************************)
EXTENDS MCLeaver, FiniteSetTheorems, TLAPS

Kinds  == Leaving \cup {"account", "person", "start", "deny", "return", "deletion"}
Phases == {"take", "linked", "accounts", "record", "apply", "delete", "mark"}

Sound(o) == CopiesTrue(o) /\ HowFar(o) /\ Orderly(o)

\* A handler in flight is a Handler, and knows what it is to know.
LEMMA InFlight ==
    ASSUME DeletionInv, NEW p \in Procs, op[p] # Idle
    PROVE  op[p] \in Handler /\ Sound(op[p])
BY DEF DeletionInv, TypeOK, OpsSound, Sound

\* Directories do not undo a deletion; requests stay.
Kept ==
    /\ \A a \in Accounts : DeletedThere(a) => DeletedThere(a)'
    /\ \A r \in LeaverRows : requests[r] # Absent => requests'[r] # Absent
    /\ \A r \in ReturnRows : returns[r] # Absent => returns'[r] # Absent

\* What a handler knows survives such a step.
LEMMA StaysSound ==
    ASSUME NEW o \in Handler, Sound(o), Kept
    PROVE  Sound(o)'
<1>1. CopiesTrue(o)'
    BY DEF Sound, CopiesTrue, Kept
<1>2. HowFar(o)'
    BY DEF Sound, HowFar, Kept
<1>3. Orderly(o)'
    BY DEF Sound, Orderly, Kept
<1>. QED
    BY <1>1, <1>2, <1>3 DEF Sound

\* The variables other than op, as TypeOK has them.
Typed ==
    /\ user \in Person
    /\ account \in [Switchable -> Status] /\ dir \in [Switchable -> Status]
    /\ held \subseteq Holdings /\ by \in [Accounts -> {"nobody", "directory", "accesspilot"}]
    /\ requests \in [LeaverRows -> {Absent} \cup [status : {"PENDING", "APPROVED", "DENIED"}, off : SUBSET Accounts]]
    /\ returns \in [ReturnRows -> {Absent} \cup [status : {"PENDING", "APPROVED", "REJECTED"}, scope : SUBSET Accounts]]
    /\ edits \in 0..MaxEdits /\ faults \in 0..MaxFaults

\* A step in which handler p becomes h.
LEMMA Moves ==
    ASSUME DeletionInv, NEW p \in Procs, NEW h \in Handler, op' = [op EXCEPT ![p] = h],
           Typed', Kept, RowsTrue', DeletedIsGone', Sound(h)'
    PROVE  DeletionInv'
<1>1. op' \in [Procs -> Handler \cup {Idle}]
    BY DEF DeletionInv, TypeOK
<1>2. TypeOK'
    BY <1>1 DEF TypeOK, Typed
<1>3. OpsSound'
    <2>. SUFFICES ASSUME NEW q \in Procs, op'[q] # Idle
                  PROVE  (CopiesTrue(op[q]) /\ HowFar(op[q]) /\ Orderly(op[q]))'
        BY DEF OpsSound
    <2>1. CASE q = p
        <3>1. op'[q] = h
            BY <2>1 DEF DeletionInv, TypeOK
        <3>. QED
            BY <3>1 DEF Sound, CopiesTrue, HowFar, Orderly
    <2>2. CASE q # p
        <3>1. op'[q] = op[q]
            BY <2>2 DEF DeletionInv, TypeOK
        <3>2. Sound(op[q])'
            BY <3>1, InFlight, StaysSound DEF Sound, CopiesTrue, HowFar, Orderly
        <3>. QED
            BY <3>2 DEF Sound
    <2>. QED
        BY <2>1, <2>2
<1>. QED
    BY <1>2, <1>3 DEF DeletionInv

\* A step after which each handler is what it was, or idle.
LEMMA Stops ==
    ASSUME DeletionInv, op' \in [Procs -> Handler \cup {Idle}], \A q \in Procs : op'[q] \in {op[q], Idle},
           Typed', Kept, RowsTrue', DeletedIsGone'
    PROVE  DeletionInv'
<1>1. TypeOK'
    BY DEF TypeOK, Typed
<1>2. OpsSound'
    <2>. SUFFICES ASSUME NEW q \in Procs, op'[q] # Idle
                  PROVE  (CopiesTrue(op[q]) /\ HowFar(op[q]) /\ Orderly(op[q]))'
        BY DEF OpsSound
    <2>1. op'[q] = op[q]
        OBVIOUS
    <2>2. Sound(op[q])'
        BY <2>1, InFlight, StaysSound DEF Sound, CopiesTrue, HowFar, Orderly
    <2>. QED
        BY <2>2 DEF Sound
<1>. QED
    BY <1>1, <1>2 DEF DeletionInv

\* RowsTrue and DeletedIsGone when account and user, as far as they matter, stay.
LEMMA LabelsStay ==
    ASSUME DeletionInv, Kept, user'.gone => user.gone,
           \A a \in Accounts : account'[a] = "DELETED" => account[a] = "DELETED" \/ DeletedThere(a)
    PROVE  RowsTrue' /\ DeletedIsGone'
BY DEF DeletionInv, Kept, RowsTrue, DeletedIsGone, DeletedThere

\* A new handler.
LEMMA NewOpTyped ==
    ASSUME TypeOK, NEW kind \in Kinds, NEW on \in BOOLEAN
    PROVE  /\ NewOp(kind, on) \in Handler
           /\ CopiesTrue(NewOp(kind, on))
           /\ NewOp(kind, on).phase = "accounts" /\ NewOp(kind, on).kind = kind /\ NewOp(kind, on).row = NoRow
           /\ NewOp(kind, on).todo = {} /\ NewOp(kind, on).done = {} /\ NewOp(kind, on).cur = NoAccount
           /\ NewOp(kind, on).user = user
<1>1. NoPolicy \in Policy
    BY DEF NoPolicy, Policy
<1>2. [a \in Switchable |-> Unread] \in [Switchable -> Status \cup {Unread}]
    OBVIOUS
<1>3. NewOp(kind, on) \in Handler
    BY <1>1, <1>2 DEF NewOp, Handler, TypeOK, Kinds
<1>. QED
    BY <1>3 DEF NewOp, CopiesTrue, Unread, Switchable

\* Reading rows into the session: only rows not read yet are taken.
LEMMA LoadTyped ==
    ASSUME DeletionInv, NEW o \in Handler, CopiesTrue(o), NEW S
    PROVE  /\ Load(o, S) \in Handler /\ CopiesTrue(Load(o, S))
           /\ Load(o, S) = [o EXCEPT !.accts = Load(o, S).accts]
           /\ Load(o, S).phase = o.phase /\ Load(o, S).kind = o.kind /\ Load(o, S).row = o.row
           /\ Load(o, S).todo = o.todo /\ Load(o, S).done = o.done /\ Load(o, S).cur = o.cur
           /\ Load(o, S).failed = o.failed /\ Load(o, S).user = o.user
           /\ Load(o, S).skip = o.skip /\ Load(o, S).on = o.on
           /\ \A a \in S \cap Switchable : Load(o, S).accts[a] \in Status
<1>. DEFINE f == [a \in Switchable |-> IF a \in S /\ o.accts[a] = Unread THEN account[a] ELSE o.accts[a]]
<1>1. f \in [Switchable -> Status \cup {Unread}]
    BY DEF DeletionInv, TypeOK, Handler
<1>2. \A a \in Accounts : f[a] = "DELETED" => DeletedThere(a)
    BY DEF DeletionInv, RowsTrue, CopiesTrue, Switchable
<1>3. \A a \in S \cap Switchable : f[a] \in Status
    BY DEF DeletionInv, TypeOK, Handler
<1>4. Load(o, S) = [o EXCEPT !.accts = f]
    BY DEF Load
<1>5. /\ Load(o, S) \in Handler /\ Load(o, S).accts = f
      /\ Load(o, S).phase = o.phase /\ Load(o, S).kind = o.kind /\ Load(o, S).row = o.row
      /\ Load(o, S).todo = o.todo /\ Load(o, S).done = o.done /\ Load(o, S).cur = o.cur
      /\ Load(o, S).failed = o.failed /\ Load(o, S).user = o.user
      /\ Load(o, S).skip = o.skip /\ Load(o, S).on = o.on
    <2>. HIDE DEF f
    <2>. QED
        BY <1>1, <1>4 DEF Handler
<1>. HIDE DEF f
<1>. QED
    BY <1>2, <1>3, <1>4, <1>5 DEF CopiesTrue

\* Bringing the primary row in step with the person.
LEMMA PrimaryMirrored ==
    ASSUME DeletionInv, NEW o \in Handler, CopiesTrue(o)
    PROVE  /\ Mirrored(o) \in Status
           /\ Mirrored(o) = "DELETED" => DeletedThere(Primary)
           /\ EnsurePrimary(o) =>
                 /\ account' \in [Switchable -> Status]
                 /\ \A a \in Accounts : account'[a] = "DELETED" => account[a] = "DELETED" \/ DeletedThere(a)
<1>1. Primary \in Accounts /\ Primary \in Switchable
    BY ConstantsAssumption DEF Switchable
<1>2. Mirrored(o) \in Status /\ (Mirrored(o) = "DELETED" => DeletedThere(Primary))
    BY <1>1, LoadTyped DEF Mirrored, CopiesTrue, Status
<1>3. account \in [Switchable -> Status]
    BY DEF DeletionInv, TypeOK
<1>4. ASSUME EnsurePrimary(o)
      PROVE  account' = account \/ account' = [account EXCEPT ![Primary] = Mirrored(o)]
    BY <1>4 DEF EnsurePrimary
<1>5. ASSUME EnsurePrimary(o)
      PROVE  /\ account' \in [Switchable -> Status]
             /\ \A a \in Accounts : account'[a] = "DELETED" => account[a] = "DELETED" \/ DeletedThere(a)
    <2>. DEFINE m == Mirrored(o)
    <2>1. account' = account \/ account' = [account EXCEPT ![Primary] = m]
        BY <1>4, <1>5
    <2>2. m \in Status /\ (m = "DELETED" => DeletedThere(Primary))
        BY <1>2
    <2>3. \A a \in Accounts : a \in Switchable
        BY DEF Switchable
    <2>. HIDE DEF m
    <2>. QED
        BY <1>1, <1>3, <2>1, <2>2, <2>3
<1>. QED
    BY <1>2, <1>5

\* Listing the accounts that are due for a call.
LEMMA ListedTyped ==
    ASSUME DeletionInv, NEW o \in Handler, CopiesTrue(o)
    PROVE  /\ Listed(o) \in Handler /\ CopiesTrue(Listed(o))
           /\ Listed(o).phase = "accounts" /\ Listed(o).kind = o.kind /\ Listed(o).row = o.row
           /\ Listed(o).todo \subseteq Accounts /\ Listed(o).done = o.done /\ Listed(o).cur = o.cur
<1>. DEFINE b == Load(o, Accounts)
            l == [b EXCEPT !.accts[Primary] = Mirrored(o), !.phase = "accounts"]
            S == {a \in Accounts \ o.skip : Forced(o) \/ l.accts[a] # Target(o)}
<1>1. b \in Handler /\ CopiesTrue(b) /\ b.kind = o.kind /\ b.row = o.row /\ b.done = o.done /\ b.cur = o.cur
    BY LoadTyped
<1>2. Primary \in Switchable /\ Mirrored(o) \in Status /\ (Mirrored(o) = "DELETED" => DeletedThere(Primary))
    BY ConstantsAssumption, PrimaryMirrored DEF Switchable
<1>. HIDE DEF b
<1>3. b.accts \in [Switchable -> Status \cup {Unread}]
    BY <1>1 DEF Handler
<1>4. /\ l \in Handler /\ l.phase = "accounts" /\ l.kind = o.kind /\ l.row = o.row /\ l.done = o.done /\ l.cur = o.cur
      /\ l.accts = [b.accts EXCEPT ![Primary] = Mirrored(o)]
    BY <1>1, <1>2, <1>3 DEF Handler
<1>5. CopiesTrue(l)
    BY <1>1, <1>2, <1>3, <1>4 DEF CopiesTrue, Switchable
<1>6. Listed(o) = [l EXCEPT !.todo = S, !.already = (Accounts \ o.skip) \ S]
    BY DEF Listed, b
<1>7. S \subseteq Accounts /\ S \in SUBSET (Switchable \cup Holdings) /\ (Accounts \ o.skip) \ S \in SUBSET Accounts
    BY DEF Switchable
<1>. HIDE DEF l, S
<1>8. /\ Listed(o) \in Handler /\ Listed(o).accts = l.accts /\ Listed(o).phase = l.phase /\ Listed(o).kind = l.kind
      /\ Listed(o).row = l.row /\ Listed(o).todo = S /\ Listed(o).done = l.done /\ Listed(o).cur = l.cur
    BY <1>4, <1>6, <1>7 DEF Handler
<1>. QED
    BY <1>4, <1>5, <1>7, <1>8 DEF CopiesTrue

(***************************************************************************)
(* One lemma per action.                                                   *)
(***************************************************************************)
\* A step that starts or moves on a handler, and changes no row but perhaps the primary's.
LEMMA MovesOnly ==
    ASSUME DeletionInv, NEW p \in Procs, NEW h \in Handler, op' = [op EXCEPT ![p] = h],
           UNCHANGED <<dir, held, requests, returns, by, edits>>, user' \in Person, user'.gone = user.gone,
           account' \in [Switchable -> Status],
           \A a \in Accounts : account'[a] = "DELETED" => account[a] = "DELETED" \/ DeletedThere(a),
           faults' \in 0..MaxFaults, CopiesTrue(h), HowFar(h), Orderly(h)
    PROVE  DeletionInv'
<1>1. Kept
    BY DEF Kept, DeletedThere
<1>2. Typed'
    BY DEF DeletionInv, TypeOK, Typed
<1>3. Sound(h)'
    BY <1>1, StaysSound DEF Sound
<1>. QED
    BY <1>1, <1>2, <1>3, LabelsStay, Moves

LEMMA SetOneKeeps == ASSUME DeletionInv, NEW p \in Procs, SetOne(p) PROVE DeletionInv'
<1>1. PICK a \in Accounts, on \in BOOLEAN : op' = [op EXCEPT ![p] = [NewOp("account", on) EXCEPT !.todo = {a}]]
    BY DEF SetOne
<1>2. /\ NewOp("account", on) \in Handler /\ CopiesTrue(NewOp("account", on))
      /\ NewOp("account", on).phase = "accounts" /\ NewOp("account", on).kind = "account"
    BY NewOpTyped DEF DeletionInv, Kinds
<1>3. PICK h \in Handler : h = [NewOp("account", on) EXCEPT !.todo = {a}]
    BY <1>2 DEF Handler, Switchable
<1>4. CopiesTrue(h) /\ HowFar(h) /\ Orderly(h)
    BY <1>2, <1>3 DEF Handler, CopiesTrue, HowFar, Orderly, Switchable
<1>5. UNCHANGED <<user, account, dir, held, requests, returns, by, edits, faults>>
    BY DEF SetOne
<1>. QED
    BY <1>1, <1>3, <1>4, <1>5, MovesOnly DEF DeletionInv, TypeOK

LEMMA SetAllKeeps == ASSUME DeletionInv, NEW p \in Procs, SetAll(p) PROVE DeletionInv'
<1>1. PICK on \in BOOLEAN : EnsurePrimary(NewOp("person", on)) /\ op' = [op EXCEPT ![p] = Listed(NewOp("person", on))]
    BY DEF SetAll
<1>2. NewOp("person", on) \in Handler /\ CopiesTrue(NewOp("person", on)) /\ NewOp("person", on).kind = "person"
    BY NewOpTyped DEF DeletionInv, Kinds
<1>3. PICK h \in Handler : h = Listed(NewOp("person", on))
    BY <1>2, ListedTyped
<1>4. CopiesTrue(h) /\ h.phase = "accounts" /\ h.kind = "person" /\ h.todo \subseteq Accounts
    BY <1>2, <1>3, ListedTyped
<1>5. HowFar(h) /\ Orderly(h)
    BY <1>4 DEF HowFar, Orderly, Switchable
<1>. QED
    BY <1>1, <1>2, <1>3, <1>4, <1>5, PrimaryMirrored, MovesOnly DEF SetAll, DeletionInv, TypeOK

\* A step that ends a handler and changes nothing else.
LEMMA FinishSettingKeeps == ASSUME DeletionInv, NEW p \in Procs, FinishSetting(p) PROVE DeletionInv'
<1>1. /\ op' \in [Procs -> Handler \cup {Idle}] /\ \A q \in Procs : op'[q] \in {op[q], Idle}
      /\ UNCHANGED <<user, account, dir, held, requests, returns, by, edits, faults>>
    BY DEF FinishSetting, DeletionInv, TypeOK
<1>2. Kept
    BY <1>1 DEF Kept, DeletedThere
<1>3. Typed'
    BY <1>1 DEF DeletionInv, TypeOK, Typed
<1>. QED
    BY <1>1, <1>2, <1>3, LabelsStay, Stops

\* A step that ends handlers, and writes no row that matters to the others.
LEMMA EndsOnly ==
    ASSUME DeletionInv, op' \in [Procs -> Handler \cup {Idle}], \A q \in Procs : op'[q] \in {op[q], Idle},
           UNCHANGED <<account, dir, held>>, Kept, Typed', user'.gone = user.gone
    PROVE  DeletionInv'
BY LabelsStay, Stops

\* The directory is called: an account is switched there, or not.
CalledFor(p, a) ==
    /\ op[p].phase \in {"linked", "accounts"} /\ a \in op[p].todo
    /\ dir' = dir \/ (dir[a] # "DELETED" /\ dir' = [dir EXCEPT ![a] = Target(op[p])])

LEMMA CallKeeps ==
    ASSUME DeletionInv, NEW p \in Procs, op[p] # Idle, NEW a \in Switchable, CalledFor(p, a),
           NEW cur \in {a, op[p].cur}, NEW failed \in SUBSET (Switchable \cup Holdings),
           op' = [op EXCEPT ![p] = [Load(op[p], {a}) EXCEPT !.cur = cur, !.failed = failed, !.todo = @ \ {a}]],
           by' \in [Accounts -> {"nobody", "directory", "accesspilot"}], faults' \in 0..MaxFaults,
           UNCHANGED <<user, account, held, requests, returns, edits>>
    PROVE  DeletionInv'
<1>. DEFINE o == op[p]
            l == Load(o, {a})
<1>1. o \in Handler /\ Sound(o)
    BY InFlight
<1>2. /\ l \in Handler /\ CopiesTrue(l) /\ l.phase = o.phase /\ l.kind = o.kind /\ l.row = o.row
      /\ l.todo = o.todo /\ l.done = o.done
    BY <1>1, LoadTyped DEF Sound
<1>3. op' = [op EXCEPT ![p] = [l EXCEPT !.cur = cur, !.failed = failed, !.todo = @ \ {a}]]
    OBVIOUS
<1>4. cur \in Switchable \cup {NoAccount}
    BY <1>1 DEF Handler
<1>5. Target(o) \in {"ACTIVE", "DISABLED"} /\ o.phase \in {"linked", "accounts"} /\ a \in o.todo
    BY DEF Target, CalledFor
<1>6. dir' \in [Switchable -> Status] /\ Kept
    <2>1. dir \in [Switchable -> Status]
        BY DEF DeletionInv, TypeOK
    <2>2. dir' = dir \/ (dir[a] # "DELETED" /\ dir' = [dir EXCEPT ![a] = Target(o)])
        BY DEF CalledFor
    <2>. HIDE DEF o
    <2>. QED
        BY <1>5, <2>1, <2>2 DEF Kept, DeletedThere, Status, Switchable
<1>7. o.kind = "start" => cur \in Accounts \cup {NoAccount}
    BY <1>1, <1>5 DEF Sound, Orderly
<1>. HIDE DEF o, l
<1>8. PICK h \in Handler :
        /\ op' = [op EXCEPT ![p] = h] /\ h.accts = l.accts /\ h.phase = l.phase /\ h.kind = l.kind /\ h.row = l.row
        /\ h.todo = l.todo \ {a} /\ h.done = l.done /\ h.cur = cur
    <2>1. [l EXCEPT !.cur = cur, !.failed = failed, !.todo = @ \ {a}] \in Handler
        BY <1>2, <1>4 DEF Handler
    <2>. QED
        BY <1>2, <1>3, <2>1 DEF Handler
<1>9. Sound(h)
    BY <1>1, <1>2, <1>5, <1>7, <1>8 DEF Sound, CopiesTrue, HowFar, Orderly
<1>10. Typed'
    BY <1>6 DEF DeletionInv, TypeOK, Typed
<1>. QED
    BY <1>6, <1>8, <1>9, <1>10, StaysSound, LabelsStay, Moves

LEMMA TurnedTyped ==
    ASSUME DeletionInv, NEW a, NEW on
    PROVE  Turned(a, on) \in [Accounts -> {"nobody", "directory", "accesspilot"}]
BY DEF Turned, DeletionInv, TypeOK

LEMMA CallDirectoryKeeps == ASSUME DeletionInv, NEW p \in Procs, op[p] # Idle, CallDirectory(p) PROVE DeletionInv'
<1>1. PICK a \in op[p].todo :
        /\ op[p].phase \in {"linked", "accounts"} /\ dir[a] # "DELETED"
        /\ dir' = [dir EXCEPT ![a] = Target(op[p])] /\ by' = Turned(a, op[p].on)
        /\ op' = [op EXCEPT ![p] = [Load(op[p], {a}) EXCEPT !.cur = a, !.todo = @ \ {a}]]
    BY DEF CallDirectory
<1>2. op[p] \in Handler /\ a \in Switchable
    BY <1>1, InFlight DEF Sound, Orderly
<1>3. op[p].failed \in SUBSET (Switchable \cup Holdings) /\ Load(op[p], {a}) \in Handler /\ Load(op[p], {a}).failed = op[p].failed
    BY <1>2, InFlight, LoadTyped DEF Handler, Sound
<1>4. op' = [op EXCEPT ![p] = [Load(op[p], {a}) EXCEPT !.cur = a, !.failed = op[p].failed, !.todo = @ \ {a}]]
    <2>. DEFINE l == Load(op[p], {a})
    <2>1. l \in Handler /\ l.failed = op[p].failed /\ op' = [op EXCEPT ![p] = [l EXCEPT !.cur = a, !.todo = @ \ {a}]]
        BY <1>1, <1>3
    <2>. HIDE DEF l
    <2>2. [l EXCEPT !.cur = a, !.todo = @ \ {a}] = [l EXCEPT !.cur = a, !.failed = op[p].failed, !.todo = @ \ {a}]
        BY <2>1 DEF Handler
    <2>. QED
        BY <2>1, <2>2 DEF l
<1>5. UNCHANGED <<user, account, held, requests, returns, edits, faults>>
    BY DEF CallDirectory
<1>6. CalledFor(p, a)
    BY <1>1 DEF CalledFor
<1>. QED
    BY <1>1, <1>2, <1>3, <1>4, <1>5, <1>6, TurnedTyped, CallKeeps DEF DeletionInv, TypeOK

LEMMA FaultTyped ==
    ASSUME DeletionInv, NEW f, Fault(f)
    PROVE  faults' \in 0..MaxFaults
BY ConstantsAssumption DEF Fault, DeletionInv, TypeOK

LEMMA CallFailsKeeps == ASSUME DeletionInv, NEW p \in Procs, op[p] # Idle, CallFails(p) PROVE DeletionInv'
<1>1. PICK a \in op[p].todo :
        /\ op[p].phase \in {"linked", "accounts"}
        /\ \/ dir[a] = "DELETED" /\ UNCHANGED <<dir, by, faults>>
           \/ dir[a] # "DELETED" /\ Fault("refused") /\ UNCHANGED <<dir, by>>
           \/ /\ dir[a] # "DELETED" /\ Fault("lost")
              /\ dir' = [dir EXCEPT ![a] = Target(op[p])] /\ by' = Turned(a, op[p].on)
        /\ op' = [op EXCEPT ![p] = [Load(op[p], {a}) EXCEPT !.failed = @ \cup {a}, !.todo = @ \ {a}]]
    BY DEF CallFails
<1>2. op[p] \in Handler /\ a \in Switchable
    BY <1>1, InFlight DEF Sound, Orderly
<1>. DEFINE failed == op[p].failed \cup {a}
<1>3. failed \in SUBSET (Switchable \cup Holdings)
    BY <1>2 DEF Handler
<1>4. op' = [op EXCEPT ![p] = [Load(op[p], {a}) EXCEPT !.cur = op[p].cur, !.failed = failed, !.todo = @ \ {a}]]
    <2>. DEFINE l == Load(op[p], {a})
    <2>1. l \in Handler /\ l.failed = op[p].failed /\ l.cur = op[p].cur
        BY <1>2, InFlight, LoadTyped DEF Sound
    <2>2. op' = [op EXCEPT ![p] = [l EXCEPT !.failed = @ \cup {a}, !.todo = @ \ {a}]]
        BY <1>1
    <2>. HIDE DEF l
    <2>3. [l EXCEPT !.failed = @ \cup {a}, !.todo = @ \ {a}] = [l EXCEPT !.cur = op[p].cur, !.failed = failed, !.todo = @ \ {a}]
        BY <2>1 DEF Handler
    <2>. QED
        BY <2>2, <2>3 DEF l
<1>5. UNCHANGED <<user, account, held, requests, returns, edits>>
    BY DEF CallFails
<1>6. faults' \in 0..MaxFaults /\ by' \in [Accounts -> {"nobody", "directory", "accesspilot"}]
    BY <1>1, FaultTyped, TurnedTyped DEF DeletionInv, TypeOK
<1>7. CalledFor(p, a)
    BY <1>1 DEF CalledFor
<1>. HIDE DEF failed
<1>. QED
    BY <1>2, <1>3, <1>4, <1>5, <1>6, <1>7, CallKeeps

\* Writing the columns that changed over the row.
LEMMA FlushTyped ==
    ASSUME NEW copy \in Person, NEW new \in Person, NEW row \in Person
    PROVE  /\ Flush(copy, new, row) \in Person
           /\ new.gone = copy.gone => Flush(copy, new, row).gone = row.gone
<1>1. DOMAIN row = {"status", "left", "gone", "date", "deleteAt"}
    BY DEF Person
<1>2. Flush(copy, new, row) = [c \in {"status", "left", "gone", "date", "deleteAt"} |-> IF new[c] = copy[c] THEN row[c] ELSE new[c]]
    BY <1>1 DEF Flush
<1>. DEFINE f == Flush(copy, new, row)
<1>3. /\ f.status \in {"ACTIVE", "DISABLED", "DELETED"} /\ f.left \in BOOLEAN /\ f.gone \in BOOLEAN
      /\ f.date \in {"none", "ahead", "due"} /\ f.deleteAt \in {"none", "ahead", "due"}
    BY <1>2 DEF Person
<1>4. f = [status |-> f.status, left |-> f.left, gone |-> f.gone, date |-> f.date, deleteAt |-> f.deleteAt]
    BY <1>2
<1>5. new.gone = copy.gone => f.gone = row.gone
    BY <1>2
<1>. HIDE DEF f
<1>6. f \in Person
    BY <1>3, <1>4 DEF Person
<1>. QED
    BY <1>5, <1>6 DEF f

LEMMA SwitchCommitKeeps == ASSUME DeletionInv, NEW p \in Procs, op[p] # Idle, SwitchCommit(p) PROVE DeletionInv'
<1>. DEFINE o == op[p]
            v == Target(o)
            a == o.cur
            u == IF FollowsPrimary(a) THEN v ELSE o.user.status
            w == account'[a]
<1>1. o \in Handler /\ Sound(o)
    BY InFlight
<1>2. /\ a # NoAccount
      /\ account' = IF o.accts[a] = v THEN account ELSE [account EXCEPT ![a] = v]
      /\ user' = IF FollowsPrimary(a) THEN Flush(o.user, [o.user EXCEPT !.status = v], user) ELSE user
      /\ op' = [op EXCEPT ![p] = [o EXCEPT !.cur = NoAccount, !.done = @ \cup {a}, !.accts[a] = w, !.user.status = u]]
      /\ UNCHANGED <<dir, held, requests, returns, by, edits, faults>>
    <2>1. op' = [op EXCEPT ![p] = [o EXCEPT !.cur = NoAccount, !.done = @ \cup {a}, !.accts[a] = account'[a],
                                     !.user.status = IF FollowsPrimary(a) THEN v ELSE @]]
        BY DEF SwitchCommit
    <2>2. [o EXCEPT !.cur = NoAccount, !.done = @ \cup {a}, !.accts[a] = account'[a],
                    !.user.status = IF FollowsPrimary(a) THEN v ELSE @]
            = [o EXCEPT !.cur = NoAccount, !.done = @ \cup {a}, !.accts[a] = w, !.user.status = u]
        BY <1>1 DEF Handler, Person
    <2>. QED
        BY <2>1, <2>2 DEF SwitchCommit
<1>3. v \in {"ACTIVE", "DISABLED"} /\ a \in Switchable /\ o.user \in Person
    BY <1>1, <1>2 DEF Target, Handler
<1>4. account \in [Switchable -> Status] /\ user \in Person
    BY DEF DeletionInv, TypeOK
<1>. HIDE DEF o, v, a
<1>5. /\ account' \in [Switchable -> Status] /\ w \in Status
      /\ \A b \in Accounts : account'[b] = "DELETED" => account[b] = "DELETED"
    BY <1>2, <1>3, <1>4 DEF Status, Switchable
<1>6. [o.user EXCEPT !.status = v] \in Person /\ [o.user EXCEPT !.status = v].gone = o.user.gone
    BY <1>3 DEF Person
<1>7. user' \in Person /\ user'.gone = user.gone
    BY <1>2, <1>3, <1>4, <1>6, FlushTyped
<1>8. u \in {"ACTIVE", "DISABLED", "DELETED"}
    BY <1>3 DEF Person
<1>9. a \in Accounts /\ w = "DELETED" => DeletedThere(a)
    BY <1>5 DEF DeletionInv, RowsTrue
<1>. HIDE DEF u, w
<1>10. PICK h \in Handler :
        /\ op' = [op EXCEPT ![p] = h] /\ h.accts = [o.accts EXCEPT ![a] = w] /\ h.phase = o.phase /\ h.kind = o.kind
        /\ h.row = o.row /\ h.todo = o.todo /\ h.done = o.done \cup {a} /\ h.cur = NoAccount /\ h.failed = o.failed
    <2>. DEFINE h == [o EXCEPT !.cur = NoAccount, !.done = @ \cup {a}, !.accts[a] = w, !.user.status = u]
    <2>1. [o.user EXCEPT !.status = u] \in Person
        BY <1>3, <1>8 DEF Person
    <2>2. [o.accts EXCEPT ![a] = w] \in [Switchable -> Status \cup {Unread}]
        BY <1>1, <1>3, <1>5 DEF Handler
    <2>3. h = [o EXCEPT !.cur = NoAccount, !.done = o.done \cup {a}, !.accts = [o.accts EXCEPT ![a] = w],
                        !.user = [o.user EXCEPT !.status = u]]
        BY <1>1 DEF Handler
    <2>4. h \in Handler
        BY <1>1, <1>3, <2>1, <2>2, <2>3 DEF Handler
    <2>5. /\ h.accts = [o.accts EXCEPT ![a] = w] /\ h.phase = o.phase /\ h.kind = o.kind
          /\ h.row = o.row /\ h.todo = o.todo /\ h.done = o.done \cup {a} /\ h.cur = NoAccount /\ h.failed = o.failed
        BY <1>1, <2>3 DEF Handler
    <2>. QED
        BY <1>2, <2>4, <2>5
<1>11. CopiesTrue(h)
    BY <1>1, <1>3, <1>9, <1>10 DEF Sound, CopiesTrue, Handler, Switchable
<1>12. HowFar(h)
    BY <1>1, <1>2, <1>10 DEF Sound, Orderly, HowFar, a
<1>13. Orderly(h)
    BY <1>1, <1>2, <1>10 DEF Sound, Orderly, a
<1>. QED
    BY <1>2, <1>5, <1>7, <1>10, <1>11, <1>12, <1>13, MovesOnly DEF DeletionInv, TypeOK

\* The leaver process: one thing taken away, or passed over.
LEMMA TakeAwayKeeps == ASSUME DeletionInv, NEW p \in Procs, op[p] # Idle, TakeAway(p) PROVE DeletionInv'
<1>. DEFINE o == op[p]
<1>1. o \in Handler /\ Sound(o)
    BY InFlight
<1>2. PICK h \in o.todo :
        /\ o.phase = "take"
        /\ \/ held' = held \ {h} /\ UNCHANGED faults /\ op' = [op EXCEPT ![p].todo = @ \ {h}]
           \/ /\ Fault("refused") /\ UNCHANGED held
              /\ op' = [op EXCEPT ![p].todo = @ \ {h}, ![p].failed = @ \cup {h}]
    BY DEF TakeAway
<1>3. UNCHANGED <<user, account, dir, requests, returns, by, edits>>
    BY DEF TakeAway
<1>4. faults' \in 0..MaxFaults /\ held' \subseteq Holdings
    BY <1>2, FaultTyped DEF DeletionInv, TypeOK
<1>5. Kept /\ Typed'
    BY <1>3, <1>4 DEF Kept, DeletedThere, DeletionInv, TypeOK, Typed
<1>6. PICK failed \in SUBSET (Switchable \cup Holdings) :
        op' = [op EXCEPT ![p] = [o EXCEPT !.todo = @ \ {h}, !.failed = failed]]
    <2>1. op' = [op EXCEPT ![p] = [o EXCEPT !.todo = @ \ {h}]]
              \/ op' = [op EXCEPT ![p] = [o EXCEPT !.todo = @ \ {h}, !.failed = @ \cup {h}]]
        BY <1>2 DEF DeletionInv, TypeOK
    <2>2. [o EXCEPT !.todo = @ \ {h}] = [o EXCEPT !.todo = @ \ {h}, !.failed = o.failed]
        BY <1>1 DEF Handler
    <2>3. [o EXCEPT !.todo = @ \ {h}, !.failed = @ \cup {h}] = [o EXCEPT !.todo = @ \ {h}, !.failed = o.failed \cup {h}]
        BY <1>1 DEF Handler
    <2>4. o.failed \in SUBSET (Switchable \cup Holdings) /\ o.failed \cup {h} \in SUBSET (Switchable \cup Holdings)
        BY <1>1, <1>2 DEF Handler
    <2>. HIDE DEF o
    <2>. QED
        BY <2>1, <2>2, <2>3, <2>4
<1>. HIDE DEF o
<1>7. PICK g \in Handler :
        /\ op' = [op EXCEPT ![p] = g] /\ g.accts = o.accts /\ g.phase = o.phase /\ g.kind = o.kind /\ g.row = o.row
        /\ g.todo = o.todo \ {h} /\ g.done = o.done /\ g.cur = o.cur
    <2>1. [o EXCEPT !.todo = @ \ {h}, !.failed = failed] \in Handler
        BY <1>1 DEF Handler
    <2>. QED
        BY <1>1, <1>6, <2>1 DEF Handler
<1>8. Sound(g)
    BY <1>1, <1>2, <1>7 DEF Sound, CopiesTrue, HowFar, Orderly
<1>. QED
    BY <1>3, <1>5, <1>7, <1>8, StaysSound, LabelsStay, Moves

LEMMA DisableLinkedKeeps == ASSUME DeletionInv, NEW p \in Procs, op[p] # Idle, DisableLinked(p) PROVE DeletionInv'
<1>. DEFINE o == op[p]
            S == IF o.policy.linked THEN Linked ELSE {}
            T == IF o.policy.linked THEN {l \in Linked : account[l] # "DISABLED"} ELSE {}
            b == Load(o, S)
<1>1. o \in Handler /\ Sound(o)
    BY InFlight
<1>2. /\ o.phase = "take" /\ op' = [op EXCEPT ![p] = [b EXCEPT !.phase = "linked", !.todo = T]]
      /\ UNCHANGED <<user, account, dir, held, requests, returns, by, edits, faults>>
    BY DEF DisableLinked
<1>3. b \in Handler /\ CopiesTrue(b) /\ b.kind = o.kind /\ b.row = o.row /\ b.done = o.done /\ b.cur = o.cur
    BY <1>1, LoadTyped DEF Sound
<1>4. T \subseteq Switchable /\ T \in SUBSET (Switchable \cup Holdings)
    BY DEF Switchable
<1>. HIDE DEF b, T, S, o
<1>5. PICK h \in Handler :
        /\ op' = [op EXCEPT ![p] = h] /\ h.accts = b.accts /\ h.phase = "linked" /\ h.kind = o.kind /\ h.row = o.row
        /\ h.todo = T /\ h.done = o.done /\ h.cur = o.cur
    <2>1. [b EXCEPT !.phase = "linked", !.todo = T] \in Handler
        BY <1>3, <1>4 DEF Handler
    <2>. QED
        BY <1>2, <1>3, <2>1 DEF Handler
<1>6. CopiesTrue(h) /\ HowFar(h) /\ Orderly(h)
    BY <1>1, <1>2, <1>3, <1>4, <1>5 DEF Sound, CopiesTrue, HowFar, Orderly
<1>. QED
    BY <1>2, <1>5, <1>6, MovesOnly DEF DeletionInv, TypeOK

LEMMA DisableAccountsKeeps == ASSUME DeletionInv, NEW p \in Procs, op[p] # Idle, DisableAccounts(p) PROVE DeletionInv'
<1>. DEFINE o == op[p]
<1>1. o \in Handler /\ Sound(o)
    BY InFlight
<1>2. /\ o.phase = "linked" /\ o.todo = {} /\ o.cur = NoAccount
      /\ \/ EnsurePrimary(o) /\ op' = [op EXCEPT ![p] = Listed(o)]
         \/ UNCHANGED account /\ op' = [op EXCEPT ![p] = [o EXCEPT !.phase = "accounts"]]
      /\ UNCHANGED <<user, dir, held, requests, returns, by, edits, faults>>
    BY DEF DisableAccounts, DeletionInv, TypeOK
<1>3. /\ account' \in [Switchable -> Status]
      /\ \A a \in Accounts : account'[a] = "DELETED" => account[a] = "DELETED" \/ DeletedThere(a)
    BY <1>1, <1>2, PrimaryMirrored DEF Sound, DeletionInv, TypeOK
<1>4. PICK h \in Handler :
        /\ op' = [op EXCEPT ![p] = h] /\ CopiesTrue(h) /\ h.phase = "accounts" /\ h.kind = o.kind /\ h.row = o.row
        /\ h.todo \subseteq Accounts /\ h.done = o.done /\ h.cur = o.cur
    <2>1. CASE op' = [op EXCEPT ![p] = Listed(o)]
        BY <1>1, <2>1, ListedTyped DEF Sound
    <2>2. CASE op' = [op EXCEPT ![p] = [o EXCEPT !.phase = "accounts"]]
        <3>. HIDE DEF o
        <3>. DEFINE h == [o EXCEPT !.phase = "accounts"]
        <3>1. /\ h \in Handler /\ h.phase = "accounts" /\ h.kind = o.kind /\ h.row = o.row /\ h.todo = o.todo
              /\ h.done = o.done /\ h.cur = o.cur /\ h.accts = o.accts
            BY <1>1 DEF Handler
        <3>. HIDE DEF h
        <3>2. CopiesTrue(h)
            BY <1>1, <3>1 DEF Sound, CopiesTrue
        <3>. QED
            BY <1>2, <2>2, <3>1, <3>2 DEF h
    <2>. QED
        BY <1>2, <2>1, <2>2
<1>. HIDE DEF o
<1>5. HowFar(h) /\ Orderly(h)
    BY <1>1, <1>2, <1>4 DEF Sound, HowFar, Orderly, Switchable
<1>. QED
    BY <1>2, <1>3, <1>4, <1>5, MovesOnly DEF DeletionInv, TypeOK

LEMMA FinishLeavingKeeps == ASSUME DeletionInv, NEW p \in Procs, op[p] # Idle, FinishLeaving(p) PROVE DeletionInv'
<1>. DEFINE o == op[p]
            f == Flush(o.user, Processed(o), user)
<1>1. o \in Handler /\ Sound(o)
    BY InFlight
<1>2. /\ o.phase = "accounts" /\ o.todo = {} /\ o.cur = NoAccount /\ o.kind \in Leaving
      /\ user' = [f EXCEPT !.left = TRUE, !.deleteAt = IF o.policy.delete THEN "ahead" ELSE @]
      /\ op' = [op EXCEPT ![p] = IF o.kind = "approve" THEN [o EXCEPT !.phase = "record"] ELSE Idle]
      /\ by' = [a \in Accounts |-> IF by[a] = "accesspilot" THEN "nobody" ELSE by[a]]
      /\ UNCHANGED <<account, dir, held, requests, returns, edits, faults>>
    BY DEF FinishLeaving, Switched
<1>3. user \in Person /\ o.user \in Person
    BY <1>1 DEF DeletionInv, TypeOK, Handler
<1>4. Processed(o) \in Person /\ Processed(o).gone = o.user.gone
    BY <1>3 DEF Processed, Person
<1>5. f \in Person /\ f.gone = user.gone
    BY <1>3, <1>4, FlushTyped
<1>. HIDE DEF f
<1>6. user' \in Person /\ user'.gone = user.gone
    BY <1>2, <1>5 DEF Person
<1>7. by' \in [Accounts -> {"nobody", "directory", "accesspilot"}]
    BY <1>2 DEF DeletionInv, TypeOK
<1>8. Kept /\ Typed'
    BY <1>2, <1>6, <1>7 DEF Kept, DeletedThere, DeletionInv, TypeOK, Typed
<1>9. CASE o.kind = "approve"
    <2>1. PICK h \in Handler :
            /\ op' = [op EXCEPT ![p] = h] /\ h.accts = o.accts /\ h.phase = "record" /\ h.kind = o.kind /\ h.row = o.row
            /\ h.cur = o.cur
        <3>. HIDE DEF o
        <3>1. [o EXCEPT !.phase = "record"] \in Handler
            BY <1>1 DEF Handler
        <3>. QED
            BY <1>1, <1>2, <1>9, <3>1 DEF Handler
    <2>2. Sound(h)
        BY <1>1, <1>2, <1>9, <2>1 DEF Sound, CopiesTrue, HowFar, Orderly
    <2>. QED
        BY <1>2, <1>6, <1>8, <2>1, <2>2, StaysSound, LabelsStay, Moves
<1>10. CASE o.kind # "approve"
    <2>1. op' \in [Procs -> Handler \cup {Idle}] /\ \A q \in Procs : op'[q] \in {op[q], Idle}
        BY <1>2, <1>10 DEF DeletionInv, TypeOK
    <2>. QED
        BY <1>2, <1>6, <1>8, <2>1, EndsOnly
<1>. QED
    BY <1>9, <1>10

\* run_leaver begins: the caller's operation goes on to take away what the policy covers.
LEMMA LeaveKeeps ==
    ASSUME DeletionInv, NEW p \in Procs, NEW o \in Handler, Leave(p, o), CopiesTrue(o),
           o.cur = NoAccount, o.kind \in {"scheduled", "sync", "csv", "approve"},
           o.kind = "approve" => o.row \in LeaverRows /\ requests[o.row] # Absent,
           user' \in Person, user'.gone = user.gone,
           UNCHANGED <<account, dir, held, requests, returns, by, faults>>, edits' \in 0..MaxEdits
    PROVE  DeletionInv'
<1>1. PICK pol \in Policies :
        op' = [op EXCEPT ![p] = [o EXCEPT !.phase = "take", !.policy = pol, !.todo = held \cap Covered(o.kind, pol)]]
    BY DEF Leave
<1>. DEFINE T == held \cap Covered(o.kind, pol)
<1>2. pol \in Policy /\ T \in SUBSET (Switchable \cup Holdings)
    BY ConstantsAssumption DEF DeletionInv, TypeOK
<1>. HIDE DEF T
<1>3. PICK h \in Handler :
        /\ op' = [op EXCEPT ![p] = h] /\ h.accts = o.accts /\ h.phase = "take" /\ h.kind = o.kind /\ h.row = o.row
        /\ h.cur = o.cur
    <2>1. op' = [op EXCEPT ![p] = [o EXCEPT !.phase = "take", !.policy = pol, !.todo = T]]
        BY <1>1 DEF T
    <2>2. [o EXCEPT !.phase = "take", !.policy = pol, !.todo = T] \in Handler
        BY <1>2 DEF Handler
    <2>. QED
        BY <2>1, <2>2 DEF Handler
<1>4. Kept /\ Typed'
    BY DEF Kept, DeletedThere, DeletionInv, TypeOK, Typed
<1>5. Sound(h)
    BY <1>3 DEF Sound, CopiesTrue, HowFar, Orderly
<1>. QED
    BY <1>3, <1>4, <1>5, StaysSound, LabelsStay, Moves

LEMMA SweepLeaversKeeps == ASSUME DeletionInv, SweepLeavers PROVE DeletionInv'
<1>1. PICK o \in Handler : o = NewOp("scheduled", FALSE) /\ CopiesTrue(o) /\ o.cur = NoAccount /\ o.kind = "scheduled"
    BY NewOpTyped DEF DeletionInv, Kinds, Leaving
<1>2. Leave(Worker, o) /\ UNCHANGED <<user, account, dir, held, requests, returns, by, edits, faults>>
    BY <1>1 DEF SweepLeavers
<1>3. Worker \in Procs
    BY DEF Procs
<1>. QED
    BY <1>1, <1>2, <1>3, LeaveKeeps DEF DeletionInv, TypeOK

LEMMA EditTyped ==
    ASSUME DeletionInv, Edit
    PROVE  edits' \in 0..MaxEdits
BY ConstantsAssumption DEF Edit, DeletionInv, TypeOK

LEMMA TerminateByCsvKeeps == ASSUME DeletionInv, NEW p \in Procs, TerminateByCsv(p) PROVE DeletionInv'
<1>1. /\ Edit /\ user' = [user EXCEPT !.status = "DISABLED"]
      /\ Leave(p, [NewOp("csv", FALSE) EXCEPT !.user = user'])
      /\ UNCHANGED <<account, dir, held, requests, returns, by, faults>>
    BY DEF TerminateByCsv
<1>2. user' \in Person /\ user'.gone = user.gone
    BY <1>1 DEF DeletionInv, TypeOK, Person
<1>3. PICK n \in Handler : n = NewOp("csv", FALSE) /\ CopiesTrue(n) /\ n.cur = NoAccount /\ n.kind = "csv"
    BY NewOpTyped DEF DeletionInv, Kinds, Leaving
<1>4. PICK o \in Handler :
        o = [n EXCEPT !.user = user'] /\ o.accts = n.accts /\ o.cur = NoAccount /\ o.kind = "csv"
    <2>1. [n EXCEPT !.user = user'] \in Handler
        BY <1>2, <1>3 DEF Handler
    <2>. QED
        BY <1>3, <2>1 DEF Handler
<1>5. Leave(p, o) /\ CopiesTrue(o)
    BY <1>1, <1>3, <1>4 DEF CopiesTrue
<1>. QED
    BY <1>1, <1>2, <1>4, <1>5, EditTyped, LeaveKeeps

LEMMA FetchUsersKeeps == ASSUME DeletionInv, FetchUsers PROVE DeletionInv'
<1>. DEFINE on == dir[Primary] = "ACTIVE"
            n == NewOp("sync", on)
<1>1. /\ op' = [op EXCEPT ![Syncer] = [n EXCEPT !.phase = "apply"]]
      /\ UNCHANGED <<user, account, dir, held, requests, returns, by, edits, faults>>
    BY DEF FetchUsers
<1>2. on \in BOOLEAN /\ Syncer \in Procs
    BY DEF Procs
<1>3. n \in Handler /\ CopiesTrue(n) /\ n.cur = NoAccount /\ n.kind = "sync"
    BY <1>2, NewOpTyped DEF DeletionInv, Kinds, Leaving
<1>. HIDE DEF on, n
<1>4. PICK h \in Handler :
        /\ op' = [op EXCEPT ![Syncer] = h] /\ h.accts = n.accts /\ h.cur = NoAccount /\ h.kind = "sync" /\ h.phase = "apply"
    <2>1. [n EXCEPT !.phase = "apply"] \in Handler
        BY <1>3 DEF Handler
    <2>. QED
        BY <1>1, <1>3, <2>1 DEF Handler
<1>5. CopiesTrue(h) /\ HowFar(h) /\ Orderly(h)
    BY <1>3, <1>4 DEF CopiesTrue, HowFar, Orderly
<1>. QED
    BY <1>1, <1>2, <1>4, <1>5, MovesOnly DEF DeletionInv, TypeOK

LEMMA ApplyUsersKeeps == ASSUME DeletionInv, ApplyUsers PROVE DeletionInv'
<1>. DEFINE o == op[Syncer]
<1>1. /\ o # Idle /\ o.phase = "apply" /\ user' = [user EXCEPT !.status = Target(o)]
      /\ \/ SeenDisabled(user.status, o) /\ Leave(Syncer, [o EXCEPT !.user = user', !.skip = {Primary}])
         \/ op' = [op EXCEPT ![Syncer] = Idle]
      /\ UNCHANGED <<account, dir, held, requests, returns, by, edits, faults>>
    BY DEF ApplyUsers
<1>2. Syncer \in Procs /\ o \in Handler /\ Sound(o)
    BY <1>1, InFlight DEF Procs
<1>3. user' \in Person /\ user'.gone = user.gone
    BY <1>1 DEF DeletionInv, TypeOK, Person, Target
<1>4. CASE op' = [op EXCEPT ![Syncer] = Idle]
    <2>1. op' \in [Procs -> Handler \cup {Idle}] /\ \A q \in Procs : op'[q] \in {op[q], Idle}
        BY <1>2, <1>4 DEF DeletionInv, TypeOK
    <2>2. Kept /\ Typed'
        BY <1>1, <1>3 DEF Kept, DeletedThere, DeletionInv, TypeOK, Typed
    <2>. QED
        BY <1>1, <1>3, <2>1, <2>2, EndsOnly
<1>5. CASE Leave(Syncer, [o EXCEPT !.user = user', !.skip = {Primary}])
    <2>. HIDE DEF o
    <2>1. PICK n \in Handler :
            /\ n = [o EXCEPT !.user = user', !.skip = {Primary}] /\ n.accts = o.accts /\ n.cur = o.cur
            /\ n.kind = o.kind /\ n.row = o.row
        <3>1. {Primary} \in SUBSET Accounts
            BY ConstantsAssumption
        <3>2. [o EXCEPT !.user = user', !.skip = {Primary}] \in Handler
            BY <1>2, <1>3, <3>1 DEF Handler
        <3>. QED
            BY <1>2, <3>2 DEF Handler
    <2>2. n.cur = NoAccount /\ CopiesTrue(n)
        BY <1>1, <1>2, <2>1 DEF Sound, CopiesTrue, Orderly
    <2>3. n.kind \in {"scheduled", "sync", "csv", "approve"}
        BY <1>1, <1>2, <2>1 DEF Sound, Orderly
    <2>4. n.kind = "approve" => n.row \in LeaverRows /\ requests[n.row] # Absent
        BY <1>2, <2>1 DEF Sound, Orderly
    <2>. QED
        BY <1>1, <1>2, <1>3, <1>5, <2>1, <2>2, <2>3, <2>4, LeaveKeeps DEF DeletionInv, TypeOK
<1>. QED
    BY <1>1, <1>4, <1>5

\* A manual start.
LEMMA StartLeaverKeeps == ASSUME DeletionInv, NEW p \in Procs, StartLeaver(p) PROVE DeletionInv'
<1>. DEFINE n == NewOp("start", FALSE)
<1>1. /\ EnsurePrimary(n) /\ op' = [op EXCEPT ![p] = Listed(n)]
      /\ UNCHANGED <<user, dir, held, requests, returns, by, edits, faults>>
    BY DEF StartLeaver
<1>2. n \in Handler /\ CopiesTrue(n) /\ n.kind = "start" /\ n.done = {} /\ n.cur = NoAccount
    BY NewOpTyped DEF DeletionInv, Kinds
<1>. HIDE DEF n
<1>3. PICK h \in Handler : h = Listed(n)
    BY <1>2, ListedTyped
<1>4. CopiesTrue(h) /\ h.phase = "accounts" /\ h.kind = "start" /\ h.todo \subseteq Accounts /\ h.done = {} /\ h.cur = NoAccount
    BY <1>2, <1>3, ListedTyped
<1>5. HowFar(h) /\ Orderly(h)
    BY <1>4 DEF HowFar, Orderly, Switchable
<1>. QED
    BY <1>1, <1>2, <1>3, <1>4, <1>5, PrimaryMirrored, MovesOnly DEF DeletionInv, TypeOK

LEMMA FinishStartKeeps == ASSUME DeletionInv, NEW p \in Procs, op[p] # Idle, FinishStart(p) PROVE DeletionInv'
<1>1. /\ op[p].kind = "start" /\ op' = [op EXCEPT ![p] = Idle]
      /\ \/ \E r \in LeaverRows : /\ requests[r] = Absent
                                  /\ requests' = [requests EXCEPT ![r] = [status |-> "PENDING", off |-> op[p].done]]
         \/ UNCHANGED requests
      /\ UNCHANGED <<user, account, dir, held, returns, by, edits, faults>>
    BY DEF FinishStart
<1>2. op[p] \in Handler /\ op[p].done \in SUBSET Accounts
    BY <1>1, InFlight, ConstantsAssumption DEF Sound, Orderly, Handler
<1>. DEFINE Written == [status : {"PENDING", "APPROVED", "DENIED"}, off : SUBSET Accounts]
            row == [status |-> "PENDING", off |-> op[p].done]
<1>3. row \in Written
    BY <1>2
<1>4. row # Absent
    BY DEF Absent
<1>. HIDE DEF row
<1>5. requests' \in [LeaverRows -> {Absent} \cup Written] /\ \A r \in LeaverRows : requests[r] # Absent => requests'[r] # Absent
    BY <1>1, <1>3, <1>4 DEF DeletionInv, TypeOK, row
<1>6. Kept /\ Typed'
    BY <1>1, <1>5 DEF Kept, DeletedThere, DeletionInv, TypeOK, Typed
<1>7. op' \in [Procs -> Handler \cup {Idle}] /\ \A q \in Procs : op'[q] \in {op[q], Idle}
    BY <1>1 DEF DeletionInv, TypeOK
<1>. QED
    BY <1>1, <1>6, <1>7, EndsOnly

LEMMA ApproveLeaverKeeps == ASSUME DeletionInv, NEW p \in Procs, ApproveLeaver(p) PROVE DeletionInv'
<1>. DEFINE n == NewOp("approve", FALSE)
<1>1. PICK r \in LeaverRows : Waiting(requests, r) /\ Leave(p, [n EXCEPT !.row = r])
    BY DEF ApproveLeaver
<1>2. n \in Handler /\ CopiesTrue(n) /\ n.kind = "approve" /\ n.cur = NoAccount
    BY NewOpTyped DEF DeletionInv, Kinds, Leaving
<1>3. requests[r] # Absent
    BY <1>1 DEF Waiting, Absent
<1>. HIDE DEF n
<1>4. PICK o \in Handler :
        o = [n EXCEPT !.row = r] /\ o.accts = n.accts /\ o.cur = NoAccount /\ o.kind = "approve" /\ o.row = r
    <2>1. [n EXCEPT !.row = r] \in Handler
        BY <1>2 DEF Handler
    <2>. QED
        BY <1>2, <2>1 DEF Handler
<1>5. Leave(p, o) /\ CopiesTrue(o)
    BY <1>1, <1>2, <1>4 DEF CopiesTrue
<1>6. UNCHANGED <<user, account, dir, held, requests, returns, by, edits, faults>>
    BY DEF ApproveLeaver
<1>. QED
    BY <1>3, <1>4, <1>5, <1>6, LeaveKeeps DEF DeletionInv, TypeOK

LEMMA DenyLeaverKeeps == ASSUME DeletionInv, NEW p \in Procs, DenyLeaver(p) PROVE DeletionInv'
<1>. DEFINE n == NewOp("deny", TRUE)
<1>1. PICK r \in LeaverRows :
        Waiting(requests, r) /\ op' = [op EXCEPT ![p] = [n EXCEPT !.row = r, !.todo = requests[r].off]]
    BY DEF DenyLeaver
<1>2. n \in Handler /\ CopiesTrue(n) /\ n.kind = "deny" /\ n.cur = NoAccount /\ n.phase = "accounts"
    BY NewOpTyped DEF DeletionInv, Kinds
<1>3. requests[r] # Absent /\ requests[r].off \in SUBSET Accounts
    BY <1>1 DEF Waiting, Absent, DeletionInv, TypeOK
<1>. HIDE DEF n
<1>4. PICK h \in Handler :
        /\ op' = [op EXCEPT ![p] = h] /\ h.accts = n.accts /\ h.cur = NoAccount /\ h.kind = "deny" /\ h.row = r
        /\ h.phase = "accounts" /\ h.todo \subseteq Accounts
    <2>. DEFINE T == requests[r].off
    <2>1. T \in SUBSET Accounts /\ T \in SUBSET (Switchable \cup Holdings) /\ op' = [op EXCEPT ![p] = [n EXCEPT !.row = r, !.todo = T]]
        BY <1>1, <1>3 DEF Switchable
    <2>. HIDE DEF T
    <2>2. [n EXCEPT !.row = r, !.todo = T] \in Handler
        BY <1>2, <2>1 DEF Handler
    <2>. QED
        BY <1>2, <2>1, <2>2 DEF Handler
<1>5. CopiesTrue(h) /\ HowFar(h) /\ Orderly(h)
    BY <1>2, <1>3, <1>4 DEF CopiesTrue, HowFar, Orderly, Switchable
<1>6. UNCHANGED <<user, account, dir, held, requests, returns, by, edits, faults>>
    BY DEF DenyLeaver
<1>. QED
    BY <1>4, <1>5, <1>6, MovesOnly DEF DeletionInv, TypeOK

LEMMA RecordDecisionKeeps == ASSUME DeletionInv, NEW p \in Procs, op[p] # Idle, RecordDecision(p) PROVE DeletionInv'
<1>. DEFINE r == op[p].row
            v == Verdict(op[p].kind)
<1>1. /\ requests' = [requests EXCEPT ![r].status = v] /\ op' = [op EXCEPT ![p] = Idle]
      /\ UNCHANGED <<user, account, dir, held, returns, by, edits, faults>>
    BY DEF RecordDecision
<1>2. op[p].kind \in {"approve", "deny"}
    BY InFlight DEF RecordDecision, Sound, Orderly
<1>3. r \in LeaverRows /\ requests[r] # Absent
    BY <1>2, InFlight DEF Sound, Orderly
<1>4. v \in {"APPROVED", "DENIED"}
    BY DEF Verdict
<1>. DEFINE Written == [status : {"PENDING", "APPROVED", "DENIED"}, off : SUBSET Accounts]
<1>. HIDE DEF r, v
<1>5. [requests[r] EXCEPT !.status = v] \in Written
    BY <1>3, <1>4 DEF DeletionInv, TypeOK
<1>6. [requests[r] EXCEPT !.status = v] # Absent
    BY <1>5 DEF Absent
<1>. HIDE DEF Written
<1>7. requests' \in [LeaverRows -> {Absent} \cup Written] /\ \A s \in LeaverRows : requests[s] # Absent => requests'[s] # Absent
    BY <1>1, <1>3, <1>5, <1>6 DEF DeletionInv, TypeOK, Written
<1>8. Kept /\ Typed'
    BY <1>1, <1>7 DEF Kept, DeletedThere, DeletionInv, TypeOK, Typed, Written
<1>9. op' \in [Procs -> Handler \cup {Idle}] /\ \A q \in Procs : op'[q] \in {op[q], Idle}
    BY <1>1 DEF DeletionInv, TypeOK
<1>. QED
    BY <1>1, <1>8, <1>9, EndsOnly
\* A return.
LEMMA RequestReturnKeeps == ASSUME DeletionInv, NEW p \in Procs, RequestReturn(p) PROVE DeletionInv'
<1>1. PICK r \in ReturnRows, scope \in {{}} \cup {{a} : a \in Accounts} :
        returns' = [returns EXCEPT ![r] = [status |-> "PENDING", scope |-> scope]]
    BY DEF RequestReturn
<1>. DEFINE Written == [status : {"PENDING", "APPROVED", "REJECTED"}, scope : SUBSET Accounts]
            row == [status |-> "PENDING", scope |-> scope]
<1>2. row \in Written /\ row # Absent
    BY DEF Absent
<1>. HIDE DEF row
<1>3. returns' \in [ReturnRows -> {Absent} \cup Written] /\ \A s \in ReturnRows : returns[s] # Absent => returns'[s] # Absent
    BY <1>1, <1>2 DEF DeletionInv, TypeOK, row
<1>4. UNCHANGED <<user, account, dir, held, requests, op, by, edits, faults>>
    BY DEF RequestReturn
<1>5. Kept /\ Typed'
    BY <1>3, <1>4 DEF Kept, DeletedThere, DeletionInv, TypeOK, Typed
<1>. QED
    BY <1>4, <1>5, EndsOnly DEF DeletionInv, TypeOK

\* A return's row is settled.
LEMMA ReturnSettled ==
    ASSUME DeletionInv, NEW r \in ReturnRows, returns[r] # Absent, NEW v \in {"APPROVED", "REJECTED"},
           returns' = [returns EXCEPT ![r].status = v]
    PROVE  /\ returns' \in [ReturnRows -> {Absent} \cup [status : {"PENDING", "APPROVED", "REJECTED"}, scope : SUBSET Accounts]]
           /\ \A s \in ReturnRows : returns[s] # Absent => returns'[s] # Absent
<1>. DEFINE Written == [status : {"PENDING", "APPROVED", "REJECTED"}, scope : SUBSET Accounts]
<1>1. [returns[r] EXCEPT !.status = v] \in Written
    BY DEF DeletionInv, TypeOK
<1>2. [returns[r] EXCEPT !.status = v] # Absent
    BY <1>1 DEF Absent
<1>. HIDE DEF Written
<1>. QED
    BY <1>1, <1>2 DEF DeletionInv, TypeOK, Written

LEMMA RejectReturnKeeps == ASSUME DeletionInv, NEW p \in Procs, RejectReturn(p) PROVE DeletionInv'
<1>1. PICK r \in ReturnRows : Waiting(returns, r) /\ returns' = [returns EXCEPT ![r].status = "REJECTED"]
    BY DEF RejectReturn
<1>2. returns[r] # Absent
    BY <1>1 DEF Waiting, Absent
<1>3. UNCHANGED <<user, account, dir, held, requests, op, by, edits, faults>>
    BY DEF RejectReturn
<1>4. Kept /\ Typed'
    BY <1>1, <1>2, <1>3, ReturnSettled DEF Kept, DeletedThere, DeletionInv, TypeOK, Typed
<1>. QED
    BY <1>3, <1>4, EndsOnly DEF DeletionInv, TypeOK

LEMMA ApproveReturnKeeps == ASSUME DeletionInv, NEW p \in Procs, ApproveReturn(p) PROVE DeletionInv'
<1>. DEFINE n == NewOp("return", TRUE)
<1>1. PICK r \in ReturnRows :
        /\ Waiting(returns, r)
        /\ LET o == [n EXCEPT !.row = r]
               scope == returns[r].scope
           IN  IF scope = {}
               THEN EnsurePrimary(o) /\ op' = [op EXCEPT ![p] = Listed(o)]
               ELSE /\ UNCHANGED account
                    /\ op' = [op EXCEPT ![p] = [Load(o, scope) EXCEPT
                                  !.todo = {a \in scope : account[a] = "DISABLED"},
                                  !.already = {a \in scope : account[a] # "DISABLED"}]]
    BY DEF ApproveReturn
<1>2. UNCHANGED <<user, dir, held, requests, returns, by, edits, faults>>
    BY DEF ApproveReturn
<1>3. n \in Handler /\ CopiesTrue(n) /\ n.kind = "return" /\ n.cur = NoAccount /\ n.phase = "accounts"
    BY NewOpTyped DEF DeletionInv, Kinds
<1>4. returns[r] # Absent /\ returns[r].scope \in SUBSET Accounts
    BY <1>1 DEF Waiting, Absent, DeletionInv, TypeOK
<1>. HIDE DEF n
<1>5. PICK o \in Handler :
        /\ o = [n EXCEPT !.row = r] /\ o.accts = n.accts /\ o.cur = NoAccount /\ o.kind = "return" /\ o.row = r
        /\ o.phase = "accounts"
    <2>1. [n EXCEPT !.row = r] \in Handler
        BY <1>3 DEF Handler
    <2>. QED
        BY <1>3, <2>1 DEF Handler
<1>6. CopiesTrue(o)
    BY <1>3, <1>5 DEF CopiesTrue
<1>. DEFINE scope == returns[r].scope
<1>7. CASE scope = {}
    <2>1. EnsurePrimary(o) /\ op' = [op EXCEPT ![p] = Listed(o)]
        BY <1>1, <1>5, <1>7
    <2>2. PICK h \in Handler : h = Listed(o)
        BY <1>5, <1>6, ListedTyped
    <2>3. CopiesTrue(h) /\ h.phase = "accounts" /\ h.kind = "return" /\ h.row = r /\ h.todo \subseteq Accounts /\ h.cur = NoAccount
        BY <1>5, <1>6, <2>2, ListedTyped
    <2>4. HowFar(h) /\ Orderly(h)
        BY <1>4, <2>3 DEF HowFar, Orderly, Switchable
    <2>. QED
        <3>1. account' \in [Switchable -> Status]
              /\ \A a \in Accounts : account'[a] = "DELETED" => account[a] = "DELETED" \/ DeletedThere(a)
            BY <1>6, <2>1, PrimaryMirrored
        <3>2. op' = [op EXCEPT ![p] = h]
            BY <2>1, <2>2
        <3>3. user' \in Person /\ user'.gone = user.gone /\ faults' \in 0..MaxFaults
            BY <1>2 DEF DeletionInv, TypeOK
        <3>. QED
            BY <1>2, <2>3, <2>4, <3>1, <3>2, <3>3, MovesOnly
<1>8. CASE scope # {}
    <2>. DEFINE T == {a \in scope : account[a] = "DISABLED"}
                A == {a \in scope : account[a] # "DISABLED"}
                l == Load(o, scope)
    <2>1. UNCHANGED account /\ op' = [op EXCEPT ![p] = [l EXCEPT !.todo = T, !.already = A]]
        BY <1>1, <1>5, <1>8
    <2>2. T \in SUBSET Accounts /\ A \in SUBSET Accounts /\ T \in SUBSET (Switchable \cup Holdings)
        BY <1>4 DEF Switchable
    <2>3. l \in Handler /\ CopiesTrue(l) /\ l.phase = "accounts" /\ l.kind = "return" /\ l.row = r /\ l.cur = NoAccount
        <3>1. l \in Handler /\ CopiesTrue(l) /\ l.phase = o.phase /\ l.kind = o.kind /\ l.row = o.row /\ l.cur = o.cur
            BY <1>6, LoadTyped
        <3>. HIDE DEF l
        <3>. QED
            BY <1>5, <3>1
    <2>. HIDE DEF T, A, l
    <2>4. PICK h \in Handler :
            /\ op' = [op EXCEPT ![p] = h] /\ h.accts = l.accts /\ h.phase = "accounts" /\ h.kind = "return"
            /\ h.row = r /\ h.cur = NoAccount /\ h.todo = T
        <3>1. [l EXCEPT !.todo = T, !.already = A] \in Handler
            BY <2>2, <2>3 DEF Handler
        <3>. QED
            BY <2>1, <2>3, <3>1 DEF Handler
    <2>5. CopiesTrue(h) /\ HowFar(h) /\ Orderly(h)
        BY <1>4, <2>2, <2>3, <2>4 DEF CopiesTrue, HowFar, Orderly, Switchable
    <2>. QED
        BY <1>2, <2>1, <2>4, <2>5, MovesOnly DEF DeletionInv, TypeOK
<1>. QED
    BY <1>7, <1>8

LEMMA FinishReturnKeeps == ASSUME DeletionInv, NEW p \in Procs, op[p] # Idle, FinishReturn(p) PROVE DeletionInv'
<1>. DEFINE o == op[p]
            f == Flush(o.user, Back(o), user)
<1>1. /\ o.kind = "return" /\ op' = [op EXCEPT ![p] = Idle]
      /\ \/ returns' = [returns EXCEPT ![o.row].status = "APPROVED"] /\ user' = IF AllBack THEN f ELSE user
         \/ UNCHANGED <<user, returns>>
      /\ UNCHANGED <<account, dir, held, requests, by, edits, faults>>
    BY DEF FinishReturn
<1>2. o \in Handler /\ o.row \in ReturnRows /\ returns[o.row] # Absent
    BY <1>1, InFlight DEF Sound, Orderly
<1>3. user \in Person /\ o.user \in Person
    BY <1>2 DEF DeletionInv, TypeOK, Handler
<1>4. Back(o) \in Person /\ Back(o).gone = o.user.gone
    BY <1>3 DEF Back, Person
<1>5. f \in Person /\ f.gone = user.gone
    BY <1>3, <1>4, FlushTyped
<1>. HIDE DEF f
<1>6. user' \in Person /\ user'.gone = user.gone
    BY <1>1, <1>3, <1>5
<1>7. Kept /\ Typed'
    BY <1>1, <1>2, <1>6, ReturnSettled DEF Kept, DeletedThere, DeletionInv, TypeOK, Typed
<1>8. op' \in [Procs -> Handler \cup {Idle}] /\ \A q \in Procs : op'[q] \in {op[q], Idle}
    BY <1>1 DEF DeletionInv, TypeOK
<1>. QED
    BY <1>1, <1>6, <1>7, <1>8, EndsOnly

LEMMA SetLeaverDateKeeps == ASSUME DeletionInv, NEW p \in Procs, SetLeaverDate(p) PROVE DeletionInv'
<1>1. PICK d \in {"ahead", "none"} : user' = [user EXCEPT !.date = d, !.left = FALSE]
    BY DEF SetLeaverDate
<1>2. user' \in Person /\ user'.gone = user.gone
    BY <1>1 DEF DeletionInv, TypeOK, Person
<1>3. edits' \in 0..MaxEdits /\ UNCHANGED <<account, dir, held, requests, returns, op, by, faults>>
    BY EditTyped DEF SetLeaverDate
<1>4. Kept /\ Typed'
    BY <1>2, <1>3 DEF Kept, DeletedThere, DeletionInv, TypeOK, Typed
<1>. QED
    BY <1>2, <1>3, <1>4, EndsOnly DEF DeletionInv, TypeOK

\* The deletion.  The worker alone handles one.
LEMMA WorkerIsProc == Worker \in Procs
BY DEF Procs

LEMMA SweepDeletionsKeeps == ASSUME DeletionInv, SweepDeletions PROVE DeletionInv'
<1>. DEFINE o == NewOp("deletion", FALSE)
            b == Load(o, Accounts)
            m == Mirrored(o)
            l == [b EXCEPT !.accts[Primary] = m]
            T == ToDelete(l)
<1>1. /\ \/ user' = [user EXCEPT !.deleteAt = "none"] /\ UNCHANGED <<account, op>>
         \/ EnsurePrimary(o) /\ UNCHANGED user /\ op' = [op EXCEPT ![Worker] = [l EXCEPT !.phase = "delete", !.todo = T]]
      /\ UNCHANGED <<dir, held, requests, returns, by, edits, faults>>
    BY DEF SweepDeletions
<1>2. o \in Handler /\ CopiesTrue(o) /\ o.kind = "deletion" /\ o.cur = NoAccount /\ o.done = {}
    BY NewOpTyped DEF DeletionInv, Kinds
<1>. HIDE DEF o
<1>3. b \in Handler /\ CopiesTrue(b) /\ b.kind = "deletion" /\ b.cur = NoAccount /\ b.done = {}
    BY <1>2, LoadTyped
<1>4. Primary \in Switchable /\ m \in Status /\ (m = "DELETED" => DeletedThere(Primary))
    BY <1>2, ConstantsAssumption, PrimaryMirrored DEF Switchable
<1>. HIDE DEF b, m
<1>5. l \in Handler /\ l.kind = "deletion" /\ l.cur = NoAccount /\ l.done = {} /\ l.accts = [b.accts EXCEPT ![Primary] = m]
    BY <1>3, <1>4 DEF Handler
<1>6. CopiesTrue(l)
    BY <1>3, <1>4, <1>5 DEF CopiesTrue, Handler, Switchable
<1>7. T \in SUBSET Accounts /\ T \in SUBSET (Switchable \cup Holdings) /\ \A a \in Accounts : a \in T \/ DeletedThere(a)
    BY <1>6 DEF ToDelete, CopiesTrue, Switchable
<1>. HIDE DEF l, T
<1>8. CASE user' = [user EXCEPT !.deleteAt = "none"] /\ UNCHANGED <<account, op>>
    <2>1. user' \in Person /\ user'.gone = user.gone
        BY <1>8 DEF DeletionInv, TypeOK, Person
    <2>2. Kept /\ Typed'
        BY <1>1, <1>8, <2>1 DEF Kept, DeletedThere, DeletionInv, TypeOK, Typed
    <2>. QED
        BY <1>1, <1>8, <2>1, <2>2, EndsOnly DEF DeletionInv, TypeOK
<1>9. CASE EnsurePrimary(o) /\ UNCHANGED user /\ op' = [op EXCEPT ![Worker] = [l EXCEPT !.phase = "delete", !.todo = T]]
    <2>1. PICK h \in Handler :
            /\ op' = [op EXCEPT ![Worker] = h] /\ h.accts = l.accts /\ h.phase = "delete" /\ h.kind = "deletion"
            /\ h.cur = NoAccount /\ h.todo = T /\ h.done = {}
        <3>1. [l EXCEPT !.phase = "delete", !.todo = T] \in Handler
            BY <1>5, <1>7 DEF Handler
        <3>. QED
            BY <1>5, <1>9, <3>1 DEF Handler
    <2>2. CopiesTrue(h) /\ HowFar(h) /\ Orderly(h)
        BY <1>6, <1>7, <2>1 DEF CopiesTrue, HowFar, Orderly, Switchable
    <2>3. /\ account' \in [Switchable -> Status]
          /\ \A a \in Accounts : account'[a] = "DELETED" => account[a] = "DELETED" \/ DeletedThere(a)
        BY <1>2, <1>9, PrimaryMirrored
    <2>4. user' \in Person /\ user'.gone = user.gone /\ faults' \in 0..MaxFaults
        BY <1>1, <1>9 DEF DeletionInv, TypeOK
    <2>. QED
        BY <1>1, <2>1, <2>2, <2>3, <2>4, WorkerIsProc, MovesOnly
<1>. QED
    BY <1>1, <1>8, <1>9

\* One account: it is gone from its directory, or the handler notes the failure.
LEMMA DeleteAccountKeeps == ASSUME DeletionInv, op[Worker] # Idle, DeleteAccount PROVE DeletionInv'
<1>. DEFINE o == op[Worker]
<1>0. PICK a \in o.todo :
        /\ o.phase = "delete"
        /\ \/ /\ dir' = [dir EXCEPT ![a] = "DELETED"]
              /\ op' = [op EXCEPT ![Worker].todo = @ \ {a}, ![Worker].done = @ \cup {a}]
           \/ /\ dir' = dir \/ dir' = [dir EXCEPT ![a] = "DELETED"]
              /\ op' = [op EXCEPT ![Worker].todo = @ \ {a}, ![Worker].failed = @ \cup {a}]
    BY DEF DeleteAccount
<1>1. \/ /\ dir' = [dir EXCEPT ![a] = "DELETED"]
         /\ op' = [op EXCEPT ![Worker] = [o EXCEPT !.todo = @ \ {a}, !.done = @ \cup {a}]]
      \/ /\ dir' = dir \/ dir' = [dir EXCEPT ![a] = "DELETED"]
         /\ op' = [op EXCEPT ![Worker] = [o EXCEPT !.todo = @ \ {a}, !.failed = @ \cup {a}]]
    BY <1>0, WorkerIsProc DEF DeletionInv, TypeOK
<1>2. UNCHANGED <<user, account, held, requests, returns, by, edits>> /\ faults' \in 0..MaxFaults
    BY FaultTyped DEF DeleteAccount, DeletionInv, TypeOK
<1>3. o \in Handler /\ Sound(o)
    BY InFlight, WorkerIsProc
<1>4. o.todo \subseteq Switchable /\ o.cur = NoAccount /\ o.kind # "start"
    BY <1>0, <1>1, <1>3 DEF Sound, Orderly
<1>. HIDE DEF o
<1>5. /\ dir' \in [Switchable -> Status]
      /\ \A b \in Accounts : DeletedThere(b) => DeletedThere(b)'
    BY <1>0, <1>1, <1>4 DEF DeletedThere, DeletionInv, TypeOK, Status, Switchable
<1>6. PICK h \in Handler :
        /\ op' = [op EXCEPT ![Worker] = h] /\ h.accts = o.accts /\ h.phase = "delete" /\ h.kind = o.kind
        /\ h.row = o.row /\ h.cur = NoAccount /\ h.todo = o.todo \ {a}
        /\ \/ h.done = o.done \cup {a} /\ h.failed = o.failed /\ dir'[a] = "DELETED"
           \/ h.done = o.done /\ h.failed = o.failed \cup {a}
    <2>1. CASE /\ dir' = [dir EXCEPT ![a] = "DELETED"]
               /\ op' = [op EXCEPT ![Worker] = [o EXCEPT !.todo = @ \ {a}, !.done = @ \cup {a}]]
        <3>1. [o EXCEPT !.todo = @ \ {a}, !.done = @ \cup {a}] \in Handler
            BY <1>0, <1>1, <1>3, <1>4 DEF Handler
        <3>2. dir'[a] = "DELETED"
            BY <1>0, <1>1, <1>4, <2>1 DEF DeletionInv, TypeOK
        <3>. QED
            BY <1>0, <1>1, <1>3, <1>4, <2>1, <3>1, <3>2 DEF Handler
    <2>2. CASE op' = [op EXCEPT ![Worker] = [o EXCEPT !.todo = @ \ {a}, !.failed = @ \cup {a}]]
        <3>1. [o EXCEPT !.todo = @ \ {a}, !.failed = @ \cup {a}] \in Handler
            BY <1>0, <1>1, <1>3, <1>4 DEF Handler
        <3>. QED
            BY <1>0, <1>1, <1>3, <1>4, <2>2, <3>1 DEF Handler
    <2>. QED
        BY <1>0, <1>1, <2>1, <2>2
<1>7. Kept /\ Typed'
    BY <1>2, <1>5 DEF Kept, DeletionInv, TypeOK, Typed
<1>8. Sound(h)'
    <2>1. CopiesTrue(h)'
        BY <1>3, <1>5, <1>6 DEF Sound, CopiesTrue
    <2>2. HowFar(h)'
        <3>1. \A b \in Accounts : (b \in h.todo \cup h.failed \/ DeletedThere(b))'
            BY <1>0, <1>1, <1>3, <1>5, <1>6 DEF Sound, HowFar, DeletedThere
        <3>2. \A b \in Accounts \cap h.done : DeletedThere(b)'
            BY <1>0, <1>1, <1>3, <1>5, <1>6 DEF Sound, HowFar, DeletedThere
        <3>. QED
            BY <1>6, <3>1, <3>2 DEF HowFar
    <2>3. Orderly(h)'
        BY <1>2, <1>3, <1>4, <1>6 DEF Sound, Orderly
    <2>. QED
        BY <2>1, <2>2, <2>3 DEF Sound
<1>. QED
    BY <1>2, <1>6, <1>7, <1>8, WorkerIsProc, LabelsStay, Moves

\* What was deleted is written down; when nothing failed, nothing is left to delete.
LEMMA CommitDeletionsKeeps == ASSUME DeletionInv, CommitDeletions PROVE DeletionInv'
<1>. DEFINE o == op[Worker]
<1>1. /\ o # Idle /\ o.phase = "delete" /\ o.todo = {}
      /\ account' = [a \in Switchable |-> IF a \in o.done THEN "DELETED" ELSE account[a]]
      /\ \/ o.failed = {} /\ op' = [op EXCEPT ![Worker] = [o EXCEPT !.phase = "mark"]]
         \/ op' = [op EXCEPT ![Worker] = Idle]
      /\ UNCHANGED <<user, dir, held, requests, returns, by, edits, faults>>
    BY DEF CommitDeletions, MayLabel
<1>2. o \in Handler /\ Sound(o)
    BY <1>1, InFlight, WorkerIsProc
<1>3. \A a \in Accounts \cap o.done : DeletedThere(a)
    BY <1>1, <1>2 DEF Sound, HowFar
<1>4. /\ account' \in [Switchable -> Status]
      /\ \A a \in Accounts : account'[a] = "DELETED" => account[a] = "DELETED" \/ DeletedThere(a)
    BY <1>1, <1>3 DEF DeletionInv, TypeOK, Status, Switchable
<1>5. user' \in Person /\ user'.gone = user.gone /\ faults' \in 0..MaxFaults
    BY <1>1 DEF DeletionInv, TypeOK
<1>6. CASE o.failed = {} /\ op' = [op EXCEPT ![Worker] = [o EXCEPT !.phase = "mark"]]
    <2>1. \A a \in Accounts : DeletedThere(a)
        BY <1>1, <1>2, <1>6 DEF Sound, HowFar
    <2>2. PICK h \in Handler :
            /\ op' = [op EXCEPT ![Worker] = h] /\ h.accts = o.accts /\ h.phase = "mark" /\ h.kind = o.kind
            /\ h.row = o.row /\ h.cur = o.cur
        <3>. HIDE DEF o
        <3>1. [o EXCEPT !.phase = "mark"] \in Handler
            BY <1>2 DEF Handler
        <3>. QED
            BY <1>2, <1>6, <3>1 DEF Handler
    <2>3. CopiesTrue(h) /\ HowFar(h)
        BY <2>1, <2>2 DEF CopiesTrue, HowFar
    <2>4. Orderly(h)
        BY <1>1, <1>2, <2>2 DEF Sound, Orderly
    <2>. QED
        BY <1>1, <1>4, <1>5, <2>2, <2>3, <2>4, WorkerIsProc, MovesOnly
<1>7. CASE op' = [op EXCEPT ![Worker] = Idle]
    <2>1. op' \in [Procs -> Handler \cup {Idle}] /\ \A q \in Procs : op'[q] \in {op[q], Idle}
        BY <1>7 DEF DeletionInv, TypeOK
    <2>2. Kept /\ Typed'
        BY <1>1, <1>4, <1>5 DEF Kept, DeletedThere, DeletionInv, TypeOK, Typed
    <2>. QED
        BY <1>4, <1>5, <2>1, <2>2, LabelsStay, Stops
<1>. QED
    BY <1>1, <1>6, <1>7

\* The label: it is put only on a person all of whose accounts are gone.
LEMMA MarkDeletedKeeps == ASSUME DeletionInv, MarkDeleted PROVE DeletionInv'
<1>1. /\ op[Worker] # Idle /\ op[Worker].phase = "mark"
      /\ user' = [user EXCEPT !.gone = TRUE, !.status = "DELETED"] /\ op' = [op EXCEPT ![Worker] = Idle]
      /\ UNCHANGED <<account, dir, held, requests, returns, by, edits, faults>>
    BY DEF MarkDeleted
<1>2. \A a \in Accounts : DeletedThere(a)
    BY <1>1, InFlight, WorkerIsProc DEF Sound, HowFar
<1>3. user' \in Person
    BY <1>1 DEF DeletionInv, TypeOK, Person
<1>4. Kept /\ Typed'
    BY <1>1, <1>3 DEF Kept, DeletedThere, DeletionInv, TypeOK, Typed
<1>5. RowsTrue' /\ DeletedIsGone'
    BY <1>1, <1>2 DEF DeletedThere, RowsTrue, DeletedIsGone
<1>6. op' \in [Procs -> Handler \cup {Idle}] /\ \A q \in Procs : op'[q] \in {op[q], Idle}
    BY <1>1 DEF DeletionInv, TypeOK
<1>. QED
    BY <1>4, <1>5, <1>6, Stops

(***************************************************************************)
(* The surroundings.                                                       *)
(***************************************************************************)
LEMMA GivenAgainKeeps == ASSUME DeletionInv, GivenAgain PROVE DeletionInv'
<1>1. held' \subseteq Holdings /\ edits' \in 0..MaxEdits
    BY EditTyped DEF GivenAgain, DeletionInv, TypeOK
<1>2. UNCHANGED <<user, account, dir, requests, returns, op, by, faults>>
    BY DEF GivenAgain
<1>3. Kept /\ Typed'
    BY <1>1, <1>2 DEF Kept, DeletedThere, DeletionInv, TypeOK, Typed
<1>4. RowsTrue' /\ DeletedIsGone'
    BY <1>2, <1>3, LabelsStay
<1>. QED
    BY <1>2, <1>3, <1>4, Stops DEF DeletionInv, TypeOK

LEMMA DirectoryChangesKeeps == ASSUME DeletionInv, DirectoryChanges PROVE DeletionInv'
<1>1. PICK a \in Accounts, v \in {"ACTIVE", "DISABLED"} :
        dir[a] # "DELETED" /\ dir' = [dir EXCEPT ![a] = v] /\ by' = [by EXCEPT ![a] = "directory"]
    BY DEF DirectoryChanges
<1>2. edits' \in 0..MaxEdits /\ UNCHANGED <<user, account, held, requests, returns, op, faults>>
    BY EditTyped DEF DirectoryChanges
<1>3. Kept /\ Typed'
    BY <1>1, <1>2 DEF Kept, DeletedThere, DeletionInv, TypeOK, Typed, Status, Switchable
<1>4. RowsTrue' /\ DeletedIsGone'
    BY <1>2, <1>3, LabelsStay
<1>. QED
    BY <1>2, <1>3, <1>4, Stops DEF DeletionInv, TypeOK

LEMMA TickKeeps == ASSUME DeletionInv, Tick PROVE DeletionInv'
<1>1. user' \in Person /\ user'.gone = user.gone
    BY DEF Tick, DeletionInv, TypeOK, Person
<1>2. UNCHANGED <<account, dir, held, requests, returns, op, by, edits, faults>>
    BY DEF Tick
<1>3. Kept /\ Typed'
    BY <1>1, <1>2 DEF Kept, DeletedThere, DeletionInv, TypeOK, Typed
<1>. QED
    BY <1>1, <1>2, <1>3, EndsOnly DEF DeletionInv, TypeOK

LEMMA CrashKeeps == ASSUME DeletionInv, Crash PROVE DeletionInv'
<1>1. /\ op' = [p \in Procs |-> Idle] /\ faults' \in 0..MaxFaults
      /\ UNCHANGED <<user, account, dir, held, requests, returns, by, edits>>
    BY FaultTyped DEF Crash
<1>2. op' \in [Procs -> Handler \cup {Idle}] /\ \A q \in Procs : op'[q] \in {op[q], Idle}
    BY <1>1
<1>3. Kept /\ Typed'
    BY <1>1 DEF Kept, DeletedThere, DeletionInv, TypeOK, Typed
<1>. QED
    BY <1>1, <1>2, <1>3, EndsOnly

(***************************************************************************)
(* The theorems.                                                           *)
(***************************************************************************)
LEMMA InitSound == Init => DeletionInv
<1>. SUFFICES ASSUME Init PROVE DeletionInv
    OBVIOUS
<1>1. account = [a \in Switchable |-> "ACTIVE"] /\ dir = account
    BY DEF Init
<1>2. user \in Person /\ ~user.gone
    BY DEF Init, Person
<1>3. TypeOK
    BY <1>1, <1>2, ConstantsAssumption DEF Init, TypeOK, Status
<1>4. RowsTrue
    BY <1>1 DEF RowsTrue, Switchable
<1>5. OpsSound
    BY DEF Init, OpsSound
<1>. QED
    BY <1>2, <1>3, <1>4, <1>5 DEF DeletionInv, DeletedIsGone

LEMMA StepKeeps == ASSUME DeletionInv, NEW p \in Procs, Step(p) PROVE DeletionInv'
BY CallDirectoryKeeps, CallFailsKeeps, SwitchCommitKeeps, TakeAwayKeeps, DisableLinkedKeeps, DisableAccountsKeeps,
   FinishLeavingKeeps, RecordDecisionKeeps, FinishSettingKeeps, FinishStartKeeps, FinishReturnKeeps DEF Step

LEMMA AskKeeps == ASSUME DeletionInv, NEW p \in Procs, Ask(p) PROVE DeletionInv'
BY SetOneKeeps, SetAllKeeps, StartLeaverKeeps, ApproveLeaverKeeps, DenyLeaverKeeps, RequestReturnKeeps,
   RejectReturnKeeps, ApproveReturnKeeps, SetLeaverDateKeeps, TerminateByCsvKeeps DEF Ask

LEMMA NextKeeps == ASSUME DeletionInv, [Next]_vars PROVE DeletionInv'
<1>1. CASE \E p \in Requests : Ask(p)
    BY <1>1, AskKeeps DEF Procs
<1>2. CASE \E p \in Procs : Step(p)
    BY <1>2, StepKeeps
<1>3. CASE Sweep
    BY <1>3, SweepLeaversKeeps, SweepDeletionsKeeps DEF Sweep
<1>4. CASE Deleting
    BY <1>4, DeleteAccountKeeps, CommitDeletionsKeeps, MarkDeletedKeeps DEF Deleting
<1>5. CASE FetchUsers \/ ApplyUsers
    BY <1>5, FetchUsersKeeps, ApplyUsersKeeps
<1>6. CASE GivenAgain \/ DirectoryChanges \/ Tick \/ Crash
    BY <1>6, GivenAgainKeeps, DirectoryChangesKeeps, TickKeeps, CrashKeeps
<1>7. CASE UNCHANGED vars
    <2>1. UNCHANGED <<user, account, dir, held, requests, returns, op, by, edits, faults>>
        BY <1>7 DEF vars
    <2>2. Kept /\ Typed'
        BY <2>1 DEF Kept, DeletedThere, DeletionInv, TypeOK, Typed
    <2>. QED
        BY <2>1, <2>2, EndsOnly DEF DeletionInv, TypeOK
<1>. QED
    BY <1>1, <1>2, <1>3, <1>4, <1>5, <1>6, <1>7 DEF Next

\* What rows and handlers say about deleted accounts and about their own requests stays true,
\* whichever handlers interleave and whichever calls fail (leaver_followup.py:231-252).
THEOREM Inductive == Spec => []DeletionInv
<1>1. DeletionInv /\ [Next]_vars => DeletionInv'
    BY NextKeeps
<1>. QED
    BY InitSound, <1>1, PTL DEF Spec

\* The rows, the directories and the handlers in flight keep the shape the code gives them.
THEOREM TypeCorrect == Spec => []TypeOK
<1>1. DeletionInv => TypeOK
    BY DEF DeletionInv
<1>. QED
    BY Inductive, <1>1, PTL

\* A person labelled DELETED has no account left in any directory, whatever the number of
\* accounts, of handlers, of edits and of failed attempts (leaver_followup.py:232).
THEOREM DeletedTrusted == Spec => []DeletedIsGone
<1>1. DeletionInv => DeletedIsGone
    BY DEF DeletionInv
<1>. QED
    BY Inductive, <1>1, PTL
-----------------------------------------------------------------------------

(***************************************************************************)
(* Nobody keeps access.                                                    *)
(*                                                                         *)
(* LockedOut speaks of a leaver process that is about to finish; what it   *)
(* rests on is what a process knows on its way there (Firm), and that no   *)
(* step of anybody else takes it back: an account comes on only through    *)
(* the directory itself, and nothing taken away returns (Harmless).  A     *)
(* handler of AccessPilot that enables accounts would take it back, so     *)
(* the theorem is about handlers that run one at a time, or of which none  *)
(* enables (NobodyEnables).                                                *)
(***************************************************************************)
Enabling      == {"account", "person", "deny", "return"}
NobodyEnables == MaxInFlight <= 1 \/ Ops \cap Enabling = {}

Covers(o)  == o.kind \in Leaving /\ o.phase \in {"take", "linked", "accounts"}
Enables(o) == o.on /\ o.phase # "apply"

TakenAway(o) == Covers(o) =>
    held \cap Covered(o.kind, o.policy) \subseteq o.failed \cup (IF o.phase = "take" THEN o.todo ELSE {})

LinkedOff(o) == Covers(o) /\ o.phase # "take" /\ o.policy.linked =>
    \A l \in Linked : dir[l] = "ACTIVE" => l \in o.failed \/ (o.phase = "linked" /\ l \in o.todo)

AccountsOff(o) == Covers(o) /\ o.phase = "accounts" /\ o.policy.disable =>
    \A a \in Accounts : dir[a] = "ACTIVE" => a \in o.failed \cup o.todo \/ by[a] = "directory"

\* The sync does not call the directory in which it saw the primary account off.
SeenOff(o) == (o.phase = "apply" /\ ~o.on) \/ o.skip # {} =>
    o.kind = "sync" /\ o.skip \subseteq {Primary} /\ (dir[Primary] = "ACTIVE" => by[Primary] = "directory")

CallsOwn(o) ==
    /\ Enables(o) => MaxInFlight <= 1 /\ o.kind \notin Leaving /\ o.todo \cup {o.cur} \subseteq Accounts \cup {NoAccount}
    /\ o.cur \in Linked => dir[o.cur] # "ACTIVE"
    /\ o.phase \in {"take", "linked"} => o.kind \in Leaving

Firm(o) == TakenAway(o) /\ LinkedOff(o) /\ AccountsOff(o) /\ SeenOff(o) /\ CallsOwn(o)

LinkedTrue == \A l \in Linked : account[l] = "DISABLED" => dir[l] # "ACTIVE"
Serial     == MaxInFlight <= 1 => \A p, q \in Procs : op[p] # Idle /\ op[q] # Idle => p = q
AllFirm    == \A p \in Procs : op[p] # Idle => Firm(op[p])

LockInv == LinkedTrue /\ Serial /\ AllFirm

\* Nothing comes on but in the directory itself, and nothing taken away returns.
Harmless ==
    /\ held' \subseteq held
    /\ \A a \in Accounts : dir'[a] = "ACTIVE" => by'[a] = "directory" \/ (dir[a] = "ACTIVE" /\ by[a] # "directory")
    /\ \A l \in Linked : dir'[l] = "ACTIVE" => dir[l] = "ACTIVE"

\* What a handler knows survives a harmless step of another.
LEMMA StandsFirm ==
    ASSUME NEW o, Firm(o), Harmless
    PROVE  Firm(o)'
<1>1. TakenAway(o)' /\ LinkedOff(o)' /\ AccountsOff(o)'
    BY DEF Firm, Harmless, TakenAway, LinkedOff, AccountsOff, Covers
<1>2. SeenOff(o)'
    BY ConstantsAssumption DEF Firm, Harmless, SeenOff
<1>3. CallsOwn(o)'
    BY DEF Firm, Harmless, CallsOwn, Enables
<1>. QED
    BY <1>1, <1>2, <1>3 DEF Firm

\* Where all handlers run one at a time, one that starts is alone.
LEMMA StartsAlone ==
    ASSUME TypeOK, NEW p \in Procs, NEW name, MayStart(p, name)
    PROVE  /\ op[p] = Idle /\ name \in Ops
           /\ MaxInFlight <= 1 => \A q \in Procs : op[q] = Idle
<1>. DEFINE busy == {q \in Procs : op[q] # Idle}
<1>1. IsFiniteSet(Procs)
    <2>1. IsFiniteSet({Worker}) /\ IsFiniteSet({Syncer})
        BY FS_Singleton
    <2>2. Procs = Requests \cup ({Worker} \cup {Syncer})
        BY DEF Procs
    <2>. QED
        BY <2>1, <2>2, FS_Union, ConstantsAssumption
<1>2. IsFiniteSet(busy) /\ Cardinality(busy) \in Nat /\ (Cardinality(busy) = 0 => busy = {})
    BY <1>1, FS_Subset, FS_CardinalityType, FS_EmptySet
<1>3. Cardinality(busy) < MaxInFlight
    BY DEF MayStart
<1>4. MaxInFlight <= 1 => busy = {}
    <2>. HIDE DEF busy
    <2>. QED
        BY <1>2, <1>3, ConstantsAssumption
<1>. QED
    BY <1>4 DEF MayStart

\* A step in which handler p becomes h, or ends.
LEMMA Goes ==
    ASSUME DeletionInv, LockInv, NEW p \in Procs, NEW h, op' = [op EXCEPT ![p] = h],
           op[p] # Idle \/ (MaxInFlight <= 1 => \A q \in Procs : op[q] = Idle),
           Harmless \/ \A q \in Procs \ {p} : op[q] = Idle,
           h # Idle => Firm(h)', LinkedTrue'
    PROVE  LockInv'
<1>1. op \in [Procs -> Handler \cup {Idle}]
    BY DEF DeletionInv, TypeOK
<1>2. Serial'
    BY <1>1 DEF LockInv, Serial
<1>3. ASSUME NEW q \in Procs, op'[q] # Idle
      PROVE  Firm(op[q])'
    <2>1. CASE q = p
        <3>1. op'[q] = h
            BY <1>1, <2>1
        <3>2. Firm(h)'
            BY <1>3, <3>1
        <3>. QED
            BY <3>1, <3>2 DEF Firm, TakenAway, LinkedOff, AccountsOff, SeenOff, CallsOwn, Covers, Enables
    <2>2. CASE q # p
        <3>1. PICK o : o = op[q]
            OBVIOUS
        <3>2. op'[q] = o /\ o # Idle
            BY <1>1, <1>3, <2>2, <3>1
        <3>3. Firm(o) /\ Harmless
            BY <2>2, <3>1, <3>2 DEF LockInv, AllFirm
        <3>4. Firm(o)'
            BY <3>3, StandsFirm
        <3>. QED
            BY <3>2, <3>4 DEF Firm, TakenAway, LinkedOff, AccountsOff, SeenOff, CallsOwn, Covers, Enables
    <2>. QED
        BY <2>1, <2>2
<1>. QED
    BY <1>2, <1>3 DEF LockInv, AllFirm

\* A step in which the directories and what is held stay, and handler p becomes h, or ends.
LEMMA GoesQuietly ==
    ASSUME DeletionInv, LockInv, NEW p \in Procs, NEW h, op' = [op EXCEPT ![p] = h], h # Idle => Firm(h),
           op[p] # Idle \/ (MaxInFlight <= 1 => \A q \in Procs : op[q] = Idle),
           UNCHANGED <<dir, by, held>>,
           \A l \in Linked : account'[l] = "DISABLED" => account[l] = "DISABLED" \/ dir[l] # "ACTIVE"
    PROVE  LockInv'
<1>1. Harmless
    BY DEF Harmless
<1>2. h # Idle => Firm(h)'
    BY <1>1, StandsFirm
<1>3. LinkedTrue'
    BY DEF LockInv, LinkedTrue
<1>. QED
    BY <1>1, <1>2, <1>3, Goes

\* The primary row is no linked account's.
LEMMA PrimaryOnly ==
    ASSUME DeletionInv, NEW o, EnsurePrimary(o), NEW l \in Linked
    PROVE  account'[l] = account[l]
<1>1. l # Primary
    BY ConstantsAssumption
<1>. QED
    BY <1>1 DEF EnsurePrimary, DeletionInv, TypeOK

\* A handler outside the leaver process that enables accounts only while it is alone.
LEMMA NotLeaving ==
    ASSUME NEW h \in Handler, h.kind \notin Leaving, h.phase \in {"accounts", "delete"}, h.skip = {}, h.cur = NoAccount,
           h.on => MaxInFlight <= 1 /\ h.todo \subseteq Accounts
    PROVE  Firm(h)
BY ConstantsAssumption DEF Firm, TakenAway, LinkedOff, AccountsOff, SeenOff, CallsOwn, Covers, Enables, Switchable

\* The parts of a new handler, and of one that has listed the accounts.
LEMMA NewParts ==
    ASSUME NEW kind, NEW on
    PROVE  /\ NewOp(kind, on).on = on /\ NewOp(kind, on).skip = {} /\ NewOp(kind, on).failed = {}
           /\ NewOp(kind, on).policy = NoPolicy
BY DEF NewOp

LEMMA LeavingParts ==
    ASSUME DeletionInv, NEW kind \in Leaving
    PROVE  /\ NewOp(kind, FALSE) \in Handler /\ NewOp(kind, FALSE).kind = kind /\ NewOp(kind, FALSE).cur = NoAccount
           /\ NewOp(kind, FALSE).on = FALSE /\ NewOp(kind, FALSE).skip = {}
<1>1. kind \in Kinds /\ FALSE \in BOOLEAN
    BY DEF Kinds
<1>2. /\ NewOp(kind, FALSE) \in Handler /\ NewOp(kind, FALSE).kind = kind /\ NewOp(kind, FALSE).cur = NoAccount
    BY <1>1, NewOpTyped DEF DeletionInv
<1>. QED
    BY <1>2, NewParts

LEMMA ListedParts ==
    ASSUME DeletionInv, NEW o \in Handler, CopiesTrue(o)
    PROVE  /\ Listed(o).on = o.on /\ Listed(o).skip = o.skip /\ Listed(o).failed = o.failed
           /\ Listed(o).policy = o.policy
           /\ Forced(o) => Listed(o).todo = Accounts \ o.skip
<1>. DEFINE b == Load(o, Accounts)
            l == [b EXCEPT !.accts[Primary] = Mirrored(o), !.phase = "accounts"]
            S == {a \in Accounts \ o.skip : Forced(o) \/ l.accts[a] # Target(o)}
<1>1. b \in Handler /\ b.on = o.on /\ b.skip = o.skip /\ b.failed = o.failed /\ b = [o EXCEPT !.accts = b.accts]
    BY LoadTyped
<1>. HIDE DEF b
<1>2. b.policy = o.policy
    BY <1>1 DEF Handler
<1>3. /\ l.on = o.on /\ l.skip = o.skip /\ l.failed = o.failed /\ l.policy = o.policy
      /\ DOMAIN l = DOMAIN b
    BY <1>1, <1>2 DEF Handler
<1>4. Listed(o) = [l EXCEPT !.todo = S, !.already = (Accounts \ o.skip) \ S]
    BY DEF Listed, b
<1>5. Forced(o) => S = Accounts \ o.skip
    OBVIOUS
<1>. HIDE DEF S
<1>6. "todo" \in DOMAIN l
    BY <1>1 DEF Handler
<1>. HIDE DEF l
<1>7. /\ Listed(o).on = l.on /\ Listed(o).skip = l.skip /\ Listed(o).failed = l.failed
      /\ Listed(o).policy = l.policy /\ Listed(o).todo = S
    BY <1>4, <1>6
<1>. QED
    BY <1>3, <1>5, <1>7

(***************************************************************************)
(* Handlers outside the leaver process.                                    *)
(***************************************************************************)
LEMMA SetOneFirm == ASSUME DeletionInv, LockInv, NobodyEnables, NEW p \in Procs, SetOne(p) PROVE LockInv'
<1>1. PICK a \in Accounts, on \in BOOLEAN :
        MayStart(p, "account") /\ op' = [op EXCEPT ![p] = [NewOp("account", on) EXCEPT !.todo = {a}]]
    BY DEF SetOne
<1>2. MaxInFlight <= 1 /\ \A q \in Procs : op[q] = Idle
    BY <1>1, StartsAlone DEF NobodyEnables, Enabling, DeletionInv
<1>3. /\ NewOp("account", on) \in Handler /\ NewOp("account", on).phase = "accounts"
      /\ NewOp("account", on).kind = "account" /\ NewOp("account", on).cur = NoAccount
      /\ NewOp("account", on).skip = {}
    BY NewOpTyped, NewParts DEF DeletionInv, Kinds
<1>4. PICK h \in Handler : h = [NewOp("account", on) EXCEPT !.todo = {a}]
    BY <1>3 DEF Handler, Switchable
<1>5. h.phase = "accounts" /\ h.kind = "account" /\ h.cur = NoAccount /\ h.skip = {} /\ h.todo = {a}
    BY <1>3, <1>4 DEF Handler
<1>6. Firm(h)
    BY <1>2, <1>5, NotLeaving DEF Leaving
<1>. QED
    BY <1>1, <1>2, <1>4, <1>6, GoesQuietly DEF SetOne

LEMMA SetAllFirm == ASSUME DeletionInv, LockInv, NobodyEnables, NEW p \in Procs, SetAll(p) PROVE LockInv'
<1>1. PICK on \in BOOLEAN :
        /\ MayStart(p, "person") /\ EnsurePrimary(NewOp("person", on))
        /\ op' = [op EXCEPT ![p] = Listed(NewOp("person", on))]
    BY DEF SetAll
<1>2. MaxInFlight <= 1 /\ \A q \in Procs : op[q] = Idle
    BY <1>1, StartsAlone DEF NobodyEnables, Enabling, DeletionInv
<1>3. /\ NewOp("person", on) \in Handler /\ CopiesTrue(NewOp("person", on))
      /\ NewOp("person", on).kind = "person" /\ NewOp("person", on).cur = NoAccount /\ NewOp("person", on).skip = {}
    BY NewOpTyped, NewParts DEF DeletionInv, Kinds
<1>4. PICK h \in Handler : h = Listed(NewOp("person", on))
    BY <1>3, ListedTyped
<1>5. h.phase = "accounts" /\ h.kind = "person" /\ h.cur = NoAccount /\ h.skip = {} /\ h.todo \subseteq Accounts
    BY <1>3, <1>4, ListedTyped, ListedParts
<1>6. Firm(h)
    BY <1>2, <1>5, NotLeaving DEF Leaving
<1>. QED
    BY <1>1, <1>2, <1>4, <1>6, PrimaryOnly, GoesQuietly DEF SetAll

LEMMA StartLeaverFirm == ASSUME DeletionInv, LockInv, NEW p \in Procs, StartLeaver(p) PROVE LockInv'
<1>1. /\ MayStart(p, "start") /\ EnsurePrimary(NewOp("start", FALSE))
      /\ op' = [op EXCEPT ![p] = Listed(NewOp("start", FALSE))]
    BY DEF StartLeaver
<1>2. MaxInFlight <= 1 => \A q \in Procs : op[q] = Idle
    BY <1>1, StartsAlone DEF DeletionInv
<1>3. /\ NewOp("start", FALSE) \in Handler /\ CopiesTrue(NewOp("start", FALSE)) /\ NewOp("start", FALSE).on = FALSE
      /\ NewOp("start", FALSE).kind = "start" /\ NewOp("start", FALSE).cur = NoAccount /\ NewOp("start", FALSE).skip = {}
    BY NewOpTyped, NewParts DEF DeletionInv, Kinds
<1>4. PICK h \in Handler : h = Listed(NewOp("start", FALSE))
    BY <1>3, ListedTyped
<1>5. h.phase = "accounts" /\ h.kind = "start" /\ h.cur = NoAccount /\ h.skip = {} /\ h.on = FALSE
    BY <1>3, <1>4, ListedTyped, ListedParts
<1>6. Firm(h)
    BY <1>5, NotLeaving DEF Leaving
<1>. QED
    BY <1>1, <1>2, <1>4, <1>6, PrimaryOnly, GoesQuietly DEF StartLeaver

LEMMA DenyLeaverFirm == ASSUME DeletionInv, LockInv, NobodyEnables, NEW p \in Procs, DenyLeaver(p) PROVE LockInv'
<1>1. PICK r \in LeaverRows :
        /\ MayStart(p, "deny") /\ Waiting(requests, r)
        /\ op' = [op EXCEPT ![p] = [NewOp("deny", TRUE) EXCEPT !.row = r, !.todo = requests[r].off]]
    BY DEF DenyLeaver
<1>2. MaxInFlight <= 1 /\ \A q \in Procs : op[q] = Idle
    BY <1>1, StartsAlone DEF NobodyEnables, Enabling, DeletionInv
<1>3. requests[r].off \subseteq Accounts
    BY <1>1 DEF Waiting, Absent, DeletionInv, TypeOK
<1>4. /\ NewOp("deny", TRUE) \in Handler /\ NewOp("deny", TRUE).phase = "accounts"
      /\ NewOp("deny", TRUE).kind = "deny" /\ NewOp("deny", TRUE).cur = NoAccount /\ NewOp("deny", TRUE).skip = {}
    BY NewOpTyped, NewParts DEF DeletionInv, Kinds
<1>5. PICK h \in Handler : h = [NewOp("deny", TRUE) EXCEPT !.row = r, !.todo = requests[r].off]
    BY <1>3, <1>4 DEF Handler, Switchable
<1>6. h.phase = "accounts" /\ h.kind = "deny" /\ h.cur = NoAccount /\ h.skip = {} /\ h.todo \subseteq Accounts
    BY <1>3, <1>4, <1>5 DEF Handler
<1>7. Firm(h)
    BY <1>2, <1>6, NotLeaving DEF Leaving
<1>. QED
    BY <1>1, <1>2, <1>5, <1>7, GoesQuietly DEF DenyLeaver

LEMMA ApproveReturnFirm == ASSUME DeletionInv, LockInv, NobodyEnables, NEW p \in Procs, ApproveReturn(p) PROVE LockInv'
<1>1. PICK r \in ReturnRows :
        LET o == [NewOp("return", TRUE) EXCEPT !.row = r]
            scope == returns[r].scope IN
        /\ MayStart(p, "return") /\ Waiting(returns, r)
        /\ IF scope = {}
           THEN EnsurePrimary(o) /\ op' = [op EXCEPT ![p] = Listed(o)]
           ELSE /\ UNCHANGED account
                /\ op' = [op EXCEPT ![p] = [Load(o, scope) EXCEPT
                              !.todo = {a \in scope : account[a] = "DISABLED"},
                              !.already = {a \in scope : account[a] # "DISABLED"}]]
    BY DEF ApproveReturn
<1>2. MaxInFlight <= 1 /\ \A q \in Procs : op[q] = Idle
    BY <1>1, StartsAlone DEF NobodyEnables, Enabling, DeletionInv
<1>3. PICK o \in Handler :
        /\ o = [NewOp("return", TRUE) EXCEPT !.row = r] /\ CopiesTrue(o)
        /\ o.phase = "accounts" /\ o.kind = "return" /\ o.cur = NoAccount /\ o.skip = {}
    <2>1. /\ NewOp("return", TRUE) \in Handler /\ CopiesTrue(NewOp("return", TRUE)) /\ NewOp("return", TRUE).phase = "accounts"
          /\ NewOp("return", TRUE).kind = "return" /\ NewOp("return", TRUE).cur = NoAccount /\ NewOp("return", TRUE).skip = {}
        BY NewOpTyped, NewParts DEF DeletionInv, Kinds
    <2>5. PICK n : n = NewOp("return", TRUE)
        OBVIOUS
    <2>2. PICK o : o = [n EXCEPT !.row = r]
        OBVIOUS
    <2>3. /\ o \in Handler /\ o.accts = n.accts /\ o.phase = "accounts" /\ o.kind = "return"
          /\ o.cur = NoAccount /\ o.skip = {}
        BY <2>1, <2>2, <2>5 DEF Handler
    <2>4. CopiesTrue(o)
        BY <2>1, <2>3, <2>5 DEF CopiesTrue
    <2>. QED
        BY <2>2, <2>3, <2>4, <2>5
<1>4. PICK scope : scope = returns[r].scope
    OBVIOUS
<1>5. scope \subseteq Accounts
    BY <1>1, <1>4 DEF Waiting, Absent, DeletionInv, TypeOK
<1>6. \/ EnsurePrimary(o) /\ op' = [op EXCEPT ![p] = Listed(o)]
      \/ /\ UNCHANGED account
         /\ op' = [op EXCEPT ![p] = [Load(o, scope) EXCEPT
                      !.todo = {a \in scope : account[a] = "DISABLED"},
                      !.already = {a \in scope : account[a] # "DISABLED"}]]
    BY <1>1, <1>3, <1>4
<1>7. CASE EnsurePrimary(o) /\ op' = [op EXCEPT ![p] = Listed(o)]
    <2>1. PICK h \in Handler : h = Listed(o)
        BY <1>3, ListedTyped
    <2>2. h.phase = "accounts" /\ h.kind = "return" /\ h.cur = NoAccount /\ h.skip = {} /\ h.todo \subseteq Accounts
        BY <1>3, <2>1, ListedTyped, ListedParts
    <2>3. Firm(h)
        BY <1>2, <2>2, NotLeaving DEF Leaving
    <2>. QED
        BY <1>2, <1>7, <2>1, <2>3, PrimaryOnly, GoesQuietly DEF ApproveReturn
<1>8. CASE /\ UNCHANGED account
           /\ op' = [op EXCEPT ![p] = [Load(o, scope) EXCEPT
                      !.todo = {a \in scope : account[a] = "DISABLED"},
                      !.already = {a \in scope : account[a] # "DISABLED"}]]
    <2>. DEFINE T == {a \in scope : account[a] = "DISABLED"}
                A == {a \in scope : account[a] # "DISABLED"}
    <2>1. PICK b : b = Load(o, scope)
        OBVIOUS
    <2>7. b \in Handler /\ b.phase = "accounts" /\ b.kind = "return" /\ b.cur = NoAccount /\ b.skip = {}
        BY <1>3, <2>1, LoadTyped
    <2>2. T \subseteq Accounts /\ A \subseteq Accounts
        BY <1>5
    <2>3. op' = [op EXCEPT ![p] = [b EXCEPT !.todo = T, !.already = A]]
        BY <1>8, <2>1
    <2>. HIDE DEF T, A
    <2>4. PICK h : h = [b EXCEPT !.todo = T, !.already = A]
        OBVIOUS
    <2>5. /\ h \in Handler /\ h.phase = "accounts" /\ h.kind = "return" /\ h.cur = NoAccount /\ h.skip = {}
          /\ h.todo \subseteq Accounts
        BY <2>2, <2>4, <2>7 DEF Handler, Switchable
    <2>6. Firm(h)
        BY <1>2, <2>5, NotLeaving DEF Leaving
    <2>. QED
        BY <1>2, <1>8, <2>3, <2>4, <2>6, GoesQuietly DEF ApproveReturn
<1>. QED
    BY <1>6, <1>7, <1>8

\* A decision on a request changes nothing here, a step that ends a handler neither.
LEMMA EndsQuietly ==
    ASSUME DeletionInv, LockInv, NEW p \in Procs, op[p] # Idle, op' = [op EXCEPT ![p] = Idle],
           UNCHANGED <<account, dir, by, held>>
    PROVE  LockInv'
BY GoesQuietly

LEMMA StaysQuiet ==
    ASSUME LockInv, UNCHANGED <<account, dir, by, held, op>>
    PROVE  LockInv'
BY DEF LockInv, LinkedTrue, Serial, AllFirm, Firm, TakenAway, LinkedOff, AccountsOff, SeenOff, CallsOwn, Covers, Enables

\* The deletion of the accounts: an account that is deleted is not on.
LEMMA SweepDeletionsFirm == ASSUME DeletionInv, LockInv, SweepDeletions PROVE LockInv'
<1>0. /\ NewOp("deletion", FALSE) \in Handler /\ CopiesTrue(NewOp("deletion", FALSE))
      /\ NewOp("deletion", FALSE).kind = "deletion" /\ NewOp("deletion", FALSE).cur = NoAccount
      /\ NewOp("deletion", FALSE).on = FALSE /\ NewOp("deletion", FALSE).skip = {}
    BY NewOpTyped, NewParts DEF DeletionInv, Kinds
<1>1. PICK o : o = NewOp("deletion", FALSE)
    OBVIOUS
<1>2. /\ o \in Handler /\ CopiesTrue(o) /\ o.kind = "deletion" /\ o.cur = NoAccount /\ o.on = FALSE /\ o.skip = {}
    BY <1>0, <1>1
<1>3. PICK b : b = Load(o, Accounts)
    OBVIOUS
<1>4. b \in Handler /\ b.kind = "deletion" /\ b.cur = NoAccount /\ b.on = FALSE /\ b.skip = {}
    BY <1>2, <1>3, LoadTyped
<1>5. PICK m : m = Mirrored(o)
    OBVIOUS
<1>6. PICK l : l = [b EXCEPT !.accts[Primary] = m]
    OBVIOUS
<1>7. m \in Status /\ Primary \in Switchable
    BY <1>2, <1>5, PrimaryMirrored, ConstantsAssumption DEF Switchable
<1>8. l \in Handler /\ l.kind = "deletion" /\ l.cur = NoAccount /\ l.on = FALSE /\ l.skip = {}
    BY <1>4, <1>6, <1>7 DEF Handler
<1>9. PICK h : h = [l EXCEPT !.phase = "delete", !.todo = ToDelete(l)]
    OBVIOUS
<1>10. /\ h \in Handler /\ h.kind = "deletion" /\ h.phase = "delete" /\ h.cur = NoAccount /\ h.on = FALSE /\ h.skip = {}
    <2>1. ToDelete(l) \in SUBSET (Switchable \cup Holdings)
        BY DEF ToDelete, Switchable
    <2>. QED
        BY <1>8, <1>9, <2>1 DEF Handler
<1>11. Firm(h)
    BY <1>10, NotLeaving DEF Leaving
<1>12. /\ MayStart(Worker, "deletion") /\ UNCHANGED <<dir, held, by>>
       /\ \/ UNCHANGED <<account, op>>
          \/ EnsurePrimary(o) /\ op' = [op EXCEPT ![Worker] = h]
    BY <1>1, <1>3, <1>5, <1>6, <1>9 DEF SweepDeletions
<1>13. MaxInFlight <= 1 => \A q \in Procs : op[q] = Idle
    BY <1>12, WorkerIsProc, StartsAlone DEF DeletionInv
<1>14. CASE UNCHANGED <<account, op>>
    BY <1>12, <1>14, StaysQuiet
<1>15. CASE EnsurePrimary(o) /\ op' = [op EXCEPT ![Worker] = h]
    <2>1. \A l2 \in Linked : account'[l2] = account[l2]
        BY <1>15, PrimaryOnly
    <2>. QED
        BY <1>11, <1>12, <1>13, <1>15, <2>1, WorkerIsProc, GoesQuietly
<1>. QED
    BY <1>12, <1>14, <1>15

LEMMA DeleteAccountFirm == ASSUME DeletionInv, LockInv, op[Worker] # Idle, DeleteAccount PROVE LockInv'
<1>1. PICK o : o = op[Worker]
    OBVIOUS
<1>2. o \in Handler /\ Sound(o) /\ Firm(o)
    BY <1>1, InFlight, WorkerIsProc DEF LockInv, AllFirm
<1>3. PICK a \in o.todo :
        /\ o.phase = "delete"
        /\ dir' = dir \/ dir' = [dir EXCEPT ![a] = "DELETED"]
        /\ \/ op' = [op EXCEPT ![Worker].todo = @ \ {a}, ![Worker].done = @ \cup {a}]
           \/ op' = [op EXCEPT ![Worker].todo = @ \ {a}, ![Worker].failed = @ \cup {a}]
    BY <1>1 DEF DeleteAccount
<1>4. UNCHANGED <<account, held, by>>
    BY DEF DeleteAccount
<1>5. a \in Switchable /\ o.cur = NoAccount
    BY <1>2, <1>3 DEF Sound, Orderly
<1>6. \A b \in Switchable : dir'[b] = "ACTIVE" => dir[b] = "ACTIVE"
    BY <1>3, <1>5 DEF DeletionInv, TypeOK
<1>7. Harmless
    BY <1>4, <1>6 DEF Harmless, Switchable
<1>8. LinkedTrue'
    BY <1>4, <1>6 DEF LockInv, LinkedTrue, Switchable
<1>9. \/ op' = [op EXCEPT ![Worker] = [o EXCEPT !.todo = @ \ {a}, !.done = @ \cup {a}]]
      \/ op' = [op EXCEPT ![Worker] = [o EXCEPT !.todo = @ \ {a}, !.failed = @ \cup {a}]]
    BY <1>1, <1>3, WorkerIsProc DEF DeletionInv, TypeOK
<1>10. PICK h : /\ op' = [op EXCEPT ![Worker] = h]
                /\ \/ h = [o EXCEPT !.todo = @ \ {a}, !.done = @ \cup {a}]
                   \/ h = [o EXCEPT !.todo = @ \ {a}, !.failed = @ \cup {a}]
    BY <1>9
<1>11. /\ h.phase = "delete" /\ h.kind = o.kind /\ h.on = o.on /\ h.skip = o.skip /\ h.cur = NoAccount
       /\ h.todo \subseteq o.todo
    BY <1>2, <1>3, <1>5, <1>10 DEF Handler
<1>12. Firm(h)
    BY <1>2, <1>3, <1>5, <1>11, ConstantsAssumption
       DEF Firm, TakenAway, LinkedOff, AccountsOff, SeenOff, CallsOwn, Covers, Enables, Switchable
<1>. QED
    BY <1>1, <1>7, <1>8, <1>10, <1>12, WorkerIsProc, StandsFirm, Goes

LEMMA CommitDeletionsFirm == ASSUME DeletionInv, LockInv, CommitDeletions PROVE LockInv'
<1>1. PICK o : o = op[Worker]
    OBVIOUS
<1>2. /\ o # Idle /\ o.phase = "delete"
      /\ account' = [a \in Switchable |-> IF a \in o.done THEN "DELETED" ELSE account[a]]
      /\ \/ op' = [op EXCEPT ![Worker] = [o EXCEPT !.phase = "mark"]]
         \/ op' = [op EXCEPT ![Worker] = Idle]
      /\ UNCHANGED <<dir, held, by>>
    BY <1>1 DEF CommitDeletions
<1>3. o \in Handler /\ Firm(o)
    BY <1>1, <1>2, InFlight, WorkerIsProc DEF LockInv, AllFirm
<1>4. \A l \in Linked : account'[l] = "DISABLED" => account[l] = "DISABLED"
    BY <1>2 DEF Switchable
<1>5. PICK h : h = [o EXCEPT !.phase = "mark"]
    OBVIOUS
<1>6. h.phase = "mark" /\ h.kind = o.kind /\ h.on = o.on /\ h.skip = o.skip /\ h.cur = o.cur /\ h.todo = o.todo
    BY <1>3, <1>5 DEF Handler
<1>7. Firm(h)
    BY <1>2, <1>3, <1>6 DEF Firm, TakenAway, LinkedOff, AccountsOff, SeenOff, CallsOwn, Covers, Enables
<1>. QED
    BY <1>1, <1>2, <1>4, <1>5, <1>7, WorkerIsProc, GoesQuietly, EndsQuietly

(***************************************************************************)
(* Calls of a directory.                                                   *)
(***************************************************************************)
LEMMA CallFirm ==
    ASSUME DeletionInv, LockInv, NEW p \in Procs, op[p] # Idle, CallDirectory(p) \/ CallFails(p)
    PROVE  LockInv'
<1>1. PICK o : o = op[p]
    OBVIOUS
<1>2. o \in Handler /\ Sound(o) /\ Firm(o) /\ UNCHANGED <<account, held>>
    BY <1>1, InFlight DEF LockInv, AllFirm, CallDirectory, CallFails
<1>3. PICK a \in o.todo :
        /\ o.phase \in {"linked", "accounts"} /\ o.cur = NoAccount
        /\ \/ /\ dir' = [dir EXCEPT ![a] = Target(o)] /\ by' = Turned(a, o.on)
              /\ op' = [op EXCEPT ![p] = [Load(o, {a}) EXCEPT !.cur = a, !.todo = @ \ {a}]]
           \/ /\ \/ UNCHANGED <<dir, by>>
                 \/ dir' = [dir EXCEPT ![a] = Target(o)] /\ by' = Turned(a, o.on)
              /\ op' = [op EXCEPT ![p] = [Load(o, {a}) EXCEPT !.failed = @ \cup {a}, !.todo = @ \ {a}]]
    <2>1. CASE CallDirectory(p)
        <3>1. PICK a \in op[p].todo :
                /\ op[p].phase \in {"linked", "accounts"} /\ op[p].cur = NoAccount
                /\ dir' = [dir EXCEPT ![a] = Target(op[p])] /\ by' = Turned(a, op[p].on)
                /\ op' = [op EXCEPT ![p] = [Load(op[p], {a}) EXCEPT !.cur = a, !.todo = @ \ {a}]]
            BY <2>1 DEF CallDirectory
        <3>. QED
            BY <1>1, <3>1
    <2>2. CASE CallFails(p)
        <3>1. PICK a \in op[p].todo :
                /\ op[p].phase \in {"linked", "accounts"} /\ op[p].cur = NoAccount
                /\ \/ UNCHANGED <<dir, by>>
                   \/ dir' = [dir EXCEPT ![a] = Target(op[p])] /\ by' = Turned(a, op[p].on)
                /\ op' = [op EXCEPT ![p] = [Load(op[p], {a}) EXCEPT !.failed = @ \cup {a}, !.todo = @ \ {a}]]
            BY <2>2 DEF CallFails
        <3>. QED
            BY <1>1, <3>1
    <2>. QED
        BY <2>1, <2>2
<1>10. PICK b : b = Load(o, {a})
    OBVIOUS
<1>4. a \in Switchable
    BY <1>2, <1>3 DEF Sound, Orderly
<1>5. /\ b \in Handler /\ b.phase = o.phase /\ b.kind = o.kind /\ b.on = o.on /\ b.skip = o.skip
      /\ b.todo = o.todo /\ b.failed = o.failed /\ b.cur = NoAccount /\ b.policy = o.policy
    <2>1. b \in Handler /\ b = [o EXCEPT !.accts = b.accts]
        BY <1>2, <1>10, LoadTyped DEF Sound
    <2>. QED
        BY <1>2, <1>3, <2>1 DEF Handler
<1>6. PICK h : /\ op' = [op EXCEPT ![p] = h]
               /\ \/ /\ dir' = [dir EXCEPT ![a] = Target(o)] /\ by' = Turned(a, o.on)
                     /\ h = [b EXCEPT !.cur = a, !.todo = @ \ {a}]
                  \/ /\ \/ UNCHANGED <<dir, by>>
                        \/ dir' = [dir EXCEPT ![a] = Target(o)] /\ by' = Turned(a, o.on)
                     /\ h = [b EXCEPT !.failed = @ \cup {a}, !.todo = @ \ {a}]
    BY <1>3, <1>10
<1>7. /\ h.phase = o.phase /\ h.kind = o.kind /\ h.on = o.on /\ h.skip = o.skip /\ h.policy = o.policy
      /\ h.todo = o.todo \ {a}
      /\ \/ /\ dir' = [dir EXCEPT ![a] = Target(o)] /\ by' = Turned(a, o.on)
            /\ h.cur = a /\ h.failed = o.failed
         \/ /\ \/ UNCHANGED <<dir, by>>
               \/ dir' = [dir EXCEPT ![a] = Target(o)] /\ by' = Turned(a, o.on)
            /\ h.cur = NoAccount /\ h.failed = o.failed \cup {a}
    BY <1>5, <1>6 DEF Handler
<1>8. CASE ~o.on
    <2>1. Target(o) = "DISABLED"
        BY <1>8 DEF Target
    <2>2. /\ \A c \in Switchable : dir'[c] = "ACTIVE" => dir[c] = "ACTIVE"
          /\ \A c \in Accounts : dir'[c] = "ACTIVE" => by'[c] = by[c]
          /\ dir' = [dir EXCEPT ![a] = Target(o)] => dir'[a] # "ACTIVE"
        BY <1>7, <1>4, <2>1, <1>8 DEF DeletionInv, TypeOK, Turned, Switchable
    <2>3. Harmless
        BY <1>2, <2>2 DEF Harmless, Switchable
    <2>4. LinkedTrue'
        BY <1>2, <2>2 DEF LockInv, LinkedTrue, Switchable
    <2>5. TakenAway(h)' /\ SeenOff(h)' /\ CallsOwn(h)'
        <3>1. TakenAway(h)'
            BY <1>2, <1>3, <1>7 DEF Firm, TakenAway, Covers
        <3>2. SeenOff(h)'
            BY <1>2, <1>3, <1>7, <2>3, ConstantsAssumption DEF Firm, SeenOff, Harmless
        <3>3. CallsOwn(h)'
            BY <1>2, <1>7, <1>8, <2>2, ConstantsAssumption DEF Firm, CallsOwn, Enables, Switchable
        <3>. QED
            BY <3>1, <3>2, <3>3
    <2>6. LinkedOff(h)'
        BY <1>2, <1>3, <1>7, <2>2 DEF Firm, LinkedOff, Covers, Switchable
    <2>7. AccountsOff(h)'
        BY <1>2, <1>3, <1>7, <2>2 DEF Firm, AccountsOff, Covers, Switchable
    <2>. QED
        BY <1>1, <1>6, <2>3, <2>4, <2>5, <2>6, <2>7, Goes DEF Firm
<1>9. CASE o.on
    <2>1. MaxInFlight <= 1 /\ o.kind \notin Leaving /\ o.todo \subseteq Accounts \cup {NoAccount}
        BY <1>2, <1>3, <1>9 DEF Firm, CallsOwn, Enables
    <2>2. a \in Accounts /\ a \notin Linked
        BY <1>3, <1>4, <2>1, ConstantsAssumption
    <2>3. \A q \in Procs \ {p} : op[q] = Idle
        BY <2>1 DEF LockInv, Serial
    <2>4. LinkedTrue'
        BY <1>2, <1>7, <2>2 DEF LockInv, LinkedTrue, Switchable, DeletionInv, TypeOK
    <2>5. TakenAway(h)' /\ LinkedOff(h)' /\ AccountsOff(h)'
        BY <1>7, <2>1 DEF TakenAway, LinkedOff, AccountsOff, Covers
    <2>6. SeenOff(h)'
        BY <1>2, <1>3, <1>7, <2>1 DEF Firm, SeenOff, Leaving
    <2>7. CallsOwn(h)'
        BY <1>2, <1>7, <2>1, <2>2, ConstantsAssumption DEF Firm, CallsOwn, Switchable
    <2>. QED
        BY <1>1, <1>6, <2>3, <2>4, <2>5, <2>6, <2>7, Goes DEF Firm
<1>. QED
    BY <1>2, <1>8, <1>9 DEF Handler

LEMMA SwitchCommitFirm == ASSUME DeletionInv, LockInv, NEW p \in Procs, op[p] # Idle, SwitchCommit(p) PROVE LockInv'
<1>1. PICK o : o = op[p]
    OBVIOUS
<1>2. o \in Handler /\ Sound(o) /\ Firm(o)
    BY <1>1, InFlight DEF LockInv, AllFirm
<1>3. /\ o.cur # NoAccount /\ UNCHANGED <<dir, held, by>>
      /\ account' = account \/ account' = [account EXCEPT ![o.cur] = Target(o)]
    BY <1>1 DEF SwitchCommit
<1>4. PICK w, u : op' = [op EXCEPT ![p] = [o EXCEPT !.cur = NoAccount, !.done = @ \cup {o.cur}, !.accts[o.cur] = w, !.user.status = u]]
    <2>1. op' = [op EXCEPT ![p] = [o EXCEPT !.cur = NoAccount, !.done = @ \cup {o.cur}, !.accts[o.cur] = account'[o.cur],
                                     !.user.status = IF FollowsPrimary(o.cur) THEN Target(o) ELSE @]]
        BY <1>1 DEF SwitchCommit
    <2>2. [o EXCEPT !.cur = NoAccount, !.done = @ \cup {o.cur}, !.accts[o.cur] = account'[o.cur],
                    !.user.status = IF FollowsPrimary(o.cur) THEN Target(o) ELSE @]
            = [o EXCEPT !.cur = NoAccount, !.done = @ \cup {o.cur}, !.accts[o.cur] = account'[o.cur],
                        !.user.status = IF FollowsPrimary(o.cur) THEN Target(o) ELSE o.user.status]
        BY <1>2 DEF Handler, Person
    <2>. QED
        BY <2>1, <2>2
<1>5. PICK h : h = [o EXCEPT !.cur = NoAccount, !.done = @ \cup {o.cur}, !.accts[o.cur] = w, !.user.status = u]
    OBVIOUS
<1>6. /\ h.phase = o.phase /\ h.kind = o.kind /\ h.on = o.on /\ h.skip = o.skip /\ h.policy = o.policy
      /\ h.todo = o.todo /\ h.failed = o.failed /\ h.cur = NoAccount
    BY <1>2, <1>5 DEF Handler
<1>7. Firm(h)
    BY <1>2, <1>6, ConstantsAssumption
       DEF Firm, TakenAway, LinkedOff, AccountsOff, SeenOff, CallsOwn, Covers, Enables, Switchable
<1>8. \A l \in Linked : account'[l] = "DISABLED" => account[l] = "DISABLED" \/ dir[l] # "ACTIVE"
    BY <1>2, <1>3 DEF Firm, CallsOwn, DeletionInv, TypeOK, Switchable
<1>. QED
    BY <1>1, <1>3, <1>4, <1>5, <1>7, <1>8, GoesQuietly

(***************************************************************************)
(* The leaver process.                                                     *)
(***************************************************************************)
LEMMA TakeAwayFirm == ASSUME DeletionInv, LockInv, NEW p \in Procs, op[p] # Idle, TakeAway(p) PROVE LockInv'
<1>1. PICK o : o = op[p]
    OBVIOUS
<1>2. o \in Handler /\ Sound(o) /\ Firm(o)
    BY <1>1, InFlight DEF LockInv, AllFirm
<1>3. PICK x \in o.todo :
        /\ o.phase = "take" /\ UNCHANGED <<account, dir, by>>
        /\ \/ held' = held \ {x} /\ op' = [op EXCEPT ![p].todo = @ \ {x}]
           \/ held' = held /\ op' = [op EXCEPT ![p].todo = @ \ {x}, ![p].failed = @ \cup {x}]
    BY <1>1 DEF TakeAway
<1>4. PICK h : /\ op' = [op EXCEPT ![p] = h]
               /\ \/ held' = held \ {x} /\ h = [o EXCEPT !.todo = @ \ {x}]
                  \/ held' = held /\ h = [o EXCEPT !.todo = @ \ {x}, !.failed = @ \cup {x}]
    BY <1>1, <1>3 DEF DeletionInv, TypeOK
<1>5. /\ h.phase = "take" /\ h.kind = o.kind /\ h.on = o.on /\ h.skip = o.skip /\ h.policy = o.policy
      /\ h.cur = o.cur /\ h.todo = o.todo \ {x}
      /\ \/ held' = held \ {x} /\ h.failed = o.failed
         \/ held' = held /\ h.failed = o.failed \cup {x}
    BY <1>2, <1>3, <1>4 DEF Handler
<1>6. Harmless /\ LinkedTrue'
    BY <1>3, <1>5 DEF Harmless, LockInv, LinkedTrue
<1>7. TakenAway(h)'
    BY <1>2, <1>3, <1>5 DEF Firm, TakenAway, Covers
<1>8. LinkedOff(h)' /\ AccountsOff(h)'
    BY <1>5 DEF LinkedOff, AccountsOff
<1>9. SeenOff(h)' /\ CallsOwn(h)'
    BY <1>2, <1>3, <1>5 DEF Firm, SeenOff, CallsOwn, Enables
<1>. QED
    BY <1>4, <1>6, <1>7, <1>8, <1>9, Goes DEF Firm

LEMMA DisableLinkedFirm == ASSUME DeletionInv, LockInv, NEW p \in Procs, op[p] # Idle, DisableLinked(p) PROVE LockInv'
<1>1. PICK o : o = op[p]
    OBVIOUS
<1>2. o \in Handler /\ Sound(o) /\ Firm(o)
    BY <1>1, InFlight DEF LockInv, AllFirm
<1>3. PICK T, b : /\ b = Load(o, IF o.policy.linked THEN Linked ELSE {})
                  /\ T = IF o.policy.linked THEN {l \in Linked : account[l] # "DISABLED"} ELSE {}
    OBVIOUS
<1>4. /\ o.phase = "take" /\ o.todo = {} /\ UNCHANGED <<account, dir, held, by>>
      /\ op' = [op EXCEPT ![p] = [b EXCEPT !.phase = "linked", !.todo = T]]
    BY <1>1, <1>3 DEF DisableLinked
<1>5. b \in Handler /\ b = [o EXCEPT !.accts = b.accts]
    BY <1>2, <1>3, LoadTyped DEF Sound
<1>6. PICK h : h = [b EXCEPT !.phase = "linked", !.todo = T]
    OBVIOUS
<1>7. /\ h.phase = "linked" /\ h.kind = o.kind /\ h.on = o.on /\ h.skip = o.skip /\ h.policy = o.policy
      /\ h.cur = NoAccount /\ h.failed = o.failed /\ h.todo = T
    BY <1>2, <1>4, <1>5, <1>6 DEF Handler, Sound, Orderly
<1>8. TakenAway(h)
    BY <1>2, <1>4, <1>7 DEF Firm, TakenAway, Covers
<1>9. LinkedOff(h)
    BY <1>3, <1>7 DEF LinkedOff, Covers, LockInv, LinkedTrue
<1>10. AccountsOff(h)
    BY <1>7 DEF AccountsOff
<1>11. SeenOff(h) /\ CallsOwn(h)
    BY <1>2, <1>4, <1>7, ConstantsAssumption DEF Firm, SeenOff, CallsOwn, Enables, Switchable
<1>. QED
    BY <1>1, <1>4, <1>6, <1>8, <1>9, <1>10, <1>11, GoesQuietly DEF Firm

LEMMA DisableAccountsFirm ==
    ASSUME DeletionInv, LockInv, NEW p \in Procs, op[p] # Idle, DisableAccounts(p)
    PROVE  LockInv'
<1>1. PICK o : o = op[p]
    OBVIOUS
<1>2. o \in Handler /\ Sound(o) /\ Firm(o)
    BY <1>1, InFlight DEF LockInv, AllFirm
<1>3. /\ o.phase = "linked" /\ o.todo = {} /\ o.cur = NoAccount /\ UNCHANGED <<dir, held, by>>
      /\ \/ o.policy.disable /\ EnsurePrimary(o) /\ op' = [op EXCEPT ![p] = Listed(o)]
         \/ ~o.policy.disable /\ UNCHANGED account /\ op' = [op EXCEPT ![p] = [o EXCEPT !.phase = "accounts"]]
    BY <1>1 DEF DisableAccounts, DeletionInv, TypeOK
<1>4. o.kind \in Leaving /\ Covers(o) /\ o.on = FALSE
    BY <1>2, <1>3 DEF Firm, CallsOwn, Enables, Covers, Handler
<1>5. PICK h : /\ op' = [op EXCEPT ![p] = h]
               /\ \/ o.policy.disable /\ h = Listed(o)
                  \/ ~o.policy.disable /\ h = [o EXCEPT !.phase = "accounts"]
    BY <1>3
<1>6. /\ h.phase = "accounts" /\ h.kind = o.kind /\ h.on = o.on /\ h.skip = o.skip /\ h.policy = o.policy
      /\ h.cur = NoAccount /\ h.failed = o.failed /\ (o.policy.disable => h.todo = Accounts \ o.skip)
    <2>1. CASE h = Listed(o) /\ o.policy.disable
        BY <1>2, <1>3, <1>4, <2>1, ListedTyped, ListedParts DEF Sound, Forced
    <2>2. CASE h = [o EXCEPT !.phase = "accounts"] /\ ~o.policy.disable
        BY <1>2, <1>3, <2>2 DEF Handler
    <2>. QED
        BY <1>5, <2>1, <2>2
<1>7. TakenAway(h) /\ LinkedOff(h)
    BY <1>2, <1>3, <1>4, <1>6 DEF Firm, TakenAway, LinkedOff, Covers
<1>8. AccountsOff(h)
    BY <1>2, <1>6 DEF Firm, AccountsOff, SeenOff
<1>9. SeenOff(h) /\ CallsOwn(h)
    BY <1>2, <1>3, <1>4, <1>6, ConstantsAssumption DEF Firm, SeenOff, CallsOwn, Enables, Switchable
<1>10. \A l \in Linked : account'[l] = account[l]
    BY <1>3, PrimaryOnly
<1>. QED
    BY <1>1, <1>3, <1>5, <1>7, <1>8, <1>9, <1>10, GoesQuietly DEF Firm

\* The process ends: what AccessPilot had enabled is forgotten, what the directory had is not.
LEMMA FinishLeavingFirm == ASSUME DeletionInv, LockInv, NEW p \in Procs, op[p] # Idle, FinishLeaving(p) PROVE LockInv'
<1>1. PICK o : o = op[p]
    OBVIOUS
<1>2. o \in Handler /\ Firm(o)
    BY <1>1, InFlight DEF LockInv, AllFirm
<1>3. PICK h : h = IF o.kind = "approve" THEN [o EXCEPT !.phase = "record"] ELSE Idle
    OBVIOUS
<1>4. /\ o.phase = "accounts" /\ o.cur = NoAccount /\ o.kind \in Leaving
      /\ op' = [op EXCEPT ![p] = h] /\ UNCHANGED <<account, dir, held>>
      /\ by' = [a \in Accounts |-> IF by[a] = "accesspilot" THEN "nobody" ELSE by[a]]
    BY <1>1, <1>3 DEF FinishLeaving, Switched
<1>5. Harmless /\ LinkedTrue'
    BY <1>4 DEF Harmless, LockInv, LinkedTrue, DeletionInv, TypeOK
<1>6. o.on = FALSE
    BY <1>2, <1>4 DEF Firm, CallsOwn, Enables, Handler
<1>7. ASSUME h # Idle PROVE Firm(h)
    <2>1. h.phase = "record" /\ h.kind = o.kind /\ h.on = FALSE /\ h.skip = o.skip /\ h.cur = NoAccount
        BY <1>2, <1>3, <1>4, <1>6, <1>7 DEF Handler
    <2>. QED
        BY <1>2, <1>4, <2>1, ConstantsAssumption
           DEF Firm, TakenAway, LinkedOff, AccountsOff, SeenOff, CallsOwn, Covers, Enables, Switchable
<1>. QED
    BY <1>4, <1>5, <1>7, StandsFirm, Goes

\* run_leaver begins.
LEMMA LeaveFirm ==
    ASSUME DeletionInv, LockInv, NEW p \in Procs, NEW o \in Handler, Leave(p, o),
           o.kind \in Leaving, o.on = FALSE, o.cur = NoAccount,
           o.skip = {} \/ (o.kind = "sync" /\ o.skip = {Primary} /\ (dir[Primary] = "ACTIVE" => by[Primary] = "directory")),
           op[p] # Idle \/ (MaxInFlight <= 1 => \A q \in Procs : op[q] = Idle),
           UNCHANGED <<account, dir, held, by>>
    PROVE  LockInv'
<1>1. PICK pol \in Policies, T \in SUBSET held :
        /\ T = held \cap Covered(o.kind, pol)
        /\ op' = [op EXCEPT ![p] = [o EXCEPT !.phase = "take", !.policy = pol, !.todo = T]]
    BY DEF Leave
<1>2. PICK h : h = [o EXCEPT !.phase = "take", !.policy = pol, !.todo = T]
    OBVIOUS
<1>3. /\ h.phase = "take" /\ h.kind = o.kind /\ h.on = FALSE /\ h.skip = o.skip /\ h.policy = pol
      /\ h.cur = NoAccount /\ h.todo = T
    BY <1>2 DEF Handler
<1>4. TakenAway(h)
    BY <1>1, <1>3 DEF TakenAway
<1>5. LinkedOff(h) /\ AccountsOff(h)
    BY <1>3 DEF LinkedOff, AccountsOff
<1>6. SeenOff(h) /\ CallsOwn(h)
    BY <1>3, ConstantsAssumption DEF SeenOff, CallsOwn, Enables, Switchable
<1>. QED
    BY <1>1, <1>2, <1>4, <1>5, <1>6, GoesQuietly DEF Firm

LEMMA SweepLeaversFirm == ASSUME DeletionInv, LockInv, SweepLeavers PROVE LockInv'
<1>1. /\ NewOp("scheduled", FALSE) \in Handler /\ NewOp("scheduled", FALSE).kind = "scheduled"
      /\ NewOp("scheduled", FALSE).cur = NoAccount /\ NewOp("scheduled", FALSE).on = FALSE
      /\ NewOp("scheduled", FALSE).skip = {}
    BY LeavingParts DEF Leaving
<1>2. PICK o : o = NewOp("scheduled", FALSE)
    OBVIOUS
<1>3. o \in Handler /\ o.kind = "scheduled" /\ o.cur = NoAccount /\ o.on = FALSE /\ o.skip = {}
    BY <1>1, <1>2
<1>4. MayStart(Worker, "scheduled") /\ Leave(Worker, o) /\ UNCHANGED <<account, dir, held, by>>
    BY <1>2 DEF SweepLeavers
<1>5. MaxInFlight <= 1 => \A q \in Procs : op[q] = Idle
    BY <1>4, WorkerIsProc, StartsAlone DEF DeletionInv
<1>. QED
    BY <1>3, <1>4, <1>5, WorkerIsProc, LeaveFirm DEF Leaving

LEMMA TerminateByCsvFirm == ASSUME DeletionInv, LockInv, NEW p \in Procs, TerminateByCsv(p) PROVE LockInv'
<1>1. /\ NewOp("csv", FALSE) \in Handler /\ NewOp("csv", FALSE).kind = "csv"
      /\ NewOp("csv", FALSE).cur = NoAccount /\ NewOp("csv", FALSE).on = FALSE /\ NewOp("csv", FALSE).skip = {}
    BY LeavingParts DEF Leaving
<1>2. PICK n : n = NewOp("csv", FALSE)
    OBVIOUS
<1>3. n \in Handler /\ n.kind = "csv" /\ n.cur = NoAccount /\ n.on = FALSE /\ n.skip = {}
    BY <1>1, <1>2
<1>4. /\ MayStart(p, "csv") /\ user' = [user EXCEPT !.status = "DISABLED"]
      /\ Leave(p, [n EXCEPT !.user = user']) /\ UNCHANGED <<account, dir, held, by>>
    BY <1>2 DEF TerminateByCsv
<1>5. user' \in Person
    BY <1>4 DEF DeletionInv, TypeOK, Person
<1>6. PICK o : o = [n EXCEPT !.user = user']
    OBVIOUS
<1>7. o \in Handler /\ o.kind = "csv" /\ o.cur = NoAccount /\ o.on = FALSE /\ o.skip = {}
    BY <1>3, <1>5, <1>6 DEF Handler
<1>8. MaxInFlight <= 1 => \A q \in Procs : op[q] = Idle
    BY <1>4, StartsAlone DEF DeletionInv
<1>. QED
    BY <1>4, <1>6, <1>7, <1>8, LeaveFirm DEF Leaving

LEMMA ApproveLeaverFirm == ASSUME DeletionInv, LockInv, NEW p \in Procs, ApproveLeaver(p) PROVE LockInv'
<1>1. /\ NewOp("approve", FALSE) \in Handler /\ NewOp("approve", FALSE).kind = "approve"
      /\ NewOp("approve", FALSE).cur = NoAccount /\ NewOp("approve", FALSE).on = FALSE /\ NewOp("approve", FALSE).skip = {}
    BY LeavingParts DEF Leaving
<1>2. PICK n : n = NewOp("approve", FALSE)
    OBVIOUS
<1>3. n \in Handler /\ n.kind = "approve" /\ n.cur = NoAccount /\ n.on = FALSE /\ n.skip = {}
    BY <1>1, <1>2
<1>4. PICK r \in LeaverRows : MayStart(p, "approve") /\ Leave(p, [n EXCEPT !.row = r])
    BY <1>2 DEF ApproveLeaver
<1>5. PICK o : o = [n EXCEPT !.row = r]
    OBVIOUS
<1>6. o \in Handler /\ o.kind = "approve" /\ o.cur = NoAccount /\ o.on = FALSE /\ o.skip = {}
    BY <1>3, <1>5 DEF Handler
<1>7. MaxInFlight <= 1 => \A q \in Procs : op[q] = Idle
    BY <1>4, StartsAlone DEF DeletionInv
<1>8. UNCHANGED <<account, dir, held, by>>
    BY DEF ApproveLeaver
<1>. QED
    BY <1>4, <1>5, <1>6, <1>7, <1>8, LeaveFirm DEF Leaving

(***************************************************************************)
(* The sync.                                                               *)
(***************************************************************************)
LEMMA SyncerIsProc == Syncer \in Procs
BY DEF Procs

LEMMA FetchUsersFirm == ASSUME DeletionInv, LockInv, FetchUsers PROVE LockInv'
<1>0. PICK on : on = (dir[Primary] = "ACTIVE")
    OBVIOUS
<1>1. PICK n : n = NewOp("sync", on)
    OBVIOUS
<1>2. n \in Handler /\ n.kind = "sync" /\ n.cur = NoAccount /\ n.skip = {} /\ n.on = on
    <2>1. on \in BOOLEAN /\ "sync" \in Kinds
        BY <1>0 DEF Kinds, Leaving
    <2>2. NewOp("sync", on) \in Handler /\ NewOp("sync", on).kind = "sync" /\ NewOp("sync", on).cur = NoAccount
        BY <2>1, NewOpTyped DEF DeletionInv
    <2>3. NewOp("sync", on).skip = {} /\ NewOp("sync", on).on = on
        BY NewParts
    <2>. QED
        BY <1>1, <2>2, <2>3
<1>7. PICK h : h = [n EXCEPT !.phase = "apply"]
    OBVIOUS
<1>8. op' = [op EXCEPT ![Syncer] = h]
    BY <1>0, <1>1, <1>7 DEF FetchUsers
<1>3. h.phase = "apply" /\ h.kind = "sync" /\ h.cur = NoAccount /\ h.skip = {} /\ h.on = on
    BY <1>2, <1>7 DEF Handler
<1>4. Firm(h)
    BY <1>0, <1>3, ConstantsAssumption
       DEF Firm, TakenAway, LinkedOff, AccountsOff, SeenOff, CallsOwn, Covers, Enables, Switchable
<1>5. MaxInFlight <= 1 => \A q \in Procs : op[q] = Idle
    BY SyncerIsProc, StartsAlone DEF FetchUsers, DeletionInv
<1>6. UNCHANGED <<account, dir, held, by>>
    BY DEF FetchUsers
<1>. QED
    BY <1>4, <1>5, <1>6, <1>8, SyncerIsProc, GoesQuietly

LEMMA ApplyUsersFirm == ASSUME DeletionInv, LockInv, ApplyUsers PROVE LockInv'
<1>1. PICK o : o = op[Syncer]
    OBVIOUS
<1>2. /\ o # Idle /\ o.phase = "apply" /\ user' = [user EXCEPT !.status = Target(o)]
      /\ \/ ~o.on /\ Leave(Syncer, [o EXCEPT !.user = user', !.skip = {Primary}])
         \/ op' = [op EXCEPT ![Syncer] = Idle]
      /\ UNCHANGED <<account, dir, held, by>>
    BY <1>1 DEF ApplyUsers, SeenDisabled
<1>3. o \in Handler /\ Sound(o) /\ Firm(o)
    BY <1>1, <1>2, SyncerIsProc, InFlight DEF LockInv, AllFirm
<1>4. CASE op' = [op EXCEPT ![Syncer] = Idle]
    BY <1>1, <1>2, <1>4, SyncerIsProc, EndsQuietly
<1>5. CASE ~o.on /\ Leave(Syncer, [o EXCEPT !.user = user', !.skip = {Primary}])
    <2>1. user' \in Person
        BY <1>2 DEF DeletionInv, TypeOK, Person, Target
    <2>2. PICK n : n = [o EXCEPT !.user = user', !.skip = {Primary}]
        OBVIOUS
    <2>3. /\ n \in Handler /\ n.kind = o.kind /\ n.cur = o.cur /\ n.on = FALSE /\ n.skip = {Primary}
        BY <1>3, <1>5, <2>1, <2>2, ConstantsAssumption DEF Handler
    <2>4. o.kind = "sync" /\ o.cur = NoAccount /\ (dir[Primary] = "ACTIVE" => by[Primary] = "directory")
        BY <1>2, <1>3, <1>5 DEF Sound, Orderly, Firm, SeenOff
    <2>. QED
        BY <1>1, <1>2, <1>5, <2>2, <2>3, <2>4, SyncerIsProc, LeaveFirm DEF Leaving
<1>. QED
    BY <1>2, <1>4, <1>5

(***************************************************************************)
(* The surroundings.                                                       *)
(***************************************************************************)
LEMMA DirectoryChangesFirm == ASSUME DeletionInv, LockInv, DirectoryChanges PROVE LockInv'
<1>1. PICK a \in Accounts, v \in {"ACTIVE", "DISABLED"} :
        dir' = [dir EXCEPT ![a] = v] /\ by' = [by EXCEPT ![a] = "directory"]
    BY DEF DirectoryChanges
<1>2. UNCHANGED <<account, held, op>>
    BY DEF DirectoryChanges
<1>3. \A l \in Linked : dir'[l] = dir[l]
    BY <1>1, ConstantsAssumption DEF DeletionInv, TypeOK, Switchable
<1>4. Harmless
    BY <1>1, <1>2, <1>3 DEF Harmless, DeletionInv, TypeOK, Switchable
<1>5. LinkedTrue' /\ Serial'
    BY <1>2, <1>3 DEF LockInv, LinkedTrue, Serial
<1>6. ASSUME NEW p \in Procs, op'[p] # Idle PROVE Firm(op[p])'
    <2>1. PICK o : o = op[p]
        OBVIOUS
    <2>2. Firm(o)
        BY <1>2, <1>6, <2>1 DEF LockInv, AllFirm
    <2>3. Firm(o)' /\ op'[p] = o
        BY <1>2, <1>4, <2>1, <2>2, StandsFirm
    <2>. QED
        BY <2>3 DEF Firm, TakenAway, LinkedOff, AccountsOff, SeenOff, CallsOwn, Covers, Enables
<1>. QED
    BY <1>5, <1>6 DEF LockInv, AllFirm

LEMMA NobodyFirm ==
    ASSUME LockInv, UNCHANGED <<account, dir>>, \A p \in Procs : op'[p] = Idle
    PROVE  LockInv'
BY DEF LockInv, LinkedTrue, Serial, AllFirm

(***************************************************************************)
(* The invariant.                                                          *)
(***************************************************************************)
LEMMA InitFirm == Init => LockInv
BY DEF Init, LockInv, LinkedTrue, Serial, AllFirm, Switchable

LEMMA AskFirm == ASSUME DeletionInv, LockInv, NobodyEnables, NEW p \in Requests, Ask(p) PROVE LockInv'
<1>1. p \in Procs
    BY DEF Procs
<1>2. CASE SetOne(p)
    BY <1>1, <1>2, SetOneFirm
<1>3. CASE SetAll(p)
    BY <1>1, <1>3, SetAllFirm
<1>4. CASE StartLeaver(p)
    BY <1>1, <1>4, StartLeaverFirm
<1>5. CASE ApproveLeaver(p)
    BY <1>1, <1>5, ApproveLeaverFirm
<1>6. CASE DenyLeaver(p)
    BY <1>1, <1>6, DenyLeaverFirm
<1>7. CASE RequestReturn(p)
    BY <1>7, StaysQuiet DEF RequestReturn
<1>8. CASE RejectReturn(p)
    BY <1>8, StaysQuiet DEF RejectReturn
<1>9. CASE ApproveReturn(p)
    BY <1>1, <1>9, ApproveReturnFirm
<1>10. CASE SetLeaverDate(p)
    BY <1>10, StaysQuiet DEF SetLeaverDate
<1>11. CASE TerminateByCsv(p)
    BY <1>1, <1>11, TerminateByCsvFirm
<1>. QED
    BY <1>2, <1>3, <1>4, <1>5, <1>6, <1>7, <1>8, <1>9, <1>10, <1>11 DEF Ask

LEMMA StepFirm == ASSUME DeletionInv, LockInv, NEW p \in Procs, Step(p) PROVE LockInv'
<1>1. op[p] # Idle
    BY DEF Step
<1>2. CASE CallDirectory(p) \/ CallFails(p)
    BY <1>1, <1>2, CallFirm
<1>3. CASE SwitchCommit(p)
    BY <1>1, <1>3, SwitchCommitFirm
<1>4. CASE TakeAway(p)
    BY <1>1, <1>4, TakeAwayFirm
<1>5. CASE DisableLinked(p)
    BY <1>1, <1>5, DisableLinkedFirm
<1>6. CASE DisableAccounts(p)
    BY <1>1, <1>6, DisableAccountsFirm
<1>7. CASE FinishLeaving(p)
    BY <1>1, <1>7, FinishLeavingFirm
<1>8. CASE RecordDecision(p)
    BY <1>1, <1>8, EndsQuietly DEF RecordDecision
<1>9. CASE FinishSetting(p)
    BY <1>1, <1>9, EndsQuietly DEF FinishSetting
<1>10. CASE FinishStart(p)
    BY <1>1, <1>10, EndsQuietly DEF FinishStart
<1>11. CASE FinishReturn(p)
    BY <1>1, <1>11, EndsQuietly DEF FinishReturn
<1>. QED
    BY <1>2, <1>3, <1>4, <1>5, <1>6, <1>7, <1>8, <1>9, <1>10, <1>11 DEF Step

LEMMA NextFirm == ASSUME DeletionInv, LockInv, NobodyEnables, [Next]_vars PROVE LockInv'
<1>1. CASE \E p \in Requests : Ask(p)
    BY <1>1, AskFirm
<1>2. CASE \E p \in Procs : Step(p)
    BY <1>2, StepFirm
<1>3. CASE Sweep
    BY <1>3, SweepLeaversFirm, SweepDeletionsFirm DEF Sweep
<1>4. CASE Deleting
    <2>1. op[Worker] # Idle /\ Worker \in Procs
        BY <1>4, WorkerIsProc DEF Deleting
    <2>2. CASE DeleteAccount
        BY <2>1, <2>2, DeleteAccountFirm
    <2>3. CASE CommitDeletions
        BY <2>3, CommitDeletionsFirm
    <2>4. CASE MarkDeleted
        BY <2>1, <2>4, EndsQuietly DEF MarkDeleted
    <2>. QED
        BY <1>4, <2>2, <2>3, <2>4 DEF Deleting
<1>5. CASE FetchUsers
    BY <1>5, FetchUsersFirm
<1>6. CASE ApplyUsers
    BY <1>6, ApplyUsersFirm
<1>7. CASE GivenAgain
    BY <1>7, NobodyFirm DEF GivenAgain
<1>8. CASE DirectoryChanges
    BY <1>8, DirectoryChangesFirm
<1>9. CASE Tick
    BY <1>9, StaysQuiet DEF Tick
<1>10. CASE Crash
    BY <1>10, NobodyFirm DEF Crash
<1>11. CASE UNCHANGED vars
    BY <1>11, StaysQuiet DEF vars
<1>. QED
    BY <1>1, <1>2, <1>3, <1>4, <1>5, <1>6, <1>7, <1>8, <1>9, <1>10, <1>11 DEF Next

\* What is known when the process is about to finish is what LockedOut promises.
LEMMA FirmLocksOut == ASSUME LockInv PROVE LockedOut
<1>1. SUFFICES ASSUME NEW p \in Procs, Switched(p), op[p].kind \in Leaving
               PROVE  LET o == op[p] IN
                      /\ o.policy.disable => \A a \in Accounts : dir[a] = "ACTIVE" => a \in o.failed \/ by[a] = "directory"
                      /\ o.policy.linked => \A l \in Linked : dir[l] = "ACTIVE" => l \in o.failed
                      /\ held \cap Covered(o.kind, o.policy) \subseteq o.failed
    BY DEF LockedOut
<1>2. Firm(op[p]) /\ Covers(op[p]) /\ op[p].phase = "accounts" /\ op[p].todo = {}
    BY <1>1 DEF LockInv, AllFirm, Switched, Covers
<1>. QED
    BY <1>2 DEF Firm, TakenAway, LinkedOff, AccountsOff

\* Whoever starts the leaver process, in whatever order directories, requests and the deaths of
\* the process come: when it records that the person has left, whatever its policy covers is
\* off and gone, except where a call failed or somebody switched the account on in the
\* directory itself -- provided that no handler of AccessPilot that enables accounts runs
\* beside it (lifecycle.py:474).
THEOREM NobodyKeepsAccess ==
    ASSUME NobodyEnables
    PROVE  Spec => []LockedOut
<1>1. Init => DeletionInv /\ LockInv
    BY InitSound, InitFirm
<1>2. DeletionInv /\ LockInv /\ [Next]_vars => (DeletionInv /\ LockInv)'
    BY NextKeeps, NextFirm
<1>3. DeletionInv /\ LockInv => LockedOut
    BY FirmLocksOut
<1>. QED
    BY <1>1, <1>2, <1>3, PTL DEF Spec
-----------------------------------------------------------------------------

(***************************************************************************)
(* Who loses access, and who is deleted.                                   *)
(*                                                                         *)
(* Both properties compare the User row with who last changed the primary  *)
(* account (`by').  Between two handlers they agree: a person recorded as  *)
(* active whose account is off was switched off in the directory, and one  *)
(* recorded as disabled whose account is on was not switched on by         *)
(* AccessPilot (OffByWhom, OnByWhom).  In a handler they may differ from   *)
(* the call to the commit, and from the CSV import's first write to the    *)
(* end of the leaver process; what the handler holds accounts for the      *)
(* difference (Told).  An answer that is lost, or the death of the         *)
(* process, makes it last, and a handler beside it makes its copies old:   *)
(* hence the assumptions.                                                  *)
(***************************************************************************)
AnswersArrive == Faults \cap {"lost", "crash"} = {}
OneByOne      == MaxInFlight <= 1
NobodyBusy    == \A q \in Procs : op[q] = Idle

OffByWhom == user.status = "ACTIVE" /\ dir[Primary] # "ACTIVE" => by[Primary] = "directory"
OnByWhom  == user.status = "DISABLED" /\ dir[Primary] = "ACTIVE" => by[Primary] # "accesspilot"

\* The sync saw the primary account on, a handler switched it: unless the directory changed
\* it since, it is as they left it.
SeenOn(o)   == o.phase = "apply" /\ o.on => dir[Primary] = "ACTIVE" \/ by[Primary] = "directory"
CallMade(o) == o.cur = Primary => by[Primary] = "directory" \/ (o.on <=> dir[Primary] = "ACTIVE")

DeletesLeavers(o) == o.phase = "delete" => user.left /\ user.status = "DISABLED"

Told(o) ==
    /\ o.user.status = user.status
    /\ SeenOn(o) /\ CallMade(o) /\ DeletesLeavers(o)
    /\ OffByWhom \/ o.cur = Primary
    /\ OnByWhom \/ o.cur = Primary \/ Covers(o)

TellInv == /\ \A p \in Procs : op[p] # Idle => Told(op[p])
           /\ NobodyBusy => OffByWhom /\ OnByWhom

Lonely == DeletionInv /\ LockInv /\ TellInv /\ OneByOne

\* A handler that starts, or goes on, is the only one.
LEMMA Becomes ==
    ASSUME Lonely, NEW p \in Procs, NEW h, op' = [op EXCEPT ![p] = h], op[p] # Idle \/ NobodyBusy,
           h.phase # "idle", Told(h)'
    PROVE  TellInv'
<1>1. \A q \in Procs \ {p} : op[q] = Idle
    BY DEF Lonely, LockInv, Serial, OneByOne, NobodyBusy
<1>2. op'[p] = h /\ h # Idle /\ \A q \in Procs \ {p} : op'[q] = Idle
    BY <1>1 DEF Lonely, DeletionInv, TypeOK, Idle
<1>3. ~NobodyBusy'
    BY <1>2 DEF NobodyBusy
<1>4. Told(op[p])'
    BY <1>2 DEF Told, SeenOn, CallMade, DeletesLeavers, Covers
<1>. QED
    BY <1>2, <1>3, <1>4 DEF TellInv

LEMMA Ceases ==
    ASSUME Lonely, NEW p \in Procs, op[p] # Idle, op' = [op EXCEPT ![p] = Idle], OffByWhom', OnByWhom'
    PROVE  TellInv'
<1>1. \A q \in Procs : op'[q] = Idle
    BY DEF Lonely, LockInv, Serial, OneByOne, DeletionInv, TypeOK
<1>. QED
    BY <1>1 DEF TellInv

\* A handler starts from what the rows say.
LEMMA Begins ==
    ASSUME Lonely, NEW p \in Procs, NEW h, op' = [op EXCEPT ![p] = h], NobodyBusy, UNCHANGED <<user, dir, by>>,
           h.phase # "idle", h.user = user, h.cur = NoAccount,
           h.phase = "apply" /\ h.on => dir[Primary] = "ACTIVE", DeletesLeavers(h)
    PROVE  TellInv'
<1>1. OffByWhom' /\ OnByWhom'
    BY DEF Lonely, TellInv, OffByWhom, OnByWhom
<1>2. h.cur # Primary
    BY ConstantsAssumption DEF Switchable
<1>3. Told(h)'
    BY <1>1, <1>2 DEF Told, SeenOn, CallMade, DeletesLeavers
<1>. QED
    BY <1>3, Becomes

\* It goes on, calling nobody.
LEMMA GoesOn ==
    ASSUME Lonely, NEW p \in Procs, op[p] # Idle, NEW h, op' = [op EXCEPT ![p] = h], UNCHANGED <<user, dir, by>>,
           h.phase \notin {"idle", "apply", "delete"}, h.user = op[p].user, h.cur = op[p].cur, h.on = op[p].on,
           Covers(op[p]) => Covers(h)
    PROVE  TellInv'
<1>1. PICK o : o = op[p]
    OBVIOUS
<1>2. Told(o) /\ h.user = o.user /\ h.cur = o.cur /\ h.on = o.on /\ (Covers(o) => Covers(h))
    BY <1>1 DEF Lonely, TellInv
<1>3. Told(h)'
    <2>1. h.user.status = user'.status /\ DeletesLeavers(h)' /\ SeenOn(h)'
        BY <1>2 DEF Told, DeletesLeavers, SeenOn
    <2>2. CallMade(h)'
        BY <1>2 DEF Told, CallMade
    <2>3. (OffByWhom \/ h.cur = Primary)' /\ (OnByWhom \/ h.cur = Primary \/ Covers(h))'
        BY <1>2 DEF Told, OffByWhom, OnByWhom, Covers
    <2>. QED
        BY <2>1, <2>2, <2>3 DEF Told
<1>. QED
    BY <1>3, Becomes

\* It ends.
LEMMA EndsTold ==
    ASSUME Lonely, NEW p \in Procs, op[p] # Idle, op[p].cur # Primary, ~Covers(op[p]),
           op' = [op EXCEPT ![p] = Idle], user'.status = user.status, UNCHANGED <<dir, by>>
    PROVE  TellInv'
<1>1. OffByWhom' /\ OnByWhom'
    BY DEF Lonely, TellInv, Told, OffByWhom, OnByWhom
<1>. QED
    BY <1>1, Ceases

\* Whatever else happens leaves it all alone, or is the directory's own doing.
LEMMA AsideTold ==
    ASSUME Lonely, UNCHANGED op, user'.status = user.status, NobodyBusy \/ user'.left = user.left,
           (dir'[Primary] = dir[Primary] /\ by'[Primary] = by[Primary]) \/ by'[Primary] = "directory"
    PROVE  TellInv'
<1>1. ASSUME NEW p \in Procs, op[p] # Idle PROVE Told(op[p])'
    <2>1. PICK o : o = op[p]
        OBVIOUS
    <2>2. Told(o) /\ user'.left = user.left
        BY <1>1, <2>1 DEF Lonely, TellInv, NobodyBusy
    <2>3. Told(o)'
        BY <2>2 DEF Told, SeenOn, CallMade, DeletesLeavers, OffByWhom, OnByWhom, Covers
    <2>4. op'[p] = o
        BY <2>1
    <2>. QED
        BY <2>3, <2>4 DEF Told, SeenOn, CallMade, DeletesLeavers, Covers
<1>2. NobodyBusy' => OffByWhom' /\ OnByWhom'
    BY DEF Lonely, TellInv, NobodyBusy, OffByWhom, OnByWhom
<1>. QED
    BY <1>1, <1>2 DEF TellInv

(***************************************************************************)
(* The handlers start.                                                     *)
(***************************************************************************)
LEMMA StartsLonely ==
    ASSUME Lonely, NEW p \in Procs, NEW name, MayStart(p, name)
    PROVE  NobodyBusy
BY StartsAlone DEF Lonely, OneByOne, NobodyBusy, DeletionInv

LEMMA NewUser ==
    ASSUME NEW kind, NEW on
    PROVE  NewOp(kind, on).user = user
BY DEF NewOp

LEMMA ListedUser ==
    ASSUME DeletionInv, NEW o \in Handler, CopiesTrue(o)
    PROVE  Listed(o).user = o.user
<1>. DEFINE b == Load(o, Accounts)
            l == [b EXCEPT !.accts[Primary] = Mirrored(o), !.phase = "accounts"]
            S == {a \in Accounts \ o.skip : Forced(o) \/ l.accts[a] # Target(o)}
<1>1. b \in Handler /\ b.user = o.user
    BY LoadTyped
<1>. HIDE DEF b
<1>2. l.user = b.user
    BY <1>1 DEF Handler
<1>3. Listed(o) = [l EXCEPT !.todo = S, !.already = (Accounts \ o.skip) \ S]
    BY DEF Listed, b
<1>. HIDE DEF l, S
<1>4. Listed(o).user = l.user
    BY <1>3
<1>. QED
    BY <1>1, <1>2, <1>4

LEMMA SetOneTold == ASSUME Lonely, NEW p \in Procs, SetOne(p) PROVE TellInv'
<1>1. PICK a \in Accounts, on \in BOOLEAN :
        MayStart(p, "account") /\ op' = [op EXCEPT ![p] = [NewOp("account", on) EXCEPT !.todo = {a}]]
    BY DEF SetOne
<1>2. PICK n : n = NewOp("account", on)
    OBVIOUS
<1>3. n \in Handler /\ n.phase = "accounts" /\ n.cur = NoAccount /\ n.user = user
    BY <1>2, NewOpTyped DEF Lonely, DeletionInv, Kinds
<1>4. PICK h : h = [n EXCEPT !.todo = {a}]
    OBVIOUS
<1>5. h.phase = "accounts" /\ h.cur = NoAccount /\ h.user = user
    BY <1>3, <1>4 DEF Handler
<1>. QED
    BY <1>1, <1>2, <1>4, <1>5, StartsLonely, Begins DEF SetOne, DeletesLeavers

LEMMA SetAllTold == ASSUME Lonely, NEW p \in Procs, SetAll(p) PROVE TellInv'
<1>1. PICK on \in BOOLEAN : MayStart(p, "person") /\ op' = [op EXCEPT ![p] = Listed(NewOp("person", on))]
    BY DEF SetAll
<1>2. PICK n : n = NewOp("person", on)
    OBVIOUS
<1>3. n \in Handler /\ CopiesTrue(n) /\ n.cur = NoAccount /\ n.user = user
    BY <1>2, NewOpTyped DEF Lonely, DeletionInv, Kinds
<1>4. PICK h : h = Listed(n)
    OBVIOUS
<1>5. h.phase = "accounts" /\ h.cur = NoAccount /\ h.user = user
    BY <1>3, <1>4, ListedTyped, ListedUser DEF Lonely
<1>. QED
    BY <1>1, <1>2, <1>4, <1>5, StartsLonely, Begins DEF SetAll, DeletesLeavers

LEMMA StartLeaverTold == ASSUME Lonely, NEW p \in Procs, StartLeaver(p) PROVE TellInv'
<1>1. MayStart(p, "start") /\ op' = [op EXCEPT ![p] = Listed(NewOp("start", FALSE))]
    BY DEF StartLeaver
<1>2. PICK n : n = NewOp("start", FALSE)
    OBVIOUS
<1>3. n \in Handler /\ CopiesTrue(n) /\ n.cur = NoAccount /\ n.user = user
    BY <1>2, NewOpTyped DEF Lonely, DeletionInv, Kinds
<1>4. PICK h : h = Listed(n)
    OBVIOUS
<1>5. h.phase = "accounts" /\ h.cur = NoAccount /\ h.user = user
    BY <1>3, <1>4, ListedTyped, ListedUser DEF Lonely
<1>. QED
    BY <1>1, <1>2, <1>4, <1>5, StartsLonely, Begins DEF StartLeaver, DeletesLeavers

LEMMA DenyLeaverTold == ASSUME Lonely, NEW p \in Procs, DenyLeaver(p) PROVE TellInv'
<1>1. PICK r \in LeaverRows :
        /\ MayStart(p, "deny")
        /\ op' = [op EXCEPT ![p] = [NewOp("deny", TRUE) EXCEPT !.row = r, !.todo = requests[r].off]]
    BY DEF DenyLeaver
<1>2. PICK n : n = NewOp("deny", TRUE)
    OBVIOUS
<1>3. n \in Handler /\ n.phase = "accounts" /\ n.cur = NoAccount /\ n.user = user
    BY <1>2, NewOpTyped DEF Lonely, DeletionInv, Kinds
<1>4. PICK h : h = [n EXCEPT !.row = r, !.todo = requests[r].off]
    OBVIOUS
<1>5. h.phase = "accounts" /\ h.cur = NoAccount /\ h.user = user
    BY <1>3, <1>4 DEF Handler
<1>. QED
    BY <1>1, <1>2, <1>4, <1>5, StartsLonely, Begins DEF DenyLeaver, DeletesLeavers

LEMMA ApproveReturnTold == ASSUME Lonely, NEW p \in Procs, ApproveReturn(p) PROVE TellInv'
<1>1. PICK r \in ReturnRows :
        LET o == [NewOp("return", TRUE) EXCEPT !.row = r]
            scope == returns[r].scope IN
        /\ MayStart(p, "return")
        /\ \/ op' = [op EXCEPT ![p] = Listed(o)]
           \/ op' = [op EXCEPT ![p] = [Load(o, scope) EXCEPT
                              !.todo = {a \in scope : account[a] = "DISABLED"},
                              !.already = {a \in scope : account[a] # "DISABLED"}]]
    BY DEF ApproveReturn
<1>2. PICK n : n = NewOp("return", TRUE)
    OBVIOUS
<1>3. n \in Handler /\ CopiesTrue(n) /\ n.phase = "accounts" /\ n.cur = NoAccount /\ n.user = user
    BY <1>2, NewOpTyped DEF Lonely, DeletionInv, Kinds
<1>4. PICK o : o = [n EXCEPT !.row = r]
    OBVIOUS
<1>5. o \in Handler /\ o.accts = n.accts /\ o.phase = "accounts" /\ o.cur = NoAccount /\ o.user = user
    BY <1>3, <1>4 DEF Handler
<1>6. CopiesTrue(o)
    BY <1>3, <1>5 DEF CopiesTrue
<1>10. PICK scope, T, A : /\ scope = returns[r].scope
                          /\ T = {a \in scope : account[a] = "DISABLED"}
                          /\ A = {a \in scope : account[a] # "DISABLED"}
    OBVIOUS
<1>7. \/ op' = [op EXCEPT ![p] = Listed(o)]
      \/ op' = [op EXCEPT ![p] = [Load(o, scope) EXCEPT !.todo = T, !.already = A]]
    BY <1>1, <1>2, <1>4, <1>10
<1>8. CASE op' = [op EXCEPT ![p] = Listed(o)]
    <2>1. PICK h : h = Listed(o)
        OBVIOUS
    <2>2. h.phase = "accounts" /\ h.cur = NoAccount /\ h.user = user
        BY <1>5, <1>6, <2>1, ListedTyped, ListedUser DEF Lonely
    <2>. QED
        BY <1>1, <1>8, <2>1, <2>2, StartsLonely, Begins DEF ApproveReturn, DeletesLeavers
<1>9. CASE op' = [op EXCEPT ![p] = [Load(o, scope) EXCEPT !.todo = T, !.already = A]]
    <2>1. PICK b : b = Load(o, scope)
        OBVIOUS
    <2>2. b.phase = "accounts" /\ b.cur = NoAccount /\ b.user = user
        BY <1>5, <1>6, <2>1, LoadTyped DEF Lonely
    <2>3. PICK h : h = [b EXCEPT !.todo = T, !.already = A]
        OBVIOUS
    <2>4. h.phase = "accounts" /\ h.cur = NoAccount /\ h.user = user
        BY <2>2, <2>3
    <2>. QED
        BY <1>1, <1>9, <2>1, <2>3, <2>4, StartsLonely, Begins DEF ApproveReturn, DeletesLeavers
<1>. QED
    BY <1>7, <1>8, <1>9

\* run_leaver begins, from a row that says DISABLED or what it said before.
LEMMA LeaveTold ==
    ASSUME Lonely, NEW p \in Procs, NEW o \in Handler, Leave(p, o), op[p] # Idle \/ NobodyBusy,
           o.kind \in Leaving, o.cur = NoAccount, o.user.status = user'.status,
           user'.status = "DISABLED" \/ (NobodyBusy /\ UNCHANGED user), UNCHANGED <<dir, by>>
    PROVE  TellInv'
<1>1. PICK pol, T : op' = [op EXCEPT ![p] = [o EXCEPT !.phase = "take", !.policy = pol, !.todo = T]]
    BY DEF Leave
<1>2. PICK h : h = [o EXCEPT !.phase = "take", !.policy = pol, !.todo = T]
    OBVIOUS
<1>3. h.phase = "take" /\ h.kind = o.kind /\ h.cur = NoAccount /\ h.user = o.user
    BY <1>2 DEF Handler
<1>4. h.cur # Primary
    BY <1>3, ConstantsAssumption DEF Switchable
<1>5. OffByWhom'
    BY DEF Lonely, TellInv, OffByWhom
<1>6. Told(h)'
    BY <1>3, <1>4, <1>5 DEF Told, SeenOn, CallMade, DeletesLeavers, Covers
<1>. QED
    BY <1>1, <1>2, <1>3, <1>6, Becomes

LEMMA SweepLeaversTold == ASSUME Lonely, SweepLeavers PROVE TellInv'
<1>1. PICK o : o = NewOp("scheduled", FALSE)
    OBVIOUS
<1>2. o \in Handler /\ o.kind = "scheduled" /\ o.cur = NoAccount /\ o.user = user
    BY <1>1, LeavingParts, NewUser DEF Lonely, Leaving
<1>3. MayStart(Worker, "scheduled") /\ Leave(Worker, o) /\ UNCHANGED <<user, dir, by>>
    BY <1>1 DEF SweepLeavers
<1>. QED
    BY <1>2, <1>3, WorkerIsProc, StartsLonely, LeaveTold DEF Leaving

LEMMA ApproveLeaverTold == ASSUME Lonely, NEW p \in Procs, ApproveLeaver(p) PROVE TellInv'
<1>1. PICK n : n = NewOp("approve", FALSE)
    OBVIOUS
<1>2. n \in Handler /\ n.kind = "approve" /\ n.cur = NoAccount /\ n.user = user
    BY <1>1, LeavingParts, NewUser DEF Lonely, Leaving
<1>3. PICK r \in LeaverRows : MayStart(p, "approve") /\ Leave(p, [n EXCEPT !.row = r]) /\ UNCHANGED <<user, dir, by>>
    BY <1>1 DEF ApproveLeaver
<1>4. PICK o : o = [n EXCEPT !.row = r]
    OBVIOUS
<1>5. o \in Handler /\ o.kind = "approve" /\ o.cur = NoAccount /\ o.user = user
    BY <1>2, <1>4 DEF Handler
<1>. QED
    BY <1>3, <1>4, <1>5, StartsLonely, LeaveTold DEF Leaving

LEMMA TerminateByCsvTold == ASSUME Lonely, NEW p \in Procs, TerminateByCsv(p) PROVE TellInv'
<1>1. PICK n : n = NewOp("csv", FALSE)
    OBVIOUS
<1>2. n \in Handler /\ n.kind = "csv" /\ n.cur = NoAccount
    BY <1>1, LeavingParts DEF Lonely, Leaving
<1>3. /\ MayStart(p, "csv") /\ user' = [user EXCEPT !.status = "DISABLED"]
      /\ Leave(p, [n EXCEPT !.user = user']) /\ UNCHANGED <<dir, by>>
    BY <1>1 DEF TerminateByCsv
<1>4. user' \in Person /\ user'.status = "DISABLED"
    BY <1>3 DEF Lonely, DeletionInv, TypeOK, Person
<1>5. PICK o : o = [n EXCEPT !.user = user']
    OBVIOUS
<1>6. o \in Handler /\ o.kind = "csv" /\ o.cur = NoAccount /\ o.user = user'
    BY <1>2, <1>4, <1>5 DEF Handler
<1>. QED
    BY <1>3, <1>4, <1>5, <1>6, StartsLonely, LeaveTold DEF Leaving

LEMMA FetchUsersTold == ASSUME Lonely, FetchUsers PROVE TellInv'
<1>1. PICK on : on = (dir[Primary] = "ACTIVE")
    OBVIOUS
<1>2. PICK n : n = NewOp("sync", on)
    OBVIOUS
<1>3. n \in Handler /\ n.cur = NoAccount /\ n.user = user /\ n.on = on
    <2>1. on \in BOOLEAN /\ "sync" \in Kinds
        BY <1>1 DEF Kinds, Leaving
    <2>2. NewOp("sync", on) \in Handler /\ NewOp("sync", on).cur = NoAccount /\ NewOp("sync", on).user = user
        BY <2>1, NewOpTyped DEF Lonely, DeletionInv
    <2>. QED
        BY <1>2, <2>2, NewParts
<1>4. PICK h : h = [n EXCEPT !.phase = "apply"]
    OBVIOUS
<1>5. h.phase = "apply" /\ h.cur = NoAccount /\ h.user = user /\ h.on = on
    BY <1>3, <1>4 DEF Handler
<1>6. MayStart(Syncer, "sync") /\ op' = [op EXCEPT ![Syncer] = h] /\ UNCHANGED <<user, dir, by>>
    BY <1>1, <1>2, <1>4 DEF FetchUsers
<1>. QED
    BY <1>1, <1>5, <1>6, SyncerIsProc, StartsLonely, Begins DEF DeletesLeavers

\* The sync writes what it saw.
LEMMA ApplyUsersTold == ASSUME Lonely, ApplyUsers PROVE TellInv'
<1>1. PICK o : o = op[Syncer]
    OBVIOUS
<1>2. /\ o # Idle /\ o.phase = "apply" /\ user' = [user EXCEPT !.status = Target(o)]
      /\ \/ ~o.on /\ Leave(Syncer, [o EXCEPT !.user = user', !.skip = {Primary}])
         \/ op' = [op EXCEPT ![Syncer] = Idle]
      /\ UNCHANGED <<dir, by>>
    BY <1>1 DEF ApplyUsers, SeenDisabled
<1>3. o \in Handler /\ Sound(o) /\ Firm(o) /\ Told(o)
    BY <1>1, <1>2, SyncerIsProc, InFlight DEF Lonely, LockInv, AllFirm, TellInv
<1>4. user' \in Person /\ user'.status = Target(o)
    BY <1>2 DEF Lonely, DeletionInv, TypeOK, Person, Target
<1>5. CASE op' = [op EXCEPT ![Syncer] = Idle]
    <2>1. OffByWhom' /\ OnByWhom'
        BY <1>2, <1>3, <1>4 DEF Told, SeenOn, Firm, SeenOff, OffByWhom, OnByWhom, Target
    <2>. QED
        BY <1>1, <1>2, <1>5, <2>1, SyncerIsProc, Ceases
<1>6. CASE ~o.on /\ Leave(Syncer, [o EXCEPT !.user = user', !.skip = {Primary}])
    <2>1. PICK n : n = [o EXCEPT !.user = user', !.skip = {Primary}]
        OBVIOUS
    <2>2. n \in Handler /\ n.kind = o.kind /\ n.cur = o.cur /\ n.user = user'
        BY <1>3, <1>4, <2>1, ConstantsAssumption DEF Handler
    <2>3. o.kind = "sync" /\ o.cur = NoAccount /\ user'.status = "DISABLED"
        BY <1>2, <1>3, <1>4, <1>6 DEF Sound, Orderly, Target
    <2>. QED
        BY <1>1, <1>2, <1>6, <2>1, <2>2, <2>3, SyncerIsProc, LeaveTold DEF Leaving
<1>. QED
    BY <1>2, <1>5, <1>6

\* The deletion begins for a person who has left and is still disabled.
LEMMA SweepDeletionsTold == ASSUME Lonely, SweepDeletions PROVE TellInv'
<1>1. PICK o : o = NewOp("deletion", FALSE)
    OBVIOUS
<1>2. o \in Handler /\ CopiesTrue(o) /\ o.cur = NoAccount /\ o.user = user
    BY <1>1, NewOpTyped DEF Lonely, DeletionInv, Kinds
<1>3. PICK b : b = Load(o, Accounts)
    OBVIOUS
<1>4. b \in Handler /\ b.cur = NoAccount /\ b.user = user
    BY <1>2, <1>3, LoadTyped DEF Lonely
<1>5. PICK l : l = [b EXCEPT !.accts[Primary] = Mirrored(o)]
    OBVIOUS
<1>6. "phase" \in DOMAIN l /\ l.cur = NoAccount /\ l.user = user
    BY <1>4, <1>5 DEF Handler
<1>7. PICK h : h = [l EXCEPT !.phase = "delete", !.todo = ToDelete(l)]
    OBVIOUS
<1>8. h.phase = "delete" /\ h.cur = NoAccount /\ h.user = user
    BY <1>6, <1>7
<1>9. /\ MayStart(Worker, "deletion") /\ UNCHANGED <<dir, by>> /\ user.left
      /\ \/ user' = [user EXCEPT !.deleteAt = "none"] /\ UNCHANGED op
         \/ user.status = "DISABLED" /\ UNCHANGED user /\ op' = [op EXCEPT ![Worker] = h]
    BY <1>1, <1>3, <1>5, <1>7 DEF SweepDeletions, DeletionDue, CameBack
<1>10. NobodyBusy
    BY <1>9, WorkerIsProc, StartsLonely
<1>11. CASE user' = [user EXCEPT !.deleteAt = "none"] /\ UNCHANGED op
    <2>1. user'.status = user.status
        BY <1>11 DEF Lonely, DeletionInv, TypeOK, Person
    <2>. QED
        BY <1>9, <1>10, <1>11, <2>1, AsideTold
<1>12. CASE user.status = "DISABLED" /\ UNCHANGED user /\ op' = [op EXCEPT ![Worker] = h]
    BY <1>8, <1>9, <1>10, <1>12, WorkerIsProc, Begins DEF DeletesLeavers
<1>. QED
    BY <1>9, <1>11, <1>12

(***************************************************************************)
(* The handlers go on.                                                     *)
(***************************************************************************)
\* The directory answers, or refuses.
LEMMA CallTold ==
    ASSUME Lonely, AnswersArrive, NEW p \in Procs, op[p] # Idle, CallDirectory(p) \/ CallFails(p)
    PROVE  TellInv'
<1>1. PICK o : o = op[p]
    OBVIOUS
<1>2. o \in Handler /\ Sound(o) /\ Told(o) /\ UNCHANGED user
    BY <1>1, InFlight DEF Lonely, TellInv, CallDirectory, CallFails
<1>3. PICK a \in o.todo :
        /\ o.phase \in {"linked", "accounts"} /\ o.cur = NoAccount
        /\ \/ /\ dir' = [dir EXCEPT ![a] = Target(o)] /\ by' = Turned(a, o.on)
              /\ op' = [op EXCEPT ![p] = [Load(o, {a}) EXCEPT !.cur = a, !.todo = @ \ {a}]]
           \/ /\ UNCHANGED <<dir, by>>
              /\ op' = [op EXCEPT ![p] = [Load(o, {a}) EXCEPT !.failed = @ \cup {a}, !.todo = @ \ {a}]]
    <2>1. CASE CallDirectory(p)
        <3>1. PICK a \in op[p].todo :
                /\ op[p].phase \in {"linked", "accounts"} /\ op[p].cur = NoAccount
                /\ dir' = [dir EXCEPT ![a] = Target(op[p])] /\ by' = Turned(a, op[p].on)
                /\ op' = [op EXCEPT ![p] = [Load(op[p], {a}) EXCEPT !.cur = a, !.todo = @ \ {a}]]
            BY <2>1 DEF CallDirectory
        <3>. QED
            BY <1>1, <3>1
    <2>2. CASE CallFails(p)
        <3>1. ~Fault("lost")
            BY DEF AnswersArrive, Fault
        <3>2. PICK a \in op[p].todo :
                /\ op[p].phase \in {"linked", "accounts"} /\ op[p].cur = NoAccount /\ UNCHANGED <<dir, by>>
                /\ op' = [op EXCEPT ![p] = [Load(op[p], {a}) EXCEPT !.failed = @ \cup {a}, !.todo = @ \ {a}]]
            BY <2>2, <3>1 DEF CallFails
        <3>. QED
            BY <1>1, <3>2
    <2>. QED
        BY <2>1, <2>2
<1>4. PICK b : b = Load(o, {a})
    OBVIOUS
<1>5. a \in Switchable
    BY <1>2, <1>3 DEF Sound, Orderly
<1>6. b \in Handler /\ b.phase = o.phase /\ b.kind = o.kind /\ b.on = o.on /\ b.user = o.user /\ b.cur = NoAccount
    BY <1>2, <1>3, <1>4, LoadTyped DEF Lonely, Sound
<1>7. CASE /\ UNCHANGED <<dir, by>>
           /\ op' = [op EXCEPT ![p] = [b EXCEPT !.failed = @ \cup {a}, !.todo = @ \ {a}]]
    <2>1. PICK h : h = [b EXCEPT !.failed = @ \cup {a}, !.todo = @ \ {a}]
        OBVIOUS
    <2>2. h.phase = o.phase /\ h.kind = o.kind /\ h.on = o.on /\ h.user = o.user /\ h.cur = o.cur
        BY <1>3, <1>6, <2>1 DEF Handler
    <2>. QED
        BY <1>1, <1>2, <1>3, <1>7, <2>1, <2>2, GoesOn DEF Covers
<1>8. CASE /\ dir' = [dir EXCEPT ![a] = Target(o)] /\ by' = Turned(a, o.on)
           /\ op' = [op EXCEPT ![p] = [b EXCEPT !.cur = a, !.todo = @ \ {a}]]
    <2>1. PICK h : h = [b EXCEPT !.cur = a, !.todo = @ \ {a}]
        OBVIOUS
    <2>2. h.phase = o.phase /\ h.kind = o.kind /\ h.on = o.on /\ h.user = o.user /\ h.cur = a
        BY <1>6, <2>1 DEF Handler
    <2>3. /\ a # Primary => dir'[Primary] = dir[Primary] /\ by'[Primary] = by[Primary]
          /\ a = Primary => dir'[Primary] = Target(o)
        <3>1. Primary \in Accounts /\ Primary \in Switchable
            BY ConstantsAssumption DEF Switchable
        <3>. QED
            BY <1>8, <3>1 DEF Lonely, DeletionInv, TypeOK, Turned
    <2>4. h.user.status = user'.status /\ SeenOn(h)' /\ DeletesLeavers(h)'
        BY <1>2, <1>3, <2>2 DEF Told, SeenOn, DeletesLeavers
    <2>5. CallMade(h)'
        BY <1>2, <2>2, <2>3 DEF CallMade, Target, Handler
    <2>6. o.cur # Primary
        BY <1>3, ConstantsAssumption DEF Switchable
    <2>7. (OffByWhom \/ h.cur = Primary)' /\ (OnByWhom \/ h.cur = Primary \/ Covers(h))'
        BY <1>2, <2>2, <2>3, <2>6 DEF Told, OffByWhom, OnByWhom, Covers
    <2>8. Told(h)' /\ h.phase # "idle"
        BY <1>3, <2>2, <2>4, <2>5, <2>7 DEF Told
    <2>. QED
        BY <1>1, <1>8, <2>1, <2>8, Becomes
<1>. QED
    BY <1>3, <1>4, <1>7, <1>8

\* The commit: the person's status follows the primary account.
LEMMA SwitchCommitTold == ASSUME Lonely, NEW p \in Procs, op[p] # Idle, SwitchCommit(p) PROVE TellInv'
<1>1. PICK o : o = op[p]
    OBVIOUS
<1>2. o \in Handler /\ Sound(o) /\ Told(o)
    BY <1>1, InFlight DEF Lonely, TellInv
<1>3. PICK v, w, u :
        /\ v = Target(o) /\ w = account'[o.cur] /\ u = IF o.cur = Primary THEN v ELSE o.user.status
    OBVIOUS
<1>4. /\ o.cur # NoAccount /\ UNCHANGED <<dir, by>>
      /\ user' = IF o.cur = Primary THEN Flush(o.user, [o.user EXCEPT !.status = v], user) ELSE user
      /\ op' = [op EXCEPT ![p] = [o EXCEPT !.cur = NoAccount, !.done = @ \cup {o.cur}, !.accts[o.cur] = w,
                                           !.user.status = IF o.cur = Primary THEN v ELSE @]]
    BY <1>1, <1>3 DEF SwitchCommit, FollowsPrimary
<1>5. v \in {"ACTIVE", "DISABLED"} /\ o.user \in Person /\ user \in Person
    BY <1>2, <1>3 DEF Target, Handler, Lonely, DeletionInv, TypeOK
<1>6. PICK h : h = [o EXCEPT !.cur = NoAccount, !.done = @ \cup {o.cur}, !.accts[o.cur] = w,
                             !.user.status = IF o.cur = Primary THEN v ELSE @]
    OBVIOUS
<1>7. h.cur = NoAccount /\ h.phase = o.phase /\ h.kind = o.kind /\ h.on = o.on /\ h.user.status = u
    BY <1>2, <1>3, <1>5, <1>6 DEF Handler, Person
<1>8. o.phase \in {"linked", "accounts"} /\ NoAccount # Primary
    BY <1>2, <1>4, ConstantsAssumption DEF Sound, Orderly, Switchable
<1>9. CASE o.cur # Primary
    <2>1. UNCHANGED user /\ u = o.user.status
        BY <1>3, <1>4, <1>9
    <2>2. Told(h)'
        BY <1>2, <1>4, <1>7, <1>8, <1>9, <2>1
           DEF Told, SeenOn, CallMade, DeletesLeavers, Covers, OffByWhom, OnByWhom
    <2>. QED
        BY <1>1, <1>4, <1>6, <1>7, <1>8, <2>2, Becomes
<1>10. CASE o.cur = Primary
    <2>1. user'.status = v
        <3>1. PICK new : new = [o.user EXCEPT !.status = v]
            OBVIOUS
        <3>2. new.status = v /\ user' = Flush(o.user, new, user) /\ o.user.status = user.status
            BY <1>2, <1>4, <1>5, <1>10, <3>1 DEF Told, Person
        <3>. QED
            BY <1>5, <3>2 DEF Flush, Person
    <2>2. u = v /\ (v = "ACTIVE" <=> o.on)
        BY <1>2, <1>3, <1>10 DEF Target, Handler
    <2>3. by[Primary] = "directory" \/ (o.on <=> dir[Primary] = "ACTIVE")
        BY <1>2, <1>10 DEF Told, CallMade
    <2>4. OffByWhom' /\ OnByWhom'
        BY <1>4, <1>5, <2>1, <2>2, <2>3 DEF OffByWhom, OnByWhom
    <2>5. Told(h)'
        BY <1>7, <1>8, <2>1, <2>2, <2>4 DEF Told, SeenOn, CallMade, DeletesLeavers
    <2>. QED
        BY <1>1, <1>4, <1>6, <1>7, <1>8, <2>5, Becomes
<1>. QED
    BY <1>9, <1>10

LEMMA TakeAwayTold == ASSUME Lonely, NEW p \in Procs, op[p] # Idle, TakeAway(p) PROVE TellInv'
<1>1. PICK o : o = op[p]
    OBVIOUS
<1>2. o \in Handler
    BY <1>1, InFlight DEF Lonely
<1>5. PICK x : /\ o.phase = "take" /\ UNCHANGED <<user, dir, by>>
               /\ \/ op' = [op EXCEPT ![p].todo = @ \ {x}]
                  \/ op' = [op EXCEPT ![p].todo = @ \ {x}, ![p].failed = @ \cup {x}]
    BY <1>1 DEF TakeAway
<1>3. PICK h : /\ op' = [op EXCEPT ![p] = h]
               /\ \/ h = [o EXCEPT !.todo = @ \ {x}]
                  \/ h = [o EXCEPT !.todo = @ \ {x}, !.failed = @ \cup {x}]
    BY <1>1, <1>5 DEF Lonely, DeletionInv, TypeOK
<1>4. h.phase = "take" /\ h.kind = o.kind /\ h.user = o.user /\ h.cur = o.cur /\ h.on = o.on
    BY <1>2, <1>3, <1>5 DEF Handler
<1>. QED
    BY <1>1, <1>3, <1>4, <1>5, GoesOn DEF Covers

LEMMA DisableLinkedTold == ASSUME Lonely, NEW p \in Procs, op[p] # Idle, DisableLinked(p) PROVE TellInv'
<1>1. PICK o : o = op[p]
    OBVIOUS
<1>2. o \in Handler /\ CopiesTrue(o)
    BY <1>1, InFlight DEF Lonely, Sound
<1>3. PICK b, T : /\ b = Load(o, IF o.policy.linked THEN Linked ELSE {})
                  /\ T = IF o.policy.linked THEN {l \in Linked : account[l] # "DISABLED"} ELSE {}
    OBVIOUS
<1>4. /\ o.phase = "take" /\ UNCHANGED <<user, dir, by>>
      /\ op' = [op EXCEPT ![p] = [b EXCEPT !.phase = "linked", !.todo = T]]
    BY <1>1, <1>3 DEF DisableLinked
<1>5. b \in Handler /\ b.kind = o.kind /\ b.user = o.user /\ b.cur = o.cur /\ b.on = o.on
    BY <1>2, <1>3, LoadTyped DEF Lonely
<1>6. PICK h : h = [b EXCEPT !.phase = "linked", !.todo = T]
    OBVIOUS
<1>7. h.phase = "linked" /\ h.kind = o.kind /\ h.user = o.user /\ h.cur = o.cur /\ h.on = o.on
    BY <1>5, <1>6 DEF Handler
<1>. QED
    BY <1>1, <1>4, <1>6, <1>7, GoesOn DEF Covers

LEMMA DisableAccountsTold == ASSUME Lonely, NEW p \in Procs, op[p] # Idle, DisableAccounts(p) PROVE TellInv'
<1>1. PICK o : o = op[p]
    OBVIOUS
<1>2. o \in Handler /\ CopiesTrue(o)
    BY <1>1, InFlight DEF Lonely, Sound
<1>3. PICK h : /\ UNCHANGED <<user, dir, by>> /\ op' = [op EXCEPT ![p] = h]
               /\ h = Listed(o) \/ h = [o EXCEPT !.phase = "accounts"]
    BY <1>1 DEF DisableAccounts, Lonely, DeletionInv, TypeOK
<1>4. h.phase = "accounts" /\ h.kind = o.kind /\ h.user = o.user /\ h.cur = o.cur /\ h.on = o.on
    BY <1>2, <1>3, ListedTyped, ListedParts, ListedUser DEF Lonely, Handler
<1>. QED
    BY <1>1, <1>3, <1>4, GoesOn DEF Covers

\* The status is not among the columns that the ends of the process and of a return write.
LEMMA StatusStays ==
    ASSUME NEW copy \in Person, NEW new \in Person, NEW row \in Person, new.status = copy.status
    PROVE  Flush(copy, new, row).status = row.status
BY DEF Flush, Person

LEMMA FinishLeavingTold == ASSUME Lonely, NEW p \in Procs, op[p] # Idle, FinishLeaving(p) PROVE TellInv'
<1>1. PICK o : o = op[p]
    OBVIOUS
<1>2. o \in Handler /\ Told(o)
    BY <1>1, InFlight DEF Lonely, TellInv
<1>3. PICK f, d, h : /\ f = Flush(o.user, Processed(o), user)
                     /\ d = IF o.policy.delete THEN "ahead" ELSE f.deleteAt
                     /\ h = IF o.kind = "approve" THEN [o EXCEPT !.phase = "record"] ELSE Idle
    OBVIOUS
<1>4. /\ o.cur = NoAccount /\ op' = [op EXCEPT ![p] = h] /\ UNCHANGED dir
      /\ user' = [f EXCEPT !.left = TRUE, !.deleteAt = d]
      /\ by' = [a \in Accounts |-> IF by[a] = "accesspilot" THEN "nobody" ELSE by[a]]
    <2>1. user' = [f EXCEPT !.left = TRUE, !.deleteAt = IF o.policy.delete THEN "ahead" ELSE @]
        BY <1>1, <1>3 DEF FinishLeaving
    <2>2. [f EXCEPT !.left = TRUE, !.deleteAt = IF o.policy.delete THEN "ahead" ELSE @] = [f EXCEPT !.left = TRUE, !.deleteAt = d]
        BY <1>3, Zenon
    <2>. QED
        BY <1>1, <1>3, <2>1, <2>2 DEF FinishLeaving, Switched
<1>5. user'.status = user.status
    <2>1. o.user \in Person /\ user \in Person
        BY <1>2 DEF Handler, Lonely, DeletionInv, TypeOK
    <2>2. Processed(o) \in Person /\ Processed(o).status = o.user.status
        BY <2>1 DEF Processed, Person
    <2>3. f \in Person /\ f.status = user.status
        BY <1>3, <2>1, <2>2, StatusStays, FlushTyped
    <2>. QED
        BY <1>4, <2>3 DEF Person
<1>6. (by'[Primary] = "directory" <=> by[Primary] = "directory") /\ by'[Primary] # "accesspilot"
    BY <1>4, ConstantsAssumption
<1>7. o.cur # Primary
    BY <1>4, ConstantsAssumption DEF Switchable
<1>8. OffByWhom' /\ OnByWhom'
    BY <1>2, <1>4, <1>5, <1>6, <1>7 DEF Told, OffByWhom, OnByWhom
<1>9. CASE o.kind = "approve"
    <2>1. h.phase = "record" /\ h.cur = o.cur /\ h.user = o.user
        BY <1>2, <1>3, <1>9 DEF Handler
    <2>2. Told(h)'
        BY <1>2, <1>5, <1>7, <1>8, <2>1 DEF Told, SeenOn, CallMade, DeletesLeavers
    <2>. QED
        BY <1>4, <2>1, <2>2, Becomes
<1>10. CASE o.kind # "approve"
    BY <1>3, <1>4, <1>8, <1>10, Ceases
<1>. QED
    BY <1>9, <1>10

\* A handler outside the process that has called nobody, or committed what it called for.
LEMMA NotInTheProcess ==
    ASSUME Lonely, NEW p \in Procs, op[p] # Idle,
           op[p].phase \in {"record", "delete", "mark"} \/ (Switched(p) /\ op[p].kind \notin Leaving)
    PROVE  op[p].cur # Primary /\ ~Covers(op[p])
<1>1. Orderly(op[p])
    BY InFlight DEF Lonely, Sound
<1>2. op[p].cur = NoAccount
    BY <1>1 DEF Orderly, Switched
<1>. QED
    BY <1>2, ConstantsAssumption DEF Covers, Switchable

LEMMA RecordDecisionTold == ASSUME Lonely, NEW p \in Procs, op[p] # Idle, RecordDecision(p) PROVE TellInv'
BY NotInTheProcess, EndsTold DEF RecordDecision, Leaving

LEMMA FinishSettingTold == ASSUME Lonely, NEW p \in Procs, op[p] # Idle, FinishSetting(p) PROVE TellInv'
BY NotInTheProcess, EndsTold DEF FinishSetting, Leaving

LEMMA FinishStartTold == ASSUME Lonely, NEW p \in Procs, op[p] # Idle, FinishStart(p) PROVE TellInv'
BY NotInTheProcess, EndsTold DEF FinishStart, Leaving

LEMMA FinishReturnTold == ASSUME Lonely, NEW p \in Procs, op[p] # Idle, FinishReturn(p) PROVE TellInv'
<1>1. PICK o : o = op[p]
    OBVIOUS
<1>2. o.user \in Person /\ user \in Person
    BY <1>1, InFlight DEF Handler, Lonely, DeletionInv, TypeOK
<1>3. /\ Switched(p) /\ o.kind = "return" /\ op' = [op EXCEPT ![p] = Idle] /\ UNCHANGED <<dir, by>>
      /\ user' \in {user, Flush(o.user, Back(o), user)}
    BY <1>1 DEF FinishReturn
<1>4. Back(o) \in Person /\ Back(o).status = o.user.status
    BY <1>2 DEF Back, Person
<1>5. user'.status = user.status
    BY <1>2, <1>3, <1>4, StatusStays
<1>. QED
    BY <1>1, <1>3, <1>5, NotInTheProcess, EndsTold DEF Leaving

(***************************************************************************)
(* The deletion.                                                           *)
(***************************************************************************)
LEMMA DeleteAccountTold == ASSUME Lonely, op[Worker] # Idle, DeleteAccount PROVE TellInv'
<1>1. PICK o : o = op[Worker]
    OBVIOUS
<1>2. o \in Handler /\ Sound(o) /\ Told(o) /\ Worker \in Procs
    BY <1>1, WorkerIsProc, InFlight DEF Lonely, TellInv
<1>3. PICK a \in o.todo :
        /\ o.phase = "delete" /\ UNCHANGED <<user, by>>
        /\ dir' = dir \/ dir' = [dir EXCEPT ![a] = "DELETED"]
        /\ \/ op' = [op EXCEPT ![Worker].todo = @ \ {a}, ![Worker].done = @ \cup {a}]
           \/ op' = [op EXCEPT ![Worker].todo = @ \ {a}, ![Worker].failed = @ \cup {a}]
    BY <1>1 DEF DeleteAccount
<1>4. PICK h : /\ op' = [op EXCEPT ![Worker] = h]
               /\ \/ h = [o EXCEPT !.todo = @ \ {a}, !.done = @ \cup {a}]
                  \/ h = [o EXCEPT !.todo = @ \ {a}, !.failed = @ \cup {a}]
    BY <1>1, <1>2, <1>3 DEF Lonely, DeletionInv, TypeOK
<1>5. h.phase = "delete" /\ h.cur = o.cur /\ h.user = o.user
    BY <1>2, <1>3, <1>4 DEF Handler
<1>6. o.cur # Primary
    BY <1>2, <1>3, ConstantsAssumption DEF Sound, Orderly, Switchable
<1>7. dir'[Primary] = "ACTIVE" => dir[Primary] = "ACTIVE"
    BY <1>3, ConstantsAssumption DEF Lonely, DeletionInv, TypeOK, Switchable
<1>8. user.left /\ user.status = "DISABLED" /\ OnByWhom
    BY <1>2, <1>3, <1>6 DEF Told, DeletesLeavers, Covers
<1>9. Told(h)'
    BY <1>2, <1>3, <1>5, <1>6, <1>7, <1>8 DEF Told, SeenOn, CallMade, DeletesLeavers, OffByWhom, OnByWhom
<1>. QED
    BY <1>1, <1>2, <1>4, <1>5, <1>9, Becomes

LEMMA CommitDeletionsTold == ASSUME Lonely, CommitDeletions PROVE TellInv'
<1>1. PICK o : o = op[Worker]
    OBVIOUS
<1>2. /\ o # Idle /\ o.phase = "delete" /\ UNCHANGED <<user, dir, by>>
      /\ \/ op' = [op EXCEPT ![Worker] = [o EXCEPT !.phase = "mark"]]
         \/ op' = [op EXCEPT ![Worker] = Idle]
    BY <1>1 DEF CommitDeletions
<1>3. o \in Handler /\ Worker \in Procs
    BY <1>1, <1>2, WorkerIsProc, InFlight DEF Lonely
<1>4. CASE op' = [op EXCEPT ![Worker] = Idle]
    BY <1>1, <1>2, <1>3, <1>4, NotInTheProcess, EndsTold
<1>5. CASE op' = [op EXCEPT ![Worker] = [o EXCEPT !.phase = "mark"]]
    <2>1. PICK h : h = [o EXCEPT !.phase = "mark"]
        OBVIOUS
    <2>2. h.phase = "mark" /\ h.cur = o.cur /\ h.user = o.user /\ h.on = o.on /\ ~Covers(o)
        BY <1>2, <1>3, <2>1 DEF Handler, Covers
    <2>. QED
        BY <1>1, <1>2, <1>3, <1>5, <2>1, <2>2, GoesOn
<1>. QED
    BY <1>2, <1>4, <1>5

LEMMA MarkDeletedTold == ASSUME Lonely, MarkDeleted PROVE TellInv'
<1>1. user'.status = "DELETED"
    BY DEF MarkDeleted, Lonely, DeletionInv, TypeOK, Person
<1>. QED
    BY <1>1, WorkerIsProc, Ceases DEF MarkDeleted, OffByWhom, OnByWhom

(***************************************************************************)
(* The surroundings.                                                       *)
(***************************************************************************)
LEMMA SetLeaverDateTold == ASSUME Lonely, NEW p \in Procs, SetLeaverDate(p) PROVE TellInv'
<1>1. MayStart(p, "date") /\ UNCHANGED <<op, dir, by>> /\ \E d : user' = [user EXCEPT !.date = d, !.left = FALSE]
    BY DEF SetLeaverDate
<1>2. user'.status = user.status
    BY <1>1 DEF Lonely, DeletionInv, TypeOK, Person
<1>. QED
    BY <1>1, <1>2, StartsLonely, AsideTold

LEMMA DirectoryChangesTold == ASSUME Lonely, DirectoryChanges PROVE TellInv'
<1>1. PICK a \in Accounts, v \in {"ACTIVE", "DISABLED"} :
        dir' = [dir EXCEPT ![a] = v] /\ by' = [by EXCEPT ![a] = "directory"] /\ UNCHANGED <<user, op>>
    BY DEF DirectoryChanges
<1>2. (dir'[Primary] = dir[Primary] /\ by'[Primary] = by[Primary]) \/ by'[Primary] = "directory"
    BY <1>1, ConstantsAssumption DEF Lonely, DeletionInv, TypeOK, Switchable
<1>. QED
    BY <1>1, <1>2, AsideTold

LEMMA TickTold == ASSUME Lonely, Tick PROVE TellInv'
<1>1. user'.status = user.status /\ user'.left = user.left
    BY DEF Tick, Lonely, DeletionInv, TypeOK, Person
<1>. QED
    BY <1>1, AsideTold DEF Tick

(***************************************************************************)
(* The invariant.                                                          *)
(***************************************************************************)
LEMMA InitTold == Init => TellInv
BY ConstantsAssumption DEF Init, TellInv, OffByWhom, OnByWhom, Switchable

LEMMA AskTold == ASSUME Lonely, NEW p \in Requests, Ask(p) PROVE TellInv'
<1>1. p \in Procs
    BY DEF Procs
<1>2. CASE SetOne(p)
    BY <1>1, <1>2, SetOneTold
<1>3. CASE SetAll(p)
    BY <1>1, <1>3, SetAllTold
<1>4. CASE StartLeaver(p)
    BY <1>1, <1>4, StartLeaverTold
<1>5. CASE ApproveLeaver(p)
    BY <1>1, <1>5, ApproveLeaverTold
<1>6. CASE DenyLeaver(p)
    BY <1>1, <1>6, DenyLeaverTold
<1>7. CASE RequestReturn(p)
    BY <1>7, AsideTold DEF RequestReturn
<1>8. CASE RejectReturn(p)
    BY <1>8, AsideTold DEF RejectReturn
<1>9. CASE ApproveReturn(p)
    BY <1>1, <1>9, ApproveReturnTold
<1>10. CASE SetLeaverDate(p)
    BY <1>1, <1>10, SetLeaverDateTold
<1>11. CASE TerminateByCsv(p)
    BY <1>1, <1>11, TerminateByCsvTold
<1>. QED
    BY <1>2, <1>3, <1>4, <1>5, <1>6, <1>7, <1>8, <1>9, <1>10, <1>11 DEF Ask

LEMMA StepTold == ASSUME Lonely, AnswersArrive, NEW p \in Procs, Step(p) PROVE TellInv'
<1>1. op[p] # Idle
    BY DEF Step
<1>2. CASE CallDirectory(p) \/ CallFails(p)
    BY <1>1, <1>2, CallTold
<1>3. CASE SwitchCommit(p)
    BY <1>1, <1>3, SwitchCommitTold
<1>4. CASE TakeAway(p)
    BY <1>1, <1>4, TakeAwayTold
<1>5. CASE DisableLinked(p)
    BY <1>1, <1>5, DisableLinkedTold
<1>6. CASE DisableAccounts(p)
    BY <1>1, <1>6, DisableAccountsTold
<1>7. CASE FinishLeaving(p)
    BY <1>1, <1>7, FinishLeavingTold
<1>8. CASE RecordDecision(p)
    BY <1>1, <1>8, RecordDecisionTold
<1>9. CASE FinishSetting(p)
    BY <1>1, <1>9, FinishSettingTold
<1>10. CASE FinishStart(p)
    BY <1>1, <1>10, FinishStartTold
<1>11. CASE FinishReturn(p)
    BY <1>1, <1>11, FinishReturnTold
<1>. QED
    BY <1>2, <1>3, <1>4, <1>5, <1>6, <1>7, <1>8, <1>9, <1>10, <1>11 DEF Step

LEMMA NextTold == ASSUME Lonely, AnswersArrive, [Next]_vars PROVE TellInv'
<1>1. CASE \E p \in Requests : Ask(p)
    BY <1>1, AskTold
<1>2. CASE \E p \in Procs : Step(p)
    BY <1>2, StepTold
<1>3. CASE Sweep
    BY <1>3, SweepLeaversTold, SweepDeletionsTold DEF Sweep
<1>4. CASE Deleting
    BY <1>4, DeleteAccountTold, CommitDeletionsTold, MarkDeletedTold DEF Deleting
<1>5. CASE FetchUsers
    BY <1>5, FetchUsersTold
<1>6. CASE ApplyUsers
    BY <1>6, ApplyUsersTold
<1>7. CASE GivenAgain
    BY <1>7, AsideTold DEF GivenAgain
<1>8. CASE DirectoryChanges
    BY <1>8, DirectoryChangesTold
<1>9. CASE Tick
    BY <1>9, TickTold
<1>10. CASE Crash
    BY <1>10 DEF Crash, Fault, AnswersArrive
<1>11. CASE UNCHANGED vars
    BY <1>11, AsideTold DEF vars
<1>. QED
    BY <1>1, <1>2, <1>3, <1>4, <1>5, <1>6, <1>7, <1>8, <1>9, <1>10, <1>11 DEF Next

(***************************************************************************)
(* The two action properties.                                              *)
(***************************************************************************)
LEMMA AskStarts ==
    ASSUME NEW p, Ask(p)
    PROVE  \E name : MayStart(p, name)
<1>1. CASE SetOne(p)
    BY <1>1 DEF SetOne
<1>2. CASE SetAll(p)
    BY <1>2 DEF SetAll
<1>3. CASE StartLeaver(p)
    BY <1>3 DEF StartLeaver
<1>4. CASE ApproveLeaver(p)
    BY <1>4 DEF ApproveLeaver
<1>5. CASE DenyLeaver(p)
    BY <1>5 DEF DenyLeaver
<1>6. CASE RequestReturn(p)
    BY <1>6 DEF RequestReturn
<1>7. CASE RejectReturn(p)
    BY <1>7 DEF RejectReturn
<1>8. CASE ApproveReturn(p)
    BY <1>8 DEF ApproveReturn
<1>9. CASE SetLeaverDate(p)
    BY <1>9 DEF SetLeaverDate
<1>10. CASE TerminateByCsv(p)
    BY <1>10 DEF TerminateByCsv
<1>. QED
    BY <1>1, <1>2, <1>3, <1>4, <1>5, <1>6, <1>7, <1>8, <1>9, <1>10 DEF Ask

\* A handler between its listing and its writes, or in the deletion, takes no step of the others.
LEMMA OtherPhases ==
    ASSUME DeletionInv, NEW p \in Procs, op[p].phase \in {"apply", "delete"}
    PROVE  ~Step(p)
<1>1. op[p] # Idle
    BY DEF Idle
<1>2. op[p].cur = NoAccount
    BY <1>1, InFlight DEF Sound, Orderly
<1>3. ~Switched(p)
    BY DEF Switched
<1>4. ~CallDirectory(p) /\ ~CallFails(p) /\ ~SwitchCommit(p)
    BY <1>2 DEF CallDirectory, CallFails, SwitchCommit
<1>5. ~TakeAway(p) /\ ~DisableLinked(p) /\ ~DisableAccounts(p)
    BY DEF TakeAway, DisableLinked, DisableAccounts
<1>6. ~FinishLeaving(p) /\ ~RecordDecision(p) /\ ~FinishSetting(p) /\ ~FinishStart(p) /\ ~FinishReturn(p)
    BY <1>3 DEF FinishLeaving, RecordDecision, FinishSetting, FinishStart, FinishReturn
<1>. QED
    BY <1>4, <1>5, <1>6 DEF Step

\* While the sync has a listing in hand, it alone takes steps.
LEMMA OnlyApplies ==
    ASSUME Lonely, AnswersArrive, [Next]_vars, op[Syncer].phase = "apply"
    PROVE  ApplyUsers \/ UNCHANGED op
<1>1. op[Syncer] # Idle /\ Syncer \in Procs /\ Worker \in Procs /\ Worker # Syncer
    BY SyncerIsProc, WorkerIsProc DEF Idle, Worker, Syncer
<1>2. ~NobodyBusy /\ op[Worker] = Idle /\ \A p \in Procs : op[p] # Idle => p = Syncer
    BY <1>1 DEF NobodyBusy, Lonely, LockInv, Serial, OneByOne
<1>3. \A p \in Procs : \A name : ~MayStart(p, name)
    BY <1>2, StartsLonely
<1>4. ~\E p \in Requests : Ask(p)
    BY <1>3, AskStarts DEF Procs
<1>5. ~\E p \in Procs : Step(p)
    <2>1. \A p \in Procs : Step(p) => p = Syncer
        BY <1>2 DEF Step
    <2>. QED
        BY <1>1, <2>1, OtherPhases DEF Lonely
<1>6. ~Sweep /\ ~FetchUsers
    BY <1>1, <1>3 DEF Sweep, SweepLeavers, SweepDeletions, FetchUsers
<1>7. ~Deleting /\ ~Crash
    BY <1>2 DEF Deleting, Crash, Fault, AnswersArrive
<1>8. GivenAgain \/ DirectoryChanges \/ Tick => UNCHANGED op
    BY DEF GivenAgain, DirectoryChanges, Tick
<1>. QED
    BY <1>4, <1>5, <1>6, <1>7, <1>8 DEF Next, vars

LEMMA LeaversLose == ASSUME Lonely, AnswersArrive, [Next]_vars PROVE OnlyLeaversLose
<1>1. SUFFICES ASSUME op[Syncer].phase = "apply", op'[Syncer].phase = "take" PROVE by[Primary] = "directory"
    BY DEF OnlyLeaversLose
<1>2. PICK o : o = op[Syncer]
    OBVIOUS
<1>3. o # Idle /\ Syncer \in Procs
    BY <1>1, <1>2, SyncerIsProc DEF Idle
<1>4. o \in Handler /\ Sound(o) /\ Firm(o) /\ Told(o)
    BY <1>2, <1>3, InFlight DEF Lonely, LockInv, AllFirm, TellInv
<1>5. ApplyUsers
    BY <1>1, OnlyApplies
<1>6. op' # [op EXCEPT ![Syncer] = Idle]
    BY <1>1, <1>3 DEF Idle, Lonely, DeletionInv, TypeOK
<1>7. user.status = "ACTIVE" /\ ~o.on
    BY <1>2, <1>5, <1>6 DEF ApplyUsers, SeenDisabled
<1>8. o.cur # Primary
    BY <1>1, <1>2, <1>4, ConstantsAssumption DEF Sound, Orderly, Switchable
<1>. QED
    BY <1>1, <1>2, <1>4, <1>7, <1>8 DEF Told, OffByWhom, Firm, SeenOff

\* Only the deletion deletes.
LEMMA AskSpares == ASSUME NEW p, Ask(p) PROVE UNCHANGED dir
<1>1. CASE SetOne(p)
    BY <1>1 DEF SetOne
<1>2. CASE SetAll(p)
    BY <1>2 DEF SetAll
<1>3. CASE StartLeaver(p)
    BY <1>3 DEF StartLeaver
<1>4. CASE ApproveLeaver(p)
    BY <1>4 DEF ApproveLeaver
<1>5. CASE DenyLeaver(p)
    BY <1>5 DEF DenyLeaver
<1>6. CASE RequestReturn(p)
    BY <1>6 DEF RequestReturn
<1>7. CASE RejectReturn(p)
    BY <1>7 DEF RejectReturn
<1>8. CASE ApproveReturn(p)
    BY <1>8 DEF ApproveReturn
<1>9. CASE SetLeaverDate(p)
    BY <1>9 DEF SetLeaverDate
<1>10. CASE TerminateByCsv(p)
    BY <1>10 DEF TerminateByCsv
<1>. QED
    BY <1>1, <1>2, <1>3, <1>4, <1>5, <1>6, <1>7, <1>8, <1>9, <1>10 DEF Ask

LEMMA StepSpares ==
    ASSUME DeletionInv, NEW p \in Procs, Step(p), NEW a \in Accounts, dir[a] # "DELETED"
    PROVE  dir'[a] # "DELETED"
<1>1. dir \in [Switchable -> Status] /\ a \in Switchable
    BY DEF DeletionInv, TypeOK, Switchable
<1>2. Target(op[p]) # "DELETED"
    BY DEF Target
<1>3. CASE CallDirectory(p)
    <2>1. PICK x : dir' = [dir EXCEPT ![x] = Target(op[p])]
        BY <1>3 DEF CallDirectory
    <2>. QED
        BY <1>1, <1>2, <2>1
<1>4. CASE CallFails(p)
    <2>1. PICK x : UNCHANGED dir \/ dir' = [dir EXCEPT ![x] = Target(op[p])]
        BY <1>4 DEF CallFails
    <2>. QED
        BY <1>1, <1>2, <2>1
<1>5. CASE SwitchCommit(p)
    BY <1>5 DEF SwitchCommit
<1>6. CASE TakeAway(p) \/ DisableLinked(p) \/ DisableAccounts(p)
    BY <1>6 DEF TakeAway, DisableLinked, DisableAccounts
<1>7. CASE FinishLeaving(p) \/ RecordDecision(p) \/ FinishSetting(p)
    BY <1>7 DEF FinishLeaving, RecordDecision, FinishSetting
<1>8. CASE FinishStart(p) \/ FinishReturn(p)
    BY <1>8 DEF FinishStart, FinishReturn
<1>. QED
    BY <1>3, <1>4, <1>5, <1>6, <1>7, <1>8 DEF Step

LEMMA OnlyDeletionDeletes ==
    ASSUME DeletionInv, [Next]_vars, NEW a \in Accounts, dir[a] # "DELETED", dir'[a] = "DELETED"
    PROVE  op[Worker] # Idle /\ DeleteAccount
<1>1. ~\E p \in Requests : Ask(p)
    BY AskSpares
<1>2. ~\E p \in Procs : Step(p)
    BY StepSpares
<1>3. ~SweepLeavers /\ ~SweepDeletions /\ ~FetchUsers /\ ~ApplyUsers
    BY DEF SweepLeavers, SweepDeletions, FetchUsers, ApplyUsers
<1>4. ~GivenAgain /\ ~Tick /\ ~Crash /\ ~UNCHANGED vars
    BY DEF GivenAgain, Tick, Crash, vars
<1>5. ~DirectoryChanges
    BY DEF DirectoryChanges, DeletionInv, TypeOK, Switchable
<1>6. ~CommitDeletions /\ ~MarkDeleted
    BY DEF CommitDeletions, MarkDeleted
<1>. QED
    BY <1>1, <1>2, <1>3, <1>4, <1>5, <1>6 DEF Next, Sweep, Deleting

LEMMA LeftDeleted == ASSUME Lonely, [Next]_vars PROVE OnlyLeftAreDeleted
<1>1. SUFFICES ASSUME NEW a \in Accounts, dir[a] # "DELETED", dir'[a] = "DELETED"
               PROVE  user.left /\ user.status = "DISABLED" /\ (dir[Primary] = "ACTIVE" => by[Primary] # "accesspilot")
    BY DEF OnlyLeftAreDeleted
<1>2. op[Worker] # Idle /\ op[Worker].phase = "delete"
    BY <1>1, OnlyDeletionDeletes DEF Lonely, DeleteAccount
<1>3. Told(op[Worker]) /\ op[Worker].cur # Primary /\ ~Covers(op[Worker])
    BY <1>2, WorkerIsProc, NotInTheProcess DEF Lonely, TellInv
<1>. QED
    BY <1>2, <1>3 DEF Told, DeletesLeavers, OnByWhom

(***************************************************************************)
(* The behaviours TLC explores: at width 1 the steps are those of Leaver.  *)
(***************************************************************************)
LonelyAtOne == width = 1 => Lonely

LEMMA KeepsLonely ==
    ASSUME OneByOne, AnswersArrive, LonelyAtOne, [WideNext]_<<vars, width>>
    PROVE  LonelyAtOne' /\ [width = 1 => OnlyLeaversLose /\ OnlyLeftAreDeleted]_vars
<1>1. width' = width /\ (width = 1 => [Next]_vars)
    BY DEF WideNext
<1>2. ASSUME width = 1
      PROVE  Lonely' /\ OnlyLeaversLose /\ OnlyLeftAreDeleted
    <2>1. Lonely /\ [Next]_vars
        BY <1>1, <1>2 DEF LonelyAtOne
    <2>2. DeletionInv' /\ LockInv' /\ TellInv'
        BY <2>1, NextKeeps, NextFirm, NextTold DEF Lonely, OneByOne, NobodyEnables
    <2>. QED
        BY <2>1, <2>2, LeaversLose, LeftDeleted DEF Lonely, OneByOne
<1>. QED
    BY <1>1, <1>2 DEF LonelyAtOne

\* As long as handlers run one at a time and the directories' answers arrive, the sync starts
\* the leaver process only for a person whom somebody disabled in the directory itself
\* (lifecycle.py:352), and the deletion takes no account of a person who came back: the person
\* has left, is still disabled, and the primary account is not one AccessPilot enabled again
\* (leaver_followup.py:217).
THEOREM OnlyLeaversAlways == ASSUME OneByOne, AnswersArrive PROVE WideSpec => AloneOnlyLeaversLose
<1>1. WideInit => LonelyAtOne
    BY InitSound, InitFirm, InitTold DEF WideInit, LonelyAtOne, Lonely
<1>2. LonelyAtOne /\ [WideNext]_<<vars, width>> => LonelyAtOne'
    BY KeepsLonely
<1>3. LonelyAtOne /\ [WideNext]_<<vars, width>> => [width = 1 => OnlyLeaversLose /\ OnlyLeftAreDeleted]_vars
    BY KeepsLonely
<1>. QED
    BY <1>1, <1>2, <1>3, PTL DEF WideSpec, AloneOnlyLeaversLose
=============================================================================
